---------------------------- MODULE MCSettlement ----------------------------
(* Values for the constants of Settlement that a cfg cannot write. *)
EXTENDS SettlementHistory

GenesisEmpty == {[t \in Tokens |-> 0]}
GenesisFunded == {[t \in Tokens |-> 2]}
\* The roles are not distinguished until init names them, and nothing orders them.
SwapPrincipals == Permutations(Principals)

\* State constraint: developer 1 has every combination of limits, the others have
\* none; a payout reads only the limits of the developer that it pays.
LimitsOnlyForOne ==
    \A d \in Devs \ {1} :
        dailyCap[d] = 0 /\ minBalance[d] = 0 /\ claimWindow[d] = None
=============================================================================
