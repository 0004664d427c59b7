---------------------------- MODULE VaultHistory ----------------------------
(***************************************************************************)
(* The vault with a record of what has happened to it, which the contract  *)
(* does not keep: which request ids have been charged, how it was opened,  *)
(* whether the admin followed the preview of the idle balance when it      *)
(* proposed a sweep.  The history variables constrain nothing: every step  *)
(* is a step of Vault and every step of Vault is one.                      *)
(***************************************************************************)
EXTENDS VaultEvents

VARIABLES
    opening,        \* the surplus right after init
    previewed,      \* was the pending sweep within the idle balance when it was proposed?
    sweptBlind,     \* has a sweep that was not taken USDC out of the vault?
    charged,        \* request ids that a deduction has carried
    recharged       \* request ids that two deductions, or two items, have carried

history == <<opening, previewed, sweptBlind, charged, recharged>>
hvars == <<wvars, history>>

Ids(items) == {items[i].request_id : i \in DOMAIN items}
Repeated(items) ==
    {id \in Ids(items) : \E i, j \in DOMAIN items :
        i # j /\ items[i].request_id = id /\ items[j].request_id = id}

Record(items) ==
    /\ charged' = charged \cup Ids(items)
    /\ recharged' = recharged \cup Repeated(items) \cup (charged \cap Ids(items))
    /\ UNCHANGED <<opening, previewed, sweptBlind, seen>>

HInit ==
    /\ WInit
    /\ opening = 0 /\ previewed = FALSE /\ sweptBlind = FALSE
    /\ charged = {} /\ recharged = {}

HDeployment ==
    /\ DeploymentStep
    /\ opening' = Surplus'
    /\ UNCHANGED <<previewed, sweptBlind, charged, recharged, seen>>

HDeduct ==
    \E u \in Users, amount \in Amounts, id \in RequestIds :
        Deduct(u, amount, id) /\ Record(<<[amount |-> amount, request_id |-> id]>>)

HBatchDeduct ==
    \E u \in Users, items \in Batches : BatchDeduct(u, items) /\ Record(items)

HSweep ==
    /\ \E u \in Sweepers : WExecuteSweep(u)
    /\ sweptBlind' = (sweptBlind \/ (~previewed /\ usdc'[VaultAddr] # usdc[VaultAddr]))
    /\ UNCHANGED <<opening, previewed, charged, recharged>>

HDeposit == \E u \in Users, amount \in Amounts : Deposit(u, amount) /\ UNCHANGED <<history, seen>>
HAdministration ==
    /\ WAdministrationStep
    /\ previewed' =
         IF pending'["sweep"] \in {None, pending["sweep"]} THEN previewed
         ELSE pending'["sweep"].payload.amount <= IdleBalance
    /\ UNCHANGED <<opening, sweptBlind, charged, recharged>>
HExternal == ExternalStep /\ UNCHANGED <<history, seen>>

HNext ==
    HDeployment \/ HDeduct \/ HBatchDeduct \/ HSweep \/ HDeposit \/ HAdministration \/ HExternal

HSpec == HInit /\ [][HNext]_hvars

-----------------------------------------------------------------------------
\* A vault that was opened with enough USDC to cover initial_balance can pay its whole
\* tracked balance at any time, sweeps included, as long as no sweep was proposed for more
\* than dry_run_sweep_idle_balance said at that moment: deposits, deductions, changes of
\* the settlement address and the long wait until the sweep runs do not make that answer
\* stale ("lets indexers, dashboards, and admins inspect what a sweep would move": views.rs).
CoveredDespiteSweeps ==
    (owner # None /\ opening >= 0 /\ ~sweptBlind) => usdc[VaultAddr] >= balance

\* "rejects any subsequent call that carries the same request_id" (lib.rs): no
\* request id is charged twice, by deduct or by batch_deduct.
NoRequestChargedTwice == recharged = {}
=============================================================================
