-------------------------- MODULE MCSettlementWalks --------------------------
(* Values of the V1 contracts that are upgraded. *)
EXTENDS SettlementWalks

V1(devs, amounts, v, token, configured) ==
    [index |-> devs, legacy |-> amounts, admin |-> Operator, vault |-> v, token |-> token,
     usdcToken |-> IF configured THEN token ELSE None]

\* With the index in either order, and before a token is configured.
DeployedV1 ==
    LET v == CHOOSE p \in Principals : p # Operator
        t == CHOOSE token \in Tokens : TRUE
    IN  {V1(<<1, 3>>, [d \in Devs |-> IF d = 2 THEN 0 ELSE 1], v, t, TRUE),
         V1(<<3, 2>>, [d \in Devs |-> IF d = 1 THEN 0 ELSE 1], v, t, TRUE),
         V1(<<2, 3>>, [d \in Devs |-> IF d = 3 THEN 1 ELSE 0], v, t, FALSE)}

OneEach == {[t \in Tokens |-> 1]}
=============================================================================
