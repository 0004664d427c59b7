----------------------------- MODULE MCBilling -----------------------------
(* Two charges of one developer, one of another, one for the pool. *)
EXTENDS Billing

Charge(dev, n) == [developer |-> dev, amount |-> n]
SomeCharges == <<Charge(1, 1), Charge(1, 1), Charge(2, 1), Charge(None, 1)>>
NoGenesis == {[t \in Tokens |-> 0]}
=============================================================================
