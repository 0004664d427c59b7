---------------------------- MODULE TwoStepRole -----------------------------
(***************************************************************************)
(* What a two-step role transfer promises: once appointed, a role changes  *)
(* hands only when its current nominee takes it, and a nomination is used  *)
(* at most once.                                                           *)
(***************************************************************************)
CONSTANT None

VARIABLES
    holder,     \* who has the role; None before initialisation
    nominee     \* who may accept it; None when no transfer is pending

vars == <<holder, nominee>>

Init == holder = None /\ nominee = None

Appoint ==
    /\ holder = None
    /\ holder' # None
    /\ UNCHANGED nominee

Nominate ==
    /\ holder # None
    /\ nominee' # None
    /\ UNCHANGED holder

Accept ==
    /\ nominee # None
    /\ holder' = nominee
    /\ nominee' = None

Withdraw ==
    /\ nominee # None
    /\ nominee' = None
    /\ UNCHANGED holder

Next == Appoint \/ Nominate \/ Accept \/ Withdraw

Spec == Init /\ [][Next]_vars
=============================================================================
