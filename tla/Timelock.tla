------------------------------ MODULE Timelock ------------------------------
(***************************************************************************)
(* What every timelocked operation of the contracts promises, whatever it  *)
(* does when it finally runs: one proposal at a time, an execution only of *)
(* the proposal that is pending and only once its delay has elapsed, at    *)
(* most one execution per proposal, and a replaced proposal waits all over *)
(* again.  The vault's escape-hatch slots implement it.                    *)
(***************************************************************************)
EXTENDS Integers

CONSTANTS
    None,       \* the empty slot
    MinDelay    \* the shortest delay a proposal may have

VARIABLES
    now,        \* ledger time
    slot,       \* None, or [payload, proposed_at, execute_after]
    applied     \* the payload of the last execution

vars == <<now, slot, applied>>

Init == slot = None /\ applied = None

\* A fresh proposal, or a replacement: in both cases the clock starts now.
Propose ==
    /\ slot' # None
    /\ slot'.proposed_at = now
    /\ slot'.execute_after >= now + MinDelay
    /\ UNCHANGED <<now, applied>>

Cancel ==
    /\ slot # None
    /\ slot' = None
    /\ UNCHANGED <<now, applied>>

Execute ==
    /\ slot # None
    /\ now >= slot.execute_after
    /\ slot' = None
    /\ applied' = slot.payload
    /\ UNCHANGED now

Tick ==
    /\ now' > now
    /\ UNCHANGED <<slot, applied>>

Next == Propose \/ Cancel \/ Execute \/ Tick

Spec == Init /\ [][Next]_vars
=============================================================================
