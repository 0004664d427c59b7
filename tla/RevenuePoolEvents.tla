------------------------- MODULE RevenuePoolEvents --------------------------
(***************************************************************************)
(* The events of the revenue pool and the books that a treasury monitor    *)
(* keeps from them: roles, switches, the pending drain, and what the pool  *)
(* holds, each payout counted once.                                        *)
(***************************************************************************)
EXTENDS Integers, Sequences

Topics == [
    init            |-> "init",
    adminChanged    |-> "admin_changed",            \* says who is nominated
    transferStarted |-> "admin_transfer_started",
    transferDone    |-> "admin_transfer_completed",
    adminCancelled  |-> "admin_cancelled",
    guardianSet     |-> "pause_guardian_set",
    guardianCleared |-> "pause_guardian_cleared",
    pauseSet        |-> "pause_set",
    receivePayment  |-> "receive_payment",          \* moves no token
    yieldDeposited  |-> "yield_deposited",
    treasuryStarted |-> "treasury_transfer_started",    \* published by no call, as the
    treasuryDone    |-> "treasury_transfer_completed",  \* next two: there is no
    treasuryCancelled |-> "treasury_cancelled",         \* treasury role
    setMaxDistribute |-> "set_max_distribute",
    distribute      |-> "distribute",
    batchDistribute |-> "batch_distribute",
    upgraded        |-> "upgraded",
    broadcast       |-> "admin_broadcast",
    drainProposed   |-> "emergency_drain_proposed",
    drainExecuted   |-> "emergency_drain_executed",
    drainCancelled  |-> "emergency_drain_cancelled"]

Event(topic, data) == [topic |-> topic, data |-> data]

EmptyBooks(none, max, holding) == [
    admin |-> none, nominee |-> none, guardian |-> none, usdcToken |-> none,
    version |-> none, paused |-> FALSE, maxDistribute |-> max, yield |-> 0, drain |-> none,
    holding |-> holding]    \* USDC, arrivals from outside included

Heard(b, e, none) ==
    CASE e.topic = Topics.init -> [b EXCEPT !.admin = e.data.admin, !.usdcToken = e.data.token]
      [] e.topic \in {Topics.adminChanged, Topics.transferStarted} -> [b EXCEPT !.nominee = e.data]
      [] e.topic = Topics.transferDone    -> [b EXCEPT !.admin = e.data, !.nominee = none]
      [] e.topic = Topics.adminCancelled  -> [b EXCEPT !.nominee = none]
      [] e.topic = Topics.guardianSet     -> [b EXCEPT !.guardian = e.data]
      [] e.topic = Topics.guardianCleared -> [b EXCEPT !.guardian = none]
      [] e.topic = Topics.pauseSet        -> [b EXCEPT !.paused = e.data]
      [] e.topic = Topics.receivePayment  -> b
      [] e.topic = Topics.yieldDeposited  -> [b EXCEPT !.yield = e.data.total, !.holding = @ + e.data.amount]
      [] e.topic = Topics.setMaxDistribute -> [b EXCEPT !.maxDistribute = e.data]
      [] e.topic \in {Topics.distribute, Topics.batchDistribute} -> [b EXCEPT !.holding = @ - e.data]
      [] e.topic = Topics.upgraded        -> [b EXCEPT !.version = e.data]
      [] e.topic = Topics.broadcast       -> b
      [] e.topic = Topics.drainProposed   -> [b EXCEPT !.drain = e.data]
      [] e.topic = Topics.drainExecuted   -> [b EXCEPT !.drain = none, !.holding = @ - e.data.amount]
      [] e.topic = Topics.drainCancelled  -> [b EXCEPT !.drain = none]

\* The books after each of these events.
BooksAfter(b, events, none) ==
    LET heard[i \in 0..Len(events)] == IF i = 0 THEN b ELSE Heard(heard[i - 1], events[i], none)
    IN  heard
=============================================================================
