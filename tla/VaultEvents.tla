---------------------------- MODULE VaultEvents -----------------------------
(***************************************************************************)
(* The events of the vault, and what a watcher knows who reads nothing     *)
(* else: the point of an escape hatch is that users see it coming.         *)
(*                                                                         *)
(* Only the hatches, set_timelock_window and set_reserve_cap publish; init,*)
(* deposits, deductions, the owner's pause, unpause and settings and the   *)
(* hand-over of the admin role do not.                                     *)
(***************************************************************************)
EXTENDS VaultProperties

VARIABLE seen

wvars == <<vars, seen>>

Topics == [
    pauseProposed   |-> "pause_proposed",
    pauseExecuted   |-> "pause_executed",
    pauseCancelled  |-> "pause_cancelled",
    upgradeProposed |-> "upgrade_proposed",
    upgradeExecuted |-> "upgrade_executed",
    upgradeCancelled |-> "upgrade_cancelled",
    sweepProposed   |-> "sweep_proposed",
    sweepExecuted   |-> "sweep_executed",
    sweepCancelled  |-> "sweep_cancelled",
    windowChanged   |-> "tl_window_changed",
    rescueFunds     |-> "rescue_funds",     \* published by no call
    reserveCapSet   |-> "reserve_cap_set"]

Proposed == [pause |-> Topics.pauseProposed, upgrade |-> Topics.upgradeProposed,
             sweep |-> Topics.sweepProposed]
Closed == [pause   |-> {Topics.pauseExecuted, Topics.pauseCancelled},
           upgrade |-> {Topics.upgradeExecuted, Topics.upgradeCancelled},
           sweep   |-> {Topics.sweepExecuted, Topics.sweepCancelled}]

\* A slot's topics are its own: the watcher keeps three slots apart.
Heard(w, topic, data) == [
    pending |-> [h \in Hatches |-> CASE topic = Proposed[h] -> data
                                     [] topic \in Closed[h] -> None
                                     [] OTHER -> w.pending[h]],
    window  |-> IF topic = Topics.windowChanged THEN data.new ELSE w.window,
    cap     |-> IF topic = Topics.reserveCapSet THEN data ELSE w.cap]

\* The views of the two settings that the watcher follows.
GetTimelockWindow == window
GetReserveCap == reserveCap

\* No call publishes more than one event.
Publish(topic, data) == seen' = Heard(seen, topic, data)

-----------------------------------------------------------------------------
(* Each publishing call, with its events.                                  *)

\* The window is read back after it was set: both halves say the new one.
WSetTimelockWindow(u, w) ==
    SetTimelockWindow(u, w) /\ Publish(Topics.windowChanged, [old |-> w, new |-> w])

WSetReserveCap(u, cap) == SetReserveCap(u, cap) /\ Publish(Topics.reserveCapSet, cap)

WPropose(hatch) == Publish(Proposed[hatch], pending'[hatch])

\* Published even when nothing was pending.
WCancelPause(u) ==
    Cancel(u, "pause") /\ Publish(Topics.pauseCancelled, pending["pause"] # None)
WCancelUpgrade(u) ==
    Cancel(u, "upgrade") /\ Publish(Topics.upgradeCancelled, pending["upgrade"] # None)
WCancelSweep(u) ==
    Cancel(u, "sweep") /\ Publish(Topics.sweepCancelled, pending["sweep"] # None)

WExecutePauseAsPaused(u) == ExecutePause(u) /\ UNCHANGED seen
WExecutePause(u) == ExecutePause(u) /\ Publish(Topics.pauseExecuted, now)
WExecuteUpgrade(u) == ExecuteUpgrade(u) /\ Publish(Topics.upgradeExecuted, now)
WExecuteSweep(u) ==
    ExecuteSweep(u) /\ Publish(Topics.sweepExecuted, pending["sweep"].payload)

WAdministrationStep ==
    \/ /\ \/ AcceptAdmin
          \/ \E u \in Users :
               \/ SetAuthorizedCaller(u)
               \/ Pause(u)
               \/ Unpause(u)
               \/ \E n \in Limits : SetMaxDeduct(u, n)
               \/ \E s \in Addrs : SetSettlement(u, s)
               \/ \E n \in Nominees : SetAdmin(u, n)
       /\ UNCHANGED seen
    \/ \E u \in Users :
         \/ \E n \in Caps : WSetReserveCap(u, n)
         \/ \E w \in Windows : WSetTimelockWindow(u, w)
         \/ ProposePause(u) /\ WPropose("pause")
         \/ \E hash \in Hashes : ProposeUpgrade(u, hash) /\ WPropose("upgrade")
         \/ \E to \in Addrs, amount \in Amounts : ProposeSweep(u, to, amount) /\ WPropose("sweep")
         \/ WCancelPause(u)
         \/ WCancelUpgrade(u)
         \/ WCancelSweep(u)
         \/ WExecutePause(u)
         \/ WExecuteUpgrade(u)

WSilentMoney ==
    /\ \/ \E u \in Users, amount \in Amounts : Deposit(u, amount)
       \/ \E u \in Users, amount \in Amounts, id \in RequestIds : Deduct(u, amount, id)
       \/ \E u \in Users, items \in Batches : BatchDeduct(u, items)
    /\ UNCHANGED seen

WInit ==
    /\ Init
    /\ seen = [pending |-> pending, window |-> window, cap |-> reserveCap]

WNext ==
    \/ WAdministrationStep
    \/ WSilentMoney
    \/ \E u \in Sweepers : WExecuteSweep(u)
    \/ (DeploymentStep \/ ExternalStep) /\ UNCHANGED seen

WFairSpec == WInit /\ [][WNext]_wvars /\ WF_vars(Tick)

-----------------------------------------------------------------------------
\* A watcher of the events knows every pending proposal with its deadline, the window
\* that the next one will wait and the reserve cap, at any time: no hatch can open that
\* the events did not announce, and none stays announced that cannot open
\* (propose_*, execute_*, cancel_*, set_timelock_window, set_reserve_cap).
WatcherSeesEveryHatch ==
    seen = [pending |-> pending, window |-> GetTimelockWindow, cap |-> GetReserveCap]
=============================================================================
