---------------------------- MODULE VaultProofs -----------------------------
(***************************************************************************)
(* Proofs about the vault, for every set of users, every amount, every     *)
(* limit and window and every width of the integers.                       *)
(*                                                                         *)
(* The inductive invariant is TypeOK /\ DelayHonoured: a deadline is a     *)
(* proposal's time plus the window of that moment, so DelayHonoured leans  *)
(* on TypeOK's bounds for the window.  What a step may never do to the     *)
(* vault's money, its upgrades and its admin role follows from TypeOK in   *)
(* the state before the step, one kind of step at a time.                  *)
(*                                                                         *)
(* A pause that stops deposits needs besides that a vault without an owner *)
(* is not paused.  What a watcher knows from the events is inductive with  *)
(* the types of the slots.                                                 *)
(*                                                                         *)
(* Solvency: a vault that opened covered can pay its tracked balance if no *)
(* sweep was proposed for more than the idle balance of that moment.  The  *)
(* state alone does not say how the vault opened or what the preview was,  *)
(* so the induction is over VaultHistory: a pending sweep that followed    *)
(* the preview stays within the surplus for as long as it waits, because   *)
(* nothing but sweeps lowers the surplus and only one can be pending.      *)
(***************************************************************************)
EXTENDS VaultHistory, TLAPS

-----------------------------------------------------------------------------
(* The USDC ledger.                                                        *)

\* A transfer keeps every token balance in the i128 range.
LEMMA TransferTyped ==
    ASSUME usdc \in [Addrs -> NatAmount],
           NEW from \in Addrs, NEW to \in Addrs, NEW amount \in Int,
           Transfer(from, to, amount)
    PROVE  usdc' \in [Addrs -> NatAmount]
<1>1. CASE from = to
  BY <1>1 DEF Transfer, Transferred
<1>2. CASE from # to
  <2>1. amount >= 0 /\ usdc[from] >= amount /\ usdc[to] + amount <= I128Max
    BY <1>2 DEF Transfer, Transferable
  <2>2. usdc' = [usdc EXCEPT ![from] = @ - amount, ![to] = @ + amount]
    BY <1>2 DEF Transfer, Transferred
  <2>3. usdc[from] - amount \in NatAmount /\ usdc[to] + amount \in NatAmount
    BY <2>1, WidthAssumption DEF NatAmount
  <2> QED BY <1>2, <2>2, <2>3
<1> QED BY <1>1, <1>2
\* What a deduction collects leaves the state well typed, batch or single: the
\* total has been checked against the balance and the token against the ledger.
LEMMA CollectTyped ==
    ASSUME TypeOK, owner # None, NEW total \in Int, total >= 0, Collect(total)
    PROVE  TypeOK'
<1>1. usdc' \in [Addrs -> NatAmount]
  BY TransferTyped DEF TypeOK, Collect, Addrs
<1>2. balance' \in Amount
  <2>1. balance \in Int /\ balance >= total /\ balance <= I128Max
    BY WidthAssumption DEF TypeOK, Collect, Covers, Amount
  <2> QED BY <2>1, WidthAssumption DEF Collect, Amount
<1> QED BY <1>1, <1>2 DEF TypeOK, Collect, roles, config, hatches

-----------------------------------------------------------------------------
(* Type correctness.                                                       *)

\* An empty contract is well typed.
LEMMA InitTyped == Init => TypeOK
<1> SUFFICES ASSUME Init PROVE TypeOK
  OBVIOUS
<1>1. DEFAULT_TIMELOCK_SECONDS \in MIN_TIMELOCK_SECONDS .. MAX_TIMELOCK_SECONDS
  BY TimelockAssumption
<1>2. usdc \in [Addrs -> NatAmount]
  BY GenesisAssumption DEF Init, NatAmount
<1>3. pending \in [Hatches -> {None} \cup Proposal]
  BY DEF Init
<1>4. pending["upgrade"] = None /\ pending["sweep"] = None
  BY DEF Init, Hatches
<1>5. balance \in Amount /\ now \in 0..U64Max
      /\ minDeposit \in NatAmount /\ maxDeduct \in NatAmount /\ reserveCap \in NatAmount
  BY WidthAssumption DEF Init, Amount, NatAmount
<1> QED BY <1>1, <1>2, <1>3, <1>4, <1>5 DEF Init, TypeOK

\* A new proposal of the right kind.
LEMMA ProposeTyped ==
    ASSUME TypeOK, NEW u \in Users, NEW hatch \in Hatches,
           NEW payload \in {None} \cup Hashes \cup Payout,
           hatch = "upgrade" => payload \in Hashes,
           hatch = "sweep" => payload \in Payout,
           Propose(u, hatch, payload)
    PROVE  TypeOK'
<1> DEFINE p == [payload |-> payload, proposed_at |-> now, execute_after |-> now + window]
<1>1. now \in Nat /\ window \in Nat
  BY WidthAssumption, TimelockAssumption DEF TypeOK
<1>2. p \in Proposal
  BY <1>1 DEF Proposal
<1>3. pending' = [pending EXCEPT ![hatch] = p]
  BY DEF Propose
<1>4. pending' \in [Hatches -> {None} \cup Proposal]
  BY <1>2, <1>3 DEF TypeOK
<1>5. pending'["upgrade"] # None => pending'["upgrade"].payload \in Hashes
  BY <1>3 DEF TypeOK, Hatches
<1>6. pending'["sweep"] # None => pending'["sweep"].payload \in Payout
  BY <1>3 DEF TypeOK, Hatches
<1> QED BY <1>4, <1>5, <1>6 DEF TypeOK, Propose, roles, config, funds

\* Emptying a slot.
LEMMA ClearTyped ==
    ASSUME TypeOK, NEW hatch \in Hatches, pending' = [pending EXCEPT ![hatch] = None]
    PROVE  /\ pending' \in [Hatches -> {None} \cup Proposal]
           /\ pending'["upgrade"] # None => pending'["upgrade"].payload \in Hashes
           /\ pending'["sweep"] # None => pending'["sweep"].payload \in Payout
BY DEF TypeOK, Hatches

\* Administration keeps the types.
LEMMA AdministrationTyped ==
    ASSUME TypeOK, AdministrationStep
    PROVE  TypeOK'
<1>1. ASSUME NEW u \in Users, SetAuthorizedCaller(u) PROVE TypeOK'
  BY <1>1 DEF TypeOK, SetAuthorizedCaller, config, funds, hatches, Addrs
<1>2. ASSUME NEW u \in Users, Pause(u) \/ Unpause(u) PROVE TypeOK'
  BY <1>2 DEF TypeOK, Pause, Unpause, roles, config, funds, hatches
<1>3. ASSUME NEW u \in Users, NEW n \in Limits, SetMaxDeduct(u, n) PROVE TypeOK'
  <2>1. n \in NatAmount
    BY <1>3, InputAssumption, WidthAssumption DEF SetMaxDeduct, NatAmount
  <2> QED BY <1>3, <2>1 DEF TypeOK, SetMaxDeduct, roles, funds, hatches
<1>4. ASSUME NEW u \in Users, NEW n \in Caps, SetReserveCap(u, n) PROVE TypeOK'
  <2>1. n \in NatAmount
    BY <1>4, InputAssumption, WidthAssumption DEF SetReserveCap, NatAmount
  <2> QED BY <1>4, <2>1 DEF TypeOK, SetReserveCap, roles, funds, hatches
<1>5. ASSUME NEW u \in Users, NEW s \in Addrs, SetSettlement(u, s) PROVE TypeOK'
  BY <1>5 DEF TypeOK, SetSettlement, roles, funds, hatches
<1>6. ASSUME NEW u \in Users, NEW n \in Nominees, SetAdmin(u, n) PROVE TypeOK'
  <2>1. owner # None /\ n \in Users
    BY <1>6, InputAssumption DEF TypeOK, SetAdmin, AdminCalls
  <2> QED BY <1>6, <2>1 DEF TypeOK, SetAdmin, config, funds, hatches
<1>7. ASSUME NEW u \in Users, NEW w \in Windows, SetTimelockWindow(u, w) PROVE TypeOK'
  <2>1. w \in MIN_TIMELOCK_SECONDS .. MAX_TIMELOCK_SECONDS
    BY <1>7, InputAssumption, TimelockAssumption DEF SetTimelockWindow, WindowInRange
  <2> QED BY <1>7, <2>1 DEF TypeOK, SetTimelockWindow, roles, config, funds
<1>8. ASSUME NEW u \in Users, ProposePause(u) PROVE TypeOK'
  BY <1>8, ProposeTyped DEF ProposePause, Hatches
<1>9. ASSUME NEW u \in Users, NEW hash \in Hashes, ProposeUpgrade(u, hash) PROVE TypeOK'
  BY <1>9, ProposeTyped DEF ProposeUpgrade, Hatches
<1>10. ASSUME NEW u \in Users, NEW to \in Addrs, NEW amount \in Amounts,
              ProposeSweep(u, to, amount)
       PROVE  TypeOK'
  <2>1. [to |-> to, amount |-> amount] \in Payout
    BY InputAssumption DEF Payout
  <2> QED BY <1>10, <2>1, ProposeTyped DEF ProposeSweep, Hatches
<1>11. ASSUME NEW u \in Users, NEW h \in Hatches, Cancel(u, h) PROVE TypeOK'
  BY <1>11, ClearTyped DEF TypeOK, Cancel, roles, config, funds
<1>12. ASSUME NEW u \in Users, ExecutePause(u) PROVE TypeOK'
  <2>1. "pause" \in Hatches
    BY DEF Hatches
  <2> QED BY <1>12, <2>1, ClearTyped DEF TypeOK, ExecutePause, roles, config, funds
<1>13. ASSUME NEW u \in Users, ExecuteUpgrade(u) PROVE TypeOK'
  <2>1. "upgrade" \in Hatches
    BY DEF Hatches
  <2>2. contractVersion' \in Hashes
    BY <1>13 DEF TypeOK, ExecuteUpgrade, Matured
  <2> QED BY <1>13, <2>1, <2>2, ClearTyped DEF TypeOK, ExecuteUpgrade, roles, config, funds
<1>14. ASSUME AcceptAdmin PROVE TypeOK'
  BY <1>14 DEF TypeOK, AcceptAdmin, config, funds, hatches, Addrs
<1> QED
  BY <1>1, <1>2, <1>3, <1>4, <1>5, <1>6, <1>7, <1>8, <1>9, <1>10, <1>11, <1>12, <1>13, <1>14
  DEF AdministrationStep

\* Every step keeps the types.
LEMMA NextTyped ==
    ASSUME TypeOK, Next
    PROVE  TypeOK'
<1>1. ASSUME NEW o \in Users, NEW caller \in Users, NEW startWith \in Openings,
             NEW min \in Limits, NEW max \in Limits, NEW s \in Addrs,
             InitVault(o, startWith, caller, min, max, s)
      PROVE  TypeOK'
  <2>1. startWith \in Amount /\ min \in NatAmount /\ max \in NatAmount
    BY <1>1, InputAssumption, WidthAssumption DEF InitVault, Amount, NatAmount
  <2> QED BY <1>1, <2>1 DEF TypeOK, InitVault, hatches, Addrs
<1>2. ASSUME AdministrationStep PROVE TypeOK'
  BY <1>2, AdministrationTyped
<1>3. ASSUME NEW u \in Users, NEW amount \in Amounts, Deposit(u, amount) PROVE TypeOK'
  <2>1. usdc' \in [Addrs -> NatAmount]
    BY <1>3, TransferTyped, InputAssumption DEF TypeOK, Deposit, Addrs
  <2>2. balance + amount \in Amount
    BY <1>3, InputAssumption, WidthAssumption DEF TypeOK, Deposit, Fits, Amount
  <2> QED BY <1>3, <2>1, <2>2 DEF TypeOK, Deposit, roles, config, hatches
<1>4. ASSUME NEW u \in Users, NEW amount \in Amounts, NEW id, Deduct(u, amount, id)
      PROVE  TypeOK'
  BY <1>4, CollectTyped, InputAssumption DEF Deduct, InService, Initialised, ValidDeduct
<1>5. ASSUME NEW u \in Users, NEW items, BatchDeduct(u, items) PROVE TypeOK'
  BY <1>5, CollectTyped, WidthAssumption DEF BatchDeduct, InService, Initialised
<1>6. ASSUME NEW u \in Users, ExecuteSweep(u) PROVE TypeOK'
  <2>1. "sweep" \in Hatches
    BY DEF Hatches
  <2>2. usdc' \in [Addrs -> NatAmount]
    BY <1>6, TransferTyped DEF TypeOK, ExecuteSweep, Matured, Payout, Addrs
  <2> QED BY <1>6, <2>1, <2>2, ClearTyped DEF TypeOK, ExecuteSweep, roles, config
<1>7. ASSUME NEW from \in Users, NEW to \in Addrs, NEW amount \in Amounts,
             ExternalTransfer(from, to, amount)
      PROVE  TypeOK'
  <2>1. usdc' \in [Addrs -> NatAmount]
    BY <1>7, TransferTyped, InputAssumption DEF TypeOK, ExternalTransfer, Addrs
  <2> QED BY <1>7, <2>1 DEF TypeOK, ExternalTransfer, roles, config, hatches
<1>8. ASSUME Tick PROVE TypeOK'
  <2>1. now' \in 0..U64Max
    BY <1>8, WidthAssumption DEF TypeOK, Tick
  <2> QED BY <1>8, <2>1 DEF TypeOK, Tick, roles, config, funds, hatches
<1> QED
  BY <1>1, <1>2, <1>3, <1>4, <1>5, <1>6, <1>7, <1>8
  DEF Next, DeploymentStep, MoneyStep, Sweepers, ExternalStep

\* So does no step.
LEMMA StutterTyped == TypeOK /\ UNCHANGED vars => TypeOK'
BY DEF TypeOK, vars, roles, config, funds, hatches

\* In every reachable state, balances fit an i128, the window is within its bounds and
\* each hatch holds a proposal of its own kind: no call of the vault, in any order and
\* with any arguments, leaves the state badly typed.
THEOREM TypeCorrect == Spec => []TypeOK
<1>1. TypeOK /\ [Next]_vars => TypeOK'
  BY NextTyped, StutterTyped
<1> QED BY InitTyped, <1>1, PTL DEF Spec

-----------------------------------------------------------------------------
(* The delay of the escape hatches.                                        *)

\* A step that leaves a slot alone, or empties it, keeps its promise.
LEMMA DelayKept ==
    ASSUME TypeOK, TypeOK', DelayHonoured, now' >= now,
           \A h \in Hatches : pending'[h] = pending[h] \/ pending'[h] = None
    PROVE  DelayHonoured'
<1> SUFFICES ASSUME NEW h \in Hatches, pending'[h] # None
             PROVE  /\ pending'[h].proposed_at <= now'
                    /\ pending'[h].execute_after - pending'[h].proposed_at
                         \in MIN_TIMELOCK_SECONDS .. MAX_TIMELOCK_SECONDS
                    /\ pending'[h].execute_after <= U64Max
  BY DEF DelayHonoured
<1>1. pending'[h] = pending[h] /\ pending[h] \in Proposal
  BY DEF TypeOK
<1>2. pending[h].proposed_at \in Nat
  BY <1>1 DEF Proposal
<1>3. pending[h].proposed_at <= now'
  BY <1>1, <1>2, WidthAssumption DEF DelayHonoured, TypeOK
<1> QED BY <1>1, <1>3 DEF DelayHonoured

\* A new proposal is timed from now, by a window within its bounds, and its deadline
\* has been checked against the u64 range.
LEMMA ProposeDelayed ==
    ASSUME TypeOK, DelayHonoured, NEW u, NEW hatch \in Hatches, NEW payload,
           Propose(u, hatch, payload)
    PROVE  DelayHonoured'
<1>1. now \in Nat /\ window \in Nat /\ window \in MIN_TIMELOCK_SECONDS .. MAX_TIMELOCK_SECONDS
  BY WidthAssumption, TimelockAssumption DEF TypeOK
<1>2. pending' = [pending EXCEPT ![hatch] =
                    [payload |-> payload, proposed_at |-> now, execute_after |-> now + window]]
      /\ now' = now /\ now + window <= U64Max
  BY DEF Propose, DeadlineFits
<1> SUFFICES ASSUME NEW h \in Hatches, pending'[h] # None
             PROVE  /\ pending'[h].proposed_at <= now'
                    /\ pending'[h].execute_after - pending'[h].proposed_at
                         \in MIN_TIMELOCK_SECONDS .. MAX_TIMELOCK_SECONDS
                    /\ pending'[h].execute_after <= U64Max
  BY DEF DelayHonoured
<1>3. CASE h = hatch
  <2>1. pending'[h].proposed_at = now /\ pending'[h].execute_after = now + window
    BY <1>2, <1>3 DEF TypeOK
  <2> QED BY <1>1, <1>2, <2>1
<1>4. CASE h # hatch
  BY <1>2, <1>4 DEF TypeOK, DelayHonoured
<1> QED BY <1>3, <1>4

\* Every step leaves pending proposals their delay.
LEMMA NextDelayed ==
    ASSUME TypeOK, DelayHonoured, Next
    PROVE  DelayHonoured'
<1>t. TypeOK' /\ now \in Nat
  BY NextTyped, WidthAssumption DEF TypeOK
<1>1. ASSUME NEW u \in Users, NEW hatch \in Hatches, NEW payload, Propose(u, hatch, payload)
      PROVE  DelayHonoured'
  BY <1>1, ProposeDelayed
<1>2. ASSUME NEW h \in Hatches, pending' = [pending EXCEPT ![h] = None], now' = now
      PROVE  DelayHonoured'
  <2>1. \A g \in Hatches : pending'[g] = pending[g] \/ pending'[g] = None
    BY <1>2 DEF TypeOK
  <2> QED BY <1>2, <1>t, <2>1, DelayKept
<1>3. ASSUME pending' = pending, now' >= now PROVE DelayHonoured'
  BY <1>3, <1>t, DelayKept
<1>4. "pause" \in Hatches /\ "upgrade" \in Hatches /\ "sweep" \in Hatches
  BY DEF Hatches
<1>5. CASE DeploymentStep
  BY <1>5, <1>3, <1>t DEF DeploymentStep, InitVault, hatches
<1>6. CASE AdministrationStep
  <2>1. ASSUME NEW u \in Users,
               \/ SetAuthorizedCaller(u) \/ Pause(u) \/ Unpause(u)
               \/ \E n : SetMaxDeduct(u, n) \/ SetReserveCap(u, n) \/ SetSettlement(u, n)
                         \/ SetAdmin(u, n) \/ SetTimelockWindow(u, n)
        PROVE  DelayHonoured'
    <3>1. pending' = pending /\ now' = now
      BY <2>1 DEF SetAuthorizedCaller, Pause, Unpause, SetMaxDeduct, SetReserveCap,
                  SetSettlement, SetAdmin, SetTimelockWindow, hatches
    <3> QED BY <3>1, <1>3, <1>t
  <2>2. ASSUME NEW u \in Users,
               \/ ProposePause(u)
               \/ \E hash : ProposeUpgrade(u, hash)
               \/ \E to, amount : ProposeSweep(u, to, amount)
        PROVE  DelayHonoured'
    <3>1. PICK hatch \in Hatches : \E payload : Propose(u, hatch, payload)
      BY <2>2, <1>4 DEF ProposePause, ProposeUpgrade, ProposeSweep
    <3> QED BY <3>1, <1>1
  <2>3. ASSUME NEW u \in Users,
               ExecutePause(u) \/ ExecuteUpgrade(u) \/ \E h \in Hatches : Cancel(u, h)
        PROVE  DelayHonoured'
    <3>1. PICK h \in Hatches : pending' = [pending EXCEPT ![h] = None]
      BY <2>3, <1>4 DEF ExecutePause, ExecuteUpgrade, Cancel
    <3>2. now' = now
      BY <2>3 DEF ExecutePause, ExecuteUpgrade, Cancel
    <3> QED BY <3>1, <3>2, <1>2
  <2>4. ASSUME AcceptAdmin PROVE DelayHonoured'
    BY <2>4, <1>3, <1>t DEF AcceptAdmin, hatches
  <2> QED BY <1>6, <2>1, <2>2, <2>3, <2>4 DEF AdministrationStep
<1>7. CASE MoneyStep
  BY <1>7, <1>2, <1>3, <1>4, <1>t
  DEF MoneyStep, Sweepers, Deposit, Deduct, BatchDeduct, Collect, ExecuteSweep, hatches
<1>8. CASE ExternalStep
  BY <1>8, <1>3, <1>t DEF ExternalStep, ExternalTransfer, Tick, hatches
<1> QED BY <1>5, <1>6, <1>7, <1>8 DEF Next

\* No sequence of proposals, window changes, cancellations and executions yields a
\* proposal that matures earlier than the shortest window after it was made, or later
\* than the longest, or at a time the clock cannot show: a changed window never reaches
\* back to the proposals already made.
THEOREM DelayAlwaysHonoured == Spec => []DelayHonoured
<1>1. Init => DelayHonoured
  BY DEF Init, DelayHonoured
<1>2. TypeOK /\ DelayHonoured /\ [Next]_vars => DelayHonoured'
  <2>1. ASSUME DelayHonoured, UNCHANGED vars PROVE DelayHonoured'
    BY <2>1 DEF DelayHonoured, vars, hatches
  <2> QED BY NextDelayed, <2>1
<1> QED BY <1>1, <1>2, TypeCorrect, PTL DEF Spec


-----------------------------------------------------------------------------
(* What a step may never do.                                               *)

\* Configuration, roles and proposals move no money.
LEMMA AdministrationMovesNothing ==
    ASSUME AdministrationStep
    PROVE  balance' = balance /\ usdc' = usdc
BY DEF AdministrationStep, SetAuthorizedCaller, Pause, Unpause, SetMaxDeduct, SetReserveCap,
       SetSettlement, SetAdmin, SetTimelockWindow, ProposePause, ProposeUpgrade, ProposeSweep,
       Propose, Cancel, ExecutePause, ExecuteUpgrade, AcceptAdmin, funds

-----------------------------------------------------------------------------
(* The surplus.                                                            *)

\* A deduction lowers the USDC held by no more than the tracked balance.
LEMMA CollectKeepsSurplus ==
    ASSUME TypeOK, owner # None, NEW total \in Int, total >= 0, Collect(total)
    PROVE  Surplus' >= Surplus
<1>1. balance' = balance - total /\ Transfer(VaultAddr, settlement, total)
  BY DEF Collect
<1>2. VaultAddr \in Addrs /\ settlement \in Addrs /\ balance \in Int
  BY WidthAssumption DEF TypeOK, Addrs, Amount
<1>3. usdc[VaultAddr] \in Int
  BY <1>2, WidthAssumption DEF TypeOK, NatAmount
<1>4. usdc'[VaultAddr] >= usdc[VaultAddr] - total
  BY <1>1, <1>2, <1>3 DEF Transfer, Transferred, TypeOK
<1>5. usdc'[VaultAddr] \in Int
  BY <1>1, <1>2, TransferTyped, WidthAssumption DEF TypeOK, NatAmount
<1> QED BY <1>1, <1>2, <1>3, <1>4, <1>5 DEF Surplus

\* Nothing but a sweep lowers the surplus of an open vault.
LEMMA OnlySweepsTake ==
    ASSUME TypeOK, owner # None, Surplus' < Surplus,
           DeploymentStep \/ AdministrationStep \/ ExternalStep
             \/ (\E u \in Users, amount \in Amounts : Deposit(u, amount))
             \/ (\E u \in Users, amount \in Amounts, id \in RequestIds : Deduct(u, amount, id))
             \/ (\E u \in Users, items \in Batches : BatchDeduct(u, items))
    PROVE  FALSE
<1>0. /\ VaultAddr \in Addrs /\ VaultAddr \notin Users
      /\ balance \in Int /\ usdc[VaultAddr] \in Int /\ Surplus \in Int
  BY AddressAssumption, WidthAssumption DEF TypeOK, Addrs, Amount, NatAmount, Surplus
<1>1. ~DeploymentStep
  BY DEF DeploymentStep, InitVault
<1>2. ~AdministrationStep
  <2>1. SUFFICES ASSUME AdministrationStep PROVE FALSE
    OBVIOUS
  <2>2. Surplus' = Surplus
    BY <2>1, AdministrationMovesNothing DEF Surplus
  <2> QED BY <2>2, <1>0
<1>3. ASSUME NEW u \in Users, NEW amount \in Amounts, Deposit(u, amount) PROVE FALSE
  <2>1. u \in Addrs /\ u # VaultAddr /\ amount \in Int
    BY <1>0, InputAssumption DEF Addrs
  <2>2. balance' = balance + amount /\ usdc'[VaultAddr] = usdc[VaultAddr] + amount
    BY <1>3, <1>0, <2>1 DEF Deposit, Transfer, Transferred, TypeOK
  <2> QED BY <1>0, <2>1, <2>2 DEF Surplus
<1>4. ASSUME NEW total \in Int, total >= 0, Collect(total) PROVE FALSE
  <2>1. Surplus' >= Surplus
    BY <1>4, CollectKeepsSurplus
  <2>2. balance' \in Int /\ usdc'[VaultAddr] \in Int
    BY <1>4, <1>0, CollectTyped, WidthAssumption DEF TypeOK, Amount, NatAmount
  <2> QED BY <2>1, <2>2, <1>0 DEF Surplus
<1>5. ASSUME NEW u \in Users, NEW amount \in Amounts, NEW id, Deduct(u, amount, id)
      PROVE  FALSE
  BY <1>5, <1>4, InputAssumption DEF Deduct, ValidDeduct
<1>6. ASSUME NEW u \in Users, NEW items, BatchDeduct(u, items) PROVE FALSE
  BY <1>6, <1>4, WidthAssumption DEF BatchDeduct
<1>7. ASSUME NEW from \in Users, NEW to \in Addrs, NEW amount \in Amounts,
             ExternalTransfer(from, to, amount)
      PROVE  FALSE
  <2>1. from \in Addrs /\ from # VaultAddr /\ amount \in Int
    BY <1>0, InputAssumption DEF Addrs
  <2>2. balance' = balance
    BY <1>7 DEF ExternalTransfer
  <2>3. usdc'[VaultAddr] = usdc[VaultAddr] \/ usdc'[VaultAddr] = usdc[VaultAddr] + amount
    BY <1>7, <1>0, <2>1 DEF ExternalTransfer, Transfer, Transferred, TypeOK
  <2>4. amount > 0
    BY <1>7 DEF ExternalTransfer
  <2> QED BY <1>0, <2>1, <2>2, <2>3, <2>4 DEF Surplus
<1>8. ~Tick
  <2>1. SUFFICES ASSUME Tick PROVE FALSE
    OBVIOUS
  <2>2. Surplus' = Surplus
    BY <2>1 DEF Tick, funds, Surplus
  <2> QED BY <2>2, <1>0
<1> QED
  BY <1>1, <1>2, <1>3, <1>5, <1>6, <1>7, <1>8 DEF ExternalStep

\* After init a step that lowers the surplus is a matured sweep.
LEMMA NextKeepsSurplus ==
    ASSUME TypeOK, owner # None, Next, Surplus' < Surplus
    PROVE  SweptBy(pending["sweep"])
<1>1. PICK u \in Users : ExecuteSweep(u)
  BY OnlySweepsTake DEF Next, MoneyStep, Sweepers
<1>2. pending'["sweep"] = None
  BY <1>1 DEF ExecuteSweep, TypeOK, Hatches
<1> QED BY <1>1, <1>2 DEF ExecuteSweep, Matured, Transfer, SweptBy

\* Once the vault is open, only the execution of a matured sweep proposal, for the
\* amount and recipient proposed, lowers its surplus.  Deductions of any size, in
\* batches of any length, to any settlement address (the vault itself included), gifts
\* and deposits do not.
THEOREM SurplusPreserved == Spec => SurplusFallsOnlyByMaturedSweep
<1>1. TypeOK /\ [Next]_vars =>
        [owner # None /\ Surplus' < Surplus => SweptBy(pending["sweep"])]_vars
  BY NextKeepsSurplus
<1> QED BY <1>1, TypeCorrect, PTL DEF Spec, SurplusFallsOnlyByMaturedSweep

-----------------------------------------------------------------------------
(* The tracked balance.                                                    *)

\* After init no step takes the tracked balance below zero.
LEMMA NextNeverOverdraws ==
    ASSUME TypeOK, owner # None, balance >= 0, Next
    PROVE  balance' >= 0
<1>0. balance \in Int
  BY WidthAssumption DEF TypeOK, Amount
<1>1. ~DeploymentStep
  BY DEF DeploymentStep, InitVault
<1>2. CASE AdministrationStep
  BY <1>2, AdministrationMovesNothing
<1>3. ASSUME NEW u \in Users, NEW amount \in Amounts, Deposit(u, amount) PROVE balance' >= 0
  BY <1>3, <1>0, InputAssumption DEF Deposit
<1>4. ASSUME NEW total \in Int, Collect(total) PROVE balance' >= 0
  BY <1>4, <1>0 DEF Collect, Covers
<1>5. ASSUME NEW u \in Users, NEW amount \in Amounts, NEW id, Deduct(u, amount, id)
      PROVE  balance' >= 0
  BY <1>5, <1>4, InputAssumption DEF Deduct
<1>6. ASSUME NEW u \in Users, NEW items, BatchDeduct(u, items) PROVE balance' >= 0
  BY <1>6, <1>4, WidthAssumption DEF BatchDeduct
<1>7. ASSUME NEW u \in Users, ExecuteSweep(u) PROVE balance' >= 0
  BY <1>7 DEF ExecuteSweep
<1>8. CASE ExternalStep
  BY <1>8 DEF ExternalStep, ExternalTransfer, Tick, funds
<1> QED BY <1>1, <1>2, <1>3, <1>5, <1>6, <1>7, <1>8 DEF Next, MoneyStep, Sweepers

\* A vault opened with a balance that is not negative never becomes overdrawn, however
\* many deductions are batched and whatever their amounts.
THEOREM BalanceNeverOverdrawn == Spec => NeverOverdrawn
<1>1. TypeOK /\ [Next]_vars => [owner # None /\ balance >= 0 => balance' >= 0]_vars
  BY NextNeverOverdraws
<1> QED BY <1>1, TypeCorrect, PTL DEF Spec, NeverOverdrawn
\* Before init there is neither an owner nor an admin to administrate.
LEMMA AdministrationNeedsInit == ASSUME TypeOK, AdministrationStep PROVE owner # None
BY DEF TypeOK, AdministrationStep, SetAuthorizedCaller, Pause, Unpause, SetMaxDeduct,
       SetReserveCap, SetSettlement, SetAdmin, SetTimelockWindow, ProposePause, ProposeUpgrade,
       ProposeSweep, Propose, Cancel, ExecutePause, ExecuteUpgrade, AcceptAdmin, OwnerCalls,
       Initialised, AdminCalls

\* The owner is set by init alone.
LEMMA AdministrationKeepsOwner == ASSUME AdministrationStep PROVE owner' = owner
BY DEF AdministrationStep, SetAuthorizedCaller, Pause, Unpause, SetMaxDeduct, SetReserveCap,
       SetSettlement, SetAdmin, SetTimelockWindow, ProposePause, ProposeUpgrade, ProposeSweep,
       Propose, Cancel, ExecutePause, ExecuteUpgrade, AcceptAdmin, roles

-----------------------------------------------------------------------------
(* Where deductions go, and the pause.                                     *)

\* Only a deduction lowers the tracked balance of an open vault, and it pays what it
\* takes to the settlement contract.
LEMMA NextPaysSettlement ==
    ASSUME TypeOK, owner # None, Next, balance' < balance
    PROVE  usdc' = Transferred(VaultAddr, settlement, balance - balance')
<1>0. balance \in Int
  BY WidthAssumption DEF TypeOK, Amount
<1>1. ~DeploymentStep
  BY DEF DeploymentStep, InitVault
<1>2. ASSUME balance' = balance PROVE FALSE
  BY <1>0, <1>2
<1>3. ~AdministrationStep
  BY <1>2, AdministrationMovesNothing
<1>4. ASSUME NEW u \in Users, NEW amount \in Amounts, Deposit(u, amount) PROVE FALSE
  BY <1>4, <1>0, InputAssumption DEF Deposit
<1>5. ASSUME NEW total \in Int, Collect(total)
      PROVE  usdc' = Transferred(VaultAddr, settlement, balance - balance')
  <2>1. balance' = balance - total /\ usdc' = Transferred(VaultAddr, settlement, total)
    BY <1>5 DEF Collect, Transfer
  <2>2. total = balance - balance'
    BY <1>0, <2>1
  <2> QED BY <2>1, <2>2
<1>6. ASSUME NEW u \in Users, NEW amount \in Amounts, NEW id, Deduct(u, amount, id)
      PROVE  usdc' = Transferred(VaultAddr, settlement, balance - balance')
  BY <1>6, <1>5, InputAssumption DEF Deduct
<1>7. ASSUME NEW u \in Users, NEW items, BatchDeduct(u, items)
      PROVE  usdc' = Transferred(VaultAddr, settlement, balance - balance')
  BY <1>7, <1>5, WidthAssumption DEF BatchDeduct
<1>8. ASSUME NEW u \in Users, ExecuteSweep(u) PROVE FALSE
  BY <1>2, <1>8 DEF ExecuteSweep
<1>9. ~ExternalStep
  BY <1>2 DEF ExternalStep, ExternalTransfer, Tick, funds
<1> QED BY <1>1, <1>3, <1>4, <1>6, <1>7, <1>8, <1>9 DEF Next, MoneyStep, Sweepers

\* Whatever leaves the tracked balance is in the settlement contract after the call, in
\* single deductions and batches of any length, and nobody else's USDC has moved.
THEOREM DeductionsAreSettled == Spec => DeductionsReachSettlement
<1>1. TypeOK /\ [Next]_vars =>
        [owner # None /\ balance' < balance =>
           usdc' = Transferred(VaultAddr, settlement, balance - balance')]_vars
  BY NextPaysSettlement
<1> QED BY <1>1, TypeCorrect, PTL DEF Spec, DeductionsReachSettlement

\* Nobody pauses a vault before it is open, which init would undo.
OpenUntilInit == owner = None => ~paused

\* A vault that is not initialised stays open.
LEMMA NextKeepsOpen == ASSUME TypeOK, OpenUntilInit, [Next]_vars PROVE OpenUntilInit'
<1>1. CASE DeploymentStep
  BY <1>1 DEF DeploymentStep, InitVault, OpenUntilInit
<1>2. CASE AdministrationStep
  BY <1>2, AdministrationNeedsInit, AdministrationKeepsOwner DEF OpenUntilInit
<1>3. CASE MoneyStep \/ ExternalStep
  BY <1>3 DEF MoneyStep, ExternalStep, Deposit, Deduct, BatchDeduct, Collect, ExecuteSweep,
              ExternalTransfer, Tick, roles, OpenUntilInit
<1>4. CASE UNCHANGED vars
  BY <1>4 DEF vars, roles, OpenUntilInit
<1> QED BY <1>1, <1>2, <1>3, <1>4 DEF Next

\* During a pause only sweeps move money out, and the tracked balance stands still.
LEMMA PausedStandsStill ==
    ASSUME TypeOK, OpenUntilInit, Next, paused
    PROVE  /\ balance' = balance
           /\ usdc'[VaultAddr] < usdc[VaultAddr] => SweptBy(pending["sweep"])
<1>0. /\ VaultAddr \in Addrs /\ VaultAddr \notin Users
      /\ usdc[VaultAddr] \in Int /\ ~(usdc[VaultAddr] < usdc[VaultAddr])
  BY AddressAssumption, WidthAssumption DEF TypeOK, Addrs, NatAmount
<1>1. ~DeploymentStep
  BY DEF DeploymentStep, InitVault, OpenUntilInit
<1>2. CASE AdministrationStep
  BY <1>0, <1>2, AdministrationMovesNothing
<1>3. CASE MoneyStep
  <2>1. PICK u \in Users : ExecuteSweep(u)
    BY <1>3 DEF MoneyStep, Deposit, Deduct, BatchDeduct, InService, Sweepers
  <2>2. pending'["sweep"] = None
    BY <2>1 DEF ExecuteSweep, TypeOK, Hatches
  <2> QED BY <2>1, <2>2 DEF ExecuteSweep, Matured, Transfer, SweptBy
<1>4. ASSUME NEW from \in Users, NEW to \in Addrs, NEW amount \in Amounts,
             ExternalTransfer(from, to, amount)
      PROVE  balance' = balance /\ ~(usdc'[VaultAddr] < usdc[VaultAddr])
  <2>1. from \in Addrs /\ from # VaultAddr /\ amount \in Int /\ amount > 0
    BY <1>0, <1>4, InputAssumption DEF Addrs, ExternalTransfer
  <2>2. usdc'[VaultAddr] = usdc[VaultAddr] \/ usdc'[VaultAddr] = usdc[VaultAddr] + amount
    BY <1>4, <1>0, <2>1 DEF ExternalTransfer, Transfer, Transferred, TypeOK
  <2>3. balance' = balance
    BY <1>4 DEF ExternalTransfer
  <2> QED BY <1>0, <2>1, <2>2, <2>3
<1>5. CASE Tick
  BY <1>0, <1>5 DEF Tick, funds
<1> QED BY <1>1, <1>2, <1>3, <1>4, <1>5 DEF Next, ExternalStep

\* While the vault is paused, by its owner or by the admin's hatch, its tracked balance
\* stands still, and nothing but a matured sweep takes USDC out of it.
THEOREM PauseStopsMoney == Spec => PauseFreezesMoney
<1>1. Init => OpenUntilInit
  BY DEF Init, OpenUntilInit
<1>2. TypeOK /\ OpenUntilInit /\ [Next]_vars =>
        [paused =>
           /\ balance' = balance
           /\ usdc'[VaultAddr] < usdc[VaultAddr] => SweptBy(pending["sweep"])]_vars
  BY PausedStandsStill
<1> QED BY <1>1, <1>2, NextKeepsOpen, TypeCorrect, PTL DEF Spec, PauseFreezesMoney

-----------------------------------------------------------------------------
(* The upgrade hatch implements the abstract timelock.                     *)

\* Every step proposes, cancels, executes or ages the upgrade proposal as Timelock
\* allows, or is none of its business.
LEMMA NextIsTimelocked ==
    ASSUME TypeOK, [Next]_vars
    PROVE  [UpgradeTimelock!Next]_(UpgradeTimelock!vars)
<1> DEFINE slot == pending["upgrade"]
<1> USE DEF UpgradeTimelock!vars
<1>0. "upgrade" \in Hatches /\ now \in Nat
  BY WidthAssumption DEF Hatches, TypeOK
<1>1. ASSUME UNCHANGED <<now, pending, contractVersion>>
      PROVE  UNCHANGED UpgradeTimelock!vars
  BY <1>1
<1>2. ASSUME NEW u \in Users, NEW hatch \in Hatches,
             NEW payload \in {None} \cup Hashes \cup Payout, Propose(u, hatch, payload)
      PROVE  UpgradeTimelock!Propose \/ UNCHANGED UpgradeTimelock!vars
  <2> DEFINE p == [payload |-> payload, proposed_at |-> now, execute_after |-> now + window]
  <2>1. window \in Nat /\ window >= MIN_TIMELOCK_SECONDS
    BY TimelockAssumption DEF TypeOK
  <2>2. p # None
    BY <2>1, <1>0, NoneAssumption DEF Proposal
  <2>3. pending' = [pending EXCEPT ![hatch] = p] /\ UNCHANGED <<now, contractVersion>>
    BY <1>2 DEF Propose
  <2>4. CASE hatch = "upgrade"
    <3>1. slot' = p
      BY <2>3, <2>4, <1>0 DEF TypeOK
    <3>2. p.proposed_at = now /\ p.execute_after >= now + MIN_TIMELOCK_SECONDS
      BY <2>1, <1>0, TimelockAssumption
    <3> QED BY <3>1, <3>2, <2>2, <2>3 DEF UpgradeTimelock!Propose
  <2>5. CASE hatch # "upgrade"
    BY <2>3, <2>5, <1>0 DEF TypeOK
  <2> QED BY <2>4, <2>5
<1>3. ASSUME NEW hatch \in Hatches, pending' = [pending EXCEPT ![hatch] = None],
             UNCHANGED <<now, contractVersion>>
      PROVE  UpgradeTimelock!Cancel \/ UNCHANGED UpgradeTimelock!vars
  <2>1. slot' = slot \/ slot' = None
    BY <1>3, <1>0 DEF TypeOK
  <2> QED BY <1>3, <2>1 DEF UpgradeTimelock!Cancel
<1>4. CASE DeploymentStep
  BY <1>4, <1>1 DEF DeploymentStep, InitVault, hatches
<1>5. CASE AdministrationStep
  <2>1. ASSUME NEW u \in Users,
               \/ SetAuthorizedCaller(u) \/ Pause(u) \/ Unpause(u)
               \/ \E n \in Nat : SetTimelockWindow(u, n)
               \/ \E n : SetMaxDeduct(u, n) \/ SetReserveCap(u, n) \/ SetSettlement(u, n)
                         \/ SetAdmin(u, n)
        PROVE  UNCHANGED UpgradeTimelock!vars
    BY <2>1 DEF SetAuthorizedCaller, Pause, Unpause, SetMaxDeduct, SetReserveCap,
                SetSettlement, SetAdmin, SetTimelockWindow, hatches
  <2>2. ASSUME NEW u \in Users, ProposePause(u)
        PROVE  UpgradeTimelock!Propose \/ UNCHANGED UpgradeTimelock!vars
    BY <2>2, <1>2 DEF ProposePause, Hatches
  <2>3. ASSUME NEW u \in Users, NEW hash \in Hashes, ProposeUpgrade(u, hash)
        PROVE  UpgradeTimelock!Propose \/ UNCHANGED UpgradeTimelock!vars
    BY <2>3, <1>2, <1>0 DEF ProposeUpgrade
  <2>4. ASSUME NEW u \in Users, NEW to \in Addrs, NEW amount \in Amounts,
               ProposeSweep(u, to, amount)
        PROVE  UpgradeTimelock!Propose \/ UNCHANGED UpgradeTimelock!vars
    <3>1. [to |-> to, amount |-> amount] \in Payout
      BY InputAssumption DEF Payout
    <3> QED BY <2>4, <3>1, <1>2 DEF ProposeSweep, Hatches
  <2>5. ASSUME NEW u \in Users, NEW h \in Hatches, Cancel(u, h)
        PROVE  UpgradeTimelock!Cancel \/ UNCHANGED UpgradeTimelock!vars
    BY <2>5, <1>3 DEF Cancel
  <2>6. ASSUME NEW u \in Users, ExecutePause(u)
        PROVE  UpgradeTimelock!Cancel \/ UNCHANGED UpgradeTimelock!vars
    BY <2>6, <1>3 DEF ExecutePause, Hatches
  <2>7. ASSUME NEW u \in Users, ExecuteUpgrade(u) PROVE UpgradeTimelock!Execute
    BY <2>7, <1>0 DEF ExecuteUpgrade, Matured, UpgradeTimelock!Execute, TypeOK
  <2>8. ASSUME AcceptAdmin PROVE UNCHANGED UpgradeTimelock!vars
    BY <2>8 DEF AcceptAdmin, hatches
  <2> QED
    BY <1>5, <2>1, <2>2, <2>3, <2>4, <2>5, <2>6, <2>7, <2>8, InputAssumption
    DEF AdministrationStep, UpgradeTimelock!Next
<1>6. CASE MoneyStep
  <2>1. ASSUME NEW u \in Users, ExecuteSweep(u)
        PROVE  UpgradeTimelock!Cancel \/ UNCHANGED UpgradeTimelock!vars
    BY <2>1, <1>3 DEF ExecuteSweep, Hatches
  <2> QED
    BY <1>6, <1>1, <2>1
    DEF MoneyStep, Sweepers, Deposit, Deduct, BatchDeduct, Collect, hatches, UpgradeTimelock!Next
<1>7. CASE ExternalStep
  <2>1. ASSUME Tick PROVE UpgradeTimelock!Tick
    BY <2>1, <1>0 DEF Tick, hatches, UpgradeTimelock!Tick
  <2> QED
    BY <1>7, <1>1, <2>1 DEF ExternalStep, ExternalTransfer, hatches, UpgradeTimelock!Next
<1>8. CASE UNCHANGED vars
  BY <1>8, <1>1 DEF vars, hatches
<1> QED BY <1>4, <1>5, <1>6, <1>7, <1>8 DEF Next

\* The contract's code changes only by executing the upgrade proposal that is pending,
\* at least MIN_TIMELOCK_SECONDS after it was last proposed, and once per proposal.
THEOREM UpgradesAreTimelocked == Spec => UpgradeIsTimelocked
<1>1. Init => UpgradeTimelock!Init
  BY DEF Init, UpgradeTimelock!Init, Hatches
<1>2. TypeOK /\ [Next]_vars => [UpgradeTimelock!Next]_(UpgradeTimelock!vars)
  BY NextIsTimelocked
<1> QED BY <1>1, <1>2, TypeCorrect, PTL DEF Spec, UpgradeIsTimelocked, UpgradeTimelock!Spec

-----------------------------------------------------------------------------
(* The admin role implements the two-step role.                            *)

\* Every step is one of the abstract hand-over, or a stutter.
LEMMA NextIsTwoStep ==
    ASSUME TypeOK, [Next]_vars
    PROVE  [AdminTransfer!Next]_(AdminTransfer!vars)
<1> USE DEF AdminTransfer!vars
<1>1. None \notin Users
  BY AddressAssumption DEF Addrs
<1>2. CASE DeploymentStep
  BY <1>1, <1>2 DEF DeploymentStep, InitVault, TypeOK, AdminTransfer!Next, AdminTransfer!Appoint
<1>3. CASE AdministrationStep
  <2>1. ASSUME NEW u \in Users, NEW n \in Nominees, SetAdmin(u, n)
        PROVE  AdminTransfer!Nominate
    BY <2>1, <1>1, InputAssumption DEF SetAdmin, AdminCalls, AdminTransfer!Nominate
  <2>2. ASSUME AcceptAdmin PROVE AdminTransfer!Accept
    BY <2>2 DEF AcceptAdmin, AdminTransfer!Accept
  <2>3. CASE ~AcceptAdmin /\ \A u \in Users, n \in Nominees : ~SetAdmin(u, n)
    BY <1>3, <2>3
    DEF AdministrationStep, SetAuthorizedCaller, Pause, Unpause, SetMaxDeduct, SetReserveCap,
        SetSettlement, SetTimelockWindow, ProposePause, ProposeUpgrade, ProposeSweep, Propose,
        Cancel, ExecutePause, ExecuteUpgrade, roles
  <2> QED BY <2>1, <2>2, <2>3 DEF AdminTransfer!Next
<1>4. CASE MoneyStep
  BY <1>4 DEF MoneyStep, Sweepers, Deposit, Deduct, BatchDeduct, Collect, ExecuteSweep, roles
<1>5. CASE ExternalStep
  BY <1>5 DEF ExternalStep, ExternalTransfer, Tick, roles
<1>6. CASE UNCHANGED vars
  BY <1>6 DEF vars, roles
<1> QED BY <1>2, <1>3, <1>4, <1>5, <1>6 DEF Next

\* Nobody becomes admin of an initialised vault who was not the current nominee, and a
\* nomination is used up by accepting it.
THEOREM AdminChangesInTwoSteps == Spec => AdminIsTwoStep
<1>1. Init => AdminTransfer!Init
  BY DEF Init, AdminTransfer!Init
<1>2. TypeOK /\ [Next]_vars => [AdminTransfer!Next]_(AdminTransfer!vars)
  BY NextIsTwoStep
<1> QED BY <1>1, <1>2, TypeCorrect, PTL DEF Spec, AdminIsTwoStep, AdminTransfer!Spec


-----------------------------------------------------------------------------
(* The watcher.                                                            *)

\* Publishing adds events to a step of the vault and takes nothing from it.
LEMMA WNextIsNext == ASSUME WNext PROVE Next
BY DEF WNext, WAdministrationStep, WSilentMoney, WSetReserveCap, WSetTimelockWindow,
       WCancelPause, WCancelUpgrade, WCancelSweep, WExecutePause, WExecuteUpgrade, WExecuteSweep,
       Next, DeploymentStep, AdministrationStep, MoneyStep, ExternalStep, Sweepers, Hatches

\* What an event changes in the mind of a watcher who has missed nothing.
LEMMA HeardBySlot ==
    ASSUME WatcherSeesEveryHatch, NEW topic, NEW data, Publish(topic, data)
    PROVE  seen' = [pending |-> [h \in Hatches |-> CASE topic = Proposed[h] -> data
                                                     [] topic \in Closed[h] -> None
                                                     [] OTHER -> pending[h]],
                    window |-> IF topic = Topics.windowChanged THEN data.new ELSE window,
                    cap |-> IF topic = Topics.reserveCapSet THEN data ELSE reserveCap]
<1>1. seen.pending = pending /\ seen.window = window /\ seen.cap = reserveCap
  BY DEF WatcherSeesEveryHatch, GetTimelockWindow, GetReserveCap
<1> DEFINE slot(h) == CASE topic = Proposed[h] -> data
                        [] topic \in Closed[h] -> None
                        [] OTHER -> pending[h]
           heard(h) == CASE topic = Proposed[h] -> data
                         [] topic \in Closed[h] -> None
                         [] OTHER -> seen.pending[h]
<1>2. \A h \in Hatches : heard(h) = slot(h)
  BY <1>1
<1>3. [h \in Hatches |-> heard(h)] = [h \in Hatches |-> slot(h)]
  <2> HIDE DEF heard, slot
  <2> QED BY <1>2
<1> QED BY <1>1, <1>3 DEF Publish, Heard

\* A proposal is heard for its own hatch and changes nothing else.
LEMMA ProposalIsHeard ==
    ASSUME TypeOK, WatcherSeesEveryHatch, NEW u, NEW hatch \in Hatches, NEW payload,
           Propose(u, hatch, payload), WPropose(hatch)
    PROVE  WatcherSeesEveryHatch'
<1>1. UNCHANGED <<window, reserveCap>>
  BY DEF Propose, config
<1>2. pending' = [h \in Hatches |-> IF h = hatch THEN pending'[hatch] ELSE pending[h]]
  BY DEF Propose, TypeOK
<1>3. \A h \in Hatches : Proposed[hatch] \notin Closed[h] /\ (Proposed[hatch] = Proposed[h] <=> h = hatch)
  BY DEF Hatches, Proposed, Closed, Topics
<1>4. Proposed[hatch] # Topics.windowChanged /\ Proposed[hatch] # Topics.reserveCapSet
  BY DEF Hatches, Proposed, Topics
<1>5. Publish(Proposed[hatch], pending'[hatch])
  BY DEF WPropose
<1>6. seen' = [pending |-> [h \in Hatches |-> IF h = hatch THEN pending'[hatch] ELSE pending[h]],
               window |-> window, cap |-> reserveCap]
  BY <1>3, <1>4, <1>5, HeardBySlot
<1> QED BY <1>1, <1>2, <1>6 DEF WatcherSeesEveryHatch, GetTimelockWindow, GetReserveCap

\* So is the end of one, executed or cancelled.
LEMMA ClosingIsHeard ==
    ASSUME TypeOK, WatcherSeesEveryHatch, NEW hatch \in Hatches, NEW topic \in Closed[hatch],
           NEW data, pending' = [pending EXCEPT ![hatch] = None],
           UNCHANGED <<window, reserveCap>>, Publish(topic, data)
    PROVE  WatcherSeesEveryHatch'
<1>1. pending' = [h \in Hatches |-> IF h = hatch THEN None ELSE pending[h]]
  BY DEF TypeOK
<1>2. \A h \in Hatches : topic # Proposed[h] /\ (topic \in Closed[h] <=> h = hatch)
  BY DEF Hatches, Proposed, Closed, Topics
<1>3. topic # Topics.windowChanged /\ topic # Topics.reserveCapSet
  BY DEF Hatches, Closed, Topics
<1>4. seen' = [pending |-> [h \in Hatches |-> IF h = hatch THEN None ELSE pending[h]],
               window |-> window, cap |-> reserveCap]
  BY <1>2, <1>3, HeardBySlot
<1> QED BY <1>1, <1>4 DEF WatcherSeesEveryHatch, GetTimelockWindow, GetReserveCap

\* A change of a setting is heard, and closes no hatch.
LEMMA SettingIsHeard ==
    ASSUME TypeOK, WatcherSeesEveryHatch, UNCHANGED pending,
           \/ /\ UNCHANGED reserveCap
              /\ Publish(Topics.windowChanged, [old |-> window', new |-> window'])
           \/ UNCHANGED window /\ Publish(Topics.reserveCapSet, reserveCap')
    PROVE  WatcherSeesEveryHatch'
<1>1. \A h \in Hatches : {Topics.windowChanged, Topics.reserveCapSet} \cap (Closed[h] \cup {Proposed[h]}) = {}
  BY DEF Hatches, Proposed, Closed, Topics
<1>2. Topics.windowChanged # Topics.reserveCapSet
  BY DEF Topics
<1>3. pending = [h \in Hatches |-> pending[h]]
  BY DEF TypeOK
<1>4. CASE /\ UNCHANGED reserveCap
           /\ Publish(Topics.windowChanged, [old |-> window', new |-> window'])
  <2>1. seen' = [pending |-> pending, window |-> window', cap |-> reserveCap]
    BY <1>1, <1>2, <1>3, <1>4, HeardBySlot
  <2> QED BY <1>4, <2>1 DEF WatcherSeesEveryHatch, GetTimelockWindow, GetReserveCap
<1>5. CASE UNCHANGED window /\ Publish(Topics.reserveCapSet, reserveCap')
  <2>1. seen' = [pending |-> pending, window |-> window, cap |-> reserveCap']
    BY <1>1, <1>2, <1>3, <1>5, HeardBySlot
  <2> QED BY <1>5, <2>1 DEF WatcherSeesEveryHatch, GetTimelockWindow, GetReserveCap
<1> QED BY <1>4, <1>5

\* The watcher hears of every proposal, cancellation and setting.
LEMMA AdministrationIsHeard ==
    ASSUME TypeOK, WatcherSeesEveryHatch, WAdministrationStep
    PROVE  WatcherSeesEveryHatch'
<1>1. ASSUME NEW u \in Users, NEW cap, WSetReserveCap(u, cap) PROVE WatcherSeesEveryHatch'
  BY <1>1, SettingIsHeard DEF WSetReserveCap, SetReserveCap, hatches
<1>2. ASSUME NEW u \in Users, NEW w, WSetTimelockWindow(u, w) PROVE WatcherSeesEveryHatch'
  BY <1>2, SettingIsHeard DEF WSetTimelockWindow, SetTimelockWindow, config
<1>3. ASSUME NEW u \in Users, NEW hatch \in Hatches, NEW payload,
             Propose(u, hatch, payload), WPropose(hatch)
      PROVE  WatcherSeesEveryHatch'
  BY <1>3, ProposalIsHeard
<1>4. ASSUME NEW u \in Users, WCancelPause(u) \/ WCancelUpgrade(u) \/ WCancelSweep(u)
      PROVE  WatcherSeesEveryHatch'
  <2>1. /\ Topics.pauseCancelled \in Closed["pause"] /\ Topics.upgradeCancelled \in Closed["upgrade"]
        /\ Topics.sweepCancelled \in Closed["sweep"] /\ {"pause", "upgrade", "sweep"} \subseteq Hatches
    BY DEF Closed, Hatches
  <2> QED
    BY <1>4, <2>1, ClosingIsHeard DEF WCancelPause, WCancelUpgrade, WCancelSweep, Cancel, config
<1>5. ASSUME NEW u \in Users, WExecutePause(u) \/ WExecuteUpgrade(u)
      PROVE  WatcherSeesEveryHatch'
  <2>1. /\ Topics.pauseExecuted \in Closed["pause"] /\ Topics.upgradeExecuted \in Closed["upgrade"]
        /\ {"pause", "upgrade"} \subseteq Hatches
    BY DEF Closed, Hatches
  <2> QED
    BY <1>5, <2>1, ClosingIsHeard
    DEF WExecutePause, WExecuteUpgrade, ExecutePause, ExecuteUpgrade, config
<1>6. ASSUME UNCHANGED seen,
             \/ AcceptAdmin
             \/ \E u \in Users : \/ SetAuthorizedCaller(u) \/ Pause(u) \/ Unpause(u)
                                 \/ \E n \in Limits : SetMaxDeduct(u, n)
                                 \/ \E s \in Addrs : SetSettlement(u, s)
                                 \/ \E n \in Nominees : SetAdmin(u, n)
      PROVE  WatcherSeesEveryHatch'
  BY <1>6
  DEF WatcherSeesEveryHatch, GetTimelockWindow, GetReserveCap, AcceptAdmin, SetAuthorizedCaller,
      Pause, Unpause, SetMaxDeduct, SetSettlement, SetAdmin, config, hatches
<1> QED
  BY <1>1, <1>2, <1>3, <1>4, <1>5, <1>6
  DEF WAdministrationStep, ProposePause, ProposeUpgrade, ProposeSweep, Hatches

\* The watcher hears of every step that concerns a hatch.
LEMMA WNextIsHeard ==
    ASSUME TypeOK, WatcherSeesEveryHatch, WNext
    PROVE  WatcherSeesEveryHatch'
<1>1. CASE WAdministrationStep
  BY <1>1, AdministrationIsHeard
<1>2. ASSUME NEW u \in Users, WExecuteSweep(u) PROVE WatcherSeesEveryHatch'
  <2>1. Topics.sweepExecuted \in Closed["sweep"] /\ "sweep" \in Hatches
    BY DEF Closed, Hatches
  <2> QED BY <1>2, <2>1, ClosingIsHeard DEF WExecuteSweep, ExecuteSweep, config
<1>3. CASE WSilentMoney
  BY <1>3
  DEF WSilentMoney, Deposit, Deduct, BatchDeduct, Collect, config, hatches,
      WatcherSeesEveryHatch, GetTimelockWindow, GetReserveCap
<1>4. CASE (DeploymentStep \/ ExternalStep) /\ UNCHANGED seen
  BY <1>4
  DEF DeploymentStep, InitVault, ExternalStep, ExternalTransfer, Tick, config, hatches,
      WatcherSeesEveryHatch, GetTimelockWindow, GetReserveCap
<1> QED BY <1>1, <1>2, <1>3, <1>4 DEF WNext, Sweepers

\* Whoever follows the events of the vault knows at any time which hatches are pending,
\* with what payload and deadline, and the window that the next proposal will wait.
THEOREM WatchersSeeEveryHatch == WFairSpec => []WatcherSeesEveryHatch
<1>1. WInit => TypeOK /\ WatcherSeesEveryHatch
  BY InitTyped DEF WInit, WatcherSeesEveryHatch, GetTimelockWindow, GetReserveCap
<1>2. TypeOK /\ WatcherSeesEveryHatch /\ [WNext]_wvars => (TypeOK /\ WatcherSeesEveryHatch)'
  <2>1. CASE WNext
    BY <2>1, WNextIsHeard, WNextIsNext, NextTyped
  <2>2. CASE UNCHANGED wvars
    BY <2>2, StutterTyped
    DEF wvars, vars, config, hatches, WatcherSeesEveryHatch, GetTimelockWindow, GetReserveCap
  <2> QED BY <2>1, <2>2
<1> QED BY <1>1, <1>2, PTL DEF WFairSpec

-----------------------------------------------------------------------------
(* Solvency.                                                               *)

KeepsCover ==
    /\ owner = None => pending["sweep"] = None
    /\ owner # None /\ opening >= 0 /\ ~sweptBlind =>
         /\ Surplus >= 0
         /\ pending["sweep"] # None /\ previewed => pending["sweep"].payload.amount <= Surplus

HistoryTyped == opening \in Int /\ sweptBlind \in BOOLEAN

\* Publishing adds events to a step of the vault and takes nothing from it.
LEMMA PublishingIsAdministration == ASSUME WAdministrationStep PROVE AdministrationStep
BY DEF WAdministrationStep, AdministrationStep, WSetReserveCap, WSetTimelockWindow, WCancelPause,
       WCancelUpgrade, WCancelSweep, Hatches, WExecutePause, WExecuteUpgrade

\* The history variables constrain nothing: every step of VaultHistory is one of Vault.
LEMMA HNextIsNext == ASSUME HNext PROVE Next
BY PublishingIsAdministration
DEF HNext, HDeployment, HDeduct, HBatchDeduct, HSweep, HDeposit, HAdministration,
    HExternal, Next, MoneyStep, Sweepers, WExecuteSweep

\* A sweep lowers the surplus by the amount proposed, or by nothing when it pays the
\* vault itself, and leaves no sweep pending.
LEMMA SweepTakesItsAmount ==
    ASSUME TypeOK, NEW u \in Users, ExecuteSweep(u)
    PROVE  /\ pending["sweep"] # None /\ pending'["sweep"] = None
           /\ UNCHANGED <<owner, balance>>
           /\ \/ usdc'[VaultAddr] = usdc[VaultAddr]
              \/ usdc'[VaultAddr] = usdc[VaultAddr] - pending["sweep"].payload.amount
<1>1. pending["sweep"] # None /\ pending'["sweep"] = None /\ UNCHANGED <<owner, balance>>
  BY DEF ExecuteSweep, Matured, TypeOK, Hatches, roles
<1> DEFINE p == pending["sweep"].payload
<1>2. p.to \in Addrs /\ VaultAddr \in Addrs
  BY <1>1 DEF TypeOK, Payout, Addrs
<1>3. usdc' = Transferred(VaultAddr, p.to, p.amount)
  BY DEF ExecuteSweep, Transfer
<1> QED BY <1>1, <1>2, <1>3 DEF Transferred, TypeOK

\* Every step keeps the surplus and the pending sweep within it.
LEMMA HNextKeepsCover ==
    ASSUME TypeOK, HistoryTyped, KeepsCover, HNext
    PROVE  HistoryTyped' /\ KeepsCover'
<1>1. TypeOK' /\ Next
  BY HNextIsNext, NextTyped
<1>2. Surplus \in Int /\ Surplus' \in Int /\ balance \in Int /\ usdc[VaultAddr] \in Int
  BY <1>1, WidthAssumption DEF TypeOK, Surplus, Amount, NatAmount, Addrs
<1>3. CASE HDeployment
  <2>1. owner = None /\ pending' = pending /\ opening' = Surplus'
        /\ previewed' = previewed /\ sweptBlind' = sweptBlind
    BY <1>3 DEF HDeployment, DeploymentStep, InitVault, hatches
  <2>2. owner' # None
    BY <1>3, AddressAssumption DEF HDeployment, DeploymentStep, InitVault, Addrs
  <2> QED BY <2>1, <2>2, <1>2 DEF HistoryTyped, KeepsCover
<1>4. CASE HSweep
  <2>1. PICK u \in Users : ExecuteSweep(u)
    BY <1>4 DEF HSweep, Sweepers, WExecuteSweep
  <2>2. opening' = opening /\ previewed' = previewed
    BY <1>4 DEF HSweep
  <2>3. sweptBlind' = (sweptBlind \/ (~previewed /\ usdc'[VaultAddr] # usdc[VaultAddr]))
    BY <1>4 DEF HSweep
  <2>4. pending["sweep"].payload.amount \in Int
    BY <2>1, SweepTakesItsAmount DEF TypeOK, Payout
  <2>5. HistoryTyped'
    BY <2>2, <2>3 DEF HistoryTyped
  <2>6. ASSUME owner # None, opening >= 0, ~sweptBlind' PROVE Surplus' >= 0
    <3>1. Surplus >= 0 /\ ~sweptBlind
      BY <2>3, <2>6 DEF KeepsCover
    <3>2. CASE usdc'[VaultAddr] = usdc[VaultAddr]
      BY <3>1, <3>2, <2>1, SweepTakesItsAmount DEF Surplus
    <3>3. CASE previewed
      BY <3>1, <3>3, <2>1, <2>4, <2>6, <1>2, SweepTakesItsAmount DEF Surplus, KeepsCover
    <3> QED BY <3>2, <3>3, <2>3, <2>6
  <2> QED BY <2>1, <2>2, <2>5, <2>6, SweepTakesItsAmount DEF KeepsCover
<1>5. CASE HAdministration
  <2>1. opening' = opening /\ sweptBlind' = sweptBlind
    BY <1>5 DEF HAdministration
  <2>2. owner' = owner /\ owner # None /\ Surplus' = Surplus
    BY <1>5, PublishingIsAdministration, AdministrationKeepsOwner, AdministrationNeedsInit,
       AdministrationMovesNothing
    DEF HAdministration, Surplus
  <2>3. previewed' = IF pending'["sweep"] \in {None, pending["sweep"]} THEN previewed
                     ELSE pending'["sweep"].payload.amount <= IdleBalance
    BY <1>5 DEF HAdministration
  <2>4. HistoryTyped'
    BY <2>1 DEF HistoryTyped
  <2>5. Surplus >= 0 => IdleBalance = Surplus
    BY <1>2 DEF IdleBalance, Surplus
  <2> QED BY <2>1, <2>2, <2>3, <2>4, <2>5 DEF KeepsCover
<1>6. CASE HDeduct \/ HBatchDeduct \/ HDeposit \/ HExternal
  <2>1. opening' = opening /\ previewed' = previewed /\ sweptBlind' = sweptBlind
    BY <1>6 DEF HDeduct, HBatchDeduct, HDeposit, HExternal, Record, history
  <2>2. owner' = owner /\ pending' = pending
    BY <1>6
    DEF HDeduct, HBatchDeduct, HDeposit, HExternal, Deduct, BatchDeduct, Collect, Deposit,
        ExternalStep, ExternalTransfer, Tick, roles, hatches
  <2>3. owner # None => Surplus' >= Surplus
    <3>1. ASSUME owner # None, Surplus' < Surplus PROVE FALSE
      BY <1>6, <3>1, OnlySweepsTake DEF HDeduct, HBatchDeduct, HDeposit, HExternal
    <3> QED BY <3>1, <1>2
  <2>4. pending["sweep"] # None => pending["sweep"].payload.amount \in Int
    BY DEF TypeOK, Payout
  <2> QED BY <2>1, <2>2, <2>3, <2>4, <1>2 DEF HistoryTyped, KeepsCover
<1> QED BY <1>3, <1>4, <1>5, <1>6 DEF HNext

\* A vault opened with enough USDC for initial_balance holds at least its tracked balance
\* at any time, after any number of deposits, deductions in batches of any length, gifts,
\* changes of settlement address, limits, roles and windows, and of sweeps proposed within
\* the idle balance that the preview answered, however long they waited.
THEOREM SolventDespiteSweeps == HSpec => []CoveredDespiteSweeps
<1>1. HInit => TypeOK /\ HistoryTyped /\ KeepsCover
  <2> SUFFICES ASSUME HInit PROVE TypeOK /\ HistoryTyped /\ KeepsCover
    OBVIOUS
  <2>1. TypeOK
    BY InitTyped DEF HInit, WInit
  <2>2. opening \in Int
    BY DEF HInit
  <2>3. sweptBlind \in BOOLEAN
    BY Zenon DEF HInit
  <2>4. KeepsCover
    BY DEF HInit, WInit, Init, KeepsCover, Hatches
  <2> QED BY <2>1, <2>2, <2>3, <2>4 DEF HistoryTyped
<1>2. TypeOK /\ HistoryTyped /\ KeepsCover /\ [HNext]_hvars
        => (TypeOK /\ HistoryTyped /\ KeepsCover)'
  <2>1. CASE HNext
    BY <2>1, HNextKeepsCover, HNextIsNext, NextTyped
  <2>2. CASE UNCHANGED hvars
    BY <2>2, StutterTyped
    DEF hvars, wvars, history, vars, roles, funds, hatches, HistoryTyped, KeepsCover, Surplus
  <2> QED BY <2>1, <2>2
<1>3. TypeOK /\ HistoryTyped /\ KeepsCover => CoveredDespiteSweeps
  BY WidthAssumption
  DEF TypeOK, HistoryTyped, KeepsCover, CoveredDespiteSweeps, Surplus, Amount, NatAmount, Addrs
<1> QED BY <1>1, <1>2, <1>3, PTL DEF HSpec
=============================================================================
