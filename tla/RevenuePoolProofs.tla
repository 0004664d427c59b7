------------------------- MODULE RevenuePoolProofs --------------------------
(***************************************************************************)
(* Proofs about the revenue pool, for every set of users, every amount,    *)
(* every length of the timelock and batches of every length: the emergency *)
(* drain implements the abstract timelock, money leaves the pool as it is  *)
(* allowed to and in no other way, and a monitor of the events knows the   *)
(* pool.                                                                   *)
(*                                                                         *)
(* A batch is a fold of transfers over its list.  Each fact about batches  *)
(* is an induction over the list: it holds of the ledgers after every      *)
(* prefix.                                                                 *)
(***************************************************************************)
EXTENDS RevenuePoolHistory, Induction

ClockTyped == now \in Nat

\* The calls that leave the drain and the clock alone.
LEMMA OthersLeaveTheDrain ==
    ASSUME NEW u \in Users,
           \/ \E token : InitPool(u, token)
           \/ \E n : SetAdmin(u, n)
           \/ AcceptAdmin(u)
           \/ CancelAdminTransfer(u)
           \/ \E g : SetPauseGuardian(u, g)
           \/ ClearPauseGuardian(u)
           \/ Pause(u)
           \/ Unpause(u)
           \/ \E n : SetMaxDistribute(u, n)
           \/ \E hash : Upgrade(u, hash)
           \/ \E n : ReceivePayment(u, n)
           \/ Broadcast(u)
           \/ \E n : DepositYield(u, n)
           \/ \E to, n : Distribute(u, to, n)
           \/ \E payments : BatchDistribute(u, payments)
    PROVE  UNCHANGED <<drain, now>>
BY DEF InitPool, SetAdmin, AcceptAdmin, CancelAdminTransfer, SetPauseGuardian,
       ClearPauseGuardian, Pause, Unpause, SetMaxDistribute, Upgrade, ReceivePayment, Broadcast,
       DepositYield, Distribute, BatchDistribute, rest

\* Every step proposes, cancels, executes or ages the drain as Timelock allows, or
\* leaves it alone.
LEMMA HNextIsTimelocked ==
    ASSUME ClockTyped, [HNext]_hvars
    PROVE  /\ ClockTyped'
           /\ [DrainTimelock!Next]_(DrainTimelock!vars)
<1> USE DEF DrainTimelock!vars, ClockTyped
<1>1. ASSUME NEW u \in Users, NEW to \in Addrs, NEW amount \in Amounts,
             ProposeEmergencyDrain(u, to, amount), UNCHANGED drained
      PROVE  ClockTyped' /\ DrainTimelock!Propose
  <2>1. drain' = PendingEmergencyDrain(to, amount) /\ UNCHANGED now
    BY <1>1 DEF ProposeEmergencyDrain
  <2>2. drain' \in [payload : [to : Addrs, amount : Int], proposed_at : Nat, execute_after : Nat]
    BY <2>1, BoundAssumption DEF PendingEmergencyDrain
  <2>3. drain' # None
    BY <2>2, NoneAssumption
  <2>4. drain'.proposed_at = now /\ drain'.execute_after = now + EMERGENCY_DRAIN_TIMELOCK_SECONDS
    BY <2>1 DEF PendingEmergencyDrain
  <2> QED BY <1>1, <2>1, <2>3, <2>4, BoundAssumption DEF DrainTimelock!Propose
<1>2. ASSUME NEW u \in Users, CancelEmergencyDrain(u), UNCHANGED drained
      PROVE  ClockTyped' /\ DrainTimelock!Cancel
  BY <1>2 DEF CancelEmergencyDrain, DrainTimelock!Cancel
<1>3. ASSUME NEW u \in Users, ExecuteEmergencyDrain(u), drained' = drain.payload
      PROVE  ClockTyped' /\ DrainTimelock!Execute
  BY <1>3 DEF ExecuteEmergencyDrain, DrainTimelock!Execute
<1>4. CASE Tick /\ UNCHANGED drained
  BY <1>4 DEF Tick, DrainTimelock!Tick, DrainTimelock!Next
<1>5. ASSUME UNCHANGED <<drain, now, drained>>
      PROVE  ClockTyped' /\ UNCHANGED DrainTimelock!vars
  BY <1>5
<1>6. CASE RoleStep /\ UNCHANGED drained
  BY <1>5, <1>6, OthersLeaveTheDrain DEF RoleStep
<1>7. CASE MoneyStep /\ UNCHANGED drained
  BY <1>1, <1>2, <1>5, <1>7, OthersLeaveTheDrain DEF MoneyStep, DrainTimelock!Next
<1>8. CASE ExternalStep /\ UNCHANGED drained
  BY <1>4, <1>5, <1>8 DEF ExternalStep, ExternalTransfer
<1>9. CASE DrainStep /\ drained' = drain.payload
  BY <1>3, <1>9 DEF DrainStep, DrainTimelock!Next
<1>10. CASE UNCHANGED hvars
  BY <1>5, <1>10 DEF hvars, vars
<1> QED BY <1>6, <1>7, <1>8, <1>9, <1>10 DEF HNext

\* Whatever the admins do, propose and cancel, the pool is drained only by the proposal
\* that is pending, the full delay after it was last made, and once.
THEOREM DrainsAreTimelocked == HSpec => DrainIsTimelocked
<1>1. HInit => ClockTyped /\ DrainTimelock!Init
  BY DEF HInit, Init, ClockTyped, DrainTimelock!Init
<1>2. ClockTyped /\ [HNext]_hvars => ClockTyped' /\ [DrainTimelock!Next]_(DrainTimelock!vars)
  BY HNextIsTimelocked
<1> QED BY <1>1, <1>2, PTL DEF HSpec, DrainIsTimelocked, DrainTimelock!Spec

-----------------------------------------------------------------------------
(* The admin role.                                                         *)

AdminTransfer == INSTANCE TwoStepRole WITH holder <- admin, nominee <- pendingAdmin

\* Every step is one of the abstract hand-over, or a stutter.
LEMMA NextIsTwoStep ==
    ASSUME [Next]_vars PROVE [AdminTransfer!Next]_(AdminTransfer!vars)
<1> USE DEF AdminTransfer!vars
<1>1. None \notin Users
  BY AddressAssumption DEF Addrs
<1>2. CASE RoleStep
  <2>1. ASSUME NEW u \in Users, NEW token, InitPool(u, token) PROVE AdminTransfer!Appoint
    BY <1>1, <2>1 DEF InitPool, AdminTransfer!Appoint
  <2>2. ASSUME NEW u \in Users, NEW n \in Users, SetAdmin(u, n) PROVE AdminTransfer!Nominate
    BY <1>1, <2>2 DEF SetAdmin, AdminCalls, AdminTransfer!Nominate
  <2>3. ASSUME NEW u \in Users, AcceptAdmin(u) PROVE AdminTransfer!Accept
    BY <2>3 DEF AcceptAdmin, AdminTransfer!Accept
  <2>4. ASSUME NEW u \in Users, CancelAdminTransfer(u) PROVE AdminTransfer!Withdraw
    BY <2>4 DEF CancelAdminTransfer, AdminTransfer!Withdraw
  <2>5. ASSUME NEW u \in Users,
               \/ \E g \in Users : SetPauseGuardian(u, g)
               \/ ClearPauseGuardian(u) \/ Pause(u) \/ Unpause(u)
               \/ \E n \in Caps : SetMaxDistribute(u, n)
               \/ \E hash \in Hashes : Upgrade(u, hash)
               \/ \E n \in Amounts : ReceivePayment(u, n)
               \/ Broadcast(u)
        PROVE  UNCHANGED AdminTransfer!vars
    BY <2>5 DEF SetPauseGuardian, ClearPauseGuardian, Pause, Unpause, SetMaxDistribute, Upgrade,
                ReceivePayment, Broadcast, roles
  <2> QED BY <1>2, <2>1, <2>2, <2>3, <2>4, <2>5 DEF RoleStep, AdminTransfer!Next
<1>3. CASE MoneyStep \/ DrainStep \/ ExternalStep
  BY <1>3
  DEF MoneyStep, DepositYield, Distribute, BatchDistribute, ProposeEmergencyDrain,
      CancelEmergencyDrain, DrainStep, ExecuteEmergencyDrain, ExternalStep, ExternalTransfer, Tick,
      roles
<1>4. CASE UNCHANGED vars
  BY <1>4 DEF vars, roles
<1> QED BY <1>2, <1>3, <1>4 DEF Next

\* The pool's admin, who may pay everything out, is replaced only by a nominee of an
\* admin that accepts before the nomination is cancelled or replaced (set_admin,
\* accept_admin, cancel_admin_transfer).
THEOREM AdminChangesInTwoSteps == HSpec => AdminTransfer!Spec
<1>1. HInit => AdminTransfer!Init
  BY DEF HInit, Init, AdminTransfer!Init
<1>2. [HNext]_hvars => [AdminTransfer!Next]_(AdminTransfer!vars)
  <2>1. [HNext]_hvars => [Next]_vars
    BY DEF HNext, hvars, Next
  <2> QED BY <2>1, NextIsTwoStep
<1> QED BY <1>1, <1>2, PTL DEF HSpec, AdminTransfer!Spec

-----------------------------------------------------------------------------
(* Lists of events and of payments, taken one by one.                      *)

\* The books after a list of events are those after all but the last, and the last.
LEMMA BooksFold ==
    ASSUME NEW b, NEW events, Len(events) \in Nat, NEW none
    PROVE  /\ BooksAfter(b, events, none)[0] = b
           /\ \A i \in 1..Len(events) :
                BooksAfter(b, events, none)[i]
                    = Heard(BooksAfter(b, events, none)[i - 1], events[i], none)
<1> DEFINE IsFold(g, n) ==
             g = [i \in 0..n |-> IF i = 0 THEN b ELSE Heard(g[i - 1], events[i], none)]
           Good == {n \in Nat : \E g : IsFold(g, n)}
<1>1. 0 \in Good
  <2>1. IsFold([i \in 0..0 |-> b], 0)
    OBVIOUS
  <2> QED BY <2>1
<1>2. ASSUME NEW n \in Nat, n \in Good PROVE n + 1 \in Good
  <2>1. PICK g : IsFold(g, n)
    BY <1>2
  <2> DEFINE h == [i \in 0..n + 1 |-> IF i <= n THEN g[i] ELSE Heard(g[n], events[n + 1], none)]
  <2>2. ASSUME NEW i \in 0..n + 1
        PROVE  h[i] = IF i = 0 THEN b ELSE Heard(h[i - 1], events[i], none)
    <3>1. CASE i <= n
      BY <2>1, <3>1
    <3>2. CASE i = n + 1
      BY <2>1, <3>2
    <3> QED BY <3>1, <3>2
  <2>3. IsFold(h, n + 1)
    BY <2>2
  <2> HIDE DEF h, IsFold
  <2> QED BY <2>3
<1>3. Nat \subseteq Good
  <2> HIDE DEF Good
  <2> QED BY <1>1, <1>2, NatSetInduction
<1>4. IsFold(BooksAfter(b, events, none), Len(events))
  <2>1. \E g : IsFold(g, Len(events))
    BY <1>3
  <2>2. BooksAfter(b, events, none) = CHOOSE g : IsFold(g, Len(events))
    BY DEF BooksAfter
  <2> QED BY <2>1, <2>2
<1> QED BY <1>4

\* So does the token ledger with a list of payments.
LEMMA LedgersFold ==
    ASSUME NEW payments, Len(payments) \in Nat
    PROVE  /\ LedgersAfter(payments)[0] = usdc
           /\ \A i \in 1..Len(payments) :
                LedgersAfter(payments)[i] = Paid(LedgersAfter(payments)[i - 1], payments[i])
<1> DEFINE IsFold(g, n) == g = [i \in 0..n |-> IF i = 0 THEN usdc ELSE Paid(g[i - 1], payments[i])]
           Good == {n \in Nat : \E g : IsFold(g, n)}
<1>1. 0 \in Good
  <2>1. IsFold([i \in 0..0 |-> usdc], 0)
    OBVIOUS
  <2> QED BY <2>1
<1>2. ASSUME NEW n \in Nat, n \in Good PROVE n + 1 \in Good
  <2>1. PICK g : IsFold(g, n)
    BY <1>2
  <2> DEFINE h == [i \in 0..n + 1 |-> IF i <= n THEN g[i] ELSE Paid(g[n], payments[n + 1])]
  <2>2. ASSUME NEW i \in 0..n + 1
        PROVE  h[i] = IF i = 0 THEN usdc ELSE Paid(h[i - 1], payments[i])
    <3>1. CASE i <= n
      BY <2>1, <3>1
    <3>2. CASE i = n + 1
      BY <2>1, <3>2
    <3> QED BY <3>1, <3>2
  <2>3. IsFold(h, n + 1)
    BY <2>2
  <2> HIDE DEF h, IsFold
  <2> QED BY <2>3
<1>3. Nat \subseteq Good
  <2> HIDE DEF Good
  <2> QED BY <1>1, <1>2, NatSetInduction
<1>4. IsFold(LedgersAfter(payments), Len(payments))
  <2>1. \E g : IsFold(g, Len(payments))
    BY <1>3
  <2>2. LedgersAfter(payments) = CHOOSE g : IsFold(g, Len(payments))
    BY DEF LedgersAfter
  <2> QED BY <2>1, <2>2
<1> QED BY <1>4

-----------------------------------------------------------------------------
(* Types.                                                                  *)

Ledgers == [Addrs -> 0..I128Max]

\* A transfer moves its amount, and keeps every balance in the i128 range.
LEMMA TransferKeepsLedger ==
    ASSUME NEW ledger \in Ledgers, NEW from \in Addrs, NEW to \in Addrs, NEW amount \in Int,
           Transferable(ledger, from, to, amount)
    PROVE  /\ Transferred(ledger, from, to, amount) \in Ledgers
           /\ \A a \in Addrs : Transferred(ledger, from, to, amount)[a] =
                IF from = to THEN ledger[a]
                ELSE IF a = from THEN ledger[a] - amount
                ELSE IF a = to THEN ledger[a] + amount ELSE ledger[a]
BY BoundAssumption DEF Ledgers, Transferable, Transferred

\* What a batch does, payment by payment: every ledger it passes through is one, the pool
\* only pays, and each recipient has got its own payment or not yet.
LEMMA BatchMoves ==
    ASSUME usdc \in Ledgers, NEW u, NEW payments \in Payments, BatchDistribute(u, payments)
    PROVE  \A i \in 0..Len(payments) :
             /\ LedgersAfter(payments)[i] \in Ledgers
             /\ \A a \in Users :
                  /\ (\A j \in 1..i : payments[j].to # a) => LedgersAfter(payments)[i][a] = usdc[a]
                  /\ \A j \in 1..i : payments[j].to = a =>
                       LedgersAfter(payments)[i][a] = usdc[a] + payments[j].amount
<1> DEFINE after == LedgersAfter(payments)
           Held(i) ==
             /\ after[i] \in Ledgers
             /\ \A a \in Users :
                  /\ (\A j \in 1..i : payments[j].to # a) => after[i][a] = usdc[a]
                  /\ \A j \in 1..i : payments[j].to = a =>
                       after[i][a] = usdc[a] + payments[j].amount
           Good == {n \in Nat : n <= Len(payments) => Held(n)}
<1>1. Len(payments) \in Nat /\ DOMAIN payments = 1..Len(payments)
      /\ \A i \in 1..Len(payments) : payments[i].to \in Addrs /\ payments[i].amount \in Int
  BY BoundAssumption DEF Payments
<1>2. /\ \A i, j \in 1..Len(payments) : payments[i].to = payments[j].to => i = j
      /\ \A i \in 1..Len(payments) :
           /\ payments[i].to # Pool
           /\ Transferable(after[i - 1], Pool, payments[i].to, payments[i].amount)
  BY <1>1 DEF BatchDistribute, DistinctRecipients
<1>3. after[0] = usdc /\ \A i \in 1..Len(payments) : after[i] = Paid(after[i - 1], payments[i])
  BY <1>1, LedgersFold
<1> HIDE DEF after
<1>4. 0 \in Good
  BY <1>3
<1>5. ASSUME NEW n \in Nat, n \in Good PROVE n + 1 \in Good
  <2> SUFFICES ASSUME n + 1 <= Len(payments) PROVE Held(n + 1)
    OBVIOUS
  <2> DEFINE to == payments[n + 1].to
             amount == payments[n + 1].amount
  <2>1. n \in 0..Len(payments) /\ n + 1 \in 1..Len(payments) /\ (n + 1) - 1 = n
    OBVIOUS
  <2>2. Held(n) /\ after[n] \in Ledgers
    BY <1>5, <2>1
  <2>3. to \in Users /\ amount \in Int /\ Pool \in Addrs /\ Pool # to /\ to \in Addrs
        /\ Transferable(after[n], Pool, to, amount)
    BY <1>1, <1>2, <2>1 DEF Addrs
  <2>4. after[n + 1] = Transferred(after[n], Pool, to, amount)
    BY <1>3, <2>1 DEF Paid
  <2> HIDE DEF to, amount, Good
  <2>5. /\ after[n + 1] \in Ledgers
        /\ \A a \in Users : after[n + 1][a] = IF a = to THEN after[n][a] + amount ELSE after[n][a]
    BY <2>2, <2>3, <2>4, TransferKeepsLedger, AddressAssumption DEF Addrs
  <2>6. ASSUME NEW a \in Users
        PROVE  /\ (\A j \in 1..n + 1 : payments[j].to # a) => after[n + 1][a] = usdc[a]
               /\ \A j \in 1..n + 1 : payments[j].to = a =>
                    after[n + 1][a] = usdc[a] + payments[j].amount
    <3>1. CASE a = to
      <4>1. \A j \in 1..n + 1 : payments[j].to = a <=> j = n + 1
        BY <1>2, <2>1, <3>1 DEF to
      <4>2. \A j \in 1..n : payments[j].to # a
        BY <4>1
      <4> QED BY <2>1, <2>2, <2>5, <3>1, <4>1, <4>2 DEF amount
    <3>2. CASE a # to
      <4>1. \A j \in 1..n + 1 : payments[j].to = a <=> j \in 1..n /\ payments[j].to = a
        BY <3>2, <2>1 DEF to
      <4> QED BY <2>2, <2>5, <3>2, <4>1
    <3> QED BY <3>1, <3>2
  <2> QED BY <2>5, <2>6
<1>6. Nat \subseteq Good
  <2> HIDE DEF Good
  <2> QED BY <1>4, <1>5, NatSetInduction
<1> QED BY <1>1, <1>6 DEF after

\* Roles and switches.
LEMMA RolesKeepTypes == ASSUME TypeOK, RoleStep PROVE TypeOK'
<1> USE DEF TypeOK
<1>1. ASSUME NEW u \in Users, NEW token \in Addrs \cup {Usdc}, InitPool(u, token) PROVE TypeOK'
  BY <1>1 DEF InitPool, Addrs
<1>2. ASSUME NEW u \in Users, NEW n \in Users, SetAdmin(u, n) \/ SetPauseGuardian(u, n)
      PROVE  TypeOK'
  BY <1>2 DEF SetAdmin, SetPauseGuardian, rest, code
<1>3. ASSUME NEW u \in Users,
             \/ AcceptAdmin(u) \/ CancelAdminTransfer(u) \/ ClearPauseGuardian(u)
             \/ Pause(u) \/ Unpause(u)
             \/ Broadcast(u) \/ (\E n \in Amounts : ReceivePayment(u, n))
      PROVE  TypeOK'
  BY <1>3 DEF AcceptAdmin, CancelAdminTransfer, ClearPauseGuardian, Pause, Unpause, Broadcast,
              ReceivePayment, rest, code, roles
<1>4. ASSUME NEW u \in Users, NEW n \in Caps, SetMaxDistribute(u, n) PROVE TypeOK'
  BY <1>4, BoundAssumption DEF SetMaxDistribute, roles, code
<1>5. ASSUME NEW u \in Users, NEW hash \in Hashes, Upgrade(u, hash) PROVE TypeOK'
  BY <1>5 DEF Upgrade, roles
<1> QED BY <1>1, <1>2, <1>3, <1>4, <1>5 DEF RoleStep

\* What leaves everything but the token ledger, the yield and the drain alone.
Steady == UNCHANGED <<roles, code, paused, maxDistribute, now>>

\* Types are kept by what leaves roles, cap and clock alone and only closes a drain.
LEMMA SteadyKeepsTypes ==
    ASSUME TypeOK, Steady, usdc' \in Ledgers, cumulativeYield' \in 0..I128Max,
           drain' \in {drain, None}
    PROVE  TypeOK'
BY DEF TypeOK, Steady, roles, code, Ledgers

\* Deposits, distributions, batches and drains keep the types.
LEMMA MoneyKeepsTypes == ASSUME TypeOK, MoneyStep \/ DrainStep PROVE TypeOK'
<1>0. /\ usdc \in Ledgers /\ cumulativeYield \in 0..I128Max
      /\ \A n \in Amounts : n \in Int
      /\ Pool \in Addrs /\ Users \subseteq Addrs
  BY BoundAssumption DEF TypeOK, Ledgers, Addrs
<1>1. ASSUME NEW u \in Users, NEW n \in Amounts, DepositYield(u, n) PROVE TypeOK'
  <2>1. usdc' \in Ledgers
    BY <1>0, <1>1, TransferKeepsLedger DEF DepositYield, Transfer
  <2>2. cumulativeYield' \in 0..I128Max
    BY <1>0, <1>1, BoundAssumption DEF DepositYield, Yield
  <2> QED BY <1>1, <2>1, <2>2, SteadyKeepsTypes DEF DepositYield, Steady
<1>2. ASSUME NEW u \in Users, NEW to \in Addrs, NEW n \in Amounts, Distribute(u, to, n)
      PROVE  TypeOK'
  <2>1. usdc' \in Ledgers
    BY <1>0, <1>2, TransferKeepsLedger DEF Distribute, Transfer
  <2> QED BY <1>0, <1>2, <2>1, SteadyKeepsTypes DEF Distribute, Steady
<1>3. ASSUME NEW u \in Users, NEW payments \in Payments, BatchDistribute(u, payments)
      PROVE  TypeOK'
  <2>1. Len(payments) \in Nat
    BY DEF Payments
  <2>2. usdc' = LedgersAfter(payments)[Len(payments)]
    BY <1>3 DEF BatchDistribute
  <2>3. usdc' \in Ledgers
    BY <1>0, <1>3, <2>1, <2>2, BatchMoves
  <2> QED BY <1>0, <1>3, <2>3, SteadyKeepsTypes DEF BatchDistribute, Steady
<1>4. ASSUME NEW u \in Users, NEW to \in Addrs, NEW n \in Amounts, ProposeEmergencyDrain(u, to, n)
      PROVE  TypeOK'
  BY <1>4, BoundAssumption
  DEF ProposeEmergencyDrain, PendingEmergencyDrain, DeadlineFits, TypeOK, Addrs, roles, code
<1>5. ASSUME NEW u \in Users, CancelEmergencyDrain(u) PROVE TypeOK'
  BY <1>0, <1>5, SteadyKeepsTypes DEF CancelEmergencyDrain, Steady
<1>6. ASSUME NEW u \in Users, ExecuteEmergencyDrain(u) PROVE TypeOK'
  <2>1. drain.payload.to \in Addrs /\ drain.payload.amount \in Int
    BY <1>6, BoundAssumption DEF ExecuteEmergencyDrain, TypeOK, Addrs
  <2>2. usdc' \in Ledgers
    BY <1>0, <1>6, <2>1, TransferKeepsLedger DEF ExecuteEmergencyDrain, Transfer
  <2> QED BY <1>0, <1>6, <2>2, SteadyKeepsTypes DEF ExecuteEmergencyDrain, Steady
<1> QED BY <1>1, <1>2, <1>3, <1>4, <1>5, <1>6 DEF MoneyStep, DrainStep

\* So do transfers that bypass the pool, and the clock.
LEMMA ExternalKeepsTypes == ASSUME TypeOK, ExternalStep PROVE TypeOK'
<1>1. ASSUME NEW from \in Users, NEW to \in Addrs, NEW n \in Amounts, ExternalTransfer(from, to, n)
      PROVE  TypeOK'
  <2>1. usdc' \in Ledgers
    BY <1>1, BoundAssumption DEF ExternalTransfer, Transferred, TypeOK, Ledgers, Addrs
  <2> QED BY <1>1, <2>1, SteadyKeepsTypes DEF ExternalTransfer, Steady, TypeOK
<1>2. CASE Tick
  BY <1>2, BoundAssumption DEF Tick, TypeOK, roles, code
<1> QED BY <1>1, <1>2 DEF ExternalStep

\* So does every step.
LEMMA StepKeepsTypes == ASSUME TypeOK, [HNext]_hvars PROVE TypeOK'
<1>1. CASE UNCHANGED hvars
  BY <1>1 DEF hvars, vars, roles, code, TypeOK
<1> QED BY <1>1, RolesKeepTypes, MoneyKeepsTypes, ExternalKeepsTypes DEF HNext

\* An empty contract is well typed.
LEMMA InitTyped == ASSUME HInit PROVE TypeOK
<1>1. usdc \in [Addrs -> 0..I128Max]
  BY BoundAssumption DEF HInit, Init
<1>2. I128Max \in Nat \ {0} /\ MaxTime \in Nat
  BY BoundAssumption
<1>3. maxDistribute \in 1..I128Max /\ cumulativeYield \in 0..I128Max /\ now \in 0..MaxTime
  BY <1>2 DEF HInit, Init
<1>4. paused \in BOOLEAN /\ drain = None
  BY DEF HInit, Init
<1>5. /\ {admin, pendingAdmin, guardian} \subseteq Users \cup {None}
      /\ usdcToken \in Users \cup {Usdc, None} /\ version \in Hashes \cup {None}
  BY DEF HInit, Init
<1> QED BY <1>1, <1>3, <1>4, <1>5 DEF TypeOK

\* Every balance of the token, the yield total and the cap stay in the i128 range, for any
\* amounts, batches and initial ledger, and a pending drain is one that can be carried out.
THEOREM TypeCorrect == HSpec => []TypeOK
BY InitTyped, StepKeepsTypes, PTL DEF HSpec

-----------------------------------------------------------------------------
(* What leaves the pool.                                                   *)

OutflowAuthorised ==
    usdc'[Pool] < usdc[Pool] =>
        \/ /\ drain # None /\ now >= drain.execute_after /\ drain' = None
           /\ usdc' = Transferred(usdc, Pool, drain.payload.to, drain.payload.amount)
        \/ /\ ~paused
           /\ \A a \in Users : Gain(a) \in 0..maxDistribute

\* Every call that moves money out of the pool is authorised.
LEMMA OutflowsFromMoneySteps ==
    ASSUME TypeOK, MoneyStep \/ DrainStep
    PROVE  OutflowAuthorised
<1>0. /\ usdc \in Ledgers /\ maxDistribute \in Nat
      /\ \A n \in Amounts : n \in Int
      /\ Pool \in Addrs /\ Pool \notin Users /\ Users \subseteq Addrs
      /\ \A a \in Addrs : usdc[a] \in Int
  BY AddressAssumption, BoundAssumption DEF TypeOK, Ledgers, Addrs
<1>1. ASSUME NEW u \in Users, NEW n \in Amounts, DepositYield(u, n)
      PROVE  usdc'[Pool] > usdc[Pool]
  BY <1>0, <1>1, TransferKeepsLedger DEF DepositYield, Transfer
<1>2. ASSUME NEW u \in Users, NEW to \in Addrs, NEW n \in Amounts, Distribute(u, to, n)
      PROVE  OutflowAuthorised
  <2>1. \A a \in Users : usdc'[a] = IF a = to THEN usdc[a] + n ELSE usdc[a]
    BY <1>0, <1>2, TransferKeepsLedger DEF Distribute, Transfer
  <2>2. n \in 0..maxDistribute /\ ~paused
    BY <1>0, <1>2 DEF Distribute, InService
  <2> QED BY <1>0, <2>1, <2>2 DEF OutflowAuthorised, Gain
<1>3. ASSUME NEW u \in Users, NEW payments \in Payments, BatchDistribute(u, payments)
      PROVE  OutflowAuthorised
  <2>1. Len(payments) \in Nat /\ DOMAIN payments = 1..Len(payments)
        /\ \A i \in 1..Len(payments) : payments[i] \in Range(payments) /\ payments[i].amount \in Int
    BY BoundAssumption DEF Payments, Range
  <2>a. \A p \in Range(payments) : p.amount > 0 /\ p.amount <= maxDistribute
    BY <1>3 DEF BatchDistribute
  <2>2. \A i \in 1..Len(payments) : payments[i].amount \in 0..maxDistribute
    BY <1>0, <2>a, <2>1
  <2>3. usdc' = LedgersAfter(payments)[Len(payments)] /\ ~paused
    BY <1>3 DEF BatchDistribute, InService
  <2>4. ASSUME NEW a \in Users PROVE Gain(a) \in 0..maxDistribute
    <3>1. /\ (\A j \in 1..Len(payments) : payments[j].to # a) => usdc'[a] = usdc[a]
          /\ \A j \in 1..Len(payments) : payments[j].to = a =>
               usdc'[a] = usdc[a] + payments[j].amount
      BY <1>0, <1>3, <2>1, <2>3, BatchMoves
    <3> QED BY <1>0, <2>2, <3>1 DEF Gain
  <2> QED BY <2>3, <2>4 DEF OutflowAuthorised
<1>4. ASSUME NEW u \in Users, UNCHANGED usdc PROVE OutflowAuthorised
  BY <1>0, <1>4 DEF OutflowAuthorised
<1>5. ASSUME NEW u \in Users, ExecuteEmergencyDrain(u) PROVE OutflowAuthorised
  BY <1>5 DEF ExecuteEmergencyDrain, Transfer, OutflowAuthorised
<1>6. ASSUME NEW u \in Users,
             CancelEmergencyDrain(u) \/ \E to \in Addrs, n \in Amounts : ProposeEmergencyDrain(u, to, n)
      PROVE  OutflowAuthorised
  BY <1>4, <1>6 DEF CancelEmergencyDrain, ProposeEmergencyDrain
<1>7. ASSUME usdc'[Pool] > usdc[Pool] PROVE OutflowAuthorised
  <2>1. usdc[Pool] \in Int
    BY <1>0
  <2>2. CASE usdc'[Pool] < usdc[Pool]
    <3>1. MoneyStep \/ DrainStep => usdc'[Pool] \in Int
      <4>1. MoneyStep \/ DrainStep => TypeOK'
        BY MoneyKeepsTypes
      <4> QED BY <4>1, <1>0 DEF TypeOK
    <3> QED BY <1>7, <2>1, <2>2, <3>1
  <2> QED BY <2>2 DEF OutflowAuthorised
<1> QED BY <1>1, <1>2, <1>3, <1>5, <1>6, <1>7 DEF MoneyStep, DrainStep

\* Nothing else moves money out of the pool.
LEMMA OutflowsFromOthers ==
    ASSUME TypeOK, RoleStep \/ ExternalStep \/ UNCHANGED usdc
    PROVE  OutflowAuthorised
<1>0. usdc \in Ledgers /\ Pool \in Addrs /\ Pool \notin Users /\ Users \subseteq Addrs
      /\ \A a \in Addrs : usdc[a] \in Int
  BY AddressAssumption, BoundAssumption DEF TypeOK, Ledgers, Addrs
<1>1. CASE UNCHANGED usdc
  BY <1>0, <1>1 DEF OutflowAuthorised
<1>2. CASE RoleStep
  <2>1. UNCHANGED usdc
    BY <1>2 DEF RoleStep, InitPool, SetAdmin, AcceptAdmin, CancelAdminTransfer, SetPauseGuardian,
         ClearPauseGuardian, Pause, Unpause, SetMaxDistribute, Upgrade, ReceivePayment, Broadcast,
         rest
  <2> QED BY <1>1, <2>1
<1>3. ASSUME NEW from \in Users, NEW to \in Addrs, NEW n \in Amounts, ExternalTransfer(from, to, n)
      PROVE  OutflowAuthorised
  <2>1. n \in Int /\ n > 0
    BY <1>3, BoundAssumption DEF ExternalTransfer
  <2>2. usdc'[Pool] = IF to = Pool THEN usdc[Pool] + n ELSE usdc[Pool]
    BY <1>0, <1>3, <2>1 DEF ExternalTransfer, Transferred, Ledgers
  <2> QED BY <1>0, <2>1, <2>2 DEF OutflowAuthorised
<1>4. CASE Tick
  BY <1>1, <1>4 DEF Tick
<1> QED BY <1>1, <1>2, <1>3, <1>4 DEF ExternalStep

\* USDC leaves the pool only by the matured drain, to the unit, or while the pool is not
\* paused, and then no account gets more than the cap: for every cap, amount and batch.
THEOREM OutflowsAreAuthorised == HSpec => OutflowsAuthorised
<1>1. TypeOK /\ [HNext]_hvars => [OutflowAuthorised]_hvars
  BY OutflowsFromMoneySteps, OutflowsFromOthers DEF HNext, hvars, vars
<1>2. ([][OutflowAuthorised]_hvars) => OutflowsAuthorised
  <2>1. [OutflowAuthorised]_hvars =>
          [usdc'[Pool] < usdc[Pool] =>
             \/ /\ drain # None /\ now >= drain.execute_after /\ drain' = None
                /\ usdc' = Transferred(usdc, Pool, drain.payload.to, drain.payload.amount)
             \/ /\ ~paused
                /\ \A a \in Users : Gain(a) \in 0..maxDistribute]_hvars
    BY DEF OutflowAuthorised
  <2> QED BY <2>1, PTL DEF OutflowsAuthorised
<1> QED BY <1>1, <1>2, InitTyped, StepKeepsTypes, PTL DEF HSpec

-----------------------------------------------------------------------------
(* The monitor.                                                            *)

\* What the monitor knows is the state itself.
BooksOf(holding) ==
    [admin |-> admin, nominee |-> pendingAdmin, guardian |-> guardian, usdcToken |-> usdcToken,
     version |-> version, paused |-> paused, maxDistribute |-> maxDistribute,
     yield |-> cumulativeYield, drain |-> drain, holding |-> holding]
BooksExact ==
    /\ books = BooksOf(usdc[Pool])
    /\ admin = None => paused = FALSE

\* One event, and two, as the monitor hears them.
LEMMA AnnounceOne ==
    ASSUME NEW e, Announce(<<e>>) PROVE books' = Heard(books, e, None)
<1>1. Len(<<e>>) = 1 /\ <<e>>[1] = e
  OBVIOUS
<1> QED BY <1>1, BooksFold DEF Announce

\* What a call with two events tells the monitor.
LEMMA AnnounceTwo ==
    ASSUME NEW e, NEW f, Announce(<<e, f>>)
    PROVE  books' = Heard(Heard(books, e, None), f, None)
<1> DEFINE es == <<e, f>>
<1>1. Len(es) = 2 /\ es[1] = e /\ es[2] = f
  OBVIOUS
<1>2. books' = BooksAfter(books, es, None)[2]
  BY <1>1 DEF Announce
<1> HIDE DEF es
<1>3. /\ BooksAfter(books, es, None)[0] = books
      /\ \A i \in 1..2 : BooksAfter(books, es, None)[i]
                          = Heard(BooksAfter(books, es, None)[i - 1], es[i], None)
  <2>1. Len(es) \in Nat
    BY <1>1
  <2>2. /\ BooksAfter(books, es, None)[0] = books
        /\ \A i \in 1..Len(es) : BooksAfter(books, es, None)[i]
                                 = Heard(BooksAfter(books, es, None)[i - 1], es[i], None)
    BY <2>1, BooksFold
  <2> QED BY <1>1, <2>2
<1>4. BooksAfter(books, es, None)[1] = Heard(books, e, None)
  BY <1>1, <1>3
<1> QED BY <1>1, <1>2, <1>3, <1>4

\* Every change of a role, the pause or the cap is announced.
LEMMA RolesAnnounced == ASSUME BooksExact, RoleStep PROVE BooksExact'
<1> USE DEF BooksExact, BooksOf
<1>1. ASSUME NEW u \in Users, NEW token \in Addrs \cup {Usdc}, InitPool(u, token)
      PROVE  BooksExact'
  <2>0. books' = Heard(books, Event(Topics.init, [admin |-> u, token |-> token]), None)
    BY <1>1, AnnounceOne DEF InitPool
  <2>1. books' = [books EXCEPT !.admin = u, !.usdcToken = token]
    BY <2>0 DEF Heard, Event, Topics
  <2> QED BY <1>1, <2>1 DEF InitPool
<1>2. ASSUME NEW u \in Users, NEW n \in Users, SetAdmin(u, n) PROVE BooksExact'
  <2>1. books' = [books EXCEPT !.nominee = n]
    <3>1. books' = Heard(Heard(books, Event(Topics.adminChanged, n), None),
                         Event(Topics.transferStarted, n), None)
      BY <1>2, AnnounceTwo DEF SetAdmin
    <3>2. Heard(books, Event(Topics.adminChanged, n), None) = [books EXCEPT !.nominee = n]
      BY DEF Heard, Event, Topics
    <3> DEFINE once == [books EXCEPT !.nominee = n]
    <3>3. Heard(once, Event(Topics.transferStarted, n), None) = [once EXCEPT !.nominee = n]
      <4> HIDE DEF once
      <4> QED BY DEF Heard, Event, Topics
    <3>4. [once EXCEPT !.nominee = n] = once
      OBVIOUS
    <3> QED BY <3>1, <3>2, <3>3, <3>4
  <2> QED BY <1>2, <2>1 DEF SetAdmin, rest, code
<1>3. ASSUME NEW u \in Users, AcceptAdmin(u) PROVE BooksExact'
  <2>0. books' = Heard(books, Event(Topics.transferDone, u), None)
    BY <1>3, AnnounceOne DEF AcceptAdmin
  <2>1. books' = [books EXCEPT !.admin = u, !.nominee = None]
    BY <2>0 DEF Heard, Event, Topics
  <2> QED BY <1>3, <2>1 DEF AcceptAdmin, rest, code
<1>4. ASSUME NEW u \in Users, CancelAdminTransfer(u) PROVE BooksExact'
  <2>0. books' = Heard(books, Event(Topics.adminCancelled, pendingAdmin), None)
    BY <1>4, AnnounceOne DEF CancelAdminTransfer
  <2>1. books' = [books EXCEPT !.nominee = None]
    BY <2>0 DEF Heard, Event, Topics
  <2> QED BY <1>4, <2>1 DEF CancelAdminTransfer, rest, code
<1>5. ASSUME NEW u \in Users, NEW g \in Users, SetPauseGuardian(u, g) PROVE BooksExact'
  <2>0. books' = Heard(books, Event(Topics.guardianSet, g), None)
    BY <1>5, AnnounceOne DEF SetPauseGuardian
  <2>1. books' = [books EXCEPT !.guardian = g]
    BY <2>0 DEF Heard, Event, Topics
  <2> QED BY <1>5, <2>1 DEF SetPauseGuardian, rest, code
<1>6. ASSUME NEW u \in Users, ClearPauseGuardian(u) PROVE BooksExact'
  <2>0. books' = Heard(books, Event(Topics.guardianCleared, guardian), None)
    BY <1>6, AnnounceOne DEF ClearPauseGuardian
  <2>1. books' = [books EXCEPT !.guardian = None]
    BY <2>0 DEF Heard, Event, Topics
  <2> QED BY <1>6, <2>1 DEF ClearPauseGuardian, rest, code
<1>7. ASSUME NEW u \in Users, Pause(u) PROVE BooksExact'
  <2>0. books' = Heard(books, Event(Topics.pauseSet, TRUE), None)
    BY <1>7, AnnounceOne DEF Pause
  <2>1. books' = [books EXCEPT !.paused = TRUE]
    BY <2>0 DEF Heard, Event, Topics
  <2> QED BY <1>7, <2>1 DEF Pause, rest, code, roles
<1>8. ASSUME NEW u \in Users, Unpause(u) PROVE BooksExact'
  <2>0. books' = Heard(books, Event(Topics.pauseSet, FALSE), None)
    BY <1>8, AnnounceOne DEF Unpause
  <2>1. books' = [books EXCEPT !.paused = FALSE]
    BY <2>0 DEF Heard, Event, Topics
  <2> QED BY <1>8, <2>1 DEF Unpause, rest, code, roles
<1>9. ASSUME NEW u \in Users, NEW n \in Caps, SetMaxDistribute(u, n) PROVE BooksExact'
  <2>0. books' = Heard(books, Event(Topics.setMaxDistribute, n), None)
    BY <1>9, AnnounceOne DEF SetMaxDistribute
  <2>1. books' = [books EXCEPT !.maxDistribute = n]
    BY <2>0 DEF Heard, Event, Topics
  <2> QED BY <1>9, <2>1 DEF SetMaxDistribute, code, roles
<1>10. ASSUME NEW u \in Users, NEW hash \in Hashes, Upgrade(u, hash) PROVE BooksExact'
  <2>0. books' = Heard(books, Event(Topics.upgraded, hash), None)
    BY <1>10, AnnounceOne DEF Upgrade
  <2>1. books' = [books EXCEPT !.version = hash]
    BY <2>0 DEF Heard, Event, Topics
  <2> QED BY <1>10, <2>1 DEF Upgrade, roles
<1>11. ASSUME NEW u \in Users, Broadcast(u) PROVE BooksExact'
  <2>0. books' = Heard(books, Event(Topics.broadcast, u), None)
    BY <1>11, AnnounceOne DEF Broadcast
  <2>1. books' = books
    BY <2>0 DEF Heard, Event, Topics
  <2> QED BY <1>11, <2>1 DEF Broadcast, rest, code, roles
<1>12. ASSUME NEW u \in Users, NEW n \in Amounts, ReceivePayment(u, n) PROVE BooksExact'
  <2>0. books' = Heard(books, Event(Topics.receivePayment, n), None)
    BY <1>12, AnnounceOne DEF ReceivePayment
  <2>1. books' = books
    BY <2>0 DEF Heard, Event, Topics
  <2> QED BY <1>12, <2>1 DEF ReceivePayment, rest, code, roles
<1> QED
  BY <1>1, <1>2, <1>3, <1>4, <1>5, <1>6, <1>7, <1>8, <1>9, <1>10, <1>11, <1>12 DEF RoleStep

\* What the monitor makes of a batch, payment by payment.
LEMMA BatchAnnounced ==
    ASSUME TypeOK, BooksExact, NEW u, NEW payments \in Payments, BatchDistribute(u, payments)
    PROVE  books' = [books EXCEPT !.holding = usdc'[Pool]]
<1> DEFINE after == LedgersAfter(payments)
           events == AnnouncedPayments(payments)
           heard == BooksAfter(books, events, None)
           Good == {n \in Nat : n <= Len(payments) => heard[n] = [books EXCEPT !.holding = after[n][Pool]]}
<1>1. /\ Len(payments) \in Nat /\ DOMAIN payments = 1..Len(payments)
      /\ Len(events) = Len(payments)
      /\ \A i \in 1..Len(payments) :
           /\ payments[i].to \in Addrs /\ payments[i].amount \in Int
           /\ events[i] = Event(Topics.batchDistribute, payments[i].amount)
  <2>1. PICK n \in 0..MaxItems : payments \in [1..n -> [to : Addrs, amount : Amounts]]
    BY DEF Payments
  <2>2. n \in Nat /\ Len(payments) = n /\ DOMAIN payments = 1..n
    BY <2>1, BoundAssumption
  <2>3. Len(events) = n /\ \A i \in 1..n : events[i] = Event(Topics.batchDistribute, payments[i].amount)
    BY <2>2 DEF AnnouncedPayments
  <2>4. \A i \in 1..n : payments[i].to \in Addrs /\ payments[i].amount \in Int
    BY <2>1, BoundAssumption
  <2> QED BY <2>2, <2>3, <2>4
<1>2. \A i \in 1..Len(payments) :
        /\ payments[i].to # Pool
        /\ Transferable(after[i - 1], Pool, payments[i].to, payments[i].amount)
  BY <1>1 DEF BatchDistribute
<1>3. after[0] = usdc /\ \A i \in 1..Len(payments) : after[i] = Paid(after[i - 1], payments[i])
  BY <1>1, LedgersFold
<1>4. \A i \in 0..Len(payments) : after[i] \in Ledgers
  BY BatchMoves DEF TypeOK, Ledgers
<1> HIDE DEF events
<1>5. /\ heard[0] = books
      /\ \A i \in 1..Len(payments) : heard[i] = Heard(heard[i - 1], events[i], None)
  BY <1>1, BooksFold
<1>6. books' = heard[Len(payments)] /\ usdc' = after[Len(payments)]
  BY <1>1 DEF BatchDistribute, Announce, events
<1> HIDE DEF after, heard
<1>7. 0 \in Good
  BY <1>3, <1>5 DEF BooksExact, BooksOf
<1>8. ASSUME NEW n \in Nat, n \in Good PROVE n + 1 \in Good
  <2> SUFFICES ASSUME n + 1 <= Len(payments)
               PROVE  heard[n + 1] = [books EXCEPT !.holding = after[n + 1][Pool]]
    OBVIOUS
  <2>1. n \in 0..Len(payments) /\ n + 1 \in 1..Len(payments) /\ (n + 1) - 1 = n
    OBVIOUS
  <2>2. heard[n] = [books EXCEPT !.holding = after[n][Pool]]
    BY <1>8, <2>1
  <2>3. heard[n + 1] = [heard[n] EXCEPT !.holding = @ - payments[n + 1].amount]
    <3>1. heard[n + 1] = Heard(heard[n], Event(Topics.batchDistribute, payments[n + 1].amount), None)
      BY <1>1, <1>5, <2>1
    <3> QED BY <3>1 DEF Heard, Event, Topics
  <2>4. after[n + 1][Pool] = after[n][Pool] - payments[n + 1].amount
    <3>1. after[n + 1] = Transferred(after[n], Pool, payments[n + 1].to, payments[n + 1].amount)
      BY <1>3, <2>1 DEF Paid
    <3>2. Pool \in Addrs /\ after[n] \in Ledgers
          /\ Transferable(after[n], Pool, payments[n + 1].to, payments[n + 1].amount)
      BY <1>2, <1>4, <2>1 DEF Addrs
    <3> QED BY <1>1, <1>2, <2>1, <3>1, <3>2, TransferKeepsLedger
  <2> QED BY <2>2, <2>3, <2>4 DEF BooksExact, BooksOf
<1>9. Nat \subseteq Good
  <2> HIDE DEF Good
  <2> QED BY <1>7, <1>8, NatSetInduction
<1> QED BY <1>1, <1>6, <1>9

\* Every amount that moves, and every change of the drain, is announced.
LEMMA MoneyAnnounced == ASSUME TypeOK, BooksExact, MoneyStep \/ DrainStep PROVE BooksExact'
<1>0. /\ usdc \in Ledgers
      /\ \A n \in Amounts : n \in Int
      /\ Pool \in Addrs /\ Pool \notin Users /\ Users \subseteq Addrs
  BY AddressAssumption, BoundAssumption DEF TypeOK, Ledgers, Addrs
<1> USE DEF BooksExact, BooksOf
<1>1. ASSUME NEW u \in Users, NEW n \in Amounts, DepositYield(u, n) PROVE BooksExact'
  <2>0. books' = Heard(books, Event(Topics.yieldDeposited, [amount |-> n, total |-> Yield(n)]), None)
    BY <1>1, AnnounceOne DEF DepositYield
  <2>1. books' = [books EXCEPT !.yield = cumulativeYield', !.holding = @ + n]
    BY <2>0, <1>1 DEF Heard, Event, Topics, DepositYield
  <2>2. usdc'[Pool] = usdc[Pool] + n
    BY <1>0, <1>1, TransferKeepsLedger DEF DepositYield, Transfer
  <2> QED BY <1>1, <2>1, <2>2 DEF DepositYield, roles, code
<1>2. ASSUME NEW u \in Users, NEW to \in Addrs, NEW n \in Amounts, Distribute(u, to, n)
      PROVE  BooksExact'
  <2>0. books' = Heard(books, Event(Topics.distribute, n), None)
    BY <1>2, AnnounceOne DEF Distribute
  <2>1. books' = [books EXCEPT !.holding = @ - n]
    BY <2>0 DEF Heard, Event, Topics
  <2>2. usdc'[Pool] = usdc[Pool] - n
    BY <1>0, <1>2, TransferKeepsLedger DEF Distribute, Transfer
  <2> QED BY <1>2, <2>1, <2>2 DEF Distribute, roles, code
<1>3. ASSUME NEW u \in Users, NEW payments \in Payments, BatchDistribute(u, payments)
      PROVE  BooksExact'
  <2>1. books' = [books EXCEPT !.holding = usdc'[Pool]]
    BY <1>3, BatchAnnounced
  <2> QED BY <1>3, <2>1 DEF BatchDistribute, roles, code
<1>4. ASSUME NEW u \in Users, NEW to \in Addrs, NEW n \in Amounts, ProposeEmergencyDrain(u, to, n)
      PROVE  BooksExact'
  <2>0. books' = Heard(books, Event(Topics.drainProposed, drain'), None)
    BY <1>4, AnnounceOne DEF ProposeEmergencyDrain
  <2>1. books' = [books EXCEPT !.drain = drain']
    BY <2>0 DEF Heard, Event, Topics
  <2> QED BY <1>4, <2>1 DEF ProposeEmergencyDrain, roles, code
<1>5. ASSUME NEW u \in Users, CancelEmergencyDrain(u) PROVE BooksExact'
  <2>0. books' = Heard(books, Event(Topics.drainCancelled, drain), None)
    BY <1>5, AnnounceOne DEF CancelEmergencyDrain
  <2>1. books' = [books EXCEPT !.drain = None]
    BY <2>0 DEF Heard, Event, Topics
  <2> QED BY <1>5, <2>1 DEF CancelEmergencyDrain, roles, code
<1>6. ASSUME NEW u \in Users, ExecuteEmergencyDrain(u) PROVE BooksExact'
  <2>0. books' = Heard(books, Event(Topics.drainExecuted, drain.payload), None)
    BY <1>6, AnnounceOne DEF ExecuteEmergencyDrain
  <2>1. books' = [books EXCEPT !.drain = None, !.holding = @ - drain.payload.amount]
    BY <2>0 DEF Heard, Event, Topics
  <2>2. drain.payload.to \in Users /\ drain.payload.amount \in Int
    BY <1>6, BoundAssumption DEF ExecuteEmergencyDrain, TypeOK
  <2>3. usdc'[Pool] = usdc[Pool] - drain.payload.amount
    BY <1>0, <1>6, <2>2, TransferKeepsLedger DEF ExecuteEmergencyDrain, Transfer
  <2> QED BY <1>6, <2>1, <2>3 DEF ExecuteEmergencyDrain, roles, code
<1> QED BY <1>1, <1>2, <1>3, <1>4, <1>5, <1>6 DEF MoneyStep, DrainStep

\* What nobody announces changes nothing the monitor keeps.
LEMMA ExternalAnnounced == ASSUME TypeOK, BooksExact, ExternalStep PROVE BooksExact'
<1> USE DEF BooksExact, BooksOf
<1>0. usdc \in Ledgers /\ Pool \in Addrs /\ Pool \notin Users /\ Users \subseteq Addrs
  BY AddressAssumption, BoundAssumption DEF TypeOK, Ledgers, Addrs
<1>1. ASSUME NEW from \in Users, NEW to \in Addrs, NEW n \in Amounts, ExternalTransfer(from, to, n)
      PROVE  BooksExact'
  <2>1. n \in Int
    BY BoundAssumption
  <2>2. usdc'[Pool] = IF to = Pool THEN usdc[Pool] + n ELSE usdc[Pool]
    BY <1>0, <1>1, <2>1 DEF ExternalTransfer, Transferred, Ledgers
  <2>3. books' = [books EXCEPT !.holding = usdc'[Pool]]
    BY <1>1, <2>2 DEF ExternalTransfer
  <2> QED BY <1>1, <2>3 DEF ExternalTransfer, roles, code
<1>2. CASE Tick
  BY <1>2 DEF Tick, roles, code
<1> QED BY <1>1, <1>2 DEF ExternalStep

\* A monitor that hears nothing but the events and the token's own arrivals knows the
\* pool to the unit, however many payments a batch makes.
THEOREM MonitorIsExact == HSpec => []MonitorAgrees
<1>1. HInit => BooksExact
  BY DEF HInit, Init, EmptyBooks, BooksExact, BooksOf
<1>2. TypeOK /\ BooksExact /\ [HNext]_hvars => BooksExact'
  <2>1. CASE UNCHANGED hvars
    BY <2>1 DEF hvars, vars, roles, code, BooksExact, BooksOf
  <2> QED BY <2>1, RolesAnnounced, MoneyAnnounced, ExternalAnnounced DEF HNext
<1>3. BooksExact => MonitorAgrees
  BY DEF BooksExact, BooksOf, MonitorAgrees, Balance, GetCumulativeYieldDeposited,
         GetPendingAdmin, GetPauseGuardian, GetVersion, IsPaused, GetMaxDistribute,
         GetPendingEmergencyDrain
<1> QED BY <1>1, <1>2, <1>3, InitTyped, StepKeepsTypes, PTL DEF HSpec
=============================================================================
