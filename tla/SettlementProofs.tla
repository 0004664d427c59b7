-------------------------- MODULE SettlementProofs --------------------------
(***************************************************************************)
(* Proofs about the settlement contract, for every set of developers and   *)
(* accounts, every amount, batch length and delay: no payment is credited  *)
(* twice, a migration does what was approved when it was, the admin and    *)
(* vault roles implement the two-step role, and the types and the          *)
(* developer index hold.                                                   *)
(*                                                                         *)
(* The inductive invariant of the last part is Sound, the types of every   *)
(* variable together with the order and completeness of the index: that a  *)
(* credit leaves everybody in the index rests on the list being sorted and *)
(* its members being developers.  A batch is followed item by item, with   *)
(* the equations of its fold and induction over the number of items.       *)
(***************************************************************************)
EXTENDS SettlementHistory, Induction

-----------------------------------------------------------------------------
(* What the other calls leave alone.                                       *)

\* What init, the setters of the roles and the upgrade leave alone.
LEMMA SetupLeaves == ASSUME SetupStep PROVE UNCHANGED <<marks, balance, migration, now>>
BY DEF SetupStep, InitSettlement, SetUsdcToken, Upgrade, SetAdmin, ProposeVault,
       CancelAdminTransfer, Broadcast, AcceptVault, AcceptAdmin, rest, credits

\* What the setters of limits leave alone.
LEMMA LimitsLeave == ASSUME LimitStep PROVE UNCHANGED <<marks, migration, roles, setup, now>>
BY DEF LimitStep, SetClaimWindow, ClearClaimWindow, SetDailyCap, SetMinBalance

\* What payments to the pool and forced credits leave alone.
LEMMA CreditsLeave ==
    ASSUME PoolStep \/ ForceCreditStep PROVE UNCHANGED <<mark, migration, roles, setup, now>>
BY DEF PoolStep, ForceCreditStep, ReceiveForPool, ForceCredit, marks

\* What payments leave alone.
LEMMA PaymentsLeave == ASSUME PaymentStep PROVE UNCHANGED <<migration, roles, setup, now>>
BY DEF PaymentStep, ReceiveForDeveloper, BatchReceive

\* What payouts leave alone.
LEMMA PayoutsLeave == ASSUME PayoutStep PROVE UNCHANGED <<marks, migration, roles, setup, now>>
BY DEF PayoutStep, Withdraw, BatchSettle, Spend

\* What balance migrations leave alone.
LEMMA ProposalsLeave ==
    ASSUME ProposalStep \/ ExecutionStep PROVE UNCHANGED <<marks, roles, setup, now>>
BY DEF ProposalStep, ExecutionStep, ProposeMigration, ExecuteMigration

\* What arrives from outside, and the clock, leave alone.
LEMMA OutsideLeaves == ASSUME OutsideStep PROVE UNCHANGED <<marks, migration, roles, setup>>
BY DEF OutsideStep, TokensArrive, Tick

-----------------------------------------------------------------------------
(* The replay guard.                                                       *)

\* Every payment applied is at or below its developer's high-water mark.
MarksCover ==
    /\ mark \in [Devs -> Nat]
    /\ \A d \in Devs, seq \in Nat : <<d, seq>> \in applied => seq <= mark[d]
    /\ reapplied = {}

\* A payment raises the mark of its developer to its own number.
LEMMA ReceiveKeepsMarks ==
    ASSUME MarksCover, NEW c, NEW n, NEW d \in Devs, NEW t, NEW seq \in LedgerSeqs,
           ReceiveForDeveloper(c, n, d, t, seq), Credit(<< <<d, seq>> >>)
    PROVE  MarksCover'
<1>1. seq \in Nat /\ seq > mark[d] /\ mark' = [mark EXCEPT ![d] = seq]
  BY BoundAssumption DEF ReceiveForDeveloper, NewSince
<1>2. Range(<< <<d, seq>> >>) = {<<d, seq>>} /\ DOMAIN << <<d, seq>> >> = {1}
  BY DEF Range
<1>3. applied' = applied \cup {<<d, seq>>} /\ <<d, seq>> \notin applied
  BY <1>1, <1>2 DEF Credit, MarksCover
<1>4. reapplied' = {}
  BY <1>2, <1>3 DEF Credit, MarksCover
<1>5. ASSUME NEW e \in Devs, NEW s \in Nat, <<e, s>> \in applied' PROVE s <= mark'[e]
  BY <1>1, <1>3, <1>5 DEF MarksCover
<1> QED BY <1>1, <1>4, <1>5 DEF MarksCover

\* A batch raises the marks of all it names, and names nobody twice.
LEMMA BatchKeepsMarks ==
    ASSUME MarksCover, NEW c, NEW items \in BatchItems, NEW t, NEW seq \in LedgerSeqs,
           BatchReceive(c, items, t, seq),
           Credit([i \in DOMAIN items |-> <<items[i].developer, seq>>])
    PROVE  MarksCover'
<1> DEFINE claims == [i \in DOMAIN items |-> <<items[i].developer, seq>>]
<1>1. seq \in Nat
  BY BoundAssumption
<1>2. \A i \in DOMAIN items : items[i].developer \in Devs
  BY DEF BatchItems
<1>3. \A i \in DOMAIN items : seq > mark[items[i].developer]
  BY DEF BatchReceive, NewSince, Range
<1>4. \A i, j \in DOMAIN items : items[i].developer = items[j].developer => i = j
  BY DEF BatchReceive, DistinctDevelopers
<1>5. mark' = [d \in Devs |-> IF \E i \in DOMAIN items : items[i].developer = d
                              THEN seq ELSE mark[d]]
  BY DEF BatchReceive
<1>6. Range(claims) = {<<items[i].developer, seq>> : i \in DOMAIN items} /\ DOMAIN claims = DOMAIN items
  BY DEF Range
<1>7. applied \cap Range(claims) = {}
  <2>1. ASSUME NEW i \in DOMAIN items, <<items[i].developer, seq>> \in applied PROVE FALSE
    BY <2>1, <1>1, <1>2, <1>3 DEF MarksCover
  <2> QED BY <2>1, <1>6
<1>8. {p \in Range(claims) : \E i, j \in DOMAIN claims : i # j /\ claims[i] = p /\ claims[j] = p} = {}
  BY <1>4, <1>6
<1>9. applied' = applied \cup Range(claims) /\ reapplied' = {}
  BY <1>7, <1>8 DEF Credit, MarksCover
<1> HIDE DEF claims
<1>10. mark' \in [Devs -> Nat]
  BY <1>1, <1>5 DEF MarksCover
<1>11. ASSUME NEW e \in Devs, NEW s \in Nat, <<e, s>> \in applied' PROVE s <= mark'[e]
  <2>1. CASE \E i \in DOMAIN items : items[i].developer = e
    <3>1. mark'[e] = seq /\ seq > mark[e]
      BY <2>1, <1>3, <1>5
    <3>2. s <= mark[e] \/ s = seq
      BY <1>6, <1>9, <1>11 DEF MarksCover
    <3>3. mark[e] \in Nat
      BY DEF MarksCover
    <3> QED BY <3>1, <3>2, <3>3, <1>1
  <2>2. CASE ~\E i \in DOMAIN items : items[i].developer = e
    BY <2>2, <1>5, <1>6, <1>9, <1>11 DEF MarksCover
  <2> QED BY <2>1, <2>2
<1> QED BY <1>9, <1>10, <1>11 DEF MarksCover

\* No payment, named by its developer and ledger sequence, is credited twice: in
\* whatever order, batches and repetitions the payer's calls arrive.
THEOREM PaymentsAppliedOnce == HSpec => []NoPaymentAppliedTwice
<1>1. HInit => MarksCover
  BY DEF HInit, Init, MarksCover
<1>2. MarksCover /\ [HNext]_hvars => MarksCover'
  <2> SUFFICES ASSUME MarksCover, [HNext]_hvars PROVE MarksCover'
    OBVIOUS
  <2>1. CASE HReceive
    BY <2>1, ReceiveKeepsMarks DEF HReceive
  <2>2. CASE HBatchReceive
    BY <2>2, BatchKeepsMarks DEF HBatchReceive
  <2>3. CASE UNCHANGED <<mark, applied, reapplied>>
    BY <2>3 DEF MarksCover
  <2>4. CASE HPayout \/ HPropose \/ HExecute \/ HOutside
    BY <2>3, <2>4, PayoutsLeave, ProposalsLeave, OutsideLeaves
    DEF HPayout, HPropose, HExecute, HOutside, ProposalStep, ExecutionStep, marks
  <2>5. CASE HOther
    BY <2>3, <2>5, SetupLeaves, LimitsLeave, CreditsLeave DEF HOther, history, marks
  <2>6. CASE UNCHANGED hvars
    BY <2>3, <2>6 DEF hvars, vars, marks, history
  <2> QED BY <2>1, <2>2, <2>4, <2>5, <2>6 DEF HNext
<1>3. MarksCover => NoPaymentAppliedTwice
  BY DEF MarksCover, NoPaymentAppliedTwice
<1> QED BY <1>1, <1>2, <1>3, PTL DEF HSpec

-----------------------------------------------------------------------------
(* Balance migrations.                                                     *)

\* The history variables constrain nothing: every step is a step of Settlement.
LEMMA HNextIsNext == ASSUME [HNext]_hvars PROVE [Next]_vars
BY DEF HNext, hvars, HReceive, HBatchReceive, HPayout, HPropose, HExecute, HOutside, HOther,
       Next, PaymentStep, ProposalStep, ExecutionStep

\* A pending migration matures the full delay after it was proposed.
MigrationsWait ==
    /\ now \in Nat
    /\ usdcToken \in Tokens \cup {None}
    /\ migration = [d \in Devs |-> migration[d]]
    /\ \A d \in Devs : migration[d] # None =>
         migration[d].execute_after =
            migration[d].proposed_at + DEVELOPER_MIGRATION_TIMELOCK_SECONDS

MovesApproved(d) ==
    LET m == migration[d] IN
    /\ now >= m.proposed_at + DEVELOPER_MIGRATION_TIMELOCK_SECONDS
    /\ \E t \in Tokens :
         balance' = [balance EXCEPT ![d][t] = @ - m.amount, ![m.to][t] = @ + m.amount]

\* A proposal is made, or replaced, with the full delay before it.
LEMMA ProposalWaits ==
    ASSUME MigrationsWait, NEW c, NEW from \in Devs, NEW to \in Devs \cup {Self},
           ProposeMigration(c, from, to)
    PROVE  /\ \A d \in Devs : migration'[d] = None => migration[d] = None
           /\ MigrationsWait'
<1>1. migration' = [migration EXCEPT ![from] = PendingDeveloperMigration(from, to)]
      /\ UNCHANGED <<usdcToken, now>>
  BY DEF ProposeMigration, setup
<1>2. migration' = [d \in Devs |-> IF d = from THEN PendingDeveloperMigration(from, to)
                                   ELSE migration[d]]
  BY <1>1 DEF MigrationsWait
<1>3. /\ PendingDeveloperMigration(from, to).execute_after
            = PendingDeveloperMigration(from, to).proposed_at
                + DEVELOPER_MIGRATION_TIMELOCK_SECONDS
      /\ PendingDeveloperMigration(from, to) # None
  <2>1. balance[from][usdcToken] \in Int /\ now \in Nat
        /\ now + DEVELOPER_MIGRATION_TIMELOCK_SECONDS \in Nat
    BY BoundAssumption DEF ProposeMigration, MigrationsWait
  <2>2. PendingDeveloperMigration(from, to)
          \in [to : Devs \cup {Self}, amount : Int, proposed_at : Nat, execute_after : Nat]
    BY <2>1 DEF PendingDeveloperMigration
  <2> QED BY <2>2, NoneAssumption DEF PendingDeveloperMigration
<1> QED BY <1>1, <1>2, <1>3 DEF MigrationsWait

\* An execution moves what its proposal said.
LEMMA ExecutionMovesApproved ==
    ASSUME MigrationsWait, NEW c, NEW from \in Devs, ExecuteMigration(c, from)
    PROVE  /\ \A d \in Devs : migration[d] # None /\ migration'[d] = None => MovesApproved(d)
           /\ MigrationsWait'
<1>1. migration' = [d \in Devs |-> IF d = from THEN None ELSE migration[d]]
      /\ UNCHANGED <<usdcToken, now>>
  BY DEF ExecuteMigration, MigrationsWait, setup
<1>2. /\ migration[from] # None
      /\ now >= migration[from].proposed_at + DEVELOPER_MIGRATION_TIMELOCK_SECONDS
  BY DEF ExecuteMigration, Matured, MigrationsWait
<1>3. usdcToken \in Tokens
  BY DEF ExecuteMigration, MigrationsWait
<1>4. balance' = [balance EXCEPT ![from][usdcToken] = @ - migration[from].amount,
                                 ![migration[from].to][usdcToken] = @ + migration[from].amount]
  BY DEF ExecuteMigration
<1>5. MovesApproved(from)
  BY <1>2, <1>3, <1>4 DEF MovesApproved
<1> QED BY <1>1, <1>5 DEF MigrationsWait

\* Every step keeps pending migrations or executes one as approved.
LEMMA NextMovesApproved ==
    ASSUME MigrationsWait, [Next]_vars
    PROVE  /\ \A d \in Devs : migration[d] # None /\ migration'[d] = None => MovesApproved(d)
           /\ MigrationsWait'
<1>1. CASE UNCHANGED <<migration, usdcToken, now>>
  BY <1>1 DEF MigrationsWait
<1>2. CASE SetupStep
  <2>1. usdcToken' \in Tokens \cup {None}
    BY <1>2
    DEF MigrationsWait, SetupStep, InitSettlement, SetUsdcToken, Upgrade, SetAdmin, ProposeVault,
        CancelAdminTransfer, Broadcast, AcceptVault, AcceptAdmin, rest, setup
  <2> QED BY <1>2, <2>1, SetupLeaves DEF MigrationsWait
<1>3. CASE LimitStep \/ PoolStep \/ ForceCreditStep \/ PaymentStep \/ PayoutStep
  BY <1>1, <1>3, LimitsLeave, CreditsLeave, PaymentsLeave, PayoutsLeave DEF setup
<1>4. CASE OutsideStep
  <2>1. now' \in Nat
    BY <1>4 DEF OutsideStep, TokensArrive, Tick, MigrationsWait
  <2> QED BY <1>4, <2>1, OutsideLeaves DEF MigrationsWait, setup
<1>5. CASE ProposalStep
  BY <1>5, ProposalWaits DEF ProposalStep
<1>6. CASE ExecutionStep
  BY <1>6, ExecutionMovesApproved DEF ExecutionStep
<1>7. CASE UNCHANGED vars
  BY <1>1, <1>7 DEF vars, setup
<1> QED BY <1>2, <1>3, <1>4, <1>5, <1>6, <1>7 DEF Next

\* A pending migration ends only by moving the amount approved between the developers
\* approved, in one token, once the full delay has passed: for every delay and amount, and
\* whatever is proposed, withdrawn or configured in the meantime.
THEOREM MigrationsMoveWhatWasApproved == HSpec => MigrationMovesApproved
<1>1. HInit => MigrationsWait
  BY DEF HInit, Init, MigrationsWait
<1>2. MigrationsWait /\ [HNext]_hvars => MigrationsWait'
  BY HNextIsNext, NextMovesApproved
<1>3. MigrationsWait /\ [HNext]_hvars =>
        [\A d \in Devs : (migration[d] # None /\ migration'[d] = None) =>
           LET m == migration[d] IN
           /\ now >= m.proposed_at + DEVELOPER_MIGRATION_TIMELOCK_SECONDS
           /\ \E t \in Tokens :
                balance' = [balance EXCEPT ![d][t] = @ - m.amount, ![m.to][t] = @ + m.amount]]_vars
  BY HNextIsNext, NextMovesApproved DEF MovesApproved
<1> QED BY <1>1, <1>2, <1>3, PTL DEF HSpec, MigrationMovesApproved

-----------------------------------------------------------------------------
(* The roles.                                                              *)

\* Init sets both roles at once, and nobody is nominated before it.
RolesOpen ==
    /\ admin = None <=> vault = None
    /\ admin = None => pendingAdmin = None /\ pendingVault = None

\* Every step is one of the abstract hand-over, for each of the two roles, or a stutter.
LEMMA NextIsTwoStep ==
    ASSUME RolesOpen, [Next]_vars
    PROVE  /\ RolesOpen'
           /\ [AdminTransfer!Next]_(AdminTransfer!vars)
           /\ [VaultTransfer!Next]_(VaultTransfer!vars)
<1> USE DEF AdminTransfer!vars, VaultTransfer!vars
<1>1. None \notin Principals \cup {Self} /\ Nominees \subseteq Principals \cup {Self}
  BY AddressAssumption
<1>2. CASE SetupStep
  <2>1. ASSUME NEW a \in Principals \cup {Self}, NEW v \in Principals \cup {Self},
               InitSettlement(a, v)
        PROVE  RolesOpen' /\ AdminTransfer!Appoint /\ VaultTransfer!Appoint
    BY <1>1, <2>1 DEF InitSettlement, RolesOpen, AdminTransfer!Appoint, VaultTransfer!Appoint
  <2>2. ASSUME NEW c \in Principals, NEW p \in Nominees, SetAdmin(c, p)
        PROVE  RolesOpen' /\ AdminTransfer!Nominate /\ UNCHANGED VaultTransfer!vars
    BY <1>1, <2>2 DEF SetAdmin, AdminCalls, RolesOpen, AdminTransfer!Nominate
  <2>3. ASSUME NEW c \in Principals, NEW v \in Nominees, ProposeVault(c, v)
        PROVE  RolesOpen' /\ VaultTransfer!Nominate /\ UNCHANGED AdminTransfer!vars
    BY <1>1, <2>3 DEF ProposeVault, AdminCalls, RolesOpen, VaultTransfer!Nominate
  <2>4. ASSUME NEW c \in Principals, CancelAdminTransfer(c)
        PROVE  RolesOpen' /\ AdminTransfer!Withdraw /\ UNCHANGED VaultTransfer!vars
    BY <2>4 DEF CancelAdminTransfer, AdminCalls, RolesOpen, AdminTransfer!Withdraw
  <2>5. ASSUME NEW c \in Principals, AcceptVault(c)
        PROVE  RolesOpen' /\ VaultTransfer!Accept /\ UNCHANGED AdminTransfer!vars
    BY <2>5 DEF AcceptVault, RolesOpen, VaultTransfer!Accept
  <2>6. ASSUME AcceptAdmin
        PROVE  RolesOpen' /\ AdminTransfer!Accept /\ UNCHANGED VaultTransfer!vars
    BY <2>6 DEF AcceptAdmin, RolesOpen, AdminTransfer!Accept
  <2>7. ASSUME NEW c \in Principals,
               \/ \E t \in Tokens \cup {Self} : SetUsdcToken(c, t)
               \/ \E hash \in Hashes : Upgrade(c, hash)
               \/ Broadcast(c)
        PROVE  RolesOpen' /\ UNCHANGED <<AdminTransfer!vars, VaultTransfer!vars>>
    BY <2>7 DEF SetUsdcToken, Upgrade, Broadcast, roles, RolesOpen
  <2> QED
    BY <1>2, <2>1, <2>2, <2>3, <2>4, <2>5, <2>6, <2>7
    DEF SetupStep, AdminTransfer!Next, VaultTransfer!Next
<1>3. CASE UNCHANGED roles
  BY <1>3 DEF roles, RolesOpen
<1>4. CASE LimitStep \/ PoolStep \/ ForceCreditStep \/ PaymentStep \/ PayoutStep \/ ProposalStep
           \/ ExecutionStep \/ OutsideStep
  BY <1>3, <1>4, LimitsLeave, CreditsLeave, PaymentsLeave, PayoutsLeave, ProposalsLeave,
     OutsideLeaves
<1>5. CASE UNCHANGED vars
  BY <1>3, <1>5 DEF vars
<1> QED BY <1>2, <1>4, <1>5 DEF Next

\* The admin role, and the vault that payments are accepted from, pass only to the
\* current nominee, who is used up by it.
THEOREM RolesChangeInTwoSteps == HSpec => RolesAreTwoStep
<1>1. HInit => RolesOpen /\ AdminTransfer!Init /\ VaultTransfer!Init
  BY DEF HInit, Init, RolesOpen, AdminTransfer!Init, VaultTransfer!Init
<1>2. RolesOpen /\ [HNext]_hvars =>
        /\ RolesOpen'
        /\ [AdminTransfer!Next]_(AdminTransfer!vars)
        /\ [VaultTransfer!Next]_(VaultTransfer!vars)
  BY HNextIsNext, NextIsTwoStep
<1> QED
  BY <1>1, <1>2, PTL DEF HSpec, RolesAreTwoStep, AdminTransfer!Spec, VaultTransfer!Spec

-----------------------------------------------------------------------------
(* Lists taken one item at a time.                                         *)

\* The credits of a batch, one after the other.
LEMMA CreditsFold ==
    ASSUME NEW items, Len(items) \in Nat, NEW token
    PROVE  /\ CreditsAfter(items, token)[0] = [balance |-> balance, index |-> index]
           /\ \A i \in 1..Len(items) :
                CreditsAfter(items, token)[i] =
                    [balance |-> [CreditsAfter(items, token)[i - 1].balance EXCEPT
                                    ![items[i].developer][token] = @ + items[i].amount],
                     index   |-> SortedInsert(CreditsAfter(items, token)[i - 1].index,
                                              items[i].developer)]
<1> DEFINE First == [balance |-> balance, index |-> index]
           Step(c, it) ==
             [balance |-> [c.balance EXCEPT ![it.developer][token] = @ + it.amount],
              index   |-> SortedInsert(c.index, it.developer)]
           IsFold(g, n) ==
             g = [i \in 0..n |-> IF i = 0 THEN First ELSE Step(g[i - 1], items[i])]
           Good == {n \in Nat : \E g : IsFold(g, n)}
<1>4a. CreditsAfter(items, token) = CHOOSE g : IsFold(g, Len(items))
  BY DEF CreditsAfter
<1>5. IsFold(CreditsAfter(items, token), Len(items)) =>
        /\ CreditsAfter(items, token)[0] = First
        /\ \A i \in 1..Len(items) :
             CreditsAfter(items, token)[i] = Step(CreditsAfter(items, token)[i - 1], items[i])
  <2> HIDE DEF First, Step
  <2> QED OBVIOUS
<1> HIDE DEF First, Step
<1>1. 0 \in Good
  <2>1. IsFold([i \in 0..0 |-> First], 0)
    OBVIOUS
  <2> QED BY <2>1
<1>2. ASSUME NEW n \in Nat, n \in Good PROVE n + 1 \in Good
  <2>1. PICK g : IsFold(g, n)
    BY <1>2
  <2> DEFINE h == [i \in 0..n + 1 |-> IF i <= n THEN g[i] ELSE Step(g[n], items[n + 1])]
  <2>2. ASSUME NEW i \in 0..n + 1
        PROVE  h[i] = IF i = 0 THEN First ELSE Step(h[i - 1], items[i])
    <3>1. CASE i <= n
      BY <2>1, <3>1
    <3>2. CASE i = n + 1
      BY <2>1, <3>2
    <3> QED BY <3>1, <3>2
  <2>3. IsFold(h, n + 1)
    BY <2>2
  <2> HIDE DEF h, IsFold
  <2> QED BY <2>3
<1>3. Nat \subseteq Good
  <2> HIDE DEF Good
  <2> QED BY <1>1, <1>2, NatSetInduction
<1>4. IsFold(CreditsAfter(items, token), Len(items))
  <2>1. \E g : IsFold(g, Len(items))
    BY <1>3
  <2> QED BY <2>1, <1>4a
<1> QED BY <1>4, <1>5 DEF First, Step

\* The purse of a batch, item after item: an item that cannot be paid leaves it alone.
LEMMA PursesFold ==
    ASSUME NEW items, Len(items) \in Nat
    PROVE  /\ PursesAfter(items)[0] = Purse
           /\ \A i \in 1..Len(items) :
                PursesAfter(items)[i] =
                    IF Payable(PursesAfter(items)[i - 1], items[i])
                    THEN Paid(PursesAfter(items)[i - 1], items[i])
                    ELSE PursesAfter(items)[i - 1]
<1> DEFINE Step(p, w) == IF Payable(p, w) THEN Paid(p, w) ELSE p
           IsFold(g, n) ==
             g = [i \in 0..n |-> IF i = 0 THEN Purse
                                 ELSE IF Payable(g[i - 1], items[i]) THEN Paid(g[i - 1], items[i])
                                 ELSE g[i - 1]]
           Good == {n \in Nat : \E g : IsFold(g, n)}
<1>1. 0 \in Good
  <2>1. IsFold([i \in 0..0 |-> Purse], 0)
    OBVIOUS
  <2> QED BY <2>1
<1>2. ASSUME NEW n \in Nat, n \in Good PROVE n + 1 \in Good
  <2>1. PICK g : IsFold(g, n)
    BY <1>2
  <2> DEFINE h == [i \in 0..n + 1 |-> IF i <= n THEN g[i] ELSE Step(g[n], items[n + 1])]
  <2>2. ASSUME NEW i \in 0..n + 1
        PROVE  h[i] = IF i = 0 THEN Purse
                      ELSE IF Payable(h[i - 1], items[i]) THEN Paid(h[i - 1], items[i])
                      ELSE h[i - 1]
    <3>1. CASE i <= n
      BY <2>1, <3>1
    <3>2. CASE i = n + 1
      BY <2>1, <3>2
    <3> QED BY <3>1, <3>2
  <2>3. IsFold(h, n + 1)
    BY <2>2
  <2> HIDE DEF h, IsFold
  <2> QED BY <2>3
<1>3. Nat \subseteq Good
  <2> HIDE DEF Good
  <2> QED BY <1>1, <1>2, NatSetInduction
<1>4. IsFold(PursesAfter(items), Len(items))
  <2>1. \E g : IsFold(g, Len(items))
    BY <1>3
  <2>2. PursesAfter(items) = CHOOSE g : IsFold(g, Len(items))
    BY DEF PursesAfter
  <2> QED BY <2>1, <2>2
<1> QED BY <1>4

\* The events of a batch, item after item.
LEMMA EventsFold ==
    ASSUME NEW items, Len(items) \in Nat
    PROVE  /\ EventsAfter(items)[0] = <<>>
           /\ \A i \in 1..Len(items) :
                EventsAfter(items)[i] =
                    IF SettleOutcomes(items)[i] = "Success"
                    THEN Append(EventsAfter(items)[i - 1],
                                WithdrawEvent(PursesAfter(items)[i], items[i]))
                    ELSE EventsAfter(items)[i - 1]
<1> DEFINE Step(s, i) ==
             IF SettleOutcomes(items)[i] = "Success"
             THEN Append(s, WithdrawEvent(PursesAfter(items)[i], items[i]))
             ELSE s
           IsFold(g, n) == g = [i \in 0..n |-> IF i = 0 THEN <<>> ELSE Step(g[i - 1], i)]
           Good == {n \in Nat : \E g : IsFold(g, n)}
<1>4a. EventsAfter(items) = CHOOSE g : IsFold(g, Len(items))
  BY DEF EventsAfter
<1>5. IsFold(EventsAfter(items), Len(items)) =>
        /\ EventsAfter(items)[0] = <<>>
        /\ \A i \in 1..Len(items) : EventsAfter(items)[i] = Step(EventsAfter(items)[i - 1], i)
  <2> HIDE DEF Step
  <2> QED OBVIOUS
<1> HIDE DEF Step
<1>1. 0 \in Good
  <2>1. IsFold([i \in 0..0 |-> <<>>], 0)
    OBVIOUS
  <2> QED BY <2>1
<1>2. ASSUME NEW n \in Nat, n \in Good PROVE n + 1 \in Good
  <2>1. PICK g : IsFold(g, n)
    BY <1>2
  <2> DEFINE h == [i \in 0..n + 1 |-> IF i <= n THEN g[i] ELSE Step(g[n], n + 1)]
  <2>2. ASSUME NEW i \in 0..n + 1 PROVE h[i] = IF i = 0 THEN <<>> ELSE Step(h[i - 1], i)
    <3>1. CASE i <= n
      BY <2>1, <3>1
    <3>2. CASE i = n + 1
      BY <2>1, <3>2
    <3> QED BY <3>1, <3>2
  <2>3. IsFold(h, n + 1)
    BY <2>2
  <2> HIDE DEF h, IsFold
  <2> QED BY <2>3
<1>3. Nat \subseteq Good
  <2> HIDE DEF Good
  <2> QED BY <1>1, <1>2, NatSetInduction
<1>4. IsFold(EventsAfter(items), Len(items))
  <2>1. \E g : IsFold(g, Len(items))
    BY <1>3
  <2> QED BY <2>1, <1>4a
<1> QED BY <1>4, <1>5 DEF Step

\* The books, event after event.
LEMMA BooksFold ==
    ASSUME NEW b, NEW events, Len(events) \in Nat, NEW token, NEW none
    PROVE  /\ BooksAfter(b, events, token, none)[0] = b
           /\ \A i \in 1..Len(events) :
                BooksAfter(b, events, token, none)[i]
                    = Heard(BooksAfter(b, events, token, none)[i - 1], events[i], token, none)
<1> DEFINE IsFold(g, n) ==
             g = [i \in 0..n |-> IF i = 0 THEN b ELSE Heard(g[i - 1], events[i], token, none)]
           Good == {n \in Nat : \E g : IsFold(g, n)}
<1>1. 0 \in Good
  <2>1. IsFold([i \in 0..0 |-> b], 0)
    OBVIOUS
  <2> QED BY <2>1
<1>2. ASSUME NEW n \in Nat, n \in Good PROVE n + 1 \in Good
  <2>1. PICK g : IsFold(g, n)
    BY <1>2
  <2> DEFINE h == [i \in 0..n + 1 |->
                     IF i <= n THEN g[i] ELSE Heard(g[n], events[n + 1], token, none)]
  <2>2. ASSUME NEW i \in 0..n + 1
        PROVE  h[i] = IF i = 0 THEN b ELSE Heard(h[i - 1], events[i], token, none)
    <3>1. CASE i <= n
      BY <2>1, <3>1
    <3>2. CASE i = n + 1
      BY <2>1, <3>2
    <3> QED BY <3>1, <3>2
  <2>3. IsFold(h, n + 1)
    BY <2>2
  <2> HIDE DEF h, IsFold
  <2> QED BY <2>3
<1>3. Nat \subseteq Good
  <2> HIDE DEF Good
  <2> QED BY <1>1, <1>2, NatSetInduction
<1>4. IsFold(BooksAfter(b, events, token, none), Len(events))
  <2>1. \E g : IsFold(g, Len(events))
    BY <1>3
  <2>2. BooksAfter(b, events, token, none) = CHOOSE g : IsFold(g, Len(events))
    BY DEF BooksAfter
  <2> QED BY <2>1, <2>2
<1> QED BY <1>4

-----------------------------------------------------------------------------
(* The developer index.                                                    *)

Sorted(s) == \A i, j \in DOMAIN s : i < j => s[i] < s[j]

\* What a sequence holds after an insertion, place by place.
LEMMA InsertedAt ==
    ASSUME NEW s \in Seq(Devs), NEW p \in 1..Len(s) + 1, NEW d \in Devs
    PROVE  /\ InsertAt(s, p, d) \in Seq(Devs) /\ Len(InsertAt(s, p, d)) = Len(s) + 1
           /\ \A k \in 1..Len(s) + 1 :
                InsertAt(s, p, d)[k] = IF k < p THEN s[k] ELSE IF k = p THEN d ELSE s[k - 1]
<1> DEFINE r == InsertAt(s, p, d)
<1>0. Len(s) \in Nat
  OBVIOUS
<1> DEFINE before == SubSeq(s, 1, p - 1)
           after == SubSeq(s, p, Len(s))
<1>1. /\ before \in Seq(Devs) /\ Len(before) = p - 1
      /\ \A k \in 1..p - 1 : before[k] = s[k]
  BY <1>0
<1>2. /\ after \in Seq(Devs) /\ Len(after) = Len(s) - p + 1
      /\ \A k \in 1..Len(s) - p + 1 : after[k] = s[k + p - 1]
  BY <1>0
<1>3. r = before \o <<d>> \o after
  BY DEF InsertAt
<1> HIDE DEF before, after, r
<1> DEFINE start == before \o <<d>>
<1>4. /\ start \in Seq(Devs) /\ Len(start) = p /\ r = start \o after
      /\ \A k \in 1..p : start[k] = IF k < p THEN s[k] ELSE d
  BY <1>0, <1>1, <1>3
<1> HIDE DEF start
<1>5. r \in Seq(Devs) /\ Len(r) = Len(s) + 1
  <2>1. r \in Seq(Devs) /\ Len(r) = Len(start) + Len(after)
    BY <1>2, <1>4
  <2> QED BY <1>0, <1>2, <1>4, <2>1
<1>6. ASSUME NEW k \in 1..Len(s) + 1
      PROVE  r[k] = IF k < p THEN s[k] ELSE IF k = p THEN d ELSE s[k - 1]
  <2>1. CASE k <= p
    <3>1. k \in 1..p /\ k \in 1..Len(start)
      BY <1>0, <1>4, <2>1
    <3>2. r[k] = start[k]
      BY <1>2, <1>4, <3>1
    <3> QED BY <1>0, <1>4, <3>1, <3>2
  <2>2. CASE k > p
    <3>1. k - p \in 1..Len(s) - p + 1 /\ (k - p) + p - 1 = k - 1
      BY <1>0, <2>2
    <3>2. r[k] = after[k - p]
      BY <1>0, <1>2, <1>4, <2>2
    <3>3. after[k - p] = s[k - 1]
      BY <1>2, <3>1
    <3> QED BY <1>0, <2>2, <3>2, <3>3
  <2> QED BY <1>0, <2>1, <2>2
<1> QED BY <1>5, <1>6 DEF r

\* Inserting a developer keeps the index sorted and free of duplicates, and adds that
\* developer and nobody else.
LEMMA InsertKeepsOrder ==
    ASSUME NEW s \in Seq(Devs), Sorted(s), NEW d \in Devs
    PROVE  /\ SortedInsert(s, d) \in Seq(Devs)
           /\ Sorted(SortedInsert(s, d))
           /\ Range(SortedInsert(s, d)) = Range(s) \cup {d}
<1>1. CASE Contains(s, d)
  <2>1. d \in Range(s)
    BY <1>1 DEF Contains, Range
  <2> QED BY <1>1, <2>1 DEF SortedInsert
<1>2. CASE ~Contains(s, d)
  <2> DEFINE places == {i \in DOMAIN s : d < s[i]} \cup {Len(s) + 1}
             p == Min(places)
             r == InsertAt(s, p, d)
  <2>0. /\ Devs \subseteq Nat /\ Len(s) \in Nat /\ DOMAIN s = 1..Len(s)
        /\ \A i \in 1..Len(s) : s[i] \in Devs /\ s[i] \in Nat /\ s[i] # d
    <3>1. Devs \subseteq Nat
      BY AddressAssumption
    <3>2. Len(s) \in Nat /\ DOMAIN s = 1..Len(s) /\ \A i \in 1..Len(s) : s[i] \in Devs
      OBVIOUS
    <3>3. \A i \in 1..Len(s) : s[i] # d
      BY <1>2 DEF Contains
    <3> QED BY <3>1, <3>2, <3>3
  <2>1. SortedInsert(s, d) = r
    BY <1>2 DEF SortedInsert
  <2>2. p \in places /\ \A x \in places : p <= x
    <3>1. places \in SUBSET Nat /\ places # {}
      BY <2>0
    <3> QED BY <3>1, NatMin
  <2> HIDE DEF p
  <2>3. p \in 1..Len(s) + 1
    BY <2>0, <2>2
  <2>4. \A k \in 1..Len(s) : k < p => s[k] < d
    <3> SUFFICES ASSUME NEW k \in 1..Len(s), k < p PROVE s[k] < d
      OBVIOUS
    <3>1. k \notin places
      BY <2>0, <2>2, <2>3
    <3> QED BY <2>0, <3>1
  <2>5. \A k \in 1..Len(s) : k >= p => d < s[k]
    <3> SUFFICES ASSUME NEW k \in 1..Len(s), k >= p PROVE d < s[k]
      OBVIOUS
    <3>1. p \in DOMAIN s /\ d < s[p]
      BY <2>0, <2>2, <2>3
    <3>2. s[p] <= s[k]
      BY <2>0, <2>3, <3>1 DEF Sorted
    <3> QED BY <2>0, <2>3, <3>1, <3>2
  <2>6. /\ r \in Seq(Devs) /\ Len(r) = Len(s) + 1
        /\ \A k \in 1..Len(s) + 1 :
             r[k] = IF k < p THEN s[k] ELSE IF k = p THEN d ELSE s[k - 1]
    BY <2>3, InsertedAt
  <2> HIDE DEF r
  <2>7. Sorted(r)
    <3>1. DOMAIN r = 1..Len(s) + 1
      BY <2>6
    <3> SUFFICES ASSUME NEW i \in 1..Len(s) + 1, NEW j \in 1..Len(s) + 1, i < j
                 PROVE  r[i] < r[j]
      BY <3>1 DEF Sorted
    <3>2. CASE i < p /\ j < p
      BY <2>0, <2>3, <2>6, <3>2 DEF Sorted
    <3>3. CASE i < p /\ j = p
      BY <2>0, <2>3, <2>4, <2>6, <3>3
    <3>4. CASE i < p /\ j > p
      <4>1. r[i] = s[i] /\ r[j] = s[j - 1] /\ i \in 1..Len(s) /\ j - 1 \in 1..Len(s) /\ j - 1 >= p
        BY <2>0, <2>3, <2>6, <3>4
      <4>2. s[i] < d /\ d < s[j - 1]
        BY <2>4, <2>5, <3>4, <4>1
      <4>3. s[i] \in Nat /\ s[j - 1] \in Nat /\ d \in Nat
        BY <2>0, <4>1
      <4> QED BY <4>1, <4>2, <4>3
    <3>5. CASE i = p
      BY <2>0, <2>3, <2>5, <2>6, <3>5
    <3>6. CASE i > p
      <4>1. /\ r[i] = s[i - 1] /\ r[j] = s[j - 1]
            /\ i - 1 \in DOMAIN s /\ j - 1 \in DOMAIN s /\ i - 1 < j - 1
        BY <2>0, <2>3, <2>6, <3>6
      <4> QED BY <4>1 DEF Sorted
    <3> QED BY <2>3, <3>2, <3>3, <3>4, <3>5, <3>6
  <2>8. Range(r) = Range(s) \cup {d}
    <3>1. DOMAIN r = 1..Len(s) + 1
      BY <2>6
    <3>2. ASSUME NEW k \in 1..Len(s) + 1 PROVE r[k] \in Range(s) \cup {d}
      <4>1. CASE k = p
        BY <2>6, <4>1
      <4>2. CASE k # p
        <5>1. PICK j \in DOMAIN s : r[k] = s[j]
          <6>1. CASE k < p
            <7>1. k \in 1..Len(s) /\ r[k] = s[k]
              BY <2>0, <2>3, <2>6, <6>1
            <7> QED BY <2>0, <7>1
          <6>2. CASE k > p
            <7>1. k - 1 \in 1..Len(s) /\ r[k] = s[k - 1]
              BY <2>0, <2>3, <2>6, <6>2
            <7> QED BY <2>0, <7>1
          <6> QED BY <2>3, <4>2, <6>1, <6>2
        <5> QED BY <5>1 DEF Range
      <4> QED BY <4>1, <4>2
    <3>3. r[p] = d
      BY <2>3, <2>6
    <3>4. ASSUME NEW k \in 1..Len(s) PROVE s[k] \in Range(r)
      <4>1. CASE k < p
        BY <2>0, <2>6, <3>1, <4>1 DEF Range
      <4>2. CASE k >= p
        <5>1. r[k + 1] = s[k] /\ k + 1 \in DOMAIN r
          BY <2>0, <2>3, <2>6, <3>1, <4>2
        <5> QED BY <5>1 DEF Range
      <4> QED BY <2>3, <4>1, <4>2
    <3> QED BY <2>0, <2>3, <3>1, <3>2, <3>3, <3>4 DEF Range
  <2> QED BY <2>1, <2>6, <2>7, <2>8
<1> QED BY <1>1, <1>2

-----------------------------------------------------------------------------
(* Types.                                                                  *)

Balances == [Devs -> [Tokens -> 0..I128Max]]
Tallies  == [Devs -> [day : Nat, amount : 0..I128Max]]
Purses   == [balance : Balances, daily : Tallies, held : [Tokens -> Nat]]
ClaimWindows == [start_ts : Nat, end_ts : Nat]
Proposals    == [to : Devs, amount : 1..I128Max, proposed_at : Nat, execute_after : Nat]

RolesTyped ==
    /\ {admin, pendingAdmin, vault, pendingVault} \subseteq Principals \cup {None, Self}
    /\ usdcToken \in Tokens \cup {None} /\ contractVersion \in Hashes \cup {None}
TotalsTyped ==
    /\ pool \in 0..I128Max /\ totalReceived \in 0..I128Max
    /\ index \in Seq(Devs)
    /\ poolMark \in Nat /\ mark \in [Devs -> Nat]
LimitsTyped ==
    /\ dailyCap \in [Devs -> Int] /\ minBalance \in [Devs -> Nat]
    /\ claimWindow \in [Devs -> ClaimWindows \cup {None}]
    /\ \A d \in Devs : claimWindow[d] # None => claimWindow[d].start_ts <= claimWindow[d].end_ts
PursesTyped == balance \in Balances /\ daily \in Tallies /\ held \in [Tokens -> Nat]
MigrationsTyped ==
    /\ migration \in [Devs -> Proposals \cup {None}]
    /\ \A d \in Devs : migration[d] # None => migration[d].to # d
TimeTyped == now \in 0..MaxTime
SpentTyped == spent \in [Devs -> 0..I128Max]

\* The types, with what TypeOK leaves out: the shape of the records, and that nobody's
\* balance migrates to themselves.
Typed ==
    /\ RolesTyped /\ TotalsTyped /\ LimitsTyped
    /\ PursesTyped /\ MigrationsTyped /\ TimeTyped /\ SpentTyped

\* The parts of the types make up the type invariant.
LEMMA TypedIsTypeOK == ASSUME Typed PROVE TypeOK
<1>1. \A d \in Devs : /\ daily[d] \in [day : Nat, amount : 0..I128Max]
                      /\ migration[d] # None => migration[d] \in Proposals
  BY DEF Typed, PursesTyped, MigrationsTyped, Tallies
<1> QED
  BY <1>1 DEF Typed, TypeOK, RolesTyped, TotalsTyped, LimitsTyped, PursesTyped, TimeTyped,
              Balances, Proposals

\* Time and days are numbers.
LEMMA TodayIsNat == ASSUME TimeTyped PROVE now \in Nat /\ Today \in Nat
BY BoundAssumption DEF TimeTyped, Today

\* Balances after a credit, a payout and a move.
Raised(bal, d, t, n) == [bal EXCEPT ![d][t] = @ + n]
Lowered(bal, d, t, n) == [bal EXCEPT ![d][t] = @ - n]
Moved(bal, from, to, n, t) == [bal EXCEPT ![from][t] = @ - n, ![to][t] = @ + n]

\* A credit keeps balances in their range.
LEMMA RaisedBalances ==
    ASSUME NEW b \in Balances, NEW d \in Devs, NEW t \in Tokens, NEW n \in Int, n > 0,
           Fits(b[d][t] + n)
    PROVE  /\ Raised(b, d, t, n) \in Balances
           /\ \A e \in Devs, u \in Tokens :
                Raised(b, d, t, n)[e][u] = IF e = d /\ u = t THEN b[e][u] + n ELSE b[e][u]
BY BoundAssumption DEF Balances, Fits, Raised

\* A move from one developer to another keeps balances in their range.
LEMMA MovedBalances ==
    ASSUME NEW b \in Balances, NEW from \in Devs, NEW to \in Devs, to # from,
           NEW u \in Tokens, NEW n \in Int, n >= 0,
           b[from][u] - n >= 0, b[to][u] + n <= I128Max
    PROVE  /\ Moved(b, from, to, n, u) \in Balances
           /\ \A e \in Devs, t \in Tokens :
                Moved(b, from, to, n, u)[e][t] =
                  IF t = u /\ e = from THEN b[e][t] - n
                  ELSE IF t = u /\ e = to THEN b[e][t] + n
                  ELSE b[e][t]
<1> DEFINE next == Moved(b, from, to, n, u)
<1>1. b \in [Devs -> [Tokens -> 0..I128Max]] /\ I128Max \in Nat
  BY BoundAssumption DEF Balances
<1>2. next = [e \in Devs |->
                IF e = from THEN [b[e] EXCEPT ![u] = @ - n]
                ELSE IF e = to THEN [b[e] EXCEPT ![u] = @ + n] ELSE b[e]]
  BY <1>1 DEF Moved
<1> HIDE DEF next
<1>3. \A e \in Devs, t \in Tokens :
        next[e][t] = IF t = u /\ e = from THEN b[e][t] - n
                     ELSE IF t = u /\ e = to THEN b[e][t] + n
                     ELSE b[e][t]
  BY <1>1, <1>2
<1>4. ASSUME NEW e \in Devs PROVE next[e] \in [Tokens -> 0..I128Max]
  <2>1. b[e] \in [Tokens -> 0..I128Max]
    BY <1>1
  <2>2. CASE e = from
    <3>1. next[e] = [b[e] EXCEPT ![u] = @ - n]
      BY <1>2, <2>2
    <3>2. b[e][u] - n \in 0..I128Max
      BY <1>1, <2>1, <2>2
    <3> QED BY <2>1, <3>1, <3>2
  <2>3. CASE e = to
    <3>1. next[e] = [b[e] EXCEPT ![u] = @ + n]
      BY <1>2, <2>3
    <3>2. b[e][u] + n \in 0..I128Max
      BY <1>1, <2>1, <2>3
    <3> QED BY <2>1, <3>1, <3>2
  <2>4. CASE e # from /\ e # to
    BY <1>2, <2>1, <2>4
  <2> QED BY <2>2, <2>3, <2>4
<1>5. next \in Balances
  BY <1>2, <1>4 DEF Balances
<1> QED BY <1>3, <1>5 DEF next

\* What one payment does to the purse it is paid from.
LEMMA PaidPurse ==
    ASSUME NEW p \in Purses, NEW w \in Withdrawals, Payable(p, w), RolesTyped, TimeTyped
    PROVE  /\ Paid(p, w) \in Purses
           /\ usdcToken \in Tokens /\ w.developer \in Devs /\ w.amount \in Nat \ {0}
           /\ \A d \in Devs, t \in Tokens :
                Paid(p, w).balance[d][t] =
                  IF d = w.developer /\ t = usdcToken THEN p.balance[d][t] - w.amount
                  ELSE p.balance[d][t]
           /\ \A t \in Tokens :
                Paid(p, w).held[t] = IF t = usdcToken THEN p.held[t] - w.amount ELSE p.held[t]
           /\ \A d \in Devs :
                Paid(p, w).daily[d] =
                  IF d = w.developer
                  THEN [day |-> Today, amount |-> Saturated(WithdrawnToday(p, d) + w.amount)]
                  ELSE p.daily[d]
<1> DEFINE d == w.developer
           u == usdcToken
<1>1. /\ d \in Devs /\ w.amount \in Int /\ w.amount > 0 /\ w.amount \in Nat \ {0}
      /\ u \in Tokens /\ I128Max \in Nat
  BY BoundAssumption DEF Withdrawals, Payable, RolesTyped
<1>2. /\ p.balance \in Balances /\ p.daily \in Tallies /\ p.held \in [Tokens -> Nat]
  BY DEF Purses
<1>3. w.amount <= p.balance[d][u] /\ p.held[u] >= w.amount
  BY DEF Payable
<1>4. Paid(p, w).balance = [p.balance EXCEPT ![d][u] = @ - w.amount]
      /\ Paid(p, w).held = [p.held EXCEPT ![u] = @ - w.amount]
      /\ Paid(p, w).daily =
           [p.daily EXCEPT ![d] = [day |-> Today, amount |-> Saturated(WithdrawnToday(p, d) + w.amount)]]
      /\ Paid(p, w) = [balance |-> Paid(p, w).balance, daily |-> Paid(p, w).daily,
                       held |-> Paid(p, w).held]
  BY DEF Paid
<1>5. Saturated(WithdrawnToday(p, d) + w.amount) \in 0..I128Max /\ Today \in Nat
  <2>1. WithdrawnToday(p, d) \in Nat
    BY <1>1, <1>2 DEF WithdrawnToday, Tallies
  <2> QED BY <1>1, <2>1, TodayIsNat DEF Saturated
<1> HIDE DEF d, u
<1>6. Paid(p, w).balance \in Balances
      /\ \A e \in Devs, t \in Tokens :
           Paid(p, w).balance[e][t] =
             IF e = d /\ t = u THEN p.balance[e][t] - w.amount ELSE p.balance[e][t]
  BY <1>1, <1>2, <1>3, <1>4 DEF Balances
<1>7. Paid(p, w).held \in [Tokens -> Nat]
      /\ \A t \in Tokens : Paid(p, w).held[t] = IF t = u THEN p.held[t] - w.amount ELSE p.held[t]
  BY <1>1, <1>2, <1>3, <1>4
<1>8. Paid(p, w).daily \in Tallies
      /\ \A e \in Devs : Paid(p, w).daily[e] =
           IF e = d THEN [day |-> Today, amount |-> Saturated(WithdrawnToday(p, e) + w.amount)]
           ELSE p.daily[e]
  BY <1>1, <1>2, <1>4, <1>5 DEF Tallies
<1>9. Paid(p, w) \in Purses
  BY <1>4, <1>6, <1>7, <1>8 DEF Purses
<1> QED BY <1>1, <1>6, <1>7, <1>8, <1>9 DEF d, u

\* Whatever holds of the purse, and survives one payment, holds of it after any payout:
\* a withdrawal, or a batch with whichever items succeed.
LEMMA PayoutInduction ==
    ASSUME PursesTyped, NEW S \in SUBSET Purses, Purse \in S,
           \A p \in S, w \in Withdrawals : Payable(p, w) => Paid(p, w) \in S,
           PayoutStep
    PROVE  Purse' \in S
<1>1. ASSUME NEW q \in S, Spend(q) PROVE Purse' = q
  <2>1. q = [balance |-> q.balance, daily |-> q.daily, held |-> q.held]
    BY DEF Purses
  <2>2. balance' = q.balance /\ daily' = q.daily /\ held' = q.held
    BY <1>1 DEF Spend
  <2> QED BY <2>1, <2>2 DEF Purse
<1>2. ASSUME NEW w \in Withdrawals, Withdraw(w) PROVE Purse' \in S
  <2>1. Payable(Purse, w) /\ Spend(Paid(Purse, w))
    BY <1>2 DEF Withdraw
  <2> QED BY <1>1, <2>1
<1>3. ASSUME NEW items \in SettleLists, BatchSettle(items) PROVE Purse' \in S
  <2> DEFINE after == PursesAfter(items)
             Good == {n \in Nat : n <= Len(items) => after[n] \in S}
  <2>1. Len(items) \in Nat /\ \A i \in 1..Len(items) : items[i] \in Withdrawals
    BY BoundAssumption DEF SettleLists
  <2>2. /\ after[0] = Purse
        /\ \A i \in 1..Len(items) :
             after[i] = IF Payable(after[i - 1], items[i]) THEN Paid(after[i - 1], items[i])
                        ELSE after[i - 1]
    BY <2>1, PursesFold
  <2>3. Spend(after[Len(items)])
    BY <1>3 DEF BatchSettle
  <2> HIDE DEF after
  <2>4. 0 \in Good
    BY <2>2
  <2>5. ASSUME NEW n \in Nat, n \in Good PROVE n + 1 \in Good
    <3> SUFFICES ASSUME n + 1 <= Len(items) PROVE after[n + 1] \in S
      OBVIOUS
    <3>1. n + 1 \in 1..Len(items) /\ (n + 1) - 1 = n /\ after[n] \in S
      BY <2>1, <2>5
    <3> QED BY <2>1, <2>2, <3>1
  <2>6. Nat \subseteq Good
    <3> HIDE DEF Good
    <3> QED BY <2>4, <2>5, NatSetInduction
  <2>7. after[Len(items)] \in S
    BY <2>1, <2>6
  <2> QED BY <1>1, <2>3, <2>7
<1> QED BY <1>2, <1>3 DEF PayoutStep

-----------------------------------------------------------------------------
(* Credits, and the index they keep.                                       *)

\* The index is sorted, and has everybody who is owed something.
Indexed ==
    /\ Sorted(index)
    /\ \A d \in Devs, t \in Tokens : balance[d][t] > 0 => d \in Range(index)

CreditsKept == TotalsTyped' /\ balance' \in Balances /\ Indexed'

\* What one credit does to the balances and the index.
LEMMA CreditKeeps ==
    ASSUME TotalsTyped, PursesTyped, Indexed,
           NEW d \in Devs, NEW t \in Tokens, NEW n \in Amounts, n > 0,
           Fits(balance[d][t] + n),
           balance' = [balance EXCEPT ![d][t] = @ + n], index' = SortedInsert(index, d)
    PROVE  balance' \in Balances /\ index' \in Seq(Devs) /\ Indexed'
<1>1. n \in Int
  BY BoundAssumption
<1>2. /\ balance' \in Balances
      /\ \A e \in Devs, u \in Tokens :
           balance'[e][u] = IF e = d /\ u = t THEN balance[e][u] + n ELSE balance[e][u]
  BY <1>1, BoundAssumption DEF PursesTyped, Balances, Fits
<1>3. /\ index' \in Seq(Devs) /\ Sorted(index') /\ Range(index') = Range(index) \cup {d}
  BY InsertKeepsOrder DEF TotalsTyped, Indexed
<1>4. ASSUME NEW e \in Devs, NEW u \in Tokens, balance'[e][u] > 0 PROVE e \in Range(index')
  BY <1>2, <1>3, <1>4 DEF Indexed
<1> QED BY <1>2, <1>3, <1>4 DEF Indexed

\* What a batch of credits does to them, item after item.
LEMMA BatchCredited ==
    ASSUME TotalsTyped, PursesTyped, Indexed,
           NEW c, NEW items \in BatchItems, NEW token \in Tokens, NEW seq,
           BatchReceive(c, items, token, seq)
    PROVE  \A i \in 0..Len(items) :
             /\ CreditsAfter(items, token)[i].balance \in Balances
             /\ CreditsAfter(items, token)[i].index \in Seq(Devs)
             /\ Sorted(CreditsAfter(items, token)[i].index)
             /\ \A d \in Devs, t \in Tokens :
                  /\ balance[d][t] <= CreditsAfter(items, token)[i].balance[d][t]
                  /\ CreditsAfter(items, token)[i].balance[d][t] > 0 =>
                       d \in Range(CreditsAfter(items, token)[i].index)
<1> DEFINE after == CreditsAfter(items, token)
           Held(a) ==
             /\ a.balance \in Balances /\ a.index \in Seq(Devs) /\ Sorted(a.index)
             /\ \A d \in Devs, t \in Tokens : /\ balance[d][t] <= a.balance[d][t]
                                              /\ a.balance[d][t] > 0 => d \in Range(a.index)
           Good == {n \in Nat : n <= Len(items) => Held(after[n])}
<1>1. /\ Len(items) \in Nat /\ DOMAIN items = 1..Len(items)
      /\ \A i \in 1..Len(items) : items[i].developer \in Devs /\ items[i].amount \in Int
  <2>1. PICK n \in 0..MaxItems : items \in [1..n -> [developer : Devs, amount : Amounts]]
    BY DEF BatchItems
  <2>2. n \in Nat /\ Len(items) = n /\ DOMAIN items = 1..n
    BY <2>1, BoundAssumption
  <2> QED BY <2>1, <2>2, BoundAssumption
<1>2. \A i \in 1..Len(items) :
        items[i].amount > 0 /\ Fits(after[i].balance[items[i].developer][token])
  BY <1>1 DEF BatchReceive
<1>3. /\ after[0] = [balance |-> balance, index |-> index]
      /\ \A i \in 1..Len(items) :
           /\ after[i].balance = [after[i - 1].balance EXCEPT
                                    ![items[i].developer][token] = @ + items[i].amount]
           /\ after[i].index = SortedInsert(after[i - 1].index, items[i].developer)
  <2>1. /\ after[0] = [balance |-> balance, index |-> index]
        /\ \A i \in 1..Len(items) :
             after[i] = [balance |-> [after[i - 1].balance EXCEPT
                                        ![items[i].developer][token] = @ + items[i].amount],
                         index   |-> SortedInsert(after[i - 1].index, items[i].developer)]
    BY <1>1, CreditsFold
  <2> HIDE DEF after
  <2>2. ASSUME NEW i \in 1..Len(items)
        PROVE  /\ after[i].balance = [after[i - 1].balance EXCEPT
                                       ![items[i].developer][token] = @ + items[i].amount]
               /\ after[i].index = SortedInsert(after[i - 1].index, items[i].developer)
    <3>1. after[i] = [balance |-> [after[i - 1].balance EXCEPT
                                    ![items[i].developer][token] = @ + items[i].amount],
                      index   |-> SortedInsert(after[i - 1].index, items[i].developer)]
      BY <2>1
    <3> QED BY <3>1
  <2> QED BY <2>1, <2>2
<1> HIDE DEF after
<1>4. 0 \in Good
  BY <1>3 DEF TotalsTyped, PursesTyped, Indexed, Balances
<1>5. ASSUME NEW n \in Nat, n \in Good PROVE n + 1 \in Good
  <2> SUFFICES ASSUME n + 1 <= Len(items) PROVE Held(after[n + 1])
    OBVIOUS
  <2> DEFINE d == items[n + 1].developer
             a == after[n]
             z == after[n + 1]
  <2>1. n + 1 \in 1..Len(items) /\ (n + 1) - 1 = n /\ Held(a)
    BY <1>1, <1>5
  <2>2. /\ d \in Devs /\ items[n + 1].amount \in Int /\ items[n + 1].amount > 0
        /\ Fits(z.balance[d][token])
        /\ z.balance = [a.balance EXCEPT ![d][token] = @ + items[n + 1].amount]
        /\ z.index = SortedInsert(a.index, d)
    BY <1>1, <1>2, <1>3, <2>1
  <2>3. z.balance[d][token] = a.balance[d][token] + items[n + 1].amount
    BY <2>1, <2>2 DEF Balances
  <2>4. /\ z.balance \in Balances
        /\ \A e \in Devs, u \in Tokens :
             z.balance[e][u] = IF e = d /\ u = token THEN a.balance[e][u] + items[n + 1].amount
                               ELSE a.balance[e][u]
    <3> DEFINE b == a.balance
               y == z.balance
               n1 == items[n + 1].amount
    <3>1. b \in Balances
      BY <2>1
    <3>2. /\ d \in Devs /\ n1 \in Int /\ n1 > 0 /\ Fits(b[d][token] + n1)
          /\ y = [b EXCEPT ![d][token] = @ + n1]
      BY <2>2, <2>3
    <3> HIDE DEF b, y, n1, d
    <3>3. /\ y \in Balances
          /\ \A e \in Devs, u \in Tokens : y[e][u] = IF e = d /\ u = token THEN b[e][u] + n1 ELSE b[e][u]
      <4>1. y = Raised(b, d, token, n1)
        BY <3>2 DEF Raised
      <4>2. b \in Balances /\ d \in Devs /\ token \in Tokens /\ n1 \in Int /\ n1 > 0 /\ Fits(b[d][token] + n1)
        BY <3>1, <3>2
      <4>3. /\ Raised(b, d, token, n1) \in Balances
            /\ \A e \in Devs, u \in Tokens :
                 Raised(b, d, token, n1)[e][u] = IF e = d /\ u = token THEN b[e][u] + n1 ELSE b[e][u]
        BY ONLY <4>2, RaisedBalances
      <4> QED BY <4>1, <4>3
    <3> QED BY <3>3 DEF b, y, n1
  <2>5. z.index \in Seq(Devs) /\ Sorted(z.index) /\ Range(z.index) = Range(a.index) \cup {d}
    BY <2>1, <2>2, InsertKeepsOrder
  <2> HIDE DEF d, z
  <2>6. ASSUME NEW e \in Devs, NEW u \in Tokens
        PROVE  /\ balance[e][u] <= z.balance[e][u]
               /\ z.balance[e][u] > 0 => e \in Range(z.index)
    <3>1. balance[e][u] \in Int /\ a.balance[e][u] \in Int /\ balance[e][u] <= a.balance[e][u]
      BY <2>1 DEF PursesTyped, Balances
    <3> QED BY <2>1, <2>2, <2>4, <2>5, <3>1
  <2> QED BY <2>4, <2>5, <2>6 DEF z
<1>6. Nat \subseteq Good
  <2> HIDE DEF Good
  <2> QED BY <1>4, <1>5, NatSetInduction
<1> QED BY <1>1, <1>6 DEF after

\* Payments and forced credits keep purses and index in order.
LEMMA PaymentsKeepCredits ==
    ASSUME TotalsTyped, PursesTyped, Indexed, PaymentStep \/ ForceCreditStep
    PROVE  CreditsKept
<1>1. ASSUME NEW c \in Principals, NEW n \in Amounts, NEW d \in Devs, NEW t \in Tokens,
             NEW seq \in LedgerSeqs, ReceiveForDeveloper(c, n, d, t, seq)
      PROVE  CreditsKept
  <2>1. balance' \in Balances /\ index' \in Seq(Devs) /\ Indexed'
    BY <1>1, CreditKeeps DEF ReceiveForDeveloper
  <2>2. seq \in Nat /\ mark' = [mark EXCEPT ![d] = seq] /\ UNCHANGED <<pool, totalReceived, poolMark>>
    BY <1>1, BoundAssumption DEF ReceiveForDeveloper
  <2> QED BY <2>1, <2>2 DEF TotalsTyped, CreditsKept
<1>2. ASSUME NEW c \in Principals, NEW n \in Amounts, NEW d \in Devs, NEW t \in Tokens,
             ForceCredit(c, d, n, t)
      PROVE  CreditsKept
  <2>1. balance' \in Balances /\ index' \in Seq(Devs) /\ Indexed'
    BY <1>2, CreditKeeps DEF ForceCredit
  <2> QED BY <1>2, <2>1 DEF ForceCredit, TotalsTyped, CreditsKept, marks
<1>3. ASSUME NEW c \in Principals, NEW items \in BatchItems, NEW t \in Tokens,
             NEW seq \in LedgerSeqs, BatchReceive(c, items, t, seq)
      PROVE  CreditsKept
  <2>1. Len(items) \in 0..Len(items)
    BY BoundAssumption DEF BatchItems
  <2>2. /\ balance' = CreditsAfter(items, t)[Len(items)].balance
        /\ index' = CreditsAfter(items, t)[Len(items)].index
    BY <1>3 DEF BatchReceive
  <2>3. balance' \in Balances /\ index' \in Seq(Devs) /\ Indexed'
    BY <1>3, <2>1, <2>2, BatchCredited DEF Indexed
  <2>4. seq \in Nat /\ UNCHANGED <<pool, totalReceived, poolMark>>
        /\ mark' = [d \in Devs |-> IF \E i \in DOMAIN items : items[i].developer = d
                                   THEN seq ELSE mark[d]]
    BY <1>3, BoundAssumption DEF BatchReceive
  <2> QED BY <2>3, <2>4 DEF TotalsTyped, CreditsKept
<1> QED BY <1>1, <1>2, <1>3 DEF PaymentStep, ForceCreditStep

-----------------------------------------------------------------------------
(* Every call keeps the types and the index.                               *)

\* Setting roles keeps them typed and touches no money.
LEMMA SetupKeepsRoles ==
    ASSUME RolesTyped, SetupStep
    PROVE  RolesTyped' /\ UNCHANGED <<balance, index, limits, marks, payouts, migration, now>>
<1>1. UNCHANGED <<balance, index, limits, marks, payouts, migration, now>>
  BY DEF SetupStep, InitSettlement, SetUsdcToken, Upgrade, SetAdmin, ProposeVault,
         CancelAdminTransfer, Broadcast, AcceptVault, AcceptAdmin, rest, credits
<1>2. RolesTyped'
  <2> USE DEF RolesTyped
  <2>0. Nominees \subseteq Principals \cup {Self}
    BY AddressAssumption
  <2>1. CASE \E a, v \in Principals \cup {Self} : InitSettlement(a, v)
    BY <2>0, <2>1 DEF InitSettlement, setup
  <2>2. CASE \E c \in Principals : \E t \in Tokens \cup {Self} : SetUsdcToken(c, t)
    BY <2>0, <2>2 DEF SetUsdcToken, roles
  <2>3. CASE \E c \in Principals : \E hash \in Hashes : Upgrade(c, hash)
    BY <2>0, <2>3 DEF Upgrade, roles
  <2>4. CASE \E c \in Principals : \E p \in Nominees : SetAdmin(c, p)
    BY <2>0, <2>4 DEF SetAdmin, rest, setup
  <2>5. CASE \E c \in Principals : \E v \in Nominees : ProposeVault(c, v)
    BY <2>0, <2>5 DEF ProposeVault, rest, setup
  <2>6. CASE \E c \in Principals : CancelAdminTransfer(c)
    BY <2>0, <2>6 DEF CancelAdminTransfer, rest, setup
  <2>7. CASE \E c \in Principals : Broadcast(c)
    BY <2>0, <2>7 DEF Broadcast, roles, setup
  <2>8. CASE \E c \in Principals : AcceptVault(c)
    BY <2>0, <2>8 DEF AcceptVault, rest, setup
  <2>9. CASE AcceptAdmin
    BY <2>0, <2>9 DEF AcceptAdmin, rest, setup
  <2> QED BY <2>1, <2>2, <2>3, <2>4, <2>5, <2>6, <2>7, <2>8, <2>9 DEF SetupStep
<1> QED BY <1>1, <1>2

\* So does it keep the totals, which only an init resets.
LEMMA SetupKeeps ==
    ASSUME RolesTyped, TotalsTyped, SetupStep
    PROVE  /\ RolesTyped' /\ TotalsTyped'
           /\ UNCHANGED <<balance, index, limits, payouts, migration, now>>
<1>1. pool' \in {0, pool} /\ totalReceived' \in {0, totalReceived}
  BY DEF SetupStep, InitSettlement, SetUsdcToken, Upgrade, SetAdmin, ProposeVault,
         CancelAdminTransfer, Broadcast, AcceptVault, AcceptAdmin, rest, credits
<1> QED BY <1>1, SetupKeepsRoles, BoundAssumption DEF TotalsTyped, marks

\* Setting limits keeps the types and touches no money.
LEMMA LimitsKeep == ASSUME LimitsTyped, LimitStep PROVE LimitsTyped' /\ UNCHANGED credits
<1> USE DEF LimitsTyped
<1>1. ASSUME NEW c \in Principals, NEW d \in Devs, NEW s \in WindowBounds, NEW e \in WindowBounds,
             SetClaimWindow(c, d, s, e)
      PROVE  LimitsTyped'
  <2>1. [start_ts |-> s, end_ts |-> e] \in ClaimWindows /\ s <= e
    BY <1>1, BoundAssumption DEF ClaimWindows, SetClaimWindow
  <2>2. claimWindow' = [claimWindow EXCEPT ![d] = [start_ts |-> s, end_ts |-> e]]
        /\ UNCHANGED <<dailyCap, minBalance>>
    BY <1>1 DEF SetClaimWindow, DeveloperClaimWindow
  <2> QED BY <2>1, <2>2
<1>2. ASSUME NEW c \in Principals, NEW d \in Devs, ClearClaimWindow(c, d) PROVE LimitsTyped'
  BY <1>2 DEF ClearClaimWindow
<1>3. ASSUME NEW c \in Principals, NEW d \in Devs, NEW n \in CapValues, SetDailyCap(c, d, n)
      PROVE  LimitsTyped'
  BY <1>3, BoundAssumption DEF SetDailyCap
<1>4. ASSUME NEW c \in Principals, NEW d \in Devs, NEW n \in MinValues, SetMinBalance(c, d, n)
      PROVE  LimitsTyped'
  BY <1>4, BoundAssumption DEF SetMinBalance
<1>5. UNCHANGED credits
  BY DEF LimitStep, SetClaimWindow, ClearClaimWindow, SetDailyCap, SetMinBalance
<1> QED BY <1>1, <1>2, <1>3, <1>4, <1>5 DEF LimitStep

\* A proposal is well typed.
LEMMA ProposalKeeps ==
    ASSUME RolesTyped, PursesTyped, MigrationsTyped, TimeTyped, ProposalStep
    PROVE  MigrationsTyped'
<1>1. PICK c \in Principals, from \in Devs, to \in Devs \cup {Self} : ProposeMigration(c, from, to)
  BY DEF ProposalStep
<1> DEFINE m == PendingDeveloperMigration(from, to)
<1>2. /\ from # to /\ to \in Devs /\ usdcToken \in Tokens
      /\ balance[from][usdcToken] \in 1..I128Max
      /\ migration' = [migration EXCEPT ![from] = m]
  BY <1>1 DEF ProposeMigration, RolesTyped
<1>3. m \in Proposals /\ m.to = to
  <2>1. now \in Nat /\ now + DEVELOPER_MIGRATION_TIMELOCK_SECONDS \in Nat
    BY TodayIsNat, BoundAssumption
  <2> QED BY <1>2, <2>1 DEF PendingDeveloperMigration, Proposals
<1> HIDE DEF m
<1> QED BY <1>2, <1>3 DEF MigrationsTyped

\* An execution keeps purses, index and proposals in order.
LEMMA ExecutionKeeps ==
    ASSUME RolesTyped, TotalsTyped, PursesTyped, MigrationsTyped, Indexed, ExecutionStep
    PROVE  CreditsKept /\ MigrationsTyped'
<1>1. PICK c \in Principals, from \in Devs : ExecuteMigration(c, from)
  BY DEF ExecutionStep
<1> DEFINE m == migration[from]
           u == usdcToken
<1>2. /\ m # None /\ u \in Tokens
      /\ balance[from][u] - m.amount >= 0 /\ balance[m.to][u] + m.amount <= I128Max
      /\ balance' = [balance EXCEPT ![from][u] = @ - m.amount, ![m.to][u] = @ + m.amount]
      /\ index' = SortedInsert(index, m.to)
      /\ migration' = [migration EXCEPT ![from] = None]
      /\ UNCHANGED <<marks, pool, totalReceived>>
  BY <1>1 DEF ExecuteMigration, RolesTyped, Fits
<1>3. m \in Proposals /\ m.to \in Devs /\ m.amount \in 1..I128Max /\ m.to # from
  BY <1>2 DEF MigrationsTyped, Proposals
<1>4. MigrationsTyped'
  BY <1>2 DEF MigrationsTyped
<1> HIDE DEF m, u
<1>5. /\ balance' \in Balances
      /\ \A e \in Devs, t \in Tokens :
           balance'[e][t] = IF t = u /\ e = from THEN balance[e][t] - m.amount
                            ELSE IF t = u /\ e = m.to THEN balance[e][t] + m.amount
                            ELSE balance[e][t]
  <2> DEFINE to == m.to
             n == m.amount
  <2>1. /\ from \in Devs /\ to \in Devs /\ to # from /\ u \in Tokens /\ n \in Int /\ n >= 0
        /\ balance[from][u] - n >= 0 /\ balance[to][u] + n <= I128Max
        /\ balance' = [balance EXCEPT ![from][u] = @ - n, ![to][u] = @ + n]
    BY <1>2, <1>3, BoundAssumption
  <2> HIDE DEF to, n
  <2>2. /\ balance' \in Balances
        /\ \A e \in Devs, t \in Tokens :
             balance'[e][t] = IF t = u /\ e = from THEN balance[e][t] - n
                              ELSE IF t = u /\ e = to THEN balance[e][t] + n
                              ELSE balance[e][t]
    <3>1. balance \in Balances /\ balance' = Moved(balance, from, to, n, u)
      BY <2>1 DEF PursesTyped, Moved
    <3>2. /\ Moved(balance, from, to, n, u) \in Balances
          /\ \A e \in Devs, t \in Tokens :
               Moved(balance, from, to, n, u)[e][t] =
                 IF t = u /\ e = from THEN balance[e][t] - n
                 ELSE IF t = u /\ e = to THEN balance[e][t] + n
                 ELSE balance[e][t]
      BY ONLY <2>1, <3>1, MovedBalances
    <3> QED BY <3>1, <3>2
  <2> QED BY <2>2 DEF to, n
<1>6. index' \in Seq(Devs) /\ Sorted(index') /\ Range(index') = Range(index) \cup {m.to}
  BY <1>2, <1>3, InsertKeepsOrder DEF TotalsTyped, Indexed
<1>7. ASSUME NEW e \in Devs, NEW t \in Tokens, balance'[e][t] > 0 PROVE e \in Range(index')
  <2>1. balance[e][t] \in Nat /\ m.amount \in Nat
    BY <1>3, BoundAssumption DEF PursesTyped, Balances
  <2> QED BY <1>3, <1>5, <1>6, <1>7, <2>1 DEF Indexed
<1>8. TotalsTyped' /\ Indexed'
  BY <1>2, <1>6, <1>7 DEF TotalsTyped, Indexed, marks
<1> QED BY <1>4, <1>5, <1>8 DEF CreditsKept

\* A payout only takes from the balances.
LEMMA PayoutTakes ==
    ASSUME RolesTyped, PursesTyped, TimeTyped, PayoutStep
    PROVE  /\ PursesTyped'
           /\ \A d \in Devs, t \in Tokens : balance'[d][t] <= balance[d][t]
<1> DEFINE S == {p \in Purses : \A d \in Devs, t \in Tokens : p.balance[d][t] <= balance[d][t]}
<1>1. Purse \in S
  BY DEF Purse, Purses, PursesTyped, Balances
<1>2. ASSUME NEW p \in S, NEW w \in Withdrawals, Payable(p, w) PROVE Paid(p, w) \in S
  <2>1. /\ Paid(p, w) \in Purses /\ w.amount \in Nat
        /\ \A d \in Devs, t \in Tokens :
             Paid(p, w).balance[d][t] =
               IF d = w.developer /\ t = usdcToken THEN p.balance[d][t] - w.amount
               ELSE p.balance[d][t]
    BY <1>2, PaidPurse
  <2>2. ASSUME NEW d \in Devs, NEW t \in Tokens PROVE Paid(p, w).balance[d][t] <= balance[d][t]
    <3>1. p.balance[d][t] \in Int /\ balance[d][t] \in Int /\ p.balance[d][t] <= balance[d][t]
      BY DEF Purses, PursesTyped, Balances
    <3> QED BY <2>1, <3>1
  <2> QED BY <2>1, <2>2
<1>3. Purse' \in S
  <2> HIDE DEF S
  <2>1. S \in SUBSET Purses
    BY DEF S
  <2> QED BY <1>1, <1>2, <2>1, PayoutInduction
<1> QED BY <1>3 DEF Purse, Purses, PursesTyped

\* What a developer is owed is a sum of naturals.
LEMMA OwedIsSum ==
    ASSUME PursesTyped, NEW d \in Devs
    PROVE  /\ Owed(d) = Sum(balance[d], Tokens)
           /\ Owed(d) \in Nat
           /\ \A t \in Tokens : balance[d][t] \in Nat
           /\ Owed(d) > 0 => \E t \in Tokens : balance[d][t] > 0
<1>1. IsFiniteSet(Tokens) /\ \A t \in Tokens : balance[d][t] \in Nat
  BY AddressAssumption, BoundAssumption DEF PursesTyped, Balances
<1>2. Owed(d) = Sum(balance[d], Tokens)
  BY DEF Owed, Sum
<1> QED BY <1>1, <1>2, SumNat

\* So it never raises what a developer is owed.
LEMMA PayoutLowersOwed ==
    ASSUME RolesTyped, PursesTyped, TimeTyped, PayoutStep, NEW d \in Devs
    PROVE  Owed(d) \in Nat /\ Owed(d)' \in Nat /\ Owed(d)' <= Owed(d)
<1>1. PursesTyped' /\ \A t \in Tokens : balance'[d][t] <= balance[d][t]
  BY PayoutTakes
<1>2. Owed(d) = Sum(balance[d], Tokens) /\ Owed(d) \in Nat /\ \A t \in Tokens : balance[d][t] \in Nat
  BY OwedIsSum
<1>3. Owed(d)' = Sum(balance'[d], Tokens) /\ Owed(d)' \in Nat
      /\ \A t \in Tokens : balance'[d][t] \in Nat
  <2>1. Owed(d)' = Sum(balance'[d], Tokens)
    BY DEF Owed, Sum
  <2>2. IsFiniteSet(Tokens) /\ \A t \in Tokens : balance'[d][t] \in Nat
    BY <1>1, AddressAssumption, BoundAssumption DEF PursesTyped, Balances
  <2> QED BY <2>1, <2>2, SumNat
<1>4. Sum(balance'[d], Tokens) <= Sum(balance[d], Tokens)
  BY <1>1, <1>2, <1>3, AddressAssumption, SumMonotonic
<1> QED BY <1>2, <1>3, <1>4

\* The inductive invariant: the types, and the index that goes with the balances.
Sound == Typed /\ Indexed

\* An empty contract has all of it.
LEMMA HInitSound == ASSUME HInit PROVE Sound
<1>1. RolesTyped
  BY DEF HInit, Init, RolesTyped
<1>2. TotalsTyped
  <2>1. <<>> \in Seq(Devs) /\ [d \in Devs |-> 0] \in [Devs -> Nat]
    OBVIOUS
  <2> QED BY <2>1, BoundAssumption DEF HInit, Init, TotalsTyped
<1>3. LimitsTyped
  BY DEF HInit, Init, LimitsTyped
<1>4. PursesTyped
  <2>1. held \in [Tokens -> Nat]
    BY BoundAssumption DEF HInit, Init
  <2>2. 0 \in 0..I128Max
    BY BoundAssumption
  <2> QED BY <2>1, <2>2 DEF HInit, Init, PursesTyped, Balances, Tallies
<1>5. MigrationsTyped
  BY DEF HInit, Init, MigrationsTyped
<1>6. TimeTyped /\ SpentTyped
  BY BoundAssumption DEF HInit, Init, TimeTyped, SpentTyped
<1>7. Indexed
  <2>1. index = <<>> /\ balance = [d \in Devs |-> [t \in Tokens |-> 0]]
    BY DEF HInit, Init
  <2> QED BY <2>1 DEF Indexed, Sorted
<1> QED BY <1>1, <1>2, <1>3, <1>4, <1>5, <1>6, <1>7 DEF Sound, Typed

\* Payments to the pool touch no developer.
LEMMA PoolKeeps ==
    ASSUME TotalsTyped, PoolStep PROVE TotalsTyped' /\ UNCHANGED <<balance, index>>
<1>1. PICK c \in Principals, n \in Amounts, t \in Tokens, seq \in LedgerSeqs :
        ReceiveForPool(c, n, t, seq)
  BY DEF PoolStep
<1>2. n \in Int /\ seq \in Nat /\ I128Max \in Nat
  BY BoundAssumption
<1> QED BY <1>1, <1>2 DEF ReceiveForPool, TotalsTyped, Fits

\* The record of what was spent stays a number for each developer.
LEMMA PayoutKeepsSpent ==
    ASSUME RolesTyped, PursesTyped, TimeTyped, SpentTyped, HPayout PROVE SpentTyped'
<1>1. spent' = [d \in Devs |-> Saturated(spent[d] + Owed(d) - Owed(d)')]
  BY DEF HPayout
<1>2. ASSUME NEW d \in Devs PROVE Saturated(spent[d] + Owed(d) - Owed(d)') \in 0..I128Max
  <2>1. Owed(d) \in Nat /\ Owed(d)' \in Nat /\ Owed(d)' <= Owed(d)
    BY PayoutLowersOwed DEF HPayout
  <2>2. spent[d] \in Nat /\ I128Max \in Nat
    BY BoundAssumption DEF SpentTyped
  <2> HIDE DEF Owed
  <2> QED BY <2>1, <2>2 DEF Saturated
<1> QED BY <1>1, <1>2 DEF SpentTyped

\* Gifts of tokens and the clock keep the types.
LEMMA OutsideKeeps ==
    ASSUME PursesTyped, TimeTyped, SpentTyped, HOutside
    PROVE  PursesTyped' /\ TimeTyped' /\ SpentTyped' /\ UNCHANGED <<credits, limits>>
<1>1. SpentTyped'
  <2>1. 0 \in 0..I128Max
    BY BoundAssumption
  <2> QED BY <2>1 DEF HOutside, SpentTyped
<1>2. ASSUME NEW t \in Tokens, NEW n \in Amounts, TokensArrive(t, n)
      PROVE  PursesTyped' /\ TimeTyped' /\ UNCHANGED <<credits, limits>>
  <2>1. n \in Int /\ n > 0 /\ held' = [held EXCEPT ![t] = @ + n]
        /\ UNCHANGED <<balance, daily, now, credits, limits>>
    BY <1>2, BoundAssumption DEF TokensArrive, credits
  <2> QED BY <2>1 DEF PursesTyped, TimeTyped
<1>3. CASE Tick
  <2>1. TimeTyped'
    BY <1>3, BoundAssumption DEF Tick, TimeTyped
  <2>2. UNCHANGED <<balance, daily, held, credits, limits>>
    BY <1>3 DEF Tick, credits, payouts
  <2> QED BY <1>1, <2>1, <2>2 DEF PursesTyped
<1> QED BY <1>1, <1>2, <1>3 DEF HOutside, OutsideStep

\* Every step keeps all of it.
LEMMA StepSound == ASSUME Sound, [HNext]_hvars PROVE Sound'
<1> USE DEF Sound, Typed
<1>1. CASE HReceive \/ HBatchReceive
  <2>1. PaymentStep /\ UNCHANGED spent
    BY <1>1 DEF HReceive, HBatchReceive, PaymentStep, Credit
  <2>2. CreditsKept /\ UNCHANGED <<migration, roles, setup, now>>
    BY <2>1, PaymentsKeepCredits, PaymentsLeave
  <2>3. UNCHANGED <<limits, payouts>>
    BY <2>1 DEF PaymentStep, ReceiveForDeveloper, BatchReceive
  <2> QED
    BY <2>1, <2>2, <2>3
    DEF CreditsKept, RolesTyped, LimitsTyped, PursesTyped, MigrationsTyped, TimeTyped, SpentTyped,
        roles, setup, limits, payouts
<1>2. CASE HPayout
  <2>1. PayoutStep /\ SpentTyped'
    BY <1>2, PayoutKeepsSpent DEF HPayout
  <2>2. /\ PursesTyped' /\ \A d \in Devs, t \in Tokens : balance'[d][t] <= balance[d][t]
        /\ UNCHANGED <<marks, migration, roles, setup, now>>
    BY <2>1, PayoutTakes, PayoutsLeave
  <2>3. UNCHANGED <<limits, pool, totalReceived, index>>
    BY <2>1 DEF PayoutStep, Withdraw, BatchSettle, Spend
  <2>4. ASSUME NEW d \in Devs, NEW t \in Tokens, balance'[d][t] > 0 PROVE d \in Range(index')
    <3>1. balance[d][t] \in Int /\ balance'[d][t] \in Int
      BY <2>2, BoundAssumption DEF PursesTyped, Balances
    <3> QED BY <2>2, <2>3, <2>4, <3>1 DEF Indexed
  <2>5. Indexed'
    BY <2>3, <2>4 DEF Indexed
  <2> QED
    BY <2>1, <2>2, <2>3, <2>5
    DEF RolesTyped, LimitsTyped, TotalsTyped, MigrationsTyped, TimeTyped, roles, setup, limits, marks
<1>3. CASE HPropose
  <2>1. ProposalStep /\ UNCHANGED spent
    BY <1>3 DEF HPropose, ProposalStep
  <2>2. MigrationsTyped' /\ UNCHANGED <<marks, roles, setup, now>>
    BY <2>1, ProposalKeeps, ProposalsLeave
  <2>3. UNCHANGED <<limits, credits, payouts>>
    BY <2>1 DEF ProposalStep, ProposeMigration
  <2> QED
    BY <2>1, <2>2, <2>3
    DEF RolesTyped, LimitsTyped, TotalsTyped, PursesTyped, TimeTyped, SpentTyped, Indexed,
        roles, setup, limits, marks, credits, payouts
<1>4. CASE HExecute
  <2>1. ExecutionStep /\ UNCHANGED spent
    BY <1>4 DEF HExecute, ExecutionStep
  <2>2. CreditsKept /\ MigrationsTyped' /\ UNCHANGED <<marks, roles, setup, now>>
    BY <2>1, ExecutionKeeps, ProposalsLeave
  <2>3. UNCHANGED <<limits, payouts>>
    BY <2>1 DEF ExecutionStep, ExecuteMigration
  <2> QED
    BY <2>1, <2>2, <2>3
    DEF CreditsKept, RolesTyped, LimitsTyped, PursesTyped, TimeTyped, SpentTyped,
        roles, setup, limits, payouts
<1>5. CASE HOutside
  <2>1. UNCHANGED <<marks, migration, roles, setup, credits, limits>>
    BY <1>5, OutsideLeaves, OutsideKeeps DEF HOutside
  <2>2. PursesTyped' /\ TimeTyped' /\ SpentTyped'
    BY <1>5, OutsideKeeps
  <2> QED
    BY <2>1, <2>2
    DEF RolesTyped, LimitsTyped, TotalsTyped, MigrationsTyped, Indexed,
        roles, setup, limits, marks, credits
<1>6. CASE HOther
  <2>1. UNCHANGED <<spent, payouts, now, migration>>
    BY <1>6
    DEF HOther, history, SetupStep, InitSettlement, SetUsdcToken, Upgrade, SetAdmin, ProposeVault,
        CancelAdminTransfer, Broadcast, AcceptVault, AcceptAdmin, rest, LimitStep, SetClaimWindow,
        ClearClaimWindow, SetDailyCap, SetMinBalance, PoolStep, ReceiveForPool, ForceCreditStep,
        ForceCredit
  <2>2. MigrationsTyped' /\ TimeTyped' /\ SpentTyped'
    BY <2>1 DEF MigrationsTyped, TimeTyped, SpentTyped
  <2>3. CASE SetupStep
    BY <2>1, <2>2, <2>3, SetupKeeps DEF LimitsTyped, PursesTyped, Indexed, limits, payouts
  <2>4. CASE LimitStep
    BY <2>1, <2>2, <2>4, LimitsKeep, LimitsLeave
    DEF RolesTyped, TotalsTyped, PursesTyped, Indexed, payouts, credits, marks, roles, setup
  <2>5. CASE PoolStep
    <3>1. UNCHANGED <<roles, setup, limits>>
      BY <2>5 DEF PoolStep, ReceiveForPool
    <3> QED
      BY <2>1, <2>2, <2>5, <3>1, PoolKeeps
      DEF RolesTyped, LimitsTyped, PursesTyped, Indexed, payouts, roles, setup, limits
  <2>6. CASE ForceCreditStep
    <3>1. UNCHANGED <<roles, setup, limits>>
      BY <2>6 DEF ForceCreditStep, ForceCredit
    <3> QED
      BY <2>1, <2>2, <2>6, <3>1, PaymentsKeepCredits
      DEF CreditsKept, RolesTyped, LimitsTyped, PursesTyped, payouts, roles, setup, limits
  <2> QED BY <1>6, <2>3, <2>4, <2>5, <2>6 DEF HOther
<1>7. CASE UNCHANGED hvars
  BY <1>7
  DEF hvars, vars, history, roles, setup, limits, marks, credits, payouts, RolesTyped, TotalsTyped,
      LimitsTyped, PursesTyped, MigrationsTyped, TimeTyped, SpentTyped, Indexed
<1> QED BY <1>1, <1>2, <1>3, <1>4, <1>5, <1>6, <1>7 DEF HNext

\* Every balance, limit, record and counter has its type: no balance is ever negative or
\* past the i128 range, whatever is credited, paid, settled in batches or migrated.
THEOREM TypeCorrect == HSpec => []TypeOK
<1>1. Sound => TypeOK
  BY TypedIsTypeOK DEF Sound
<1> QED BY <1>1, HInitSound, StepSound, PTL DEF HSpec

\* The developer index is sorted, without duplicates, and has everybody who is owed
\* something, after single and batch credits, forced ones, payouts and migrations.
THEOREM IndexMissesNobody == HSpec => []IndexComplete
<1>1. ASSUME Sound PROVE IndexComplete
  <2>1. Sorted(index) /\ index \in Seq(Devs) /\ PursesTyped
    BY <1>1 DEF Sound, Typed, Indexed, TotalsTyped
  <2>2. ASSUME NEW d \in Devs, Owed(d) > 0 PROVE Contains(index, d)
    <3>1. \E t \in Tokens : balance[d][t] > 0
      BY <2>1, <2>2, OwedIsSum
    <3>2. d \in Range(index)
      BY <1>1, <3>1 DEF Sound, Indexed
    <3> QED BY <2>1, <3>2 DEF Contains, Range
  <2> QED BY <2>1, <2>2 DEF IndexComplete, Sorted
<1> QED BY <1>1, HInitSound, StepSound, PTL DEF HSpec
=============================================================================
