----------------------------- MODULE Settlement -----------------------------
(***************************************************************************)
(* The Callora settlement contract (contracts/settlement): the pool and    *)
(* per-developer balances that payments are credited to, the replay guard, *)
(* the developer index, withdrawals with their limits, timelocked balance  *)
(* migrations, and the admin and vault roles.  Every call publishes its    *)
(* events, and the books that an indexer keeps of them are state here.     *)
(*                                                                         *)
(* A call that panics or returns Err reverts, and is no step.  Developers  *)
(* are numbers in the order of their address bytes, which the index uses.  *)
(***************************************************************************)
EXTENDS SettlementEvents, SequencesExt, FiniteSetsExt

CONSTANTS
    Devs,               \* developer addresses, as numbers
    Principals,         \* accounts that may be admin or vault
    Nominees,           \* addresses that set_admin and propose_vault may name
    Self,               \* the settlement contract's address
    Tokens,
    None,
    Amounts,            \* amounts that callers pass
    LedgerSeqs,         \* ledger_seq values that payments carry
    CapValues, MinValues,   \* daily caps and minimum balances that the admin sets
    WindowBounds,       \* claim window bounds that the admin sets
    Hashes,             \* WASM hashes
    MAX_BATCH_SIZE,     \* 50 in the code
    MAX_SETTLEMENTS,    \* 64 in the code
    MaxItems,           \* the longest list passed to a batch call
    DAY,                \* 86 400 s
    DEVELOPER_MIGRATION_TIMELOCK_SECONDS,
    MaxTime,            \* the last ledger timestamp (u64::MAX)
    I128Max,
    Genesis             \* token balances the contract may start with

ASSUME AddressAssumption ==
    /\ Devs \subseteq Nat /\ IsFiniteSet(Devs) /\ IsFiniteSet(Tokens)
    /\ None \notin Principals \cup Tokens \cup Hashes \cup {Self}
    /\ Self \notin Principals \cup Devs \cup Tokens
    /\ Nominees \subseteq Principals \cup {Self}
ASSUME BoundAssumption ==
    /\ LedgerSeqs \subseteq Nat /\ WindowBounds \subseteq Nat
    /\ Amounts \cup CapValues \cup MinValues \subseteq Int
    /\ {MAX_BATCH_SIZE, MAX_SETTLEMENTS, MaxItems, MaxTime, I128Max} \subseteq Nat
    /\ DAY \in Nat \ {0} /\ DEVELOPER_MIGRATION_TIMELOCK_SECONDS \in Nat
    /\ Genesis \subseteq [Tokens -> Nat]

VARIABLES
    admin, pendingAdmin, vault, pendingVault,
    usdcToken, contractVersion,
    pool,               \* GlobalPool.total_balance
    totalReceived,
    balance,            \* developer -> token -> i128
    index,              \* DeveloperIndex
    poolMark, mark,     \* high-water marks: the pool's, and developer -> u32
    dailyCap, minBalance, claimWindow,  \* per developer
    daily,              \* developer -> [day, amount] withdrawn
    migration,          \* developer -> None or [to, amount, proposed_at, execute_after]
    held,               \* token -> what the token contract says this contract has
    now,
    books               \* what an indexer knows from the events published so far

roles   == <<admin, pendingAdmin, vault, pendingVault>>
setup   == <<usdcToken, contractVersion>>
limits  == <<dailyCap, minBalance, claimWindow>>
marks   == <<poolMark, mark>>
credits == <<pool, totalReceived, balance, index>>
payouts == <<daily, held>>
vars    == <<roles, setup, limits, marks, credits, payouts, migration, now, books>>

Today == now \div DAY

FitsAnything(n) == TRUE
Fits(n) == n <= I128Max

AdminCalls(caller) == admin # None /\ caller = admin

\* The call publishes these events, in this order.
Announce(events) == books' = BooksAfter(books, events, usdcToken, None)[Len(events)]

-----------------------------------------------------------------------------
(* Outside the contract.                                                   *)

(* USDC that somebody, the vault among others, sends to this contract. *)
TokensArrive(token, amount) ==
    /\ amount > 0
    /\ Fits(held[token] + amount)
    /\ held' = [held EXCEPT ![token] = @ + amount]
    /\ UNCHANGED <<roles, setup, limits, marks, credits, daily, migration, now, books>>

Tick ==
    /\ now < MaxTime
    /\ now' = now + 1
    /\ UNCHANGED <<roles, setup, limits, marks, credits, payouts, migration, books>>

-----------------------------------------------------------------------------
(* Payments.                                                               *)

\* Publishes nothing: who indexes the contract is told its first admin and vault.
InitSettlement(a, v) ==
    /\ admin = None
    /\ a # v /\ a # Self /\ v # Self
    /\ admin' = a /\ vault' = v
    /\ pool' = 0 /\ totalReceived' = 0
    /\ books' = [books EXCEPT !.admin = a, !.vault = v]
    /\ UNCHANGED <<pendingAdmin, pendingVault, setup, limits, marks, balance, index,
                   payouts, migration, now>>

OnlyVaultPays(caller) == vault # None /\ caller = vault
AuthorizedPayer(caller) == admin # None /\ caller \in {vault, admin}

\* A claim is new when its sequence is above the stored high-water mark.
NewSinceOrAt(stored, ledger_seq) == ledger_seq >= stored
NewSince(stored, ledger_seq) == ledger_seq > stored

Appended(devs, d) == IF Contains(devs, d) THEN devs ELSE Append(devs, d)
SortedInsert(devs, d) ==
    IF Contains(devs, d) THEN devs
    ELSE InsertAt(devs, Min({i \in DOMAIN devs : d < devs[i]} \cup {Len(devs) + 1}), d)

\* The token is whatever the caller says, and is not looked at.
ReceiveForPool(caller, amount, token, ledger_seq) ==
    /\ AuthorizedPayer(caller)
    /\ amount > 0
    /\ NewSince(poolMark, ledger_seq)
    /\ Fits(pool + amount)
    /\ poolMark' = ledger_seq
    /\ pool' = pool + amount
    /\ Announce(<<PaymentReceivedEvent(caller, amount, TRUE, None, token)>>)
    /\ UNCHANGED <<roles, setup, limits, mark, totalReceived, balance, index, payouts,
                   migration, now>>

ReceiveForDeveloper(caller, amount, dev, token, ledger_seq) ==
    /\ AuthorizedPayer(caller)
    /\ amount > 0
    /\ NewSince(mark[dev], ledger_seq)
    /\ Fits(balance[dev][token] + amount)
    /\ mark' = [mark EXCEPT ![dev] = ledger_seq]
    /\ balance' = [balance EXCEPT ![dev][token] = @ + amount]
    /\ index' = SortedInsert(index, dev)
    /\ Announce(<<PaymentReceivedEvent(caller, amount, FALSE, dev, token),
                  BalanceCreditedEvent(dev, amount, balance'[dev][token], token)>>)
    /\ UNCHANGED <<roles, setup, limits, poolMark, pool, totalReceived, payouts,
                   migration, now>>

BatchItems == UNION {[1..n -> [developer : Devs, amount : Amounts]] : n \in 0..MaxItems}

DistinctDevelopers(items) ==
    \A i, j \in DOMAIN items : items[i].developer = items[j].developer => i = j

\* The balances and the index after each item.
CreditsAfter(items, token) ==
    LET after[i \in 0..Len(items)] ==
          IF i = 0 THEN [balance |-> balance, index |-> index]
          ELSE [balance |-> [after[i - 1].balance EXCEPT
                               ![items[i].developer][token] = @ + items[i].amount],
                index   |-> SortedInsert(after[i - 1].index, items[i].developer)]
    IN  after

\* A batch announces its credits only: no payment_received.
BatchCreditsInTotal(items, token) ==
    <<BalanceCreditedEvent(Last(items).developer, FoldLeft(LAMBDA sum, it : sum + it.amount, 0, items),
                           balance'[Last(items).developer][token], token)>>
BatchCredits(items, token) ==
    LET after == CreditsAfter(items, token)
    IN  [i \in DOMAIN items |-> BalanceCreditedEvent(items[i].developer, items[i].amount,
                                                     after[i].balance[items[i].developer][token],
                                                     token)]

\* The guard raises each item's mark as it checks it, so that a developer named
\* twice is a replay within the batch and fails it.
BatchReceive(caller, items, token, ledger_seq) ==
    LET after == CreditsAfter(items, token) IN
    /\ AuthorizedPayer(caller)
    /\ Len(items) > 0 /\ Len(items) <= MAX_BATCH_SIZE
    /\ DistinctDevelopers(items)
    /\ \A i \in DOMAIN items :
         /\ items[i].amount > 0
         /\ NewSince(mark[items[i].developer], ledger_seq)
         /\ Fits(after[i].balance[items[i].developer][token])
    /\ mark' = [d \in Devs |-> IF \E i \in DOMAIN items : items[i].developer = d
                              THEN ledger_seq ELSE mark[d]]
    /\ balance' = after[Len(items)].balance
    /\ index' = after[Len(items)].index
    /\ Announce(BatchCredits(items, token))
    /\ UNCHANGED <<roles, setup, limits, poolMark, pool, totalReceived, payouts,
                   migration, now>>

\* No token moves.
ForceCredit(caller, dev, amount, token) ==
    /\ AdminCalls(caller)
    /\ amount > 0
    /\ Fits(balance[dev][token] + amount)
    /\ balance' = [balance EXCEPT ![dev][token] = @ + amount]
    /\ index' = SortedInsert(index, dev)
    /\ Announce(<<DeveloperForceCreditedEvent(dev, amount, balance'[dev][token], token)>>)
    /\ UNCHANGED <<roles, setup, limits, marks, pool, totalReceived, payouts, migration, now>>

-----------------------------------------------------------------------------
(* Withdrawals.  A purse is what a withdrawal reads and writes, so that a  *)
(* batch can pass it from item to item.                                    *)

Purse == [balance |-> balance, daily |-> daily, held |-> held]

WindowOpen(dev) ==
    claimWindow[dev] # None =>
        now >= claimWindow[dev].start_ts /\ now <= claimWindow[dev].end_ts

\* What the developer has withdrawn today: a record of another day counts for nothing.
StaleWithdrawnToday(p, dev) == p.daily[dev].amount
WithdrawnToday(p, dev) == IF p.daily[dev].day = Today THEN p.daily[dev].amount ELSE 0

WithinCapPerCall(p, dev, amount) == dailyCap[dev] > 0 => amount <= dailyCap[dev]
WithinCap(p, dev, amount) ==
    dailyCap[dev] > 0 => WithdrawnToday(p, dev) + amount <= dailyCap[dev]

KeepsMinimumBefore(p, dev, amount) ==
    minBalance[dev] > 0 => p.balance[dev][usdcToken] >= minBalance[dev]
KeepsMinimum(p, dev, amount) ==
    minBalance[dev] > 0 => p.balance[dev][usdcToken] - amount >= minBalance[dev]

Payable(p, w) ==
    /\ w.amount > 0
    /\ WindowOpen(w.developer)
    /\ usdcToken # None
    /\ KeepsMinimum(p, w.developer, w.amount)
    /\ w.amount <= p.balance[w.developer][usdcToken]
    /\ WithinCap(p, w.developer, w.amount)
    /\ p.held[usdcToken] >= w.amount

GetWithdrawalToday(dev) == WithdrawnToday(Purse, dev)

\* saturating_add keeps the day's total in the i128 range.
Saturated(n) == IF n > I128Max THEN I128Max ELSE n

PaidWithoutDebit(p, w) ==
    [balance |-> p.balance,
     daily   |-> [p.daily EXCEPT ![w.developer] =
                    [day |-> Today, amount |-> Saturated(WithdrawnToday(p, w.developer) + w.amount)]],
     held    |-> [p.held EXCEPT ![usdcToken] = @ - w.amount]]
Paid(p, w) ==
    [balance |-> [p.balance EXCEPT ![w.developer][usdcToken] = @ - w.amount],
     daily   |-> [p.daily EXCEPT ![w.developer] =
                    [day |-> Today, amount |-> Saturated(WithdrawnToday(p, w.developer) + w.amount)]],
     held    |-> [p.held EXCEPT ![usdcToken] = @ - w.amount]]

Spend(purse) ==
    /\ balance' = purse.balance
    /\ daily' = purse.daily
    /\ held' = purse.held
    /\ UNCHANGED <<roles, setup, limits, marks, pool, totalReceived, index, migration, now>>

\* Of the recipient only this matters: is it the contract itself?
Withdrawals == [developer : Devs, amount : Amounts, toSelf : BOOLEAN]

\* The one failure of a withdrawal that is a panic and not an Err.
Panics(w) == w.amount > 0 /\ w.toSelf

WithdrawEvent(purse, w) ==
    DeveloperWithdrawEvent(w.developer, w.amount, purse.balance[w.developer][usdcToken], usdcToken)

Withdraw(w) ==
    /\ ~Panics(w)
    /\ Payable(Purse, w)
    /\ Spend(Paid(Purse, w))
    /\ Announce(<<WithdrawEvent(Paid(Purse, w), w)>>)

\* The purse after each item: the items that fail are skipped.
PursesAfter(items) ==
    LET after[i \in 0..Len(items)] ==
          IF i = 0 THEN Purse
          ELSE IF Payable(after[i - 1], items[i]) THEN Paid(after[i - 1], items[i])
          ELSE after[i - 1]
    IN  after

\* What batch_settle answers for each item; why an item failed is left out.
SettleOutcomes(items) ==
    LET after == PursesAfter(items)
    IN  [i \in DOMAIN items |-> IF Payable(after[i - 1], items[i]) THEN "Success" ELSE "Error"]

\* The events of a batch: one for each item that was paid, in order.
AnnouncesEvenFailed(items) ==
    LET after == PursesAfter(items)
    IN  IF usdcToken = None THEN <<>>
        ELSE [i \in DOMAIN items |-> WithdrawEvent(after[i], items[i])]
EventsAfter(items) ==
    LET after == PursesAfter(items)
        events[i \in 0..Len(items)] ==
            IF i = 0 THEN <<>>
            ELSE IF SettleOutcomes(items)[i] = "Success"
            THEN Append(events[i - 1], WithdrawEvent(after[i], items[i]))
            ELSE events[i - 1]
    IN  events
BatchWithdrawals(items) == EventsAfter(items)[Len(items)]

\* A panic reverts the items already paid.
BatchSettle(items) ==
    /\ Len(items) <= MAX_SETTLEMENTS
    /\ \A i \in DOMAIN items : ~Panics(items[i])
    /\ Spend(PursesAfter(items)[Len(items)])
    /\ Announce(BatchWithdrawals(items))

-----------------------------------------------------------------------------
(* The admin's configuration of one developer.                             *)

DeveloperClaimWindow(start, end) == [start_ts |-> start, end_ts |-> end]

SetClaimWindow(caller, dev, start, end) ==
    /\ AdminCalls(caller)
    /\ end >= start
    /\ claimWindow' = [claimWindow EXCEPT ![dev] = DeveloperClaimWindow(start, end)]
    /\ Announce(<<DeveloperClaimWindowChanged(dev, start, end, TRUE)>>)
    /\ UNCHANGED <<roles, setup, dailyCap, minBalance, marks, credits, payouts, migration, now>>

ClearClaimWindow(caller, dev) ==
    /\ AdminCalls(caller)
    /\ claimWindow' = [claimWindow EXCEPT ![dev] = None]
    /\ Announce(<<DeveloperClaimWindowChanged(dev, 0, 0, FALSE)>>)
    /\ UNCHANGED <<roles, setup, dailyCap, minBalance, marks, credits, payouts, migration, now>>

\* Any i128: zero and below mean no cap.
SetDailyCap(caller, dev, cap) ==
    /\ AdminCalls(caller)
    /\ dailyCap' = [dailyCap EXCEPT ![dev] = cap]
    /\ Announce(<<DailyWithdrawCapChanged(dev, cap)>>)
    /\ UNCHANGED <<roles, setup, minBalance, claimWindow, marks, credits, payouts, migration, now>>

SetMinBalance(caller, dev, min) ==
    /\ AdminCalls(caller)
    /\ min >= 0
    /\ minBalance' = [minBalance EXCEPT ![dev] = min]
    /\ Announce(<<MinBalanceChanged(dev, min)>>)
    /\ UNCHANGED <<roles, setup, dailyCap, claimWindow, marks, credits, payouts, migration, now>>

-----------------------------------------------------------------------------
(* Balance migrations.                                                     *)

\* Snapshots the balance, not the token it is in.
PendingDeveloperMigration(from, to) ==
    [to |-> to, amount |-> balance[from][usdcToken], proposed_at |-> now,
     execute_after |-> now + DEVELOPER_MIGRATION_TIMELOCK_SECONDS]

ProposeMigration(caller, from, to) ==
    /\ AdminCalls(caller)
    /\ from # to /\ to # Self
    /\ usdcToken # None
    /\ balance[from][usdcToken] \in 1..I128Max
    /\ now + DEVELOPER_MIGRATION_TIMELOCK_SECONDS <= MaxTime
    /\ migration' = [migration EXCEPT ![from] = PendingDeveloperMigration(from, to)]
    /\ Announce(<<PendingMigrationEvent(from, migration'[from])>>)
    /\ UNCHANGED <<roles, setup, limits, marks, credits, payouts, now>>

MaturedEarly(from) == now + 1 >= migration[from].execute_after
Matured(from) == now >= migration[from].execute_after

ExecuteMigration(caller, from) ==
    LET m == migration[from] IN
    /\ AdminCalls(caller)
    /\ m # None
    /\ Matured(from)
    /\ usdcToken # None
    /\ balance[from][usdcToken] - m.amount >= 0
    /\ Fits(balance[m.to][usdcToken] + m.amount)
    /\ balance' = [balance EXCEPT ![from][usdcToken] = @ - m.amount,
                                  ![m.to][usdcToken] = @ + m.amount]
    /\ index' = SortedInsert(index, m.to)
    /\ migration' = [migration EXCEPT ![from] = None]
    /\ Announce(<<AdminMigrationEvent(from, m.to, m.amount)>>)
    /\ UNCHANGED <<roles, setup, limits, marks, pool, totalReceived, payouts, now>>

-----------------------------------------------------------------------------
(* Roles and setup.                                                        *)

\* Publishes nothing.
SetUsdcToken(caller, token) ==
    /\ AdminCalls(caller)
    /\ token # Self
    /\ usdcToken' = token
    /\ UNCHANGED <<roles, contractVersion, limits, marks, credits, payouts, migration, now, books>>

Upgrade(caller, hash) ==
    /\ AdminCalls(caller)
    /\ contractVersion' = hash
    /\ Announce(<<AdminEvent(Topics.upgraded, hash)>>)
    /\ UNCHANGED <<roles, usdcToken, limits, marks, credits, payouts, migration, now>>

\* An event only.
Broadcast(caller) ==
    /\ AdminCalls(caller)
    /\ Announce(<<AdminEvent(Topics.broadcast, caller)>>)
    /\ UNCHANGED <<roles, setup, limits, marks, credits, payouts, migration, now>>

rest == <<setup, limits, marks, credits, payouts, migration, now>>

SetAdmin(caller, nominee) ==
    /\ AdminCalls(caller)
    /\ pendingAdmin' = nominee
    /\ Announce(<<AdminEvent(Topics.adminNominated, nominee)>>)
    /\ UNCHANGED <<admin, vault, pendingVault, rest>>

AcceptAdmin ==
    /\ pendingAdmin # None
    /\ admin' = pendingAdmin
    /\ Announce(<<AdminEvent(Topics.adminAccepted, pendingAdmin)>>)
    /\ pendingAdmin' = None
    /\ UNCHANGED <<vault, pendingVault, rest>>

CancelAdminTransfer(caller) ==
    /\ AdminCalls(caller)
    /\ pendingAdmin # None
    /\ pendingAdmin' = None
    /\ Announce(<<AdminEvent(Topics.adminCancelled, caller)>>)
    /\ UNCHANGED <<admin, vault, pendingVault, rest>>

ProposeVaultAtOnce(caller, v) ==
    /\ AdminCalls(caller)
    /\ v # Self
    /\ vault' = v
    /\ Announce(<<VaultProposedEvent(vault, v)>>)
    /\ UNCHANGED <<admin, pendingAdmin, pendingVault, rest>>
ProposeVault(caller, v) ==
    /\ AdminCalls(caller)
    /\ v # Self
    /\ pendingVault' = v
    /\ Announce(<<VaultProposedEvent(vault, v)>>)
    /\ UNCHANGED <<admin, pendingAdmin, vault, rest>>

\* The admin may accept on the proposed vault's behalf.
AcceptVault(caller) ==
    /\ pendingVault # None
    /\ caller \in {pendingVault, admin}
    /\ vault' = pendingVault
    /\ pendingVault' = None
    /\ Announce(<<VaultAcceptedEvent(vault, pendingVault, caller)>>)
    /\ UNCHANGED <<admin, pendingAdmin, rest>>

-----------------------------------------------------------------------------
(* The views of one developer and of the contract, as anybody reads them.  *)

GetDeveloperBalance(dev, token) == balance[dev][token]
GetDeveloperMinBalance(dev) == minBalance[dev]
GetDailyWithdrawCap(dev) == dailyCap[dev]
GetDeveloperClaimWindow(dev) == claimWindow[dev]
GetBalanceMigration(dev) == migration[dev]

\* Before init these three fail, and nobody has a role to be told of.
GetAdmin == admin
GetVault == vault
GetGlobalPool == pool

-----------------------------------------------------------------------------
Init ==
    /\ admin = None /\ pendingAdmin = None /\ vault = None /\ pendingVault = None
    /\ usdcToken = None /\ contractVersion = None
    /\ pool = 0 /\ totalReceived = 0
    /\ balance = [d \in Devs |-> [t \in Tokens |-> 0]]
    /\ index = <<>>
    /\ poolMark = 0 /\ mark = [d \in Devs |-> 0]
    /\ dailyCap = [d \in Devs |-> 0] /\ minBalance = [d \in Devs |-> 0]
    /\ claimWindow = [d \in Devs |-> None]
    /\ daily = [d \in Devs |-> [day |-> 0, amount |-> 0]]
    /\ migration = [d \in Devs |-> None]
    /\ held \in Genesis
    /\ now = 0
    /\ books = EmptyBooks(Devs, Tokens, None)

SetupStep ==
    \/ \E a, v \in Principals \cup {Self} : InitSettlement(a, v)
    \/ \E c \in Principals :
         \/ \E t \in Tokens \cup {Self} : SetUsdcToken(c, t)
         \/ \E hash \in Hashes : Upgrade(c, hash)
         \/ \E p \in Nominees : SetAdmin(c, p)
         \/ \E v \in Nominees : ProposeVault(c, v)
         \/ CancelAdminTransfer(c)
         \/ Broadcast(c)
         \/ AcceptVault(c)
    \/ AcceptAdmin

LimitStep ==
    \E c \in Principals, d \in Devs :
        \/ \E s, e \in WindowBounds : SetClaimWindow(c, d, s, e)
        \/ ClearClaimWindow(c, d)
        \/ \E n \in CapValues : SetDailyCap(c, d, n)
        \/ \E n \in MinValues : SetMinBalance(c, d, n)

ForceCreditStep ==
    \E c \in Principals, d \in Devs, n \in Amounts, t \in Tokens : ForceCredit(c, d, n, t)

PoolStep ==
    \E c \in Principals, n \in Amounts, t \in Tokens, seq \in LedgerSeqs :
        ReceiveForPool(c, n, t, seq)

ProposalStep == \E c \in Principals, from \in Devs, to \in Devs \cup {Self} : ProposeMigration(c, from, to)
ExecutionStep == \E c \in Principals, from \in Devs : ExecuteMigration(c, from)

OutsideStep == (\E t \in Tokens, n \in Amounts : TokensArrive(t, n)) \/ Tick

\* The calls that SettlementHistory keeps a record of.
PaymentStep ==
    \/ \E c \in Principals, n \in Amounts, d \in Devs, t \in Tokens, seq \in LedgerSeqs :
         ReceiveForDeveloper(c, n, d, t, seq)
    \/ \E c \in Principals, items \in BatchItems, t \in Tokens, seq \in LedgerSeqs :
         BatchReceive(c, items, t, seq)

SettleLists == UNION {[1..n -> Withdrawals] : n \in 0..MaxItems}

PayoutStep ==
    \/ \E w \in Withdrawals : Withdraw(w)
    \/ \E items \in SettleLists : BatchSettle(items)

Next ==
    \/ SetupStep \/ LimitStep \/ PoolStep \/ ForceCreditStep \/ PaymentStep
    \/ PayoutStep \/ ProposalStep \/ ExecutionStep \/ OutsideStep

Spec == Init /\ [][Next]_vars
=============================================================================
