----------------------------- MODULE ClientProofs -----------------------------
(***************************************************************************)
(* What is proved of the clients of the settlement contract.               *)
(*                                                                         *)
(* Two walk through the developer index while payments, withdrawals and    *)
(* migrations of developers go on: the operator's storage migration, and   *)
(* the reconciliation job.  Every call of the contract that goes on        *)
(* meanwhile leaves the difference of what the events say is owed and what *)
(* the balances hold as it is, and at most inserts developers into the     *)
(* index, which moves the others further back and in their order.  The     *)
(* loop of the migration relies on the first and on nobody moving to the   *)
(* front, the job on their order.                                          *)
(*                                                                         *)
(* The third is the backend that collects from the vault and claims at the *)
(* settlement contract.  Its books and those of the contracts agree, since *)
(* a claim is above its payee's mark for as long as it is not credited.    *)
(***************************************************************************)
EXTENDS SettlementWalks, Billing, SettlementMoneyProofs
-----------------------------------------------------------------------------
(* How the index grows.                                                    *)

\* Everybody in s is in r, no further to the front, in the same order.
Grown(s, r) ==
    /\ Len(s) <= Len(r) /\ (Len(s) = Len(r) => s = r)
    /\ \A i \in DOMAIN s : \E k \in DOMAIN r : r[k] = s[i] /\ i <= k
    /\ \A i, j \in DOMAIN s, k, l \in DOMAIN r :
         r[k] = s[i] /\ r[l] = s[j] => (i <= j <=> k <= l)

Listing(s) == s \in Seq(Devs) /\ IsInjective(s)

\* A list that nobody joins has not grown.
LEMMA GrownSelf == ASSUME NEW s, Listing(s) PROVE Grown(s, s)
<1>1. Len(s) \in Nat /\ DOMAIN s = 1..Len(s)
  BY DEF Listing
<1>2. ASSUME NEW i \in DOMAIN s, NEW j \in DOMAIN s, NEW k \in DOMAIN s, NEW l \in DOMAIN s,
             s[k] = s[i], s[l] = s[j]
      PROVE  i <= j <=> k <= l
  <2>1. k = i /\ l = j
    BY <1>2 DEF Listing, IsInjective
  <2> QED BY <2>1
<1> QED BY <1>1, <1>2 DEF Grown

\* Growth adds up.
LEMMA GrownTwice ==
    ASSUME NEW s, NEW r, NEW q, Listing(s), Listing(r), Listing(q), Grown(s, r), Grown(r, q)
    PROVE  Grown(s, q)
<1>1. /\ Len(s) \in Nat /\ DOMAIN s = 1..Len(s) /\ Len(r) \in Nat /\ DOMAIN r = 1..Len(r)
      /\ Len(q) \in Nat /\ DOMAIN q = 1..Len(q)
  BY DEF Listing
<1>2. Len(s) <= Len(q) /\ (Len(s) = Len(q) => s = q)
  <2> DEFINE a == Len(s)
             b == Len(r)
             c == Len(q)
  <2>1. /\ a \in Nat /\ b \in Nat /\ c \in Nat /\ a <= b /\ b <= c
        /\ (a = b => s = r) /\ (b = c => r = q)
    BY <1>1 DEF Grown
  <2> HIDE DEF a, b, c
  <2>2. a <= c /\ (a = c => s = q)
    BY ONLY <2>1
  <2> QED BY <2>2 DEF a, c
<1>3. ASSUME NEW i \in DOMAIN s PROVE \E k \in DOMAIN q : q[k] = s[i] /\ i <= k
  <2>1. PICK m \in DOMAIN r : r[m] = s[i] /\ i <= m
    BY DEF Grown
  <2>2. PICK k \in DOMAIN q : q[k] = r[m] /\ m <= k
    BY DEF Grown
  <2> QED BY <1>1, <2>1, <2>2
<1>4. ASSUME NEW i \in DOMAIN s, NEW j \in DOMAIN s, NEW k \in DOMAIN q, NEW l \in DOMAIN q,
             q[k] = s[i], q[l] = s[j]
      PROVE  i <= j <=> k <= l
  <2>1. PICK m \in DOMAIN r : r[m] = s[i]
    BY DEF Grown
  <2>2. PICK n \in DOMAIN r : r[n] = s[j]
    BY DEF Grown
  <2>3. i <= j <=> m <= n
    BY <2>1, <2>2 DEF Grown
  <2>4. q[k] = r[m] /\ q[l] = r[n]
    BY <1>4, <2>1, <2>2
  <2>5. m <= n <=> k <= l
    BY <2>4 DEF Grown
  <2> QED BY <2>3, <2>5
<1> QED BY <1>2, <1>3, <1>4 DEF Grown

\* Inserting a developer lists nobody twice and moves nobody to the front, in whichever
\* order the list is.
LEMMA InsertGrows ==
    ASSUME NEW s, Listing(s), NEW d \in Devs
    PROVE  Listing(SortedInsert(s, d)) /\ Grown(s, SortedInsert(s, d))
<1>1. CASE Contains(s, d)
  BY <1>1, GrownSelf DEF SortedInsert
<1>2. CASE ~Contains(s, d)
  <2> DEFINE places == {i \in DOMAIN s : d < s[i]} \cup {Len(s) + 1}
             p == Min(places)
             r == SortedInsert(s, d)
  <2>1. s \in Seq(Devs) /\ Len(s) \in Nat /\ DOMAIN s = 1..Len(s)
    BY DEF Listing
  <2>2. /\ \A i \in 1..Len(s) : s[i] \in Devs /\ s[i] # d
        /\ \A i, j \in 1..Len(s) : s[i] = s[j] => i = j
    BY <1>2, <2>1 DEF Contains, Listing, IsInjective
  <2>3. r = InsertAt(s, p, d)
    BY <1>2 DEF SortedInsert
  <2>4. p \in 1..Len(s) + 1
    <3>1. places \in SUBSET Nat /\ places # {}
      BY <2>1
    <3>2. p \in places
      BY <3>1, NatMin
    <3> QED BY <2>1, <3>2
  <2> HIDE DEF p, r
  <2>5. /\ r \in Seq(Devs) /\ Len(r) = Len(s) + 1
        /\ \A k \in 1..Len(s) + 1 :
             r[k] = IF k < p THEN s[k] ELSE IF k = p THEN d ELSE s[k - 1]
    <3>1. /\ InsertAt(s, p, d) \in Seq(Devs) /\ Len(InsertAt(s, p, d)) = Len(s) + 1
          /\ \A k \in 1..Len(s) + 1 :
               InsertAt(s, p, d)[k] = IF k < p THEN s[k] ELSE IF k = p THEN d ELSE s[k - 1]
      BY <2>1, <2>4, InsertedAt
    <3> QED BY <2>3, <3>1
  <2>6. DOMAIN r = 1..Len(s) + 1
    BY <2>5
  <2>7. ASSUME NEW k \in 1..Len(s) + 1, NEW l \in 1..Len(s) + 1, r[k] = r[l] PROVE k = l
    <3>1. CASE k = p \/ l = p
      BY <2>1, <2>2, <2>4, <2>5, <2>7, <3>1
    <3>2. CASE k # p /\ l # p
      BY <2>1, <2>2, <2>4, <2>5, <2>7, <3>2
    <3> QED BY <3>1, <3>2
  <2>8. Listing(r)
    BY <2>5, <2>6, <2>7 DEF Listing, IsInjective
  <2>9. ASSUME NEW i \in 1..Len(s)
        PROVE  /\ i \in 1..Len(s) + 1 /\ i + 1 \in 1..Len(s) + 1
               /\ i < p => r[i] = s[i]
               /\ i >= p => r[i + 1] = s[i]
    BY <2>1, <2>4, <2>5
  <2>10. ASSUME NEW i \in 1..Len(s), NEW k \in 1..Len(s) + 1, r[k] = s[i]
         PROVE  IF i < p THEN k = i ELSE k = i + 1
    BY <2>1, <2>4, <2>7, <2>9, <2>10
  <2>11. \A i \in DOMAIN s : \E k \in DOMAIN r : r[k] = s[i] /\ i <= k
    BY <2>1, <2>4, <2>6, <2>9
  <2>12. \A i, j \in DOMAIN s, k, l \in DOMAIN r :
            r[k] = s[i] /\ r[l] = s[j] => (i <= j <=> k <= l)
    <3> SUFFICES ASSUME NEW i \in 1..Len(s), NEW j \in 1..Len(s),
                        NEW k \in 1..Len(s) + 1, NEW l \in 1..Len(s) + 1,
                        r[k] = s[i], r[l] = s[j]
                 PROVE  i <= j <=> k <= l
      BY <2>1, <2>6
    <3>1. (IF i < p THEN k = i ELSE k = i + 1) /\ (IF j < p THEN l = j ELSE l = j + 1)
      BY <2>10
    <3> QED BY <2>1, <2>4, <3>1
  <2>13. Grown(s, r)
    <3> DEFINE m == Len(s)
               n == Len(r)
    <3>0. m \in Nat /\ n = m + 1
      BY <2>1, <2>5
    <3> HIDE DEF m, n
    <3>1. m <= n /\ m # n
      BY ONLY <3>0
    <3> QED BY <2>11, <2>12, <3>1 DEF Grown, m, n
  <2> QED BY <2>8, <2>13 DEF r
<1> QED BY <1>1, <1>2

-----------------------------------------------------------------------------
(* What the events say is owed.                                            *)

Ledgers == [Devs -> [Tokens -> Int]]
Owing(b) == "owed" \in DOMAIN b /\ b.owed \in Ledgers

\* The event of a credit, a payout and a migration change what is owed by their amount.
LEMMA HearsRaise ==
    ASSUME NEW b, Owing(b), NEW d \in Devs, NEW t \in Tokens, NEW n \in Int, NEW m, NEW token,
           NEW e, e \in {BalanceCreditedEvent(d, n, m, t), DeveloperForceCreditedEvent(d, n, m, t)}
    PROVE  Owing(Heard(b, e, token, None)) /\ Heard(b, e, token, None).owed = Raised(b.owed, d, t, n)
<1> DEFINE h == Heard(b, e, token, None)
<1>1. e.developer = d /\ e.amount = n /\ e.token = t /\ h = Credited(b, e)
  BY DEF Heard, BalanceCreditedEvent, DeveloperForceCreditedEvent, Topics
<1> HIDE DEF h
<1>2. "owed" \in DOMAIN h /\ h.owed = [b.owed EXCEPT ![d][t] = b.owed[d][t] + n]
  BY <1>1 DEF Credited, Owing
<1>3. h.owed = Raised(b.owed, d, t, n) /\ h.owed \in Ledgers
  BY <1>2 DEF Raised, Owing, Ledgers
<1> QED BY <1>2, <1>3 DEF h, Owing

\* The event of a payout lowers what is owed.
LEMMA HearsLower ==
    ASSUME NEW b, Owing(b), NEW d \in Devs, NEW t \in Tokens, NEW n \in Int, NEW m, NEW token
    PROVE  /\ Owing(Heard(b, DeveloperWithdrawEvent(d, n, m, t), token, None))
           /\ Heard(b, DeveloperWithdrawEvent(d, n, m, t), token, None).owed = Lowered(b.owed, d, t, n)
<1> DEFINE e == DeveloperWithdrawEvent(d, n, m, t)
           h == Heard(b, e, token, None)
<1>1. h = [b EXCEPT !.owed[d][t] = b.owed[d][t] - n,
                    !.consistent = @ /\ b.owed[d][t] - n = m]
  BY DEF Heard, DeveloperWithdrawEvent, Topics
<1> HIDE DEF h
<1>2. "owed" \in DOMAIN h /\ h.owed = [b.owed EXCEPT ![d][t] = b.owed[d][t] - n]
  BY <1>1 DEF Owing
<1>3. h.owed = Lowered(b.owed, d, t, n) /\ h.owed \in Ledgers
  BY <1>2 DEF Lowered, Owing, Ledgers
<1> QED BY <1>2, <1>3 DEF h, Owing

\* The event of a migration moves it.
LEMMA HearsMove ==
    ASSUME NEW b, Owing(b), NEW from \in Devs, NEW to \in Devs, from # to, NEW n \in Int,
           NEW token \in Tokens
    PROVE  /\ Owing(Heard(b, AdminMigrationEvent(from, to, n), token, None))
           /\ Heard(b, AdminMigrationEvent(from, to, n), token, None).owed
                = Moved(b.owed, from, to, n, token)
<1> DEFINE e == AdminMigrationEvent(from, to, n)
           h == Heard(b, e, token, None)
<1>1. /\ e.from = from /\ e.to = to /\ e.amount = n
      /\ h = [b EXCEPT !.owed[e.from][token] = @ - e.amount, !.owed[e.to][token] = @ + e.amount,
                       !.known = @ \cup {e.to}, !.proposals[e.from] = None]
  BY DEF Heard, AdminMigrationEvent, Topics
<1> HIDE DEF e
<1>2. h = [b EXCEPT !.owed[from][token] = @ - n, !.owed[to][token] = @ + n,
                    !.known = @ \cup {to}, !.proposals[from] = None]
  BY <1>1
<1> HIDE DEF h
<1>3. "owed" \in DOMAIN h /\ h.owed = [b.owed EXCEPT ![from][token] = @ - n, ![to][token] = @ + n]
  BY <1>2 DEF Owing
<1>4. h.owed = Moved(b.owed, from, to, n, token)
  BY <1>3 DEF Moved
<1>5. h.owed \in Ledgers
  <2> DEFINE o == b.owed
             q == h.owed
  <2>1. o \in [Devs -> [Tokens -> Int]] /\ q = [o EXCEPT ![from][token] = @ - n, ![to][token] = @ + n]
    BY <1>3 DEF Owing, Ledgers
  <2> HIDE DEF o, q
  <2>2. q = [d \in Devs |-> IF d = from THEN [o[d] EXCEPT ![token] = @ - n]
                            ELSE IF d = to THEN [o[d] EXCEPT ![token] = @ + n] ELSE o[d]]
    BY <2>1
  <2>3. ASSUME NEW d \in Devs PROVE q[d] \in [Tokens -> Int]
    <3>1. /\ o[d] \in [Tokens -> Int]
          /\ [o[d] EXCEPT ![token] = @ - n] \in [Tokens -> Int]
          /\ [o[d] EXCEPT ![token] = @ + n] \in [Tokens -> Int]
      BY <2>1
    <3> QED BY <2>2, <3>1
  <2> QED BY <2>2, <2>3 DEF q, Ledgers
<1> QED BY <1>3, <1>4, <1>5 DEF h, e, Owing

\* The other events leave it alone.
LEMMA HearsNothing ==
    ASSUME NEW b, Owing(b), NEW e, NEW token,
           e.topic \in {Topics[x] : x \in {"paymentReceived", "migrationProposed", "vaultProposed",
                          "vaultAccepted", "adminNominated", "adminAccepted", "adminCancelled",
                          "upgraded", "broadcast"}}
    PROVE  Owing(Heard(b, e, token, None)) /\ Heard(b, e, token, None).owed = b.owed
<1> DEFINE h == Heard(b, e, token, None)
<1>1. e.topic \in {"payment_received", "admin_migration_proposed", "vault_proposed", "vault_accepted",
                   "admin_nominated", "admin_accepted", "admin_cancelled", "upgraded",
                   "admin_broadcast"}
  BY DEF Topics
<1>2. \/ \E x : h \in {b, [b EXCEPT !.pool = x], [b EXCEPT !.proposals = x],
                       [b EXCEPT !.proposedVault = x], [b EXCEPT !.nominee = x],
                       [b EXCEPT !.version = x]}
      \/ \E x, y : h \in {[b EXCEPT !.vault = x, !.proposedVault = y],
                          [b EXCEPT !.admin = x, !.nominee = y]}
  BY <1>1 DEF Heard, Topics
<1> HIDE DEF h
<1> QED BY <1>2 DEF h, Owing

-----------------------------------------------------------------------------
(* The calls of the contract that go on during a walk.                     *)

Kept ==
    /\ RolesTyped /\ PursesTyped /\ MigrationsTyped /\ TimeTyped
    /\ Listing(index) /\ Owing(books)

\* What the events say is owed, and is not in the balances.
Gap(owed, bal) == [d \in Devs |-> [t \in Tokens |-> owed[d][t] - bal[d][t]]]

\* Such a call at most adds to the index, and leaves the gap as it is.
Neutral ==
    /\ Kept' /\ Grown(index, index')
    /\ Gap(books.owed, balance)' = Gap(books.owed, balance)

\* Balances are ledgers.
LEMMA BalancesAreLedgers == ASSUME NEW b \in Balances PROVE b \in Ledgers
BY BoundAssumption DEF Balances, Ledgers

\* The same credit or payout on both sides leaves the gap alone.
LEMMA GapStays ==
    ASSUME NEW o \in Ledgers, NEW b \in Ledgers, NEW d \in Devs, NEW t \in Tokens, NEW n \in Int
    PROVE  /\ Gap(Raised(o, d, t, n), Raised(b, d, t, n)) = Gap(o, b)
           /\ Gap(Lowered(o, d, t, n), Lowered(b, d, t, n)) = Gap(o, b)
<1>1. ASSUME NEW x \in Ledgers
      PROVE  \A e \in Devs, u \in Tokens :
               /\ Raised(x, d, t, n)[e][u] = IF e = d /\ u = t THEN x[e][u] + n ELSE x[e][u]
               /\ Lowered(x, d, t, n)[e][u] = IF e = d /\ u = t THEN x[e][u] - n ELSE x[e][u]
               /\ x[e][u] \in Int
  BY DEF Raised, Lowered, Ledgers
<1>2. ASSUME NEW e \in Devs, NEW u \in Tokens
      PROVE  /\ Raised(o, d, t, n)[e][u] - Raised(b, d, t, n)[e][u] = o[e][u] - b[e][u]
             /\ Lowered(o, d, t, n)[e][u] - Lowered(b, d, t, n)[e][u] = o[e][u] - b[e][u]
  BY <1>1
<1> QED BY <1>2 DEF Gap

\* So does the same move.
LEMMA GapMoves ==
    ASSUME NEW o \in Ledgers, NEW b \in Ledgers, NEW d \in Devs, NEW f \in Devs, d # f,
           NEW t \in Tokens, NEW n \in Int
    PROVE  Gap(Moved(o, d, f, n, t), Moved(b, d, f, n, t)) = Gap(o, b)
<1>1. ASSUME NEW x \in Ledgers
      PROVE  \A e \in Devs, u \in Tokens :
               /\ Moved(x, d, f, n, t)[e][u] = IF e = d /\ u = t THEN x[e][u] - n
                                               ELSE IF e = f /\ u = t THEN x[e][u] + n ELSE x[e][u]
               /\ x[e][u] \in Int
  BY DEF Moved, Ledgers
<1>2. ASSUME NEW e \in Devs, NEW u \in Tokens
      PROVE  Moved(o, d, f, n, t)[e][u] - Moved(b, d, f, n, t)[e][u] = o[e][u] - b[e][u]
  BY <1>1
<1> QED BY <1>2 DEF Gap

\* Setting roles says nothing of what is owed.
LEMMA SetupOwes == ASSUME Owing(books), SetupStep PROVE Owing(books') /\ books'.owed = books.owed
<1> DEFINE Same == Owing(books') /\ books'.owed = books.owed
<1>1. ASSUME NEW e, Announce(<<e>>),
             \E x \in {"vaultProposed", "vaultAccepted", "adminNominated", "adminAccepted",
                       "adminCancelled", "upgraded", "broadcast"} : e.topic = Topics[x]
      PROVE  Same
  <2>1. books' = Heard(books, e, usdcToken, None)
    BY <1>1, AnnounceOne
  <2> QED BY <1>1, <2>1, HearsNothing
<1>2. ASSUME NEW a, NEW v, InitSettlement(a, v) PROVE Same
  BY <1>2 DEF InitSettlement, Owing
<1>3. ASSUME NEW c, NEW t, SetUsdcToken(c, t) PROVE Same
  BY <1>3 DEF SetUsdcToken
<1> DEFINE About(e, x) == e.topic = Topics[x]
<1>4. /\ \A h : About(AdminEvent(Topics.upgraded, h), "upgraded")
      /\ \A h : About(AdminEvent(Topics.broadcast, h), "broadcast")
      /\ \A h : About(AdminEvent(Topics.adminNominated, h), "adminNominated")
      /\ \A h : About(AdminEvent(Topics.adminAccepted, h), "adminAccepted")
      /\ \A h : About(AdminEvent(Topics.adminCancelled, h), "adminCancelled")
      /\ \A h, k : About(VaultProposedEvent(h, k), "vaultProposed")
      /\ \A h, k, l : About(VaultAcceptedEvent(h, k, l), "vaultAccepted")
  BY DEF AdminEvent, VaultProposedEvent, VaultAcceptedEvent
<1>5. ASSUME NEW c, NEW hash, Upgrade(c, hash) PROVE Same
  BY <1>1, <1>4, <1>5 DEF Upgrade
<1>6. ASSUME NEW c, NEW n, SetAdmin(c, n) PROVE Same
  BY <1>1, <1>4, <1>6 DEF SetAdmin
<1>7. ASSUME NEW c, NEW v, ProposeVault(c, v) PROVE Same
  BY <1>1, <1>4, <1>7 DEF ProposeVault
<1>8. ASSUME NEW c, CancelAdminTransfer(c) PROVE Same
  BY <1>1, <1>4, <1>8 DEF CancelAdminTransfer
<1>9. ASSUME NEW c, Broadcast(c) PROVE Same
  BY <1>1, <1>4, <1>9 DEF Broadcast
<1>10. ASSUME NEW c, AcceptVault(c) PROVE Same
  BY <1>1, <1>4, <1>10 DEF AcceptVault
<1>11. CASE AcceptAdmin
  BY <1>1, <1>4, <1>11 DEF AcceptAdmin
<1> HIDE DEF Same
<1> QED BY <1>2, <1>3, <1>5, <1>6, <1>7, <1>8, <1>9, <1>10, <1>11 DEF SetupStep, Same

\* Setting roles is neutral.
LEMMA SetupNeutral == ASSUME Kept, SetupStep PROVE Neutral
<1>1. RolesTyped' /\ UNCHANGED <<balance, index, daily, held, migration, now>>
  BY SetupKeepsRoles DEF Kept, payouts
<1>2. Owing(books') /\ books'.owed = books.owed
  BY SetupOwes DEF Kept
<1>3. PursesTyped' /\ MigrationsTyped' /\ TimeTyped' /\ Listing(index')
  BY <1>1 DEF Kept, PursesTyped, MigrationsTyped, TimeTyped
<1> QED BY <1>1, <1>2, <1>3, GrownSelf DEF Neutral, Kept

\* So is proposing a migration.
LEMMA ProposalNeutral == ASSUME Kept, ProposalStep PROVE Neutral
<1>1. PICK c \in Principals, from \in Devs, to \in Devs \cup {Self} : ProposeMigration(c, from, to)
  BY DEF ProposalStep
<1>2. UNCHANGED <<roles, setup, balance, index, payouts, now>>
  BY <1>1 DEF ProposeMigration, credits
<1>3. MigrationsTyped'
  BY ProposalKeeps DEF Kept
<1>4. books' = Heard(books, PendingMigrationEvent(from, migration'[from]), usdcToken, None)
  BY <1>1, AnnounceOne DEF ProposeMigration
<1> DEFINE e == PendingMigrationEvent(from, migration'[from])
<1>5. e.topic = Topics["migrationProposed"]
  BY DEF PendingMigrationEvent
<1> HIDE DEF e
<1>6. Owing(books') /\ books'.owed = books.owed
  BY <1>4, <1>5, HearsNothing DEF Kept, e
<1>7. RolesTyped' /\ PursesTyped' /\ TimeTyped' /\ Listing(index')
  BY <1>2 DEF Kept, roles, setup, payouts, RolesTyped, PursesTyped, TimeTyped
<1> QED BY <1>2, <1>3, <1>6, <1>7, GrownSelf DEF Neutral, Kept

\* So is executing one: the indexer books the same move.
LEMMA ExecutionNeutral == ASSUME Kept, ExecutionStep PROVE Neutral
<1>1. PICK c \in Principals, from \in Devs : ExecuteMigration(c, from)
  BY DEF ExecutionStep
<1> DEFINE to == migration[from].to
           n == migration[from].amount
           u == usdcToken
<1>2. /\ from \in Devs /\ to \in Devs /\ to # from /\ u \in Tokens /\ n \in Int /\ n >= 0
      /\ balance[from][u] - n >= 0 /\ balance[to][u] + n <= I128Max
  <2>1. migration[from] # None /\ u \in Tokens
        /\ balance[from][u] - n >= 0 /\ balance[to][u] + n <= I128Max
    BY <1>1 DEF ExecuteMigration, Kept, RolesTyped, Fits
  <2>2. migration[from] \in Proposals /\ to # from
    BY <2>1 DEF Kept, MigrationsTyped
  <2> QED BY <2>1, <2>2, BoundAssumption DEF Proposals
<1>3. /\ balance' = Moved(balance, from, to, n, u) /\ index' = SortedInsert(index, to)
      /\ migration' = [migration EXCEPT ![from] = None]
      /\ UNCHANGED <<roles, setup, daily, held, now>>
      /\ books' = Heard(books, AdminMigrationEvent(from, to, n), u, None)
  BY <1>1, AnnounceOne DEF ExecuteMigration, Moved, payouts
<1>4. balance \in Balances /\ Owing(books) /\ Listing(index)
  BY DEF Kept, PursesTyped
<1>5. MigrationsTyped'
  BY <1>3 DEF Kept, MigrationsTyped
<1>6. RolesTyped' /\ TimeTyped'
  BY <1>3 DEF Kept, RolesTyped, TimeTyped, roles, setup
<1> HIDE DEF to, n, u
<1>7. balance' \in Balances
  BY <1>2, <1>3, <1>4, MovedBalances
<1>8. Owing(books') /\ books'.owed = Moved(books.owed, from, to, n, u)
  BY <1>2, <1>3, <1>4, HearsMove
<1>9. Gap(books.owed, balance)' = Gap(books.owed, balance)
  BY <1>2, <1>3, <1>4, <1>8, BalancesAreLedgers, GapMoves DEF Owing
<1>10. Listing(index') /\ Grown(index, index')
  BY <1>2, <1>3, <1>4, InsertGrows
<1>11. PursesTyped'
  BY <1>3, <1>7 DEF Kept, PursesTyped
<1> QED BY <1>5, <1>6, <1>8, <1>9, <1>10, <1>11 DEF Neutral, Kept

\* What is left of a step once the credit, or the payout, is known.
LEMMA OnlyCredits ==
    ASSUME Kept, UNCHANGED <<roles, setup, daily, held, migration, now>>,
           balance' \in Balances, Listing(index'), Grown(index, index'), Owing(books'),
           Gap(books.owed, balance)' = Gap(books.owed, balance)
    PROVE  Neutral
<1>1. RolesTyped' /\ TimeTyped' /\ MigrationsTyped' /\ PursesTyped'
  BY DEF Kept, RolesTyped, TimeTyped, MigrationsTyped, PursesTyped, roles, setup
<1> QED BY <1>1 DEF Neutral, Kept

\* One credit, announced by either event, is neutral.
LEMMA CreditNeutral ==
    ASSUME Kept, UNCHANGED <<roles, setup, daily, held, migration, now>>,
           NEW d \in Devs, NEW t \in Tokens, NEW n \in Amounts, n > 0, Fits(balance[d][t] + n),
           balance' = [balance EXCEPT ![d][t] = @ + n], index' = SortedInsert(index, d),
           NEW m, NEW e,
           e \in {BalanceCreditedEvent(d, n, m, t), DeveloperForceCreditedEvent(d, n, m, t)},
           books' = Heard(books, e, usdcToken, None)
    PROVE  Neutral
<1>1. /\ n \in Int /\ n > 0 /\ d \in Devs /\ t \in Tokens /\ Fits(balance[d][t] + n)
      /\ balance \in Balances /\ Owing(books) /\ Listing(index)
      /\ balance \in Ledgers /\ books.owed \in Ledgers
  BY BoundAssumption, BalancesAreLedgers DEF Kept, PursesTyped, Owing
<1>2. balance' = Raised(balance, d, t, n)
  BY DEF Raised
<1>3. balance' \in Balances
  <2>1. Raised(balance, d, t, n) \in Balances
    BY ONLY <1>1, RaisedBalances
  <2> QED BY <1>2, <2>1
<1>4. Owing(books') /\ books'.owed = Raised(books.owed, d, t, n)
  BY <1>1, HearsRaise
<1>5. Gap(books.owed, balance)' = Gap(books.owed, balance)
  <2>1. Gap(Raised(books.owed, d, t, n), Raised(balance, d, t, n)) = Gap(books.owed, balance)
    BY ONLY <1>1, GapStays
  <2> QED BY <1>2, <1>4, <2>1
<1>6. Listing(index') /\ Grown(index, index')
  BY <1>1, InsertGrows
<1> QED BY <1>3, <1>4, <1>5, <1>6, OnlyCredits

\* A batch of credits is, item by item.
LEMMA BatchNeutral ==
    ASSUME Kept, NEW c, NEW items \in BatchItems, NEW token \in Tokens, NEW seq,
           BatchReceive(c, items, token, seq)
    PROVE  Neutral
<1> DEFINE after == CreditsAfter(items, token)
           events == BatchCredits(items, token)
           heard == BooksAfter(books, events, usdcToken, None)
           Good == {n \in Nat : n <= Len(items) =>
                      /\ after[n].balance \in Balances
                      /\ Listing(after[n].index) /\ Grown(index, after[n].index)
                      /\ Owing(heard[n])
                      /\ Gap(heard[n].owed, after[n].balance) = Gap(books.owed, balance)}
<1>1. /\ Len(items) \in Nat /\ DOMAIN items = 1..Len(items)
      /\ \A i \in 1..Len(items) : items[i].developer \in Devs /\ items[i].amount \in Int
  <2>1. PICK n \in 0..MaxItems : items \in [1..n -> [developer : Devs, amount : Amounts]]
    BY DEF BatchItems
  <2>2. n \in Nat /\ Len(items) = n /\ DOMAIN items = 1..n
    BY <2>1, BoundAssumption
  <2> QED BY <2>1, <2>2, BoundAssumption
<1>2. /\ Len(events) = Len(items)
      /\ \A i \in 1..Len(items) :
           events[i] = BalanceCreditedEvent(items[i].developer, items[i].amount,
                                            after[i].balance[items[i].developer][token], token)
  BY <1>1 DEF BatchCredits
<1>3. /\ after[0] = [balance |-> balance, index |-> index]
      /\ \A i \in 1..Len(items) :
           after[i] = [balance |-> [after[i - 1].balance EXCEPT
                                      ![items[i].developer][token] = @ + items[i].amount],
                       index   |-> SortedInsert(after[i - 1].index, items[i].developer)]
  BY <1>1, CreditsFold
<1>4. \A i \in 1..Len(items) :
        items[i].amount > 0 /\ Fits(after[i].balance[items[i].developer][token])
  BY <1>1 DEF BatchReceive
<1> HIDE DEF events
<1>5. /\ heard[0] = books
      /\ \A i \in 1..Len(items) : heard[i] = Heard(heard[i - 1], events[i], usdcToken, None)
  <2>1. Len(events) \in Nat
    BY <1>1, <1>2
  <2> QED BY <1>2, <2>1, BooksFold
<1>6. /\ books' = heard[Len(items)]
      /\ balance' = after[Len(items)].balance /\ index' = after[Len(items)].index
      /\ UNCHANGED <<roles, setup, daily, held, migration, now>>
  BY <1>2 DEF BatchReceive, Announce, events, payouts
<1> HIDE DEF after, heard
<1>7. 0 \in Good
  BY <1>3, <1>5, GrownSelf DEF Kept, PursesTyped
<1>8. ASSUME NEW n \in Nat, n \in Good PROVE n + 1 \in Good
  <2> DEFINE d == items[n + 1].developer
             m == items[n + 1].amount
             a == after[n]
             z == after[n + 1]
             e == events[n + 1]
             h == heard[n]
             k == heard[n + 1]
  <2> SUFFICES ASSUME n + 1 <= Len(items)
               PROVE  /\ z.balance \in Balances /\ Listing(z.index) /\ Grown(index, z.index)
                      /\ Owing(k) /\ Gap(k.owed, z.balance) = Gap(books.owed, balance)
    OBVIOUS
  <2>1. /\ n + 1 \in 1..Len(items) /\ (n + 1) - 1 = n
        /\ a.balance \in Balances /\ Listing(a.index) /\ Grown(index, a.index)
        /\ Owing(h) /\ Gap(h.owed, a.balance) = Gap(books.owed, balance)
    BY <1>1, <1>8
  <2>2. z = [balance |-> [a.balance EXCEPT ![d][token] = @ + m], index |-> SortedInsert(a.index, d)]
    BY <1>3, <2>1
  <2>3. /\ d \in Devs /\ m \in Int /\ m > 0 /\ Fits(z.balance[d][token])
        /\ e = BalanceCreditedEvent(d, m, z.balance[d][token], token)
        /\ k = Heard(h, e, usdcToken, None)
    BY <1>1, <1>2, <1>4, <1>5, <2>1
  <2> HIDE DEF d, m, a, z, e, h, k
  <2>4. z.balance = Raised(a.balance, d, token, m) /\ z.index = SortedInsert(a.index, d)
    BY <2>2 DEF Raised
  <2> DEFINE b == a.balance
             o == h.owed
  <2>5. /\ b \in Balances /\ b \in Ledgers /\ o \in Ledgers /\ d \in Devs /\ token \in Tokens
        /\ m \in Int /\ m > 0 /\ Fits(b[d][token] + m)
    <3>1. b \in Balances /\ b \in Ledgers /\ o \in Ledgers
      BY <2>1, BalancesAreLedgers DEF Owing
    <3>2. z.balance[d][token] = b[d][token] + m
      BY <2>3, <2>4, <3>1 DEF Raised, Ledgers
    <3> QED BY <2>3, <3>1, <3>2
  <2> HIDE DEF b, o
  <2>6. Raised(b, d, token, m) \in Balances
    BY ONLY <2>5, RaisedBalances
  <2>7. Gap(Raised(o, d, token, m), Raised(b, d, token, m)) = Gap(o, b)
    BY ONLY <2>5, GapStays
  <2>8. Owing(k) /\ k.owed = Raised(o, d, token, m)
    BY <2>1, <2>3, HearsRaise DEF o
  <2>9. Listing(z.index) /\ Grown(a.index, z.index)
    BY <2>1, <2>3, <2>4, InsertGrows
  <2>10. Grown(index, z.index)
    BY <2>1, <2>9, GrownTwice DEF Kept
  <2> QED BY <2>1, <2>4, <2>6, <2>7, <2>8, <2>9, <2>10 DEF b, o
<1>9. Nat \subseteq Good
  <2> HIDE DEF Good
  <2> QED BY <1>7, <1>8, NatSetInduction
<1>10. Len(items) \in Good
  <2> HIDE DEF Good
  <2> QED BY <1>1, <1>9
<1>11. /\ balance' \in Balances /\ Listing(index') /\ Grown(index, index')
       /\ Owing(books') /\ Gap(books.owed, balance)' = Gap(books.owed, balance)
  BY <1>1, <1>6, <1>10
<1> QED BY <1>6, <1>11, OnlyCredits

\* So is every payment, and a forced credit.
LEMMA PaymentNeutral == ASSUME Kept, PaymentStep \/ ForceCreditStep PROVE Neutral
<1>1. ASSUME NEW c \in Principals, NEW n \in Amounts, NEW d \in Devs, NEW t \in Tokens,
             NEW seq \in LedgerSeqs, ReceiveForDeveloper(c, n, d, t, seq)
      PROVE  Neutral
  <2> DEFINE p == PaymentReceivedEvent(c, n, FALSE, d, t)
             e == BalanceCreditedEvent(d, n, balance'[d][t], t)
  <2>1. books' = Heard(Heard(books, p, usdcToken, None), e, usdcToken, None)
    BY <1>1, AnnounceTwo DEF ReceiveForDeveloper
  <2>2. Heard(books, p, usdcToken, None) = books
    BY DEF Heard, PaymentReceivedEvent, Topics
  <2>3. /\ UNCHANGED <<roles, setup, daily, held, migration, now>>
        /\ n > 0 /\ Fits(balance[d][t] + n)
        /\ balance' = [balance EXCEPT ![d][t] = @ + n] /\ index' = SortedInsert(index, d)
        /\ books' = Heard(books, e, usdcToken, None)
    BY <1>1, <2>1, <2>2 DEF ReceiveForDeveloper, payouts
  <2> QED BY <2>3, CreditNeutral
<1>2. ASSUME NEW c \in Principals, NEW n \in Amounts, NEW d \in Devs, NEW t \in Tokens,
             ForceCredit(c, d, n, t)
      PROVE  Neutral
  <2> DEFINE e == DeveloperForceCreditedEvent(d, n, balance'[d][t], t)
  <2>1. /\ UNCHANGED <<roles, setup, daily, held, migration, now>>
        /\ n > 0 /\ Fits(balance[d][t] + n)
        /\ balance' = [balance EXCEPT ![d][t] = @ + n] /\ index' = SortedInsert(index, d)
        /\ books' = Heard(books, e, usdcToken, None)
    BY <1>2, AnnounceOne DEF ForceCredit, payouts
  <2> QED BY <2>1, CreditNeutral
<1> QED BY <1>1, <1>2, BatchNeutral DEF PaymentStep, ForceCreditStep

\* One payout takes the same from a purse and from the books that it is announced to.
LEMMA PayoutHears ==
    ASSUME RolesTyped, TimeTyped, NEW p \in Purses, NEW w \in Withdrawals, Payable(p, w),
           NEW b, Owing(b)
    PROVE  /\ Owing(Heard(b, WithdrawEvent(Paid(p, w), w), usdcToken, None))
           /\ Gap(Heard(b, WithdrawEvent(Paid(p, w), w), usdcToken, None).owed, Paid(p, w).balance)
                = Gap(b.owed, p.balance)
<1> DEFINE d == w.developer
           n == w.amount
           t == usdcToken
           bal == p.balance
           o == b.owed
           h == Heard(b, WithdrawEvent(Paid(p, w), w), usdcToken, None)
<1>1. d \in Devs /\ t \in Tokens /\ n \in Int /\ bal \in Ledgers /\ o \in Ledgers
  BY PaidPurse, BalancesAreLedgers DEF Purses, Owing
<1>2. Paid(p, w).balance = Lowered(bal, d, t, n)
  BY DEF Paid, Lowered
<1>3. h = Heard(b, DeveloperWithdrawEvent(d, n, Paid(p, w).balance[d][t], t), t, None)
  BY DEF WithdrawEvent
<1> HIDE DEF d, n, t, bal, h
<1>4. Owing(h) /\ h.owed = Lowered(o, d, t, n)
  BY <1>1, <1>3, HearsLower
<1> HIDE DEF o
<1>5. Gap(Lowered(o, d, t, n), Lowered(bal, d, t, n)) = Gap(o, bal)
  BY ONLY <1>1, GapStays
<1> QED BY <1>2, <1>4, <1>5 DEF h, o, bal

\* So is every payout, single or in a batch with failing items.
LEMMA PayoutNeutral == ASSUME Kept, PayoutStep PROVE Neutral
<1>0. RolesTyped /\ PursesTyped /\ TimeTyped /\ MigrationsTyped /\ Owing(books) /\ Listing(index)
  BY DEF Kept
<1> DEFINE Same == Owing(books') /\ Gap(books.owed, balance)' = Gap(books.owed, balance)
<1>1. ASSUME NEW w \in Withdrawals, Withdraw(w) PROVE Same
  <2>1. /\ Purse \in Purses /\ Payable(Purse, w) /\ balance' = Paid(Purse, w).balance
        /\ Purse.balance = balance
    BY <1>0, <1>1 DEF Withdraw, Spend, Purse, Purses, PursesTyped
  <2>2. books' = Heard(books, WithdrawEvent(Paid(Purse, w), w), usdcToken, None)
    BY <1>1, AnnounceOne DEF Withdraw
  <2> QED BY <1>0, <2>1, <2>2, PayoutHears
<1>2. ASSUME NEW items \in SettleLists, BatchSettle(items) PROVE Same
  <2> DEFINE after == PursesAfter(items)
             events == EventsAfter(items)
             X == {WithdrawEvent(after[i], items[i]) : i \in 1..Len(items)}
             heard(n) == BooksAfter(books, events[n], usdcToken, None)[Len(events[n])]
             Good == {n \in Nat : n <= Len(items) =>
                        /\ after[n] \in Purses /\ events[n] \in Seq(X) /\ Owing(heard(n))
                        /\ Gap(heard(n).owed, after[n].balance) = Gap(books.owed, balance)}
  <2>1. Len(items) \in Nat /\ \A i \in 1..Len(items) : items[i] \in Withdrawals
    BY BoundAssumption DEF SettleLists
  <2>2. /\ after[0] = Purse
        /\ \A i \in 1..Len(items) :
             after[i] = IF Payable(after[i - 1], items[i]) THEN Paid(after[i - 1], items[i])
                        ELSE after[i - 1]
    BY <2>1, PursesFold
  <2>3. /\ events[0] = <<>>
        /\ \A i \in 1..Len(items) :
             events[i] = IF Payable(after[i - 1], items[i])
                         THEN Append(events[i - 1], WithdrawEvent(after[i], items[i]))
                         ELSE events[i - 1]
    <3>1. \A i \in 1..Len(items) :
            SettleOutcomes(items)[i] = "Success" <=> Payable(after[i - 1], items[i])
      <4>1. DOMAIN items = 1..Len(items)
        BY <2>1, BoundAssumption DEF SettleLists
      <4> HIDE DEF after
      <4>2. SettleOutcomes(items)
              = [i \in DOMAIN items |-> IF Payable(after[i - 1], items[i]) THEN "Success" ELSE "Error"]
        BY DEF SettleOutcomes, after
      <4> QED BY <4>1, <4>2
    <3> QED BY <2>1, <3>1, EventsFold
  <2>4. books' = heard(Len(items)) /\ balance' = after[Len(items)].balance
    BY <1>2 DEF BatchSettle, Spend, Announce, BatchWithdrawals
  <2> HIDE DEF after, events
  <2>5. 0 \in Good
    <3>1. after[0] \in Purses /\ events[0] \in Seq(X) /\ after[0].balance = balance
      BY <1>0, <2>2, <2>3 DEF Purse, Purses, PursesTyped
    <3>2. BooksAfter(books, <<>>, usdcToken, None)[0] = books /\ Len(<<>>) = 0
      <4>1. Len(<<>>) = 0
        OBVIOUS
      <4> QED BY <4>1, BooksFold
    <3>3. heard(0) = books
      BY <2>3, <3>2
    <3> QED BY <1>0, <3>1, <3>3
  <2>6. ASSUME NEW n \in Nat, n \in Good PROVE n + 1 \in Good
    <3> SUFFICES ASSUME n + 1 <= Len(items)
                 PROVE  /\ after[n + 1] \in Purses /\ events[n + 1] \in Seq(X)
                        /\ Owing(heard(n + 1))
                        /\ Gap(heard(n + 1).owed, after[n + 1].balance) = Gap(books.owed, balance)
      OBVIOUS
    <3> DEFINE p == after[n]
               w == items[n + 1]
               q == after[n + 1]
               e == WithdrawEvent(q, w)
               b == heard(n)
    <3>1. /\ n + 1 \in 1..Len(items) /\ (n + 1) - 1 = n
          /\ p \in Purses /\ events[n] \in Seq(X) /\ Owing(b)
          /\ Gap(b.owed, p.balance) = Gap(books.owed, balance)
          /\ w \in Withdrawals /\ e \in X
      BY <2>1, <2>6
    <3>2. /\ q = IF Payable(p, w) THEN Paid(p, w) ELSE p
          /\ events[n + 1] = IF Payable(p, w) THEN Append(events[n], e) ELSE events[n]
      BY <2>2, <2>3, <3>1
    <3> HIDE DEF p, w, q, e, X
    <3>3. CASE ~Payable(p, w)
      BY <3>1, <3>2, <3>3 DEF p, q
    <3>4. CASE Payable(p, w)
      <4>1. q = Paid(p, w) /\ q \in Purses /\ events[n + 1] = Append(events[n], e)
            /\ events[n + 1] \in Seq(X)
        BY <1>0, <3>1, <3>2, <3>4, PaidPurse
      <4>2. heard(n + 1) = Heard(b, e, usdcToken, None)
        BY <3>1, <4>1, BooksAppend
      <4>3. e = WithdrawEvent(Paid(p, w), w)
        BY <4>1 DEF e
      <4> HIDE DEF b
      <4>4. Owing(Heard(b, e, usdcToken, None))
            /\ Gap(Heard(b, e, usdcToken, None).owed, q.balance) = Gap(b.owed, p.balance)
        BY <1>0, <3>1, <3>4, <4>1, <4>3, PayoutHears
      <4> QED BY <3>1, <4>1, <4>2, <4>4 DEF q
    <3> QED BY <3>3, <3>4
  <2>7. Nat \subseteq Good
    <3> HIDE DEF Good
    <3> QED BY <2>5, <2>6, NatSetInduction
  <2>8. Len(items) \in Good
    <3> HIDE DEF Good
    <3> QED BY <2>1, <2>7
  <2> QED BY <2>4, <2>8
<1>3. Same
  BY <1>1, <1>2 DEF PayoutStep
<1>4. PursesTyped'
  BY <1>0, PayoutTakes
<1>5. UNCHANGED <<roles, setup, index, migration, now>>
  BY DEF PayoutStep, Withdraw, BatchSettle, Spend
<1>6. RolesTyped' /\ TimeTyped' /\ MigrationsTyped' /\ Listing(index')
  BY <1>0, <1>5 DEF RolesTyped, TimeTyped, MigrationsTyped, roles, setup
<1> QED BY <1>0, <1>3, <1>4, <1>5, <1>6, GrownSelf DEF Neutral, Kept

\* Whatever goes on during a walk is neutral.
LEMMA MeanwhileNeutral == ASSUME Kept, Meanwhile PROVE Neutral
BY PaymentNeutral, PayoutNeutral, ProposalNeutral, ExecutionNeutral, SetupNeutral DEF Meanwhile

-----------------------------------------------------------------------------
(* The move to the new storage layout.                                     *)

\* What a developer is owed beyond the balances is in the V1 slot, and the documented loop
\* has not passed whoever has something in theirs.
Unmoved(d) == Sum(Gap(books.owed, balance)[d], Tokens) = legacy[d]
Ahead(d) == \E i \in DOMAIN index : index[i] = d /\ i > offset

Accounted ==
    /\ Kept
    /\ legacy \in [Devs -> Nat] /\ offset \in Nat /\ batchSize \in Nat
    /\ storageVersion \in {STORAGE_VERSION_V1, STORAGE_VERSION_V2}
    /\ \A d \in Devs : Unmoved(d)
NobodyBehind == \A d \in Devs : legacy[d] > 0 => storageVersion = STORAGE_VERSION_V1 /\ Ahead(d)

\* Moving slots moves what they hold, and forgets nobody's.
LEMMA SlotsMove ==
    ASSUME Accounted, usdcToken # None, NEW devs, MoveSlots(devs)
    PROVE  /\ Kept' /\ index' = index
           /\ legacy' \in [Devs -> Nat]
           /\ \A d \in Devs : legacy'[d] = IF d \in devs THEN 0 ELSE legacy[d]
           /\ \A d \in Devs : Unmoved(d)'
<1> DEFINE u == usdcToken
<1>1. /\ u \in Tokens /\ balance \in Balances /\ legacy \in [Devs -> Nat]
      /\ \A d \in devs : balance[d][u] + legacy[d] <= I128Max
  BY DEF Accounted, Kept, RolesTyped, PursesTyped, MoveSlots, Fits
<1>2. UNCHANGED <<roles, setup, index, daily, held, migration, now, books>>
  BY DEF MoveSlots, untouched, payouts
<1>3. legacy' = [d \in Devs |-> IF d \in devs THEN 0 ELSE legacy[d]]
  BY DEF MoveSlots
<1>4. balance' = [d \in Devs |->
         IF d \in devs THEN [balance[d] EXCEPT ![u] = @ + legacy[d]] ELSE balance[d]]
  BY DEF MoveSlots
<1> HIDE DEF u
<1>5. ASSUME NEW d \in Devs
      PROVE  /\ balance'[d] \in [Tokens -> 0..I128Max]
             /\ \A t \in Tokens : balance'[d][t] =
                  IF t = u /\ d \in devs THEN balance[d][t] + legacy[d] ELSE balance[d][t]
  <2>1. balance[d] \in [Tokens -> 0..I128Max] /\ legacy[d] \in Nat /\ I128Max \in Nat
    BY <1>1, BoundAssumption DEF Balances
  <2>2. CASE d \in devs
    <3>1. balance'[d] = [balance[d] EXCEPT ![u] = @ + legacy[d]]
      BY <1>4, <2>2
    <3>2. balance[d][u] + legacy[d] \in 0..I128Max
      BY <1>1, <2>1, <2>2
    <3> QED BY <1>1, <2>1, <2>2, <3>1, <3>2
  <2>3. CASE d \notin devs
    BY <1>4, <2>1, <2>3
  <2> QED BY <2>2, <2>3
<1>6. balance' \in Balances
  BY <1>4, <1>5 DEF Balances
<1>7. Kept'
  BY <1>2, <1>6 DEF Accounted, Kept, RolesTyped, PursesTyped, MigrationsTyped, TimeTyped, roles, setup
<1>8. ASSUME NEW d \in Devs PROVE Unmoved(d)'
  <2> DEFINE f == Gap(books.owed, balance)[d]
             g == Gap(books.owed, balance)'[d]
             n == legacy[d]
             m == legacy'[d]
  <2>1. /\ IsFiniteSet(Tokens) /\ u \in Tokens
        /\ \A t \in Tokens : f[t] \in Int /\ g[t] \in Int
        /\ \A t \in Tokens \ {u} : g[t] = f[t]
        /\ n \in Nat /\ m \in Nat
        /\ g[u] = f[u] - (n - m)
    <3>1. books.owed \in Ledgers /\ books' = books /\ balance \in Ledgers /\ legacy[d] \in Nat
      BY <1>1, <1>2, BalancesAreLedgers DEF Accounted, Kept, Owing
    <3>2. \A t \in Tokens : /\ f[t] = books.owed[d][t] - balance[d][t]
                            /\ g[t] = books.owed[d][t] - balance'[d][t]
                            /\ books.owed[d][t] \in Int /\ balance[d][t] \in Int
      BY <3>1 DEF Gap, Ledgers
    <3>3. m = IF d \in devs THEN 0 ELSE n
      BY <1>3
    <3> HIDE DEF f, g
    <3> QED BY <1>1, <1>5, <3>1, <3>2, <3>3, AddressAssumption
  <2>2. Sum(f, Tokens) = n
    BY DEF Accounted, Unmoved
  <2> HIDE DEF f, g, n, m
  <2>3. Sum(g, Tokens) = Sum(f, Tokens) + g[u] - f[u]
    BY <2>1, SumUpdate
  <2>4. f[u] \in Int /\ g[u] \in Int
    BY <2>1
  <2>5. Sum(g, Tokens) = m
    BY <2>1, <2>2, <2>3, <2>4
  <2> QED BY <2>5 DEF Unmoved, g, m
<1>9. legacy' \in [Devs -> Nat] /\ \A d \in Devs : legacy'[d] = IF d \in devs THEN 0 ELSE legacy[d]
  BY <1>1, <1>3
<1> QED BY <1>2, <1>7, <1>8, <1>9

\* A page has everybody at its positions, and ends within the index.
LEMMA PageHas ==
    ASSUME Listing(index), NEW from \in Nat, NEW size \in Nat
    PROVE  /\ PageEnd(from, size) \in Nat /\ PageEnd(from, size) <= Len(index)
           /\ \A i \in DOMAIN index : i > from /\ i <= PageEnd(from, size) => index[i] \in Page(from, size)
<1> DEFINE n == Len(index)
           e == PageEnd(from, size)
<1>1. index \in Seq(Devs) /\ n \in Nat /\ DOMAIN index = 1..n
  BY DEF Listing
<1>2. Effective(size) \in Nat
  <2>1. Max({size, 1}) \in {size, 1}
    <3>1. \E x \in {size, 1} : \A y \in {size, 1} : x >= y
      <4>1. CASE size >= 1
        BY <4>1
      <4>2. CASE size < 1
        BY <4>2
      <4> QED BY <4>1, <4>2
    <3> QED BY <3>1 DEF Max
  <2>2. {Max({size, 1}), MAX_BATCH_SIZE} \in SUBSET Nat
    BY <2>1, BoundAssumption
  <2> QED BY <2>2, NatMin DEF Effective
<1>3. e \in Nat /\ e <= n
  <2>1. {from + Effective(size), n} \in SUBSET Nat
    BY <1>1, <1>2
  <2> QED BY <2>1, NatMin DEF PageEnd
<1>4. ASSUME NEW i \in DOMAIN index, i > from, i <= e PROVE index[i] \in Page(from, size)
  <2> DEFINE p == SubSeq(index, from + 1, e)
             k == i - from
  <2>1. i \in 1..n /\ k \in 1..(e - (from + 1)) + 1 /\ (from + 1) + k - 1 = i
    BY <1>1, <1>3, <1>4
  <2>2. k \in DOMAIN p /\ p[k] = index[i]
    <3>1. /\ index \in Seq(Devs) /\ from \in Nat /\ e \in Nat /\ k \in Int
          /\ from + 1 >= 1 /\ e <= Len(index)
          /\ 1 <= k /\ k <= e - from /\ from + k = i
      BY <1>1, <1>3, <2>1
    <3> HIDE DEF k, e, n
    <3>2. /\ k \in 1..Len(SubSeq(index, from + 1, e)) /\ DOMAIN p = 1..Len(SubSeq(index, from + 1, e))
          /\ SubSeq(index, from + 1, e)[k] = index[from + k]
      BY ONLY <3>1
    <3> QED BY <3>1, <3>2
  <2> QED BY <2>2 DEF Page, Range
<1> QED BY <1>3, <1>4

\* Every step of the move accounts for everything, and leaves nobody behind when the calls
\* that are not the loop's start at 0.
LEMMA MovesKeep ==
    ASSUME Accounted, MigrationStep
    PROVE  /\ Accounted' /\ index' = index
           /\ StrayOffsets \subseteq {0} /\ NobodyBehind => NobodyBehind'
<1> DEFINE Well == Accounted' /\ index' = index
           Better == NobodyBehind => NobodyBehind'
<1>1. ASSUME NEW c, NEW from \in Nat, NEW size \in Nat, MigratePage(c, from, size), batchSize' = batchSize,
             offset' \in {offset, PageEnd(from, size)}
      PROVE  /\ Well
             /\ \/ from = offset /\ offset' = PageEnd(from, size)
                \/ from = 0 /\ offset' = offset
                => Better
  <2> DEFINE e == PageEnd(from, size)
             page == Page(from, size)
  <2>1. /\ MoveSlots(page) /\ usdcToken # None
        /\ storageVersion' = IF e >= Len(index) THEN STORAGE_VERSION_V2 ELSE storageVersion
    BY <1>1 DEF MigratePage
  <2>2. /\ Kept' /\ index' = index /\ legacy' \in [Devs -> Nat]
        /\ \A d \in Devs : legacy'[d] = IF d \in page THEN 0 ELSE legacy[d]
        /\ \A d \in Devs : Unmoved(d)'
    BY <2>1, SlotsMove
  <2>3. /\ e \in Nat /\ e <= Len(index)
        /\ \A i \in DOMAIN index : i > from /\ i <= e => index[i] \in page
    BY PageHas DEF Accounted, Kept
  <2>4. Len(index) \in Nat /\ DOMAIN index = 1..Len(index)
    BY DEF Accounted, Kept, Listing
  <2>5. offset \in Nat /\ offset' \in Nat
    BY <1>1, <2>3 DEF Accounted
  <2>6. storageVersion' \in {STORAGE_VERSION_V1, STORAGE_VERSION_V2}
    BY <2>1 DEF Accounted
  <2>7. Well
    BY <1>1, <2>2, <2>5, <2>6 DEF Accounted
  <2>8. ASSUME \/ from = offset /\ offset' = e
               \/ from = 0 /\ offset' = offset,
               NobodyBehind, NEW d \in Devs, legacy'[d] > 0
        PROVE  storageVersion' = STORAGE_VERSION_V1 /\ Ahead(d)'
    <3> HIDE DEF e, page
    <3>1. d \notin page /\ legacy[d] > 0
      BY <2>2, <2>8
    <3>2. storageVersion = STORAGE_VERSION_V1 /\ \E i \in DOMAIN index : index[i] = d /\ i > offset
      BY <2>8, <3>1 DEF NobodyBehind, Ahead
    <3>3. PICK i \in DOMAIN index : index[i] = d /\ i > offset
      BY <3>2
    <3>4. i > from /\ ~(i <= e) /\ i <= Len(index) /\ i \in Nat
      BY <2>3, <2>4, <2>5, <2>8, <3>1, <3>3
    <3>5. i > e /\ ~(e >= Len(index)) /\ i > offset'
      BY <2>3, <2>4, <2>8, <3>3, <3>4
    <3> QED BY <2>1, <2>2, <3>2, <3>3, <3>5 DEF Ahead
  <2> QED BY <2>7, <2>8 DEF NobodyBehind
<1>2. CASE LoopPage
  <2>1. /\ MigratePage(Operator, offset, batchSize) /\ offset' = PageEnd(offset, batchSize)
        /\ batchSize' = batchSize /\ offset \in Nat /\ batchSize \in Nat
    BY <1>2 DEF LoopPage, Accounted
  <2> HIDE DEF Well, Better
  <2> QED BY <1>1, <2>1 DEF Well, Better
<1>3. ASSUME NEW c \in Principals, NEW from \in StrayOffsets, NEW size \in BatchSizes, StrayPage(c, from, size)
      PROVE  Well /\ (StrayOffsets \subseteq {0} => Better)
  <2>1. from \in Nat /\ size \in Nat /\ (StrayOffsets \subseteq {0} => from = 0)
    BY MigrationAssumption
  <2>2. MigratePage(c, from, size) /\ offset' = offset /\ batchSize' = batchSize
    BY <1>3 DEF StrayPage
  <2> HIDE DEF Well, Better
  <2> QED BY <1>1, <2>1, <2>2
<1>4. ASSUME NEW size \in BatchSizes, Restart(size) PROVE Well /\ Better
  <2>1. /\ UNCHANGED <<index, books, balance, legacy, storageVersion>> /\ Kept'
        /\ offset' = 0 /\ batchSize' \in Nat
    BY <1>4, MigrationAssumption
       DEF Restart, Accounted, Kept, RolesTyped, PursesTyped, MigrationsTyped, TimeTyped, vars, roles,
           setup, credits, payouts
  <2>2. \A d \in Devs : Ahead(d) => Ahead(d)'
    <3>1. \A i \in DOMAIN index : i > 0
      BY DEF Accounted, Kept, Listing
    <3> QED BY <2>1, <3>1 DEF Ahead
  <2>3. \A d \in Devs : Unmoved(d)'
    BY <2>1 DEF Accounted, Unmoved
  <2> QED BY <2>1, <2>2, <2>3 DEF Accounted, NobodyBehind
<1>5. ASSUME NEW c \in Principals, NEW dev \in Devs, MigrateDeveloperBalance(c, dev) PROVE Well /\ Better
  <2>1. /\ MoveSlots({dev}) /\ usdcToken # None
        /\ UNCHANGED <<storageVersion, offset, batchSize>>
    BY <1>5 DEF MigrateDeveloperBalance, MigrateSingleDeveloper, MayMigrate
  <2>2. /\ Kept' /\ index' = index /\ legacy' \in [Devs -> Nat]
        /\ \A d \in Devs : legacy'[d] = IF d \in {dev} THEN 0 ELSE legacy[d]
        /\ \A d \in Devs : Unmoved(d)'
    BY <2>1, SlotsMove
  <2> QED BY <2>1, <2>2 DEF Accounted, NobodyBehind, Ahead
<1>6. ASSUME NEW c \in Principals, MigrateV1ToV2(c) PROVE Well /\ Better
  <2>1. /\ MoveSlots(Range(index)) /\ usdcToken # None
        /\ storageVersion' = STORAGE_VERSION_V2 /\ UNCHANGED <<offset, batchSize>>
    BY <1>6 DEF MigrateV1ToV2
  <2>2. /\ Kept' /\ index' = index /\ legacy' \in [Devs -> Nat]
        /\ \A d \in Devs : legacy'[d] = IF d \in Range(index) THEN 0 ELSE legacy[d]
        /\ \A d \in Devs : Unmoved(d)'
    BY <2>1, SlotsMove
  <2>3. Well
    BY <2>1, <2>2 DEF Accounted
  <2>4. ASSUME NobodyBehind, NEW d \in Devs PROVE ~(legacy'[d] > 0)
    <3>1. legacy[d] \in Nat /\ (legacy[d] > 0 => d \in Range(index))
      BY <2>4 DEF Accounted, NobodyBehind, Ahead, Range
    <3> QED BY <2>2, <3>1
  <2> QED BY <2>3, <2>4 DEF NobodyBehind
<1> QED BY <1>2, <1>3, <1>4, <1>5, <1>6 DEF MigrationStep

\* So does every other call, which may add to the index in front of the loop.
LEMMA MeanwhileKeeps ==
    ASSUME Accounted, Meanwhile, UNCHANGED mvars
    PROVE  Accounted' /\ Grown(index, index') /\ (NobodyBehind => NobodyBehind')
<1>1. Neutral
  BY MeanwhileNeutral DEF Accounted
<1>2. Kept' /\ Grown(index, index') /\ Gap(books.owed, balance)' = Gap(books.owed, balance)
  BY <1>1 DEF Neutral
<1>3. UNCHANGED <<legacy, storageVersion, offset, batchSize>>
  BY DEF mvars
<1>4. Accounted'
  BY <1>2, <1>3 DEF Accounted, Unmoved
<1>5. ASSUME NEW d \in Devs, Ahead(d) PROVE Ahead(d)'
  <2>1. PICK i \in DOMAIN index : index[i] = d /\ i > offset
    BY <1>5 DEF Ahead
  <2>2. PICK k \in DOMAIN index' : index'[k] = d /\ i <= k
    BY <1>2, <2>1 DEF Grown
  <2>3. i \in Nat /\ k \in Nat /\ offset \in Nat
    BY <1>2 DEF Accounted, Kept, Listing
  <2> QED BY <1>3, <2>1, <2>2, <2>3 DEF Ahead
<1> QED BY <1>2, <1>3, <1>4, <1>5 DEF NobodyBehind

\* One step of either walk, or of the contract between their steps.
LEMMA WalkNextKeeps ==
    ASSUME Accounted, [WalkNext]_<<migrationVars, walk>>
    PROVE  /\ Accounted' /\ Grown(index, index')
           /\ StrayOffsets \subseteq {0} /\ NobodyBehind => NobodyBehind'
<1>1. Grown(index, index)
  BY GrownSelf DEF Accounted, Kept
<1>2. CASE MNext
  BY <1>1, <1>2, MovesKeep, MeanwhileKeeps DEF MNext
<1>3. CASE UNCHANGED migrationVars
  BY <1>1, <1>3 DEF migrationVars, vars, mvars, roles, setup, credits, payouts, Accounted, Kept, RolesTyped,
              PursesTyped, MigrationsTyped, TimeTyped, Unmoved, NobodyBehind, Ahead
<1>4. WalkStep => UNCHANGED vars
  BY DEF WalkStep, StartWalk, ReadAll, ReadPosition, ReadCursor
<1> QED BY <1>2, <1>3, <1>4 DEF WalkNext, migrationVars

\* The contract as V1 left it.
LEMMA DeployedAccounted == ASSUME MInit PROVE Accounted /\ NobodyBehind
<1>1. PICK v1 \in Deployed :
         /\ index = v1.index /\ legacy = v1.legacy
         /\ admin = v1.admin /\ vault = v1.vault /\ usdcToken = v1.usdcToken
         /\ books = [EmptyBooks(Devs, Tokens, None) EXCEPT
              !.owed = [d \in Devs |-> [t \in Tokens |-> IF t = v1.token THEN v1.legacy[d] ELSE 0]],
              !.known = Range(v1.index), !.admin = v1.admin, !.vault = v1.vault]
  BY DEF MInit
<1>2. /\ index \in Seq(Devs) /\ IsInjective(index)
      /\ legacy \in [Devs -> 0..I128Max]
      /\ \A d \in Devs : legacy[d] > 0 => d \in Range(index)
      /\ {admin, vault} \subseteq Principals
      /\ v1.token \in Tokens /\ usdcToken \in {v1.token, None}
  BY <1>1, DeployedAssumption
<1>3. legacy \in [Devs -> Nat] /\ offset = 0 /\ batchSize \in Nat /\ storageVersion = STORAGE_VERSION_V1
  BY <1>2, BoundAssumption, MigrationAssumption DEF MInit
<1>4. balance \in Balances /\ balance = [d \in Devs |-> [t \in Tokens |-> 0]]
  BY BoundAssumption DEF MInit, Balances
<1>5. /\ "owed" \in DOMAIN books
      /\ books.owed = [d \in Devs |-> [t \in Tokens |-> IF t = v1.token THEN legacy[d] ELSE 0]]
  BY <1>1 DEF EmptyBooks
<1>6. Owing(books)
  BY <1>3, <1>5 DEF Owing, Ledgers
<1>7. Kept
  <2>1. RolesTyped
    BY <1>2 DEF MInit, RolesTyped
  <2>2. PursesTyped
    BY <1>4, BoundAssumption DEF MInit, PursesTyped, Tallies
  <2>3. MigrationsTyped /\ TimeTyped
    BY BoundAssumption DEF MInit, MigrationsTyped, TimeTyped
  <2> QED BY <1>2, <1>6, <2>1, <2>2, <2>3 DEF Kept, Listing
<1>8. ASSUME NEW d \in Devs PROVE Unmoved(d)
  <2> DEFINE f == Gap(books.owed, balance)[d]
             n == legacy[d]
  <2>1. /\ IsFiniteSet(Tokens) /\ v1.token \in Tokens /\ n \in Int
        /\ f[v1.token] = n /\ \A t \in Tokens \ {v1.token} : f[t] = 0
    BY <1>2, <1>3, <1>4, <1>5, AddressAssumption DEF Gap
  <2> HIDE DEF f, n
  <2>2. Sum(f, Tokens) = f[v1.token]
    BY <2>1, SumOfOne
  <2> QED BY <2>1, <2>2 DEF Unmoved, f, n
<1>9. ASSUME NEW d \in Devs, legacy[d] > 0 PROVE Ahead(d)
  <2>1. PICK i \in DOMAIN index : index[i] = d
    BY <1>2, <1>9 DEF Range
  <2> QED BY <1>2, <1>3, <2>1 DEF Ahead
<1> QED BY <1>3, <1>7, <1>8, <1>9 DEF Accounted, NobodyBehind

\* What that says of the two layouts.
LEMMA NothingLost == ASSUME Accounted, NobodyBehind PROVE MigrationLosesNothing
<1> SUFFICES ASSUME NEW d \in Devs
             PROVE  /\ Withdrawable(d) + legacy[d] = Earned(d)
                    /\ storageVersion = STORAGE_VERSION_V2 => Withdrawable(d) = Earned(d)
  BY DEF MigrationLosesNothing
<1> DEFINE f == balance[d]
           g == Gap(books.owed, balance)[d]
           h == books.owed[d]
<1>1. IsFiniteSet(Tokens) /\ \A t \in Tokens : f[t] \in Int /\ g[t] \in Int /\ h[t] = f[t] + g[t]
  <2>1. balance \in Ledgers /\ books.owed \in Ledgers
    BY BalancesAreLedgers DEF Accounted, Kept, PursesTyped, Owing
  <2> QED BY <2>1, AddressAssumption DEF Gap, Ledgers
<1>2. Withdrawable(d) = Sum(f, Tokens) /\ Earned(d) = Sum(h, Tokens)
  BY DEF Withdrawable, Earned, Sum
<1>3. Sum(g, Tokens) = legacy[d] /\ legacy[d] \in Nat
      /\ (legacy[d] > 0 => storageVersion = STORAGE_VERSION_V1)
  BY DEF Accounted, NobodyBehind, Unmoved
<1> HIDE DEF f, g, h
<1>4. Sum(h, Tokens) = Sum(f, Tokens) + Sum(g, Tokens) /\ Sum(f, Tokens) \in Int
  BY <1>1, SumAdds, SumRemove
<1> QED BY <1>2, <1>3, <1>4 DEF STORAGE_VERSION_V1, STORAGE_VERSION_V2

\* The documented loop loses and duplicates nothing: a call that is not the loop's, and
\* starts a page past the first position, can complete the migration without those before
\* it, and is left out here.
THEOREM NothingIsLost ==
    ASSUME StrayOffsets \subseteq {0}
    PROVE  WalkSpec => []MigrationLosesNothing
<1> DEFINE Inv == Accounted /\ NobodyBehind
<1>1. WalkInit => Inv
  BY DeployedAccounted DEF WalkInit
<1>2. Inv /\ [WalkNext]_<<migrationVars, walk>> => Inv'
  BY WalkNextKeeps
<1>3. Inv => MigrationLosesNothing
  BY NothingLost
<1> QED BY <1>1, <1>2, <1>3, PTL DEF WalkSpec

-----------------------------------------------------------------------------
(* The walk through the developers.                                        *)

\* With the first p of the index behind it, the walk has seen whoever of them was there when
\* it began, and just them in their order if nobody has joined.
UpTo(w, s, p) ==
    /\ p \in 0..Len(s)
    /\ \A i \in 1..p : s[i] \in Range(w.began) => s[i] \in Range(w.seen)
    /\ w.began = s => Len(w.seen) = p /\ \A i \in 1..p : w.seen[i] = s[i]

\* A walk by cursor is at the cursor's place, and has seen nobody twice or from beyond it.
OnceEach(w, s, p) ==
    IsInjective(w.seen) /\ \A j \in DOMAIN w.seen : \E k \in 1..p : w.seen[j] = s[k]
AtCursor(w, s, p) ==
    /\ UpTo(w, s, p) /\ OnceEach(w, s, p)
    /\ w.cursor = IF p = 0 THEN None ELSE s[p]

Through(w, s) ==
    /\ Range(w.began) \subseteq Range(w.seen)
    /\ w.way # "position" => IsInjective(w.seen)
    /\ w.began = s => w.seen = s

Jobs == [way : {"all", "position", "cursor"}, began : Seq(Devs), seen : Seq(Devs),
         cursor : Devs \cup {None}, done : BOOLEAN]

OnItsWay(w, s) ==
    /\ w \in Jobs /\ Listing(w.began) /\ Grown(w.began, s)
    /\ w.done => Through(w, s)
    /\ ~w.done /\ w.way = "position" => UpTo(w, s, Len(w.seen))
    /\ ~w.done /\ w.way = "cursor" => \E p \in Nat : AtCursor(w, s, p)

Walked == walk # None => OnItsWay(walk, index)

\* The end of the index is the end of the walk.
LEMMA EndIsThrough ==
    ASSUME NEW w \in Jobs, NEW s, Listing(s), Grown(w.began, s), UpTo(w, s, Len(s)),
           w.way # "position" => IsInjective(w.seen)
    PROVE  Through(w, s)
<1>1. /\ s \in Seq(Devs) /\ Len(s) \in Nat /\ DOMAIN s = 1..Len(s)
      /\ w.seen \in Seq(Devs) /\ w.began \in Seq(Devs)
  BY DEF Jobs, Listing
<1>2. ASSUME NEW x \in Range(w.began) PROVE x \in Range(w.seen)
  <2>1. PICK i \in DOMAIN w.began : w.began[i] = x
    BY DEF Range
  <2>2. PICK k \in DOMAIN s : s[k] = x
    BY <2>1 DEF Grown
  <2> QED BY <1>1, <2>2 DEF UpTo
<1>3. ASSUME w.began = s PROVE w.seen = s
  BY <1>1, <1>3 DEF UpTo
<1> QED BY <1>2, <1>3 DEF Through

\* A list that has grown and is the one it was in between has not grown in between.
LEMMA GrownBack ==
    ASSUME NEW s, NEW r, Listing(s), Listing(r), Grown(s, r), Grown(r, s) PROVE r = s
<1> DEFINE m == Len(s)
           n == Len(r)
<1>1. m \in Nat /\ n \in Nat /\ m <= n /\ n <= m /\ (m = n => s = r)
  BY DEF Listing, Grown
<1> HIDE DEF m, n
<1> QED BY ONLY <1>1

\* Who joins between two pages disturbs no walk, wherever they join.
LEMMA JoiningKeeps ==
    ASSUME NEW w, NEW s, NEW r, Listing(s), Listing(r), Grown(s, r), OnItsWay(w, s)
    PROVE  OnItsWay(w, r)
<1>1. /\ w \in Jobs /\ Listing(w.began) /\ Grown(w.began, s) /\ Grown(w.began, r)
      /\ s \in Seq(Devs) /\ Len(s) \in Nat /\ DOMAIN s = 1..Len(s)
      /\ r \in Seq(Devs) /\ Len(r) \in Nat /\ DOMAIN r = 1..Len(r)
      /\ Len(s) <= Len(r) /\ w.seen \in Seq(Devs) /\ Len(w.seen) \in Nat
  <2>1. w \in Jobs /\ Listing(w.began) /\ Grown(w.began, s)
    BY DEF OnItsWay
  <2>2. Grown(w.began, r)
    BY <2>1, GrownTwice
  <2> QED BY <2>1, <2>2 DEF Listing, Grown, Jobs
<1>2. w.began = r => s = r
  BY <1>1, GrownBack
<1>3. ASSUME NEW p \in Nat, UpTo(w, s, p), NEW q \in 0..Len(r), s = r => q = p,
             \A k \in DOMAIN s, i \in DOMAIN r : r[i] = s[k] /\ i <= q => k <= p
      PROVE  UpTo(w, r, q)
  <2>1. ASSUME NEW i \in 1..q, r[i] \in Range(w.began) PROVE r[i] \in Range(w.seen)
    <3>1. PICK j \in DOMAIN w.began : w.began[j] = r[i]
      BY <2>1 DEF Range
    <3>2. PICK k \in DOMAIN s : s[k] = r[i]
      BY <1>1, <3>1 DEF Grown
    <3>3. i \in DOMAIN r /\ i <= q
      BY <1>1
    <3>4. k \in 1..p
      BY <1>1, <1>3, <3>2, <3>3
    <3> QED BY <1>3, <2>1, <3>2, <3>4 DEF UpTo
  <2> QED BY <1>2, <1>3, <2>1 DEF UpTo
<1>4. ASSUME w.done PROVE Through(w, r)
  BY <1>2, <1>4 DEF OnItsWay, Through
<1>5. ASSUME ~w.done, w.way = "position" PROVE UpTo(w, r, Len(w.seen))
  <2> DEFINE p == Len(w.seen)
  <2>1. p \in Nat /\ UpTo(w, s, p) /\ p \in 0..Len(r)
    BY <1>1, <1>5 DEF OnItsWay, UpTo
  <2>2. ASSUME NEW k \in DOMAIN s, NEW i \in DOMAIN r, r[i] = s[k], i <= p PROVE k <= p
    <3>1. PICK j \in DOMAIN r : r[j] = s[k] /\ k <= j
      BY DEF Grown
    <3>2. j = i
      BY <2>2, <3>1 DEF Listing, IsInjective
    <3> QED BY <1>1, <2>1, <2>2, <3>1, <3>2
  <2> HIDE DEF p
  <2>3. UpTo(w, r, p)
    BY <1>3, <2>1, <2>2
  <2> QED BY <2>3 DEF p
<1>6. ASSUME ~w.done, w.way = "cursor" PROVE \E p \in Nat : AtCursor(w, r, p)
  <2>1. PICK p \in Nat : AtCursor(w, s, p)
    BY <1>6 DEF OnItsWay
  <2>2. UpTo(w, s, p) /\ p \in 0..Len(s) /\ w.cursor = (IF p = 0 THEN None ELSE s[p])
        /\ IsInjective(w.seen) /\ \A j \in DOMAIN w.seen : \E k \in 1..p : w.seen[j] = s[k]
    BY <2>1 DEF AtCursor, OnceEach, UpTo
  <2>3. CASE p = 0
    <3>1. UpTo(w, r, 0)
      BY <1>1, <1>3, <2>2, <2>3
    <3> QED BY <2>2, <2>3, <3>1 DEF AtCursor, OnceEach
  <2>4. CASE p # 0
    <3>1. p \in DOMAIN s
      BY <1>1, <2>2, <2>4
    <3>2. PICK q \in DOMAIN r : r[q] = s[p] /\ p <= q
      BY <3>1 DEF Grown
    <3>3. q \in 0..Len(r) /\ q # 0 /\ q \in Nat
      BY <1>1, <3>2
    <3>4. s = r => q = p
      BY <3>1, <3>2 DEF Listing, IsInjective
    <3>5. \A k \in DOMAIN s, i \in DOMAIN r : r[i] = s[k] => (k <= p <=> i <= q)
      BY <3>1, <3>2 DEF Grown
    <3>6. UpTo(w, r, q)
      BY <1>3, <2>2, <3>3, <3>4, <3>5
    <3>7. ASSUME NEW j \in DOMAIN w.seen PROVE \E i \in 1..q : w.seen[j] = r[i]
      <4>1. PICK k \in 1..p : w.seen[j] = s[k]
        BY <2>2
      <4>2. k \in DOMAIN s
        BY <1>1, <2>2, <4>1
      <4>3. PICK i \in DOMAIN r : r[i] = s[k]
        BY <4>2 DEF Grown
      <4>4. i <= q
        BY <3>5, <4>1, <4>2, <4>3
      <4> QED BY <1>1, <3>3, <4>1, <4>3, <4>4
    <3>8. w.cursor = (IF q = 0 THEN None ELSE r[q]) /\ IsInjective(w.seen)
      BY <2>2, <2>4, <3>2, <3>3
    <3>9. AtCursor(w, r, q)
      BY <3>6, <3>7, <3>8 DEF AtCursor, OnceEach
    <3> QED BY <3>3, <3>9
  <2> QED BY <2>3, <2>4
<1> QED BY <1>1, <1>4, <1>5, <1>6 DEF OnItsWay

\* The terms of two lists in one.
LEMMA Joined ==
    ASSUME NEW X, NEW a \in Seq(X), NEW b \in Seq(X)
    PROVE  /\ a \o b \in Seq(X) /\ Len(a \o b) = Len(a) + Len(b)
           /\ \A i \in 1..Len(a) : (a \o b)[i] = a[i]
           /\ \A i \in 1..Len(b) : (a \o b)[Len(a) + i] = b[i]
           /\ Range(a \o b) = Range(a) \cup Range(b)
<1> DEFINE c == a \o b
           m == Len(a)
           n == Len(b)
<1>1. /\ m \in Nat /\ n \in Nat /\ DOMAIN a = 1..m /\ DOMAIN b = 1..n
      /\ c \in Seq(X) /\ Len(c) = m + n
      /\ \A i \in 1..m + n : c[i] = IF i <= m THEN a[i] ELSE b[i - m]
  OBVIOUS
<1>2. DOMAIN c = 1..m + n
  BY <1>1
<1> HIDE DEF c, m, n
<1>3. \A i \in 1..m : c[i] = a[i] /\ i \in 1..m + n
  BY <1>1
<1>4. \A i \in 1..n : c[m + i] = b[i] /\ m + i \in 1..m + n
  <2> TAKE i \in 1..n
  <2>1. m + i \in 1..m + n /\ ~(m + i <= m) /\ (m + i) - m = i
    BY <1>1
  <2> QED BY <1>1, <2>1
<1>6. ASSUME NEW x \in Range(c) PROVE x \in Range(a) \cup Range(b)
  <2>1. PICK i \in 1..m + n : c[i] = x
    BY <1>2 DEF Range
  <2>2. CASE i <= m
    <3>1. i \in 1..m /\ c[i] = a[i]
      BY <1>1, <2>1, <2>2
    <3> QED BY <1>1, <2>1, <3>1 DEF Range
  <2>3. CASE ~(i <= m)
    <3>1. i - m \in 1..n /\ c[i] = b[i - m]
      BY <1>1, <2>1, <2>3
    <3> QED BY <1>1, <2>1, <3>1 DEF Range
  <2> QED BY <2>2, <2>3
<1>7. ASSUME NEW x, x \in Range(a) \/ x \in Range(b) PROVE x \in Range(c)
  <2>1. CASE x \in Range(a)
    <3>1. PICK i \in 1..m : a[i] = x
      BY <1>1, <2>1 DEF Range
    <3>2. c[i] = x /\ i \in DOMAIN c
      BY <1>2, <1>3, <3>1
    <3> QED BY <3>2 DEF Range
  <2>2. CASE x \in Range(b)
    <3>1. PICK i \in 1..n : b[i] = x
      BY <1>1, <2>2 DEF Range
    <3>2. c[m + i] = x /\ m + i \in DOMAIN c
      BY <1>2, <1>4, <3>1
    <3> QED BY <3>2 DEF Range
  <2> QED BY <1>7, <2>1, <2>2
<1> QED BY <1>1, <1>3, <1>4, <1>6, <1>7 DEF c, m, n

\* A page of a list.
LEMMA PageOf ==
    ASSUME NEW X, NEW s \in Seq(X), NEW p \in Nat, NEW e \in p..Len(s)
    PROVE  /\ SubSeq(s, p + 1, e) \in Seq(X) /\ Len(SubSeq(s, p + 1, e)) = e - p
           /\ \A i \in 1..e - p : SubSeq(s, p + 1, e)[i] = s[p + i]
<1>1. CASE e = p
  BY <1>1
<1>2. CASE e # p
  BY <1>2
<1> QED BY <1>1, <1>2

\* One page, from p to e.
LEMMA PageAdvances ==
    ASSUME NEW w \in Jobs, NEW s, Listing(s), NEW p \in Nat, UpTo(w, s, p), NEW e \in p..Len(s),
           NEW v \in Jobs, v.began = w.began, v.seen = w.seen \o SubSeq(s, p + 1, e)
    PROVE  UpTo(v, s, e)
<1> DEFINE a == w.seen
           b == SubSeq(s, p + 1, e)
           c == v.seen
           m == Len(a)
           n == e - p
<1>1. /\ s \in Seq(Devs) /\ Len(s) \in Nat /\ p <= Len(s) /\ e \in Nat /\ e <= Len(s) /\ p <= e
      /\ a \in Seq(Devs) /\ m \in Nat /\ n \in Nat /\ p + n = e /\ c = a \o b
      /\ Len(a) = m
  BY DEF Listing, UpTo, Jobs
<1>2. b \in Seq(Devs) /\ Len(b) = n /\ \A i \in 1..n : b[i] = s[p + i]
  BY <1>1, PageOf
<1> HIDE DEF a, b, c, m, n
<1>3. /\ Len(c) = m + n
      /\ \A i \in 1..m : c[i] = a[i]
      /\ \A i \in 1..n : c[m + i] = s[p + i]
      /\ Range(c) = Range(a) \cup Range(b)
  <2>1. /\ Len(a \o b) = Len(a) + Len(b)
        /\ \A i \in 1..Len(a) : (a \o b)[i] = a[i]
        /\ \A i \in 1..Len(b) : (a \o b)[Len(a) + i] = b[i]
        /\ Range(a \o b) = Range(a) \cup Range(b)
    <3>1. a \in Seq(Devs) /\ b \in Seq(Devs)
      BY <1>1, <1>2
    <3> QED BY ONLY <3>1, Joined
  <2> QED BY <1>1, <1>2, <2>1
<1>4. \A i \in 1..e : i \in 1..p \/ (i - p \in 1..n /\ p + (i - p) = i)
  BY <1>1
<1>5. ASSUME NEW i \in 1..e, s[i] \in Range(w.began) PROVE s[i] \in Range(c)
  <2>1. CASE i \in 1..p
    BY <1>3, <1>5, <2>1 DEF UpTo, a
  <2>2. CASE i - p \in 1..n /\ p + (i - p) = i
    <3>1. b[i - p] = s[i] /\ i - p \in DOMAIN b
      BY <1>2, <2>2
    <3> QED BY <1>3, <3>1 DEF Range
  <2> QED BY <1>4, <2>1, <2>2
<1>6. ASSUME w.began = s PROVE Len(c) = e /\ \A i \in 1..e : c[i] = s[i]
  <2>1. m = p /\ \A i \in 1..p : a[i] = s[i]
    BY <1>6 DEF UpTo, a, m
  <2>2. ASSUME NEW i \in 1..e PROVE c[i] = s[i]
    <3>1. CASE i \in 1..p
      BY <1>3, <2>1, <3>1
    <3>2. CASE i - p \in 1..n /\ p + (i - p) = i
      BY <1>3, <2>1, <3>2
    <3> QED BY <1>4, <3>1, <3>2
  <2> QED BY <1>1, <1>3, <2>1, <2>2
<1>7. e \in 0..Len(s)
  BY <1>1
<1> QED BY <1>5, <1>6, <1>7 DEF UpTo, c

\* A list of this length with these terms is the page.
LEMMA IsPageOf ==
    ASSUME NEW s \in Seq(Devs), NEW p \in Nat, NEW e \in p..Len(s), NEW q \in Seq(Devs),
           Len(q) = e - p, \A i \in 1..e - p : q[i] = s[p + i]
    PROVE  q = SubSeq(s, p + 1, e)
<1> DEFINE b == SubSeq(s, p + 1, e)
<1>1. b \in Seq(Devs) /\ Len(b) = e - p /\ \A i \in 1..e - p : b[i] = s[p + i]
  BY PageOf
<1> HIDE DEF b
<1>2. Len(q) = Len(b) /\ \A i \in 1..Len(q) : q[i] = b[i]
  BY <1>1
<1>3. q = b
  BY <1>1, <1>2
<1> QED BY <1>3 DEF b

\* By cursor nobody comes twice.
LEMMA CursorAdvances ==
    ASSUME NEW w \in Jobs, NEW s, Listing(s), NEW p \in Nat, AtCursor(w, s, p), NEW e \in p..Len(s),
           NEW v \in Jobs, v.seen = w.seen \o SubSeq(s, p + 1, e)
    PROVE  OnceEach(v, s, e)
<1> DEFINE a == w.seen
           b == SubSeq(s, p + 1, e)
           c == v.seen
           m == Len(a)
           n == e - p
           o == Len(s)
<1>1. /\ s \in Seq(Devs) /\ DOMAIN s = 1..o /\ o \in Nat /\ e \in Nat /\ e <= o /\ p <= e
      /\ a \in Seq(Devs) /\ m \in Nat /\ n \in Nat /\ p + n = e /\ c = a \o b /\ Len(a) = m
      /\ DOMAIN a = 1..m /\ c \in Seq(Devs)
  BY DEF Listing, Jobs
<1>2. b \in Seq(Devs) /\ Len(b) = n /\ \A i \in 1..n : b[i] = s[p + i]
  BY <1>1, PageOf
<1>3. \A i, k \in 1..o : s[i] = s[k] => i = k
  BY <1>1 DEF Listing, IsInjective
<1>4. /\ \A i, k \in 1..m : a[i] = a[k] => i = k
      /\ \A j \in 1..m : \E k \in 1..p : a[j] = s[k]
  BY <1>1 DEF AtCursor, OnceEach, IsInjective
<1> HIDE DEF a, b, c, m, n, o
<1>5. /\ Len(c) = m + n /\ DOMAIN c = 1..m + n
      /\ \A i \in 1..m : c[i] = a[i]
      /\ \A i \in 1..n : c[m + i] = s[p + i]
  <2>1. a \in Seq(Devs) /\ b \in Seq(Devs)
    BY <1>1, <1>2
  <2>2. /\ Len(a \o b) = Len(a) + Len(b)
        /\ \A i \in 1..Len(a) : (a \o b)[i] = a[i]
        /\ \A i \in 1..Len(b) : (a \o b)[Len(a) + i] = b[i]
    BY ONLY <2>1, Joined
  <2>3. /\ Len(c) = m + n /\ \A i \in 1..m : c[i] = a[i]
        /\ \A i \in 1..n : c[m + i] = b[i]
    BY <1>1, <1>2, <2>2
  <2>4. DOMAIN c = 1..m + n
    BY <1>1, <2>3
  <2> QED BY <1>2, <2>3, <2>4
<1>6. \A i \in 1..m + n : i \in 1..m \/ (i - m \in 1..n /\ m + (i - m) = i)
  BY <1>1
<1>7. ASSUME NEW j \in 1..m + n
      PROVE  \E k \in 1..e : c[j] = s[k] /\ (j \in 1..m => k <= p) /\ (j \notin 1..m => k = p + (j - m))
  <2>1. CASE j \in 1..m
    <3>1. PICK k \in 1..p : a[j] = s[k]
      BY <1>4, <2>1
    <3> QED BY <1>1, <1>5, <2>1, <3>1
  <2>2. CASE j \notin 1..m
    <3>1. j - m \in 1..n /\ m + (j - m) = j /\ p + (j - m) \in 1..e
      BY <1>1, <1>6, <2>2
    <3>2. c[j] = s[p + (j - m)]
      BY <1>5, <3>1
    <3> QED BY <2>2, <3>1, <3>2
  <2> QED BY <2>1, <2>2
<1>8. ASSUME NEW i \in 1..m + n, NEW j \in 1..m + n, c[i] = c[j] PROVE i = j
  <2>1. PICK k \in 1..e : c[i] = s[k] /\ (i \in 1..m => k <= p) /\ (i \notin 1..m => k = p + (i - m))
    BY <1>7
  <2>2. PICK l \in 1..e : c[j] = s[l] /\ (j \in 1..m => l <= p) /\ (j \notin 1..m => l = p + (j - m))
    BY <1>7
  <2>0. k \in 1..o /\ l \in 1..o /\ s[k] = s[l]
    <3>1. s[k] = s[l]
      BY <1>8, <2>1, <2>2
    <3>2. 1..e \subseteq 1..o
      BY <1>1
    <3> QED BY <3>1, <3>2
  <2>3. k = l
    BY <1>3, <2>0
  <2>4. CASE i \in 1..m /\ j \in 1..m
    BY <1>4, <1>5, <1>8, <2>4
  <2>5. CASE i \notin 1..m /\ j \notin 1..m
    BY <1>1, <2>1, <2>2, <2>3, <2>5
  <2>6. CASE i \in 1..m /\ j \notin 1..m
    BY <1>1, <2>1, <2>2, <2>3, <2>6
  <2>7. CASE i \notin 1..m /\ j \in 1..m
    BY <1>1, <2>1, <2>2, <2>3, <2>7
  <2> QED BY <2>4, <2>5, <2>6, <2>7
<1> QED BY <1>5, <1>7, <1>8 DEF OnceEach, IsInjective, c

\* The positions the view answers for.
LEMMA PositionPage ==
    ASSUME Listing(index), NEW p \in 0..Len(index), NEW limit \in PageLimits, NEW t
    PROVE  \E e \in p..Len(index) :
             /\ Addresses(DeveloperBalancesPage(p, limit, t)) = SubSeq(index, p + 1, e)
             /\ DeveloperBalancesPage(p, limit, t) = <<>> => e = Len(index) /\ p = e
<1> DEFINE n == Len(index)
           size == Min({limit, MAX_DEVELOPER_BALANCES_PAGE_SIZE})
           e == Min({p + size, n})
           all == AllDeveloperBalances(t)
           page == SubSeq(all, p + 1, e)
           R == {DeveloperBalance(d, t) : d \in Devs}
<1>1. /\ index \in Seq(Devs) /\ n \in Nat /\ DOMAIN index = 1..n /\ p \in Nat /\ p <= n
      /\ Len(index) = n
  BY DEF Listing
<1>6. DeveloperBalancesPage(p, limit, t) = page
  BY DEF DeveloperBalancesPage
<1> HIDE DEF n
<1>2. size \in Nat /\ size >= 1
  <2>1. {limit, MAX_DEVELOPER_BALANCES_PAGE_SIZE} \in SUBSET Nat /\ limit >= 1
        /\ MAX_DEVELOPER_BALANCES_PAGE_SIZE >= 1
    BY PageAssumption
  <2>2. size \in {limit, MAX_DEVELOPER_BALANCES_PAGE_SIZE}
    BY <2>1, NatMin
  <2> QED BY <2>1, <2>2
<1> HIDE DEF size
<1>3. e \in p..n /\ (e = p => p = n)
  <2>1. {p + size, n} \in SUBSET Nat
    BY <1>1, <1>2
  <2>2. e \in {p + size, n} /\ e <= n
    BY <2>1, NatMin
  <2> QED BY <1>1, <1>2, <2>2
<1>4. all = [i \in 1..n |-> DeveloperBalance(index[i], t)]
  BY <1>1 DEF AllDeveloperBalances
<1>5. all \in Seq(R) /\ Len(all) = n /\ \A i \in 1..n : all[i].address = index[i]
  <2>1. \A i \in 1..n : all[i].address = index[i] /\ all[i] \in R
    BY <1>1, <1>4 DEF DeveloperBalance
  <2> HIDE DEF R
  <2>2. all \in [1..n -> R]
    BY <1>4, <2>1
  <2> QED BY <1>1, <2>1, <2>2
<1> HIDE DEF all, e, R
<1>7. /\ page \in Seq(R) /\ Len(page) = e - p /\ \A i \in 1..e - p : page[i] = all[p + i]
  <2>1. p \in Nat /\ e \in p..Len(all)
    BY <1>1, <1>3, <1>5
  <2> QED BY <1>5, <2>1, PageOf
<1> HIDE DEF page
<1>8. Addresses(page) = SubSeq(index, p + 1, e)
  <2>0. e \in Nat /\ e <= n /\ p <= e
    BY <1>1, <1>3
  <2> DEFINE q == Addresses(page)
  <2>1. DOMAIN page = 1..e - p /\ e - p \in Nat
    <3>1. e - p \in Nat
      BY <1>1, <2>0
    <3> QED BY <1>7, <3>1
  <2>2. \A i \in 1..e - p : page[i].address = index[p + i] /\ index[p + i] \in Devs
    <3> TAKE i \in 1..e - p
    <3>1. p + i \in 1..n
      BY <1>1, <2>0
    <3> QED BY <1>1, <1>5, <1>7, <3>1
  <2>3. q = [i \in 1..e - p |-> page[i].address]
    BY <2>1 DEF Addresses
  <2>4. q \in Seq(Devs) /\ Len(q) = e - p /\ \A i \in 1..e - p : q[i] = index[p + i]
    <3>1. q \in [1..e - p -> Devs]
      BY <2>2, <2>3
    <3> QED BY <2>1, <2>2, <2>3, <3>1
  <2> HIDE DEF q
  <2>5. q = SubSeq(index, p + 1, e)
    BY <1>1, <1>3, <2>4, IsPageOf
  <2> QED BY <2>5 DEF q
<1>9. page = <<>> => e = p
  <2>1. page = <<>> => Len(page) = 0
    OBVIOUS
  <2>2. e \in Nat /\ p \in Nat
    BY <1>1, <1>3
  <2> QED BY <1>7, <2>1, <2>2
<1> QED BY <1>3, <1>6, <1>8, <1>9 DEF n

\* The page after a cursor, and the next cursor.
LEMMA CursorPage ==
    ASSUME Listing(index), NEW w, NEW p \in Nat, AtCursor(w, index, p), NEW limit \in PageLimits, NEW t
    PROVE  \E e \in p..Len(index) :
             /\ Addresses(GetPage(w.cursor, limit, t).result) = SubSeq(index, p + 1, e)
             /\ \/ e # 0 /\ GetPage(w.cursor, limit, t).next_cursor = index[e]
                \/ e = Len(index) /\ GetPage(w.cursor, limit, t).next_cursor = None
<1> DEFINE n == Len(index)
           size == Min({limit, MAX_DEVELOPER_BALANCES_PAGE_SIZE})
           after == After(w.cursor)
           k == Min({size, Len(after)})
           page == SubSeq(after, 1, k)
           got == GetPage(w.cursor, limit, t)
           e == p + k
<1>1. /\ index \in Seq(Devs) /\ n \in Nat /\ DOMAIN index = 1..n /\ p \in 0..n
      /\ Len(index) = n /\ n - p \in Nat
      /\ w.cursor = (IF p = 0 THEN None ELSE index[p])
  BY DEF Listing, AtCursor, UpTo
<1>2. size \in Nat /\ size >= 1
  <2>1. {limit, MAX_DEVELOPER_BALANCES_PAGE_SIZE} \in SUBSET Nat /\ limit >= 1
        /\ MAX_DEVELOPER_BALANCES_PAGE_SIZE >= 1
    BY PageAssumption
  <2>2. size \in {limit, MAX_DEVELOPER_BALANCES_PAGE_SIZE}
    BY <2>1, NatMin
  <2> QED BY <2>1, <2>2
<1>3. /\ after \in Seq(Devs) /\ Len(after) = n - p
      /\ \A i \in 1..n - p : after[i] = index[p + i]
  <2>1. CASE p = 0
    <3>1. after = index
      BY <1>1, <2>1 DEF After
    <3> HIDE DEF after
    <3> QED BY <1>1, <2>1, <3>1
  <2>2. CASE p # 0
    <3> DEFINE places == {i \in DOMAIN index : index[i] = w.cursor} \cup {n}
    <3>1. w.cursor = index[p] /\ p \in 1..n /\ w.cursor # None
      BY <1>1, <2>2, PageAssumption
    <3>2. places \in SUBSET Nat /\ p \in places /\ \A i \in places : p <= i
      <4>1. \A i \in DOMAIN index : index[i] = w.cursor => i = p
        BY <1>1, <3>1 DEF Listing, IsInjective
      <4>2. p \in DOMAIN index /\ index[p] = w.cursor
        BY <1>1, <3>1
      <4>3. p \in Nat /\ p <= n /\ p <= p
        BY <1>1
      <4>4. \A i \in places : i = p \/ i = n
        BY <4>1
      <4> QED BY <1>1, <4>2, <4>3, <4>4
    <3>3. Min(places) = p
      <4>1. Min(places) \in places /\ \A x \in places : Min(places) <= x
        <5> HIDE DEF places
        <5> QED BY <3>2, NatMin
      <4> HIDE DEF places
      <4>2. p <= Min(places) /\ Min(places) <= p /\ Min(places) \in Nat
        BY <3>2, <4>1
      <4> QED BY <4>2, <3>1
    <3>4. after = SubSeq(index, p + 1, n)
      BY <3>1, <3>3 DEF After
    <3> HIDE DEF after
    <3>5. n \in p..Len(index)
      BY <1>1
    <3> QED BY <1>1, <3>4, <3>5, PageOf
  <2> QED BY <2>1, <2>2
<1>4. /\ DOMAIN got.result = DOMAIN page /\ \A i \in DOMAIN page : got.result[i].address = page[i]
      /\ got.next_cursor = IF size > 0 /\ Len(page) >= size THEN Last(page) ELSE None
  BY DEF GetPage, DeveloperBalance
<1>5. Addresses(got.result) = [i \in DOMAIN page |-> page[i]]
  BY <1>4 DEF Addresses
<1> HIDE DEF size, after, got, n
<1>6. k \in Nat /\ k <= n - p /\ (k = size \/ k = n - p) /\ k <= size
  <2>1. {size, Len(after)} \in SUBSET Nat
    BY <1>1, <1>2, <1>3
  <2>2. k \in {size, Len(after)} /\ k <= size /\ k <= Len(after)
    BY <2>1, NatMin
  <2> QED BY <1>1, <1>3, <2>1, <2>2
<1> HIDE DEF k
<1>7. /\ page \in Seq(Devs) /\ Len(page) = k /\ DOMAIN page = 1..k
      /\ \A i \in 1..k : page[i] = index[p + i]
  <2>1. k \in 0..Len(after) /\ 0 \in Nat
    BY <1>1, <1>3, <1>6
  <2>2. /\ SubSeq(after, 0 + 1, k) \in Seq(Devs) /\ Len(SubSeq(after, 0 + 1, k)) = k - 0
        /\ \A i \in 1..k - 0 : SubSeq(after, 0 + 1, k)[i] = after[0 + i]
    BY <1>3, <2>1, PageOf
  <2>3. 0 + 1 = 1 /\ k - 0 = k /\ \A i \in 1..k : 0 + i = i /\ i \in 1..n - p
    BY <1>1, <1>6
  <2> QED BY <1>3, <2>2, <2>3
<1> HIDE DEF page
<1>8. e \in p..n /\ e - p = k /\ e \in Nat
  BY <1>1, <1>6
<1>9. Addresses(got.result) = SubSeq(index, p + 1, e)
  <2>1. [i \in DOMAIN page |-> page[i]] = page
    BY <1>7
  <2>2. page = SubSeq(index, p + 1, e)
    BY <1>1, <1>7, <1>8, IsPageOf
  <2> QED BY <1>5, <2>1, <2>2
<1>10. CASE k = size
  <2>1. got.next_cursor = page[k]
    BY <1>2, <1>4, <1>7, <1>10 DEF Last
  <2>2. got.next_cursor = index[e] /\ e # 0
    BY <1>1, <1>2, <1>7, <1>10, <2>1
  <2> QED BY <1>8, <1>9, <2>2 DEF got, n
<1>11. CASE k # size
  <2>1. e = n
    BY <1>1, <1>6, <1>11
  <2>2. ~(Len(page) >= size)
    BY <1>2, <1>6, <1>7, <1>11
  <2>3. got.next_cursor = None
    BY <1>4, <2>2
  <2> QED BY <1>8, <1>9, <2>1, <2>3 DEF got, n
<1> QED BY <1>10, <1>11

\* Whatever the job does keeps it on its way.
LEMMA WalkStepKeeps == ASSUME Kept, Walked, WalkStep PROVE Walked'
<1>1. UNCHANGED vars
  BY DEF WalkStep, StartWalk, ReadAll, ReadPosition, ReadCursor
<1>2. /\ index' = index /\ Listing(index) /\ Grown(index, index)
      /\ index \in Seq(Devs) /\ Len(index) \in Nat /\ DOMAIN index = 1..Len(index)
  BY <1>1, GrownSelf DEF vars, credits, Kept, Listing
<1>3. ASSUME NEW way \in {"all", "position", "cursor"}, StartWalk(way) PROVE Walked'
  <2> DEFINE w == [way |-> way, began |-> index, seen |-> <<>>, cursor |-> None, done |-> FALSE]
  <2>1. walk' = w
    BY <1>3 DEF StartWalk
  <2>2. /\ w.way = way /\ w.began = index /\ w.seen = <<>> /\ w.cursor = None /\ w.done = FALSE
        /\ w \in Jobs
    BY <1>2 DEF Jobs
  <2> HIDE DEF w
  <2>3. Len(w.seen) = 0 /\ DOMAIN w.seen = {}
    BY <2>2
  <2>4. UpTo(w, index, 0)
    BY <1>2, <2>3 DEF UpTo
  <2>5. AtCursor(w, index, 0)
    BY <2>2, <2>3, <2>4 DEF AtCursor, OnceEach, IsInjective
  <2>6. OnItsWay(w, index)
    BY <1>2, <2>2, <2>3, <2>4, <2>5 DEF OnItsWay
  <2> QED BY <1>2, <2>1, <2>6 DEF Walked
<1>4. ASSUME NEW c, NEW t, ReadAll(c, t) PROVE Walked'
  <2> DEFINE w == walk'
  <2>1. walk # None /\ OnItsWay(walk, index) /\ walk.way = "all" /\ walk \in Jobs
    BY <1>4 DEF ReadAll, Walking, Walked, OnItsWay
  <2>2. Addresses(AllDeveloperBalances(t)) = index
    BY <1>2 DEF Addresses, AllDeveloperBalances, DeveloperBalance
  <2>3. w = [walk EXCEPT !.seen = index, !.done = TRUE]
    BY <1>4, <2>2 DEF ReadAll
  <2> HIDE DEF w
  <2>4. /\ w \in Jobs /\ w.way = "all" /\ w.began = walk.began /\ w.seen = index /\ w.done = TRUE
    BY <1>2, <2>1, <2>3 DEF Jobs
  <2>5. Listing(w.began) /\ Grown(w.began, index)
    BY <2>1, <2>4 DEF OnItsWay
  <2>6. Through(w, index)
    <3>1. Range(w.began) \subseteq Range(index)
      BY <2>5 DEF Grown, Range
    <3> QED BY <1>2, <2>4, <3>1 DEF Through, Listing
  <2>7. OnItsWay(w, index)
    BY <2>4, <2>5, <2>6 DEF OnItsWay
  <2> QED BY <1>2, <2>7 DEF Walked, w
<1>5. ASSUME NEW c, NEW t, NEW limit \in PageLimits, ReadPosition(c, limit, t) PROVE Walked'
  <2> DEFINE w == walk'
             p == Len(walk.seen)
             page == DeveloperBalancesPage(p, limit, t)
  <2>1. walk # None /\ OnItsWay(walk, index) /\ walk.way = "position" /\ ~walk.done /\ walk \in Jobs
    BY <1>5 DEF ReadPosition, Walking, Walked, OnItsWay
  <2>2. UpTo(walk, index, p) /\ p \in 0..Len(index) /\ p \in Nat
    BY <1>2, <2>1 DEF OnItsWay, UpTo
  <2>3. w = [walk EXCEPT !.seen = @ \o Addresses(page), !.done = (page = <<>>)]
    BY <1>5 DEF ReadPosition
  <2> HIDE DEF page
  <2>4. PICK e \in p..Len(index) :
             /\ Addresses(page) = SubSeq(index, p + 1, e)
             /\ page = <<>> => e = Len(index) /\ p = e
    BY <1>2, <2>2, PositionPage DEF page
  <2> HIDE DEF w, p
  <2>5. /\ w \in Jobs /\ w.way = "position" /\ w.began = walk.began /\ w.done = (page = <<>>)
        /\ w.seen = walk.seen \o SubSeq(index, p + 1, e)
    <3> DEFINE v == walk.seen \o SubSeq(index, p + 1, e)
    <3>1. v \in Seq(Devs)
      BY <1>2, <2>1, <2>2, PageOf, Joined DEF Jobs
    <3>2. w = [walk EXCEPT !.seen = v, !.done = (page = <<>>)]
      BY <2>3, <2>4
    <3> HIDE DEF v
    <3>3. w \in Jobs /\ w.way = "position" /\ w.began = walk.began /\ w.done = (page = <<>>) /\ w.seen = v
      BY <2>1, <3>1, <3>2 DEF Jobs
    <3> QED BY <3>3 DEF v
  <2>6. Listing(w.began) /\ Grown(w.began, index)
    BY <2>1, <2>5 DEF OnItsWay
  <2>7. UpTo(w, index, e)
    BY <1>2, <2>1, <2>2, <2>5, PageAdvances
  <2>8. Len(w.seen) = e
    <3>1. walk.seen \in Seq(Devs) /\ Len(walk.seen) = p
      BY <2>1 DEF Jobs, p
    <3>2. SubSeq(index, p + 1, e) \in Seq(Devs) /\ Len(SubSeq(index, p + 1, e)) = e - p
      BY <1>2, <2>2, PageOf
    <3>3. Len(w.seen) = p + (e - p)
      BY <2>5, <3>1, <3>2, Joined
    <3> QED BY <1>2, <2>2, <3>3
  <2>9. CASE page = <<>>
    <3>1. Through(w, index)
      BY <1>2, <2>4, <2>5, <2>6, <2>7, <2>9, EndIsThrough
    <3> QED BY <1>2, <2>5, <2>6, <2>9, <3>1 DEF Walked, OnItsWay, w
  <2>10. CASE page # <<>>
    BY <1>2, <2>5, <2>6, <2>7, <2>8, <2>10 DEF Walked, OnItsWay, w
  <2> QED BY <2>9, <2>10
<1>6. ASSUME NEW c, NEW t, NEW limit \in PageLimits, ReadCursor(c, limit, t) PROVE Walked'
  <2> DEFINE w == walk'
             got == GetPage(walk.cursor, limit, t)
  <2>1. walk # None /\ OnItsWay(walk, index) /\ walk.way = "cursor" /\ ~walk.done /\ walk \in Jobs
    BY <1>6 DEF ReadCursor, Walking, Walked, OnItsWay
  <2>2. PICK p \in Nat : AtCursor(walk, index, p)
    BY <2>1 DEF OnItsWay
  <2>3. UpTo(walk, index, p) /\ p \in 0..Len(index)
    BY <2>2 DEF AtCursor, UpTo
  <2>4. w = [walk EXCEPT !.seen = @ \o Addresses(got.result), !.cursor = got.next_cursor,
                         !.done = (got.next_cursor = None)]
    BY <1>6 DEF ReadCursor
  <2> HIDE DEF got
  <2>5. PICK e \in p..Len(index) :
             /\ Addresses(got.result) = SubSeq(index, p + 1, e)
             /\ \/ e # 0 /\ got.next_cursor = index[e]
                \/ e = Len(index) /\ got.next_cursor = None
    BY <1>2, <2>2, CursorPage DEF got
  <2> HIDE DEF w
  <2>6. e \in Nat /\ (e # 0 => index[e] \in Devs /\ index[e] # None)
    <3>1. e \in Nat /\ (e # 0 => e \in DOMAIN index)
      BY <1>2, <2>3
    <3> QED BY <1>2, <3>1, PageAssumption
  <2>7. /\ w \in Jobs /\ w.way = "cursor" /\ w.began = walk.began
        /\ w.cursor = got.next_cursor /\ w.done = (got.next_cursor = None)
        /\ w.seen = walk.seen \o SubSeq(index, p + 1, e)
    <3> DEFINE v == walk.seen \o SubSeq(index, p + 1, e)
               n == got.next_cursor
    <3>1. v \in Seq(Devs)
      BY <1>2, <2>1, <2>3, PageOf, Joined DEF Jobs
    <3>2. w = [walk EXCEPT !.seen = v, !.cursor = n, !.done = (n = None)]
      BY <2>4, <2>5
    <3>3. n \in Devs \cup {None}
      BY <2>5, <2>6
    <3> HIDE DEF v, n
    <3>4. /\ w \in Jobs /\ w.way = "cursor" /\ w.began = walk.began
          /\ w.cursor = n /\ w.done = (n = None) /\ w.seen = v
      BY <2>1, <3>1, <3>2, <3>3 DEF Jobs
    <3> QED BY <3>4 DEF v, n
  <2>8. Listing(w.began) /\ Grown(w.began, index)
    BY <2>1, <2>7 DEF OnItsWay
  <2>9. UpTo(w, index, e)
    BY <1>2, <2>1, <2>3, <2>7, PageAdvances
  <2>10. OnceEach(w, index, e)
    <3>1. /\ walk \in Jobs /\ Listing(index) /\ p \in Nat /\ AtCursor(walk, index, p)
          /\ e \in p..Len(index) /\ w \in Jobs /\ w.seen = walk.seen \o SubSeq(index, p + 1, e)
      BY <1>2, <2>1, <2>2, <2>7
    <3> QED BY ONLY <3>1, CursorAdvances
  <2>11. CASE e # 0 /\ got.next_cursor = index[e]
    <3>1. AtCursor(w, index, e)
      BY <2>7, <2>9, <2>10, <2>11 DEF AtCursor
    <3>2. ~w.done
      BY <2>6, <2>7, <2>11
    <3> QED BY <1>2, <2>6, <2>7, <2>8, <3>1, <3>2 DEF Walked, OnItsWay, w
  <2>12. CASE e = Len(index) /\ got.next_cursor = None
    <3>1. Through(w, index)
      BY <1>2, <2>7, <2>8, <2>9, <2>10, <2>12, EndIsThrough DEF OnceEach
    <3> QED BY <1>2, <2>7, <2>8, <2>12, <3>1 DEF Walked, OnItsWay, w
  <2> QED BY <2>5, <2>11, <2>12
<1> QED BY <1>3, <1>4, <1>5, <1>6 DEF WalkStep

\* A reconciliation job that walks the developers page by page, or all at once, misses
\* nobody who was listed when it began, wherever payments insert others meanwhile; by cursor
\* it sees nobody twice.
THEOREM NobodyIsMissed == WalkSpec => []WalksMissNobody
<1> DEFINE Inv == Accounted /\ Walked
<1>1. WalkInit => Inv
  BY DeployedAccounted DEF WalkInit, Walked
<1>2. Inv /\ [WalkNext]_<<migrationVars, walk>> => Inv'
  <2> SUFFICES ASSUME Accounted, Walked, [WalkNext]_<<migrationVars, walk>> PROVE Accounted' /\ Walked'
    OBVIOUS
  <2>1. Accounted' /\ Grown(index, index')
    BY WalkNextKeeps
  <2>2. CASE UNCHANGED walk
    <3>1. Listing(index) /\ Listing(index')
      BY <2>1 DEF Accounted, Kept
    <3>2. walk # None => OnItsWay(walk, index')
      BY <2>1, <3>1, JoiningKeeps DEF Walked
    <3> QED BY <2>1, <2>2, <3>2 DEF Walked
  <2>3. CASE WalkStep
    BY <2>1, <2>3, WalkStepKeeps DEF Accounted
  <2> QED BY <2>2, <2>3 DEF WalkNext
<1>3. Inv => WalksMissNobody
  <2> SUFFICES ASSUME Walked, walk # None, walk.done
               PROVE  /\ Range(walk.began) \subseteq Range(walk.seen)
                      /\ walk.way # "position" => IsInjective(walk.seen)
                      /\ walk.began = index => walk.seen = index
    BY DEF WalksMissNobody
  <2> QED BY DEF Walked, OnItsWay, Through
<1> QED BY <1>1, <1>2, <1>3, PTL DEF WalkSpec

-----------------------------------------------------------------------------
(* The backend, between the vault and the settlement contract.             *)

Accounts == {Owner, Backend, Wallet, Self, VaultAddr}

\* What the replay guard keeps for the payee of a charge.
MarkOf(c) == IF Payee(c) = None THEN poolMark ELSE mark[Payee(c)]

BillsTyped ==
    /\ RolesTyped /\ PursesTyped /\ TimeTyped
    /\ usdcToken = Token /\ pool \in Int
    /\ poolMark \in Int /\ mark \in [Devs -> Int]
    /\ tracked \in Int /\ usdc \in [Accounts -> Int] /\ held[Token] = usdc[Self]
    /\ stage \in [DOMAIN Charges -> {"metered", "collected", "claimed", "credited"}]
    /\ claim \in [DOMAIN Charges -> Nat] /\ timesCredited \in [DOMAIN Charges -> 0..1]
    /\ ledger \in Nat \ {0}

\* Both books balance.
MoneyReconciles ==
    /\ usdc[Self] = pool + OwedIn(Token) + Sum(Price, OpenCharges)
    /\ usdc[VaultAddr] = tracked

\* A claim that was sent is below the mark of its payee exactly when it was credited, and the
\* one that is not is the only one of its payee that is open.
ClaimAccounted(c) ==
    /\ claim[c] = 0 <=> stage[c] \in {"metered", "collected"}
    /\ IF timesCredited[c] = 1 THEN claim[c] > 0 /\ claim[c] <= MarkOf(c)
       ELSE claim[c] > 0 => stage[c] = "claimed" /\ claim[c] > MarkOf(c)
    /\ stage[c] = "claimed" =>
         \A other \in DOMAIN Charges \ {c} : Payee(other) = Payee(c) => stage[other] # "claimed"
    /\ MarkOf(c) <= 0 \/
         \E other \in DOMAIN Charges : Payee(other) = Payee(c) /\ MarkOf(c) <= claim[other]
ClaimsAccounted == \A c \in DOMAIN Charges : ClaimAccounted(c)

\* The token is one of the tokens; prices are numbers.
LEMMA BillingConstants ==
    /\ Token \in Tokens /\ IsFiniteSet(DOMAIN Charges)
    /\ DOMAIN Price = DOMAIN Charges
    /\ \A c \in DOMAIN Charges : Price[c] = Charges[c].amount /\ Price[c] \in Nat
                                 /\ Payee(c) \in Devs \cup {None}
BY BillingAssumption, AccountAssumption DEF Token, Price, Payee

\* A batch of the vault charges the sum of its items.
LEMMA TotalFold ==
    ASSUME NEW items, Len(items) \in Nat
    PROVE  \E g : /\ g[0] = 0
                  /\ \A i \in 1..Len(items) : g[i] = g[i - 1] + items[i].amount
                  /\ V!Total(items) = g[Len(items)]
<1> DEFINE IsFold(g, n) == g = [i \in 0..n |-> IF i = 0 THEN 0 ELSE g[i - 1] + items[i].amount]
           Good == {n \in Nat : \E g : IsFold(g, n)}
<1>1. 0 \in Good
  <2>1. IsFold([i \in 0..0 |-> 0], 0)
    OBVIOUS
  <2> QED BY <2>1
<1>2. ASSUME NEW n \in Nat, n \in Good PROVE n + 1 \in Good
  <2>1. PICK g : IsFold(g, n)
    BY <1>2
  <2> DEFINE h == [i \in 0..n + 1 |-> IF i <= n THEN g[i] ELSE g[n] + items[n + 1].amount]
  <2>2. ASSUME NEW i \in 0..n + 1
        PROVE  h[i] = IF i = 0 THEN 0 ELSE h[i - 1] + items[i].amount
    <3>1. CASE i <= n
      <4>1. i \in 0..n /\ h[i] = g[i] /\ (i # 0 => i - 1 \in 0..n /\ h[i - 1] = g[i - 1])
        BY <3>1
      <4>2. g[i] = IF i = 0 THEN 0 ELSE g[i - 1] + items[i].amount
        BY <2>1, <4>1
      <4> HIDE DEF h, IsFold
      <4> QED BY <4>1, <4>2
    <3>2. CASE i = n + 1
      BY <2>1, <3>2
    <3> QED BY <3>1, <3>2
  <2>3. IsFold(h, n + 1)
    BY <2>2
  <2> HIDE DEF h, IsFold
  <2> QED BY <2>3
<1>3. Nat \subseteq Good
  <2> HIDE DEF Good
  <2> QED BY <1>1, <1>2, NatSetInduction
<1>4. \E g : IsFold(g, Len(items)) /\ V!Total(items) = g[Len(items)]
  <2>1. \E g : IsFold(g, Len(items))
    BY <1>3
  <2>2. V!Total(items) = (CHOOSE g : IsFold(g, Len(items)))[Len(items)]
    BY DEF V!Total
  <2> QED BY <2>1, <2>2
<1>5. PICK g : IsFold(g, Len(items)) /\ V!Total(items) = g[Len(items)]
  BY <1>4
<1>6. g[0] = 0 /\ \A i \in 1..Len(items) : g[i] = g[i - 1] + items[i].amount
  BY <1>5
<1> QED BY <1>5, <1>6

\* A list of a finite set has each of its members once.
LEMMA ListOfSet ==
    ASSUME NEW S, IsFiniteSet(S)
    PROVE  /\ Cardinality(S) \in Nat
           /\ SetToSeq(S) \in [1..Cardinality(S) -> S]
           /\ \A i, j \in 1..Cardinality(S) : SetToSeq(S)[i] = SetToSeq(S)[j] => i = j
           /\ \A x \in S : \E i \in 1..Cardinality(S) : SetToSeq(S)[i] = x
<1> DEFINE n == Cardinality(S)
           s == SetToSeq(S)
<1>1. n \in Nat /\ IsFiniteSet(1..n) /\ Cardinality(1..n) = n
  BY FS_CardinalityType, FS_Interval
<1>2. \E f \in [1..n -> S] : IsInjective(f)
  <2>1. ExistsBijection(1..n, S)
    BY FS_CardinalityType
  <2> QED BY <2>1 DEF ExistsBijection, Bijection, Injection
<1>3. s \in [1..n -> S] /\ IsInjective(s)
  BY <1>2 DEF SetToSeq
<1> HIDE DEF n, s
<1>4. s \in Injection(1..n, S)
  BY <1>3 DEF Injection
<1>5. s \in Surjection(1..n, S)
  <2>1. Cardinality(1..n) = Cardinality(S)
    BY <1>1 DEF n
  <2> QED BY <1>1, <1>4, <2>1, FS_Injection
<1> QED BY <1>1, <1>3, <1>5 DEF n, s, IsInjective, Surjection

\* What a batch charges is the sum of the prices, whatever the order of its items.
LEMMA BatchIsSum ==
    ASSUME NEW ids \in SUBSET DOMAIN Charges, NEW open \in SUBSET DOMAIN Charges,
           ids \cap open = {}, NEW items,
           items = SetToSeq({[amount |-> Charges[c].amount, request_id |-> c] : c \in ids})
    PROVE  /\ V!Total(items) \in Nat
           /\ Sum(Price, open \cup ids) = Sum(Price, open) + V!Total(items)
<1> DEFINE item == [c \in ids |-> [amount |-> Charges[c].amount, request_id |-> c]]
           R == {item[c] : c \in ids}
           n == Cardinality(R)
<1>1. IsFiniteSet(ids) /\ IsFiniteSet(open) /\ IsFiniteSet(open \cup ids)
  BY BillingConstants, FS_Subset, FS_Union
<1>2. IsFiniteSet(R)
  <2>1. item \in Bijection(ids, R)
    BY DEF Bijection, Injection, IsInjective, Surjection
  <2> QED BY <1>1, <2>1, FS_Bijection DEF ExistsBijection
<1>3. items = SetToSeq(R)
  BY DEF item
<1>4. /\ n \in Nat /\ items \in [1..n -> R] /\ Len(items) = n
      /\ \A i, j \in 1..n : items[i] = items[j] => i = j
      /\ \A x \in R : \E i \in 1..n : items[i] = x
  <2>1. IsFiniteSet(R)
    BY <1>2
  <2> HIDE DEF R
  <2>2. /\ n \in Nat /\ SetToSeq(R) \in [1..n -> R]
        /\ \A i, j \in 1..n : SetToSeq(R)[i] = SetToSeq(R)[j] => i = j
        /\ \A x \in R : \E i \in 1..n : SetToSeq(R)[i] = x
    BY ONLY <2>1, ListOfSet
  <2> HIDE DEF n
  <2>3. items \in [1..n -> R] /\ n \in Nat
    BY <1>3, <2>2
  <2>4. Len(items) = n
    BY ONLY <2>3
  <2> QED BY <1>3, <2>2, <2>4
<1>5. \A x \in R : /\ x.request_id \in ids /\ x.amount = Price[x.request_id] /\ item[x.request_id] = x
                   /\ x.amount \in Nat
  BY BillingConstants
<1>6. \A c \in ids : item[c] \in R /\ item[c].request_id = c
  OBVIOUS
<1> HIDE DEF R, n, item
<1>7. PICK g : /\ g[0] = 0 /\ \A i \in 1..n : g[i] = g[i - 1] + items[i].amount
               /\ V!Total(items) = g[n]
  <2>1. Len(items) = n /\ Len(items) \in Nat
    BY <1>4
  <2>2. \E g : /\ g[0] = 0 /\ \A i \in 1..Len(items) : g[i] = g[i - 1] + items[i].amount
              /\ V!Total(items) = g[Len(items)]
    BY ONLY <2>1, TotalFold
  <2> QED BY <2>1, <2>2
<1> DEFINE done(k) == {items[i].request_id : i \in 1..k}
           Good == {k \in Nat : k <= n => /\ g[k] \in Nat
                                          /\ Sum(Price, open \cup done(k)) = Sum(Price, open) + g[k]}
<1>8. Sum(Price, open) \in Int
  <2>1. \A c \in open : Price[c] \in Int
    BY BillingConstants
  <2> QED BY <1>1, <2>1, SumRemove
<1>9. 0 \in Good
  <2> DEFINE T == open \cup done(0)
  <2>1. T = open
    OBVIOUS
  <2> HIDE DEF T
  <2>2. g[0] = 0 /\ Sum(Price, T) = Sum(Price, open)
    BY <1>7, <2>1
  <2>3. g[0] \in Nat /\ Sum(Price, T) = Sum(Price, open) + g[0]
    BY <1>8, <2>2
  <2> QED BY <2>3 DEF T
<1>10. ASSUME NEW k \in Nat, k \in Good PROVE k + 1 \in Good
  <2> SUFFICES ASSUME k + 1 <= n
               PROVE  /\ g[k + 1] \in Nat
                      /\ Sum(Price, open \cup done(k + 1)) = Sum(Price, open) + g[k + 1]
    OBVIOUS
  <2> DEFINE c == items[k + 1].request_id
             T == open \cup done(k + 1)
  <2>1. /\ g[k] \in Nat /\ Sum(Price, open \cup done(k)) = Sum(Price, open) + g[k]
    BY <1>4, <1>10
  <2>2. items[k + 1] \in R /\ c \in ids /\ items[k + 1].amount = Price[c] /\ Price[c] \in Nat
    BY <1>4, <1>5
  <2>3. g[k + 1] = g[k] + Price[c]
    BY <1>4, <1>7, <2>2
  <2>4. T \ {c} = open \cup done(k) /\ c \in T
    <3>1. \A i \in 1..k : items[i].request_id # c
      <4>1. \A i \in 1..k : i \in 1..n /\ k + 1 \in 1..n /\ i # k + 1
        BY <1>4
      <4>2. \A i \in 1..k : items[i] \in R
        BY <1>4, <4>1
      <4> QED BY <1>4, <1>5, <2>2, <4>1, <4>2
    <3>2. c \notin open
      BY <2>2
    <3>3. done(k + 1) = done(k) \cup {c}
      OBVIOUS
    <3>4. c \notin done(k)
      BY <3>1
    <3> HIDE DEF done, c
    <3> QED BY <3>2, <3>3, <3>4
  <2>5. IsFiniteSet(T) /\ \A x \in T : Price[x] \in Int
    <3>1. done(k + 1) \subseteq ids
      <4>1. \A i \in 1..k + 1 : i \in 1..n
        BY <1>4
      <4> QED BY <1>4, <1>5, <4>1
    <3> HIDE DEF done
    <3>2. IsFiniteSet(T)
      BY <1>1, <3>1, FS_Subset
    <3> QED BY <3>1, <3>2, BillingConstants
  <2> HIDE DEF T
  <2>6. Sum(Price, T) = Price[c] + Sum(Price, T \ {c})
    BY <2>4, <2>5, SumRemove
  <2>7. Sum(Price, T) = Price[c] + (Sum(Price, open) + g[k])
    BY <2>1, <2>4, <2>6
  <2> HIDE DEF c, done
  <2> QED BY <1>8, <2>1, <2>2, <2>3, <2>7 DEF T
<1>11. Nat \subseteq Good
  <2> HIDE DEF Good
  <2> QED BY <1>9, <1>10, NatSetInduction
<1>12. n \in Good
  BY <1>4, <1>11
<1>13. done(n) = ids
  <2>1. \A i \in 1..n : items[i].request_id \in ids
    BY <1>4, <1>5
  <2>2. \A c \in ids : \E i \in 1..n : items[i] = item[c]
    BY <1>4, <1>6
  <2>3. \A c \in ids : \E i \in 1..n : items[i].request_id = c
    BY <1>6, <2>2
  <2> QED BY <2>1, <2>3
<1> HIDE DEF done
<1> QED BY <1>4, <1>7, <1>12, <1>13

\* A transfer between two accounts.
LEMMA TransferMoves ==
    ASSUME usdc \in [Accounts -> Int], NEW from \in Accounts, NEW to \in Accounts, from # to,
           NEW n \in Int, V!Transfer(from, to, n)
    PROVE  /\ usdc' \in [Accounts -> Int]
           /\ usdc'[from] = usdc[from] - n /\ usdc'[to] = usdc[to] + n
           /\ \A a \in Accounts \ {from, to} : usdc'[a] = usdc[a]
<1>1. usdc' = [usdc EXCEPT ![from] = @ - n, ![to] = @ + n]
  BY DEF V!Transfer, V!Transferred
<1> QED BY <1>1

\* What is owed and what is still open.
Due == pool + OwedIn(Token) + Sum(Price, OpenCharges)

\* Sums of balances and prices are numbers.
LEMMA DueIsInt ==
    ASSUME BillsTyped
    PROVE  /\ OwedIn(Token) \in Int /\ Sum(Price, OpenCharges) \in Int /\ Due \in Int
           /\ IsFiniteSet(OpenCharges) /\ OpenCharges \subseteq DOMAIN Charges
<1>1. IsFiniteSet(OpenCharges) /\ \A c \in OpenCharges : Price[c] \in Int
  BY BillingConstants, FS_Subset DEF OpenCharges
<1>2. Sum(Price, OpenCharges) \in Int
  BY <1>1, SumRemove
<1>3. OwedIn(Token) \in Int
  <2> DEFINE f == [d \in Devs |-> balance[d][Token]]
  <2>1. \A d \in Devs : f[d] \in Int
    BY BillingConstants, BoundAssumption DEF BillsTyped, PursesTyped, Balances
  <2>2. OwedIn(Token) = Sum(f, Devs)
    BY DEF OwedIn, Sum
  <2> HIDE DEF f
  <2> QED BY <2>1, <2>2, AddressAssumption, SumRemove
<1>4. pool \in Int
  BY DEF BillsTyped
<1> HIDE DEF OwedIn
<1>5. Due \in Int
  BY <1>2, <1>3, <1>4 DEF Due
<1> QED BY <1>1, <1>2, <1>3, <1>5 DEF OpenCharges

Billed == BillsTyped /\ MoneyReconciles /\ ClaimsAccounted

\* Where neither contract's books of payments nor the backend's change, only USDC counts.
LEMMA SameBooks ==
    ASSUME UNCHANGED <<pool, balance, stage, timesCredited>> PROVE Due' = Due
BY DEF Due, OwedIn, OpenCharges

LEMMA SameClaims ==
    ASSUME ClaimsAccounted, UNCHANGED <<marks, stage, claim, timesCredited>> PROVE ClaimsAccounted'
BY DEF ClaimsAccounted, ClaimAccounted, MarkOf, marks

\* Before anything is collected there is nothing to reconcile.
LEMMA BillingOpens == ASSUME BillingInit PROVE Billed
<1>1. BillsTyped
  <2>1. RolesTyped
    BY BillingConstants, AccountAssumption DEF BillingInit, RolesTyped
  <2>2. PursesTyped /\ TimeTyped
    BY BoundAssumption DEF BillingInit, PursesTyped, TimeTyped, Balances, Tallies
  <2>3. usdcToken = Token /\ pool \in Int /\ poolMark \in Int /\ mark \in [Devs -> Int]
    BY DEF BillingInit
  <2>4. tracked \in Int /\ usdc \in [Accounts -> Int] /\ held[Token] = usdc[Self]
    BY BillingConstants, BillingAssumption, AccountAssumption DEF BillingInit, Accounts
  <2>5. /\ stage \in [DOMAIN Charges -> {"metered", "collected", "claimed", "credited"}]
        /\ claim \in [DOMAIN Charges -> Nat] /\ timesCredited \in [DOMAIN Charges -> 0..1]
        /\ ledger \in Nat \ {0}
    BY DEF BillingInit
  <2> QED BY <2>1, <2>2, <2>3, <2>4, <2>5 DEF BillsTyped
<1>2. MoneyReconciles
  <2>1. usdc[Self] = 0 /\ usdc[VaultAddr] = tracked /\ pool = 0
    BY AccountAssumption DEF BillingInit
  <2>2. OwedIn(Token) = 0
    <3> DEFINE f == [d \in Devs |-> balance[d][Token]]
    <3>1. \A d \in Devs : f[d] \in Nat /\ ~(f[d] > 0)
      BY BillingConstants DEF BillingInit
    <3>2. OwedIn(Token) = Sum(f, Devs)
      BY DEF OwedIn, Sum
    <3> HIDE DEF f
    <3>3. Sum(f, Devs) \in Nat /\ ~(Sum(f, Devs) > 0)
      BY <3>1, AddressAssumption, SumNat
    <3> QED BY <3>2, <3>3
  <2>3. OpenCharges = {}
    BY DEF BillingInit, OpenCharges
  <2>4. Sum(Price, {}) = 0
    BY BillingConstants, SumEquations
  <2> HIDE DEF OwedIn
  <2> QED BY <2>1, <2>2, <2>3, <2>4 DEF MoneyReconciles
<1>3. ClaimsAccounted
  BY BillingConstants DEF BillingInit, ClaimsAccounted, ClaimAccounted, MarkOf
<1> QED BY <1>1, <1>2, <1>3 DEF Billed

\* A deposit arrives on both books of the vault; a pause moves nothing.
LEMMA OwnerKeepsBills == ASSUME Billed, OwnerStep PROVE Billed'
<1>0. BillsTyped /\ MoneyReconciles /\ ClaimsAccounted
  BY DEF Billed
<1>1. UNCHANGED <<settlementRest, backendVars>> /\ held' = [held EXCEPT ![Token] = usdc'[Self]]
  BY DEF OwnerStep, VaultOnly, SameLedger
<1>2. /\ UNCHANGED <<roles, setup, marks, balance, pool, daily, now, stage, claim, timesCredited, ledger>>
      /\ UNCHANGED <<poolMark, mark, usdcToken>>
  BY <1>1 DEF settlementRest, backendVars, credits, marks, setup
<1>3. \E n \in Int : /\ usdc' \in [Accounts -> Int] /\ usdc'[Self] = usdc[Self]
                     /\ usdc'[VaultAddr] = usdc[VaultAddr] + n /\ tracked' = tracked + n
  <2>1. ASSUME NEW n \in Amounts, V!Deposit(Owner, n)
        PROVE  /\ usdc' \in [Accounts -> Int] /\ usdc'[Self] = usdc[Self] /\ n \in Int
               /\ usdc'[VaultAddr] = usdc[VaultAddr] + n /\ tracked' = tracked + n
    <3>1. V!Transfer(Owner, VaultAddr, n) /\ tracked' = tracked + n /\ n \in Int
      BY <2>1, BoundAssumption DEF V!Deposit
    <3>2. Owner \in Accounts /\ VaultAddr \in Accounts /\ Owner # VaultAddr
          /\ Self \in Accounts \ {Owner, VaultAddr} /\ usdc \in [Accounts -> Int]
      BY <1>0, AccountAssumption DEF Accounts, BillsTyped
    <3> QED BY <3>1, <3>2, TransferMoves
  <2>2. ASSUME V!Pause(Owner) \/ V!Unpause(Owner) PROVE UNCHANGED <<usdc, tracked>>
    BY <2>2 DEF V!Pause, V!Unpause, V!funds
  <2>3. CASE V!Pause(Owner) \/ V!Unpause(Owner)
    <3>1. /\ usdc' \in [Accounts -> Int] /\ usdc'[Self] = usdc[Self]
          /\ usdc'[VaultAddr] = usdc[VaultAddr] + 0 /\ tracked' = tracked + 0
      BY <1>0, <2>2, <2>3 DEF BillsTyped, Accounts
    <3> QED BY <3>1
  <2> QED BY <2>1, <2>3 DEF OwnerStep
<1>4. held' = held
  BY <1>0, <1>1, <1>3, BillingConstants DEF BillsTyped, PursesTyped
<1>5. RolesTyped' /\ PursesTyped' /\ TimeTyped'
  BY <1>0, <1>2, <1>4 DEF BillsTyped, RolesTyped, PursesTyped, TimeTyped, roles, setup
<1>6. BillsTyped'
  BY <1>0, <1>2, <1>3, <1>4, <1>5 DEF BillsTyped
<1>7. MoneyReconciles'
  <2>1. Due' = Due
    BY <1>2, SameBooks
  <2>2. usdc'[Self] = Due' /\ usdc'[VaultAddr] = tracked'
    BY <1>0, <1>3, <2>1 DEF MoneyReconciles, Due
  <2> QED BY <2>2 DEF MoneyReconciles, Due
<1>8. ClaimsAccounted'
  BY <1>0, <1>2, SameClaims
<1> QED BY <1>6, <1>7, <1>8 DEF Billed

\* A collection takes the prices of its charges, singly or in a batch.
LEMMA CollectTakes ==
    ASSUME Billed, NEW ids \in SUBSET DOMAIN Charges, CollectCharges(ids)
    PROVE  \E n \in Nat : /\ V!Collect(n)
                          /\ Sum(Price, OpenCharges \cup ids) = Sum(Price, OpenCharges) + n
<1>1. OpenCharges \in SUBSET DOMAIN Charges /\ ids \cap OpenCharges = {}
  BY DEF CollectCharges, OpenCharges
<1>2. CASE Cardinality(ids) = 1
  <2>1. PICK c \in ids : V!Deduct(Backend, Charges[c].amount, c)
    BY <1>2 DEF CollectCharges
  <2>2. IsFiniteSet(ids) /\ IsFiniteSet(OpenCharges \cup ids)
    BY <1>1, BillingConstants, FS_Subset, FS_Union
  <2>3. ids = {c}
    <3>1. \E x : ids = {x}
      BY <1>2, <2>2, FS_Singleton
    <3> QED BY <3>1
  <2>4. V!Collect(Price[c]) /\ Price[c] \in Nat
    BY <2>1, BillingConstants DEF V!Deduct
  <2>5. \A x \in OpenCharges \cup ids : Price[x] \in Int
    BY <1>1, BillingConstants
  <2> DEFINE T == OpenCharges \cup ids
  <2>6. T \ {c} = OpenCharges /\ c \in T
    BY <1>1, <2>3
  <2>7. IsFiniteSet(T) /\ \A x \in T : Price[x] \in Int
    BY <2>2, <2>5
  <2> HIDE DEF T
  <2>8. Sum(Price, T) = Price[c] + Sum(Price, OpenCharges) /\ Sum(Price, OpenCharges) \in Int
    <3>1. Sum(Price, T) = Price[c] + Sum(Price, T \ {c})
      BY <2>6, <2>7, SumRemove
    <3>2. Sum(Price, OpenCharges) \in Int
      BY DueIsInt DEF Billed
    <3> QED BY <2>6, <3>1, <3>2
  <2>9. Sum(Price, T) = Sum(Price, OpenCharges) + Price[c]
    BY <2>4, <2>8
  <2> QED BY <2>4, <2>9 DEF T
<1>3. CASE Cardinality(ids) # 1
  <2> DEFINE items == SetToSeq({[amount |-> Charges[c].amount, request_id |-> c] : c \in ids})
  <2>1. V!BatchDeduct(Backend, items)
    BY <1>3 DEF CollectCharges
  <2>2. V!Collect(V!Total(items))
    BY <2>1 DEF V!BatchDeduct
  <2>3. /\ V!Total(items) \in Nat
        /\ Sum(Price, OpenCharges \cup ids) = Sum(Price, OpenCharges) + V!Total(items)
    BY <1>1, BatchIsSum
  <2> HIDE DEF items
  <2> QED BY <2>2, <2>3
<1> QED BY <1>2, <1>3

\* What a collection takes from the vault is there for the settlement contract, and due.
LEMMA CollectionKeepsBills ==
    ASSUME Billed, NEW ids \in SUBSET DOMAIN Charges, CollectCharges(ids) PROVE Billed'
<1>0. BillsTyped /\ MoneyReconciles /\ ClaimsAccounted
  BY DEF Billed
<1>1. /\ UNCHANGED <<settlementRest, claim, timesCredited, ledger>>
      /\ held' = [held EXCEPT ![Token] = usdc'[Self]]
      /\ stage' = [c \in DOMAIN stage |-> IF c \in ids THEN "collected" ELSE stage[c]]
      /\ \A c \in ids : stage[c] = "metered"
  BY DEF CollectCharges, SameLedger
<1>2. UNCHANGED <<roles, setup, balance, pool, daily, now, poolMark, mark, usdcToken>>
  BY <1>1 DEF settlementRest, credits, marks, setup
<1>3. PICK n \in Nat : /\ V!Collect(n)
                       /\ Sum(Price, OpenCharges \cup ids) = Sum(Price, OpenCharges) + n
  BY CollectTakes
<1>4. /\ usdc' \in [Accounts -> Int] /\ usdc'[Self] = usdc[Self] + n
      /\ usdc'[VaultAddr] = usdc[VaultAddr] - n /\ tracked' = tracked - n
  <2>1. V!Transfer(VaultAddr, Self, n) /\ tracked' = tracked - n
    BY <1>3 DEF V!Collect, Fixed
  <2>2. Self \in Accounts /\ VaultAddr \in Accounts /\ Self # VaultAddr
        /\ usdc \in [Accounts -> Int] /\ n \in Int
    BY <1>0, AccountAssumption DEF Accounts, BillsTyped
  <2> QED BY <2>1, <2>2, TransferMoves
<1>5. held' \in [Tokens -> Nat] /\ held'[Token] = usdc'[Self]
  <2>1. held \in [Tokens -> Nat] /\ held[Token] = usdc[Self] /\ Token \in Tokens
    BY <1>0, BillingConstants DEF BillsTyped, PursesTyped
  <2>2. usdc'[Self] \in Nat
    BY <1>4, <2>1
  <2> QED BY <1>1, <2>1, <2>2
<1>6. RolesTyped' /\ PursesTyped' /\ TimeTyped'
  BY <1>0, <1>2, <1>5 DEF BillsTyped, RolesTyped, PursesTyped, TimeTyped, roles, setup
<1>7. stage' \in [DOMAIN Charges -> {"metered", "collected", "claimed", "credited"}]
      /\ \A c \in DOMAIN Charges : stage'[c] = IF c \in ids THEN "collected" ELSE stage[c]
  BY <1>0, <1>1 DEF BillsTyped
<1>8. BillsTyped'
  BY <1>0, <1>1, <1>2, <1>4, <1>5, <1>6, <1>7 DEF BillsTyped
<1>9. \A c \in ids : timesCredited[c] = 0
  BY <1>0, <1>1 DEF BillsTyped, ClaimsAccounted, ClaimAccounted
<1>10. OpenCharges' = OpenCharges \cup ids
  BY <1>1, <1>7, <1>9 DEF OpenCharges
<1>11. MoneyReconciles'
  <2>1. OwedIn(Token)' = OwedIn(Token) /\ pool' = pool
    BY <1>2 DEF OwedIn
  <2>2. Sum(Price, OpenCharges)' = Sum(Price, OpenCharges) + n
    BY <1>3, <1>10 DEF Sum, Price
  <2>3. OwedIn(Token) \in Int /\ Sum(Price, OpenCharges) \in Int /\ pool \in Int
        /\ usdc[VaultAddr] = tracked /\ usdc[Self] = pool + OwedIn(Token) + Sum(Price, OpenCharges)
    BY <1>0, DueIsInt DEF BillsTyped, MoneyReconciles
  <2>4. usdc'[Self] = pool' + OwedIn(Token)' + Sum(Price, OpenCharges)'
    <3> HIDE DEF OwedIn
    <3> QED BY <1>4, <2>1, <2>2, <2>3
  <2>5. usdc'[VaultAddr] = tracked'
    BY <1>4, <2>3
  <2> QED BY <2>4, <2>5 DEF MoneyReconciles
<1>12. ClaimsAccounted'
  <2> SUFFICES ASSUME NEW c \in DOMAIN Charges PROVE ClaimAccounted(c)'
    BY DEF ClaimsAccounted
  <2>1. ClaimAccounted(c)
    BY <1>0 DEF ClaimsAccounted
  <2>2. \A o \in DOMAIN Charges : /\ stage'[o] = "claimed" <=> stage[o] = "claimed"
                                  /\ stage'[o] \in {"metered", "collected"}
                                       <=> stage[o] \in {"metered", "collected"}
    BY <1>1, <1>7
  <2>3. UNCHANGED <<claim, timesCredited>> /\ MarkOf(c)' = MarkOf(c)
    BY <1>1, <1>2 DEF MarkOf
  <2> HIDE DEF MarkOf
  <2> QED BY <2>1, <2>2, <2>3 DEF ClaimAccounted
<1> QED BY <1>8, <1>11, <1>12 DEF Billed

\* What the backend only writes down moves no money.
LEMMA NotesKeepMoney ==
    ASSUME Billed, UNCHANGED <<vars, tracked, paused, usdc, timesCredited>>,
           stage' \in [DOMAIN Charges -> {"metered", "collected", "claimed", "credited"}],
           claim' \in [DOMAIN Charges -> Nat], ledger' \in Nat \ {0},
           \A c \in DOMAIN Charges : stage'[c] = "metered" <=> stage[c] = "metered"
    PROVE  BillsTyped' /\ MoneyReconciles' /\ \A c \in DOMAIN Charges : MarkOf(c)' = MarkOf(c)
<1>0. BillsTyped /\ MoneyReconciles
  BY DEF Billed
<1>1. UNCHANGED <<roles, setup, balance, pool, daily, held, now, poolMark, mark, usdcToken>>
  BY DEF vars, credits, payouts, marks, setup
<1>2. RolesTyped' /\ PursesTyped' /\ TimeTyped'
  BY <1>0, <1>1 DEF BillsTyped, RolesTyped, PursesTyped, TimeTyped, roles, setup
<1>3. BillsTyped'
  BY <1>0, <1>1, <1>2 DEF BillsTyped
<1>4. OpenCharges' = OpenCharges
  BY DEF OpenCharges
<1>5. OwedIn(Token)' = OwedIn(Token)
  BY <1>1 DEF OwedIn
<1>6. MoneyReconciles'
  BY <1>0, <1>1, <1>4, <1>5 DEF MoneyReconciles
<1> QED BY <1>1, <1>3, <1>6 DEF MarkOf

\* A new claim is above its payee's mark, which an earlier claim has set, if any.
LEMMA ClaimKeepsBills ==
    ASSUME Billed, NEW c \in DOMAIN Charges, Claim(c) PROVE Billed'
<1>0. BillsTyped /\ ClaimsAccounted
  BY DEF Billed
<1>1. /\ stage \in [DOMAIN Charges -> {"metered", "collected", "claimed", "credited"}]
      /\ claim \in [DOMAIN Charges -> Nat] /\ ledger \in Nat \ {0}
      /\ timesCredited \in [DOMAIN Charges -> 0..1]
  BY <1>0 DEF BillsTyped
<1>2. /\ stage[c] = "collected"
      /\ \A o \in DOMAIN Charges : Payee(o) = Payee(c) => stage[o] # "claimed" /\ claim[o] < ledger
      /\ \A o \in DOMAIN Charges : stage'[o] = IF o = c THEN "claimed" ELSE stage[o]
      /\ \A o \in DOMAIN Charges : claim'[o] = IF o = c THEN ledger ELSE claim[o]
      /\ UNCHANGED <<vars, tracked, paused, usdc, timesCredited, ledger>>
  BY <1>1 DEF Claim
<1>3. /\ stage' \in [DOMAIN Charges -> {"metered", "collected", "claimed", "credited"}]
      /\ claim' \in [DOMAIN Charges -> Nat] /\ ledger' \in Nat \ {0}
  BY <1>1 DEF Claim
<1>4. BillsTyped' /\ MoneyReconciles' /\ \A o \in DOMAIN Charges : MarkOf(o)' = MarkOf(o)
  BY <1>2, <1>3, NotesKeepMoney
<1>5. \A o \in DOMAIN Charges : MarkOf(o) \in Int /\ claim[o] \in Nat /\ timesCredited[o] \in 0..1
  BY <1>0, <1>1, BillingConstants DEF BillsTyped, MarkOf
<1>6. \A o \in DOMAIN Charges : Payee(o) = Payee(c) => MarkOf(o) = MarkOf(c)
  BY DEF MarkOf
<1>7. claim[c] = 0 /\ timesCredited[c] = 0
  <2>1. ClaimAccounted(c)
    BY <1>0 DEF ClaimsAccounted
  <2> HIDE DEF MarkOf
  <2> QED BY <1>2, <1>5, <2>1 DEF ClaimAccounted
<1>8. MarkOf(c) < ledger
  <2>1. ClaimAccounted(c)
    BY <1>0 DEF ClaimsAccounted
  <2>2. MarkOf(c) <= 0 \/ \E o \in DOMAIN Charges : Payee(o) = Payee(c) /\ MarkOf(c) <= claim[o]
    BY <2>1 DEF ClaimAccounted
  <2> HIDE DEF MarkOf
  <2> QED BY <1>1, <1>2, <1>5, <2>2
<1> HIDE DEF MarkOf
<1>9. ASSUME NEW o \in DOMAIN Charges PROVE ClaimAccounted(o)'
  <2>1. ClaimAccounted(o)
    BY <1>0 DEF ClaimsAccounted
  <2>2. MarkOf(o)' = MarkOf(o) /\ timesCredited' = timesCredited
    BY <1>2, <1>4
  <2>3. claim'[o] = 0 <=> stage'[o] \in {"metered", "collected"}
    BY <1>1, <1>2, <2>1 DEF ClaimAccounted
  <2>4. IF timesCredited[o] = 1 THEN claim'[o] > 0 /\ claim'[o] <= MarkOf(o)
        ELSE claim'[o] > 0 => stage'[o] = "claimed" /\ claim'[o] > MarkOf(o)
    <3>1. CASE o = c
      BY <1>1, <1>2, <1>5, <1>7, <1>8, <3>1
    <3>2. CASE o # c
      BY <1>2, <2>1, <3>2 DEF ClaimAccounted
    <3> QED BY <3>1, <3>2
  <2>5. stage'[o] = "claimed" =>
          \A x \in DOMAIN Charges \ {o} : Payee(x) = Payee(o) => stage'[x] # "claimed"
    BY <1>2, <2>1 DEF ClaimAccounted
  <2>6. MarkOf(o) <= 0 \/ \E x \in DOMAIN Charges : Payee(x) = Payee(o) /\ MarkOf(o) <= claim'[x]
    <3>1. \A x \in DOMAIN Charges : claim[x] <= claim'[x] /\ claim[x] \in Nat /\ claim'[x] \in Nat
      BY <1>1, <1>2, <1>5, <1>7
    <3>2. MarkOf(o) <= 0 \/ \E x \in DOMAIN Charges : Payee(x) = Payee(o) /\ MarkOf(o) <= claim[x]
      BY <2>1 DEF ClaimAccounted
    <3>3. MarkOf(o) \in Int
      BY <1>5
    <3> QED BY <3>1, <3>2, <3>3
  <2> QED BY <2>2, <2>3, <2>4, <2>5, <2>6 DEF ClaimAccounted
<1> QED BY <1>4, <1>9 DEF Billed, ClaimsAccounted

\* An answer is believed only when the claim was credited.
LEMMA ConfirmKeepsBills ==
    ASSUME Billed, NEW c \in DOMAIN Charges, Confirm(c) PROVE Billed'
<1>0. BillsTyped /\ ClaimsAccounted
  BY DEF Billed
<1>1. /\ stage \in [DOMAIN Charges -> {"metered", "collected", "claimed", "credited"}]
      /\ claim \in [DOMAIN Charges -> Nat] /\ ledger \in Nat \ {0}
      /\ timesCredited \in [DOMAIN Charges -> 0..1]
  BY <1>0 DEF BillsTyped
<1>2. /\ stage[c] = "claimed" /\ ~NewSince(MarkOf(c), claim[c])
      /\ \A o \in DOMAIN Charges : stage'[o] = IF o = c THEN "credited" ELSE stage[o]
      /\ UNCHANGED <<vars, tracked, paused, usdc, claim, timesCredited, ledger>>
  BY <1>1 DEF Confirm, MarkOf
<1>3. /\ stage' \in [DOMAIN Charges -> {"metered", "collected", "claimed", "credited"}]
      /\ claim' \in [DOMAIN Charges -> Nat] /\ ledger' \in Nat \ {0}
  BY <1>1, <1>2 DEF Confirm
<1>4. BillsTyped' /\ MoneyReconciles' /\ \A o \in DOMAIN Charges : MarkOf(o)' = MarkOf(o)
  BY <1>2, <1>3, NotesKeepMoney
<1>5. MarkOf(c) \in Int /\ claim[c] \in Nat
  BY <1>0, <1>1, BillingConstants DEF BillsTyped, MarkOf
<1> HIDE DEF MarkOf
<1>6. timesCredited[c] = 1 /\ claim[c] > 0
  <2>1. ClaimAccounted(c)
    BY <1>0 DEF ClaimsAccounted
  <2> QED BY <1>2, <1>5, <2>1 DEF ClaimAccounted, NewSince
<1>7. ASSUME NEW o \in DOMAIN Charges PROVE ClaimAccounted(o)'
  <2>1. ClaimAccounted(o)
    BY <1>0 DEF ClaimsAccounted
  <2>2. MarkOf(o)' = MarkOf(o) /\ timesCredited' = timesCredited /\ claim' = claim
    BY <1>2, <1>4
  <2> QED BY <1>2, <1>6, <2>1, <2>2 DEF ClaimAccounted
<1> QED BY <1>4, <1>7 DEF Billed, ClaimsAccounted

\* Ledgers close.
LEMMA LedgerKeepsBills == ASSUME Billed, CloseLedger PROVE Billed'
<1>0. BillsTyped /\ ClaimsAccounted
  BY DEF Billed
<1>1. UNCHANGED <<vars, tracked, paused, usdc, stage, claim, timesCredited>> /\ ledger' = ledger + 1
  BY DEF CloseLedger
<1>2. /\ stage' \in [DOMAIN Charges -> {"metered", "collected", "claimed", "credited"}]
      /\ claim' \in [DOMAIN Charges -> Nat] /\ ledger' \in Nat \ {0}
      /\ \A c \in DOMAIN Charges : stage'[c] = "metered" <=> stage[c] = "metered"
  BY <1>0, <1>1 DEF BillsTyped
<1>3. BillsTyped' /\ MoneyReconciles'
  BY <1>1, <1>2, NotesKeepMoney
<1>4. ClaimsAccounted'
  BY <1>0, <1>1, SameClaims DEF vars
<1> QED BY <1>3, <1>4 DEF Billed

\* A delivery credits the payee with the price, once, and raises its mark to the claim.
LEMMA DeliveryCredits ==
    ASSUME BillsTyped, NEW c \in DOMAIN Charges, Deliver(c)
    PROVE  /\ timesCredited[c] = 0 => BillsTyped'
           /\ pool' + OwedIn(Token)' = pool + OwedIn(Token) + Price[c]
           /\ pool' \in Int /\ OwedIn(Token)' \in Int
           /\ claim[c] > MarkOf(c)
           /\ \A o \in DOMAIN Charges :
                MarkOf(o)' = IF Payee(o) = Payee(c) THEN claim[c] ELSE MarkOf(o)
<1>1. /\ timesCredited' = [timesCredited EXCEPT ![c] = @ + 1] /\ claim[c] > 0
      /\ UNCHANGED <<tracked, paused, usdc, stage, claim, ledger>>
  BY DEF Deliver
<1>2. /\ Token \in Tokens /\ Price[c] = Charges[c].amount /\ Price[c] \in Nat
      /\ Payee(c) \in Devs \cup {None}
  BY BillingConstants
<1>3. /\ balance \in Balances /\ pool \in Int /\ poolMark \in Int /\ mark \in [Devs -> Int]
      /\ claim[c] \in Nat /\ OwedIn(Token) \in Int
      /\ \A d \in Devs : balance[d][Token] \in Int
  <2>1. balance \in Balances /\ pool \in Int /\ poolMark \in Int /\ mark \in [Devs -> Int]
        /\ claim[c] \in Nat
    BY DEF BillsTyped, PursesTyped
  <2>2. OwedIn(Token) \in Int
    BY DueIsInt
  <2>3. \A d \in Devs : balance[d][Token] \in Int
    BY <1>2, <2>1, BoundAssumption DEF Balances
  <2> QED BY <2>1, <2>2, <2>3
<1>4. CASE Payee(c) = None
  <2>1. ReceiveForPool(Backend, Charges[c].amount, Token, claim[c])
    BY <1>4 DEF Deliver
  <2>2. /\ claim[c] > poolMark /\ poolMark' = claim[c] /\ pool' = pool + Price[c]
        /\ UNCHANGED <<roles, setup, mark, balance, daily, held, now, usdcToken>>
    BY <1>2, <2>1 DEF ReceiveForPool, NewSince, payouts, setup
  <2>3. OwedIn(Token)' = OwedIn(Token)
    BY <2>2 DEF OwedIn
  <2>4. RolesTyped' /\ PursesTyped' /\ TimeTyped'
    BY <2>2 DEF BillsTyped, RolesTyped, PursesTyped, TimeTyped, roles, setup
  <2>5. pool' \in Int /\ poolMark' \in Int
    BY <1>2, <1>3, <2>2
  <2>6. timesCredited[c] = 0 => BillsTyped'
    BY <1>1, <2>2, <2>4, <2>5 DEF BillsTyped
  <2>7. pool' + OwedIn(Token)' = pool + OwedIn(Token) + Price[c]
    <3> HIDE DEF OwedIn
    <3> QED BY <1>2, <1>3, <2>2, <2>3
  <2>8. /\ claim[c] > MarkOf(c)
        /\ \A o \in DOMAIN Charges :
             MarkOf(o)' = IF Payee(o) = Payee(c) THEN claim[c] ELSE MarkOf(o)
    BY <1>4, <2>2 DEF MarkOf
  <2>9. OwedIn(Token)' \in Int
    BY <1>3, <2>3
  <2> QED BY <2>5, <2>6, <2>7, <2>8, <2>9
<1>5. CASE Payee(c) # None
  <2> DEFINE d == Payee(c)
             n == Price[c]
  <2>1. ReceiveForDeveloper(Backend, Charges[c].amount, d, Token, claim[c])
    BY <1>5 DEF Deliver
  <2>2. /\ claim[c] > mark[d] /\ mark' = [mark EXCEPT ![d] = claim[c]] /\ poolMark' = poolMark
        /\ balance' = [balance EXCEPT ![d][Token] = @ + n] /\ Fits(balance[d][Token] + n)
        /\ UNCHANGED <<roles, setup, pool, daily, held, now, usdcToken>>
    BY <1>2, <2>1 DEF ReceiveForDeveloper, NewSince, payouts, setup
  <2>3. d \in Devs /\ n \in Nat
    BY <1>2, <1>5
  <2> HIDE DEF d, n
  <2>4. balance' \in Balances /\ \A e \in Devs : balance'[e][Token] =
          IF e = d THEN balance[e][Token] + n ELSE balance[e][Token]
    <3>1. balance[d][Token] + n \in 0..I128Max
      BY <1>2, <1>3, <2>2, <2>3, BoundAssumption DEF Balances, Fits
    <3> QED BY <1>2, <1>3, <2>2, <2>3, <3>1 DEF Balances
  <2>5. OwedIn(Token)' = OwedIn(Token) + n
    <3> DEFINE f == [e \in Devs |-> balance[e][Token]]
               g == [e \in Devs |-> balance'[e][Token]]
    <3>1. OwedIn(Token) = Sum(f, Devs) /\ OwedIn(Token)' = Sum(g, Devs)
      BY DEF OwedIn, Sum
    <3>2. /\ \A e \in Devs : f[e] \in Int /\ g[e] \in Int
          /\ \A e \in Devs \ {d} : g[e] = f[e]
          /\ g[d] = f[d] + n
      BY <1>3, <2>3, <2>4
    <3>3. Sum(f, Devs) \in Int
      BY <1>3, <3>1
    <3> HIDE DEF f, g
    <3>4. Sum(g, Devs) = Sum(f, Devs) + g[d] - f[d]
      <4>1. /\ IsFiniteSet(Devs) /\ d \in Devs
            /\ \A e \in Devs : f[e] \in Int /\ g[e] \in Int
            /\ \A e \in Devs \ {d} : g[e] = f[e]
        BY <2>3, <3>2, AddressAssumption
      <4> QED BY ONLY <4>1, SumUpdate
    <3>5. f[d] \in Int
      BY <2>3, <3>2
    <3> HIDE DEF OwedIn
    <3> QED BY <2>3, <3>1, <3>2, <3>3, <3>4, <3>5
  <2>6. RolesTyped' /\ PursesTyped' /\ TimeTyped'
    BY <2>2, <2>4 DEF BillsTyped, RolesTyped, PursesTyped, TimeTyped, roles, setup
  <2>7. mark' \in [Devs -> Int]
    BY <1>3, <2>2, <2>3
  <2>8. timesCredited[c] = 0 => BillsTyped'
    BY <1>1, <2>2, <2>6, <2>7 DEF BillsTyped
  <2>9. pool' + OwedIn(Token)' = pool + OwedIn(Token) + n /\ pool' \in Int /\ OwedIn(Token)' \in Int
    <3> HIDE DEF OwedIn
    <3> QED BY <1>3, <2>2, <2>3, <2>5
  <2>10. claim[c] > MarkOf(c)
    BY <1>5, <2>2 DEF MarkOf, d
  <2>11. ASSUME NEW o \in DOMAIN Charges
         PROVE  MarkOf(o)' = IF Payee(o) = Payee(c) THEN claim[c] ELSE MarkOf(o)
    <3>1. Payee(o) \in Devs \cup {None}
      BY BillingConstants
    <3>2. \A e \in Devs : mark'[e] = IF e = d THEN claim[c] ELSE mark[e]
      BY <1>3, <2>2
    <3> QED BY <1>5, <2>2, <3>1, <3>2 DEF MarkOf, d
  <2> QED BY <2>8, <2>9, <2>10, <2>11 DEF n
<1> QED BY <1>4, <1>5

\* A delivery that gets through is the first of its claim, and the claims of its payee
\* before it were all credited.
LEMMA DeliveryKeepsBills ==
    ASSUME Billed, NEW c \in DOMAIN Charges, Deliver(c) PROVE Billed'
<1>0. BillsTyped /\ MoneyReconciles /\ ClaimsAccounted
  BY DEF Billed
<1>1. /\ timesCredited' = [timesCredited EXCEPT ![c] = @ + 1] /\ claim[c] > 0
      /\ UNCHANGED <<tracked, usdc, stage, claim>>
  BY DEF Deliver
<1>2. /\ timesCredited[c] = 0 => BillsTyped'
      /\ pool' + OwedIn(Token)' = pool + OwedIn(Token) + Price[c]
      /\ pool' \in Int /\ OwedIn(Token)' \in Int
      /\ claim[c] > MarkOf(c)
      /\ \A o \in DOMAIN Charges :
           MarkOf(o)' = IF Payee(o) = Payee(c) THEN claim[c] ELSE MarkOf(o)
  BY <1>0, DeliveryCredits
<1>3. /\ timesCredited \in [DOMAIN Charges -> 0..1] /\ claim \in [DOMAIN Charges -> Nat]
      /\ \A o \in DOMAIN Charges : MarkOf(o) \in Int /\ claim[o] \in Nat
  BY <1>0, BillingConstants DEF BillsTyped, MarkOf
<1>4. timesCredited[c] = 0 /\ stage[c] = "claimed"
  <2>1. ClaimAccounted(c)
    BY <1>0 DEF ClaimsAccounted
  <2> HIDE DEF MarkOf
  <2> QED BY <1>1, <1>2, <1>3, <2>1 DEF ClaimAccounted
<1>5. \A o \in DOMAIN Charges : timesCredited'[o] = IF o = c THEN 1 ELSE timesCredited[o]
  BY <1>1, <1>3, <1>4
<1>6. OpenCharges' = OpenCharges \ {c} /\ c \in OpenCharges
  BY <1>1, <1>4, <1>5 DEF OpenCharges
<1>7. MoneyReconciles'
  <2> DEFINE T == OpenCharges
  <2>1. IsFiniteSet(T) /\ (\A o \in T : Price[o] \in Int) /\ IsFiniteSet(T \ {c})
    BY <1>0, DueIsInt, BillingConstants, FS_Subset
  <2>2. Sum(Price, T) = Price[c] + Sum(Price, T \ {c}) /\ Sum(Price, T \ {c}) \in Int
    <3> HIDE DEF T
    <3> QED BY <1>6, <2>1, SumRemove DEF T
  <2>3. Price[c] \in Int /\ pool \in Int /\ OwedIn(Token) \in Int
    BY <1>0, DueIsInt, BillingConstants DEF BillsTyped
  <2>4. usdc'[Self] = pool + OwedIn(Token) + Sum(Price, T) /\ usdc'[VaultAddr] = tracked'
    BY <1>0, <1>1 DEF MoneyReconciles
  <2>5. Sum(Price, OpenCharges)' = Sum(Price, T \ {c})
    BY <1>6 DEF Sum, Price
  <2> HIDE DEF T, OwedIn
  <2>6. usdc'[Self] = pool' + OwedIn(Token)' + Sum(Price, OpenCharges)'
    BY <1>2, <2>2, <2>3, <2>4, <2>5
  <2> QED BY <2>4, <2>6 DEF MoneyReconciles
<1> HIDE DEF MarkOf
<1>8. ASSUME NEW o \in DOMAIN Charges PROVE ClaimAccounted(o)'
  <2>1. ClaimAccounted(o) /\ ClaimAccounted(c)
    BY <1>0 DEF ClaimsAccounted
  <2>2. MarkOf(o)' = IF Payee(o) = Payee(c) THEN claim[c] ELSE MarkOf(o)
    BY <1>2
  <2>3. MarkOf(c)' = claim[c] /\ (Payee(o) = Payee(c) => MarkOf(o) = MarkOf(c))
    BY <1>2 DEF MarkOf
  <2>4. IF timesCredited'[o] = 1 THEN claim[o] > 0 /\ claim[o] <= MarkOf(o)'
        ELSE claim[o] > 0 => stage[o] = "claimed" /\ claim[o] > MarkOf(o)'
    <3>1. CASE o = c
      BY <1>1, <1>3, <1>5, <2>3, <3>1
    <3>2. CASE o # c /\ Payee(o) = Payee(c)
      <4>1. stage[o] # "claimed"
        BY <1>4, <2>1, <3>2 DEF ClaimAccounted
      <4>2. timesCredited[o] = 1 \/ claim[o] = 0
        BY <1>3, <2>1, <4>1 DEF ClaimAccounted
      <4>3. timesCredited[o] = 1 => claim[o] > 0 /\ claim[o] <= MarkOf(c)
        BY <2>1, <2>3, <3>2 DEF ClaimAccounted
      <4>4. timesCredited'[o] = timesCredited[o] /\ MarkOf(o)' = claim[c]
        BY <1>5, <2>2, <3>2
      <4> QED BY <1>2, <1>3, <4>2, <4>3, <4>4
    <3>3. CASE Payee(o) # Payee(c)
      <4>1. timesCredited'[o] = timesCredited[o] /\ MarkOf(o)' = MarkOf(o)
        BY <1>5, <2>2, <3>3
      <4> QED BY <2>1, <4>1 DEF ClaimAccounted
    <3> QED BY <3>1, <3>2, <3>3
  <2>5. MarkOf(o)' <= 0 \/
          \E x \in DOMAIN Charges : Payee(x) = Payee(o) /\ MarkOf(o)' <= claim[x]
    <3>1. CASE Payee(o) = Payee(c)
      BY <1>3, <2>2, <3>1
    <3>2. CASE Payee(o) # Payee(c)
      BY <2>1, <2>2, <3>2 DEF ClaimAccounted
    <3> QED BY <3>1, <3>2
  <2> QED BY <1>1, <2>1, <2>4, <2>5 DEF ClaimAccounted
<1> QED BY <1>2, <1>4, <1>7, <1>8 DEF Billed, ClaimsAccounted

\* A payout takes from the contract's account what it takes from the developers' balances.
LEMMA PayOutKeepsBills == ASSUME Billed, PayOut PROVE Billed'
<1>0. BillsTyped /\ MoneyReconciles /\ ClaimsAccounted
  BY DEF Billed
<1>1. /\ PayoutStep
      /\ usdc' = [usdc EXCEPT ![Self] = held'[Token], ![Wallet] = @ + (held[Token] - held'[Token])]
      /\ UNCHANGED <<tracked, paused, stage, claim, timesCredited, ledger>>
  BY DEF PayOut, PayoutStep, backendVars
<1>2. RolesTyped /\ PursesTyped /\ TimeTyped
  BY <1>0 DEF BillsTyped
<1>3. UNCHANGED <<marks, migration, roles, setup, now, pool>>
  BY <1>1, PayoutsLeave DEF PayoutStep, Withdraw, BatchSettle, Spend
<1>4. PursesTyped' /\ Token \in Tokens
  BY <1>1, <1>2, PayoutTakes, BillingConstants
<1>5. OwedIn(Token) - OwedIn(Token)' = held[Token] - held'[Token]
  BY <1>1, <1>2, <1>4, PayoutsBalance
<1>6. OwedIn(Token) \in Int /\ OwedIn(Token)' \in Int /\ held[Token] \in Int /\ held'[Token] \in Int
  BY <1>2, <1>4, OwedInIsSum
<1>7. /\ usdc' \in [Accounts -> Int] /\ usdc'[Self] = held'[Token]
      /\ usdc'[VaultAddr] = usdc[VaultAddr]
  BY <1>0, <1>1, <1>6, AccountAssumption DEF BillsTyped, Accounts
<1>8. BillsTyped'
  BY <1>0, <1>1, <1>3, <1>4, <1>7 DEF BillsTyped, RolesTyped, TimeTyped, roles, setup, marks
<1>9. MoneyReconciles'
  <2>1. OpenCharges' = OpenCharges
    BY <1>1 DEF OpenCharges
  <2>2. /\ usdc[Self] = held[Token] /\ pool \in Int /\ Sum(Price, OpenCharges) \in Int
        /\ usdc[Self] = pool + OwedIn(Token) + Sum(Price, OpenCharges)
        /\ usdc[VaultAddr] = tracked
    BY <1>0, DueIsInt DEF BillsTyped, MoneyReconciles
  <2>3. Sum(Price, OpenCharges)' = Sum(Price, OpenCharges)
    BY <2>1 DEF Sum, Price
  <2> HIDE DEF OwedIn
  <2>4. usdc'[Self] = pool' + OwedIn(Token)' + Sum(Price, OpenCharges)'
    BY <1>3, <1>5, <1>6, <1>7, <2>2, <2>3
  <2> QED BY <1>1, <1>7, <2>2, <2>4 DEF MoneyReconciles
<1>10. ClaimsAccounted'
  BY <1>0, <1>1, <1>3, SameClaims
<1> QED BY <1>8, <1>9, <1>10 DEF Billed

LEMMA BillingKeepsBills == ASSUME Billed, [BillingNext]_billingVars PROVE Billed'
<1>1. CASE UNCHANGED billingVars
  <2>1. UNCHANGED <<vars, tracked, paused, usdc, stage, claim, timesCredited, ledger>>
    BY <1>1 DEF billingVars, backendVars
  <2>2. /\ stage' \in [DOMAIN Charges -> {"metered", "collected", "claimed", "credited"}]
        /\ claim' \in [DOMAIN Charges -> Nat] /\ ledger' \in Nat \ {0}
        /\ \A c \in DOMAIN Charges : stage'[c] = "metered" <=> stage[c] = "metered"
    BY <2>1 DEF Billed, BillsTyped
  <2>3. BillsTyped' /\ MoneyReconciles'
    BY <2>1, <2>2, NotesKeepMoney
  <2>4. ClaimsAccounted'
    BY <2>1, SameClaims DEF Billed, vars
  <2> QED BY <2>3, <2>4 DEF Billed
<1> QED BY <1>1, OwnerKeepsBills, CollectionKeepsBills, ClaimKeepsBills, DeliveryKeepsBills,
           ConfirmKeepsBills, LedgerKeepsBills, PayOutKeepsBills DEF BillingNext

\* The three ledgers agree at every moment: for any number of charges, of developers and of
\* tokens, batches of any length, any order of claims and any repetition of them.
THEOREM BooksReconcile == BillingSpec => []Reconciles
<1>1. BillingInit => Billed
  BY BillingOpens
<1>2. Billed /\ [BillingNext]_billingVars => Billed'
  BY BillingKeepsBills
<1>3. ASSUME Billed PROVE Reconciles
  <2>1. usdc[Self] = pool + OwedIn(Token) + Sum(Price, OpenCharges) /\ usdc[VaultAddr] = tracked
    BY <1>3 DEF Billed, MoneyReconciles
  <2>2. ASSUME NEW c \in DOMAIN Charges, stage[c] = "credited" PROVE timesCredited[c] = 1
    <3>1. ClaimAccounted(c) /\ timesCredited[c] \in 0..1 /\ claim[c] \in Nat
      BY <1>3 DEF Billed, ClaimsAccounted, BillsTyped
    <3> HIDE DEF MarkOf
    <3> QED BY <2>2, <3>1 DEF ClaimAccounted
  <2> QED BY <2>1, <2>2 DEF Reconciles, OwedIn, Sum
<1> QED BY <1>1, <1>2, <1>3, PTL DEF BillingSpec
=============================================================================
