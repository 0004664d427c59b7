-------------------------- MODULE CheckpointProofs --------------------------
(***************************************************************************)
(* Proofs about the checkpoint registry, for every set of users and        *)
(* subjects, every batch size and every width of the ids.                  *)
(*                                                                         *)
(* That a creation overwrites nothing rests on IdsDense: the ids in use    *)
(* are exactly those up to nextCheckpointId, and new ids are above it.     *)
(* IdsDense rests in turn on TypeOK, for init: it resets the counters, and *)
(* that is harmless only because nothing is recorded before it.            *)
(*                                                                         *)
(* That paging sees all rests on density too: a reader counts the records  *)
(* it has seen, and that is the last id it has seen.                       *)
(***************************************************************************)
EXTENDS Checkpoint, Induction

\* A list of n items.
ListOf(items, n) == n \in Nat /\ items \in [1..n -> Items] /\ Len(items) = n

-----------------------------------------------------------------------------
(* One creation, of any length.                                            *)

\* The ids that a creation hands out are the next ones, in order.
LEMMA NewIds ==
    ASSUME TypeOK, NEW items, NEW n, ListOf(items, n)
    PROVE  /\ DOMAIN items = 1..n
           /\ {IdAfter(i) : i \in DOMAIN items} = nextCheckpointId + 1 .. nextCheckpointId + n
           /\ \A i \in DOMAIN items : IdAfter(i) = nextCheckpointId + i
<1>1. nextCheckpointId \in Nat /\ n \in Nat /\ DOMAIN items = 1..n
  BY BoundAssumption DEF TypeOK, ListOf
<1>2. ASSUME NEW id \in nextCheckpointId + 1 .. nextCheckpointId + n
      PROVE  \E i \in 1..n : id = IdAfter(i)
  <2>1. id - nextCheckpointId \in 1..n /\ id = IdAfter(id - nextCheckpointId)
    BY <1>1 DEF IdAfter
  <2> QED BY <2>1
<1>3. ASSUME NEW i \in 1..n
      PROVE  IdAfter(i) \in nextCheckpointId + 1 .. nextCheckpointId + n
  BY <1>1 DEF IdAfter
<1> QED BY <1>1, <1>2, <1>3 DEF IdAfter

\* What a creation stores.
LEMMA RecordStores ==
    ASSUME TypeOK, IdsDense, NEW items, NEW n, ListOf(items, n), Record(items)
    PROVE  /\ nextCheckpointId' = nextCheckpointId + n
           /\ checkpointCount' = nextCheckpointId + n
           /\ DOMAIN checkpoints' = 1..nextCheckpointId + n
           /\ \A id \in 1..nextCheckpointId : checkpoints'[id] = checkpoints[id]
           /\ \A id \in nextCheckpointId + 1 .. nextCheckpointId + n :
                \E i \in 1..n : checkpoints'[id] =
                   [id |-> id, subject |-> items[i].subject, balance |-> items[i].balance,
                    timestamp |-> now]
<1> DEFINE new == {IdAfter(i) : i \in DOMAIN items}
           pick(id) == CHOOSE i \in DOMAIN items : id = IdAfter(i)
<1>1. nextCheckpointId \in Nat /\ n \in Nat /\ Len(items) = n
  BY BoundAssumption DEF TypeOK, ListOf
<1>2. /\ DOMAIN items = 1..n
      /\ new = nextCheckpointId + 1 .. nextCheckpointId + n
      /\ \A i \in DOMAIN items : IdAfter(i) = nextCheckpointId + i
  BY NewIds
<1>3. nextCheckpointId' = nextCheckpointId + n /\ checkpointCount' = nextCheckpointId + n
  BY <1>1 DEF Record, Count, IdAfter
<1>4. checkpoints' = [id \in DOMAIN checkpoints \cup new |->
           IF id \in new
           THEN [id |-> id, subject |-> items[pick(id)].subject,
                 balance |-> items[pick(id)].balance, timestamp |-> now]
           ELSE checkpoints[id]]
  BY DEF Record, Stamp
<1>5. DOMAIN checkpoints = 1..nextCheckpointId
  BY DEF IdsDense
<1> HIDE DEF new, pick
<1>6. DOMAIN checkpoints' = 1..nextCheckpointId + n
  BY <1>1, <1>2, <1>4, <1>5
<1>7. ASSUME NEW id \in 1..nextCheckpointId PROVE checkpoints'[id] = checkpoints[id]
  <2>1. id \notin new
    BY <1>1, <1>2
  <2> QED BY <2>1, <1>4, <1>5
<1>8. ASSUME NEW id \in nextCheckpointId + 1 .. nextCheckpointId + n
      PROVE  /\ pick(id) \in 1..n
             /\ checkpoints'[id] =
                   [id |-> id, subject |-> items[pick(id)].subject,
                    balance |-> items[pick(id)].balance, timestamp |-> now]
  <2>1. id \in new
    BY <1>2
  <2>2. \E i \in DOMAIN items : id = IdAfter(i)
    BY <2>1 DEF new
  <2>3. pick(id) \in 1..n
    BY <2>2, <1>2 DEF pick
  <2> QED BY <2>1, <2>3, <1>4
<1> QED BY <1>3, <1>6, <1>7, <1>8

\* Records are well typed and numbered without gaps after any creation.
LEMMA RecordKeeps ==
    ASSUME TypeOK, IdsDense, NEW items, NEW n, ListOf(items, n), Record(items), admin # None
    PROVE  TypeOK' /\ IdsDense'
<1>1. nextCheckpointId \in Nat /\ n \in Nat /\ nextCheckpointId + n <= U64Max /\ U64Max \in Nat
  BY BoundAssumption DEF TypeOK, ListOf, Record, IdAfter
<1>2. ASSUME NEW id \in DOMAIN checkpoints'
      PROVE  id \in 1..U64Max /\ checkpoints'[id] \in Entry /\ checkpoints'[id].id = id
  <2>1. id \in 1..nextCheckpointId + n
    BY <1>2, RecordStores
  <2>2. CASE id \in 1..nextCheckpointId
    BY <2>2, <1>1, RecordStores DEF TypeOK, IdsDense
  <2>3. CASE id \in nextCheckpointId + 1 .. nextCheckpointId + n
    <3>1. PICK i \in 1..n : checkpoints'[id] =
            [id |-> id, subject |-> items[i].subject, balance |-> items[i].balance,
             timestamp |-> now]
      <4>1. \A k \in nextCheckpointId + 1 .. nextCheckpointId + n :
              \E i \in 1..n : checkpoints'[k] =
                 [id |-> k, subject |-> items[i].subject, balance |-> items[i].balance,
                  timestamp |-> now]
        BY RecordStores
      <4> QED BY <2>3, <4>1
    <3>2. items[i] \in Items /\ items[i].balance >= 0 /\ i \in DOMAIN items
      BY DEF ListOf, Record
    <3>3. items[i].subject \in Subjects /\ items[i].balance \in Nat
      <4>1. items[i].subject \in Subjects /\ items[i].balance \in Balances
        BY <3>2 DEF Items
      <4>2. items[i].balance \in Int
        BY <4>1, BoundAssumption
      <4> QED BY <3>2, <4>1, <4>2
    <3>4. id \in 1..U64Max /\ now \in 0..MaxTime
      BY <2>3, <1>1 DEF TypeOK
    <3> QED BY <3>1, <3>3, <3>4 DEF Entry
  <2> QED BY <1>1, <2>1, <2>2, <2>3
<1>3. /\ nextCheckpointId' = nextCheckpointId + n /\ checkpointCount' = nextCheckpointId + n
      /\ DOMAIN checkpoints' = 1..nextCheckpointId + n
  BY RecordStores
<1>4. IdsDense'
  BY <1>2, <1>3 DEF IdsDense
<1>5. admin' = admin /\ pendingAdmin' = pendingAdmin /\ now' = now
  BY DEF Record, roles
<1>6. DOMAIN checkpoints' \subseteq 1..U64Max /\ \A id \in DOMAIN checkpoints' : checkpoints'[id] \in Entry
  BY <1>2
<1> QED BY <1>1, <1>3, <1>4, <1>5, <1>6 DEF TypeOK

-----------------------------------------------------------------------------
(* Every step.                                                             *)

\* Creations, single and batch, are creations of a list.
LEMMA CreationsAreLists ==
    ASSUME NEW u \in Users,
           \/ \E item \in Items : CreateCheckpoint(u, item)
           \/ \E items \in Batches : BatchCreateCheckpoints(u, items)
    PROVE  admin # None /\ \E n, items : ListOf(items, n) /\ Record(items)
<1>1. ASSUME NEW item \in Items, CreateCheckpoint(u, item)
      PROVE  admin # None /\ ListOf(<<item>>, 1) /\ Record(<<item>>)
  <2>1. <<item>> \in [1..1 -> Items] /\ Len(<<item>>) = 1
    OBVIOUS
  <2> QED BY <1>1, <2>1 DEF CreateCheckpoint, AdminCalls, ListOf
<1>2. ASSUME NEW items \in Batches, BatchCreateCheckpoints(u, items)
      PROVE  admin # None /\ \E n : ListOf(items, n) /\ Record(items)
  <2>1. PICK n \in 0..MaxItems : items \in [1..n -> Items]
    BY <1>2 DEF Batches
  <2>2. n \in Nat /\ items \in Seq(Items) /\ Len(items) = n
    BY <2>1, BoundAssumption
  <2> QED BY <1>2, <2>1, <2>2 DEF BatchCreateCheckpoints, AdminCalls, ListOf
<1> QED BY <1>1, <1>2

\* No step takes the ids out of their order, or a record out of its type.
LEMMA NextKeeps ==
    ASSUME TypeOK, IdsDense, Next
    PROVE  TypeOK' /\ IdsDense'
<1>1. ASSUME NEW u \in Users, InitCheckpoint(u) PROVE TypeOK' /\ IdsDense'
  BY <1>1, AddressAssumption, BoundAssumption DEF InitCheckpoint, TypeOK, IdsDense
<1>2. ASSUME NEW u \in Users, NEW m \in Users,
             SetAdmin(u, m) \/ AcceptAdmin(u) \/ CancelAdminTransfer(u)
      PROVE  TypeOK' /\ IdsDense'
  BY <1>2, AddressAssumption
  DEF SetAdmin, AcceptAdmin, CancelAdminTransfer, AdminCalls, registry, TypeOK, IdsDense
<1>3. ASSUME NEW u \in Users,
             \/ \E item \in Items : CreateCheckpoint(u, item)
             \/ \E items \in Batches : BatchCreateCheckpoints(u, items)
      PROVE  TypeOK' /\ IdsDense'
  BY <1>3, CreationsAreLists, RecordKeeps
<1>4. ASSUME Tick PROVE TypeOK' /\ IdsDense'
  <2>1. now' \in 0..MaxTime
    BY <1>4, BoundAssumption DEF Tick, TypeOK
  <2> QED BY <1>4, <2>1 DEF Tick, roles, registry, TypeOK, IdsDense
<1> QED BY <1>1, <1>2, <1>3, <1>4 DEF Next

\* The two invariants are proved together: each leans on the other.
LEMMA Invariants == Spec => [](TypeOK /\ IdsDense)
<1>1. Init => TypeOK /\ IdsDense
  BY BoundAssumption DEF Init, TypeOK, IdsDense
<1>2. TypeOK /\ IdsDense /\ [Next]_vars => (TypeOK /\ IdsDense)'
  <2>1. ASSUME TypeOK, IdsDense, UNCHANGED vars PROVE TypeOK' /\ IdsDense'
    BY <2>1 DEF vars, roles, registry, TypeOK, IdsDense
  <2> QED BY NextKeeps, <2>1
<1> QED BY <1>1, <1>2, PTL DEF Spec

\* Every stored record has a legal id, a balance that is not negative and a past or
\* present timestamp, and nothing is recorded before init.
THEOREM TypeCorrect == Spec => []TypeOK
BY Invariants, PTL

\* In every reachable state the ids are 1, 2, ... up to both counters, each record under
\* its own id: for any mix of creations, single and batch, of any length.
THEOREM IdsAlwaysDense == Spec => []IdsDense
BY Invariants, PTL

\* No step of the registry changes or removes a record: a creation writes only above
\* the ids in use, however long its list, and init cannot run a second time.
THEOREM HistoryIsImmutable == Spec => HistoryImmutable
<1>1. ASSUME TypeOK, IdsDense, Next
      PROVE  \A id \in DOMAIN checkpoints :
               id \in DOMAIN checkpoints' /\ checkpoints'[id] = checkpoints[id]
  <2>1. ASSUME NEW u \in Users,
               \/ \E item \in Items : CreateCheckpoint(u, item)
               \/ \E items \in Batches : BatchCreateCheckpoints(u, items)
        PROVE  \A id \in DOMAIN checkpoints :
                 id \in DOMAIN checkpoints' /\ checkpoints'[id] = checkpoints[id]
    <3>1. PICK n, items : ListOf(items, n) /\ Record(items)
      BY <2>1, CreationsAreLists
    <3>2. /\ DOMAIN checkpoints' = 1..nextCheckpointId + n
          /\ \A id \in 1..nextCheckpointId : checkpoints'[id] = checkpoints[id]
      BY <1>1, <3>1, RecordStores
    <3>3. nextCheckpointId \in Nat /\ n \in Nat /\ DOMAIN checkpoints = 1..nextCheckpointId
      BY <1>1, <3>1, BoundAssumption DEF TypeOK, IdsDense, ListOf
    <3> QED BY <3>2, <3>3
  <2>2. CASE checkpoints' = checkpoints
    BY <2>2
  <2> QED
    BY <1>1, <2>1, <2>2
    DEF Next, InitCheckpoint, SetAdmin, AcceptAdmin, CancelAdminTransfer, Tick, registry
<1>2. TypeOK /\ IdsDense /\ [Next]_vars =>
        [\A id \in DOMAIN checkpoints :
           id \in DOMAIN checkpoints' /\ checkpoints'[id] = checkpoints[id]]_vars
  BY <1>1
<1> QED BY <1>2, Invariants, PTL DEF Spec, HistoryImmutable

-----------------------------------------------------------------------------
(* Time.                                                                   *)

\* A creation stamps its records with the present, and what is stored with the past.
LEMMA RecordKeepsTime ==
    ASSUME TypeOK, IdsDense, ChronologicalIds, NEW items, NEW n, ListOf(items, n), Record(items)
    PROVE  ChronologicalIds'
<1>1. nextCheckpointId \in Nat /\ n \in Nat /\ now \in Nat /\ now' = now
  BY BoundAssumption DEF TypeOK, ListOf, Record
<1>2. DOMAIN checkpoints' = 1..nextCheckpointId + n
  BY RecordStores
<1>3. ASSUME NEW id \in 1..nextCheckpointId
      PROVE  checkpoints'[id] = checkpoints[id] /\ checkpoints'[id].timestamp \in 0..now
  <2>1. checkpoints'[id] = checkpoints[id] /\ id \in DOMAIN checkpoints
    BY RecordStores DEF IdsDense
  <2> QED BY <2>1, <1>1 DEF TypeOK, Entry, ChronologicalIds
<1>4. ASSUME NEW id \in nextCheckpointId + 1 .. nextCheckpointId + n
      PROVE  checkpoints'[id].timestamp = now
  <2>1. \A k \in nextCheckpointId + 1 .. nextCheckpointId + n :
          \E i \in 1..n : checkpoints'[k] =
             [id |-> k, subject |-> items[i].subject, balance |-> items[i].balance,
              timestamp |-> now]
    BY RecordStores
  <2>2. PICK i \in 1..n : checkpoints'[id] =
             [id |-> id, subject |-> items[i].subject, balance |-> items[i].balance,
              timestamp |-> now]
    BY <1>4, <2>1
  <2> QED BY <2>2
<1>5. ASSUME NEW i \in DOMAIN checkpoints', NEW j \in DOMAIN checkpoints'
      PROVE  /\ i < j => checkpoints'[i].timestamp <= checkpoints'[j].timestamp
             /\ checkpoints'[j].timestamp <= now'
  <2>1. CASE j \in 1..nextCheckpointId
    <3>1. checkpoints'[j].timestamp <= now'
      BY <2>1, <1>1, <1>3
    <3>2. i < j => i \in 1..nextCheckpointId
      BY <2>1, <1>1, <1>2
    <3>3. i < j => checkpoints[i].timestamp <= checkpoints[j].timestamp
      BY <2>1, <3>2 DEF ChronologicalIds, IdsDense
    <3> QED BY <2>1, <3>1, <3>2, <3>3, <1>3
  <2>2. CASE j \in nextCheckpointId + 1 .. nextCheckpointId + n
    <3>1. checkpoints'[j].timestamp = now
      BY <2>2, <1>4
    <3>2. checkpoints'[i].timestamp <= now
      <4>1. i \in 1..nextCheckpointId \/ i \in nextCheckpointId + 1 .. nextCheckpointId + n
        BY <1>1, <1>2
      <4> QED BY <4>1, <1>1, <1>3, <1>4
    <3> QED BY <3>1, <3>2, <1>1
  <2> QED BY <2>1, <2>2, <1>1, <1>2
<1> QED BY <1>5 DEF ChronologicalIds

\* Ids are in the order of time in every reachable state: the ledger clock does not go
\* back, and only the ids above all those in use receive the present timestamp.
THEOREM IdsAreChronological == Spec => []ChronologicalIds
<1>1. Init => ChronologicalIds
  BY DEF Init, ChronologicalIds
<1>2. TypeOK /\ IdsDense /\ ChronologicalIds /\ [Next]_vars => ChronologicalIds'
  <2> SUFFICES ASSUME TypeOK, IdsDense, ChronologicalIds, [Next]_vars PROVE ChronologicalIds'
    OBVIOUS
  <2>1. ASSUME NEW u \in Users,
               \/ \E item \in Items : CreateCheckpoint(u, item)
               \/ \E items \in Batches : BatchCreateCheckpoints(u, items)
        PROVE  ChronologicalIds'
    BY <2>1, CreationsAreLists, RecordKeepsTime
  <2>2. CASE UNCHANGED <<checkpoints, now>>
    BY <2>2 DEF ChronologicalIds
  <2>3. CASE Tick
    <3>1. checkpoints' = checkpoints /\ now' = now + 1 /\ now \in Nat
      BY <2>3, BoundAssumption DEF Tick, registry, TypeOK
    <3>2. \A id \in DOMAIN checkpoints : checkpoints[id].timestamp \in Nat
      BY BoundAssumption DEF TypeOK, Entry
    <3> QED BY <3>1, <3>2 DEF ChronologicalIds
  <2> QED
    BY <2>1, <2>2, <2>3
    DEF Next, InitCheckpoint, SetAdmin, AcceptAdmin, CancelAdminTransfer, registry, vars
<1> QED BY <1>1, <1>2, Invariants, PTL DEF Spec

-----------------------------------------------------------------------------
(* Reading page by page.                                                   *)

\* What a reader has seen after each page.
LEMMA WalkFold ==
    ASSUME NEW limit
    PROVE  /\ Walk(limit)[0] = {}
           /\ \A n \in 1..U64Max :
                Walk(limit)[n] = Walk(limit)[n - 1] \cup
                                   CheckpointsRange(Cardinality(Walk(limit)[n - 1]) + 1, limit)
<1> DEFINE Step(c) == c \cup CheckpointsRange(Cardinality(c) + 1, limit)
           IsWalk(g, n) == g = [i \in 0..n |-> IF i = 0 THEN {} ELSE Step(g[i - 1])]
           Good == {n \in Nat : \E g : IsWalk(g, n)}
<1>1. Walk(limit) = CHOOSE g : IsWalk(g, U64Max)
  BY DEF Walk
<1>2. U64Max \in Nat
  BY BoundAssumption
<1> HIDE DEF Step
<1>3. ASSUME NEW g, IsWalk(g, U64Max)
      PROVE  g[0] = {} /\ \A n \in 1..U64Max : g[n] = Step(g[n - 1])
  <2>1. \A i \in 0..U64Max : g[i] = IF i = 0 THEN {} ELSE Step(g[i - 1])
    BY <1>3, Zenon
  <2> HIDE DEF IsWalk
  <2>2. 0 \in 0..U64Max /\ \A n \in 1..U64Max : n \in 0..U64Max /\ n # 0
    BY <1>2
  <2> QED BY <2>1, <2>2, Zenon
<1>4. 0 \in Good
  <2>1. IsWalk([i \in 0..0 |-> {}], 0)
    OBVIOUS
  <2> QED BY <2>1
<1>5. ASSUME NEW n \in Nat, n \in Good PROVE n + 1 \in Good
  <2>1. PICK g : IsWalk(g, n)
    BY <1>5
  <2> DEFINE h == [i \in 0..n + 1 |-> IF i <= n THEN g[i] ELSE Step(g[n])]
  <2>2. ASSUME NEW i \in 0..n + 1 PROVE h[i] = IF i = 0 THEN {} ELSE Step(h[i - 1])
    <3>1. g = [k \in 0..n |-> IF k = 0 THEN {} ELSE Step(g[k - 1])]
      BY <2>1
    <3>2. CASE i = 0
      <4>1. 0 \in 0..n /\ 0 \in 0..n + 1 /\ 0 <= n
        BY <1>5
      <4>2. g[0] = {} /\ h[0] = g[0]
        BY <3>1, <4>1, Zenon
      <4> QED BY <3>2, <4>2
    <3>3. CASE i \in 1..n
      <4>1. i \in 0..n /\ i # 0 /\ i - 1 \in 0..n /\ i - 1 \in 0..n + 1 /\ i - 1 <= n /\ i <= n
        BY <1>5, <3>3
      <4>2. g[i] = Step(g[i - 1])
        BY <3>1, <4>1, Zenon
      <4>3. h[i] = g[i] /\ h[i - 1] = g[i - 1]
        BY <4>1, Zenon
      <4> QED BY <4>1, <4>2, <4>3
    <3>4. CASE i = n + 1
      <4>1. i # 0 /\ ~(i <= n) /\ i - 1 = n /\ n \in 0..n + 1 /\ n <= n
        BY <1>5, <3>4
      <4>2. h[i] = Step(g[n]) /\ h[n] = g[n]
        BY <4>1, Zenon
      <4> QED BY <4>1, <4>2
    <3> QED BY <1>5, <3>2, <3>3, <3>4
  <2>3. IsWalk(h, n + 1)
    BY <2>2
  <2> HIDE DEF h, IsWalk
  <2> QED BY <2>3
<1>6. Nat \subseteq Good
  <2> HIDE DEF Good
  <2> QED BY <1>4, <1>5, NatSetInduction
<1>7. IsWalk(Walk(limit), U64Max)
  <2>1. \E g : IsWalk(g, U64Max)
    BY <1>2, <1>6
  <2> QED BY <2>1, <1>1
<1>8. /\ Walk(limit)[0] = {}
      /\ \A n \in 1..U64Max : Walk(limit)[n] = Step(Walk(limit)[n - 1])
  <2> HIDE DEF IsWalk
  <2> QED BY <1>3, <1>7
<1> QED BY <1>8 DEF Step

\* The records with the first m ids.
First(m) == {checkpoints[id] : id \in 1..m}

\* Records under different ids differ, so that a reader who counts what it has seen
\* knows the last id it has seen.
LEMMA FirstAreCounted ==
    ASSUME IdsDense, NEW m \in Nat, 1..m \subseteq DOMAIN checkpoints
    PROVE  Cardinality(First(m)) = m
<1> DEFINE f == [id \in 1..m |-> checkpoints[id]]
<1>1. f \in [1..m -> First(m)]
  BY DEF First
<1>2. \A i, j \in 1..m : f[i] = f[j] => i = j
  <2>1. \A i \in 1..m : f[i].id = i
    BY DEF IdsDense
  <2> QED BY <2>1
<1>3. \A r \in First(m) : \E i \in 1..m : f[i] = r
  BY DEF First
<1>4. f \in Bijection(1..m, First(m))
  BY <1>1, <1>2, <1>3 DEF Bijection, Injection, IsInjective, Surjection
<1>5. ExistsBijection(1..m, First(m))
  BY <1>4 DEF ExistsBijection
<1>6. IsFiniteSet(1..m) /\ Cardinality(1..m) = m
  BY FS_Interval
<1> QED BY <1>5, <1>6, FS_Bijection

\* Who has seen the first m records sees, on the next page, at least one more, and all
\* up to the last of the page.
LEMMA NextPage ==
    ASSUME TypeOK, IdsDense, checkpointCount + MAX_PAGE_SIZE <= U64Max,
           NEW limit \in 1..MAX_PAGE_SIZE + 1, NEW m \in 0..checkpointCount
    PROVE  \E k \in m..checkpointCount :
             /\ m < checkpointCount => m < k
             /\ First(m) \cup CheckpointsRange(Cardinality(First(m)) + 1, limit) = First(k)
<1> DEFINE p == PageSize(limit)
           c == checkpointCount
<1>1. c \in Nat /\ m \in Nat /\ U64Max \in Nat /\ MAX_PAGE_SIZE \in Nat /\ MAX_PAGE_SIZE >= 1
  BY BoundAssumption DEF TypeOK
<1>2. DOMAIN checkpoints = 1..c
  BY DEF IdsDense
<1>3. Cardinality(First(m)) = m
  <2>1. 1..m \subseteq DOMAIN checkpoints
    BY <1>1, <1>2
  <2> QED BY <1>1, <2>1, FirstAreCounted
<1>4. p \in 1..MAX_PAGE_SIZE
  BY <1>1 DEF PageSize, Smaller
<1> HIDE DEF p
<1>5. CASE m = c
  <2>1. CheckpointsRange(m + 1, limit) = {}
    BY <1>1, <1>5 DEF CheckpointsRange
  <2> QED BY <1>1, <1>3, <1>5, <2>1
<1>6. CASE m < c
  <2> DEFINE k == IF m + p <= c THEN m + p ELSE c
  <2>1. k \in m..c /\ m < k /\ k \in Nat
    BY <1>1, <1>4, <1>6
  <2>2. PageEnd(m + 1, limit) - 1 = k
    BY <1>1, <1>4 DEF PageEnd, Smaller, p
  <2>3. CheckpointsRange(m + 1, limit) = {checkpoints[id] : id \in (1..c) \cap (m + 1 .. k)}
    <3>1. ~(m + 1 > c) /\ ~(m + 1 + p > U64Max)
      BY <1>1, <1>4, <1>6
    <3> QED BY <1>2, <2>2, <3>1 DEF CheckpointsRange, p
  <2> HIDE DEF k
  <2>4. First(m) \cup CheckpointsRange(m + 1, limit) = First(k)
    <3>1. (1..m) \cup ((1..c) \cap (m + 1 .. k)) = 1..k
      BY <1>1, <2>1
    <3> QED BY <2>3, <3>1 DEF First
  <2> QED BY <1>3, <2>1, <2>4
<1> QED BY <1>1, <1>5, <1>6

\* As many pages as there are records show all of them, for every new page shows one more.
LEMMA WalksSeeAll ==
    ASSUME TypeOK, IdsDense, checkpointCount + MAX_PAGE_SIZE <= U64Max,
           NEW limit \in 1..MAX_PAGE_SIZE + 1
    PROVE  Walk(limit)[checkpointCount] = {checkpoints[id] : id \in DOMAIN checkpoints}
<1> DEFINE c == checkpointCount
           seen == Walk(limit)
           Good == {n \in Nat : n <= c => \E m \in n..c : seen[n] = First(m)}
<1>1. c \in Nat /\ U64Max \in Nat /\ c <= U64Max
  BY BoundAssumption DEF TypeOK
<1>2. /\ seen[0] = {}
      /\ \A n \in 1..U64Max :
           seen[n] = seen[n - 1] \cup CheckpointsRange(Cardinality(seen[n - 1]) + 1, limit)
  BY WalkFold
<1> HIDE DEF seen
<1>3. 0 \in Good
  <2>1. 0 \in 0..c
    BY <1>1
  <2>2. First(0) = {}
    BY DEF First
  <2>3. seen[0] = First(0)
    BY <1>2, <2>2
  <2> QED BY <2>1, <2>3
<1>4. ASSUME NEW n \in Nat, n \in Good PROVE n + 1 \in Good
  <2> SUFFICES ASSUME n + 1 <= c PROVE \E m \in n + 1 .. c : seen[n + 1] = First(m)
    OBVIOUS
  <2>1. PICK m \in n..c : seen[n] = First(m)
    BY <1>1, <1>4
  <2>2. m \in 0..c /\ n + 1 \in 1..U64Max /\ (n + 1) - 1 = n
    BY <1>1
  <2>3. PICK k \in m..c : /\ m < c => m < k
                          /\ First(m) \cup CheckpointsRange(Cardinality(First(m)) + 1, limit) = First(k)
    BY <2>2, NextPage
  <2>4. seen[n + 1] = First(k)
    BY <1>2, <2>1, <2>2, <2>3
  <2>5. k \in n + 1 .. c
    BY <1>1, <2>2, <2>3
  <2> QED BY <2>4, <2>5
<1>5. Nat \subseteq Good
  <2> HIDE DEF Good
  <2> QED BY <1>3, <1>4, NatSetInduction
<1>6. PICK m \in c..c : seen[c] = First(m)
  BY <1>1, <1>5
<1>7. m = c /\ DOMAIN checkpoints = 1..c
  BY <1>1 DEF IdsDense
<1> QED BY <1>6, <1>7 DEF First, seen

\* A reader who pages through the registry misses no record, with any page size and any
\* number of records that leaves a page of ids unused: what the reader has seen is always
\* the records with the first ids, and every page adds one of those left.
THEOREM PagingIsComplete == Spec => []PagingSeesAll
<1>1. TypeOK /\ IdsDense => PagingSeesAll
  BY WalksSeeAll DEF PagingSeesAll
<1> QED BY <1>1, Invariants, PTL

-----------------------------------------------------------------------------
(* The admin role.                                                         *)

AdminTransfer == INSTANCE TwoStepRole WITH holder <- admin, nominee <- pendingAdmin

\* Who may write checkpoints changes only to a nominee of the admin that accepts before the
\* nomination is cancelled or replaced, and no creation, of any length, touches the role.
THEOREM AdminChangesInTwoSteps == Spec => AdminTransfer!Spec
<1> USE DEF AdminTransfer!vars
<1>1. Init => AdminTransfer!Init
  BY DEF Init, AdminTransfer!Init
<1>2. ASSUME [Next]_vars PROVE [AdminTransfer!Next]_(AdminTransfer!vars)
  <2>1. ASSUME NEW u \in Users, InitCheckpoint(u) PROVE AdminTransfer!Appoint
    BY <2>1, AddressAssumption DEF InitCheckpoint, AdminTransfer!Appoint
  <2>2. ASSUME NEW u \in Users, NEW n \in Users, SetAdmin(u, n) PROVE AdminTransfer!Nominate
    BY <2>2, AddressAssumption DEF SetAdmin, AdminCalls, AdminTransfer!Nominate
  <2>3. ASSUME NEW u \in Users, AcceptAdmin(u) PROVE AdminTransfer!Accept
    BY <2>3 DEF AcceptAdmin, AdminTransfer!Accept
  <2>4. ASSUME NEW u \in Users, CancelAdminTransfer(u) PROVE AdminTransfer!Withdraw
    BY <2>4 DEF CancelAdminTransfer, AdminTransfer!Withdraw
  <2>5. ASSUME NEW u \in Users,
               \/ \E item \in Items : CreateCheckpoint(u, item)
               \/ \E items \in Batches : BatchCreateCheckpoints(u, items)
        PROVE  UNCHANGED AdminTransfer!vars
    BY <2>5 DEF CreateCheckpoint, BatchCreateCheckpoints, Record, roles
  <2>6. CASE Tick
    BY <2>6 DEF Tick, roles
  <2>7. CASE UNCHANGED vars
    BY <2>7 DEF vars, roles
  <2> QED BY <1>2, <2>1, <2>2, <2>3, <2>4, <2>5, <2>6, <2>7 DEF Next, AdminTransfer!Next
<1> QED BY <1>1, <1>2, PTL DEF Spec, AdminTransfer!Spec
=============================================================================
