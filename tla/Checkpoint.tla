----------------------------- MODULE Checkpoint -----------------------------
(***************************************************************************)
(* The Callora checkpoint registry (contracts/checkpoint): balance         *)
(* snapshots that the admin records under consecutive ids, one at a time   *)
(* or in batches, and that anybody reads back page by page.                *)
(*                                                                         *)
(* A call that panics or returns Err reverts, and is no step.  Of a record *)
(* the token and the metadata are left out: they are stored and never read.*)
(***************************************************************************)
EXTENDS Integers, Sequences, FiniteSets

CONSTANTS
    Users,
    None,
    Subjects,
    Balances,           \* i128 balances that callers pass
    MAX_BATCH_SIZE,     \* 50 in the code
    MaxItems,           \* the longest batch explored
    MAX_PAGE_SIZE,      \* 100 in the code
    MaxTime,            \* the last ledger timestamp
    U64Max              \* the last checkpoint id

ASSUME AddressAssumption == None \notin Users
ASSUME BoundAssumption ==
    /\ Balances \subseteq Int
    /\ {MAX_BATCH_SIZE, MaxItems, MaxTime, U64Max} \subseteq Nat
    /\ MAX_PAGE_SIZE \in Nat \ {0}

VARIABLES
    admin, pendingAdmin,
    nextCheckpointId,   \* despite its name, the last id handed out
    checkpointCount,
    checkpoints,        \* id -> record
    now

roles == <<admin, pendingAdmin>>
registry == <<nextCheckpointId, checkpointCount, checkpoints>>
vars == <<roles, registry, now>>

AdminCalls(caller) == admin # None /\ caller = admin

-----------------------------------------------------------------------------
InitCheckpoint(a) ==
    /\ admin = None
    /\ admin' = a
    /\ nextCheckpointId' = 0 /\ checkpointCount' = 0
    /\ UNCHANGED <<pendingAdmin, checkpoints, now>>

SetAdmin(caller, nominee) ==
    /\ AdminCalls(caller)
    /\ pendingAdmin' = nominee
    /\ UNCHANGED <<admin, registry, now>>

AcceptAdmin(caller) ==
    /\ pendingAdmin # None /\ caller = pendingAdmin
    /\ admin # None
    /\ admin' = caller
    /\ pendingAdmin' = None
    /\ UNCHANGED <<registry, now>>

CancelAdminTransfer(caller) ==
    /\ AdminCalls(caller)
    /\ pendingAdmin # None
    /\ pendingAdmin' = None
    /\ UNCHANGED <<admin, registry, now>>

-----------------------------------------------------------------------------
(* Creation.  next_checkpoint_id hands out one id per item and stores it   *)
(* both as the last id and as the count.                                   *)

Items == [subject : Subjects, balance : Balances]

IdAfterReused(n) == nextCheckpointId + n - 1
IdAfter(n) == nextCheckpointId + n

StampDistinct(i) == now + i
Stamp(i) == now

CountOnce(n) == nextCheckpointId + 1
Count(n) == IdAfter(n)

\* The whole list is validated before the first id is handed out; an id past the
\* u64 range fails, and reverts, the call.
Record(items) ==
    /\ \A i \in DOMAIN items : items[i].balance >= 0
    /\ IdAfter(Len(items)) <= U64Max
    /\ nextCheckpointId' = IdAfter(Len(items))
    /\ checkpointCount' = Count(Len(items))
    /\ LET new == {IdAfter(i) : i \in DOMAIN items} IN
       checkpoints' = [id \in DOMAIN checkpoints \cup new |->
           IF id \in new
           THEN LET i == CHOOSE i \in DOMAIN items : id = IdAfter(i) IN
                [id |-> id, subject |-> items[i].subject, balance |-> items[i].balance,
                 timestamp |-> Stamp(i)]
           ELSE checkpoints[id]]
    /\ UNCHANGED <<roles, now>>

CreateCheckpoint(caller, item) == AdminCalls(caller) /\ Record(<<item>>)

BatchCreateCheckpoints(caller, items) ==
    /\ AdminCalls(caller)
    /\ Len(items) > 0 /\ Len(items) <= MAX_BATCH_SIZE
    /\ Record(items)

Tick ==
    /\ now < MaxTime
    /\ now' = now + 1
    /\ UNCHANGED <<roles, registry>>

-----------------------------------------------------------------------------
(* Reading.                                                                *)

Smaller(m, n) == IF m < n THEN m ELSE n

PageSize(limit) == Smaller(limit, MAX_PAGE_SIZE)

PageEndShort(start, limit) == Smaller(start + PageSize(limit), checkpointCount)
\* The id after the last of a page; saturating_add caps it at the u64 range.
PageEnd(start, limit) ==
    Smaller(start + PageSize(limit), Smaller(checkpointCount + 1, U64Max))

\* get_checkpoints_range, as the set of the records it returns: none past the last
\* id, and none, for it fails, when the page could reach past the u64 range.
CheckpointsRange(start, limit) ==
    IF start > checkpointCount \/ start + PageSize(limit) > U64Max THEN {}
    ELSE {checkpoints[id] : id \in DOMAIN checkpoints \cap (start .. PageEnd(start, limit) - 1)}

-----------------------------------------------------------------------------
Init ==
    /\ admin = None /\ pendingAdmin = None
    /\ nextCheckpointId = 0 /\ checkpointCount = 0
    /\ checkpoints = <<>>
    /\ now = 0

Batches == UNION {[1..n -> Items] : n \in 0..MaxItems}

Next ==
    \/ \E u \in Users :
         \/ InitCheckpoint(u)
         \/ \E n \in Users : SetAdmin(u, n)
         \/ AcceptAdmin(u)
         \/ CancelAdminTransfer(u)
         \/ \E item \in Items : CreateCheckpoint(u, item)
         \/ \E items \in Batches : BatchCreateCheckpoints(u, items)
    \/ Tick

Spec == Init /\ [][Next]_vars

-----------------------------------------------------------------------------
Entry == [id : 1..U64Max, subject : Subjects, balance : Nat, timestamp : 0..MaxTime]

\* Types.  Beyond the shape of the state: nothing is recorded, and nobody nominated,
\* before init.
TypeOK ==
    /\ admin \in Users \cup {None} /\ pendingAdmin \in Users \cup {None}
    /\ admin = None => nextCheckpointId = 0 /\ pendingAdmin = None
    /\ nextCheckpointId \in 0..U64Max /\ checkpointCount \in 0..U64Max
    /\ DOMAIN checkpoints \subseteq 1..U64Max
    /\ \A id \in DOMAIN checkpoints : checkpoints[id] \in Entry
    /\ now \in 0..MaxTime

\* Ids are consecutive from 1, every record is stored under its own id, and the two
\* counters agree with what is stored, whatever the mix of single and batch creations
\* (next_checkpoint_id).
IdsDense ==
    /\ DOMAIN checkpoints = 1..nextCheckpointId
    /\ checkpointCount = nextCheckpointId
    /\ \A id \in DOMAIN checkpoints : checkpoints[id].id = id

\* Checkpoints are in the order of time: an id handed out later is stamped no earlier,
\* and nothing is stamped in the future.
ChronologicalIds ==
    \A i, j \in DOMAIN checkpoints :
        /\ i < j => checkpoints[i].timestamp <= checkpoints[j].timestamp
        /\ checkpoints[j].timestamp <= now

\* A recorded checkpoint is never changed or removed: by a later creation, a batch, a
\* change of admin.
HistoryImmutable ==
    [][\A id \in DOMAIN checkpoints :
         id \in DOMAIN checkpoints' /\ checkpoints'[id] = checkpoints[id]]_vars

\* What a reader has seen who asks n times for the page after the last record seen.
Walk(limit) ==
    LET seen[n \in 0..U64Max] ==
          IF n = 0 THEN {}
          ELSE seen[n - 1] \cup CheckpointsRange(Cardinality(seen[n - 1]) + 1, limit)
    IN  seen

\* A reader who pages through the registry with any page size, oversized ones included,
\* sees every record and needs no more than one call per record.  (Within a page of the
\* end of the u64 range, get_checkpoints_range fails with Overflow.)
PagingSeesAll ==
    checkpointCount + MAX_PAGE_SIZE <= U64Max =>
        \A limit \in 1..MAX_PAGE_SIZE + 1 :
            Walk(limit)[checkpointCount] = {checkpoints[id] : id \in DOMAIN checkpoints}
=============================================================================
