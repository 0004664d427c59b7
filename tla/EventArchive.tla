---------------------------- MODULE EventArchive ----------------------------
(***************************************************************************)
(* The FIFO archive of a developer's events (settlement, archive.rs):      *)
(* events at positions tail .. head - 1 are active, archive_events moves   *)
(* the oldest of them to temporary storage.  The writer of active events   *)
(* is not in the repository; the module's test shows what it stores.       *)
(***************************************************************************)
EXTENDS Integers, FiniteSets

CONSTANTS
    Payloads,           \* event data
    ArchiveSizes,       \* batch_size values that a developer asks for
    MaxHead             \* how many events a developer may have

ASSUME ArchiveAssumption == ArchiveSizes \cup {MaxHead} \subseteq Nat

VARIABLES
    tail, head,         \* Cursor
    active, archived    \* position -> payload, where there is an entry

archiveVars == <<tail, head, active, archived>>

-----------------------------------------------------------------------------
\* Outside: the writer appends an event.
RecordEvent(payload) ==
    /\ head < MaxHead
    /\ head' = head + 1
    /\ active' = [i \in DOMAIN active \cup {head} |-> IF i = head THEN payload ELSE active[i]]
    /\ UNCHANGED <<tail, archived>>

\* Outside: an archived entry, which is temporary, expires.
Expires(i) ==
    /\ archived' = [k \in DOMAIN archived \ {i} |-> archived[k]]
    /\ UNCHANGED <<tail, head, active>>

\* The positions that one call goes through.
UpToHead(size) == {i \in tail..head : i - tail < size}
Oldest(size) == {i \in tail..head - 1 : i - tail < size}

\* An entry that is missing is passed over; a call that passes nothing writes nothing.
ArchiveEvents(size) ==
    LET moved == Oldest(size) IN
    /\ moved # {}
    /\ tail' = tail + Cardinality(moved)
    /\ archived' = [i \in DOMAIN archived \cup (moved \cap DOMAIN active) |->
                      IF i \in moved \cap DOMAIN active THEN active[i] ELSE archived[i]]
    /\ active' = [i \in DOMAIN active \ moved |-> active[i]]
    /\ UNCHANGED head

-----------------------------------------------------------------------------
ArchiveInit ==
    /\ tail = 0 /\ head = 0
    /\ active = [i \in {} |-> 0] /\ archived = [i \in {} |-> 0]

ArchiveNext ==
    \/ \E payload \in Payloads : RecordEvent(payload)
    \/ \E size \in ArchiveSizes : ArchiveEvents(size)
    \/ \E i \in DOMAIN archived : Expires(i)

-----------------------------------------------------------------------------
\* Every recorded event stays active until it is archived, oldest first: no event is
\* dropped or passed over, whatever the batch sizes and however calls and new events
\* alternate, and none changes on its way ("Atomic read-write-delete", archive.rs).
NoEventSkipped ==
    [][/\ DOMAIN active' \cap 0..tail' - 1 = {} /\ tail'..head' - 1 \subseteq DOMAIN active'
       /\ \A i \in DOMAIN active \ DOMAIN active' :
            i \in DOMAIN archived' /\ archived'[i] = active[i]]_archiveVars
=============================================================================
