---------------------------- MODULE SnapshotDiff ----------------------------
(***************************************************************************)
(* diff_snapshots (helpers, snapshot_diff.rs): the changes between two     *)
(* storage snapshots, found in one pass over both in the order of keys.    *)
(***************************************************************************)
EXTENDS Integers, Sequences, FiniteSets

CONSTANTS
    Keys,               \* numbers: only their order matters
    Values,
    MaxEntries          \* the longest snapshot

ASSUME DiffAssumption == Keys \subseteq Nat /\ MaxEntries \in Nat

VARIABLES
    before, after,      \* lists of [key, value], in any order, keys repeated or not
    leftBefore, leftAfter,  \* keys that the pass has not come to yet
    changes

diffVars == <<before, after, leftBefore, leftAfter, changes>>

-----------------------------------------------------------------------------
\* Of a repeated key the last entry counts, for BTreeMap::insert replaces.
KeysOf(snapshot) == {snapshot[i].key : i \in DOMAIN snapshot}
ValueFirst(snapshot, key) ==
    snapshot[CHOOSE i \in DOMAIN snapshot : snapshot[i].key = key /\
               \A j \in DOMAIN snapshot : snapshot[j].key = key => i <= j].value
ValueOf(snapshot, key) ==
    snapshot[CHOOSE i \in DOMAIN snapshot : snapshot[i].key = key /\
               \A j \in DOMAIN snapshot : snapshot[j].key = key => j <= i].value

Added(key) == [kind |-> "Added", key |-> key, value |-> ValueOf(after, key)]
Removed(key) == [kind |-> "Removed", key |-> key, value |-> ValueOf(before, key)]
Modified(key) == [kind |-> "Modified", key |-> key, old_value |-> ValueOf(before, key),
                  new_value |-> ValueOf(after, key)]

Least(keys) == CHOOSE k \in keys : \A other \in keys : k <= other

\* The pass is at a key of before that comes first, or after has none left.
PassRemoved ==
    /\ leftBefore # {}
    /\ leftAfter # {} => Least(leftBefore) < Least(leftAfter)
    /\ changes' = Append(changes, Removed(Least(leftBefore)))
    /\ leftBefore' = leftBefore \ {Least(leftBefore)}
    /\ UNCHANGED <<before, after, leftAfter>>

PassAdded ==
    /\ leftAfter # {}
    /\ leftBefore # {} => Least(leftBefore) > Least(leftAfter)
    /\ changes' = Append(changes, Added(Least(leftAfter)))
    /\ leftAfter' = leftAfter \ {Least(leftAfter)}
    /\ UNCHANGED <<before, after, leftBefore>>

PassCommon ==
    /\ leftBefore # {} /\ leftAfter # {}
    /\ Least(leftBefore) = Least(leftAfter)
    /\ LET key == Least(leftBefore) IN
       /\ changes' = IF ValueOf(before, key) # ValueOf(after, key)
                     THEN Append(changes, Modified(key)) ELSE changes
       /\ leftBefore' = leftBefore \ {key}
       /\ leftAfter' = leftAfter \ {key}
    /\ UNCHANGED <<before, after>>

\* The final sort finds the list sorted already.

-----------------------------------------------------------------------------
Snapshots == UNION {[1..n -> [key : Keys, value : Values]] : n \in 0..MaxEntries}

DiffInit ==
    /\ before \in Snapshots /\ after \in Snapshots
    /\ leftBefore = KeysOf(before) /\ leftAfter = KeysOf(after)
    /\ changes = <<>>

DiffNext == PassRemoved \/ PassAdded \/ PassCommon

-----------------------------------------------------------------------------
\* The entries that no later entry replaces.
AsMap(snapshot) ==
    {snapshot[i] : i \in {n \in DOMAIN snapshot :
                            \A m \in DOMAIN snapshot : m > n => snapshot[m].key # snapshot[n].key}}

Entry(key, value) == [key |-> key, value |-> value]

\* before with the changes made.
Patched ==
    LET made == {changes[i] : i \in DOMAIN changes}
        gone == {Entry(c.key, c.value) : c \in {m \in made : m.kind = "Removed"}}
                \cup {Entry(c.key, c.old_value) : c \in {m \in made : m.kind = "Modified"}}
        come == {Entry(c.key, c.value) : c \in {m \in made : m.kind = "Added"}}
                \cup {Entry(c.key, c.new_value) : c \in {m \in made : m.kind = "Modified"}}
    IN  (AsMap(before) \ gone) \cup come

\* The finished list turns before into after, in the order of keys, and names a key only
\* when its value is not the same: for snapshots with their entries in any order and with
\* repeated keys.
DiffIsExact ==
    /\ \A i, j \in DOMAIN changes : i < j => changes[i].key < changes[j].key
    /\ leftBefore = {} /\ leftAfter = {} =>
         /\ Patched = AsMap(after)
         /\ \A i \in DOMAIN changes :
              Entry(changes[i].key, TRUE) \notin
                {Entry(e.key, TRUE) : e \in AsMap(before) \cap AsMap(after)}
=============================================================================
