----------------------------- MODULE MCLibraries -----------------------------
(* The parts that no contract calls yet, each on its own: a behaviour is of one of them. *)
EXTENDS ColdStorage, RateLimit, EventArchive, SnapshotDiff

VARIABLE running

AnySplit == 0..6
AllShares == {0, 1, 2, 5, 9, 10, 11}
Rates == 0..2

\* A configuration for the behaviours that do not look at it.
SomeConfig == CHOOSE c \in Configs : Validate(c)

LibInit ==
    /\ running \in {"cold", "bucket", "archive", "diff"}
    /\ BucketInit /\ ArchiveInit
    /\ IF running = "cold" THEN SplitInit ELSE hot = 0 /\ cold = 0 /\ config = SomeConfig
    /\ IF running = "diff" THEN DiffInit
       ELSE /\ before = <<>> /\ after = <<>> /\ changes = <<>>
            /\ leftBefore = {} /\ leftAfter = {}

LibNext ==
    /\ UNCHANGED running
    /\ \/ /\ running = "cold" /\ SplitNext
          /\ UNCHANGED <<bucketVars, archiveVars, diffVars>>
       \/ /\ running = "bucket" /\ BucketNext
          /\ UNCHANGED <<splitVars, archiveVars, diffVars>>
       \/ /\ running = "archive" /\ ArchiveNext
          /\ UNCHANGED <<splitVars, bucketVars, diffVars>>
       \/ /\ running = "diff" /\ DiffNext
          /\ UNCHANGED <<splitVars, bucketVars, archiveVars>>

LibSpec == LibInit /\ [][LibNext]_<<running, splitVars, bucketVars, archiveVars, diffVars>>
=============================================================================
