--------------------------- MODULE SettlementWalks ---------------------------
(***************************************************************************)
(* Both walks through the developer index, the storage migration's and the *)
(* reconciliation job's, over one settlement contract that was deployed    *)
(* with the V1 layout.                                                     *)
(***************************************************************************)
EXTENDS StorageMigration, DeveloperPages

WalkInit == MInit /\ walk = None
\* The job lists V2 balances, and runs once these are all there are.
WalkNext ==
    \/ MNext /\ UNCHANGED walk
    \/ WalkStep /\ storageVersion = STORAGE_VERSION_V2 /\ UNCHANGED mvars
WalkSpec == WalkInit /\ [][WalkNext]_<<migrationVars, walk>> /\ WF_migrationVars(LoopPage /\ UNCHANGED walk)
=============================================================================
