-------------------------- MODULE StorageMigration --------------------------
(***************************************************************************)
(* The move of developer balances from the V1 storage layout, one amount   *)
(* per developer, to the per-token layout of Settlement (migrate.rs): in   *)
(* one call, page by page, or one developer at a time, while payments go   *)
(* on and insert developers into the index that the pages count positions  *)
(* in.  The operator runs the documented loop, offset = next until done.   *)
(***************************************************************************)
EXTENDS Settlement

CONSTANTS
    Deployed,           \* the contracts that may be upgraded to this program
    Operator,           \* the admin account that runs the loop
    BatchSizes,         \* batch sizes the operator may choose
    StrayOffsets,       \* offsets passed by calls that are not the operator's
    MaxRestarts         \* how often the operator starts over

ASSUME MigrationAssumption ==
    /\ BatchSizes \cup StrayOffsets \subseteq Nat
    /\ MaxRestarts \in Nat
\* The V1 program listed everybody it credited in the index, once.
ASSUME DeployedAssumption ==
    \A v1 \in Deployed :
        /\ v1.index \in Seq(Devs) /\ IsInjective(v1.index)
        /\ v1.legacy \in [Devs -> 0..I128Max]
        /\ \A d \in Devs : v1.legacy[d] > 0 => d \in Range(v1.index)
        /\ {v1.admin, v1.vault} \subseteq Principals
        /\ v1.token \in Tokens /\ v1.usdcToken \in {v1.token, None}

VARIABLES
    legacy,             \* DeveloperBalanceV1: developer -> amount, 0 where there is none
    storageVersion,
    offset,             \* where the operator's loop is
    batchSize,          \* the size it asks for
    restarts

mvars == <<legacy, storageVersion, offset, batchSize, restarts>>
migrationVars == <<vars, mvars>>

STORAGE_VERSION_V1 == 1
STORAGE_VERSION_V2 == 2

\* Nothing but balance and the V1 slots; no event names a developer.
untouched == <<roles, setup, limits, marks, pool, totalReceived, index, payouts, migration,
               now, books>>

-----------------------------------------------------------------------------
\* Merges the V1 balances of these developers into the USDC balances they have, and
\* removes the V1 slots; an overflow reverts the call.
MoveSlotsOverwriting(devs) ==
    /\ \A d \in devs : Fits(balance[d][usdcToken] + legacy[d])
    /\ balance' = [d \in Devs |->
         IF d \in devs /\ legacy[d] > 0 THEN [balance[d] EXCEPT ![usdcToken] = legacy[d]] ELSE balance[d]]
    /\ legacy' = [d \in Devs |-> IF d \in devs THEN 0 ELSE legacy[d]]
    /\ UNCHANGED untouched
MoveSlots(devs) ==
    /\ \A d \in devs : Fits(balance[d][usdcToken] + legacy[d])
    /\ balance' = [d \in Devs |->
         IF d \in devs THEN [balance[d] EXCEPT ![usdcToken] = @ + legacy[d]] ELSE balance[d]]
    /\ legacy' = [d \in Devs |-> IF d \in devs THEN 0 ELSE legacy[d]]
    /\ UNCHANGED untouched

MayMigrate(caller) == AdminCalls(caller) /\ usdcToken # None

\* Whatever the version and the index.
MigrateSingleDeveloper(caller, dev) ==
    /\ MayMigrate(caller)
    /\ MoveSlots({dev})
    /\ UNCHANGED <<storageVersion, offset, batchSize, restarts>>

\* The entry points for it; the second is an alias of the first.
MigrateDeveloperBalance(caller, dev) == MigrateSingleDeveloper(caller, dev)

MigrateV1ToV2(caller) ==
    /\ AdminCalls(caller)
    /\ storageVersion < STORAGE_VERSION_V2
    /\ usdcToken # None
    /\ MoveSlots(Range(index))
    /\ storageVersion' = STORAGE_VERSION_V2
    /\ UNCHANGED <<offset, batchSize, restarts>>

\* A size of 0 counts as 1.
EffectiveAsAsked(size) == Min({size, MAX_BATCH_SIZE})
Effective(size) == Min({Max({size, 1}), MAX_BATCH_SIZE})

PageEnd(from, size) == Min({from + Effective(size), Len(index)})

\* The developers at positions from .. PageEnd - 1, counted from 0.
Page(from, size) == Range(SubSeq(index, from + 1, PageEnd(from, size)))

MigratePage(caller, from, size) ==
    /\ AdminCalls(caller)
    /\ storageVersion < STORAGE_VERSION_V2
    /\ usdcToken # None
    /\ MoveSlots(Page(from, size))
    /\ storageVersion' = IF PageEnd(from, size) >= Len(index) THEN STORAGE_VERSION_V2 ELSE storageVersion

\* One round of the operator's loop.
LoopPage ==
    /\ MigratePage(Operator, offset, batchSize)
    /\ offset' = PageEnd(offset, batchSize)
    /\ UNCHANGED <<batchSize, restarts>>

\* The operator's process dies and the loop starts again, from 0, perhaps with another size.
Restart(size) ==
    /\ restarts < MaxRestarts
    /\ storageVersion < STORAGE_VERSION_V2
    /\ restarts' = restarts + 1
    /\ offset' = 0
    /\ batchSize' = size
    /\ UNCHANGED <<vars, legacy, storageVersion>>

\* A page that the loop did not ask for.
StrayPage(caller, from, size) ==
    /\ MigratePage(caller, from, size)
    /\ UNCHANGED <<offset, batchSize, restarts>>

-----------------------------------------------------------------------------
\* A V1 contract after its upgrade: V1 slots only for developers in the index, which V1
\* kept in an order of its own.  The V1 amounts are in v1.token, configured or not yet.
MInit ==
    /\ \E v1 \in Deployed :
         /\ index = v1.index
         /\ legacy = v1.legacy
         /\ admin = v1.admin /\ vault = v1.vault /\ usdcToken = v1.usdcToken
         /\ books = [EmptyBooks(Devs, Tokens, None) EXCEPT
              !.owed = [d \in Devs |-> [t \in Tokens |-> IF t = v1.token THEN v1.legacy[d] ELSE 0]],
              !.known = Range(v1.index), !.admin = v1.admin, !.vault = v1.vault]
    /\ pendingAdmin = None /\ pendingVault = None
    /\ contractVersion = None
    /\ pool = 0 /\ totalReceived = 0
    /\ balance = [d \in Devs |-> [t \in Tokens |-> 0]]
    /\ poolMark = 0 /\ mark = [d \in Devs |-> 0]
    /\ dailyCap = [d \in Devs |-> 0] /\ minBalance = [d \in Devs |-> 0]
    /\ claimWindow = [d \in Devs |-> None]
    /\ daily = [d \in Devs |-> [day |-> 0, amount |-> 0]]
    /\ migration = [d \in Devs |-> None]
    /\ held \in Genesis
    /\ now = 0
    /\ storageVersion = STORAGE_VERSION_V1
    /\ offset = 0 /\ restarts = 0
    /\ batchSize \in BatchSizes

MigrationStep ==
    \/ LoopPage
    \/ \E size \in BatchSizes : Restart(size)
    \/ \E c \in Principals, d \in Devs : MigrateDeveloperBalance(c, d)
    \/ \E c \in Principals : MigrateV1ToV2(c)
    \/ \E c \in Principals, from \in StrayOffsets, size \in BatchSizes : StrayPage(c, from, size)

\* The other calls that touch a balance, the index or the token.
Meanwhile ==
    PaymentStep \/ ForceCreditStep \/ PayoutStep \/ ProposalStep \/ ExecutionStep \/ SetupStep

MNext == MigrationStep \/ (Meanwhile /\ UNCHANGED mvars)

\* The operator's loop goes on as long as its calls succeed.
MSpec == MInit /\ [][MNext]_migrationVars /\ WF_migrationVars(LoopPage)

-----------------------------------------------------------------------------
Withdrawable(d) == SumFunctionOnSet(balance[d], Tokens)

\* What the developer has been credited with, and has not withdrawn, according to the
\* events since the contract's first day.
Earned(d) == SumFunctionOnSet(books.owed[d], Tokens)

\* The move loses and duplicates nothing: in every state what a developer is owed in both
\* layouts is what was earned, and once the storage says version 2 all of it can be
\* withdrawn.  This is for the documented loop, restarted, raced by one-shot and single
\* migrations, by payments that move the positions that pages count, and by withdrawals.
\* ("Existing V2 credits [...] are preserved and merged", "`is_complete` - `true` when all
\* slots are migrated": migrate.rs.)
MigrationLosesNothing ==
    \A d \in Devs :
        /\ Withdrawable(d) + legacy[d] = Earned(d)
        /\ storageVersion = STORAGE_VERSION_V2 => Withdrawable(d) = Earned(d)

\* What the documentation says of a page call's is_complete: "true when all slots are
\* migrated and StorageVersion == 2" (migrate.rs:151).  Not so: a page that starts beyond
\* developers whom no earlier page moved completes the migration all the same, and the V1
\* balances of those developers are then out of reach of every paged call.
CompleteMeansMigrated == storageVersion = STORAGE_VERSION_V2 => \A d \in Devs : legacy[d] = 0

\* The documented loop ends: while the operator is the admin, a token is configured and
\* no merge overflows, it reaches version 2 with any batch size, 0 included, however many
\* payments insert developers before its position.
LoopFinishes ==
    <>[](admin = Operator /\ usdcToken # None
           /\ \A d \in Devs : usdcToken # None => Fits(balance[d][usdcToken] + legacy[d]))
        => <>(storageVersion = STORAGE_VERSION_V2)
=============================================================================
