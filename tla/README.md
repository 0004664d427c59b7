# TLA+ models of the Callora contracts

Callora is a pay-per-call billing system on Soroban (Stellar). API consumers
prepay USDC into a **vault**; a backend deducts the price of each call, and the
vault pays it to a **settlement** contract, which credits developers and lets
them withdraw; a **revenue pool** distributes the platform's share, and a
**checkpoint** registry keeps balance snapshots. This directory holds TLA+
models of these contracts, TLC configurations that check them on small
instances, and TLAPS proofs of the properties that matter most.

Everything here is translated from the Rust code under `contracts/`. Where the
documentation says something else, the model follows the code; a run shows the
difference, or `PROJECT.json` records it under `findings`.

## 1. The system

### Execution model

A contract call is atomic. A panic, or an `Err` returned to the host, reverts
everything the call did, its token transfers included. In the models a failing
call is therefore **no step**, and every early return, `assert!` and checked
addition is a conjunct of an action's guard. `caller.require_auth()` is the
`caller` parameter of the action: any account may try any call. What
interleaves is whole calls, by any number of parties in any order, with the
passing of ledger time and with token transfers that bypass the contract.

The one place where a failure does not revert its caller is `batch_settle`,
which catches the `Err` of one withdrawal and goes on, while a panic still
reverts the whole batch. The model keeps that difference.

### Components

| Component | State | Operations | What is hard |
|---|---|---|---|
| Vault (`vault/src/lib.rs`) | owner, authorized caller, tracked balance, min deposit, max deduct, settlement address, pause flag | init, deposit, deduct, batch_deduct, the owner's setters, pause, unpause | the tracked balance is a second ledger next to the USDC the vault holds; settlement address and limits change between calls |
| Escape hatches (`vault/src/timelock.rs`) | window, three pending slots, program version | propose, execute, cancel for pause, upgrade and sweep; set_timelock_window | proposals outlive changes of window and admin; deadlines near the end of u64; everything may change before execution |
| Reserve cap (`vault/src/limits.rs`) | cap | set_reserve_cap | a check that has to be called |
| Settlement payments (`settlement/src/lib.rs`, `replay_guard.rs`) | pool, balances by developer and token, developer index, high-water marks | receive_payment, batch_receive_payment, force_credit_developer | duplicated, late and reordered payments; duplicates inside a batch; the index is kept apart from the balances |
| Settlement payouts (`lib.rs`, `limits.rs`, `batch.rs`) | daily records, caps, minimum balances, claim windows | withdraw_developer_balance, batch_settle, the setters | partial failure inside a batch, midnight, limits changed between payouts |
| Balance migration (`settlement/src/admin.rs`, `timelock.rs`) | a pending proposal for each developer | propose, execute | withdrawals, credits and other migrations while a proposal waits |
| Settlement roles | admin, pending admin, vault, pending vault, USDC token, version | set_admin, accept_admin, cancel_admin_transfer, propose_vault, set_vault, accept_vault, set_usdc_token, upgrade | hand-overs racing each other |
| Revenue pool (`revenue_pool/src/lib.rs`, `emergency.rs`) | admin, pending admin, guardian, pause flag, cap, yield total, pending drain | deposit_yield, distribute, batch_distribute, pause, unpause, drain, the setters | splitting a payment over a batch, a drain during a pause, a counter raised before its transfer |
| Checkpoint (`checkpoint/src/lib.rs`) | admin, pending admin, last id, count, records | create_checkpoint, batch_create_checkpoints, get_checkpoints_range | two counters and a map kept together; off-by-one of ids and pages |
| Events (`events.rs` of each contract) | none on chain; what a reader of the log believes | every call publishes | one missing, repeated or wrong event, in a batch, leaves a reader wrong for ever |
| Storage migration (`settlement/src/migrate.rs`) | V1 balances, storage version; off chain: where the operator's loop is | one-shot, paged, single developer | pages count positions in an index that grows meanwhile; amounts are merged into balances in use |
| Paging views (`settlement/src/pagination.rs`, `lib.rs`) | none; off chain: a job's cursor | all at once, by position, by cursor | the index grows between two pages |
| Hot/cold split (`vault/src/cold_storage.rs`) | hot, cold, configuration | validate, rebalance | three divisions that round on their own |
| Rate limiter (`vault/src/rate_limit.rs`) | a bucket and its configuration | set_config, consume_tokens | lazy refill, configurations that change |
| Event archive (`settlement/src/archive.rs`) | a cursor, active and archived entries | archive_events | off-by-one at the head, entries that expire |
| Snapshot diff (`helpers/src/snapshot_diff.rs`) | none | diff_snapshots | repeated and unordered keys, tails |

The last four are code that no entry point of a contract calls.

How they interact. The vault transfers USDC to whatever address `settlement`
holds when a deduction runs. Its other call, `record_deduction`, is a stub that
keeps no state: the settlement contract has no function of that name. The
settlement contract learns of a payment only when its registered vault address
or its admin calls `receive_payment`. The revenue pool meets the others only
through USDC transfers. All of them share the ledger's clock.

`PROJECT.json` lists every part, the ones that are not modelled included, and
the hazards at the lines where they bite.

## 2. Modules

| Module | Models | Properties in |
|---|---|---|
| `Vault` | `contracts/vault/src/{lib,timelock,limits,views}.rs` | `VaultProperties`, `VaultHistory` |
| `VaultEvents` | the events of the vault's hatches, window and cap (`vault/src/events.rs`), and one who watches them | itself |
| `Settlement` | `contracts/settlement/src/{lib,admin,timelock,replay_guard,limits,batch,types}.rs` | `SettlementHistory` |
| `SettlementEvents` | the events of the settlement contract and the books an indexer keeps of them | `SettlementHistory` |
| `StorageMigration` | `contracts/settlement/src/migrate.rs`, over `Settlement` | itself |
| `DeveloperPages` | `contracts/settlement/src/pagination.rs` and the listing views, over `Settlement` | itself |
| `SettlementWalks` | the composition of the two: both walk through the index of one contract | `StorageMigration`, `DeveloperPages` |
| `RevenuePool` | `contracts/revenue_pool/src/{lib,emergency}.rs` | `RevenuePoolHistory` |
| `RevenuePoolEvents` | the events of the pool and the books a treasury monitor keeps of them | `RevenuePoolHistory` |
| `Checkpoint` | `contracts/checkpoint/src/lib.rs` | itself |
| `Billing` | the composition of `Vault` and `Settlement` over one USDC ledger, with the backend between them | itself |
| `ColdStorage`, `RateLimit`, `EventArchive`, `SnapshotDiff` | the files of the same names | themselves |
| `Timelock` | abstract: what any timelocked operation promises | refined by the vault's upgrade slot and by the emergency drain |
| `TwoStepRole` | abstract: what a two-step hand-over promises | refined by the vault's admin and by the settlement contract's admin and vault roles (checked and proved), and by the admins of the pool and the registry (proved) |
| `MC...` | values that a `.cfg` cannot write; `MCLibraries` puts the four library modules side by side | |
| `...Proofs` | theorems, see section 4; `ClientProofs` is about `SettlementWalks` and `Billing`, `LibraryProofs` about the four library modules | |
| `Induction` | induction over sets of numbers and finite sets, and sums, for the proofs | |

`Billing` instantiates `Vault` with its own variables for the money and
constants for the rest of the configuration, and extends `Settlement`; both
contracts' actions are used as they are. `StorageMigration` and `DeveloperPages`
extend `Settlement` in the same way and keep all of its payments, payouts and
proposals running.

Events are state. `Settlement` and `RevenuePool` carry `books`: what a reader of
the log believes after the events published so far, and each action says which
events it publishes, in their order. `VaultEvents` does the same beside the
vault's actions, in `seen`. Books restrict no call. That they agree with the
views (`get_*`, which are operators of the models) is a property, not a
definition.

State variables carry the names of the storage keys they stand for, and an
action the name of its function in CamelCase. `InitVault`, `InitPool`,
`InitSettlement` and `InitCheckpoint` are the contracts' `init`; the modules'
`Init` is a contract with empty storage, to which `init` has not been applied.

A `...History` module adds variables that record what the contract itself
forgets (request ids charged, what was paid since midnight). They are written in
conjunction with the contract's own steps and restrict none of them.

Beside some definitions stands a second one that nothing uses, with a name that
says how it is wrong (`CoversEvenOverdrawn` next to `Covers`). These are
plausible bugs of that code. Put in place of the right definition each makes
one property fail, which shows that the property depends on that code;
`PROJECT.json` lists the pairs under `mutants`.

### What is abstracted, and why nothing is lost

- **Errors and time to live.** Which error a failing call reports and how long
  an entry lives changes no state that a property is about. The host refuses a
  call that touches an archived persistent entry, so an entry is never mistaken
  for an absent one.
- **Event texts.** An event is its topic and the fields a reader uses.
- **The backend** of `Billing` is not in the repository. The model takes from
  the README's flow and the cross-contract tests that it deducts, then reports
  the payment; that it numbers a claim with the ledger's sequence, repeats it
  unchanged, and keeps one claim of a payee open at a time is what the replay
  guard's contract asks of it. Without that order `DebitsGetCredited` would be
  false: a claim overtaken by a later one of the same developer is refused for
  good, which `replay_guard.rs` documents as its choice.
- **V1 balances** are placed by the initial state of `StorageMigration`: the
  present program cannot write them. Only developers in the index have some, as
  the V1 program put every creditor there.
- **USDC** is a function from addresses to balances with the token contract's
  rules: a transfer fails without cover or past i128, and one to oneself
  changes nothing. In the settlement model only the contract's own holdings are
  kept (`held`), because a withdrawal's recipient matters in one way only: is it
  the contract itself?
- **The vault's depositor flag** (`DataKey::Depositor`) is set by no function, so
  the owner is the only depositor, as in the code.
- **`set_authorized_caller`** takes the caller and no other address: it makes
  the owner the authorized caller. The model says the same.
- **`prune_processed_requests`** removes markers that no function writes.
- **`batch_settle` and signatures.** The model lets one batch name a developer
  several times, also where the host would ask that developer to sign each item:
  more behaviours than the code has, so what holds of the model holds of it.
- **Upgrades.** `upgrade` replaces the program. The models record the new hash
  and go on with the same program.
- **Checkpoint records** leave out token and metadata, which are stored and
  never read.
- **Numbers keep their limits**: `I128Max`, `U64Max` and `MaxTime` are small in
  the runs and arbitrary in the proofs. Amounts are passed as the caller likes;
  the guards reject what the code rejects.
- **`mark`, `poolMark`** hold u32 sequence numbers from a finite set of inputs.

### Not modelled

- `current_lib.rs` and `history_lib.rs` at the root: older vaults that no crate
  compiles. `revenue_pool/src/admin.rs`, `vault/src/rescue.rs`,
  `vault/src/validators.rs`: files that no `mod` names. `settlement/src/queue.rs`
  is a TODO comment. `capabilities.rs` returns a constant.
- Time to live (`extend_ttl`, `get_storage_ttl`): see above; what it reports
  outside test builds is a constant (findings).
- Error codes, and the checkpoint contract's events, which repeat records that
  can be read by id.
- The multisig cold sweep that `cold_storage.rs` describes: there is no code.
- `chunk_iter` of the pool, a pure list helper that nothing calls, and
  `batch_withdraw_balance_cursor`, which does nothing.
- Kani harnesses, fuzz targets, scripts and the demo page: development tools.

## 3. Runs

All bounds are constants of the `.cfg` files. Deadlock is checked in every run but
`libraries`. An account that repeats an idempotent call keeps each system moving at the end
of time.

| Run | Asks | Bounds, and why they are enough |
|---|---|---|
| `vault_hatches` | Do proposals wait, mature and stay single-use, whatever rotating admins, changing windows and the clock do? | Two users, one WASM hash, windows 1 and 2 (0 and 3 are refused), clock 0..4, the pause and upgrade slots. Four ticks let a proposal be made, outlive a change of window, be replaced and mature, and the last proposals miss the end of u64 |
| `vault_money` | Do the tracked balance and the USDC stay together? | Two users, amounts 1 and 2, batches of up to two items, opening balances below and above what the vault holds, I128Max 3, the sweep slot. Every pair of deposit, deduction, gift, reconfiguration and sweep occurs, the settlement address may be any account or the vault itself |
| `settlement_payments` | Are payments credited once, creditors indexed, and both announced? | Two developers, sequence numbers 0..2 in any order, batches of up to two items that may name one developer twice, the admin and vault roles rotating through nominee `v`. The clock does not matter here and stands still |
| `settlement_payouts` | Are payouts debited, limited and announced? | Two developers, amounts 1 and 2, a two-tick day so that the third tick is past midnight, a one-tick migration delay, caps, minimums and windows of one value each, batches of up to two items. See below |
| `settlement_walks` | Does the V1 to V2 loop move every balance once and end, and does a paging job see everybody, while the index grows? | Three developers, two with V1 balances, in either order of the old index and with or without a configured token; batch sizes 0 (which counts as 1) and 3 (above the limit of 2), one restart, stray pages from 0; page limits 1 and 3 against a cap of 2. The third developer is inserted before, between or after the others |
| `billing` | Do the books of vault, settlement and backend balance, and is every debit credited? | Four charges: two of one developer, so that one claim could overtake the other, one of a second developer, one for the pool; deducted singly or in batches of two; every claim may arrive any number of times, at any time after it was sent |
| `revenue_pool` | What leaves the pool, how, and do the events say so? | Two accounts that swap admin and guardian, caps 0 and 1 below the default, batches of two payments to any address, a one-tick drain delay, I128Max 2 |
| `checkpoint` | Are ids dense and chronological, and does paging see all? | Batches of up to three items against a limit of two, pages of two, ids up to 5, three timestamps |
| `libraries` | Is each of the four library modules right? | A denominator of 10 basis points, so that every remainder occurs, with shares below, at and above it (the ones above are refused); capacities 1 and 3 with rates 0..2 and four charges, and an i128 small enough for a refill to overflow; archives of three events in batches of 1, 2 and 4; snapshots of up to two entries over three keys. A behaviour is of one module; it may stop, hence no deadlock check |

Two reductions in `settlement_payouts`. `SYMMETRY SwapPrincipals` exchanges the
two accounts that may become admin and vault: `init` names them and no
definition orders them. `CONSTRAINT LimitsOnlyForOne` keeps limits off developer
2: a payout reads the limits of the developer it pays and of no other, so the
interaction between a limited and an unlimited developer is covered, and that
between two limited ones does not exist in the code. None of the run's
properties is a liveness property, for which neither reduction would be sound.

### Fairness

Three liveness properties are stated, each under its own fairness.

- `ProposalsMature` assumes `WF_vars(Tick)`: ledgers go on closing, which the
  network does whoever uses the contract. Nobody is assumed to call anything.
  `Tick` is bounded by `U64Max`, so the property says that a deadline which was
  accepted is one that the clock reaches.
- `LoopFinishes` assumes weak fairness of `LoopPage`, the loop documented in
  `migrate.rs`: an operator who has begun it goes on, and is restarted
  `MaxRestarts` times. Nothing else is fair; the property has as its hypothesis
  that in the end the operator stays admin, a token is configured and no merge
  overflows.
- `DebitsGetCredited` assumes weak fairness of the backend's `Claim`, `Deliver`
  and `Confirm` and of `CloseLedger`: an off-chain process that retries what it
  has not had confirmed, over a network that delivers in the end. It need not
  collect charges, and nobody has to withdraw.

`Timelock` and `TwoStepRole` are safety specifications and need none.

### What the passing runs show

*Vault.* After `init`, deposits and deductions move the tracked balance and the
USDC by the same amount, in the same step; a debit reaches the settlement
address in force (`DeductionsReachSettlement`); only a matured sweep for exactly
the amount proposed lowers the surplus (`SurplusFallsOnlyByMaturedSweep`), and
if the admin sized its proposals by `dry_run_sweep_idle_balance` the vault stays
covered, although that answer is a window old when the sweep runs
(`CoveredDespiteSweeps`). A batch cannot overdraw (`NeverOverdrawn`). A pause
freezes both ledgers but for sweeps (`PauseFreezesMoney`). A change of window
never shortens the wait of a proposal below the minimum (`DelayHonoured`), the
upgrade slot implements `Timelock` (`UpgradeIsTimelocked`), and no hatch can open
that a watcher of the events does not know of (`WatcherSeesEveryHatch`).

*Settlement.* `NoPaymentAppliedTwice`, `IndexComplete`; `PayoutsAreDebited` (what
it owes and what it holds fall together), `DailyTally` and `DailyCapHeld` (the
cap bounds the sum since midnight), `PayoutsKeepLimits`, `MigrationMovesApproved`,
`RolesAreTwoStep`. `IndexerAgrees`: an indexer that reads nothing but events
arrives at every balance, limit, proposal and role, and each balance that an
event carries is the one it arrives at.

*Migration and paging.* `MigrationLosesNothing`: in the documented use the two
layouts together hold, at every moment, exactly what each developer has earned.
`WalksMissNobody`: a walk that ends has seen everybody who was there when it
began. By position a developer may be seen twice, when one is inserted in
front; by cursor nobody is.

*Billing.* `Reconciles` and `DebitsGetCredited`: the settlement contract's USDC
is what it owes plus what was deducted and not yet credited, and that remainder
drains. This is the conservation law of `INVARIANTS.md` and
`cross_contract_conservation.rs`, with the failures those tests leave out.

*Revenue pool.* `OutflowsAuthorised`: not paused and at most `max_distribute`
for each recipient, or a matured drain. `MonitorAgrees`: the events account for
every unit the pool holds, the yield total included. `DrainIsTimelocked`: the
drain implements `Timelock`, with the last executed payload as its visible
effect.

*Checkpoint.* `IdsDense`, `ChronologicalIds`, `HistoryImmutable`, and
`PagingSeesAll`: a reader that asks for the page after the last record it has
seen gets every record, whatever its page size. Within one page of the end of
the u64 range `get_checkpoints_range` fails with `Overflow`; the property
excludes that region by name.

*Libraries.* `RebalanceIsSafe` (one rebalance is enough, and none takes from
cold), `BurstsAreBounded` (no more than a full bucket and the refill goes
through between any two charges, by the most generous configuration there has
been), `NoEventSkipped`, `DiffIsExact`.

### What the violated runs show

Each checks one sentence of the documentation against the code.

| Run | The documentation | The code |
|---|---|---|
| `vault_replay` | a repeated `request_id` is rejected (`vault/src/lib.rs:34-36`) | stores no id, charges again |
| `settlement_token` | an approval is an immutable snapshot (`settlement/src/timelock.rs:10`) | the token is read at execution |
| `settlement_skipped` | `is_complete` means that all slots are migrated (`settlement/src/migrate.rs:151`) | the page that reaches the end says so, wherever it began |

The other differences met while modelling are in `PROJECT.json` under `findings`,
with the lines on both sides: among them, sweeps that may take more than the
surplus, the reserve cap that `deposit` never reads, `get_total_received` that
stays 0, events that are documented and not published, and a batch withdrawal
that does nothing.

Further differences that need no finding of their own: `init` of the vault
accepts an opening balance that is negative or not covered, although
`INVARIANTS.md` lists both as preconditions and the error enum has codes for them
(the models accept every opening, and `CoveredDespiteSweeps` and `NeverOverdrawn`
have the cover as a hypothesis); the owner's `pause` is immediate, beside the
timelocked one of the table at `vault/src/lib.rs:7-13`; `set_max_deduct` may go
below `min_deposit`, after which no deduction is possible; the wasm build of the
vault takes its settlement client from the settlement contract's interface, which
has no `record_deduction`, so that only the native stub can be modelled; the doc
of `set_minimum_balance` says that it is not enforced, and it forwards to the
setter whose value `withdraw_developer_balance` enforces.

## 4. Proofs

The proofs hold for every value of the constants that satisfies the `ASSUME`s of
the modules: any set of users and developers, amounts, hashes, windows and
configurations, batches of any length, any widths. TLC evaluates the assumptions
on every run that has the module. All but a few say that numbers are numbers and
accounts are distinct. The others:

- `NoneAssumption`, in three modules: `None` is no record, as `Option::None` is
  no `Some`; `PageAssumption` and `AddressAssumption` say it of developers and
  addresses.
- `DeployedAssumption`: the V1 program listed everybody it had credited in the
  index, once.
- `AccountAssumption` of `Billing`: the vault, the settlement contract, its
  developers' payout account and the vault's owner are different accounts. The
  backend may be the owner.
- `NothingIsLost` has a hypothesis of its own, `StrayOffsets \subseteq {0}`: whoever
  calls `migrate_v1_to_v2_page` begins at the first position, as the documented
  loop does. Without it the statement is false, and the run `settlement_skipped`
  shows why: a page that begins further back completes the migration.

### Batches, walks and other recursion

The models compute batches with folds and recursive functions. The induction
theorems of the library take an operator as a parameter, which the installed
provers cannot instantiate. `Induction` states the principle over a set instead
(`NatSetInduction`: a set that has 0 and every successor has every natural
number), and a proof names the set of the numbers that its claim holds of. Each
recursive function is first shown to exist and to satisfy its equation, in the
same way (`BooksFold`, for example); from then on only the equation is used. A
claim about a batch is made of the state after each of its prefixes.

### Theorems

| Theorem in `VaultProofs` | Says | Argument |
|---|---|---|
| `TypeCorrect` | `Spec => []TypeOK` | `TypeOK` is inductive as stated. It has conjuncts that a shape-only invariant lacks: each hatch holds payloads of its own kind (else `ExecuteSweep` could not be shown to pay a number to an address), the window stays in its bounds, `init` sets all roles at once |
| `DelayAlwaysHonoured` | `[]DelayHonoured` | inductive relative to `TypeOK`, which bounds the window that `Propose` adds |
| `SurplusPreserved` | the surplus falls only by a matured sweep | one step per action: balance and USDC move by the same amount |
| `BalanceNeverOverdrawn` | no call overdraws | from `Covers`, whatever the sum of a batch is |
| `DeductionsAreSettled` | what is deducted arrives at the settlement address | a batch takes the sum of its items, which is what is transferred; from `TypeOK` |
| `PauseStopsMoney` | a pause freezes both ledgers | `OpenUntilInit`: a vault without an owner is not paused, so `init` cannot set the tracked balance during a pause |
| `UpgradesAreTimelocked` | refinement of `Timelock` | each action maps to `Propose`, `Cancel`, `Execute`, `Tick` or a stutter, by way of `DelayHonoured` and `TypeOK` |
| `AdminChangesInTwoSteps` | refinement of `TwoStepRole` | the same, from `TypeOK` |
| `SolventDespiteSweeps` | `HSpec => []CoveredDespiteSweeps` | `KeepsCover`: the surplus is not negative, and a pending sweep that followed the preview is within it. The second half is what makes it inductive: it survives the wait because nothing but a sweep lowers the surplus (`OnlySweepsTake`) and only one can be pending |
| `WatchersSeeEveryHatch` | `[]WatcherSeesEveryHatch` | inductive with `TypeOK`; one lemma for each kind of event, that it is heard for its own slot and changes no other |

| Theorem in `SettlementProofs` | Says | Argument |
|---|---|---|
| `PaymentsAppliedOnce` | `[]NoPaymentAppliedTwice` | `MarksCover`: every payment applied is at or below its developer's mark; a batch raises all its marks and names nobody twice |
| `MigrationsMoveWhatWasApproved` | a migration does what was approved | `MigrationsWait`: a pending migration matures the full delay after its proposal, with another developer as its destination |
| `RolesChangeInTwoSteps` | both roles refine `TwoStepRole` | `RolesOpen`: `init` sets both at once and nobody is nominated before it |
| `TypeCorrect` | `HSpec => []TypeOK` | `Sound`: the types with the shape of every record, and `Indexed`. The two are proved together, since a credit inserts into a list that has to be sorted and of developers, and a withdrawal leaves a number only because the balance was one. Batches item by item |
| `IndexMissesNobody` | `[]IndexComplete` | the second half of `Sound`: the index is sorted, without repetition, and has everybody who is owed something. A sorted insertion keeps that, a batch of them too |

| Theorem in `SettlementMoneyProofs` | Says | Argument |
|---|---|---|
| `TallyIsExact` | `[]DailyTally` | `TallyExact`, on top of `Sound`: the record of today is what was paid since midnight, and none is of a later day, which a new day and a late batch both need |
| `CapIsHeld`, `LimitsAreKept` | payouts stay within the cap, the window and the minimum | `WhilePaying`: after every item of a batch, paid or refused, the developer's record has grown by what was paid and stays within the limits |
| `DebitsMatchPayouts` | what is owed and what is held fall together | `Debited`: after every item of a batch the sum owed in a token has fallen by what left the contract. The sum over developers changes by the change of one summand |
| `IndexerIsExact` | `[]IndexerAgrees` | `BooksExact`: the books are the state, each balance that an event has carried included. A batch publishes item by item; the books after each prefix are those of the balances after it |

| Theorem in `RevenuePoolProofs` | Says | Argument |
|---|---|---|
| `DrainsAreTimelocked` | refinement of `Timelock` | each action maps to a step of it or a stutter; the clock is a number (`ClockTyped`) |
| `AdminChangesInTwoSteps` | refinement of `TwoStepRole` | action by action |
| `TypeCorrect` | `[]TypeOK` | the ledger stays in its range after every transfer of a batch |
| `OutflowsAreAuthorised` | USDC leaves as it may and in no other way | a batch pays each address the sum of its items, at most `max_distribute` apiece, and nothing to the pool is lost |
| `MonitorIsExact` | `[]MonitorAgrees` | `BooksExact`, which follows the holding through the transfers of a batch, one event each |

| Theorem in `CheckpointProofs` | Says | Argument |
|---|---|---|
| `TypeCorrect`, `IdsAlwaysDense` | types, dense ids | proved together, as `Entry` needs the id range that density gives and density needs the counters to be numbers |
| `IdsAreChronological` | ids are in the order of time | what is stored is stamped with the past, a creation stamps the ids above with the present |
| `HistoryIsImmutable` | records never change | new ids are above `nextCheckpointId`, hence outside the domain: this is where density is needed |
| `PagingIsComplete` | `[]PagingSeesAll` | after each page the reader has seen exactly the records with the first ids (`First`), whose number is therefore the last id it has seen; every page before the end has one more at least |
| `AdminChangesInTwoSteps` | refinement of `TwoStepRole` | action by action |

| Theorem in `LibraryProofs` | Says | Argument |
|---|---|---|
| `RebalancesAreSafe` | a rebalance conserves, never takes from cold, is enough | the target rounds down, so what is left is not above the share and a fortiori not above the tolerance: `DivRoundsDown`, `DivBound`, `TargetIsSafe` |
| `ArchiveSkipsNothing` | events leave oldest first, unchanged | the positions of one call are a prefix of the active ones (`OldestArePrefix`) and all of `tail .. head - 1` stay active (`NothingSkipped`) |
| `BurstsStayBounded` | `[]BurstsAreBounded` | `TokensAccountedFor`: what went through since a charge, together with what is left in the bucket, is within the allowance since that charge. What is left has to be counted in, or the next charge could not be bounded |
| `DiffStaysExact` | `[]DiffIsExact` | `DiffInvariant`: the changes found are those that are due for the keys passed, in their order, and all keys passed are below all that are left. So a key that only one side still has cannot turn up on the other |

| Theorem in `ClientProofs` | Says | Argument |
|---|---|---|
| `NothingIsLost` | `WalkSpec => []MigrationLosesNothing` | `Accounted`: for each developer the balances and the V1 slot make up what the events say they have earned. Payments, payouts and moves of balances change both sides alike (`Neutral`), the merge moves the slot's content over. `NobodyBehind`: whoever has a V1 balance is at a position that the loop has yet to read; an insertion moves developers back, never to the front (`Grown`) |
| `NobodyIsMissed` | `WalkSpec => []WalksMissNobody` | `Walked`: the walk has seen whoever of its first p developers was there when it began (`UpTo`), and its cursor is the p-th (`AtCursor`, `OnceEach`). By cursor p moves with the developer that it names; by position p is the number seen, and an insertion before it only brings somebody back into sight |
| `BooksReconcile` | `BillingSpec => []Reconciles` | `Billed`: the types, the two books, and for each charge (`ClaimAccounted`) that its claim is above the payee's mark as long as it is not credited, and at or below it from then on. That takes the backend's order: one open claim for each payee, numbered above the earlier ones. So a delivery that the replay guard lets through is the first of its claim, and an answer that the sequence is not new means credited. What a batch deducts is the sum over its set of charges, in whatever order (`BatchIsSum`) |

### Only model-checked, and why

Liveness (`ProposalsMature`, `LoopFinishes`, `DebitsGetCredited`): fairness and
ENABLED are beyond the prover. Every other property of a passing run is stated by
a theorem above.

The admin hand-overs of the pool and of the registry are the other way round: they
are proved and no run checks them, since they follow the pattern that the runs
check for the vault's and the settlement contract's roles.

## 5. What could come next

- Time to live as state, if the host's handling of archived entries changes.
- The cold sweep and the wiring of the rate limiter, once they exist in the
  code: `ColdStorage` and `RateLimit` are written to be composed with `Vault`.
- Two backends that claim concurrently against one high-water mark, which needs
  a statement in the repository of how they are to share sequence numbers.
