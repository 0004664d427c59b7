------------------------- MODULE SettlementHistory --------------------------
(***************************************************************************)
(* What the settlement contract must guarantee, some of it in terms of a   *)
(* history that the contract does not keep: the payments applied, what was *)
(* paid out since midnight, the token in which a migration was approved.   *)
(* Every step is a step of Settlement and every step of it is one.         *)
(***************************************************************************)
EXTENDS Settlement

\* A pending migration is told apart from none.
ASSUME NoneAssumption ==
    None \notin [to : Devs \cup {Self}, amount : Int, proposed_at : Nat, execute_after : Nat]

VARIABLES
    applied,        \* <<developer, ledger_seq>> of the payments credited
    reapplied,      \* those of them that were credited more than once
    spent,          \* developer -> paid out since midnight, saturated
    approvedIn      \* developer -> the token its pending migration was approved in

history == <<applied, reapplied, spent, approvedIn>>
hvars == <<vars, history>>

HInit ==
    /\ Init
    /\ applied = {} /\ reapplied = {}
    /\ spent = [d \in Devs |-> 0]
    /\ approvedIn = [d \in Devs |-> None]

Credit(claims) ==
    /\ applied' = applied \cup Range(claims)
    /\ reapplied' = reapplied \cup (applied \cap Range(claims))
         \cup {c \in Range(claims) : \E i, j \in DOMAIN claims :
                 i # j /\ claims[i] = c /\ claims[j] = c}
    /\ UNCHANGED <<spent, approvedIn>>

HReceive ==
    \E c \in Principals, n \in Amounts, d \in Devs, t \in Tokens, seq \in LedgerSeqs :
        ReceiveForDeveloper(c, n, d, t, seq) /\ Credit(<< <<d, seq>> >>)

HBatchReceive ==
    \E c \in Principals, items \in BatchItems, t \in Tokens, seq \in LedgerSeqs :
        /\ BatchReceive(c, items, t, seq)
        /\ Credit([i \in DOMAIN items |-> <<items[i].developer, seq>>])

Owed(d) == SumFunctionOnSet(balance[d], Tokens)

HPayout ==
    /\ PayoutStep
    /\ spent' = [d \in Devs |-> Saturated(spent[d] + Owed(d) - Owed(d)')]
    /\ UNCHANGED <<applied, reapplied, approvedIn>>

HPropose ==
    \E c \in Principals, from \in Devs, to \in Devs \cup {Self} :
        /\ ProposeMigration(c, from, to)
        /\ approvedIn' = [approvedIn EXCEPT ![from] = usdcToken]
        /\ UNCHANGED <<applied, reapplied, spent>>

HExecute ==
    \E c \in Principals, from \in Devs :
        /\ ExecuteMigration(c, from)
        /\ approvedIn' = [approvedIn EXCEPT ![from] = None]
        /\ UNCHANGED <<applied, reapplied, spent>>

HOutside ==
    /\ OutsideStep
    /\ spent' = IF Today' = Today THEN spent ELSE [d \in Devs |-> 0]
    /\ UNCHANGED <<applied, reapplied, approvedIn>>

HOther ==
    /\ SetupStep \/ LimitStep \/ PoolStep \/ ForceCreditStep
    /\ UNCHANGED history

HNext ==
    HReceive \/ HBatchReceive \/ HPayout \/ HPropose \/ HExecute \/ HOutside \/ HOther

HSpec == HInit /\ [][HNext]_hvars

-----------------------------------------------------------------------------
(* Credits.                                                                *)

\* Types.  Beyond the shape of the state: no balance is ever negative or outside
\* the i128 range (receive_payment, force_credit_developer, withdraw_*, migrations).
TypeOK ==
    /\ {admin, pendingAdmin, vault, pendingVault} \subseteq Principals \cup {None, Self}
    /\ usdcToken \in Tokens \cup {None} /\ contractVersion \in Hashes \cup {None}
    /\ pool \in 0..I128Max /\ totalReceived \in 0..I128Max
    /\ balance \in [Devs -> [Tokens -> 0..I128Max]]
    /\ index \in Seq(Devs)
    /\ poolMark \in Nat /\ mark \in [Devs -> Nat]
    /\ dailyCap \in [Devs -> Int] /\ minBalance \in [Devs -> Nat]
    /\ \A d \in Devs :
         /\ claimWindow[d] # None => claimWindow[d].start_ts <= claimWindow[d].end_ts
         /\ daily[d] \in [day : Nat, amount : 0..I128Max]
         /\ migration[d] # None =>
              migration[d] \in [to : Devs, amount : 1..I128Max,
                                proposed_at : Nat, execute_after : Nat]
    /\ held \in [Tokens -> Nat]
    /\ now \in 0..MaxTime

\* No payment is credited twice, however often and in whatever order the payer's
\* calls arrive, single or in batches ("preventing a double credit": replay_guard).
NoPaymentAppliedTwice == reapplied = {}

\* The developer index is sorted, has no duplicates, and misses nobody who is owed
\* something, whichever call made them a creditor (sorted_insert in
\* receive_payment, batch_receive_payment, force_credit_developer and migrations):
\* a reader that walks the index sees every balance.
IndexComplete ==
    /\ \A i, j \in DOMAIN index : i < j => index[i] < index[j]
    /\ \A d \in Devs : Owed(d) > 0 => Contains(index, d)

-----------------------------------------------------------------------------
(* Payouts.                                                                *)

OwedIn(t) == SumFunctionOnSet([d \in Devs |-> balance[d][t]], Devs)

\* What the contract owes in a token and what it holds of it fall together and by
\* the same amount: no withdrawal, batch with failing items or migration pays
\* without debiting, debits without paying, or loses a developer's claim.
PayoutsAreDebited ==
    [][\A t \in Tokens :
         (OwedIn(t)' < OwedIn(t) \/ held'[t] < held[t]) =>
             OwedIn(t) - OwedIn(t)' = held[t] - held'[t]]_vars

\* get_withdrawal_today answers what the developer was paid since midnight: the stored
\* record, which survives midnight, must not count then (withdraw_developer_balance).
DailyTally == \A d \in Devs : spent[d] = GetWithdrawalToday(d)

\* A payout never takes what a developer was paid since midnight past the cap in
\* force, in one call, in several, or in several items of one batch_settle.
DailyCapHeld ==
    [][\A d \in Devs :
         (spent'[d] > spent[d] /\ dailyCap[d] > 0) => spent'[d] <= dailyCap[d]]_hvars

\* Whatever pays a developer does so inside the claim window, bounds included, and
\* leaves at least the minimum balance, also when one batch pays the developer
\* several times (require_claim_window_open, check_min_balance).
PayoutsKeepLimits ==
    [][\A d \in Devs : (spent'[d] > spent[d]) =>
         /\ claimWindow[d] # None =>
              now \in claimWindow[d].start_ts .. claimWindow[d].end_ts
         /\ minBalance[d] > 0 => balance'[d][usdcToken] >= minBalance[d]]_hvars

\* A migration happens only when its proposal has waited the full delay, moves
\* exactly the amount approved, in one token, between exactly the two developers
\* approved, and consumes the proposal ("replay impossible": timelock.rs).
MigrationMovesApproved ==
    [][\A d \in Devs : (migration[d] # None /\ migration'[d] = None) =>
         LET m == migration[d] IN
         /\ now >= m.proposed_at + DEVELOPER_MIGRATION_TIMELOCK_SECONDS
         /\ \E t \in Tokens :
              balance' = [balance EXCEPT ![d][t] = @ - m.amount, ![m.to][t] = @ + m.amount]]_vars

-----------------------------------------------------------------------------
(* Roles.                                                                  *)

AdminTransfer == INSTANCE TwoStepRole WITH holder <- admin, nominee <- pendingAdmin
VaultTransfer == INSTANCE TwoStepRole WITH holder <- vault, nominee <- pendingVault

\* The admin role moves only to its current nominee, and the vault whose payments are
\* accepted changes only to the address proposed, in a second call (set_admin,
\* accept_admin, cancel_admin_transfer, propose_vault, set_vault, accept_vault).
RolesAreTwoStep == AdminTransfer!Spec /\ VaultTransfer!Spec

-----------------------------------------------------------------------------
(* The event log.                                                          *)

\* The events are enough: an indexer that reads nothing else agrees with the views on every
\* balance, the pool, every limit and pending migration and who holds the roles; it
\* has heard of exactly the developers in the index; and each balance announced with
\* a credit or a withdrawal is the one it arrives at, in batches with repeated
\* developers and failing items too ("For full accounting, sum
\* balance_credited.amount + developer_force_credited.amount": EVENT_SCHEMA.md).
IndexerAgrees ==
    /\ books.consistent
    /\ books.known = Range(index)
    /\ \A d \in Devs :
         /\ \A t \in Tokens : books.owed[d][t] = GetDeveloperBalance(d, t)
         /\ books.caps[d] = GetDailyWithdrawCap(d)
         /\ books.minimums[d] = GetDeveloperMinBalance(d)
         /\ books.windows[d] = GetDeveloperClaimWindow(d)
         /\ books.proposals[d] = GetBalanceMigration(d)
    /\ books.pool = GetGlobalPool
    /\ books.admin = GetAdmin /\ books.nominee = pendingAdmin
    /\ books.vault = GetVault /\ books.proposedVault = pendingVault
    /\ books.version = contractVersion

-----------------------------------------------------------------------------
(* What the documentation says and the code does not do.                   *)

\* "Immutable approval snapshot" (PendingDeveloperMigration): a migration moves
\* balance in the token it was approved in.
MigratesApprovedToken ==
    [][\A d \in Devs : (migration[d] # None /\ migration'[d] = None) =>
         balance'[d][approvedIn[d]] # balance[d][approvedIn[d]]]_hvars
=============================================================================
