-------------------------- MODULE SettlementEvents --------------------------
(***************************************************************************)
(* The events of the settlement contract and the books that an off-chain   *)
(* indexer keeps from them alone: what developers are owed, the pool, the  *)
(* limits, pending migrations and roles (EVENT_SCHEMA.md).                 *)
(*                                                                         *)
(* An event is its topic and its data; the reason of a force credit and    *)
(* the text of a broadcast are left out, no state depends on them.         *)
(***************************************************************************)
EXTENDS Integers, Sequences

\* The topic of each event: a topic that two events shared would mislead whoever
\* dispatches on it.
Topics == [
    paymentReceived   |-> "payment_received",
    balanceCredited   |-> "balance_credited",
    withdrawn         |-> "developer_withdraw",
    dailyCap          |-> "daily_withdraw_cap_changed",
    claimWindow       |-> "claim_window_changed",
    adminNominated    |-> "admin_nominated",
    adminAccepted     |-> "admin_accepted",
    adminCancelled    |-> "admin_cancelled",
    vaultProposed     |-> "vault_proposed",
    vaultAccepted     |-> "vault_accepted",
    upgraded          |-> "upgraded",
    forceCredited     |-> "developer_force_credited",
    broadcast         |-> "admin_broadcast",
    migrationProposed |-> "admin_migration_proposed",
    migrated          |-> "admin_migration",
    deposit           |-> "deposit",            \* published by no call
    minBalance        |-> "developer_min_balance_changed"]

PaymentReceivedEvent(caller, n, to_pool, dev, token) ==
    [topic |-> Topics.paymentReceived, from_vault |-> caller, amount |-> n,
     to_pool |-> to_pool, developer |-> dev, token |-> token]

BalanceCreditedEvent(dev, n, new_balance, token) ==
    [topic |-> Topics.balanceCredited, developer |-> dev, amount |-> n,
     new_balance |-> new_balance, token |-> token]

DeveloperForceCreditedEvent(dev, n, new_balance, token) ==
    [topic |-> Topics.forceCredited, developer |-> dev, amount |-> n,
     new_balance |-> new_balance, token |-> token]

DeveloperWithdrawEvent(dev, n, remaining_balance, token) ==
    [topic |-> Topics.withdrawn, developer |-> dev, amount |-> n,
     remaining_balance |-> remaining_balance, token |-> token]

\* Names no token.
AdminMigrationEvent(from, to, n) ==
    [topic |-> Topics.migrated, from |-> from, to |-> to, amount |-> n]

PendingMigrationEvent(from, record) ==
    [topic |-> Topics.migrationProposed, from |-> from, record |-> record]

DeveloperClaimWindowChanged(dev, start, end, enabled) ==
    [topic |-> Topics.claimWindow, developer |-> dev, start_ts |-> start, end_ts |-> end,
     enabled |-> enabled]

DailyWithdrawCapChanged(dev, cap) ==
    [topic |-> Topics.dailyCap, developer |-> dev, new_cap |-> cap]

MinBalanceChanged(dev, min) ==
    [topic |-> Topics.minBalance, developer |-> dev, new_min_balance |-> min]

VaultProposedEvent(current, proposed) ==
    [topic |-> Topics.vaultProposed, current_vault |-> current, proposed_vault |-> proposed]

VaultAcceptedEvent(old, new, by) ==
    [topic |-> Topics.vaultAccepted, old_vault |-> old, new_vault |-> new, accepted_by |-> by]

AdminEvent(topic, subject) == [topic |-> topic, subject |-> subject]

-----------------------------------------------------------------------------
(* The indexer.  Of a credit or a withdrawal it also checks that the       *)
(* balance announced is the one that it arrives at itself.                 *)

EmptyBooks(devs, tokens, none) == [
    owed      |-> [d \in devs |-> [t \in tokens |-> 0]],
    known     |-> {},               \* developers it has seen a claim of
    pool      |-> 0,
    caps      |-> [d \in devs |-> 0],
    minimums  |-> [d \in devs |-> 0],
    windows   |-> [d \in devs |-> none],
    proposals |-> [d \in devs |-> none],
    admin     |-> none, nominee |-> none,
    vault     |-> none, proposedVault |-> none,
    version   |-> none,
    consistent |-> TRUE]

Credited(b, e) ==
    LET total == b.owed[e.developer][e.token] + e.amount IN
    [b EXCEPT !.owed[e.developer][e.token] = total,
              !.known = @ \cup {e.developer},
              !.consistent = @ /\ total = e.new_balance]

\* token is the USDC token at the time, which the indexer has to ask the contract
\* for: neither a migration nor a change of the token announces it.
Heard(b, e, token, none) ==
    CASE e.topic = Topics.paymentReceived -> IF e.to_pool THEN [b EXCEPT !.pool = @ + e.amount] ELSE b
      [] e.topic = Topics.balanceCredited -> Credited(b, e)
      [] e.topic = Topics.forceCredited   -> Credited(b, e)
      [] e.topic = Topics.withdrawn ->
           LET left == b.owed[e.developer][e.token] - e.amount IN
           [b EXCEPT !.owed[e.developer][e.token] = left,
                     !.consistent = @ /\ left = e.remaining_balance]
      [] e.topic = Topics.migrationProposed -> [b EXCEPT !.proposals[e.from] = e.record]
      [] e.topic = Topics.migrated ->
           [b EXCEPT !.owed[e.from][token] = @ - e.amount, !.owed[e.to][token] = @ + e.amount,
                     !.known = @ \cup {e.to}, !.proposals[e.from] = none]
      [] e.topic = Topics.claimWindow ->
           [b EXCEPT !.windows[e.developer] =
                       IF e.enabled THEN [start_ts |-> e.start_ts, end_ts |-> e.end_ts] ELSE none]
      [] e.topic = Topics.dailyCap      -> [b EXCEPT !.caps[e.developer] = e.new_cap]
      [] e.topic = Topics.minBalance    -> [b EXCEPT !.minimums[e.developer] = e.new_min_balance]
      [] e.topic = Topics.vaultProposed -> [b EXCEPT !.proposedVault = e.proposed_vault]
      [] e.topic = Topics.vaultAccepted -> [b EXCEPT !.vault = e.new_vault, !.proposedVault = none]
      [] e.topic = Topics.adminNominated -> [b EXCEPT !.nominee = e.subject]
      [] e.topic = Topics.adminAccepted -> [b EXCEPT !.admin = e.subject, !.nominee = none]
      [] e.topic = Topics.adminCancelled -> [b EXCEPT !.nominee = none]
      [] e.topic = Topics.upgraded -> [b EXCEPT !.version = e.subject]
      [] e.topic = Topics.broadcast -> b

\* The books after each of these events.
BooksAfter(b, events, token, none) ==
    LET heard[i \in 0..Len(events)] ==
          IF i = 0 THEN b ELSE Heard(heard[i - 1], events[i], token, none)
    IN  heard
=============================================================================
