---------------------------- MODULE RevenuePool -----------------------------
(***************************************************************************)
(* The Callora revenue pool (contracts/revenue_pool): the treasury's yield *)
(* deposits, single and batch distributions under a cap and a pause        *)
(* switch, the timelocked emergency drain, the admin and the guardian.     *)
(* Every call publishes its events; the books of a monitor are state here. *)
(*                                                                         *)
(* A call that panics or returns Err reverts, and is no step.              *)
(***************************************************************************)
EXTENDS RevenuePoolEvents, SequencesExt

CONSTANTS
    Users,              \* accounts that sign calls, and receive payments
    Pool,               \* the contract's own address
    Usdc,               \* the address of the USDC token
    None,
    Amounts,            \* i128 amounts that callers pass
    Caps,               \* values for max_distribute
    Hashes,             \* WASM hashes
    MAX_BATCH_SIZE,     \* 50 in the code
    MaxItems,           \* the longest batch explored
    EMERGENCY_DRAIN_TIMELOCK_SECONDS,
    MaxTime,            \* the last ledger timestamp (u64::MAX)
    I128Max,
    Genesis             \* USDC ledgers the pool may be deployed on

Addrs == Users \cup {Pool}

ASSUME AddressAssumption ==
    /\ Pool \notin Users /\ Usdc \notin Addrs
    /\ None \notin Addrs \cup {Usdc} \cup Hashes
ASSUME BoundAssumption ==
    /\ \A n \in Amounts \cup Caps : n \in Int /\ n <= I128Max
    /\ {MAX_BATCH_SIZE, MaxItems, MaxTime} \subseteq Nat /\ I128Max \in Nat \ {0}
    /\ EMERGENCY_DRAIN_TIMELOCK_SECONDS \in Nat
    /\ Genesis \subseteq [Addrs -> 0..I128Max]

VARIABLES
    admin,              \* None until init
    pendingAdmin, guardian,
    usdcToken, version,
    paused,
    maxDistribute, cumulativeYield,
    drain,              \* None or [payload, proposed_at, execute_after]
    usdc,               \* the USDC token contract: address -> balance
    now,
    books               \* what a monitor knows from the events published so far

roles == <<admin, pendingAdmin, guardian>>
code  == <<usdcToken, version>>
vars  == <<roles, code, paused, maxDistribute, cumulativeYield, drain, usdc, now, books>>

AdminCalls(caller) == admin # None /\ caller = admin

\* The call publishes these events, in this order.
Announce(events) == books' = BooksAfter(books, events, None)[Len(events)]

-----------------------------------------------------------------------------
(* The USDC token contract.                                                *)

Transferable(ledger, from, to, amount) ==
    /\ usdcToken = Usdc
    /\ amount >= 0
    /\ ledger[from] >= amount
    /\ from # to => ledger[to] + amount <= I128Max

Transferred(ledger, from, to, amount) ==
    IF from = to THEN ledger
    ELSE [ledger EXCEPT ![from] = @ - amount, ![to] = @ + amount]

Transfer(from, to, amount) ==
    /\ Transferable(usdc, from, to, amount)
    /\ usdc' = Transferred(usdc, from, to, amount)

(* USDC that changes hands outside the contract: the vault's payments too.  *)
(* The monitor sees it in the token's own events.                           *)
ExternalTransfer(from, to, amount) ==
    /\ amount > 0 /\ usdc[from] >= amount /\ usdc[to] + amount <= I128Max
    /\ from # to
    /\ usdc' = Transferred(usdc, from, to, amount)
    /\ books' = [books EXCEPT !.holding = IF to = Pool THEN @ + amount ELSE @]
    /\ UNCHANGED <<roles, code, paused, maxDistribute, cumulativeYield, drain, now>>

Tick ==
    /\ now < MaxTime
    /\ now' = now + 1
    /\ UNCHANGED <<roles, code, paused, maxDistribute, cumulativeYield, drain, usdc, books>>

-----------------------------------------------------------------------------
(* Roles and switches.                                                     *)

InitPool(a, token) ==
    /\ admin = None
    /\ token # Pool /\ token # a
    /\ admin' = a
    /\ usdcToken' = token
    /\ paused' = FALSE
    /\ Announce(<<Event(Topics.init, [admin |-> a, token |-> token])>>)
    /\ UNCHANGED <<pendingAdmin, guardian, version, maxDistribute, cumulativeYield, drain,
                   usdc, now>>

rest == <<code, maxDistribute, cumulativeYield, drain, usdc, now>>

SetAdmin(caller, nominee) ==
    /\ AdminCalls(caller)
    /\ pendingAdmin' = nominee
    /\ Announce(<<Event(Topics.adminChanged, nominee), Event(Topics.transferStarted, nominee)>>)
    /\ UNCHANGED <<admin, guardian, paused, rest>>

\* accept_admin and its alias claim_admin.
AcceptAdmin(caller) ==
    /\ pendingAdmin # None /\ caller = pendingAdmin
    /\ admin' = caller
    /\ Announce(<<Event(Topics.transferDone, caller)>>)
    /\ pendingAdmin' = None
    /\ UNCHANGED <<guardian, paused, rest>>

CancelAdminTransfer(caller) ==
    /\ AdminCalls(caller)
    /\ pendingAdmin # None
    /\ pendingAdmin' = None
    /\ Announce(<<Event(Topics.adminCancelled, pendingAdmin)>>)
    /\ UNCHANGED <<admin, guardian, paused, rest>>

SetPauseGuardian(caller, g) ==
    /\ AdminCalls(caller)
    /\ guardian' = g
    /\ Announce(<<Event(Topics.guardianSet, g)>>)
    /\ UNCHANGED <<admin, pendingAdmin, paused, rest>>

ClearPauseGuardian(caller) ==
    /\ AdminCalls(caller)
    /\ guardian # None
    /\ guardian' = None
    /\ Announce(<<Event(Topics.guardianCleared, guardian)>>)
    /\ UNCHANGED <<admin, pendingAdmin, paused, rest>>

Pause(caller) ==
    /\ admin # None
    /\ caller = admin \/ caller = guardian
    /\ ~paused
    /\ paused' = TRUE
    /\ Announce(<<Event(Topics.pauseSet, TRUE)>>)
    /\ UNCHANGED <<roles, rest>>

Unpause(caller) ==
    /\ AdminCalls(caller)
    /\ paused
    /\ paused' = FALSE
    /\ Announce(<<Event(Topics.pauseSet, FALSE)>>)
    /\ UNCHANGED <<roles, rest>>

SetMaxDistribute(caller, max) ==
    /\ AdminCalls(caller)
    /\ max > 0
    /\ maxDistribute' = max
    /\ Announce(<<Event(Topics.setMaxDistribute, max)>>)
    /\ UNCHANGED <<roles, code, paused, cumulativeYield, drain, usdc, now>>

\* Events only: no token moves.
ReceivePayment(caller, amount) ==
    /\ AdminCalls(caller)
    /\ Announce(<<Event(Topics.receivePayment, amount)>>)
    /\ UNCHANGED <<roles, paused, rest>>
Broadcast(caller) ==
    /\ AdminCalls(caller)
    /\ Announce(<<Event(Topics.broadcast, caller)>>)
    /\ UNCHANGED <<roles, paused, rest>>

Upgrade(caller, hash) ==
    /\ AdminCalls(caller)
    /\ version' = hash
    /\ Announce(<<Event(Topics.upgraded, hash)>>)
    /\ UNCHANGED <<roles, usdcToken, paused, maxDistribute, cumulativeYield, drain, usdc, now>>

-----------------------------------------------------------------------------
(* Money.                                                                  *)

Yield(amount) == cumulativeYield + amount

DepositYield(treasury, amount) ==
    /\ AdminCalls(treasury)
    /\ amount > 0
    /\ Yield(amount) <= I128Max
    /\ cumulativeYield' = Yield(amount)
    /\ Transfer(treasury, Pool, amount)
    /\ Announce(<<Event(Topics.yieldDeposited, [amount |-> amount, total |-> Yield(amount)])>>)
    /\ UNCHANGED <<roles, code, paused, maxDistribute, drain, now>>

InServiceDespitePause(caller) == AdminCalls(caller)
InService(caller) == ~paused /\ AdminCalls(caller)

Distribute(caller, to, amount) ==
    /\ InService(caller)
    /\ amount > 0 /\ amount <= maxDistribute
    /\ to # Pool
    /\ Transfer(Pool, to, amount)
    /\ Announce(<<Event(Topics.distribute, amount)>>)
    /\ UNCHANGED <<roles, code, paused, maxDistribute, cumulativeYield, drain, now>>

Payments == UNION {[1..n -> [to : Addrs, amount : Amounts]] : n \in 0..MaxItems}

AnyRecipients(payments) == TRUE
DistinctRecipients(payments) ==
    \A i, j \in DOMAIN payments : payments[i].to = payments[j].to => i = j

Paid(ledger, p) == Transferred(ledger, Pool, p.to, p.amount)

\* The token ledger after each payment.
LedgersAfter(payments) ==
    LET after[i \in 0..Len(payments)] == IF i = 0 THEN usdc ELSE Paid(after[i - 1], payments[i])
    IN  after

\* One event for each payment.
AnnouncedOnce(payments) ==
    <<Event(Topics.batchDistribute, payments[1].amount)>>
AnnouncedPayments(payments) ==
    [i \in DOMAIN payments |-> Event(Topics.batchDistribute, payments[i].amount)]

\* Every payment is checked before the first one is made; a transfer that then
\* fails reverts them all.
BatchDistribute(caller, payments) ==
    LET total == FoldLeft(LAMBDA sum, p : sum + p.amount, 0, payments)
        after == LedgersAfter(payments)
    IN
    /\ InService(caller)
    /\ Len(payments) > 0 /\ Len(payments) <= MAX_BATCH_SIZE
    /\ DistinctRecipients(payments)
    /\ \A p \in Range(payments) : p.amount > 0 /\ p.amount <= maxDistribute
    /\ total <= I128Max
    /\ usdc[Pool] >= total
    /\ \A i \in DOMAIN payments :
         /\ payments[i].to # Pool
         /\ Transferable(after[i - 1], Pool, payments[i].to, payments[i].amount)
    /\ usdc' = after[Len(payments)]
    /\ Announce(AnnouncedPayments(payments))
    /\ UNCHANGED <<roles, code, paused, maxDistribute, cumulativeYield, drain, now>>

-----------------------------------------------------------------------------
(* The emergency drain: timelocked, and not stopped by the pause switch.   *)

\* checked_add on the timestamp.
DeadlineFitsAlways == TRUE
DeadlineFits == now + EMERGENCY_DRAIN_TIMELOCK_SECONDS <= MaxTime

ProposeKeepingTheClock(caller, treasury, amount) ==
    /\ AdminCalls(caller)
    /\ amount > 0 /\ treasury # Pool
    /\ DeadlineFits
    /\ drain' =
         LET payload == [to |-> treasury, amount |-> amount] IN
         IF drain = None
         THEN [payload |-> payload, proposed_at |-> now,
               execute_after |-> now + EMERGENCY_DRAIN_TIMELOCK_SECONDS]
         ELSE [drain EXCEPT !.payload = payload]
    /\ Announce(<<Event(Topics.drainProposed, drain')>>)
    /\ UNCHANGED <<roles, code, paused, maxDistribute, cumulativeYield, usdc, now>>
\* The record stored and announced.
PendingEmergencyDrain(treasury, amount) ==
    [payload |-> [to |-> treasury, amount |-> amount],
     proposed_at |-> now,
     execute_after |-> now + EMERGENCY_DRAIN_TIMELOCK_SECONDS]

ProposeEmergencyDrain(caller, treasury, amount) ==
    /\ AdminCalls(caller)
    /\ amount > 0 /\ treasury # Pool
    /\ DeadlineFits
    /\ drain' = PendingEmergencyDrain(treasury, amount)
    /\ Announce(<<Event(Topics.drainProposed, drain')>>)
    /\ UNCHANGED <<roles, code, paused, maxDistribute, cumulativeYield, usdc, now>>

\* The balance is compared when the drain runs, not when it is proposed.
ExecuteEmergencyDrain(caller) ==
    /\ AdminCalls(caller)
    /\ drain # None
    /\ now >= drain.execute_after
    /\ drain' = None
    /\ Transfer(Pool, drain.payload.to, drain.payload.amount)
    /\ Announce(<<Event(Topics.drainExecuted, drain.payload)>>)
    /\ UNCHANGED <<roles, code, paused, maxDistribute, cumulativeYield, now>>

CancelEmergencyDrain(caller) ==
    /\ AdminCalls(caller)
    /\ drain # None
    /\ drain' = None
    /\ Announce(<<Event(Topics.drainCancelled, drain)>>)
    /\ UNCHANGED <<roles, code, paused, maxDistribute, cumulativeYield, usdc, now>>

-----------------------------------------------------------------------------
(* The views, as anybody reads them.                                       *)

\* Fails before init, when no token is configured.
Balance == usdc[Pool]

GetPendingAdmin == pendingAdmin
GetPauseGuardian == guardian
IsPaused == paused
GetMaxDistribute == maxDistribute
GetCumulativeYieldDeposited == cumulativeYield
GetPendingEmergencyDrain == drain
GetVersion == version

-----------------------------------------------------------------------------
Init ==
    /\ admin = None /\ pendingAdmin = None /\ guardian = None
    /\ usdcToken = None /\ version = None
    /\ paused = FALSE
    /\ maxDistribute = I128Max
    /\ cumulativeYield = 0
    /\ drain = None
    /\ usdc \in Genesis
    /\ now = 0
    /\ books = EmptyBooks(None, I128Max, usdc[Pool])

RoleStep ==
    \E u \in Users :
        \/ \E token \in Addrs \cup {Usdc} : InitPool(u, token)
        \/ \E n \in Users : SetAdmin(u, n)
        \/ AcceptAdmin(u)
        \/ CancelAdminTransfer(u)
        \/ \E g \in Users : SetPauseGuardian(u, g)
        \/ ClearPauseGuardian(u)
        \/ Pause(u)
        \/ Unpause(u)
        \/ \E n \in Caps : SetMaxDistribute(u, n)
        \/ \E hash \in Hashes : Upgrade(u, hash)
        \/ \E n \in Amounts : ReceivePayment(u, n)
        \/ Broadcast(u)

MoneyStep ==
    \E u \in Users :
        \/ \E n \in Amounts : DepositYield(u, n)
        \/ \E to \in Addrs, n \in Amounts : Distribute(u, to, n)
        \/ \E payments \in Payments : BatchDistribute(u, payments)
        \/ \E to \in Addrs, n \in Amounts : ProposeEmergencyDrain(u, to, n)
        \/ CancelEmergencyDrain(u)

DrainStep == \E u \in Users : ExecuteEmergencyDrain(u)

ExternalStep ==
    \/ \E from \in Users, to \in Addrs, n \in Amounts : ExternalTransfer(from, to, n)
    \/ Tick

Next == RoleStep \/ MoneyStep \/ DrainStep \/ ExternalStep

Spec == Init /\ [][Next]_vars
=============================================================================
