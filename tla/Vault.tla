------------------------------- MODULE Vault --------------------------------
(***************************************************************************)
(* The Callora vault (contracts/vault): the prepaid USDC balance, the      *)
(* owner's configuration, the admin role and the three timelocked          *)
(* escape hatches, next to the USDC ledger and the ledger clock it uses.   *)
(*                                                                         *)
(* A contract call is atomic: a panic or an Err reverts all of it, so a    *)
(* call that fails is no step, and every early return of the code is a     *)
(* conjunct of its action's guard.  require_auth is the caller parameter.  *)
(***************************************************************************)
EXTENDS Integers, Sequences

CONSTANTS
    Users,              \* accounts that sign calls, and receive payments
    VaultAddr,          \* the vault's own address
    None,
    Amounts,            \* i128 amounts that callers pass
    Openings,           \* initial_balance values passed to init
    Limits,             \* values for min_deposit and max_deduct
    Caps,               \* values for the reserve cap
    RequestIds,
    MaxBatch,           \* the longest batch_deduct explored
    Slots,              \* the escape hatches whose proposals are explored
    Hashes,             \* WASM hashes
    Windows,            \* window lengths passed to set_timelock_window
    Nominees,           \* accounts that set_admin may nominate
    Genesis,            \* USDC ledgers the vault may be deployed on
    MIN_TIMELOCK_SECONDS, DEFAULT_TIMELOCK_SECONDS, MAX_TIMELOCK_SECONDS,
    U64Max,             \* the last ledger timestamp (u64::MAX)
    I128Max

Addrs == Users \cup {VaultAddr}
Hatches == {"pause", "upgrade", "sweep"}

ASSUME AddressAssumption == VaultAddr \notin Users /\ None \notin Addrs
ASSUME InputAssumption ==
    /\ Amounts \subseteq Int
    /\ Openings \cup Limits \cup Caps \subseteq -I128Max .. I128Max
    /\ MaxBatch \in Nat
    /\ Slots \subseteq Hatches
    /\ Nominees \subseteq Users
    /\ Windows \subseteq Nat
    /\ None \notin Hashes
ASSUME WidthAssumption == U64Max \in Nat /\ I128Max \in Nat
ASSUME GenesisAssumption == Genesis \subseteq [Addrs -> 0..I128Max]
ASSUME TimelockAssumption ==
    /\ MIN_TIMELOCK_SECONDS \in Nat \ {0}
    /\ DEFAULT_TIMELOCK_SECONDS \in Nat
    /\ MAX_TIMELOCK_SECONDS \in Nat
    /\ MIN_TIMELOCK_SECONDS <= DEFAULT_TIMELOCK_SECONDS
    /\ DEFAULT_TIMELOCK_SECONDS <= MAX_TIMELOCK_SECONDS

VARIABLES
    owner,              \* None until init
    authorizedCaller,
    admin, pendingAdmin,
    paused,
    balance,            \* the tracked balance, an i128
    minDeposit, maxDeduct, reserveCap,
    settlement,
    window,
    pending,            \* hatch -> None or [payload, proposed_at, execute_after]
    contractVersion,
    now,                \* ledger timestamp
    usdc                \* the USDC token contract: address -> balance

roles  == <<owner, authorizedCaller, admin, pendingAdmin>>
config == <<minDeposit, maxDeduct, reserveCap, settlement>>
funds  == <<balance, usdc>>
hatches == <<window, pending, contractVersion>>
vars   == <<roles, config, funds, hatches, paused, now>>

-----------------------------------------------------------------------------
(* The USDC token contract, as the vault uses it.                          *)

Transferable(from, to, amount) ==
    /\ amount >= 0
    /\ usdc[from] >= amount
    /\ from # to => usdc[to] + amount <= I128Max

Transferred(from, to, amount) ==
    IF from = to THEN usdc
    ELSE [usdc EXCEPT ![from] = @ - amount, ![to] = @ + amount]

Transfer(from, to, amount) ==
    /\ Transferable(from, to, amount)
    /\ usdc' = Transferred(from, to, amount)

(* USDC that changes hands outside the contract, gifts to the vault included. *)
ExternalTransfer(from, to, amount) ==
    /\ amount > 0
    /\ Transfer(from, to, amount)
    /\ UNCHANGED <<roles, config, balance, hatches, paused, now>>

(* Ledgers keep closing. *)
Tick ==
    /\ now < U64Max
    /\ now' = now + 1
    /\ UNCHANGED <<roles, config, funds, hatches, paused>>

-----------------------------------------------------------------------------
(* Initialisation and money.                                               *)

\* No signature is asked for, and opening is neither compared with 0 nor
\* with the USDC that the vault holds.
InitVault(o, opening, caller, min, max, s) ==
    /\ owner = None
    /\ min > 0 /\ max > 0 /\ min <= max
    /\ owner' = o /\ admin' = o
    /\ balance' = opening
    /\ authorizedCaller' = caller
    /\ minDeposit' = min /\ maxDeduct' = max /\ settlement' = s
    /\ paused' = FALSE
    /\ UNCHANGED <<pendingAdmin, reserveCap, usdc, hatches, now>>

Initialised == owner # None

InServiceDespitePause == Initialised
InService == Initialised /\ ~paused

FitsAnything(n) == TRUE
Fits(n) == n <= I128Max

\* Depositor(caller), the flag that would let others in, is set by no call.
Deposit(caller, amount) ==
    /\ InService
    /\ amount > 0 /\ amount >= minDeposit
    /\ caller = owner
    /\ Fits(balance + amount)
    /\ balance' = balance + amount
    /\ Transfer(caller, VaultAddr, amount)
    /\ UNCHANGED <<roles, config, hatches, paused, now>>

ValidDeduct(amount) == amount > 0 /\ amount >= minDeposit /\ amount <= maxDeduct

CoversEvenOverdrawn(total) == TRUE
Covers(total) == balance >= total

\* Takes total from the tracked balance and pays it to the settlement contract,
\* whose record_deduction keeps no state.
CollectWithoutDebit(total) ==
    /\ Covers(total)
    /\ balance' = balance
    /\ Transfer(VaultAddr, settlement, total)
    /\ UNCHANGED <<roles, config, hatches, paused, now>>
CollectForOwner(total) ==
    /\ Covers(total)
    /\ balance' = balance - total
    /\ Transfer(VaultAddr, owner, total)
    /\ UNCHANGED <<roles, config, hatches, paused, now>>
Collect(total) ==
    /\ Covers(total)
    /\ balance' = balance - total
    /\ Transfer(VaultAddr, settlement, total)
    /\ UNCHANGED <<roles, config, hatches, paused, now>>

\* request_id is passed on and never stored.
Deduct(caller, amount, request_id) ==
    /\ InService
    /\ caller = authorizedCaller
    /\ ValidDeduct(amount)
    /\ Collect(amount)

Batches == UNION {[1..n -> [amount : Amounts, request_id : RequestIds]] : n \in 0..MaxBatch}

Total(items) ==
    LET sum[i \in 0..Len(items)] == IF i = 0 THEN 0 ELSE sum[i - 1] + items[i].amount
    IN  sum[Len(items)]

\* An empty batch is accepted and pays nothing.
BatchDeduct(caller, items) ==
    /\ InService
    /\ caller = authorizedCaller
    /\ \A i \in DOMAIN items : ValidDeduct(items[i].amount)
    /\ Total(items) \in 0..I128Max
    /\ Collect(Total(items))

-----------------------------------------------------------------------------
(* The owner's configuration: effective at once.                           *)

OwnerCalls(caller) == Initialised /\ caller = owner

SetAuthorizedCaller(caller) ==
    /\ OwnerCalls(caller)
    /\ authorizedCaller' = caller
    /\ UNCHANGED <<owner, admin, pendingAdmin, config, funds, hatches, paused, now>>

Pause(caller) ==
    /\ OwnerCalls(caller)
    /\ paused' = TRUE
    /\ UNCHANGED <<roles, config, funds, hatches, now>>

Unpause(caller) ==
    /\ OwnerCalls(caller)
    /\ paused' = FALSE
    /\ UNCHANGED <<roles, config, funds, hatches, now>>

SetMaxDeduct(caller, max) ==
    /\ OwnerCalls(caller)
    /\ max > 0
    /\ maxDeduct' = max
    /\ UNCHANGED <<roles, minDeposit, reserveCap, settlement, funds, hatches, paused, now>>

SetSettlement(caller, s) ==
    /\ OwnerCalls(caller)
    /\ settlement' = s
    /\ UNCHANGED <<roles, minDeposit, maxDeduct, reserveCap, funds, hatches, paused, now>>

\* The cap on USDC.  deposit never reads it.
SetReserveCap(caller, cap) ==
    /\ OwnerCalls(caller)
    /\ cap > 0
    /\ reserveCap' = cap
    /\ UNCHANGED <<roles, minDeposit, maxDeduct, settlement, funds, hatches, paused, now>>

-----------------------------------------------------------------------------
(* The admin role.                                                         *)

AdminCalls(caller) == admin # None /\ caller = admin

SetAdmin(caller, nominee) ==
    /\ AdminCalls(caller)
    /\ pendingAdmin' = nominee
    /\ UNCHANGED <<owner, authorizedCaller, admin, config, funds, hatches, paused, now>>

\* Whoever signs as the nominee.
AcceptAdminKeepingNominee ==
    /\ pendingAdmin # None
    /\ admin' = pendingAdmin
    /\ UNCHANGED <<owner, authorizedCaller, pendingAdmin, config, funds, hatches, paused, now>>
AcceptAdmin ==
    /\ pendingAdmin # None
    /\ admin' = pendingAdmin
    /\ pendingAdmin' = None
    /\ UNCHANGED <<owner, authorizedCaller, config, funds, hatches, paused, now>>

-----------------------------------------------------------------------------
(* The escape hatches.                                                     *)

WindowInRangeOrShorter(w) == w <= MAX_TIMELOCK_SECONDS
WindowInRange(w) == MIN_TIMELOCK_SECONDS <= w /\ w <= MAX_TIMELOCK_SECONDS

SetTimelockWindow(caller, w) ==
    /\ AdminCalls(caller)
    /\ WindowInRange(w)
    /\ window' = w
    /\ UNCHANGED <<roles, config, funds, pending, contractVersion, paused, now>>

\* saturating_deadline answers None, and the proposal fails, past the u64 range.
DeadlineFitsAlways == TRUE
DeadlineFits == now + window <= U64Max

Propose(caller, hatch, payload) ==
    /\ hatch \in Slots
    /\ AdminCalls(caller)
    /\ DeadlineFits
    /\ pending' = [pending EXCEPT ![hatch] =
         [payload |-> payload, proposed_at |-> now, execute_after |-> now + window]]
    /\ UNCHANGED <<roles, config, funds, window, contractVersion, paused, now>>

ProposePause(caller) == Propose(caller, "pause", None)
ProposeUpgrade(caller, hash) == Propose(caller, "upgrade", hash)
ProposeSweep(caller, to, amount) ==
    amount > 0 /\ Propose(caller, "sweep", [to |-> to, amount |-> amount])

\* Succeeds, and changes nothing, when nothing is pending.
Cancel(caller, hatch) ==
    /\ AdminCalls(caller)
    /\ pending' = [pending EXCEPT ![hatch] = None]
    /\ UNCHANGED <<roles, config, funds, window, contractVersion, paused, now>>

MaturedAnHourEarly(hatch) == pending[hatch] # None /\ now + 1 >= pending[hatch].execute_after
Matured(hatch) == pending[hatch] # None /\ now >= pending[hatch].execute_after

ExecutePause(caller) ==
    /\ AdminCalls(caller)
    /\ Matured("pause")
    /\ paused' = TRUE
    /\ pending' = [pending EXCEPT !["pause"] = None]
    /\ UNCHANGED <<roles, config, funds, window, contractVersion, now>>

ExecuteUpgrade(caller) ==
    /\ AdminCalls(caller)
    /\ Matured("upgrade")
    /\ contractVersion' = pending["upgrade"].payload
    /\ pending' = [pending EXCEPT !["upgrade"] = None]
    /\ UNCHANGED <<roles, config, funds, window, paused, now>>

\* Compares the amount with the USDC held, not with the surplus over balance.
ExecuteSweep(caller) ==
    /\ AdminCalls(caller)
    /\ Initialised
    /\ Matured("sweep")
    /\ LET p == pending["sweep"].payload IN Transfer(VaultAddr, p.to, p.amount)
    /\ pending' = [pending EXCEPT !["sweep"] = None]
    /\ UNCHANGED <<roles, config, balance, window, contractVersion, paused, now>>

\* dry_run_sweep_idle_balance: what a sweep could take and leave the tracked balance
\* covered.  The read-only view that an admin is to look at before a sweep.
EverythingHeld == usdc[VaultAddr]
IdleBalance == IF usdc[VaultAddr] > balance THEN usdc[VaultAddr] - balance ELSE 0

-----------------------------------------------------------------------------
Init ==
    /\ owner = None /\ authorizedCaller = None /\ admin = None /\ pendingAdmin = None
    /\ paused = FALSE
    /\ balance = 0
    /\ minDeposit = 0 /\ maxDeduct = I128Max /\ reserveCap = I128Max
    /\ settlement = None
    /\ window = DEFAULT_TIMELOCK_SECONDS
    /\ pending = [h \in Hatches |-> None]
    /\ contractVersion = None
    /\ now = 0
    /\ usdc \in Genesis

\* Everything but the calls that VaultHistory keeps a record of.
AdministrationStep ==
    \/ \E u \in Users :
         \/ SetAuthorizedCaller(u)
         \/ Pause(u)
         \/ Unpause(u)
         \/ \E n \in Limits : SetMaxDeduct(u, n)
         \/ \E n \in Caps : SetReserveCap(u, n)
         \/ \E s \in Addrs : SetSettlement(u, s)
         \/ \E n \in Nominees : SetAdmin(u, n)
         \/ \E w \in Windows : SetTimelockWindow(u, w)
         \/ ProposePause(u)
         \/ \E hash \in Hashes : ProposeUpgrade(u, hash)
         \/ \E to \in Addrs, amount \in Amounts : ProposeSweep(u, to, amount)
         \/ \E h \in Hatches : Cancel(u, h)
         \/ ExecutePause(u)
         \/ ExecuteUpgrade(u)
    \/ AcceptAdmin

DeploymentStep ==
    \E o, caller \in Users, opening \in Openings, min, max \in Limits, s \in Addrs :
        InitVault(o, opening, caller, min, max, s)

\* Everybody, where sweeps can be proposed at all.
Sweepers == {u \in Users : "sweep" \in Slots}

MoneyStep ==
    \/ \E u \in Users, amount \in Amounts : Deposit(u, amount)
    \/ \E u \in Users, amount \in Amounts, id \in RequestIds : Deduct(u, amount, id)
    \/ \E u \in Users, items \in Batches : BatchDeduct(u, items)
    \/ \E u \in Sweepers : ExecuteSweep(u)

ExternalStep ==
    \/ \E from \in Users, to \in Addrs, amount \in Amounts : ExternalTransfer(from, to, amount)
    \/ Tick

Next == DeploymentStep \/ AdministrationStep \/ MoneyStep \/ ExternalStep

Spec == Init /\ [][Next]_vars

\* Ledgers close whatever the contract's users do; nobody has to call it.
FairSpec == Spec /\ WF_vars(Tick)
=============================================================================
