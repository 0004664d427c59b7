------------------------------ MODULE Billing ------------------------------
(***************************************************************************)
(* The vault and the settlement contract together, over one USDC ledger:   *)
(* the backend collects metered charges from the vault (deduct), which     *)
(* pays the settlement contract, and claims them there (receive_payment)   *)
(* for the developer or the pool.  These are separate transactions: the    *)
(* vault's call to record_deduction keeps nothing.  The backend's account  *)
(* is the vault's authorized caller and the settlement contract's admin.   *)
(*                                                                         *)
(* The contracts are their own modules' actions.  The backend is not in    *)
(* the repository: this one numbers a claim with the ledger's sequence,    *)
(* sends it again unchanged when the answer is lost, and has one claim of  *)
(* a payee open at a time.  Nobody reconfigures either contract meanwhile. *)
(***************************************************************************)
EXTENDS Settlement

CONSTANTS
    Owner, Backend, Wallet, VaultAddr,  \* accounts; the developers' payout address
    Charges,            \* id -> [developer, amount]; no developer: for the pool
    Prepaid             \* USDC that the vault is opened with

ASSUME BillingAssumption ==
    /\ \A c \in DOMAIN Charges : Charges[c].developer \in Devs \cup {None} /\ Charges[c].amount \in Nat
    /\ IsFiniteSet(DOMAIN Charges) /\ Prepaid \in Nat
\* The backend may own the vault; the contracts and the developers are apart.
ASSUME AccountAssumption ==
    /\ VaultAddr \notin {Owner, Backend, Wallet, Self} /\ Self \notin {Owner, Wallet}
    /\ {Backend, VaultAddr} \subseteq Principals
    /\ Tokens # {}

VARIABLES
    tracked, paused, usdc,      \* of the vault and the USDC ledger; the rest of Vault is fixed
    stage,                      \* charge -> what the backend knows: metered, collected, claimed, credited
    claim,                      \* charge -> the ledger_seq that its claim carries, 0 before
    timesCredited,                    \* charge -> how often its claim was credited
    ledger                      \* the ledger sequence

backendVars == <<stage, claim, timesCredited, ledger>>
billingVars == <<vars, tracked, paused, usdc, backendVars>>

\* How the vault is configured throughout.
Fixed == [owner |-> Owner, authorizedCaller |-> Backend, settlement |-> Self, none |-> None,
          least |-> 1, most |-> I128Max]

V == INSTANCE Vault WITH
    Users <- {Owner, Backend, Wallet, Self}, RequestIds <- DOMAIN Charges,
    Openings <- {Prepaid}, Limits <- {1, I128Max}, Caps <- {}, MaxBatch <- MaxItems,
    Slots <- {}, Windows <- {}, U64Max <- MaxTime,
    MIN_TIMELOCK_SECONDS <- 1, DEFAULT_TIMELOCK_SECONDS <- 1, MAX_TIMELOCK_SECONDS <- 1,
    owner <- Fixed.owner, admin <- Fixed.owner, pendingAdmin <- Fixed.none,
    authorizedCaller <- Fixed.authorizedCaller, settlement <- Fixed.settlement,
    balance <- tracked, minDeposit <- Fixed.least, maxDeduct <- Fixed.most,
    reserveCap <- Fixed.most, window <- Fixed.least, pending <- Fixed.none,
    contractVersion <- Fixed.none

Token == CHOOSE t \in Tokens : TRUE

\* What the settlement contract holds is an account of the same ledger.
SameLedger == held' = [held EXCEPT ![Token] = usdc'[Self]]

-----------------------------------------------------------------------------
(* The vault's side.                                                       *)

settlementRest == <<roles, setup, limits, marks, credits, daily, migration, now, books>>

VaultOnly == SameLedger /\ UNCHANGED <<settlementRest, backendVars>>

OwnerStep ==
    /\ \/ \E n \in Amounts : V!Deposit(Owner, n)
       \/ V!Pause(Owner)
       \/ V!Unpause(Owner)
    /\ VaultOnly

\* One charge by deduct, several by batch_deduct.
CollectCharges(ids) ==
    /\ \A c \in ids : stage[c] = "metered"
    /\ IF Cardinality(ids) = 1
       THEN \E c \in ids : V!Deduct(Backend, Charges[c].amount, c)
       ELSE V!BatchDeduct(Backend, SetToSeq({[amount |-> Charges[c].amount, request_id |-> c] : c \in ids}))
    /\ stage' = [c \in DOMAIN stage |-> IF c \in ids THEN "collected" ELSE stage[c]]
    /\ SameLedger
    /\ UNCHANGED <<settlementRest, claim, timesCredited, ledger>>

-----------------------------------------------------------------------------
(* The settlement contract's side.                                         *)

Payee(c) == Charges[c].developer

\* One open claim of a payee, and its sequence is above those of the claims before.
Claim(c) ==
    /\ stage[c] = "collected"
    /\ \A other \in DOMAIN Charges : Payee(other) = Payee(c) =>
         stage[other] # "claimed" /\ claim[other] < ledger
    /\ stage' = [stage EXCEPT ![c] = "claimed"]
    /\ claim' = [claim EXCEPT ![c] = ledger]
    /\ UNCHANGED <<vars, tracked, paused, usdc, timesCredited, ledger>>

\* A claim that was sent arrives: once, again, or long after it was confirmed.
Deliver(c) ==
    /\ claim[c] > 0
    /\ IF Payee(c) = None
       THEN ReceiveForPool(Backend, Charges[c].amount, Token, claim[c])
       ELSE ReceiveForDeveloper(Backend, Charges[c].amount, Payee(c), Token, claim[c])
    /\ timesCredited' = [timesCredited EXCEPT ![c] = @ + 1]
    /\ UNCHANGED <<tracked, paused, usdc, stage, claim, ledger>>

\* An answer reaches the backend: success, or that the sequence is not new.
Confirm(c) ==
    /\ stage[c] = "claimed"
    /\ ~NewSince(IF Payee(c) = None THEN poolMark ELSE mark[Payee(c)], claim[c])
    /\ stage' = [stage EXCEPT ![c] = "credited"]
    /\ UNCHANGED <<vars, tracked, paused, usdc, claim, timesCredited, ledger>>

\* Bound: a ledger that carries no claim is not told from the next.
CloseLedger ==
    /\ \E c \in DOMAIN Charges : claim[c] = ledger
    /\ ledger' = ledger + 1
    /\ UNCHANGED <<vars, tracked, paused, usdc, stage, claim, timesCredited>>

\* The recipient of the payout is one account for all developers.
PayOut ==
    /\ \/ \E w \in Withdrawals : Withdraw(w)
       \/ \E items \in SettleLists : BatchSettle(items)
    /\ usdc' = [usdc EXCEPT ![Self] = held'[Token], ![Wallet] = @ + (held[Token] - held'[Token])]
    /\ UNCHANGED <<tracked, paused, backendVars>>

-----------------------------------------------------------------------------
\* Both contracts initialised, the vault with the balance it is told it has.
BillingInit ==
    /\ tracked = Prepaid /\ paused = FALSE
    /\ usdc = [a \in {Owner, Backend, Wallet, Self, VaultAddr} |->
                 IF a = VaultAddr THEN Prepaid ELSE IF a = Owner THEN 1 ELSE 0]
    /\ admin = Backend /\ vault = VaultAddr /\ usdcToken = Token
    /\ books = [EmptyBooks(Devs, Tokens, None) EXCEPT !.admin = Backend, !.vault = VaultAddr]
    /\ pendingAdmin = None /\ pendingVault = None /\ contractVersion = None
    /\ pool = 0 /\ totalReceived = 0
    /\ balance = [d \in Devs |-> [t \in Tokens |-> 0]]
    /\ index = <<>>
    /\ poolMark = 0 /\ mark = [d \in Devs |-> 0]
    /\ dailyCap = [d \in Devs |-> 0] /\ minBalance = [d \in Devs |-> 0]
    /\ claimWindow = [d \in Devs |-> None]
    /\ daily = [d \in Devs |-> [day |-> 0, amount |-> 0]]
    /\ migration = [d \in Devs |-> None]
    /\ held = [t \in Tokens |-> 0]
    /\ now = 0
    /\ stage = [c \in DOMAIN Charges |-> "metered"]
    /\ claim = [c \in DOMAIN Charges |-> 0] /\ timesCredited = [c \in DOMAIN Charges |-> 0]
    /\ ledger = 1

BillingNext ==
    \/ OwnerStep
    \/ \E ids \in SUBSET DOMAIN Charges \ {{}} : CollectCharges(ids)
    \/ \E c \in DOMAIN Charges : Claim(c) \/ Deliver(c) \/ Confirm(c)
    \/ CloseLedger
    \/ PayOut

\* Ledgers close, and the backend goes on with what it has collected; it need not
\* collect, and nobody has to pay out.
BillingSpec ==
    /\ BillingInit /\ [][BillingNext]_billingVars
    /\ WF_billingVars(CloseLedger)
    /\ \A c \in DOMAIN Charges :
         WF_billingVars(Claim(c)) /\ WF_billingVars(Deliver(c)) /\ WF_billingVars(Confirm(c))

-----------------------------------------------------------------------------
Price == [c \in DOMAIN Charges |-> Charges[c].amount]
OpenCharges == {c \in DOMAIN Charges : stage[c] # "metered" /\ timesCredited[c] = 0}

\* At every moment the USDC of the settlement contract is what it owes, the pool and the
\* developers, and what was collected and is not credited yet, although each charge is two
\* transactions and claims are repeated and delayed; and the backend believes a charge
\* credited only when it was, once.  ("Total Assets Held In Vault + Sum of all Settlement
\* Balances [...]": cross_contract_conservation.rs, which never repeats a payment.)
Reconciles ==
    /\ usdc[Self] = pool + SumFunctionOnSet([d \in Devs |-> balance[d][Token]], Devs)
                         + SumFunctionOnSet(Price, OpenCharges)
    /\ usdc[VaultAddr] = tracked
    /\ \A c \in DOMAIN Charges : stage[c] = "credited" => timesCredited[c] = 1

\* What was collected from the vault is credited in the end, whatever is lost or repeated,
\* also to a developer with several charges, of which the replay guard would refuse an
\* older one for good once a newer has been credited.
DebitsGetCredited == \A c \in DOMAIN Charges : stage[c] = "collected" ~> stage[c] = "credited"
=============================================================================
