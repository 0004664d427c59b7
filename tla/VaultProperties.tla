-------------------------- MODULE VaultProperties ---------------------------
(***************************************************************************)
(* What the vault must guarantee: its types, its money, its escape hatches *)
(* and its admin role.                                                     *)
(***************************************************************************)
EXTENDS Vault

Amount == -I128Max .. I128Max
NatAmount == 0 .. I128Max
Payout == [to : Addrs, amount : Int]
Proposal == [payload : {None} \cup Hashes \cup Payout, proposed_at : Nat, execute_after : Nat]

\* An empty slot and a proposal are told apart.
ASSUME NoneAssumption == None \notin Proposal

\* Types.  Beyond the shape of the state: the tracked balance and every token
\* balance stay in the i128 range because deposit and the token check the
\* additions they make, the window stays within its bounds, init sets every role
\* at once, and each hatch holds proposals of its own kind.
TypeOK ==
    /\ owner \in Users \cup {None} /\ authorizedCaller \in Users \cup {None}
    /\ admin \in Users \cup {None} /\ pendingAdmin \in Users \cup {None}
    /\ paused \in BOOLEAN
    /\ balance \in Amount
    /\ minDeposit \in NatAmount /\ maxDeduct \in NatAmount /\ reserveCap \in NatAmount
    /\ settlement \in Addrs \cup {None}
    /\ owner # None => {authorizedCaller, admin, settlement} \subseteq Addrs
    /\ owner = None => admin = None /\ pendingAdmin = None
    /\ window \in MIN_TIMELOCK_SECONDS .. MAX_TIMELOCK_SECONDS
    /\ pending \in [Hatches -> {None} \cup Proposal]
    /\ pending["upgrade"] # None => pending["upgrade"].payload \in Hashes
    /\ pending["sweep"] # None => pending["sweep"].payload \in Payout
    /\ contractVersion \in Hashes \cup {None}
    /\ now \in 0..U64Max
    /\ usdc \in [Addrs -> NatAmount]

-----------------------------------------------------------------------------
(* Money.                                                                  *)

\* USDC held beyond what the vault says it owes.
Surplus == usdc[VaultAddr] - balance

\* An execution of the sweep proposal p: matured, for the amount proposed, paid
\* to the recipient proposed, and consumed.
SweptBy(p) ==
    /\ p # None
    /\ now >= p.execute_after
    /\ pending'["sweep"] = None
    /\ usdc' = Transferred(VaultAddr, p.payload.to, p.payload.amount)
    /\ balance' = balance

\* After init nothing but a matured sweep, for exactly the amount proposed, lowers
\* the vault's surplus: deposits and deductions move the tracked balance and the
\* USDC together (deposit, deduct, batch_deduct, execute_sweep).
SurplusFallsOnlyByMaturedSweep ==
    [][owner # None /\ Surplus' < Surplus => SweptBy(pending["sweep"])]_vars

\* A call never takes the tracked balance below zero, whatever the sizes of the
\* items of a batch (the check in deduct and batch_deduct).
NeverOverdrawn == [][owner # None /\ balance >= 0 => balance' >= 0]_vars

\* Whatever leaves the tracked balance arrives at the settlement contract that is
\* configured at that moment, and nobody else's USDC moves (deduct, batch_deduct).
DeductionsReachSettlement ==
    [][owner # None /\ balance' < balance =>
         usdc' = Transferred(VaultAddr, settlement, balance - balance')]_vars

\* While the vault is paused the tracked balance stands still, and USDC leaves the
\* vault only by a matured sweep ("Deposits are blocked", "Single and batch deducts
\* are blocked": the pause circuit breaker).
PauseFreezesMoney ==
    [][paused =>
         /\ balance' = balance
         /\ usdc'[VaultAddr] < usdc[VaultAddr] => SweptBy(pending["sweep"])]_vars

-----------------------------------------------------------------------------
(* The escape hatches and the admin role.                                  *)

\* Every pending proposal waits at least the shortest and at most the longest
\* window after it was made, whatever set_timelock_window did in between, and its
\* deadline is a representable timestamp (propose_*, saturating_deadline).
DelayHonoured ==
    \A h \in Hatches : pending[h] # None =>
        /\ pending[h].proposed_at <= now
        /\ pending[h].execute_after - pending[h].proposed_at
             \in MIN_TIMELOCK_SECONDS .. MAX_TIMELOCK_SECONDS
        /\ pending[h].execute_after <= U64Max

UpgradeTimelock == INSTANCE Timelock WITH
    MinDelay <- MIN_TIMELOCK_SECONDS,
    slot     <- pending["upgrade"],
    applied  <- contractVersion

\* The upgrade slot implements the abstract timelock: the contract version changes
\* only by executing a proposal that has waited the minimum delay, at most once per
\* proposal, and re-proposing restarts the wait.
UpgradeIsTimelocked == UpgradeTimelock!Spec

AdminTransfer == INSTANCE TwoStepRole WITH holder <- admin, nominee <- pendingAdmin

\* The admin role moves only to its current nominee, who takes it at most once per
\* nomination (set_admin, accept_admin).
AdminIsTwoStep == AdminTransfer!Spec

\* A proposal that is neither withdrawn nor replaced becomes executable: its deadline
\* is one that the ledger clock reaches (TimelockOverflow rules out the others).
ProposalsMature ==
    \A h \in Slots, at \in 0..U64Max :
        (pending[h] # None /\ pending[h].proposed_at = at)
            ~> (pending[h] = None \/ pending[h].proposed_at # at \/ Matured(h))
=============================================================================
