------------------------ MODULE RevenuePoolHistory --------------------------
(***************************************************************************)
(* What the revenue pool must guarantee, with a record of the last drain   *)
(* executed, which the contract does not keep.                             *)
(***************************************************************************)
EXTENDS RevenuePool

\* No drain pending, and a pending drain, are told apart.
ASSUME NoneAssumption ==
    None \notin [payload : [to : Addrs, amount : Int], proposed_at : Nat, execute_after : Nat]

VARIABLE drained        \* the payload of the last executed drain

hvars == <<vars, drained>>

HInit == Init /\ drained = None

HNext ==
    \/ DrainStep /\ drained' = drain.payload
    \/ (RoleStep \/ MoneyStep \/ ExternalStep) /\ UNCHANGED drained

HSpec == HInit /\ [][HNext]_hvars

-----------------------------------------------------------------------------
\* Types.  Beyond the shape of the state: every token balance and the yield total
\* stay in the i128 range, and no proposal drains to the pool itself or matures past
\* the end of time.
TypeOK ==
    /\ {admin, pendingAdmin, guardian} \subseteq Users \cup {None}
    /\ usdcToken \in Users \cup {Usdc, None} /\ version \in Hashes \cup {None}
    /\ paused \in BOOLEAN
    /\ maxDistribute \in 1..I128Max
    /\ cumulativeYield \in 0..I128Max
    /\ drain # None =>
         drain \in [payload : [to : Users, amount : 1..I128Max],
                    proposed_at : 0..now, execute_after : 0..MaxTime]
    /\ usdc \in [Addrs -> 0..I128Max]
    /\ now \in 0..MaxTime

\* What a step pays to an account.
Gain(a) == usdc'[a] - usdc[a]

\* USDC leaves the pool in two ways only.  Either the pending drain has matured, and
\* exactly its amount goes to exactly its recipient; or the pool is not paused, and
\* nobody receives more than max_distribute in one call, batches included: splitting
\* a payment to one recipient over a batch does not get around the cap (distribute,
\* batch_distribute, execute_emergency_drain).
OutflowsAuthorised ==
    [][usdc'[Pool] < usdc[Pool] =>
         \/ /\ drain # None /\ now >= drain.execute_after /\ drain' = None
            /\ usdc' = Transferred(usdc, Pool, drain.payload.to, drain.payload.amount)
         \/ /\ ~paused
            /\ \A a \in Users : Gain(a) \in 0..maxDistribute]_hvars

\* The events are enough for a treasury monitor: reading nothing else but the token's
\* own arrivals, it knows who is admin, nominee and guardian, the pause switch, the
\* cap, the pending drain, the yield so far, and to the unit what the pool holds: each
\* payout and each yield deposit is announced once, with the amount that moved, and
\* receive_payment, which moves nothing, is not mistaken for money.
MonitorAgrees ==
    /\ books.holding = Balance /\ books.yield = GetCumulativeYieldDeposited
    /\ books.admin = admin /\ books.nominee = GetPendingAdmin
    /\ books.guardian = GetPauseGuardian
    /\ books.usdcToken = usdcToken /\ books.version = GetVersion
    /\ books.paused = IsPaused /\ books.maxDistribute = GetMaxDistribute
    /\ books.drain = GetPendingEmergencyDrain

DrainTimelock == INSTANCE Timelock WITH
    MinDelay <- EMERGENCY_DRAIN_TIMELOCK_SECONDS,
    slot     <- drain,
    applied  <- drained

\* The emergency drain implements the abstract timelock: also across cancellations,
\* replacements and changes of admin, a drain runs at most once and only when it was
\* last proposed at least 24 hours ago.
DrainIsTimelocked == DrainTimelock!Spec
=============================================================================
