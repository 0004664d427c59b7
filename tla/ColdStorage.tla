---------------------------- MODULE ColdStorage ----------------------------
(***************************************************************************)
(* The arithmetic of the vault's hot/cold split (vault, cold_storage.rs):  *)
(* the tracked balance is hot + cold, and a rebalance moves hot surplus to *)
(* cold when the hot share has drifted too far above its target.  The      *)
(* module is compiled into the vault, and no entry point calls it yet.     *)
(***************************************************************************)
EXTENDS Integers, Sequences

CONSTANTS
    Signers,            \* addresses that a configuration may name
    Shares,             \* values of hot_bps and rebalance_threshold_bps
    Splits,             \* amounts that hot and cold may hold
    BPS_DENOMINATOR,    \* 10 000 in the code
    I128Max

ASSUME SplitAssumption ==
    /\ Splits \subseteq 0..I128Max /\ I128Max \in Nat
    /\ Shares \subseteq Nat
    /\ BPS_DENOMINATOR \in Nat \ {0}

VARIABLES
    config,             \* ColdConfig
    hot, cold           \* ColdBalances

splitVars == <<config, hot, cold>>

-----------------------------------------------------------------------------
\* ColdConfig::validate.  The list of signers has no duplicates, which would let one key
\* count twice.
Validate(c) ==
    /\ c.hot_bps \in 1..BPS_DENOMINATOR
    /\ c.rebalance_threshold_bps \in 1..BPS_DENOMINATOR
    /\ c.cold_signers # <<>>
    /\ c.cold_threshold \in 1..Len(c.cold_signers)
    /\ \A i, j \in DOMAIN c.cold_signers : c.cold_signers[i] = c.cold_signers[j] => i = j

\* Every checked operation fails, and with it the call, outside the i128 range.
InRange(n) == -I128Max - 1 <= n /\ n <= I128Max

Total == hot + cold

HotShareBps(h, total) == IF total = 0 THEN 0 ELSE (h * BPS_DENOMINATOR) \div total

\* Rounds down: what does not divide stays cold.
TargetHotRoundedUp(total) == (total * config.hot_bps + BPS_DENOMINATOR - 1) \div BPS_DENOMINATOR
TargetHot(total) == (total * config.hot_bps) \div BPS_DENOMINATOR

\* A deficit of hot is never made up for from cold.
TooHot == HotShareBps(hot, Total) - config.hot_bps > config.rebalance_threshold_bps

MaybeRebalance ==
    /\ InRange(Total)
    /\ Total > 0 => InRange(hot * BPS_DENOMINATOR)
    /\ TooHot => InRange(Total * config.hot_bps)
    /\ hot' = IF TooHot THEN TargetHot(Total) ELSE hot
    /\ cold' = IF TooHot THEN cold + (hot - TargetHot(Total)) ELSE cold
    /\ UNCHANGED config

\* Outside the module: whoever keeps the split moves money in or out of the hot pool.
HotChanges(amount) ==
    /\ hot' = amount
    /\ UNCHANGED <<config, cold>>

-----------------------------------------------------------------------------
Configs ==
    [hot_bps : Shares, rebalance_threshold_bps : Shares,
     cold_signers : UNION {[1..n -> Signers] : n \in 0..2}, cold_threshold : 0..2]

SplitInit ==
    /\ config \in {c \in Configs : Validate(c)}
    /\ hot \in Splits /\ cold \in Splits

SplitNext == MaybeRebalance \/ \E amount \in Splits : HotChanges(amount)

-----------------------------------------------------------------------------
\* A rebalance neither makes nor loses money and never takes any out of cold ("hot + cold
\* must always equal the vault's total tracked balance", "deposits only ever push funds
\* toward cold"), and one is enough: the split it leaves is not rebalanced again, for
\* every rounding of every configuration.
RebalanceIsSafe ==
    [][MaybeRebalance =>
         /\ hot' + cold' = hot + cold
         /\ cold' >= cold /\ hot' >= 0
         /\ ~TooHot']_splitVars
=============================================================================
