------------------------------ MODULE RateLimit ------------------------------
(***************************************************************************)
(* The vault's token bucket for one developer (vault, rate_limit.rs): the  *)
(* bucket is refilled, lazily, for the ledgers that have closed since it   *)
(* was last written.  The module is compiled into the vault, and no entry  *)
(* point calls it yet; RateLimited is an error code already.               *)
(***************************************************************************)
EXTENDS Integers, Sequences

CONSTANTS
    Capacities, RefillRates,    \* what a configuration may say
    Charges,                    \* amounts consumed
    MaxLedger,                  \* the last ledger sequence number (u32::MAX)
    MaxCharges,                 \* how many are recorded in charged
    BucketMax                   \* i128::MAX

ASSUME BucketAssumption ==
    /\ Capacities \cup RefillRates \subseteq 0..BucketMax
    /\ Charges \subseteq 1..BucketMax
    /\ {MaxLedger, MaxCharges, BucketMax} \subseteq Nat

VARIABLES
    limit,              \* RateLimitConfig, or Unlimited
    bucket,             \* RateLimitState, or Unlimited when there is none
    ledger,
    charged,            \* <<[ledger, amount]>>: what was consumed under a limit
    generous            \* the largest capacity and rate that were ever configured

bucketVars == <<limit, bucket, ledger, charged, generous>>

Unlimited == [tokens |-> -1]

Larger(m, n) == IF m > n THEN m ELSE n
Lesser(m, n) == IF m < n THEN m ELSE n

-----------------------------------------------------------------------------
\* Leaves the bucket as it is, which may then hold more than the new capacity.
SetConfig(capacity, rate) ==
    /\ limit' = [capacity |-> capacity, refill_rate |-> rate]
    /\ generous' = [capacity |-> Larger(generous.capacity, capacity),
                    refill_rate |-> Larger(generous.refill_rate, rate)]
    /\ UNCHANGED <<bucket, ledger, charged>>

\* The bucket as this ledger sees it.  A refill beyond the i128 range is no refill.
RefilledWithoutCap(state) ==
    LET refill == (ledger - state.last_updated_ledger) * limit.refill_rate IN
    IF ledger = state.last_updated_ledger \/ refill > BucketMax THEN state.tokens
    ELSE Lesser(state.tokens + refill, BucketMax)
Refilled(state) ==
    LET refill == (ledger - state.last_updated_ledger) * limit.refill_rate IN
    IF ledger = state.last_updated_ledger \/ refill > BucketMax THEN state.tokens
    ELSE Lesser(Lesser(state.tokens + refill, BucketMax), limit.capacity)

Available == IF bucket = Unlimited THEN limit.capacity ELSE Refilled(bucket)

\* A refusal leaves even the refill unwritten.
ConsumeTokens(amount) ==
    /\ limit # Unlimited
    /\ Available >= amount
    /\ bucket' = [tokens |-> Available - amount, last_updated_ledger |-> ledger]
    /\ Len(charged) < MaxCharges
    /\ charged' = Append(charged, [ledger |-> ledger, amount |-> amount])
    /\ UNCHANGED <<limit, ledger, generous>>

LedgerCloses ==
    /\ ledger < MaxLedger
    /\ ledger' = ledger + 1
    /\ UNCHANGED <<limit, bucket, charged, generous>>

-----------------------------------------------------------------------------
BucketInit ==
    /\ limit = Unlimited /\ bucket = Unlimited
    /\ ledger = 0
    /\ charged = <<>>
    /\ generous = [capacity |-> 0, refill_rate |-> 0]

BucketNext ==
    \/ \E capacity \in Capacities, rate \in RefillRates : SetConfig(capacity, rate)
    \/ \E amount \in Charges : ConsumeTokens(amount)
    \/ LedgerCloses

-----------------------------------------------------------------------------
Consumed(i, j) ==
    LET sum[k \in i - 1 .. j] == IF k < i THEN 0 ELSE sum[k - 1] + charged[k].amount
    IN  sum[j]

\* Between any two charges no more goes through than a full bucket and the refill of the
\* ledgers in between, by the most generous configuration there has been: waiting saves
\* nothing up beyond the capacity, and changing the configuration, which leaves the bucket
\* as it is and applies the new rate to the ledgers before the change, gives nothing away.
BurstsAreBounded ==
    \A i, j \in DOMAIN charged :
        i <= j => Consumed(i, j) <=
            generous.capacity + (charged[j].ledger - charged[i].ledger) * generous.refill_rate
=============================================================================
