--------------------------- MODULE LibraryProofs ----------------------------
(***************************************************************************)
(* Proofs about the modules that no contract calls yet: the split of the   *)
(* vault's balance, for every configuration and all amounts; the archive   *)
(* of events, for every batch size; the token bucket, for every sequence   *)
(* of configurations and charges; the difference of snapshots, for all     *)
(* lists of entries.                                                       *)
(***************************************************************************)
EXTENDS ColdStorage, EventArchive, RateLimit, SnapshotDiff, Induction

-----------------------------------------------------------------------------
(* The hot/cold split.                                                     *)

\* The shares are products of an amount and a rate.
LEMMA NatProduct == \A m, n \in Nat : m * n \in Nat
OBVIOUS

\* Division rounds down, by less than one.
LEMMA DivRoundsDown ==
    ASSUME NEW a \in Nat, NEW d \in Nat, d > 0
    PROVE  /\ a \div d \in Nat
           /\ d * (a \div d) <= a /\ a < d * (a \div d) + d
OBVIOUS

\* A quotient is at most whatever its divisor times gives the dividend or more.
LEMMA DivBound ==
    ASSUME NEW a \in Nat, NEW d \in Nat, d > 0, NEW b \in Nat, a <= d * b
    PROVE  a \div d <= b
<1> DEFINE q == a \div d
<1>1. q \in Nat /\ d * q <= a
  BY DivRoundsDown
<1>2. ASSUME q >= b + 1 PROVE FALSE
  <2>1. q \in Nat /\ q - b - 1 \in Nat
    BY <1>1, <1>2
  <2>2. d * (q - b - 1) >= 0
    BY <2>1
  <2>3. d * q = d * (q - b - 1) + d * b + d
    BY <2>1
  <2> HIDE DEF q
  <2>4. d * b \in Nat /\ d * q \in Nat /\ d * (q - b - 1) \in Nat
    BY <2>1
  <2> QED BY <1>1, <2>2, <2>3, <2>4
<1> QED BY <1>1, <1>2

SplitTyped ==
    /\ config.hot_bps \in Nat /\ config.rebalance_threshold_bps \in Nat
    /\ hot \in Nat /\ cold \in Nat

\* Too hot a split holds more than its target, and the target is not too hot.
LEMMA TargetIsSafe ==
    ASSUME SplitTyped, TooHot
    PROVE  /\ Total > 0
           /\ TargetHot(Total) \in Nat /\ TargetHot(Total) <= hot
           /\ HotShareBps(TargetHot(Total), Total) <= config.hot_bps
<1> DEFINE b == config.hot_bps
           D == BPS_DENOMINATOR
           T == Total
           share == (hot * D) \div T
           target == (T * b) \div D
<1>1. b \in Nat /\ D \in Nat /\ D > 0 /\ T \in Nat
  BY SplitAssumption DEF SplitTyped, Total
<1>2. T > 0
  BY <1>1 DEF TooHot, HotShareBps, SplitTyped
<1>3. share > b
  BY <1>1, <1>2 DEF TooHot, HotShareBps, SplitTyped
<1>4. hot * D \in Nat /\ T * b \in Nat
  BY <1>1 DEF SplitTyped
<1>5. share \in Nat /\ T * share <= hot * D
  BY <1>1, <1>2, <1>4, DivRoundsDown
<1>6. T * b <= T * share
  <2> HIDE DEF share, b, T
  <2>1. share - b \in Nat
    BY <1>1, <1>3, <1>5
  <2>2. T * share = T * b + T * (share - b) /\ T * (share - b) \in Nat
    BY <2>1, <1>1, <1>5
  <2>3. T * b \in Nat /\ T * share \in Nat
    BY <1>1, <1>5
  <2> QED BY <2>2, <2>3
<1>7. T * b <= D * hot
  <2> HIDE DEF share, b, T, D
  <2>1. hot * D = D * hot /\ T * share \in Nat
    BY <1>1, <1>5 DEF SplitTyped
  <2> QED BY <1>4, <1>5, <1>6, <2>1
<1>8. target \in Nat /\ target <= hot /\ D * target <= T * b
  BY <1>1, <1>4, <1>7, DivBound, DivRoundsDown DEF SplitTyped
<1>9. (target * D) \div T <= b
  <2> HIDE DEF target, b, T, D
  <2>1. target * D \in Nat /\ target * D <= T * b
    BY <1>1, <1>8
  <2> QED BY <1>1, <1>2, <2>1, DivBound
<1> QED BY <1>2, <1>8, <1>9 DEF TargetHot, HotShareBps

\* A rebalance conserves the total, takes nothing out of cold and leaves a split that is
\* not rebalanced again: for every total, target share and threshold, whatever does not
\* divide (maybe_rebalance).
THEOREM RebalancesAreSafe == SplitInit /\ [][SplitNext]_splitVars => RebalanceIsSafe
<1>1. SplitInit => SplitTyped
  <2> SUFFICES ASSUME SplitInit PROVE SplitTyped
    OBVIOUS
  <2>1. Validate(config)
    BY DEF SplitInit
  <2>2. config.hot_bps \in 1..BPS_DENOMINATOR /\ config.rebalance_threshold_bps \in 1..BPS_DENOMINATOR
    BY <2>1 DEF Validate
  <2>3. hot \in Nat /\ cold \in Nat
    BY SplitAssumption DEF SplitInit
  <2> QED BY <2>2, <2>3, SplitAssumption DEF SplitTyped
<1>2. ASSUME SplitTyped, MaybeRebalance
      PROVE  /\ hot' + cold' = hot + cold
             /\ cold' >= cold /\ hot' >= 0
             /\ ~TooHot'
             /\ SplitTyped'
  <2>1. CASE TooHot
    <3>1. hot' = TargetHot(Total) /\ cold' = cold + (hot - TargetHot(Total)) /\ config' = config
      BY <1>2, <2>1 DEF MaybeRebalance
    <3>2. TargetHot(Total) \in Nat /\ TargetHot(Total) <= hot
      BY <1>2, <2>1, TargetIsSafe
    <3>3. hot' + cold' = hot + cold /\ cold' >= cold /\ hot' >= 0 /\ SplitTyped'
      BY <1>2, <3>1, <3>2 DEF SplitTyped
    <3>4. Total' = Total
      BY <3>3 DEF Total
    <3>5. HotShareBps(hot', Total') <= config'.hot_bps /\ HotShareBps(hot', Total') \in Nat
      <4>1. HotShareBps(hot', Total') <= config'.hot_bps
        BY <1>2, <2>1, <3>1, <3>4, TargetIsSafe
      <4>2. Total' > 0
        BY <3>4, <1>2, <2>1, TargetIsSafe
      <4>3. hot' \in Nat /\ BPS_DENOMINATOR \in Nat
        BY <3>1, <3>2, SplitAssumption
      <4>4. Total' \in Nat
        BY <3>4, <1>2 DEF SplitTyped, Total
      <4>5. hot' * BPS_DENOMINATOR \in Nat
        BY <4>3, NatProduct
      <4> QED BY <4>1, <4>2, <4>4, <4>5, DivRoundsDown DEF HotShareBps
    <3>6. ~TooHot'
      BY <3>3, <3>5 DEF TooHot, SplitTyped
    <3> QED BY <3>3, <3>6
  <2>2. CASE ~TooHot
    <3>1. hot' = hot /\ cold' = cold /\ config' = config
      BY <1>2, <2>2 DEF MaybeRebalance
    <3> QED BY <1>2, <2>2, <3>1 DEF SplitTyped, TooHot, Total
  <2> QED BY <2>1, <2>2
<1>3. SplitTyped /\ [SplitNext]_splitVars => SplitTyped'
  <2>1. ASSUME SplitTyped, NEW amount \in Splits, HotChanges(amount) PROVE SplitTyped'
    BY <2>1, SplitAssumption DEF HotChanges, SplitTyped
  <2>2. ASSUME SplitTyped, UNCHANGED splitVars PROVE SplitTyped'
    BY <2>2 DEF splitVars, SplitTyped
  <2> QED BY <1>2, <2>1, <2>2 DEF SplitNext
<1>4. SplitTyped => [MaybeRebalance => /\ hot' + cold' = hot + cold
                                       /\ cold' >= cold /\ hot' >= 0
                                       /\ ~TooHot']_splitVars
  BY <1>2
<1> QED BY <1>1, <1>3, <1>4, PTL DEF RebalanceIsSafe

-----------------------------------------------------------------------------
(* The archive.                                                            *)

ArchiveTyped ==
    /\ tail \in Nat /\ head \in Nat /\ tail <= head
    /\ DOMAIN active = tail..head - 1

\* One call passes the oldest positions without a gap, and advances the cursor past
\* exactly these.
LEMMA OldestArePrefix ==
    ASSUME ArchiveTyped, NEW size \in Nat, Oldest(size) # {}
    PROVE  \E n \in Nat : /\ n > 0 /\ tail + n <= head
                          /\ Oldest(size) = tail..tail + n - 1
                          /\ Cardinality(Oldest(size)) = n
<1>1. size > 0 /\ head > tail
  BY DEF Oldest, ArchiveTyped
<1> DEFINE n == IF size <= head - tail THEN size ELSE head - tail
<1>2. n \in Nat /\ n > 0 /\ tail + n <= head
  BY <1>1 DEF ArchiveTyped
<1>3. Oldest(size) = tail..tail + n - 1
  BY <1>1 DEF Oldest, ArchiveTyped
<1> HIDE DEF n
<1>4. Cardinality(tail..tail + n - 1) = n
  BY <1>2, FS_Interval DEF ArchiveTyped
<1> QED BY <1>2, <1>3, <1>4

NothingSkipped ==
    /\ DOMAIN active' \cap 0..tail' - 1 = {} /\ tail'..head' - 1 \subseteq DOMAIN active'
    /\ \A i \in DOMAIN active \ DOMAIN active' :
         i \in DOMAIN archived' /\ archived'[i] = active[i]

\* Every step of the archive, an expiry included, keeps the active positions together.
LEMMA ArchiveNextKeeps ==
    ASSUME ArchiveTyped, ArchiveNext
    PROVE  ArchiveTyped' /\ NothingSkipped
<1>1. ASSUME NEW payload \in Payloads, RecordEvent(payload)
      PROVE  ArchiveTyped' /\ NothingSkipped
  BY <1>1 DEF RecordEvent, ArchiveTyped, NothingSkipped
<1>2. ASSUME NEW i, Expires(i) PROVE ArchiveTyped' /\ NothingSkipped
  BY <1>2 DEF Expires, ArchiveTyped, NothingSkipped
<1>3. ASSUME NEW size \in ArchiveSizes, ArchiveEvents(size)
      PROVE  ArchiveTyped' /\ NothingSkipped
  <2> DEFINE moved == Oldest(size)
  <2>1. moved # {} /\ tail' = tail + Cardinality(moved) /\ head' = head
    BY <1>3 DEF ArchiveEvents
  <2>2. PICK n \in Nat : /\ n > 0 /\ tail + n <= head
                         /\ moved = tail..tail + n - 1
                         /\ Cardinality(moved) = n
    BY <2>1, OldestArePrefix, ArchiveAssumption
  <2>3. /\ archived' = [i \in DOMAIN archived \cup (moved \cap DOMAIN active) |->
                          IF i \in moved \cap DOMAIN active THEN active[i] ELSE archived[i]]
        /\ active' = [i \in DOMAIN active \ moved |-> active[i]]
    BY <1>3 DEF ArchiveEvents
  <2> HIDE DEF moved
  <2>4. DOMAIN active' = tail + n..head - 1
    BY <2>2, <2>3 DEF ArchiveTyped
  <2>5. ArchiveTyped'
    BY <2>1, <2>2, <2>4 DEF ArchiveTyped
  <2>6. ASSUME NEW i \in DOMAIN active \ DOMAIN active'
        PROVE  i \in DOMAIN archived' /\ archived'[i] = active[i]
    <3>1. i \in moved \cap DOMAIN active
      BY <2>3, <2>6
    <3> QED BY <2>3, <3>1
  <2> QED BY <2>1, <2>2, <2>4, <2>5, <2>6 DEF NothingSkipped, ArchiveTyped
<1> QED BY <1>1, <1>2, <1>3 DEF ArchiveNext

\* However calls of any batch size and new events alternate, what leaves the active
\* events is the oldest of them, without a gap, and is in the archive unchanged.
THEOREM ArchiveSkipsNothing ==
    ArchiveInit /\ [][ArchiveNext]_archiveVars => NoEventSkipped
<1>1. ArchiveInit => ArchiveTyped
  BY DEF ArchiveInit, ArchiveTyped
<1>2. ArchiveTyped /\ [ArchiveNext]_archiveVars => ArchiveTyped'
  <2>1. ASSUME ArchiveTyped, UNCHANGED archiveVars PROVE ArchiveTyped'
    BY <2>1 DEF archiveVars, ArchiveTyped
  <2> QED BY <2>1, ArchiveNextKeeps
<1>3. ArchiveTyped /\ [ArchiveNext]_archiveVars => [NothingSkipped]_archiveVars
  BY ArchiveNextKeeps
<1>4. ([][NothingSkipped]_archiveVars) => NoEventSkipped
  <2>1. [NothingSkipped]_archiveVars =>
          [/\ DOMAIN active' \cap 0..tail' - 1 = {} /\ tail'..head' - 1 \subseteq DOMAIN active'
           /\ \A i \in DOMAIN active \ DOMAIN active' :
                i \in DOMAIN archived' /\ archived'[i] = active[i]]_archiveVars
    BY DEF NothingSkipped
  <2> QED BY <2>1, PTL DEF NoEventSkipped
<1> QED BY <1>1, <1>2, <1>3, <1>4, PTL

-----------------------------------------------------------------------------
(* The token bucket.                                                       *)

\* What a list of charges takes from position i to position j.
ConsumedIn(c, i, j) ==
    LET sum[k \in i - 1 .. j] == IF k < i THEN 0 ELSE sum[k - 1] + c[k].amount
    IN  sum[j]

IsTotal(g, c, i, j) ==
    g = [k \in i - 1 .. j |-> IF k < i THEN 0 ELSE g[k - 1] + c[k].amount]
RunningTotal(c, i, j) == CHOOSE g : IsTotal(g, c, i, j)

\* The recursion has a solution.
LEMMA TotalExists ==
    ASSUME NEW c, NEW i \in Int
    PROVE  \A n \in Nat : IsTotal(RunningTotal(c, i, i - 1 + n), c, i, i - 1 + n)
<1> DEFINE Good == {n \in Nat : \E g : IsTotal(g, c, i, i - 1 + n)}
<1>1. 0 \in Good
  <2> DEFINE h == [k \in i - 1 .. i - 1 + 0 |-> 0]
  <2>1. IsTotal(h, c, i, i - 1 + 0)
    BY DEF IsTotal
  <2> QED BY <2>1
<1>2. ASSUME NEW n \in Nat, n \in Good PROVE n + 1 \in Good
  <2> DEFINE j == i - 1 + n
  <2>1. PICK g : IsTotal(g, c, i, j)
    BY <1>2
  <2>2. g = [k \in i - 1 .. j |-> IF k < i THEN 0 ELSE g[k - 1] + c[k].amount]
    BY <2>1 DEF IsTotal
  <2>3. j \in Int /\ i - 1 <= j /\ i - 1 + (n + 1) = j + 1
    OBVIOUS
  <2> HIDE DEF j
  <2> DEFINE h == [k \in i - 1 .. j + 1 |-> IF k <= j THEN g[k] ELSE g[j] + c[j + 1].amount]
  <2>4. ASSUME NEW k \in i - 1 .. j + 1
        PROVE  h[k] = IF k < i THEN 0 ELSE h[k - 1] + c[k].amount
    <3>1. CASE k = i - 1
      <4>1. k \in i - 1 .. j /\ k < i /\ k <= j
        BY <2>3, <3>1
      <4>2. g[k] = 0 /\ h[k] = g[k]
        BY <2>2, <4>1, Zenon
      <4> QED BY <4>1, <4>2
    <3>2. CASE k \in i .. j
      <4>1. k \in i - 1 .. j /\ ~(k < i) /\ k <= j /\ k - 1 \in i - 1 .. j + 1 /\ k - 1 <= j
        BY <2>3, <3>2
      <4>2. g[k] = g[k - 1] + c[k].amount
        BY <2>2, <4>1, Zenon
      <4>3. h[k] = g[k] /\ h[k - 1] = g[k - 1]
        BY <4>1, Zenon
      <4> QED BY <4>1, <4>2, <4>3
    <3>3. CASE k = j + 1
      <4>1. ~(k < i) /\ ~(k <= j) /\ k - 1 = j /\ j \in i - 1 .. j + 1 /\ j <= j
        BY <2>3, <3>3
      <4>2. h[k] = g[j] + c[j + 1].amount /\ h[j] = g[j]
        BY <4>1, Zenon
      <4> QED BY <3>3, <4>1, <4>2
    <3> QED BY <2>3, <3>1, <3>2, <3>3
  <2>5. IsTotal(h, c, i, j + 1)
    BY <2>4 DEF IsTotal
  <2> HIDE DEF h
  <2> QED BY <2>3, <2>5
<1>3. Nat \subseteq Good
  <2> HIDE DEF Good
  <2> QED BY <1>1, <1>2, NatSetInduction
<1> QED BY <1>3 DEF RunningTotal

\* The first values of two solutions agree when the charges do.
LEMMA TotalsAgree ==
    ASSUME NEW c, NEW d, NEW i \in Int, NEW g, NEW h, NEW j \in Int, NEW m \in Int,
           IsTotal(g, c, i, j), IsTotal(h, d, i, m), i - 1 <= j, j <= m,
           \A k \in i..j : c[k] = d[k]
    PROVE  g[j] = h[j]
<1> DEFINE Good == {n \in Nat : i - 1 + n <= j => g[i - 1 + n] = h[i - 1 + n]}
<1>1. \A k \in i - 1 .. j : g[k] = IF k < i THEN 0 ELSE g[k - 1] + c[k].amount
  BY Zenon DEF IsTotal
<1>2. \A k \in i - 1 .. m : h[k] = IF k < i THEN 0 ELSE h[k - 1] + d[k].amount
  BY Zenon DEF IsTotal
<1>3. 0 \in Good
  <2>1. i - 1 \in i - 1 .. j /\ i - 1 \in i - 1 .. m /\ i - 1 < i /\ i - 1 + 0 = i - 1
    OBVIOUS
  <2> QED BY <1>1, <1>2, <2>1
<1>4. ASSUME NEW n \in Nat, n \in Good PROVE n + 1 \in Good
  <2> SUFFICES ASSUME i - 1 + (n + 1) <= j
               PROVE  g[i - 1 + (n + 1)] = h[i - 1 + (n + 1)]
    OBVIOUS
  <2> DEFINE k == i + n
  <2>1. /\ k \in i - 1 .. j /\ k \in i - 1 .. m /\ ~(k < i) /\ k \in i..j
        /\ k - 1 = i - 1 + n /\ i - 1 + n <= j /\ k = i - 1 + (n + 1)
    OBVIOUS
  <2>2. g[k - 1] = h[k - 1] /\ c[k] = d[k]
    BY <1>4, <2>1
  <2> HIDE DEF k
  <2>3. g[k] = g[k - 1] + c[k].amount /\ h[k] = h[k - 1] + d[k].amount
    BY <1>1, <1>2, <2>1
  <2> QED BY <2>1, <2>2, <2>3
<1>5. Nat \subseteq Good
  <2> HIDE DEF Good
  <2> QED BY <1>3, <1>4, NatSetInduction
<1>6. j - i + 1 \in Nat /\ i - 1 + (j - i + 1) = j
  OBVIOUS
<1>7. j - i + 1 \in Good
  <2> HIDE DEF Good
  <2> QED BY <1>5, <1>6
<1> QED BY <1>6, <1>7

\* The sum of charges, one more at a time.
LEMMA ConsumedEquations ==
    ASSUME NEW c, NEW i \in Int
    PROVE  /\ ConsumedIn(c, i, i - 1) = 0
           /\ \A j \in Int : i <= j =>
                ConsumedIn(c, i, j) = ConsumedIn(c, i, j - 1) + c[j].amount
<1>1. \A j : ConsumedIn(c, i, j) = RunningTotal(c, i, j)[j]
  BY DEF ConsumedIn, RunningTotal, IsTotal
<1>2. ASSUME NEW j \in Int, i - 1 <= j PROVE IsTotal(RunningTotal(c, i, j), c, i, j)
  <2>1. j - i + 1 \in Nat /\ i - 1 + (j - i + 1) = j
    BY <1>2
  <2> QED BY <2>1, TotalExists
<1>3. ConsumedIn(c, i, i - 1) = 0
  <2>1. i - 1 \in i - 1 .. i - 1 /\ i - 1 < i /\ i - 1 \in Int
    OBVIOUS
  <2>2. IsTotal(RunningTotal(c, i, i - 1), c, i, i - 1)
    BY <1>2, <2>1
  <2> QED BY <1>1, <2>1, <2>2, Zenon DEF IsTotal
<1>4. ASSUME NEW j \in Int, i <= j
      PROVE  ConsumedIn(c, i, j) = ConsumedIn(c, i, j - 1) + c[j].amount
  <2> DEFINE g == RunningTotal(c, i, j)
             h == RunningTotal(c, i, j - 1)
  <2>1. j \in i - 1 .. j /\ ~(j < i) /\ j - 1 \in Int /\ i - 1 <= j - 1 /\ i - 1 <= j /\ j - 1 <= j
    BY <1>4
  <2>2. IsTotal(g, c, i, j) /\ IsTotal(h, c, i, j - 1)
    BY <1>2, <2>1
  <2> HIDE DEF g, h
  <2>3. g[j] = g[j - 1] + c[j].amount
    BY <2>1, <2>2, Zenon DEF IsTotal
  <2>4. h[j - 1] = g[j - 1]
    BY <2>1, <2>2, TotalsAgree
  <2> QED BY <1>1, <2>3, <2>4 DEF g, h
<1> QED BY <1>3, <1>4

\* The sum depends on the charges that it is of.
LEMMA ConsumedSame ==
    ASSUME NEW c, NEW d, NEW i \in Int, NEW j \in Int, i - 1 <= j, \A k \in i..j : c[k] = d[k]
    PROVE  ConsumedIn(c, i, j) = ConsumedIn(d, i, j)
<1>1. j - i + 1 \in Nat /\ i - 1 + (j - i + 1) = j
  OBVIOUS
<1>2. IsTotal(RunningTotal(c, i, j), c, i, j) /\ IsTotal(RunningTotal(d, i, j), d, i, j)
  BY <1>1, TotalExists
<1>3. RunningTotal(c, i, j)[j] = RunningTotal(d, i, j)[j]
  BY <1>2, TotalsAgree
<1> QED BY <1>3 DEF ConsumedIn, RunningTotal, IsTotal

Charge == [ledger : Nat, amount : Nat]

\* A bucket, once there is one, was last written by the last charge.
BucketTyped ==
    /\ ledger \in Nat
    /\ charged \in Seq(Charge)
    /\ \A i \in DOMAIN charged : charged[i].ledger <= ledger
    /\ generous \in [capacity : Nat, refill_rate : Nat]
    /\ limit = Unlimited \/
         /\ limit \in [capacity : Nat, refill_rate : Nat]
         /\ limit.capacity <= generous.capacity /\ limit.refill_rate <= generous.refill_rate
    /\ IF bucket = Unlimited THEN charged = <<>>
       ELSE /\ bucket \in [tokens : Nat, last_updated_ledger : Nat]
            /\ bucket.tokens <= generous.capacity
            /\ charged # <<>>
            /\ charged[Len(charged)].ledger = bucket.last_updated_ledger

\* What the most generous configuration would have let through since a charge.
Allowance(i, at) == generous.capacity + (at - charged[i].ledger) * generous.refill_rate

\* What is left in the bucket has not been let through yet.
TokensAccountedFor ==
    /\ \A i, j \in DOMAIN charged :
         i <= j => ConsumedIn(charged, i, j) \in Nat /\ charged[i].ledger <= charged[j].ledger
    /\ \A i \in DOMAIN charged :
         ConsumedIn(charged, i, Len(charged)) + bucket.tokens
             <= Allowance(i, bucket.last_updated_ledger)

\* What a ledger sees in the bucket: no more than the refill by the most generous rate
\* adds, and no more than the most generous capacity.
LEMMA RefillIsModest ==
    ASSUME BucketTyped, limit # Unlimited, BucketMax \in Nat
    PROVE  /\ Available \in Int
           /\ Available <= generous.capacity
           /\ bucket # Unlimited =>
                Available <= bucket.tokens
                               + (ledger - bucket.last_updated_ledger) * generous.refill_rate
<1>1. /\ limit.capacity \in Nat /\ limit.refill_rate \in Nat
      /\ generous.capacity \in Nat /\ generous.refill_rate \in Nat
      /\ limit.capacity <= generous.capacity /\ limit.refill_rate <= generous.refill_rate
  BY DEF BucketTyped
<1>2. CASE bucket = Unlimited
  BY <1>1, <1>2 DEF Available
<1>3. CASE bucket # Unlimited
  <2> DEFINE since == ledger - bucket.last_updated_ledger
             refill == since * limit.refill_rate
             most == since * generous.refill_rate
  <2>1. /\ bucket.tokens \in Nat /\ bucket.last_updated_ledger \in Nat
        /\ bucket.tokens <= generous.capacity
        /\ ledger \in Nat
    BY <1>3 DEF BucketTyped
  <2>2. bucket.last_updated_ledger <= ledger
    <3>1. charged # <<>> /\ charged \in Seq(Charge)
          /\ charged[Len(charged)].ledger = bucket.last_updated_ledger
      BY <1>3 DEF BucketTyped
    <3>2. Len(charged) \in DOMAIN charged
      BY <3>1
    <3> QED BY <3>1, <3>2 DEF BucketTyped
  <2>3. since \in Nat
    BY <2>1, <2>2
  <2>4. refill \in Nat /\ most \in Nat /\ refill <= most
    <3> HIDE DEF since
    <3>1. generous.refill_rate - limit.refill_rate \in Nat
      BY <1>1
    <3>2. since * (generous.refill_rate - limit.refill_rate) \in Nat
      BY <2>3, <3>1, NatProduct
    <3>3. most = refill + since * (generous.refill_rate - limit.refill_rate)
      BY <1>1, <2>3
    <3>4. refill \in Nat /\ most \in Nat
      BY <1>1, <2>3, NatProduct
    <3> HIDE DEF refill, most
    <3> QED BY <3>2, <3>3, <3>4
  <2>5. Available = IF ledger = bucket.last_updated_ledger \/ refill > BucketMax THEN bucket.tokens
                    ELSE Lesser(Lesser(bucket.tokens + refill, BucketMax), limit.capacity)
    BY <1>3 DEF Available, Refilled
  <2> HIDE DEF refill, most
  <2>6. Available \in Int /\ Available <= generous.capacity /\ Available <= bucket.tokens + most
    BY <1>1, <2>1, <2>4, <2>5 DEF Lesser
  <2> QED BY <2>6 DEF most
<1> QED BY <1>2, <1>3

\* What two spans refill is what the span of both refills.
LEMMA SpansAdd ==
    ASSUME NEW a \in Nat, NEW b \in Nat, NEW e \in Nat, NEW r \in Nat
    PROVE  /\ (b - a) * r + (e - b) * r = (e - a) * r
           /\ (b - a) * r \in Int /\ (e - b) * r \in Int /\ (e - a) * r \in Int
OBVIOUS

\* A charge takes from the bucket what the bucket holds.
LEMMA ConsumeKeepsAccount ==
    ASSUME BucketTyped, TokensAccountedFor, BucketMax \in Nat,
           NEW amount \in Charges, Charges \subseteq Nat, ConsumeTokens(amount)
    PROVE  BucketTyped' /\ TokensAccountedFor'
<1> DEFINE n == Len(charged)
           c == charged
           d == charged'
<1>1. /\ limit # Unlimited /\ amount \in Nat /\ amount <= Available
      /\ bucket' = [tokens |-> Available - amount, last_updated_ledger |-> ledger]
      /\ charged' = Append(charged, [ledger |-> ledger, amount |-> amount])
      /\ limit' = limit /\ ledger' = ledger /\ generous' = generous
  BY RefillIsModest DEF ConsumeTokens
<1>2. /\ Available \in Int /\ Available <= generous.capacity
      /\ bucket # Unlimited =>
           Available <= bucket.tokens
                          + (ledger - bucket.last_updated_ledger) * generous.refill_rate
  BY <1>1, RefillIsModest
<1>3. /\ ledger \in Nat /\ c \in Seq(Charge) /\ n \in Nat /\ DOMAIN c = 1..n
      /\ generous.capacity \in Nat /\ generous.refill_rate \in Nat
  BY DEF BucketTyped
<1>4. /\ d \in Seq(Charge) /\ Len(d) = n + 1 /\ DOMAIN d = 1..n + 1
      /\ \A i \in 1..n : d[i] = c[i]
      /\ d[n + 1].ledger = ledger /\ d[n + 1].amount = amount
  BY <1>1, <1>3 DEF Charge
<1>5. bucket' # Unlimited
  BY <1>1, <1>2 DEF Unlimited
<1>6. BucketTyped'
  <2>1. \A i \in DOMAIN d : d[i].ledger <= ledger
    BY <1>3, <1>4 DEF BucketTyped
  <2>2. bucket' \in [tokens : Nat, last_updated_ledger : Nat]
    BY <1>1, <1>2, <1>3
  <2>3. bucket'.tokens <= generous.capacity /\ bucket'.last_updated_ledger = ledger
    BY <1>1, <1>2, <1>3
  <2>4. d # <<>> /\ d[Len(d)].ledger = bucket'.last_updated_ledger
    BY <1>3, <1>4, <2>3
  <2> QED BY <1>1, <1>4, <1>5, <2>1, <2>2, <2>3, <2>4 DEF BucketTyped, Unlimited
<1>7. ASSUME NEW i \in 1..n, NEW j \in 1..n, i <= j
      PROVE  ConsumedIn(d, i, j) = ConsumedIn(c, i, j)
  <2>1. i \in Int /\ j \in Int /\ i - 1 <= j /\ \A k \in i..j : d[k] = c[k]
    BY <1>3, <1>4, <1>7
  <2> HIDE DEF c, d
  <2> QED BY <2>1, ConsumedSame
<1>8. ASSUME NEW i \in 1..n PROVE ConsumedIn(d, i, n + 1) = ConsumedIn(c, i, n) + amount
  <2>1. i \in Int /\ n + 1 \in Int /\ i <= n + 1 /\ (n + 1) - 1 = n /\ n \in 1..n /\ i <= n
    BY <1>3
  <2>2. ConsumedIn(d, i, n + 1) = ConsumedIn(d, i, n) + d[n + 1].amount
    <3> HIDE DEF d, n
    <3> QED BY <2>1, ConsumedEquations
  <2> QED BY <1>4, <1>7, <2>1, <2>2
<1>9. ConsumedIn(d, n + 1, n + 1) = amount
  <2>1. n + 1 \in Int /\ n + 1 <= n + 1
    BY <1>3
  <2>2. /\ ConsumedIn(d, n + 1, (n + 1) - 1) = 0
        /\ ConsumedIn(d, n + 1, n + 1) = ConsumedIn(d, n + 1, (n + 1) - 1) + d[n + 1].amount
    <3> HIDE DEF d, n
    <3> QED BY <2>1, ConsumedEquations
  <2> QED BY <1>1, <1>4, <2>2
<1>10. ASSUME NEW i \in 1..n + 1, NEW j \in 1..n + 1, i <= j
       PROVE  ConsumedIn(d, i, j) \in Nat /\ d[i].ledger <= d[j].ledger
  <2>1. CASE j \in 1..n
    <3>1. i \in 1..n
      BY <1>3, <1>10, <2>1
    <3> QED BY <1>3, <1>4, <1>7, <1>10, <2>1, <3>1 DEF TokensAccountedFor
  <2>2. CASE j = n + 1 /\ i \in 1..n
    <3>1. n \in 1..n /\ i <= n
      BY <1>3, <2>2
    <3>2. ConsumedIn(c, i, n) \in Nat
      BY <1>3, <2>2, <3>1 DEF TokensAccountedFor
    <3>3. d[i].ledger <= ledger
      BY <1>3, <1>4, <2>2 DEF BucketTyped
    <3> QED BY <1>1, <1>4, <1>8, <2>2, <3>2, <3>3
  <2>3. CASE j = n + 1 /\ i = n + 1
    BY <1>1, <1>3, <1>4, <1>9, <2>3
  <2> QED BY <1>3, <1>10, <2>1, <2>2, <2>3
<1>11. ASSUME NEW i \in 1..n + 1
       PROVE  ConsumedIn(d, i, n + 1) + (Available - amount)
                <= generous.capacity + (ledger - d[i].ledger) * generous.refill_rate
  <2>1. CASE i \in 1..n
    <3> DEFINE taken == ConsumedIn(c, i, n)
               r == generous.refill_rate
               last == bucket.last_updated_ledger
               at == c[i].ledger
    <3>1. n \in 1..n /\ i <= n /\ c # <<>>
      BY <1>3, <2>1
    <3>2. bucket # Unlimited
      BY <3>1 DEF BucketTyped
    <3>3. taken \in Nat /\ taken + bucket.tokens <= generous.capacity + (last - at) * r
      BY <1>3, <2>1, <3>1 DEF TokensAccountedFor, Allowance
    <3>a. c[i] \in Charge
      BY <1>3, <2>1
    <3>b. at \in Nat
      BY <3>a DEF Charge
    <3>4. last \in Nat /\ bucket.tokens \in Nat /\ at \in Nat /\ r \in Nat
      BY <1>3, <3>2, <3>b DEF BucketTyped
    <3>5. (last - at) * r + (ledger - last) * r = (ledger - at) * r
      <4> HIDE DEF last, at, r
      <4> QED BY <1>3, <3>4, SpansAdd
    <3>6. (last - at) * r \in Int /\ (ledger - last) * r \in Int /\ (ledger - at) * r \in Int
      <4> HIDE DEF last, at, r
      <4> QED BY <1>3, <3>4, SpansAdd
    <3>7. Available <= bucket.tokens + (ledger - last) * r
      BY <1>2, <3>2
    <3>8. d[i].ledger = at /\ ConsumedIn(d, i, n + 1) = taken + amount
      BY <1>4, <1>8, <2>1
    <3> DEFINE x == (last - at) * r
               y == (ledger - last) * r
               z == (ledger - at) * r
    <3>9. /\ x + y = z /\ x \in Int /\ y \in Int /\ z \in Int
          /\ taken + bucket.tokens <= generous.capacity + x
          /\ Available <= bucket.tokens + y
      BY <3>3, <3>5, <3>6, <3>7
    <3> HIDE DEF x, y, z, taken
    <3> DEFINE tokens == bucket.tokens
               capacity == generous.capacity
               now == Available
    <3>c. /\ taken \in Int /\ amount \in Int /\ tokens \in Int /\ capacity \in Int /\ now \in Int
          /\ x + y = z /\ x \in Int /\ y \in Int /\ z \in Int
          /\ taken + tokens <= capacity + x /\ now <= tokens + y
      BY <1>1, <1>2, <1>3, <3>3, <3>4, <3>9
    <3> HIDE DEF tokens, capacity, now
    <3>10. (taken + amount) + (now - amount) <= capacity + z
      BY ONLY <3>c
    <3> QED BY <3>8, <3>10 DEF z, capacity, now
  <2>2. CASE i = n + 1
    BY <1>1, <1>2, <1>3, <1>4, <1>9, <2>2
  <2> QED BY <1>3, <2>1, <2>2
<1>12. TokensAccountedFor'
  <2>1. bucket'.tokens = Available - amount /\ bucket'.last_updated_ledger = ledger
    BY <1>1
  <2> QED BY <1>1, <1>4, <1>10, <1>11, <2>1 DEF TokensAccountedFor, Allowance
<1> QED BY <1>6, <1>12

\* A larger capacity and rate allow no less.
LEMMA MoreIsAllowed ==
    ASSUME NEW K \in Nat, NEW r \in Nat, NEW L \in Nat, NEW s \in Nat, K <= L, r <= s,
           NEW at \in Nat, NEW since \in Nat, since <= at
    PROVE  /\ K + (at - since) * r \in Int /\ L + (at - since) * s \in Int
           /\ K + (at - since) * r <= L + (at - since) * s
<1> DEFINE t == at - since
<1>1. t \in Nat /\ s - r \in Nat
  OBVIOUS
<1> HIDE DEF t
<1>2. t * s = t * r + t * (s - r) /\ t * r \in Int /\ t * s \in Int
  BY <1>1
<1>3. t * (s - r) \in Nat
  BY <1>1, NatProduct
<1>4. K + t * r \in Int /\ L + t * s \in Int /\ K + t * r <= L + t * s
  <2> DEFINE a == t * r
             b == t * s
             e == t * (s - r)
  <2>1. b = a + e /\ a \in Int /\ b \in Int /\ e \in Nat
    BY <1>2, <1>3
  <2> HIDE DEF a, b, e
  <2>2. K + a \in Int /\ L + b \in Int /\ K + a <= L + b
    BY <2>1
  <2> QED BY <2>2 DEF a, b
<1> QED BY <1>4 DEF t

\* A new configuration leaves the bucket alone and allows no less than before.
LEMMA ConfigKeepsAccount ==
    ASSUME BucketTyped, TokensAccountedFor, Capacities \cup RefillRates \subseteq Nat,
           NEW capacity \in Capacities, NEW rate \in RefillRates, SetConfig(capacity, rate)
    PROVE  BucketTyped' /\ TokensAccountedFor'
<1>1. /\ limit' = [capacity |-> capacity, refill_rate |-> rate]
      /\ generous' = [capacity |-> Larger(generous.capacity, capacity),
                      refill_rate |-> Larger(generous.refill_rate, rate)]
      /\ bucket' = bucket /\ ledger' = ledger /\ charged' = charged
      /\ capacity \in Nat /\ rate \in Nat
  BY DEF SetConfig
<1>2. /\ generous.capacity \in Nat /\ generous.refill_rate \in Nat
      /\ generous'.capacity \in Nat /\ generous'.refill_rate \in Nat
      /\ generous.capacity <= generous'.capacity
      /\ generous.refill_rate <= generous'.refill_rate
      /\ capacity <= generous'.capacity /\ rate <= generous'.refill_rate
  BY <1>1 DEF BucketTyped, Larger
<1>3. BucketTyped'
  BY <1>1, <1>2 DEF BucketTyped
<1>4. ASSUME NEW i \in DOMAIN charged
      PROVE  ConsumedIn(charged, i, Len(charged)) + bucket.tokens
               <= generous'.capacity
                    + (bucket.last_updated_ledger - charged[i].ledger) * generous'.refill_rate
  <2> DEFINE n == Len(charged)
             K == generous.capacity
             r == generous.refill_rate
             at == bucket.last_updated_ledger
             since == charged[i].ledger
             L == generous'.capacity
             s == generous'.refill_rate
             taken == ConsumedIn(charged, i, n)
  <2>1. charged \in Seq(Charge) /\ n \in DOMAIN charged /\ i <= n /\ charged[i] \in Charge
    BY <1>4 DEF BucketTyped
  <2>2. bucket # Unlimited
    BY <1>4 DEF BucketTyped
  <2>3. at \in Nat /\ since \in Nat /\ bucket.tokens \in Nat /\ charged[n].ledger = at
    BY <2>1, <2>2 DEF BucketTyped, Charge
  <2>4. since <= at /\ taken \in Nat
    BY <1>4, <2>1, <2>3 DEF TokensAccountedFor
  <2>5. taken + bucket.tokens <= K + (at - since) * r
    BY <1>4 DEF TokensAccountedFor, Allowance
  <2> HIDE DEF K, r, L, s, at, since, taken
  <2>6. /\ K + (at - since) * r \in Int /\ L + (at - since) * s \in Int
        /\ K + (at - since) * r <= L + (at - since) * s
    BY <1>2, <2>3, <2>4, MoreIsAllowed DEF K, r, L, s
  <2> DEFINE x == K + (at - since) * r
             y == L + (at - since) * s
  <2>7. x \in Int /\ y \in Int /\ x <= y /\ taken + bucket.tokens <= x
    BY <2>5, <2>6
  <2> HIDE DEF x, y
  <2>8. taken + bucket.tokens <= y
    BY <2>3, <2>4, <2>7
  <2> QED BY <2>8 DEF y, L, s, at, since, taken
<1> QED BY <1>1, <1>3, <1>4 DEF TokensAccountedFor, Allowance

BucketInvariant == BucketTyped /\ TokensAccountedFor /\ BurstsAreBounded

\* The bound on every stretch of charges goes on holding when the last charge is made,
\* and when a configuration becomes more generous.
LEMMA BucketNextKeeps ==
    ASSUME BucketInvariant, BucketNext
    PROVE  BucketInvariant'
<1>0. /\ BucketTyped /\ TokensAccountedFor /\ BurstsAreBounded
      /\ BucketMax \in Nat /\ Charges \subseteq Nat /\ Capacities \cup RefillRates \subseteq Nat
  BY BucketAssumption DEF BucketInvariant
<1>1. CASE \E capacity \in Capacities, rate \in RefillRates : SetConfig(capacity, rate)
  <2>1. PICK capacity \in Capacities, rate \in RefillRates : SetConfig(capacity, rate)
    BY <1>1
  <2>2. BucketTyped' /\ TokensAccountedFor'
    BY <1>0, <2>1, ConfigKeepsAccount
  <2>3. charged' = charged
        /\ generous' = [capacity |-> Larger(generous.capacity, capacity),
                        refill_rate |-> Larger(generous.refill_rate, rate)]
    BY <2>1 DEF SetConfig
  <2>4. ASSUME NEW i \in DOMAIN charged, NEW j \in DOMAIN charged, i <= j
        PROVE  ConsumedIn(charged, i, j)
                 <= generous'.capacity + (charged[j].ledger - charged[i].ledger) * generous'.refill_rate
    <3> DEFINE K == generous.capacity
               r == generous.refill_rate
               L == generous'.capacity
               s == generous'.refill_rate
               at == charged[j].ledger
               since == charged[i].ledger
               taken == ConsumedIn(charged, i, j)
    <3>1. K \in Nat /\ r \in Nat /\ L \in Nat /\ s \in Nat /\ K <= L /\ r <= s
      BY <1>0, <2>3 DEF BucketTyped, Larger
    <3>2. charged \in Seq(Charge) /\ charged[i] \in Charge /\ charged[j] \in Charge
      BY <1>0, <2>4 DEF BucketTyped
    <3>3. at \in Nat /\ since \in Nat /\ since <= at /\ taken \in Nat
      BY <1>0, <2>4, <3>2 DEF TokensAccountedFor, Charge
    <3>4. taken <= K + (at - since) * r
      BY <1>0, <2>4 DEF BurstsAreBounded, Consumed, ConsumedIn
    <3> HIDE DEF K, r, L, s, at, since, taken
    <3>5. /\ K + (at - since) * r \in Int /\ L + (at - since) * s \in Int
          /\ K + (at - since) * r <= L + (at - since) * s
      BY <3>1, <3>3, MoreIsAllowed
    <3> DEFINE x == K + (at - since) * r
               y == L + (at - since) * s
    <3>6. x \in Int /\ y \in Int /\ x <= y /\ taken <= x
      BY <3>4, <3>5
    <3> HIDE DEF x, y
    <3>7. taken <= y
      BY <3>3, <3>6
    <3> QED BY <3>7 DEF y, L, s, at, since, taken
  <2>5. BurstsAreBounded'
    BY <2>3, <2>4 DEF BurstsAreBounded, Consumed, ConsumedIn
  <2> QED BY <2>2, <2>5 DEF BucketInvariant
<1>2. ASSUME NEW amount \in Charges, ConsumeTokens(amount) PROVE BucketInvariant'
  <2>1. BucketTyped' /\ TokensAccountedFor'
    BY <1>0, <1>2, ConsumeKeepsAccount
  <2> DEFINE n == Len(charged)
             c == charged
             d == charged'
  <2>2. /\ d = Append(charged, [ledger |-> ledger, amount |-> amount])
        /\ bucket' = [tokens |-> Available - amount, last_updated_ledger |-> ledger]
        /\ generous' = generous /\ limit # Unlimited /\ amount <= Available
    BY <1>2 DEF ConsumeTokens
  <2>3. c \in Seq(Charge) /\ n \in Nat /\ DOMAIN c = 1..n
    BY <1>0 DEF BucketTyped
  <2>4. /\ Len(d) = n + 1 /\ DOMAIN d = 1..n + 1 /\ \A i \in 1..n : d[i] = c[i]
        /\ d[n + 1].ledger = ledger
    BY <2>2, <2>3
  <2>5. ASSUME NEW i \in 1..n + 1, NEW j \in 1..n + 1, i <= j
        PROVE  ConsumedIn(d, i, j)
                 <= generous.capacity + (d[j].ledger - d[i].ledger) * generous.refill_rate
    <3>1. CASE j \in 1..n
      <4>1. i \in 1..n /\ i \in Int /\ j \in Int /\ i - 1 <= j /\ \A k \in i..j : d[k] = c[k]
        BY <2>3, <2>4, <2>5, <3>1
      <4>2. ConsumedIn(d, i, j) = ConsumedIn(c, i, j)
        <5> HIDE DEF c, d
        <5> QED BY <4>1, ConsumedSame
      <4>3. ConsumedIn(c, i, j)
              <= generous.capacity + (c[j].ledger - c[i].ledger) * generous.refill_rate
        BY <1>0, <2>3, <2>5, <3>1, <4>1 DEF BurstsAreBounded, Consumed, ConsumedIn
      <4> QED BY <2>4, <3>1, <4>1, <4>2, <4>3
    <3>2. CASE j = n + 1
      <4> DEFINE z == generous.capacity + (ledger - d[i].ledger) * generous.refill_rate
                 taken == ConsumedIn(d, i, n + 1)
                 left == bucket'.tokens
      <4>1. taken + left <= z
        BY <2>1, <2>2, <2>4 DEF TokensAccountedFor, Allowance
      <4>2. taken \in Nat
        BY <2>1, <2>4, <2>5, <3>2 DEF TokensAccountedFor
      <4>3. left \in Nat
        <5>1. Available \in Int
          BY <1>0, <2>2, RefillIsModest
        <5> QED BY <1>0, <2>2, <5>1
      <4>4. z \in Int
        <5>1. d[i].ledger \in Nat /\ ledger \in Nat
          <6>1. d \in Seq(Charge) /\ i \in DOMAIN d
            BY <2>1, <2>4 DEF BucketTyped
          <6>2. d[i] \in Charge
            BY <6>1
          <6> QED BY <6>2, <1>0 DEF BucketTyped, Charge
        <5>2. generous.capacity \in Nat /\ generous.refill_rate \in Nat
          BY <1>0 DEF BucketTyped
        <5> QED BY <5>1, <5>2, SpansAdd
      <4>5. d[j].ledger = ledger
        BY <2>4, <3>2
      <4> HIDE DEF z, taken, left
      <4>6. taken <= z
        BY <4>1, <4>2, <4>3, <4>4
      <4> QED BY <3>2, <4>5, <4>6 DEF z, taken
    <3> QED BY <2>3, <2>5, <3>1, <3>2
  <2>6. BurstsAreBounded'
    BY <2>2, <2>4, <2>5 DEF BurstsAreBounded, Consumed, ConsumedIn
  <2> QED BY <2>1, <2>6 DEF BucketInvariant
<1>3. CASE LedgerCloses
  <2>1. ledger' = ledger + 1 /\ limit' = limit /\ bucket' = bucket /\ charged' = charged
        /\ generous' = generous
    BY <1>3 DEF LedgerCloses
  <2>2. BucketTyped'
    <3>1. ASSUME NEW i \in DOMAIN charged PROVE charged[i].ledger \in Nat
      <4>1. charged[i] \in Charge
        BY <1>0, <3>1 DEF BucketTyped
      <4> QED BY <4>1 DEF Charge
    <3> QED BY <1>0, <2>1, <3>1 DEF BucketTyped
  <2>3. TokensAccountedFor' /\ BurstsAreBounded'
    BY <1>0, <2>1 DEF TokensAccountedFor, Allowance, BurstsAreBounded, Consumed, ConsumedIn
  <2> QED BY <2>2, <2>3 DEF BucketInvariant
<1> QED BY <1>1, <1>2, <1>3 DEF BucketNext

\* Between any two charges no more goes through than a full bucket and the refill of the
\* ledgers in between, by the most generous configuration there has been: for every
\* sequence of configurations, charges and ledgers (consume_tokens, set_config).
THEOREM BurstsStayBounded == BucketInit /\ [][BucketNext]_bucketVars => []BurstsAreBounded
<1>1. BucketInit => BucketInvariant
  BY DEF BucketInit, BucketInvariant, BucketTyped, TokensAccountedFor, BurstsAreBounded
<1>2. BucketInvariant /\ [BucketNext]_bucketVars => BucketInvariant'
  <2>1. ASSUME BucketInvariant, UNCHANGED bucketVars PROVE BucketInvariant'
    <3>1. /\ limit' = limit /\ bucket' = bucket /\ ledger' = ledger /\ charged' = charged
          /\ generous' = generous
      BY <2>1 DEF bucketVars
    <3>2. BucketTyped'
      BY <2>1, <3>1 DEF BucketInvariant, BucketTyped
    <3>3. TokensAccountedFor' /\ BurstsAreBounded'
      BY <2>1, <3>1 DEF BucketInvariant, TokensAccountedFor, Allowance, BurstsAreBounded,
                        Consumed, ConsumedIn
    <3> QED BY <3>2, <3>3 DEF BucketInvariant
  <2> QED BY <2>1, BucketNextKeeps
<1>3. BucketInvariant => BurstsAreBounded
  BY DEF BucketInvariant
<1> QED BY <1>1, <1>2, <1>3, PTL

-----------------------------------------------------------------------------
(* The difference of two snapshots.                                        *)

\* A set of keys has a least.
LEMMA LeastIsLeast ==
    ASSUME NEW keys \in SUBSET Nat, keys # {}
    PROVE  Least(keys) \in keys /\ \A k \in keys : Least(keys) <= k
<1>1. \E m \in keys : \A k \in keys : m <= k
  BY NatMin
<1> QED BY <1>1 DEF Least

\* Of a repeated key there is a last entry, and it is the one that counts.
LEMMA LastCounts ==
    ASSUME NEW s \in Snapshots, NEW key \in KeysOf(s)
    PROVE  \E i \in DOMAIN s :
             /\ s[i].key = key /\ s[i] = Entry(key, ValueOf(s, key))
             /\ \A j \in DOMAIN s : s[j].key = key => j <= i
<1>1. PICK n \in 0..MaxEntries : s \in [1..n -> [key : Keys, value : Values]]
  BY DEF Snapshots
<1> DEFINE at == {i \in DOMAIN s : s[i].key = key}
           from == {n - i : i \in at}
<1>2. n \in Nat /\ DOMAIN s = 1..n
  BY <1>1, DiffAssumption
<1>3. at # {} /\ at \subseteq 1..n
  BY <1>2 DEF KeysOf
<1>4. from \in SUBSET Nat /\ from # {}
  BY <1>2, <1>3
<1>5. Min(from) \in from /\ \A x \in from : Min(from) <= x
  BY <1>4, NatMin
<1>6. PICK last \in at : Min(from) = n - last
  BY <1>5
<1>7. \A j \in at : j <= last
  <2>1. ASSUME NEW j \in at PROVE j <= last
    <3>1. n - last <= n - j
      BY <1>5, <1>6
    <3> QED BY <1>2, <1>3, <3>1
  <2> QED BY <2>1
<1> DEFINE IsLast(i) == s[i].key = key /\ \A j \in DOMAIN s : s[j].key = key => j <= i
           c == CHOOSE i \in DOMAIN s : IsLast(i)
<1>8. last \in DOMAIN s /\ IsLast(last)
  BY <1>7
<1>9. c \in DOMAIN s /\ IsLast(c)
  <2> HIDE DEF IsLast
  <2> QED BY <1>8
<1>10. ValueOf(s, key) = s[c].value
  BY DEF ValueOf
<1>11. s[c] \in [key : Keys, value : Values]
  BY <1>1, <1>2, <1>9
<1>12. s[c] = [key |-> s[c].key, value |-> s[c].value]
  BY <1>11
<1>13. s[c] = Entry(key, ValueOf(s, key))
  BY <1>9, <1>10, <1>12 DEF Entry
<1> HIDE DEF c
<1> QED BY <1>9, <1>13

\* The entries that count, one for each key.
LEMMA MapHasKeys ==
    ASSUME NEW s \in Snapshots
    PROVE  AsMap(s) = {Entry(k, ValueOf(s, k)) : k \in KeysOf(s)}
<1> DEFINE Final(n) == \A m \in DOMAIN s : m > n => s[m].key # s[n].key
<1>1. PICK n \in 0..MaxEntries : s \in [1..n -> [key : Keys, value : Values]]
  BY DEF Snapshots
<1>2. n \in Nat /\ DOMAIN s = 1..n
  BY <1>1, DiffAssumption
<1>3. ASSUME NEW i \in DOMAIN s, Final(i)
      PROVE  s[i].key \in KeysOf(s) /\ s[i] = Entry(s[i].key, ValueOf(s, s[i].key))
  <2>1. s[i].key \in KeysOf(s)
    BY DEF KeysOf
  <2>2. PICK j \in DOMAIN s :
          /\ s[j].key = s[i].key /\ s[j] = Entry(s[i].key, ValueOf(s, s[i].key))
          /\ \A m \in DOMAIN s : s[m].key = s[i].key => m <= j
    BY <2>1, LastCounts
  <2>3. i <= j /\ ~(j > i)
    BY <1>3, <2>2
  <2>4. i = j
    BY <1>2, <2>3
  <2> QED BY <2>1, <2>2, <2>4
<1>4. ASSUME NEW k \in KeysOf(s)
      PROVE  \E i \in DOMAIN s : Final(i) /\ s[i] = Entry(k, ValueOf(s, k))
  <2>1. PICK i \in DOMAIN s : /\ s[i].key = k /\ s[i] = Entry(k, ValueOf(s, k))
                              /\ \A j \in DOMAIN s : s[j].key = k => j <= i
    BY LastCounts
  <2>2. Final(i)
    BY <1>2, <2>1
  <2> QED BY <2>1, <2>2
<1>5. AsMap(s) = {s[i] : i \in {m \in DOMAIN s : Final(m)}}
  BY DEF AsMap
<1> HIDE DEF Final
<1> QED BY <1>3, <1>4, <1>5

PassedBefore == KeysOf(before) \ leftBefore
PassedAfter == KeysOf(after) \ leftAfter

\* What the pass has to have found so far.
Due ==
    {Removed(k) : k \in PassedBefore \ KeysOf(after)}
    \cup {Added(k) : k \in PassedAfter \ KeysOf(before)}
    \cup {Modified(k) : k \in {c \in PassedBefore \cap PassedAfter :
                                 ValueOf(before, c) # ValueOf(after, c)}}

Changes ==
    {Removed(k) : k \in KeysOf(before)} \cup {Added(k) : k \in KeysOf(after)}
    \cup {Modified(k) : k \in KeysOf(before)}

DiffInvariant ==
    /\ before \in Snapshots /\ after \in Snapshots
    /\ leftBefore \subseteq KeysOf(before) /\ leftAfter \subseteq KeysOf(after)
    /\ \A k \in PassedBefore \cup PassedAfter, l \in leftBefore \cup leftAfter : k < l
    /\ changes \in Seq(Changes)
    /\ {changes[i] : i \in DOMAIN changes} = Due
    /\ \A i, j \in DOMAIN changes : i < j => changes[i].key < changes[j].key

\* Keys of snapshots can be compared.
LEMMA KeysAreNumbers ==
    ASSUME NEW s \in Snapshots
    PROVE  KeysOf(s) \subseteq Nat
<1>1. PICK n \in 0..MaxEntries : s \in [1..n -> [key : Keys, value : Values]]
  BY DEF Snapshots
<1> QED BY <1>1, DiffAssumption DEF KeysOf

\* A change with a greater key than all before it goes to the end of the list.
LEMMA AppendSorted ==
    ASSUME NEW S, NEW list \in Seq(S), NEW x \in S,
           \A i, j \in DOMAIN list : i < j => list[i].key < list[j].key,
           \A i \in DOMAIN list : list[i].key < x.key
    PROVE  LET new == Append(list, x) IN
           /\ new \in Seq(S)
           /\ {new[i] : i \in DOMAIN new} = {list[i] : i \in DOMAIN list} \cup {x}
           /\ \A i, j \in DOMAIN new : i < j => new[i].key < new[j].key
<1> DEFINE new == Append(list, x)
           n == Len(list)
<1>1. /\ new \in Seq(S) /\ n \in Nat /\ DOMAIN list = 1..n /\ DOMAIN new = 1..n + 1
      /\ \A i \in 1..n : new[i] = list[i]
      /\ new[n + 1] = x
  OBVIOUS
<1> HIDE DEF new, n
<1>2. {new[i] : i \in DOMAIN new} = {list[i] : i \in DOMAIN list} \cup {x}
  <2>1. n + 1 \in 1..n + 1 /\ \A i \in 1..n + 1 : i \in 1..n \/ i = n + 1
    BY <1>1
  <2>2. \A i \in 1..n : i \in 1..n + 1
    BY <1>1
  <2> QED BY <1>1, <2>1, <2>2
<1>3. ASSUME NEW i \in DOMAIN new, NEW j \in DOMAIN new, i < j PROVE new[i].key < new[j].key
  BY <1>1, <1>3
<1> QED BY <1>1, <1>2, <1>3 DEF new

\* What was found so far has keys that the pass has left behind.
LEMMA DueIsPassed ==
    ASSUME DiffInvariant, NEW i \in DOMAIN changes
    PROVE  changes[i].key \in PassedBefore \cup PassedAfter
<1>1. changes[i] \in Due
  BY DEF DiffInvariant
<1> QED BY <1>1 DEF Due, Removed, Added, Modified

\* The least key that is left comes after all that have been passed.
LEMMA LeastIsNext ==
    ASSUME DiffInvariant
    PROVE  /\ leftBefore # {} =>
                /\ Least(leftBefore) \in leftBefore /\ Least(leftBefore) \in Nat
                /\ \A k \in leftBefore : k \in Nat /\ Least(leftBefore) <= k
           /\ leftAfter # {} =>
                /\ Least(leftAfter) \in leftAfter /\ Least(leftAfter) \in Nat
                /\ \A k \in leftAfter : k \in Nat /\ Least(leftAfter) <= k
<1>1. leftBefore \in SUBSET Nat /\ leftAfter \in SUBSET Nat
  BY KeysAreNumbers DEF DiffInvariant
<1> QED BY <1>1, LeastIsLeast

\* One step passes the key k, and finds the change x, or none.
Passes(k, x) ==
    /\ before' = before /\ after' = after
    /\ leftBefore' = leftBefore \ {k} /\ leftAfter' = leftAfter \ {k}
    /\ k \in leftBefore \cup leftAfter
    /\ \A l \in (leftBefore \cup leftAfter) \ {k} : k < l
    /\ \/ changes' = Append(changes, x) /\ x \in Changes /\ x.key = k /\ Due' = Due \cup {x}
       \/ changes' = changes /\ Due' = Due

\* Passing a key keeps what was found sorted and complete.
LEMMA PassingKeeps ==
    ASSUME DiffInvariant, NEW k, NEW x, Passes(k, x)
    PROVE  DiffInvariant'
<1>1. /\ before' = before /\ after' = after
      /\ leftBefore' = leftBefore \ {k} /\ leftAfter' = leftAfter \ {k}
      /\ k \in leftBefore \cup leftAfter
      /\ \A l \in (leftBefore \cup leftAfter) \ {k} : k < l
  BY DEF Passes
<1>2. KeysOf(before') = KeysOf(before) /\ KeysOf(after') = KeysOf(after) /\ Changes' = Changes
  BY <1>1 DEF Changes, Removed, Added, Modified
<1>3. /\ PassedBefore' \subseteq PassedBefore \cup {k}
      /\ PassedAfter' \subseteq PassedAfter \cup {k}
  BY <1>1, <1>2 DEF PassedBefore, PassedAfter
<1>4. \A m \in PassedBefore' \cup PassedAfter', l \in leftBefore' \cup leftAfter' : m < l
  BY <1>1, <1>3 DEF DiffInvariant
<1>5. /\ changes' \in Seq(Changes)
      /\ {changes'[i] : i \in DOMAIN changes'} = Due'
      /\ \A i, j \in DOMAIN changes' : i < j => changes'[i].key < changes'[j].key
  <2>1. CASE changes' = Append(changes, x) /\ x \in Changes /\ x.key = k /\ Due' = Due \cup {x}
    <3>1. \A i \in DOMAIN changes : changes[i].key < x.key
      BY <1>1, <2>1, DueIsPassed DEF DiffInvariant
    <3> DEFINE new == Append(changes, x)
    <3>2. changes \in Seq(Changes) /\ x \in Changes
          /\ \A i, j \in DOMAIN changes : i < j => changes[i].key < changes[j].key
      BY <2>1 DEF DiffInvariant
    <3>3. /\ new \in Seq(Changes)
          /\ {new[i] : i \in DOMAIN new} = {changes[i] : i \in DOMAIN changes} \cup {x}
          /\ \A i, j \in DOMAIN new : i < j => new[i].key < new[j].key
      BY <3>1, <3>2, AppendSorted
    <3> QED BY <2>1, <3>3 DEF DiffInvariant
  <2>2. CASE changes' = changes /\ Due' = Due
    BY <2>2 DEF DiffInvariant
  <2> QED BY <2>1, <2>2 DEF Passes
<1> QED BY <1>1, <1>2, <1>4, <1>5 DEF DiffInvariant

\* Each of the three steps passes the least key left, on the sides that have it.
LEMMA DiffNextPasses ==
    ASSUME DiffInvariant, DiffNext
    PROVE  \E k, x : Passes(k, x)
<1>0. /\ leftBefore \subseteq KeysOf(before) /\ leftAfter \subseteq KeysOf(after)
      /\ \A k \in PassedBefore \cup PassedAfter, l \in leftBefore \cup leftAfter : k < l
      /\ leftBefore \subseteq Nat /\ leftAfter \subseteq Nat
      /\ PassedBefore \subseteq Nat /\ PassedAfter \subseteq Nat
  BY KeysAreNumbers DEF DiffInvariant, PassedBefore, PassedAfter
<1>a. \A l \in leftBefore \cup leftAfter : l \notin PassedBefore /\ l \notin PassedAfter
  BY <1>0
<1>1. CASE PassRemoved
  <2> DEFINE k == Least(leftBefore)
             x == Removed(k)
  <2>1. /\ leftBefore # {} /\ (leftAfter # {} => k < Least(leftAfter))
        /\ changes' = Append(changes, x) /\ leftBefore' = leftBefore \ {k}
        /\ before' = before /\ after' = after /\ leftAfter' = leftAfter
    BY <1>1 DEF PassRemoved
  <2>2. k \in leftBefore /\ \A l \in leftBefore : k <= l
    BY <2>1, LeastIsNext
  <2>3. \A l \in leftAfter : k < l
    BY <1>0, <2>1, <2>2, LeastIsNext
  <2> HIDE DEF k
  <2>4. k \notin leftAfter /\ k \notin KeysOf(after)
    BY <1>0, <1>a, <2>2, <2>3 DEF PassedAfter
  <2>5. /\ PassedBefore' = PassedBefore \cup {k} /\ PassedAfter' = PassedAfter
        /\ k \notin PassedAfter
    BY <1>0, <1>a, <2>1, <2>2 DEF PassedBefore, PassedAfter
  <2>6. Due' = Due \cup {x}
    BY <2>1, <2>4, <2>5 DEF Due, Removed, Added, Modified
  <2>7. x \in Changes /\ x.key = k
    BY <1>0, <2>2 DEF Changes, Removed
  <2>8. leftAfter' = leftAfter \ {k} /\ \A l \in (leftBefore \cup leftAfter) \ {k} : k < l
    BY <1>0, <2>1, <2>2, <2>3, <2>4
  <2>9. Passes(k, x)
    BY <2>1, <2>2, <2>6, <2>7, <2>8 DEF Passes
  <2> QED BY <2>9
<1>2. CASE PassAdded
  <2> DEFINE k == Least(leftAfter)
             x == Added(k)
  <2>1. /\ leftAfter # {} /\ (leftBefore # {} => Least(leftBefore) > k)
        /\ changes' = Append(changes, x) /\ leftAfter' = leftAfter \ {k}
        /\ before' = before /\ after' = after /\ leftBefore' = leftBefore
    BY <1>2 DEF PassAdded
  <2>2. k \in leftAfter /\ \A l \in leftAfter : k <= l
    BY <2>1, LeastIsNext
  <2>3. \A l \in leftBefore : k < l
    BY <1>0, <2>1, <2>2, LeastIsNext
  <2> HIDE DEF k
  <2>4. k \notin leftBefore /\ k \notin KeysOf(before)
    BY <1>0, <1>a, <2>2, <2>3 DEF PassedBefore
  <2>5. /\ PassedAfter' = PassedAfter \cup {k} /\ PassedBefore' = PassedBefore
        /\ k \notin PassedBefore
    BY <1>0, <1>a, <2>1, <2>2 DEF PassedBefore, PassedAfter
  <2>6. Due' = Due \cup {x}
    BY <2>1, <2>4, <2>5 DEF Due, Removed, Added, Modified
  <2>7. x \in Changes /\ x.key = k
    BY <1>0, <2>2 DEF Changes, Added
  <2>8. leftBefore' = leftBefore \ {k} /\ \A l \in (leftBefore \cup leftAfter) \ {k} : k < l
    BY <1>0, <2>1, <2>2, <2>3, <2>4
  <2>9. Passes(k, x)
    BY <2>1, <2>2, <2>6, <2>7, <2>8 DEF Passes
  <2> QED BY <2>9
<1>3. CASE PassCommon
  <2> DEFINE k == Least(leftBefore)
             x == Modified(k)
  <2>1. /\ leftBefore # {} /\ leftAfter # {} /\ k = Least(leftAfter)
        /\ changes' = IF ValueOf(before, k) # ValueOf(after, k) THEN Append(changes, x) ELSE changes
        /\ leftBefore' = leftBefore \ {k} /\ leftAfter' = leftAfter \ {k}
        /\ before' = before /\ after' = after
    BY <1>3 DEF PassCommon
  <2>2. /\ k \in leftBefore /\ k \in leftAfter
        /\ \A l \in leftBefore \cup leftAfter : k <= l
    BY <2>1, LeastIsNext
  <2> HIDE DEF k
  <2>3. /\ PassedBefore' = PassedBefore \cup {k} /\ PassedAfter' = PassedAfter \cup {k}
        /\ k \in KeysOf(before) /\ k \in KeysOf(after)
        /\ k \notin PassedBefore /\ k \notin PassedAfter
    BY <1>0, <1>a, <2>1, <2>2 DEF PassedBefore, PassedAfter
  <2>4. Due' = IF ValueOf(before, k) # ValueOf(after, k) THEN Due \cup {x} ELSE Due
    BY <2>1, <2>3 DEF Due, Removed, Added, Modified
  <2>5. x \in Changes /\ x.key = k
    BY <2>3 DEF Changes, Modified
  <2>6. \A l \in (leftBefore \cup leftAfter) \ {k} : k < l
    BY <1>0, <2>2
  <2>7. Passes(k, x)
    BY <2>1, <2>2, <2>4, <2>5, <2>6 DEF Passes
  <2> QED BY <2>7
<1> QED BY <1>1, <1>2, <1>3 DEF DiffNext

\* With nothing left, what was found turns the one map into the other.
LEMMA NothingLeftIsExact ==
    ASSUME DiffInvariant, leftBefore = {}, leftAfter = {}
    PROVE  /\ Patched = AsMap(after)
           /\ \A i \in DOMAIN changes :
                Entry(changes[i].key, TRUE) \notin
                  {Entry(e.key, TRUE) : e \in AsMap(before) \cap AsMap(after)}
<1> DEFINE B == KeysOf(before)
           A == KeysOf(after)
           VB(k) == ValueOf(before, k)
           VA(k) == ValueOf(after, k)
           made == {changes[i] : i \in DOMAIN changes}
           differ == {k \in B \cap A : VB(k) # VA(k)}
<1>1. /\ AsMap(before) = {Entry(k, VB(k)) : k \in B}
      /\ AsMap(after) = {Entry(k, VA(k)) : k \in A}
  BY MapHasKeys DEF DiffInvariant
<1>2. made = {Removed(k) : k \in B \ A} \cup {Added(k) : k \in A \ B} \cup {Modified(k) : k \in differ}
  BY DEF DiffInvariant, Due, PassedBefore, PassedAfter
<1>3. /\ \A k : /\ Removed(k).kind = "Removed" /\ Removed(k).key = k /\ Removed(k).value = VB(k)
                /\ Added(k).kind = "Added" /\ Added(k).key = k /\ Added(k).value = VA(k)
                /\ Modified(k).kind = "Modified" /\ Modified(k).key = k
                /\ Modified(k).old_value = VB(k) /\ Modified(k).new_value = VA(k)
  BY DEF Removed, Added, Modified
<1>4. /\ {m \in made : m.kind = "Removed"} = {Removed(k) : k \in B \ A}
      /\ {m \in made : m.kind = "Added"} = {Added(k) : k \in A \ B}
      /\ {m \in made : m.kind = "Modified"} = {Modified(k) : k \in differ}
  <2> HIDE DEF made, A, B, differ, VA, VB
  <2>1. "Removed" # "Added" /\ "Removed" # "Modified" /\ "Added" # "Modified"
    OBVIOUS
  <2> QED BY <1>2, <1>3, <2>1
<1>5. \A k, v, l, w : Entry(k, v) = Entry(l, w) <=> k = l /\ v = w
  BY DEF Entry
<1>6. Patched = (AsMap(before) \ ({Entry(k, VB(k)) : k \in B \ A} \cup {Entry(k, VB(k)) : k \in differ}))
                  \cup ({Entry(k, VA(k)) : k \in A \ B} \cup {Entry(k, VA(k)) : k \in differ})
  <2> DEFINE R == {m \in made : m.kind = "Removed"}
             D == {m \in made : m.kind = "Added"}
             M == {m \in made : m.kind = "Modified"}
  <2>1. Patched = (AsMap(before) \ ({Entry(c.key, c.value) : c \in R}
                                      \cup {Entry(c.key, c.old_value) : c \in M}))
                    \cup ({Entry(c.key, c.value) : c \in D}
                            \cup {Entry(c.key, c.new_value) : c \in M})
    BY DEF Patched
  <2> HIDE DEF R, D, M, made, A, B, differ, VA, VB
  <2>2. {Entry(c.key, c.value) : c \in R} = {Entry(k, VB(k)) : k \in B \ A}
    BY <1>3, <1>4 DEF R
  <2>3. {Entry(c.key, c.value) : c \in D} = {Entry(k, VA(k)) : k \in A \ B}
    BY <1>3, <1>4 DEF D
  <2>4. {Entry(c.key, c.old_value) : c \in M} = {Entry(k, VB(k)) : k \in differ}
        /\ {Entry(c.key, c.new_value) : c \in M} = {Entry(k, VA(k)) : k \in differ}
    BY <1>3, <1>4 DEF M
  <2> QED BY <2>1, <2>2, <2>3, <2>4
<1>7. Patched = AsMap(after)
  <2> HIDE DEF made, A, B, VA, VB
  <2> QED BY <1>1, <1>5, <1>6
<1>8. ASSUME NEW i \in DOMAIN changes
      PROVE  Entry(changes[i].key, TRUE) \notin
               {Entry(e.key, TRUE) : e \in AsMap(before) \cap AsMap(after)}
  <2> SUFFICES ASSUME NEW e \in AsMap(before) \cap AsMap(after),
                      Entry(changes[i].key, TRUE) = Entry(e.key, TRUE)
               PROVE  FALSE
    OBVIOUS
  <2>1. changes[i] \in made
    OBVIOUS
  <2>2. \A k, v : Entry(k, v).key = k
    BY DEF Entry
  <2> HIDE DEF made, A, B, VA, VB
  <2>3. PICK k \in B : e = Entry(k, VB(k))
    BY <1>1
  <2>4. k \in A /\ VA(k) = VB(k)
    BY <1>1, <1>5, <2>3
  <2>5. changes[i].key = k
    <3>1. Entry(changes[i].key, TRUE).key = Entry(e.key, TRUE).key
      OBVIOUS
    <3>2. changes[i].key = e.key
      BY <2>2, <3>1
    <3> QED BY <2>2, <2>3, <3>2
  <2> QED BY <1>2, <1>3, <2>1, <2>3, <2>4, <2>5
<1> QED BY <1>7, <1>8

\* The finished list turns the one snapshot into the other, in the order of keys, and
\* names a key only when its value is not the same: for snapshots of every length, with
\* their entries in any order and with repeated keys (diff_snapshots).
THEOREM DiffStaysExact == DiffInit /\ [][DiffNext]_diffVars => []DiffIsExact
<1>1. DiffInit => DiffInvariant
  <2> SUFFICES ASSUME DiffInit PROVE DiffInvariant
    OBVIOUS
  <2>1. changes = <<>> /\ leftBefore = KeysOf(before) /\ leftAfter = KeysOf(after)
        /\ before \in Snapshots /\ after \in Snapshots
    BY DEF DiffInit
  <2>2. PassedBefore = {} /\ PassedAfter = {} /\ Due = {}
    BY <2>1 DEF PassedBefore, PassedAfter, Due
  <2> QED BY <2>1, <2>2 DEF DiffInvariant
<1>2. DiffInvariant /\ [DiffNext]_diffVars => DiffInvariant'
  <2>1. ASSUME DiffInvariant, UNCHANGED diffVars PROVE DiffInvariant'
    <3>1. /\ before' = before /\ after' = after /\ changes' = changes
          /\ leftBefore' = leftBefore /\ leftAfter' = leftAfter
      BY <2>1 DEF diffVars
    <3>2. /\ PassedBefore' = PassedBefore /\ PassedAfter' = PassedAfter
          /\ KeysOf(before)' = KeysOf(before) /\ KeysOf(after)' = KeysOf(after)
      BY <3>1 DEF PassedBefore, PassedAfter
    <3>3. Due' = Due /\ Changes' = Changes
      BY <3>1, <3>2 DEF Due, Changes, Removed, Added, Modified
    <3> QED BY <2>1, <3>1, <3>2, <3>3 DEF DiffInvariant
  <2> QED BY <2>1, DiffNextPasses, PassingKeeps
<1>3. DiffInvariant => DiffIsExact
  BY NothingLeftIsExact DEF DiffInvariant, DiffIsExact
<1> QED BY <1>1, <1>2, <1>3, PTL
=============================================================================
