----------------------- MODULE SettlementMoneyProofs ------------------------
(***************************************************************************)
(* Proofs about the settlement contract's money, for every set of          *)
(* developers and tokens, every amount, and batches of every length: what  *)
(* payouts take, from whom and within which limits, that debits match what *)
(* leaves the contract, and the books of an indexer that reads the events  *)
(* alone.  Each rests on the invariant Sound of SettlementProofs.          *)
(***************************************************************************)
EXTENDS SettlementProofs

-----------------------------------------------------------------------------
(* Payouts: the day's total, the cap, the window and the minimum.          *)

\* No day recorded is in the future, and the record of today is what was paid since
\* midnight.
TallyExact ==
    \A d \in Devs : daily[d].day <= Today /\ spent[d] = GetWithdrawalToday(d)

\* Days follow one another as time does.
LEMMA TodayAdvances ==
    ASSUME NEW m \in Nat, NEW n \in Nat, m <= n PROVE m \div DAY <= n \div DAY
<1> DEFINE q == m \div DAY
           r == n \div DAY
<1>1. DAY \in Nat /\ DAY > 0
  BY BoundAssumption
<1>2. /\ q \in Nat /\ DAY * q <= m
      /\ r \in Nat /\ n < DAY * r + DAY
  BY <1>1
<1> HIDE DEF q, r
<1>3. ASSUME r < q PROVE FALSE
  <2>1. q - r - 1 \in Nat
    BY <1>2, <1>3
  <2>2. DAY * (q - r - 1) >= 0
    BY <1>1, <2>1
  <2>3. DAY * q = DAY * (q - r - 1) + DAY * r + DAY
    BY <1>1, <1>2
  <2>4. DAY * q \in Nat /\ DAY * r \in Nat /\ DAY * (q - r - 1) \in Nat
    BY <1>1, <1>2, <2>1
  <2> QED BY <1>1, <1>2, <2>2, <2>3, <2>4
<1>4. q <= r
  BY <1>2, <1>3
<1> QED BY <1>4 DEF q, r

\* What a purse owes a developer in all.
OwedBy(p, d) == Sum(p.balance[d], Tokens)

\* One payout of a batch lowers what its developer is owed by its amount.
LEMMA OwedByPaid ==
    ASSUME NEW p \in Purses, NEW w \in Withdrawals, Payable(p, w), RolesTyped, TimeTyped,
           NEW d \in Devs
    PROVE  /\ OwedBy(p, d) \in Nat
           /\ OwedBy(Paid(p, w), d) = IF d = w.developer THEN OwedBy(p, d) - w.amount
                                      ELSE OwedBy(p, d)
<1> DEFINE f == p.balance[d]
           g == Paid(p, w).balance[d]
<1>1. /\ usdcToken \in Tokens /\ w.amount \in Nat /\ w.developer \in Devs
      /\ \A t \in Tokens : g[t] = IF d = w.developer /\ t = usdcToken THEN f[t] - w.amount ELSE f[t]
  BY PaidPurse
<1>2. \A t \in Tokens : f[t] \in Nat
  BY BoundAssumption DEF Purses, Balances
<1>3. IsFiniteSet(Tokens)
  BY AddressAssumption
<1>4. OwedBy(p, d) = Sum(f, Tokens) /\ OwedBy(Paid(p, w), d) = Sum(g, Tokens)
  BY DEF OwedBy
<1> HIDE DEF f, g
<1>5. Sum(f, Tokens) \in Nat
  BY <1>2, <1>3, SumNat
<1>6. CASE d = w.developer
  <2>1. \A t \in Tokens : f[t] \in Int /\ g[t] \in Int
    BY <1>1, <1>2
  <2>2. \A t \in Tokens \ {usdcToken} : g[t] = f[t]
    BY <1>1
  <2>3. Sum(g, Tokens) = Sum(f, Tokens) + g[usdcToken] - f[usdcToken]
    BY <1>1, <1>3, <2>1, <2>2, SumUpdate
  <2>4. g[usdcToken] = f[usdcToken] - w.amount /\ f[usdcToken] \in Nat
    BY <1>1, <1>2, <1>6
  <2> QED BY <1>1, <1>4, <1>5, <1>6, <2>3, <2>4
<1>7. CASE d # w.developer
  <2>1. \A t \in Tokens : f[t] = g[t]
    BY <1>1, <1>7
  <2>2. Sum(f, Tokens) = Sum(g, Tokens)
    BY <1>3, <2>1, SumSame
  <2> QED BY <1>4, <1>5, <1>7, <2>2
<1> QED BY <1>6, <1>7

\* While a payout pays, item by item: the day's record grows by what is paid; whoever
\* was paid is within the cap in force, inside the window, and keeps the minimum.
WhilePaying(p, d) ==
    /\ p.daily[d].day <= Today
    /\ OwedBy(p, d) <= OwedBy(Purse, d)
    /\ WithdrawnToday(p, d) = Saturated(spent[d] + (OwedBy(Purse, d) - OwedBy(p, d)))
    /\ OwedBy(p, d) < OwedBy(Purse, d) =>
         /\ dailyCap[d] > 0 => WithdrawnToday(p, d) <= dailyCap[d]
         /\ WindowOpen(d)
         /\ minBalance[d] > 0 => p.balance[d][usdcToken] >= minBalance[d]

\* What holds in the middle of a batch holds after one more payout.
LEMMA PaidWhilePaying ==
    ASSUME Typed, NEW p \in Purses, NEW w \in Withdrawals, Payable(p, w), NEW d \in Devs,
           WhilePaying(p, d)
    PROVE  WhilePaying(Paid(p, w), d)
<1> DEFINE q == Paid(p, w)
<1>1. /\ q \in Purses
      /\ usdcToken \in Tokens /\ w.developer \in Devs /\ w.amount \in Nat \ {0}
      /\ \A t \in Tokens : q.balance[d][t] =
            IF d = w.developer /\ t = usdcToken THEN p.balance[d][t] - w.amount ELSE p.balance[d][t]
      /\ q.daily[d] = IF d = w.developer
                      THEN [day |-> Today, amount |-> Saturated(WithdrawnToday(p, d) + w.amount)]
                      ELSE p.daily[d]
  BY PaidPurse DEF Typed
<1>2. /\ OwedBy(p, d) \in Nat
      /\ OwedBy(q, d) = IF d = w.developer THEN OwedBy(p, d) - w.amount ELSE OwedBy(p, d)
  BY OwedByPaid DEF Typed
<1>3. OwedBy(Purse, d) \in Nat /\ spent[d] \in Nat /\ Today \in Nat /\ I128Max \in Nat
  <2>1. OwedBy(Purse, d) = Owed(d)
    BY DEF OwedBy, Owed, Purse, Sum
  <2> QED BY <2>1, OwedIsSum, TodayIsNat, BoundAssumption DEF Typed, SpentTyped
<1>4. /\ WindowOpen(w.developer) /\ KeepsMinimum(p, w.developer, w.amount)
      /\ WithinCap(p, w.developer, w.amount)
  BY DEF Payable
<1> HIDE DEF q
<1>5. CASE d # w.developer
  <2>1. WithdrawnToday(q, d) = WithdrawnToday(p, d)
    BY <1>1, <1>5 DEF WithdrawnToday
  <2> QED BY <1>1, <1>2, <1>5, <2>1 DEF WhilePaying, q
<1>6. CASE d = w.developer
  <2>1. q.daily[d].day = Today
        /\ WithdrawnToday(q, d) = Saturated(WithdrawnToday(p, d) + w.amount)
    BY <1>1, <1>6 DEF WithdrawnToday
  <2>2. /\ WithdrawnToday(p, d) \in Nat
        /\ WithdrawnToday(p, d) = Saturated(spent[d] + (OwedBy(Purse, d) - OwedBy(p, d)))
        /\ OwedBy(Purse, d) - OwedBy(p, d) \in Nat
    BY <1>2, <1>3 DEF WhilePaying, Saturated
  <2>3. /\ OwedBy(q, d) < OwedBy(Purse, d)
        /\ OwedBy(Purse, d) - OwedBy(q, d) = (OwedBy(Purse, d) - OwedBy(p, d)) + w.amount
    BY <1>1, <1>2, <1>3, <1>6, <2>2
  <2>4. WithdrawnToday(q, d) = Saturated(spent[d] + (OwedBy(Purse, d) - OwedBy(q, d)))
    BY <1>1, <1>3, <2>1, <2>2, <2>3 DEF Saturated
  <2>5. dailyCap[d] > 0 => WithdrawnToday(q, d) <= dailyCap[d]
    <3>1. dailyCap[d] \in Int
      BY DEF Typed, LimitsTyped
    <3> QED BY <1>1, <1>3, <1>4, <1>6, <2>1, <2>2, <3>1 DEF WithinCap, Saturated
  <2>6. minBalance[d] > 0 => q.balance[d][usdcToken] >= minBalance[d]
    BY <1>1, <1>4, <1>6 DEF KeepsMinimum
  <2>7. q.daily[d].day <= Today /\ OwedBy(q, d) <= OwedBy(Purse, d)
    BY <1>1, <1>2, <1>3, <1>6, <2>1, <2>3
  <2>8. WindowOpen(d)
    BY <1>4, <1>6
  <2>9. WhilePaying(q, d)
    BY <2>4, <2>5, <2>6, <2>7, <2>8 DEF WhilePaying
  <2> QED BY <2>9 DEF q
<1> QED BY <1>5, <1>6

\* What a payout of any kind comes to.
LEMMA PayoutWhilePaying ==
    ASSUME Typed, TallyExact, PayoutStep, NEW d \in Devs
    PROVE  WhilePaying(Purse', d)
<1> DEFINE S == {p \in Purses : WhilePaying(p, d)}
<1>1. Purse \in S
  <2>1. Purse \in Purses
    BY DEF Typed, PursesTyped, Purse, Purses
  <2>2. OwedBy(Purse, d) \in Nat
    <3>1. OwedBy(Purse, d) = Owed(d)
      BY DEF OwedBy, Owed, Purse, Sum
    <3> QED BY <3>1, OwedIsSum DEF Typed
  <2>3. spent[d] \in 0..I128Max /\ I128Max \in Nat
    BY BoundAssumption DEF Typed, SpentTyped
  <2>4. WithdrawnToday(Purse, d) = spent[d] /\ Purse.daily[d].day <= Today
    BY DEF TallyExact, GetWithdrawalToday, Purse
  <2> QED BY <2>1, <2>2, <2>3, <2>4 DEF WhilePaying, Saturated
<1>2. \A p \in S, w \in Withdrawals : Payable(p, w) => Paid(p, w) \in S
  BY PaidWhilePaying, PaidPurse DEF Typed
<1>3. S \in SUBSET Purses
  OBVIOUS
<1> HIDE DEF S
<1>4. Purse' \in S
  BY <1>1, <1>2, <1>3, PayoutInduction DEF Typed
<1> QED BY <1>4 DEF S

\* A payout, batches included, writes what it pays into the daily records, within the limits.
LEMMA PayoutSpends ==
    ASSUME Typed, TallyExact, HPayout, NEW d \in Devs
    PROVE  /\ UNCHANGED <<now, usdcToken, claimWindow, minBalance, dailyCap>>
           /\ daily'[d].day <= Today
           /\ spent'[d] = GetWithdrawalToday(d)'
           /\ spent'[d] > spent[d] =>
                /\ dailyCap[d] > 0 => spent'[d] <= dailyCap[d]
                /\ WindowOpen(d)
                /\ minBalance[d] > 0 => balance'[d][usdcToken] >= minBalance[d]
<1>1. PayoutStep /\ spent' = [e \in Devs |-> Saturated(spent[e] + Owed(e) - Owed(e)')]
  BY DEF HPayout
<1>2. UNCHANGED <<now, usdcToken, claimWindow, minBalance, dailyCap>>
  BY <1>1 DEF PayoutStep, Withdraw, BatchSettle, Spend, setup, limits
<1>3. WhilePaying(Purse', d)
  BY <1>1, PayoutWhilePaying
<1>4. /\ Owed(d) \in Nat /\ Owed(d)' \in Nat
      /\ OwedBy(Purse, d) = Owed(d) /\ OwedBy(Purse', d) = Owed(d)'
  <2>1. Owed(d) \in Nat /\ Owed(d)' \in Nat
    BY <1>1, PayoutLowersOwed DEF Typed
  <2>2. OwedBy(Purse, d) = Owed(d) /\ OwedBy(Purse', d) = Owed(d)'
    BY DEF OwedBy, Owed, Purse, Sum
  <2> QED BY <2>1, <2>2
<1>5. WithdrawnToday(Purse', d) = GetWithdrawalToday(d)' /\ Purse'.daily[d].day = daily'[d].day
      /\ Purse'.balance[d] = balance'[d]
  BY <1>2 DEF GetWithdrawalToday, WithdrawnToday, Purse, Today
<1>6. spent[d] \in 0..I128Max /\ I128Max \in Nat
  BY BoundAssumption DEF Typed, SpentTyped
<1>7. spent'[d] = Saturated(spent[d] + Owed(d) - Owed(d)')
  BY <1>1
<1> HIDE DEF Owed
<1>8. spent'[d] = GetWithdrawalToday(d)'
  <2>1. spent[d] + Owed(d) - Owed(d)' = spent[d] + (Owed(d) - Owed(d)')
    BY <1>4, <1>6
  <2> QED BY <1>3, <1>4, <1>5, <1>7, <2>1 DEF WhilePaying
<1>9. ASSUME spent'[d] > spent[d] PROVE Owed(d)' < Owed(d)
  BY <1>4, <1>6, <1>7, <1>9 DEF Saturated
<1>10. daily'[d].day <= Today
  BY <1>3, <1>5 DEF WhilePaying
<1> QED BY <1>2, <1>3, <1>4, <1>5, <1>8, <1>9, <1>10 DEF WhilePaying

\* Every step keeps the tally exact; the first of a day starts it again.
LEMMA StepKeepsTally ==
    ASSUME Sound, Sound', TallyExact, [HNext]_hvars PROVE TallyExact'
<1>0. Typed /\ Typed'
  BY DEF Sound
<1>1. ASSUME UNCHANGED <<daily, spent, now>> PROVE TallyExact'
  BY <1>1 DEF TallyExact, GetWithdrawalToday, WithdrawnToday, Purse, Today
<1>2. CASE HPayout
  <2>1. ASSUME NEW d \in Devs PROVE daily'[d].day <= Today' /\ spent'[d] = GetWithdrawalToday(d)'
    BY <1>0, <1>2, PayoutSpends DEF Today
  <2> QED BY <2>1 DEF TallyExact
<1>3. CASE HOutside
  <2>1. /\ now \in Nat /\ now' \in Nat /\ now <= now' /\ UNCHANGED daily
        /\ Today \in Nat /\ Today' \in Nat
    <3>1. now \in Nat /\ Today \in Nat /\ now' \in Nat /\ Today' \in Nat
      <4>1. now \in Nat /\ now' \in Nat
        BY <1>0, BoundAssumption DEF Typed, TimeTyped
      <4>2. now \div DAY \in Nat /\ now' \div DAY \in Nat
        <5>1. \A n \in Nat : n \div DAY \in Nat
          BY BoundAssumption
        <5> QED BY <4>1, <5>1
      <4> QED BY <4>1, <4>2 DEF Today
    <3> QED BY <1>3, <3>1 DEF HOutside, OutsideStep, TokensArrive, Tick, payouts
  <2>2. Today <= Today'
    BY <2>1, TodayAdvances DEF Today
  <2>3. spent' = IF Today' = Today THEN spent ELSE [d \in Devs |-> 0]
    BY <1>3 DEF HOutside
  <2>4. ASSUME NEW d \in Devs PROVE daily'[d].day <= Today' /\ spent'[d] = GetWithdrawalToday(d)'
    <3>1. daily[d].day \in Nat /\ daily[d].day <= Today
          /\ spent[d] = IF daily[d].day = Today THEN daily[d].amount ELSE 0
      BY <1>0 DEF Typed, PursesTyped, Tallies, TallyExact, GetWithdrawalToday, WithdrawnToday, Purse
    <3>2. GetWithdrawalToday(d)' = IF daily'[d].day = Today' THEN daily'[d].amount ELSE 0
      BY DEF GetWithdrawalToday, WithdrawnToday, Purse
    <3> HIDE DEF Today
    <3> QED BY <2>1, <2>2, <2>3, <3>1, <3>2
  <2> QED BY <2>4 DEF TallyExact
<1>4. CASE HReceive \/ HBatchReceive
  <2>1. PaymentStep /\ UNCHANGED spent
    BY <1>4 DEF HReceive, HBatchReceive, PaymentStep, Credit
  <2> QED BY <1>1, <2>1 DEF PaymentStep, ReceiveForDeveloper, BatchReceive, payouts
<1>5. CASE HPropose \/ HExecute
  BY <1>1, <1>5 DEF HPropose, HExecute, ProposeMigration, ExecuteMigration, payouts
<1>6. CASE HOther
  BY <1>1, <1>6
  DEF HOther, history, SetupStep, InitSettlement, SetUsdcToken, Upgrade, SetAdmin, ProposeVault,
      CancelAdminTransfer, Broadcast, AcceptVault, AcceptAdmin, rest, LimitStep, SetClaimWindow,
      ClearClaimWindow, SetDailyCap, SetMinBalance, PoolStep, ReceiveForPool, ForceCreditStep,
      ForceCredit, payouts
<1>7. CASE UNCHANGED hvars
  BY <1>1, <1>7 DEF hvars, vars, history, payouts
<1> QED BY <1>2, <1>3, <1>4, <1>5, <1>6, <1>7 DEF HNext

\* Nothing was paid before the first payout.
LEMMA HInitTally == ASSUME HInit PROVE TallyExact
<1>1. Sound /\ now = 0 /\ daily = [d \in Devs |-> [day |-> 0, amount |-> 0]]
      /\ spent = [d \in Devs |-> 0]
  BY HInitSound DEF HInit, Init
<1>2. Today \in Nat
  BY <1>1, TodayIsNat DEF Sound, Typed
<1> QED BY <1>1, <1>2 DEF TallyExact, GetWithdrawalToday, WithdrawnToday, Purse

\* What get_withdrawal_today answers is what the developer was paid since midnight: for
\* every length of the day, and whatever the batches skip or repeat.
THEOREM TallyIsExact == HSpec => []DailyTally
<1>1. TallyExact => DailyTally
  BY DEF TallyExact, DailyTally
<1> QED BY <1>1, HInitSound, StepSound, HInitTally, StepKeepsTally, PTL DEF HSpec

\* Only payouts, and midnight, change what a developer was paid today.
LEMMA OnlyPayoutsSpend ==
    ASSUME Sound, [HNext]_hvars, NEW d \in Devs, spent'[d] > spent[d] PROVE HPayout
<1>1. spent[d] \in Nat
  BY BoundAssumption DEF Sound, Typed, SpentTyped
<1>2. ASSUME spent'[d] \in {spent[d], 0} PROVE FALSE
  BY <1>1, <1>2
<1>3. CASE HOutside
  BY <1>2, <1>3 DEF HOutside
<1>4. CASE HReceive \/ HBatchReceive
  BY <1>2, <1>4 DEF HReceive, HBatchReceive, Credit
<1>5. CASE HPropose \/ HExecute
  BY <1>2, <1>5 DEF HPropose, HExecute
<1>6. CASE HOther \/ UNCHANGED hvars
  BY <1>2, <1>6 DEF HOther, hvars, history
<1> QED BY <1>3, <1>4, <1>5, <1>6 DEF HNext

\* No payout takes what a developer was paid since midnight past the cap in force, in one
\* call, in several, or in several items of a batch.
THEOREM CapIsHeld == HSpec => DailyCapHeld
<1>1. Sound /\ TallyExact /\ [HNext]_hvars =>
        [\A d \in Devs :
           (spent'[d] > spent[d] /\ dailyCap[d] > 0) => spent'[d] <= dailyCap[d]]_hvars
  BY OnlyPayoutsSpend, PayoutSpends DEF Sound
<1> QED
  BY <1>1, HInitSound, StepSound, HInitTally, StepKeepsTally, PTL DEF HSpec, DailyCapHeld

\* Whoever is paid is paid inside the claim window, and keeps the minimum balance.
THEOREM LimitsAreKept == HSpec => PayoutsKeepLimits
<1>1. ASSUME Sound, TallyExact, [HNext]_hvars, NEW d \in Devs, spent'[d] > spent[d]
      PROVE  /\ claimWindow[d] # None =>
                  now \in claimWindow[d].start_ts .. claimWindow[d].end_ts
             /\ minBalance[d] > 0 => balance'[d][usdcToken] >= minBalance[d]
  <2>1. WindowOpen(d) /\ (minBalance[d] > 0 => balance'[d][usdcToken] >= minBalance[d])
    BY <1>1, OnlyPayoutsSpend, PayoutSpends DEF Sound
  <2>2. now \in Nat /\ claimWindow[d] \in ClaimWindows \cup {None}
    BY <1>1, TodayIsNat DEF Sound, Typed, LimitsTyped
  <2> QED BY <2>1, <2>2 DEF WindowOpen, ClaimWindows
<1>2. Sound /\ TallyExact /\ [HNext]_hvars =>
        [\A d \in Devs : (spent'[d] > spent[d]) =>
           /\ claimWindow[d] # None =>
                now \in claimWindow[d].start_ts .. claimWindow[d].end_ts
           /\ minBalance[d] > 0 => balance'[d][usdcToken] >= minBalance[d]]_hvars
  BY <1>1
<1> QED
  BY <1>2, HInitSound, StepSound, HInitTally, StepKeepsTally, PTL DEF HSpec, PayoutsKeepLimits

-----------------------------------------------------------------------------
(* What the contract owes, and what it holds.                              *)

\* What a purse owes in one token.
OwedOf(p, t) == Sum([d \in Devs |-> p.balance[d][t]], Devs)

\* One payout of a batch lowers what is owed and what is held alike.
LEMMA OwedOfPaid ==
    ASSUME NEW p \in Purses, NEW w \in Withdrawals, Payable(p, w), RolesTyped, TimeTyped,
           NEW t \in Tokens
    PROVE  /\ OwedOf(p, t) \in Int
           /\ OwedOf(Paid(p, w), t) - Paid(p, w).held[t] = OwedOf(p, t) - p.held[t]
<1> DEFINE q == Paid(p, w)
           f == [d \in Devs |-> p.balance[d][t]]
           g == [d \in Devs |-> q.balance[d][t]]
<1>1. /\ usdcToken \in Tokens /\ w.amount \in Nat /\ w.developer \in Devs /\ q \in Purses
      /\ \A d \in Devs : q.balance[d][t] = IF d = w.developer /\ t = usdcToken
                                           THEN p.balance[d][t] - w.amount ELSE p.balance[d][t]
      /\ q.held[t] = IF t = usdcToken THEN p.held[t] - w.amount ELSE p.held[t]
  BY PaidPurse
<1>2. /\ \A d \in Devs : p.balance[d][t] \in Int /\ q.balance[d][t] \in Int
      /\ p.held[t] \in Int /\ q.held[t] \in Int
  BY <1>1, BoundAssumption DEF Purses, Balances
<1>3. IsFiniteSet(Devs) /\ OwedOf(p, t) = Sum(f, Devs) /\ OwedOf(q, t) = Sum(g, Devs)
  BY AddressAssumption DEF OwedOf
<1>4. \A d \in Devs : f[d] = p.balance[d][t] /\ g[d] = q.balance[d][t]
  OBVIOUS
<1> HIDE DEF q, f, g
<1>5. Sum(f, Devs) \in Int
  BY <1>2, <1>3, <1>4, SumRemove
<1>6. CASE t = usdcToken
  <2>1. \A d \in Devs : f[d] \in Int /\ g[d] \in Int
    BY <1>2, <1>4
  <2>2. \A d \in Devs \ {w.developer} : g[d] = f[d]
    BY <1>1, <1>4
  <2>3. Sum(g, Devs) = Sum(f, Devs) + g[w.developer] - f[w.developer]
    BY <1>1, <1>3, <2>1, <2>2, SumUpdate
  <2>4. g[w.developer] = f[w.developer] - w.amount /\ f[w.developer] \in Int
    BY <1>1, <1>4, <1>6, <2>1
  <2>5. Sum(g, Devs) = Sum(f, Devs) - w.amount
    BY <1>1, <1>5, <2>3, <2>4
  <2> QED BY <1>1, <1>2, <1>3, <1>5, <1>6, <2>5 DEF q
<1>7. CASE t # usdcToken
  <2>1. \A d \in Devs : f[d] = g[d]
    BY <1>1, <1>4, <1>7
  <2>2. Sum(f, Devs) = Sum(g, Devs)
    BY <1>3, <2>1, SumSame
  <2> QED BY <1>1, <1>2, <1>3, <1>5, <1>7, <2>2 DEF q
<1> QED BY <1>6, <1>7

\* What is owed in one token is a sum, monotonic in the balances.
LEMMA OwedInIsSum ==
    ASSUME PursesTyped, PursesTyped', NEW t \in Tokens
    PROVE  /\ OwedIn(t) \in Int /\ OwedIn(t)' \in Int
           /\ held[t] \in Int /\ held'[t] \in Int
           /\ (\A d \in Devs : balance[d][t] <= balance'[d][t]) => OwedIn(t) <= OwedIn(t)'
<1> DEFINE f == [d \in Devs |-> balance[d][t]]
           g == [d \in Devs |-> balance'[d][t]]
<1>1. IsFiniteSet(Devs) /\ OwedIn(t) = Sum(f, Devs) /\ OwedIn(t)' = Sum(g, Devs)
  BY AddressAssumption DEF OwedIn, Sum
<1>2. /\ \A d \in Devs : f[d] = balance[d][t] /\ g[d] = balance'[d][t]
      /\ \A d \in Devs : balance[d][t] \in Int /\ balance'[d][t] \in Int
      /\ held[t] \in Int /\ held'[t] \in Int
  BY BoundAssumption DEF PursesTyped, Balances
<1> HIDE DEF f, g
<1>3. Sum(f, Devs) \in Int /\ Sum(g, Devs) \in Int
  BY <1>1, <1>2, SumRemove
<1>4. (\A d \in Devs : balance[d][t] <= balance'[d][t]) => Sum(f, Devs) <= Sum(g, Devs)
  BY <1>1, <1>2, SumMonotonic
<1> HIDE DEF OwedIn
<1> QED BY <1>1, <1>2, <1>3, <1>4

\* What a step takes from the claims of a token it takes from the tokens held.
Debited(t) ==
    (OwedIn(t)' < OwedIn(t) \/ held'[t] < held[t]) => OwedIn(t) - OwedIn(t)' = held[t] - held'[t]

\* Where nothing shrinks nothing has to be debited.
LEMMA GrowthIsDebited ==
    ASSUME PursesTyped, PursesTyped', NEW t \in Tokens,
           \A d \in Devs : balance[d][t] <= balance'[d][t], held[t] <= held'[t]
    PROVE  Debited(t)
<1>1. /\ OwedIn(t) \in Int /\ OwedIn(t)' \in Int /\ held[t] \in Int /\ held'[t] \in Int
      /\ OwedIn(t) <= OwedIn(t)'
  BY OwedInIsSum
<1> HIDE DEF OwedIn
<1> QED BY <1>1 DEF Debited

\* Payouts debit what they pay.
LEMMA PayoutsBalance ==
    ASSUME RolesTyped, TimeTyped, PursesTyped, PayoutStep, NEW t \in Tokens
    PROVE  OwedIn(t) - OwedIn(t)' = held[t] - held'[t]
<1> DEFINE S == {p \in Purses : /\ OwedOf(p, t) \in Int
                                /\ OwedOf(p, t) - p.held[t] = OwedOf(Purse, t) - held[t]}
<1>1. OwedOf(Purse, t) = OwedIn(t) /\ OwedOf(Purse', t) = OwedIn(t)'
      /\ Purse.held[t] = held[t] /\ Purse'.held[t] = held'[t]
  BY DEF OwedOf, OwedIn, Sum, Purse
<1>2. PursesTyped' /\ OwedIn(t) \in Int /\ OwedIn(t)' \in Int /\ held[t] \in Int /\ held'[t] \in Int
  BY PayoutTakes, OwedInIsSum
<1>3. Purse \in S
  BY <1>1, <1>2 DEF Purse, Purses, PursesTyped
<1>4. ASSUME NEW p \in S, NEW w \in Withdrawals, Payable(p, w) PROVE Paid(p, w) \in S
  <2>1. Paid(p, w) \in Purses
    BY <1>4, PaidPurse
  <2>2. OwedOf(Paid(p, w), t) \in Int
    <3> DEFINE g == [d \in Devs |-> Paid(p, w).balance[d][t]]
    <3>1. \A d \in Devs : g[d] \in Int
      BY <2>1, BoundAssumption DEF Purses, Balances
    <3>2. OwedOf(Paid(p, w), t) = Sum(g, Devs)
      BY DEF OwedOf
    <3> HIDE DEF g
    <3> QED BY <3>1, <3>2, AddressAssumption, SumRemove
  <2>3. OwedOf(Paid(p, w), t) - Paid(p, w).held[t] = OwedOf(p, t) - p.held[t]
    BY <1>4, OwedOfPaid
  <2> QED BY <2>1, <2>2, <2>3
<1>5. S \in SUBSET Purses
  OBVIOUS
<1> HIDE DEF S
<1>6. Purse' \in S
  BY <1>3, <1>4, <1>5, PayoutInduction
<1>7. OwedOf(Purse', t) - Purse'.held[t] = OwedOf(Purse, t) - held[t]
  BY <1>6 DEF S
<1> HIDE DEF OwedIn
<1> QED BY <1>1, <1>2, <1>7

LEMMA PayoutIsDebited ==
    ASSUME RolesTyped, TimeTyped, PursesTyped, PayoutStep, NEW t \in Tokens
    PROVE  Debited(t)
BY PayoutsBalance DEF Debited

\* A migration moves a claim and leaves the total alone.
LEMMA ExecutionIsDebited ==
    ASSUME RolesTyped, TotalsTyped, PursesTyped, MigrationsTyped, Indexed, ExecutionStep,
           NEW t \in Tokens
    PROVE  Debited(t)
<1>1. PICK c \in Principals, from \in Devs : ExecuteMigration(c, from)
  BY DEF ExecutionStep
<1> DEFINE to == migration[from].to
           n == migration[from].amount
           u == usdcToken
<1>2. /\ migration[from] # None /\ u \in Tokens
      /\ balance' = [balance EXCEPT ![from][u] = @ - n, ![to][u] = @ + n]
      /\ UNCHANGED <<daily, held>>
  BY <1>1 DEF ExecuteMigration, RolesTyped, payouts
<1>3. to \in Devs /\ n \in Int /\ to # from
  BY <1>2, BoundAssumption DEF MigrationsTyped, Proposals
<1>4. PursesTyped'
  BY <1>2, ExecutionKeeps DEF CreditsKept, PursesTyped
<1> HIDE DEF to, n, u
<1>5. \A d \in Devs : balance'[d][t] =
        IF t = u /\ d = from THEN balance[d][t] - n
        ELSE IF t = u /\ d = to THEN balance[d][t] + n ELSE balance[d][t]
  BY <1>2, <1>3 DEF PursesTyped, Balances
<1> DEFINE f == [d \in Devs |-> balance[d][t]]
           m == [d \in Devs |-> IF t = u /\ d = from THEN balance[d][t] - n ELSE balance[d][t]]
           g == [d \in Devs |-> balance'[d][t]]
<1>6. /\ \A d \in Devs : balance[d][t] \in Int /\ balance'[d][t] \in Int
      /\ OwedIn(t) \in Int /\ OwedIn(t)' \in Int
      /\ IsFiniteSet(Devs) /\ OwedIn(t) = Sum(f, Devs) /\ OwedIn(t)' = Sum(g, Devs)
  <2>1. \A d \in Devs : balance[d][t] \in Int /\ balance'[d][t] \in Int
    BY <1>4, BoundAssumption DEF PursesTyped, Balances
  <2>2. OwedIn(t) = Sum(f, Devs) /\ OwedIn(t)' = Sum(g, Devs)
    BY DEF OwedIn, Sum
  <2>3. OwedIn(t) \in Int /\ OwedIn(t)' \in Int
    BY <1>4, OwedInIsSum
  <2> QED BY <2>1, <2>2, <2>3, AddressAssumption
<1>7. \A d \in Devs : f[d] \in Int /\ m[d] \in Int /\ g[d] \in Int
  BY <1>3, <1>6
<1>8. /\ \A d \in Devs \ {from} : m[d] = f[d]
      /\ \A d \in Devs \ {to} : g[d] = m[d]
      /\ m[from] - f[from] = IF t = u THEN -n ELSE 0
      /\ g[to] - m[to] = IF t = u THEN n ELSE 0
  BY <1>3, <1>5, <1>6
<1> HIDE DEF f, m, g
<1>9. Sum(m, Devs) = Sum(f, Devs) + m[from] - f[from]
  BY <1>6, <1>7, <1>8, SumUpdate
<1>10. Sum(g, Devs) = Sum(m, Devs) + g[to] - m[to]
  BY <1>3, <1>6, <1>7, <1>8, SumUpdate
<1>11. Sum(f, Devs) \in Int /\ Sum(m, Devs) \in Int
  BY <1>6, <1>7, SumRemove
<1>12. Sum(g, Devs) = Sum(f, Devs)
  <2>1. /\ m[from] \in Int /\ f[from] \in Int /\ g[to] \in Int /\ m[to] \in Int
    BY <1>3, <1>7
  <2>2. (m[from] - f[from]) + (g[to] - m[to]) = 0
    BY <1>3, <1>8
  <2> QED BY <1>9, <1>10, <1>11, <2>1, <2>2
<1> HIDE DEF OwedIn
<1>13. OwedIn(t)' = OwedIn(t) /\ held'[t] = held[t] /\ held[t] \in Int
  BY <1>2, <1>6, <1>12 DEF PursesTyped
<1> QED BY <1>6, <1>13 DEF Debited

\* A credit takes nothing from anybody.
LEMMA CreditsRaise ==
    ASSUME TotalsTyped, PursesTyped, Indexed, PaymentStep \/ ForceCreditStep,
           NEW d \in Devs, NEW t \in Tokens
    PROVE  balance[d][t] <= balance'[d][t]
<1>0. \A e \in Devs, u \in Tokens : balance[e][u] \in Int
  BY BoundAssumption DEF PursesTyped, Balances
<1>1. ASSUME NEW n \in Amounts, n > 0, NEW e \in Devs, NEW u \in Tokens,
             balance' = [balance EXCEPT ![e][u] = @ + n]
      PROVE  balance[d][t] <= balance'[d][t]
  <2>1. n \in Int
    BY BoundAssumption
  <2>2. balance'[d][t] = IF d = e /\ t = u THEN balance[d][t] + n ELSE balance[d][t]
    BY <1>1 DEF PursesTyped, Balances
  <2> QED BY <1>0, <1>1, <2>1, <2>2
<1>2. ASSUME NEW c \in Principals, NEW items \in BatchItems, NEW u \in Tokens,
             NEW seq \in LedgerSeqs, BatchReceive(c, items, u, seq)
      PROVE  balance[d][t] <= balance'[d][t]
  <2>1. Len(items) \in 0..Len(items)
    BY BoundAssumption DEF BatchItems
  <2>2. balance' = CreditsAfter(items, u)[Len(items)].balance
    BY <1>2 DEF BatchReceive
  <2> QED BY <1>2, <2>1, <2>2, BatchCredited
<1>3. CASE ForceCreditStep
  BY <1>1, <1>3 DEF ForceCreditStep, ForceCredit
<1>4. CASE \E c \in Principals, n \in Amounts, e \in Devs, u \in Tokens, seq \in LedgerSeqs :
             ReceiveForDeveloper(c, n, e, u, seq)
  BY <1>1, <1>4 DEF ReceiveForDeveloper
<1> QED BY <1>2, <1>3, <1>4 DEF PaymentStep

\* Every step debits what it pays.
LEMMA StepIsDebited ==
    ASSUME Sound, Sound', [HNext]_hvars, NEW t \in Tokens PROVE Debited(t)
<1>0. /\ RolesTyped /\ TotalsTyped /\ PursesTyped /\ MigrationsTyped /\ TimeTyped /\ Indexed
      /\ PursesTyped'
      /\ held[t] \in Int /\ \A d \in Devs : balance[d][t] \in Int
  BY BoundAssumption DEF Sound, Typed, PursesTyped, Balances
<1>1. ASSUME UNCHANGED <<balance, held>> PROVE Debited(t)
  BY <1>0, <1>1, GrowthIsDebited
<1>2. CASE HPayout
  BY <1>0, <1>2, PayoutIsDebited DEF HPayout
<1>3. CASE HExecute
  BY <1>0, <1>3, ExecutionIsDebited DEF HExecute, ExecutionStep
<1>4. ASSUME PaymentStep \/ ForceCreditStep PROVE Debited(t)
  <2>1. UNCHANGED held
    BY <1>4
    DEF PaymentStep, ReceiveForDeveloper, BatchReceive, ForceCreditStep, ForceCredit, payouts
  <2> QED BY <1>0, <1>4, <2>1, CreditsRaise, GrowthIsDebited
<1>5. CASE HReceive \/ HBatchReceive
  BY <1>4, <1>5 DEF HReceive, HBatchReceive, PaymentStep
<1>6. CASE HPropose
  BY <1>1, <1>6 DEF HPropose, ProposeMigration, credits, payouts
<1>7. CASE HOutside
  <2>1. ASSUME NEW u \in Tokens, NEW n \in Amounts, TokensArrive(u, n) PROVE Debited(t)
    <3>1. n \in Int /\ n > 0 /\ held' = [held EXCEPT ![u] = @ + n] /\ UNCHANGED balance
      BY <2>1, BoundAssumption DEF TokensArrive, credits
    <3>2. held[t] <= held'[t]
      BY <1>0, <3>1 DEF PursesTyped
    <3> QED BY <1>0, <3>1, <3>2, GrowthIsDebited
  <2>2. CASE Tick
    BY <1>1, <2>2 DEF Tick, credits, payouts
  <2> QED BY <1>7, <2>1, <2>2 DEF HOutside, OutsideStep
<1>8. CASE HOther
  <2>1. CASE SetupStep \/ LimitStep \/ PoolStep
    BY <1>0, <1>1, <2>1, SetupKeeps
    DEF LimitStep, SetClaimWindow, ClearClaimWindow, SetDailyCap, SetMinBalance, PoolStep,
        ReceiveForPool, credits, payouts
  <2> QED BY <1>4, <1>8, <2>1 DEF HOther
<1>9. CASE UNCHANGED hvars
  BY <1>1, <1>9 DEF hvars, vars, credits, payouts
<1> QED BY <1>2, <1>3, <1>5, <1>6, <1>7, <1>8, <1>9 DEF HNext

\* What the contract owes in a token and what it holds of it fall together, and by the
\* same amount: for any developers and tokens, and batches of any length.
THEOREM DebitsMatchPayouts == HSpec => PayoutsAreDebited
<1>1. Sound /\ Sound' /\ [HNext]_hvars =>
        [\A t \in Tokens :
           (OwedIn(t)' < OwedIn(t) \/ held'[t] < held[t]) =>
              OwedIn(t) - OwedIn(t)' = held[t] - held'[t]]_vars
  BY StepIsDebited DEF Debited
<1> QED BY <1>1, HInitSound, StepSound, PTL DEF HSpec, PayoutsAreDebited

-----------------------------------------------------------------------------
(* The books of the indexer.                                               *)

\* What the indexer knows is the state itself.
BooksOf(owed, devs, approved) ==
    [owed |-> owed, known |-> Range(devs), pool |-> pool,
     caps |-> dailyCap, minimums |-> minBalance, windows |-> claimWindow,
     proposals |-> approved, admin |-> admin, nominee |-> pendingAdmin,
     vault |-> vault, proposedVault |-> pendingVault, version |-> contractVersion,
     consistent |-> TRUE]

\* Init announces nothing and empties the pool, which is empty then.
BooksExact ==
    /\ books = BooksOf(balance, index, migration)
    /\ admin = None => pool = 0

\* One event, and two, as the indexer hears them.
LEMMA AnnounceOne ==
    ASSUME NEW e, Announce(<<e>>) PROVE books' = Heard(books, e, usdcToken, None)
<1>1. Len(<<e>>) = 1 /\ <<e>>[1] = e
  OBVIOUS
<1> QED BY <1>1, BooksFold DEF Announce

\* What a call with two events tells the indexer.
LEMMA AnnounceTwo ==
    ASSUME NEW e, NEW f, Announce(<<e, f>>)
    PROVE  books' = Heard(Heard(books, e, usdcToken, None), f, usdcToken, None)
<1> DEFINE es == <<e, f>>
           heard == BooksAfter(books, es, usdcToken, None)
<1>1. Len(es) = 2 /\ es[1] = e /\ es[2] = f
  OBVIOUS
<1>2. books' = heard[2]
  BY <1>1 DEF Announce
<1> HIDE DEF es
<1>3. /\ heard[0] = books
      /\ \A i \in 1..Len(es) : heard[i] = Heard(heard[i - 1], es[i], usdcToken, None)
  <2>1. Len(es) \in Nat
    BY <1>1
  <2> QED BY <2>1, BooksFold
<1> HIDE DEF heard
<1>4. heard[1] = Heard(books, e, usdcToken, None)
  BY <1>1, <1>3
<1> QED BY <1>1, <1>2, <1>3, <1>4

\* The last event of a list is heard in the books of those before it.
LEMMA BooksAppend ==
    ASSUME NEW X, NEW s \in Seq(X), NEW e \in X, NEW b, NEW token, NEW none
    PROVE  BooksAfter(b, Append(s, e), token, none)[Len(Append(s, e))] =
             Heard(BooksAfter(b, s, token, none)[Len(s)], e, token, none)
<1> DEFINE l == Append(s, e)
           long == BooksAfter(b, l, token, none)
           short == BooksAfter(b, s, token, none)
           Good == {n \in Nat : n <= Len(s) => long[n] = short[n]}
<1>1. /\ Len(s) \in Nat /\ Len(l) = Len(s) + 1 /\ l[Len(s) + 1] = e
      /\ \A i \in 1..Len(s) : l[i] = s[i]
  OBVIOUS
<1> HIDE DEF l
<1>2. /\ short[0] = b
      /\ \A i \in 1..Len(s) : short[i] = Heard(short[i - 1], s[i], token, none)
  BY <1>1, BooksFold
<1>3. /\ long[0] = b
      /\ \A i \in 1..Len(l) : long[i] = Heard(long[i - 1], l[i], token, none)
  <2>1. Len(l) \in Nat
    BY <1>1
  <2> QED BY <2>1, BooksFold
<1> HIDE DEF long, short
<1>4. 0 \in Good
  BY <1>2, <1>3
<1>5. ASSUME NEW n \in Nat, n \in Good PROVE n + 1 \in Good
  <2> SUFFICES ASSUME n + 1 <= Len(s) PROVE long[n + 1] = short[n + 1]
    OBVIOUS
  <2>1. n + 1 \in 1..Len(s) /\ n + 1 \in 1..Len(l) /\ (n + 1) - 1 = n /\ long[n] = short[n]
    BY <1>1, <1>5
  <2> QED BY <1>1, <1>2, <1>3, <2>1
<1>6. Nat \subseteq Good
  <2> HIDE DEF Good
  <2> QED BY <1>4, <1>5, NatSetInduction
<1>7. long[Len(s)] = short[Len(s)] /\ Len(l) \in 1..Len(l) /\ Len(l) - 1 = Len(s)
  BY <1>1, <1>6
<1>8. long[Len(l)] = Heard(short[Len(s)], e, token, none)
  BY <1>1, <1>3, <1>7
<1> QED BY <1>8 DEF long, short, l

(* A credit, a withdrawal and a migration, as the indexer books them: each *)
(* balance announced is the one it arrives at.                             *)

\* The two events of a credit raise the indexer's balance of the developer.
LEMMA HearsEither ==
    ASSUME NEW bal \in Balances, NEW devs, NEW d \in Devs, NEW t \in Tokens, NEW n \in Int,
           Range(SortedInsert(devs, d)) = Range(devs) \cup {d}, NEW token,
           NEW e, e \in {BalanceCreditedEvent(d, n, Raised(bal, d, t, n)[d][t], t),
                         DeveloperForceCreditedEvent(d, n, Raised(bal, d, t, n)[d][t], t)}
    PROVE  Heard(BooksOf(bal, devs, migration), e, token, None)
             = BooksOf(Raised(bal, d, t, n), SortedInsert(devs, d), migration)
<1> DEFINE b == BooksOf(bal, devs, migration)
           devs2 == SortedInsert(devs, d)
           bal2 == Raised(bal, d, t, n)
<1>1. bal2[d][t] = bal[d][t] + n /\ bal2 = [bal EXCEPT ![d][t] = bal2[d][t]]
  BY DEF Balances, Raised
<1>2. Range(devs2) = Range(devs) \cup {d}
  OBVIOUS
<1>3. b.owed = bal /\ b.known = Range(devs) /\ b.consistent = TRUE
  BY DEF BooksOf
<1> HIDE DEF bal2, devs2
<1>4. /\ e.developer = d /\ e.amount = n /\ e.new_balance = bal2[d][t] /\ e.token = t
      /\ Heard(b, e, token, None) = Credited(b, e)
  BY DEF Heard, BalanceCreditedEvent, DeveloperForceCreditedEvent, Topics, bal2
<1>5. Credited(b, e) = [b EXCEPT !.owed[d][t] = bal[d][t] + n, !.known = @ \cup {d},
                                 !.consistent = @ /\ bal[d][t] + n = bal2[d][t]]
  BY <1>3, <1>4 DEF Credited
<1>6. Credited(b, e) = [b EXCEPT !.owed = bal2, !.known = Range(devs2), !.consistent = TRUE]
  BY <1>1, <1>2, <1>3, <1>5 DEF BooksOf
<1>7. Heard(b, e, token, None) = BooksOf(bal2, devs2, migration)
  BY <1>4, <1>6 DEF BooksOf
<1> QED BY <1>7 DEF bal2, devs2

\* The event of a payment does.
LEMMA HearsCredit ==
    ASSUME NEW bal \in Balances, NEW devs, NEW d \in Devs, NEW t \in Tokens, NEW n \in Int,
           Range(SortedInsert(devs, d)) = Range(devs) \cup {d}, NEW token
    PROVE  Heard(BooksOf(bal, devs, migration),
                 BalanceCreditedEvent(d, n, Raised(bal, d, t, n)[d][t], t), token, None)
             = BooksOf(Raised(bal, d, t, n), SortedInsert(devs, d), migration)
BY HearsEither

\* So does the event of a forced credit.
LEMMA HearsForceCredit ==
    ASSUME NEW bal \in Balances, NEW devs, NEW d \in Devs, NEW t \in Tokens, NEW n \in Int,
           Range(SortedInsert(devs, d)) = Range(devs) \cup {d}, NEW token
    PROVE  Heard(BooksOf(bal, devs, migration),
                 DeveloperForceCreditedEvent(d, n, Raised(bal, d, t, n)[d][t], t), token, None)
             = BooksOf(Raised(bal, d, t, n), SortedInsert(devs, d), migration)
BY HearsEither

\* The event of a payout lowers the indexer's balance of the developer.
LEMMA HearsWithdrawal ==
    ASSUME NEW bal \in Balances, NEW devs, NEW d \in Devs, NEW t \in Tokens, NEW n \in Int,
           NEW token
    PROVE  Heard(BooksOf(bal, devs, migration),
                 DeveloperWithdrawEvent(d, n, Lowered(bal, d, t, n)[d][t], t), token, None)
             = BooksOf(Lowered(bal, d, t, n), devs, migration)
<1> DEFINE b == BooksOf(bal, devs, migration)
           bal2 == Lowered(bal, d, t, n)
           e == DeveloperWithdrawEvent(d, n, bal2[d][t], t)
           h == Heard(b, e, token, None)
<1>1. bal2[d][t] = bal[d][t] - n /\ bal2 = [bal EXCEPT ![d][t] = bal2[d][t]]
  BY DEF Balances, Lowered
<1>2. b.owed = bal /\ b.consistent = TRUE
  BY DEF BooksOf
<1> HIDE DEF bal2
<1>3. h = [b EXCEPT !.owed[d][t] = bal[d][t] - n,
                    !.consistent = @ /\ bal[d][t] - n = bal2[d][t]]
  BY <1>2 DEF Heard, DeveloperWithdrawEvent, Topics
<1>4. h = [b EXCEPT !.owed = bal2, !.consistent = TRUE]
  BY <1>1, <1>2, <1>3 DEF BooksOf
<1> HIDE DEF h
<1>5. h = BooksOf(bal2, devs, migration)
  BY <1>4 DEF BooksOf
<1> QED BY <1>5 DEF h, e, bal2

\* The event of an executed migration moves a balance and closes the proposal.
LEMMA HearsMigration ==
    ASSUME NEW from, NEW to, NEW n, NEW token,
           NEW bal, bal = Moved(balance, from, to, n, token),
           NEW devs, Range(devs) = Range(index) \cup {to}
    PROVE  Heard(BooksOf(balance, index, migration), AdminMigrationEvent(from, to, n), token, None)
             = BooksOf(bal, devs, [migration EXCEPT ![from] = None])
<1> DEFINE b == BooksOf(balance, index, migration)
           e == AdminMigrationEvent(from, to, n)
<1>1. b.owed = balance /\ b.known = Range(index) /\ b.proposals = migration
  BY DEF BooksOf
<1> DEFINE done == [migration EXCEPT ![from] = None]
<1>2. /\ e.topic = Topics.migrated /\ e.from = from /\ e.to = to /\ e.amount = n
      /\ Heard(b, e, token, None) =
           [b EXCEPT !.owed[e.from][token] = @ - e.amount, !.owed[e.to][token] = @ + e.amount,
                     !.known = @ \cup {e.to}, !.proposals[e.from] = None]
  BY DEF Heard, AdminMigrationEvent, Topics
<1> HIDE DEF e
<1>3. Heard(b, e, token, None) =
        [b EXCEPT !.owed[from][token] = @ - n, !.owed[to][token] = @ + n,
                  !.known = @ \cup {to}, !.proposals[from] = None]
  BY <1>2
<1> HIDE DEF done
<1> DEFINE bal1 == [balance EXCEPT ![from][token] = @ - n]
           b1 == [b EXCEPT !.owed[from][token] = @ - n]
           b2 == [b1 EXCEPT !.owed[to][token] = b.owed[to][token] + n]
           b3 == [b2 EXCEPT !.known = b.known \cup {to}]
           h == Heard(b, e, token, None)
<1>4. bal = [bal1 EXCEPT ![to][token] = balance[to][token] + n]
  BY DEF Moved
<1>5. h = [b3 EXCEPT !.proposals[from] = None]
  BY <1>3
<1> HIDE DEF h, b2, b3
<1>6. b1 = BooksOf(bal1, index, migration)
  <2>1. b1 = [b EXCEPT !.owed = [balance EXCEPT ![from][token] = @ - n]]
    BY <1>1
  <2> HIDE DEF b1, bal1
  <2> QED BY <2>1 DEF BooksOf, bal1
<1> HIDE DEF b1, bal1
<1>7. b2 = BooksOf(bal, index, migration)
  <2>1. b1.owed = bal1
    BY <1>6 DEF BooksOf
  <2>2. b2 = [b1 EXCEPT !.owed = bal]
    BY <1>1, <1>4, <2>1 DEF b2
  <2> QED BY <1>6, <2>2 DEF BooksOf
<1>8. b3 = BooksOf(bal, devs, migration)
  <2>1. b3 = [b2 EXCEPT !.known = Range(devs)]
    BY <1>1 DEF b3
  <2> QED BY <1>7, <2>1 DEF BooksOf
<1>9. h = BooksOf(bal, devs, done)
  <2>1. b3.proposals = migration
    BY <1>8 DEF BooksOf
  <2>2. h = [b3 EXCEPT !.proposals = done]
    BY <1>5, <2>1 DEF done
  <2> QED BY <1>8, <2>2 DEF BooksOf
<1> QED BY <1>9 DEF h, e, done

\* What the indexer makes of a batch of credits, item by item.
LEMMA BatchHeard ==
    ASSUME TotalsTyped, PursesTyped, Indexed, BooksExact,
           NEW c, NEW items \in BatchItems, NEW token \in Tokens, NEW seq,
           BatchReceive(c, items, token, seq)
    PROVE  books' = BooksOf(balance', index', migration)
<1> DEFINE after == CreditsAfter(items, token)
           events == BatchCredits(items, token)
           heard == BooksAfter(books, events, usdcToken, None)
           Good == {n \in Nat : n <= Len(items) => heard[n] = BooksOf(after[n].balance, after[n].index, migration)}
<1>1. /\ Len(items) \in Nat /\ DOMAIN items = 1..Len(items)
      /\ \A i \in 1..Len(items) : items[i].developer \in Devs /\ items[i].amount \in Int
  <2>1. PICK n \in 0..MaxItems : items \in [1..n -> [developer : Devs, amount : Amounts]]
    BY DEF BatchItems
  <2>2. n \in Nat /\ Len(items) = n /\ DOMAIN items = 1..n
    BY <2>1, BoundAssumption
  <2> QED BY <2>1, <2>2, BoundAssumption
<1>2. /\ Len(events) = Len(items)
      /\ \A i \in 1..Len(items) :
           events[i] = BalanceCreditedEvent(items[i].developer, items[i].amount,
                                            after[i].balance[items[i].developer][token], token)
  BY <1>1 DEF BatchCredits
<1>3. /\ after[0] = [balance |-> balance, index |-> index]
      /\ \A i \in 1..Len(items) :
           after[i] = [balance |-> [after[i - 1].balance EXCEPT
                                      ![items[i].developer][token] = @ + items[i].amount],
                       index   |-> SortedInsert(after[i - 1].index, items[i].developer)]
  BY <1>1, CreditsFold
<1>4. \A i \in 0..Len(items) :
        after[i].balance \in Balances /\ after[i].index \in Seq(Devs) /\ Sorted(after[i].index)
  BY BatchCredited
<1> HIDE DEF events
<1>5. /\ heard[0] = books
      /\ \A i \in 1..Len(items) : heard[i] = Heard(heard[i - 1], events[i], usdcToken, None)
  <2>1. Len(events) \in Nat
    BY <1>1, <1>2
  <2> QED BY <1>2, <2>1, BooksFold
<1>6. /\ books' = heard[Len(items)]
      /\ balance' = after[Len(items)].balance /\ index' = after[Len(items)].index
  BY <1>2 DEF BatchReceive, Announce, events
<1> HIDE DEF after, heard
<1>7. 0 \in Good
  BY <1>3, <1>5 DEF BooksExact
<1>8. ASSUME NEW n \in Nat, n \in Good PROVE n + 1 \in Good
  <2> SUFFICES ASSUME n + 1 <= Len(items)
               PROVE  heard[n + 1] = BooksOf(after[n + 1].balance, after[n + 1].index, migration)
    OBVIOUS
  <2> DEFINE d == items[n + 1].developer
             m == items[n + 1].amount
             a == after[n]
             z == after[n + 1]
             e == events[n + 1]
  <2>1. /\ n + 1 \in 1..Len(items) /\ (n + 1) - 1 = n /\ n \in 0..Len(items)
        /\ heard[n] = BooksOf(a.balance, a.index, migration)
    BY <1>1, <1>8
  <2>2. z = [balance |-> [a.balance EXCEPT ![d][token] = @ + m], index |-> SortedInsert(a.index, d)]
    BY <1>3, <2>1
  <2>3. /\ a.balance \in Balances /\ a.index \in Seq(Devs) /\ Sorted(a.index)
        /\ d \in Devs /\ m \in Int /\ e = BalanceCreditedEvent(d, m, z.balance[d][token], token)
    BY <1>1, <1>2, <1>4, <2>1
  <2>4. heard[n + 1] = Heard(heard[n], e, usdcToken, None)
    BY <1>5, <2>1
  <2> HIDE DEF d, m, a, z, e
  <2>5. z.balance = [a.balance EXCEPT ![d][token] = @ + m] /\ z.index = SortedInsert(a.index, d)
    BY <2>2
  <2>6. z.balance = Raised(a.balance, d, token, m)
    BY <2>5 DEF Raised
  <2>7. Heard(BooksOf(a.balance, a.index, migration), e, usdcToken, None)
          = BooksOf(z.balance, z.index, migration)
    <3> DEFINE bal == a.balance
               devs == a.index
    <3>1. /\ bal \in Balances /\ Range(SortedInsert(devs, d)) = Range(devs) \cup {d}
          /\ d \in Devs /\ m \in Int /\ token \in Tokens
      BY <2>3, InsertKeepsOrder
    <3> HIDE DEF bal, devs
    <3>2. Heard(BooksOf(bal, devs, migration),
                BalanceCreditedEvent(d, m, Raised(bal, d, token, m)[d][token], token),
                usdcToken, None)
            = BooksOf(Raised(bal, d, token, m), SortedInsert(devs, d), migration)
      BY ONLY <3>1, HearsCredit
    <3> QED BY <2>3, <2>5, <2>6, <3>2 DEF bal, devs
  <2> QED BY <2>1, <2>4, <2>7 DEF a, z
<1>9. Nat \subseteq Good
  <2> HIDE DEF Good
  <2> QED BY <1>7, <1>8, NatSetInduction
<1> QED BY <1>1, <1>6, <1>9

\* What it makes of a batch of withdrawals: an item that fails is not heard of.
LEMMA SettlementHeard ==
    ASSUME RolesTyped, PursesTyped, TimeTyped, BooksExact,
           NEW items \in SettleLists, BatchSettle(items)
    PROVE  books' = BooksOf(balance', index, migration)
<1> DEFINE after == PursesAfter(items)
           events == EventsAfter(items)
           X == {WithdrawEvent(after[i], items[i]) : i \in 1..Len(items)}
           Heard1(n) == BooksAfter(books, events[n], usdcToken, None)[Len(events[n])]
           Good == {n \in Nat : n <= Len(items) =>
                      /\ after[n] \in Purses /\ events[n] \in Seq(X)
                      /\ Heard1(n) = BooksOf(after[n].balance, index, migration)}
<1>1. Len(items) \in Nat /\ \A i \in 1..Len(items) : items[i] \in Withdrawals
  BY BoundAssumption DEF SettleLists
<1>2. /\ after[0] = Purse
      /\ \A i \in 1..Len(items) :
           after[i] = IF Payable(after[i - 1], items[i]) THEN Paid(after[i - 1], items[i])
                      ELSE after[i - 1]
  BY <1>1, PursesFold
<1>3. /\ events[0] = <<>>
      /\ \A i \in 1..Len(items) :
           events[i] = IF Payable(after[i - 1], items[i])
                       THEN Append(events[i - 1], WithdrawEvent(after[i], items[i]))
                       ELSE events[i - 1]
  <2>1. \A i \in 1..Len(items) : SettleOutcomes(items)[i] = "Success" <=> Payable(after[i - 1], items[i])
    <3>1. DOMAIN items = 1..Len(items)
      BY <1>1, BoundAssumption DEF SettleLists
    <3> HIDE DEF after
    <3>2. SettleOutcomes(items)
            = [i \in DOMAIN items |-> IF Payable(after[i - 1], items[i]) THEN "Success" ELSE "Error"]
      BY DEF SettleOutcomes, after
    <3> QED BY <3>1, <3>2
  <2> QED BY <1>1, <2>1, EventsFold
<1>4. /\ books' = Heard1(Len(items))
      /\ balance' = after[Len(items)].balance
  BY DEF BatchSettle, Spend, Announce, BatchWithdrawals
<1> HIDE DEF after, events
<1>5. 0 \in Good
  <2>1. after[0] \in Purses /\ events[0] \in Seq(X)
    BY <1>2, <1>3 DEF Purse, Purses, PursesTyped
  <2>2. BooksAfter(books, <<>>, usdcToken, None)[0] = books /\ Len(<<>>) = 0
    <3>1. Len(<<>>) = 0
      OBVIOUS
    <3> QED BY <3>1, BooksFold
  <2>3. Heard1(0) = books
    BY <1>3, <2>2
  <2> QED BY <1>2, <2>1, <2>3 DEF BooksExact, Purse
<1>6. ASSUME NEW n \in Nat, n \in Good PROVE n + 1 \in Good
  <2> SUFFICES ASSUME n + 1 <= Len(items)
               PROVE  /\ after[n + 1] \in Purses /\ events[n + 1] \in Seq(X)
                      /\ Heard1(n + 1) = BooksOf(after[n + 1].balance, index, migration)
    OBVIOUS
  <2> DEFINE p == after[n]
             w == items[n + 1]
             q == after[n + 1]
             e == WithdrawEvent(q, w)
  <2>1. /\ n + 1 \in 1..Len(items) /\ (n + 1) - 1 = n
        /\ p \in Purses /\ events[n] \in Seq(X)
        /\ Heard1(n) = BooksOf(p.balance, index, migration)
        /\ w \in Withdrawals /\ e \in X
    BY <1>1, <1>6
  <2>2. /\ q = IF Payable(p, w) THEN Paid(p, w) ELSE p
        /\ events[n + 1] = IF Payable(p, w) THEN Append(events[n], e) ELSE events[n]
    BY <1>2, <1>3, <2>1
  <2> HIDE DEF p, w, q, e, X
  <2>3. CASE ~Payable(p, w)
    BY <2>1, <2>2, <2>3 DEF p, q
  <2>4. CASE Payable(p, w)
    <3>1. q = Paid(p, w) /\ q \in Purses /\ usdcToken \in Tokens /\ w.developer \in Devs /\ w.amount \in Int
      BY <2>1, <2>2, <2>4, PaidPurse
    <3>2. events[n + 1] = Append(events[n], e) /\ events[n + 1] \in Seq(X)
      BY <2>1, <2>2, <2>4
    <3>3. Heard1(n + 1) = Heard(BooksOf(p.balance, index, migration), e, usdcToken, None)
      BY <2>1, <3>2, BooksAppend
    <3>4. p.balance \in Balances
          /\ q.balance = Lowered(p.balance, w.developer, usdcToken, w.amount)
      BY <2>1, <3>1 DEF Purses, Paid, Lowered
    <3>5. e = DeveloperWithdrawEvent(w.developer, w.amount, q.balance[w.developer][usdcToken], usdcToken)
      BY DEF e, WithdrawEvent
    <3>6. Heard(BooksOf(p.balance, index, migration), e, usdcToken, None) = BooksOf(q.balance, index, migration)
      <4> DEFINE v == w.developer
                 m == w.amount
                 bal == p.balance
      <4>1. bal \in Balances /\ v \in Devs /\ m \in Int /\ usdcToken \in Tokens
        BY <3>1, <3>4
      <4> HIDE DEF v, m, bal
      <4>2. Heard(BooksOf(bal, index, migration),
                  DeveloperWithdrawEvent(v, m, Lowered(bal, v, usdcToken, m)[v][usdcToken], usdcToken),
                  usdcToken, None)
              = BooksOf(Lowered(bal, v, usdcToken, m), index, migration)
        BY ONLY <4>1, HearsWithdrawal
      <4> QED BY <3>4, <3>5, <4>2 DEF v, m, bal
    <3> QED BY <3>1, <3>2, <3>3, <3>6 DEF q
  <2> QED BY <2>3, <2>4
<1>7. Nat \subseteq Good
  <2> HIDE DEF Good
  <2> QED BY <1>5, <1>6, NatSetInduction
<1>8. Len(items) \in Good
  <2> HIDE DEF Good
  <2> QED BY <1>1, <1>7
<1> QED BY <1>4, <1>8

\* The calls of the admin and of the nominees, as the indexer books them.
LEMMA SetupHeard == ASSUME BooksExact, SetupStep PROVE BooksExact'
<1> USE DEF BooksExact, BooksOf
<1>1. ASSUME NEW a \in Principals \cup {Self}, NEW v \in Principals \cup {Self}, InitSettlement(a, v)
      PROVE  BooksExact'
  BY <1>1 DEF InitSettlement, setup, limits, payouts
<1>2. ASSUME NEW c \in Principals, NEW t \in Tokens \cup {Self}, SetUsdcToken(c, t) PROVE BooksExact'
  BY <1>2 DEF SetUsdcToken, roles, limits, credits
<1>3. ASSUME NEW c \in Principals, NEW hash \in Hashes, Upgrade(c, hash) PROVE BooksExact'
  <2>1. books' = Heard(books, AdminEvent(Topics.upgraded, hash), usdcToken, None)
    BY <1>3, AnnounceOne DEF Upgrade
  <2>2. books' = [books EXCEPT !.version = hash]
    BY <2>1 DEF Heard, AdminEvent, Topics
  <2> QED BY <1>3, <2>2 DEF Upgrade, roles, limits, credits
<1>4. ASSUME NEW c \in Principals, NEW n \in Nominees, SetAdmin(c, n) PROVE BooksExact'
  <2>1. books' = Heard(books, AdminEvent(Topics.adminNominated, n), usdcToken, None)
    BY <1>4, AnnounceOne DEF SetAdmin
  <2>2. books' = [books EXCEPT !.nominee = n]
    BY <2>1 DEF Heard, AdminEvent, Topics
  <2> QED BY <1>4, <2>2 DEF SetAdmin, rest, setup, limits, credits
<1>5. ASSUME NEW c \in Principals, NEW v \in Nominees, ProposeVault(c, v) PROVE BooksExact'
  <2>1. books' = Heard(books, VaultProposedEvent(vault, v), usdcToken, None)
    BY <1>5, AnnounceOne DEF ProposeVault
  <2>2. books' = [books EXCEPT !.proposedVault = v]
    BY <2>1 DEF Heard, VaultProposedEvent, Topics
  <2> QED BY <1>5, <2>2 DEF ProposeVault, rest, setup, limits, credits
<1>6. ASSUME NEW c \in Principals, CancelAdminTransfer(c) PROVE BooksExact'
  <2>1. books' = Heard(books, AdminEvent(Topics.adminCancelled, c), usdcToken, None)
    BY <1>6, AnnounceOne DEF CancelAdminTransfer
  <2>2. books' = [books EXCEPT !.nominee = None]
    BY <2>1 DEF Heard, AdminEvent, Topics
  <2> QED BY <1>6, <2>2 DEF CancelAdminTransfer, rest, setup, limits, credits
<1>7. ASSUME NEW c \in Principals, Broadcast(c) PROVE BooksExact'
  <2>1. books' = Heard(books, AdminEvent(Topics.broadcast, c), usdcToken, None)
    BY <1>7, AnnounceOne DEF Broadcast
  <2>2. books' = books
    BY <2>1 DEF Heard, AdminEvent, Topics
  <2> QED BY <1>7, <2>2 DEF Broadcast, roles, setup, limits, credits
<1>8. ASSUME NEW c \in Principals, AcceptVault(c) PROVE BooksExact'
  <2>1. books' = Heard(books, VaultAcceptedEvent(vault, pendingVault, c), usdcToken, None)
    BY <1>8, AnnounceOne DEF AcceptVault
  <2>2. books' = [books EXCEPT !.vault = pendingVault, !.proposedVault = None]
    BY <2>1 DEF Heard, VaultAcceptedEvent, Topics
  <2> QED BY <1>8, <2>2 DEF AcceptVault, rest, setup, limits, credits
<1>9. CASE AcceptAdmin
  <2>1. books' = Heard(books, AdminEvent(Topics.adminAccepted, pendingAdmin), usdcToken, None)
    BY <1>9, AnnounceOne DEF AcceptAdmin
  <2>2. books' = [books EXCEPT !.admin = pendingAdmin, !.nominee = None]
    BY <2>1 DEF Heard, AdminEvent, Topics
  <2> QED BY <1>9, <2>2 DEF AcceptAdmin, rest, setup, limits, credits
<1> QED BY <1>1, <1>2, <1>3, <1>4, <1>5, <1>6, <1>7, <1>8, <1>9 DEF SetupStep

\* The indexer hears of every limit.
LEMMA LimitsHeard == ASSUME BooksExact, LimitStep PROVE BooksExact'
<1> USE DEF BooksExact, BooksOf
<1>1. ASSUME NEW c \in Principals, NEW d \in Devs, NEW s \in WindowBounds, NEW e \in WindowBounds, SetClaimWindow(c, d, s, e) PROVE BooksExact'
  <2>1. books' = Heard(books, DeveloperClaimWindowChanged(d, s, e, TRUE), usdcToken, None)
    BY <1>1, AnnounceOne DEF SetClaimWindow
  <2>2. books' = [books EXCEPT !.windows[d] = [start_ts |-> s, end_ts |-> e]]
    BY <2>1 DEF Heard, DeveloperClaimWindowChanged, Topics
  <2> QED BY <1>1, <2>2 DEF SetClaimWindow, roles, setup, credits, DeveloperClaimWindow
<1>2. ASSUME NEW c \in Principals, NEW d \in Devs, ClearClaimWindow(c, d) PROVE BooksExact'
  <2>1. books' = Heard(books, DeveloperClaimWindowChanged(d, 0, 0, FALSE), usdcToken, None)
    BY <1>2, AnnounceOne DEF ClearClaimWindow
  <2>2. books' = [books EXCEPT !.windows[d] = None]
    BY <2>1 DEF Heard, DeveloperClaimWindowChanged, Topics
  <2> QED BY <1>2, <2>2 DEF ClearClaimWindow, roles, setup, credits
<1>3. ASSUME NEW c \in Principals, NEW d \in Devs, NEW n \in CapValues, SetDailyCap(c, d, n) PROVE BooksExact'
  <2>1. books' = Heard(books, DailyWithdrawCapChanged(d, n), usdcToken, None)
    BY <1>3, AnnounceOne DEF SetDailyCap
  <2>2. books' = [books EXCEPT !.caps[d] = n]
    BY <2>1 DEF Heard, DailyWithdrawCapChanged, Topics
  <2> QED BY <1>3, <2>2 DEF SetDailyCap, roles, setup, credits
<1>4. ASSUME NEW c \in Principals, NEW d \in Devs, NEW n \in MinValues, SetMinBalance(c, d, n) PROVE BooksExact'
  <2>1. books' = Heard(books, MinBalanceChanged(d, n), usdcToken, None)
    BY <1>4, AnnounceOne DEF SetMinBalance
  <2>2. books' = [books EXCEPT !.minimums[d] = n]
    BY <2>1 DEF Heard, MinBalanceChanged, Topics
  <2> QED BY <1>4, <2>2 DEF SetMinBalance, roles, setup, credits
<1> QED BY <1>1, <1>2, <1>3, <1>4 DEF LimitStep

\* A payment to the pool, and payments to developers, single and forced.
LEMMA PoolHeard == ASSUME BooksExact, PoolStep PROVE BooksExact'
<1>1. PICK c \in Principals, n \in Amounts, t \in Tokens, seq \in LedgerSeqs :
         ReceiveForPool(c, n, t, seq)
  BY DEF PoolStep
<1>2. books' = Heard(books, PaymentReceivedEvent(c, n, TRUE, None, t), usdcToken, None)
  BY <1>1, AnnounceOne DEF ReceiveForPool
<1>3. books' = [books EXCEPT !.pool = @ + n]
  BY <1>2 DEF Heard, PaymentReceivedEvent, Topics
<1>4. admin # None /\ books.pool = pool
  BY <1>1 DEF ReceiveForPool, AuthorizedPayer, BooksExact, BooksOf
<1>5. books' = [books EXCEPT !.pool = pool + n]
  BY <1>3, <1>4
<1> QED BY <1>1, <1>4, <1>5 DEF ReceiveForPool, roles, setup, limits, BooksExact, BooksOf

\* The indexer hears of a payment.
LEMMA ReceiptHeard ==
    ASSUME PursesTyped, TotalsTyped, Indexed, BooksExact,
           NEW c, NEW n \in Amounts, NEW d \in Devs, NEW t \in Tokens, NEW seq,
           ReceiveForDeveloper(c, n, d, t, seq)
    PROVE  books' = BooksOf(balance', index', migration)
<1> DEFINE bal == balance
           devs == index
<1>1. /\ bal \in Balances /\ d \in Devs /\ t \in Tokens /\ n \in Int
      /\ Range(SortedInsert(devs, d)) = Range(devs) \cup {d}
      /\ books = BooksOf(bal, devs, migration)
  BY BoundAssumption, InsertKeepsOrder DEF PursesTyped, TotalsTyped, Indexed, BooksExact
<1>2. balance' = Raised(bal, d, t, n) /\ index' = SortedInsert(devs, d)
  BY DEF ReceiveForDeveloper, Raised
<1>3. books' = Heard(Heard(books, PaymentReceivedEvent(c, n, FALSE, d, t), usdcToken, None),
                     BalanceCreditedEvent(d, n, Raised(bal, d, t, n)[d][t], t), usdcToken, None)
  BY <1>2, AnnounceTwo DEF ReceiveForDeveloper
<1>4. Heard(books, PaymentReceivedEvent(c, n, FALSE, d, t), usdcToken, None) = books
  BY DEF Heard, PaymentReceivedEvent, Topics
<1> HIDE DEF bal, devs
<1>5. Heard(BooksOf(bal, devs, migration),
            BalanceCreditedEvent(d, n, Raised(bal, d, t, n)[d][t], t), usdcToken, None)
        = BooksOf(Raised(bal, d, t, n), SortedInsert(devs, d), migration)
  BY ONLY <1>1, HearsCredit
<1> QED BY <1>1, <1>2, <1>3, <1>4, <1>5

\* The indexer hears of a forced credit.
LEMMA ForceHeard ==
    ASSUME PursesTyped, TotalsTyped, Indexed, BooksExact,
           NEW c, NEW n \in Amounts, NEW d \in Devs, NEW t \in Tokens, ForceCredit(c, d, n, t)
    PROVE  books' = BooksOf(balance', index', migration)
<1> DEFINE bal == balance
           devs == index
<1>1. /\ bal \in Balances /\ d \in Devs /\ t \in Tokens /\ n \in Int
      /\ Range(SortedInsert(devs, d)) = Range(devs) \cup {d}
      /\ books = BooksOf(bal, devs, migration)
  BY BoundAssumption, InsertKeepsOrder DEF PursesTyped, TotalsTyped, Indexed, BooksExact
<1>2. balance' = Raised(bal, d, t, n) /\ index' = SortedInsert(devs, d)
  BY DEF ForceCredit, Raised
<1>3. books' = Heard(books, DeveloperForceCreditedEvent(d, n, Raised(bal, d, t, n)[d][t], t),
                     usdcToken, None)
  BY <1>2, AnnounceOne DEF ForceCredit
<1> HIDE DEF bal, devs
<1>4. Heard(BooksOf(bal, devs, migration),
            DeveloperForceCreditedEvent(d, n, Raised(bal, d, t, n)[d][t], t), usdcToken, None)
        = BooksOf(Raised(bal, d, t, n), SortedInsert(devs, d), migration)
  BY ONLY <1>1, HearsForceCredit
<1> QED BY <1>1, <1>2, <1>3, <1>4

\* The indexer hears of every credit, batches included.
LEMMA CreditsHeard ==
    ASSUME PursesTyped, TotalsTyped, Indexed, BooksExact, PaymentStep \/ ForceCreditStep
    PROVE  BooksExact'
<1>1. books' = BooksOf(balance', index', migration)
  BY ReceiptHeard, BatchHeard, ForceHeard DEF PaymentStep, ForceCreditStep
<1>2. UNCHANGED <<roles, setup, limits, pool, migration>>
  BY DEF PaymentStep, ForceCreditStep, ReceiveForDeveloper, BatchReceive, ForceCredit
<1> QED BY <1>1, <1>2 DEF BooksExact, BooksOf, roles, setup, limits

\* Single withdrawals and batches of them.
LEMMA PayoutHeard ==
    ASSUME RolesTyped, PursesTyped, TimeTyped, BooksExact, PayoutStep PROVE BooksExact'
<1>1. ASSUME NEW w \in Withdrawals, Withdraw(w) PROVE books' = BooksOf(balance', index, migration)
  <2> DEFINE v == w.developer
             m == w.amount
             bal == balance
             token == usdcToken
  <2>1. bal \in Balances /\ v \in Devs /\ m \in Int /\ token \in Tokens
    <3>1. Purse \in Purses /\ Payable(Purse, w)
      BY <1>1 DEF Withdraw, Purse, Purses, PursesTyped
    <3> QED BY <3>1, PaidPurse DEF PursesTyped
  <2>2. balance' = Lowered(bal, v, token, m)
    BY <1>1 DEF Withdraw, Spend, Paid, Purse, Lowered
  <2>3. books' = Heard(books, DeveloperWithdrawEvent(v, m, Lowered(bal, v, token, m)[v][token], token),
                       token, None)
    BY <1>1, AnnounceOne DEF Withdraw, WithdrawEvent, Paid, Purse, Lowered
  <2>4. books = BooksOf(bal, index, migration)
    BY DEF BooksExact
  <2> HIDE DEF v, m, bal, token
  <2>5. Heard(BooksOf(bal, index, migration),
              DeveloperWithdrawEvent(v, m, Lowered(bal, v, token, m)[v][token], token), token, None)
          = BooksOf(Lowered(bal, v, token, m), index, migration)
    BY ONLY <2>1, HearsWithdrawal
  <2> QED BY <2>2, <2>3, <2>4, <2>5
<1>2. books' = BooksOf(balance', index, migration)
  BY <1>1, SettlementHeard DEF PayoutStep
<1>3. UNCHANGED <<roles, setup, limits, pool, index, migration>>
  BY DEF PayoutStep, Withdraw, BatchSettle, Spend
<1> QED BY <1>2, <1>3 DEF BooksExact, BooksOf, roles, setup, limits

\* Proposals of migrations, and migrations.
LEMMA ProposalHeard == ASSUME BooksExact, ProposalStep PROVE BooksExact'
<1>1. PICK c \in Principals, from \in Devs, to \in Devs \cup {Self} : ProposeMigration(c, from, to)
  BY DEF ProposalStep
<1> DEFINE r == PendingDeveloperMigration(from, to)
<1>2. migration' = [migration EXCEPT ![from] = r]
  BY <1>1 DEF ProposeMigration
<1>3. books' = Heard(books, PendingMigrationEvent(from, migration'[from]), usdcToken, None)
  BY <1>1, AnnounceOne DEF ProposeMigration
<1>4. books' = [books EXCEPT !.proposals[from] = migration'[from]]
  BY <1>3 DEF Heard, PendingMigrationEvent, Topics
<1>5. books.proposals = migration
  BY DEF BooksExact, BooksOf
<1> HIDE DEF r
<1>6. books' = [books EXCEPT !.proposals = migration']
  BY <1>2, <1>4, <1>5
<1> QED BY <1>1, <1>6 DEF ProposeMigration, roles, setup, limits, credits, BooksExact, BooksOf

\* The indexer hears of every executed migration.
LEMMA MigrationHeard ==
    ASSUME TotalsTyped, MigrationsTyped, Indexed, BooksExact, ExecutionStep PROVE BooksExact'
<1>1. PICK c \in Principals, from \in Devs : ExecuteMigration(c, from)
  BY DEF ExecutionStep
<1> DEFINE m == migration[from]
<1>2. m.to \in Devs
  BY <1>1 DEF ExecuteMigration, MigrationsTyped, Proposals
<1>3. /\ balance' = [balance EXCEPT ![from][usdcToken] = @ - m.amount,
                                    ![m.to][usdcToken] = @ + m.amount]
      /\ index' = SortedInsert(index, m.to)
      /\ migration' = [migration EXCEPT ![from] = None]
      /\ UNCHANGED <<roles, setup, limits, pool>>
  BY <1>1 DEF ExecuteMigration
<1>4. Range(index') = Range(index) \cup {m.to}
  BY <1>2, <1>3, InsertKeepsOrder DEF TotalsTyped, Indexed
<1>5. books' = Heard(books, AdminMigrationEvent(from, m.to, m.amount), usdcToken, None)
  BY <1>1, AnnounceOne DEF ExecuteMigration
<1>6. Heard(BooksOf(balance, index, migration), AdminMigrationEvent(from, m.to, m.amount),
            usdcToken, None)
        = BooksOf(balance', index', [migration EXCEPT ![from] = None])
  <2> DEFINE to == m.to
             n == m.amount
             bal == balance'
             devs == index'
             token == usdcToken
  <2>1. bal = Moved(balance, from, to, n, token) /\ Range(devs) = Range(index) \cup {to}
    BY <1>3, <1>4 DEF Moved
  <2> HIDE DEF m, to, n, bal, devs, token
  <2>2. Heard(BooksOf(balance, index, migration), AdminMigrationEvent(from, to, n), token, None)
          = BooksOf(bal, devs, [migration EXCEPT ![from] = None])
    BY ONLY <2>1, HearsMigration
  <2> QED BY <2>2 DEF to, n, bal, devs, token
<1>7. books' = BooksOf(balance', index', migration')
  BY <1>3, <1>5, <1>6 DEF BooksExact
<1> QED BY <1>3, <1>7 DEF BooksExact, BooksOf, roles, setup, limits

\* What nobody announces changes nothing the indexer keeps.
LEMMA OutsideHeard == ASSUME BooksExact, OutsideStep PROVE BooksExact'
BY DEF OutsideStep, TokensArrive, Tick, roles, setup, limits, credits, BooksExact, BooksOf

\* An indexer that reads only the events knows the state of the contract, for any
\* developers and tokens and after batches of any length, whichever items fail.
THEOREM IndexerIsExact == HSpec => []IndexerAgrees
<1>1. HInit => BooksExact
  <2>1. Range(<<>>) = {}
    BY DEF Range
  <2> QED BY <2>1 DEF HInit, Init, EmptyBooks, BooksExact, BooksOf
<1>2. Sound /\ BooksExact /\ [HNext]_hvars => BooksExact'
  <2> SUFFICES ASSUME Sound, BooksExact, [HNext]_hvars PROVE BooksExact'
    OBVIOUS
  <2>1. RolesTyped /\ TotalsTyped /\ PursesTyped /\ MigrationsTyped /\ TimeTyped /\ Indexed
    BY DEF Sound, Typed
  <2>2. CASE SetupStep \/ LimitStep \/ PoolStep
    BY <2>2, SetupHeard, LimitsHeard, PoolHeard
  <2>3. CASE PaymentStep \/ ForceCreditStep
    BY <2>1, <2>3, CreditsHeard
  <2>4. CASE PayoutStep
    BY <2>1, <2>4, PayoutHeard
  <2>5. CASE ProposalStep \/ OutsideStep
    BY <2>5, ProposalHeard, OutsideHeard
  <2>6. CASE ExecutionStep
    BY <2>1, <2>6, MigrationHeard
  <2>7. CASE UNCHANGED vars
    BY <2>7 DEF vars, roles, setup, limits, credits, BooksExact, BooksOf
  <2> QED BY <2>2, <2>3, <2>4, <2>5, <2>6, <2>7, HNextIsNext DEF Next
<1>3. BooksExact => IndexerAgrees
  BY DEF BooksExact, BooksOf, IndexerAgrees, GetDeveloperBalance, GetDailyWithdrawCap,
         GetDeveloperMinBalance, GetDeveloperClaimWindow, GetBalanceMigration, GetGlobalPool,
         GetAdmin, GetVault
<1> QED BY <1>1, <1>2, <1>3, HInitSound, StepSound, PTL DEF HSpec
=============================================================================
