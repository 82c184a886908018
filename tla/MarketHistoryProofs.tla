------------------------- MODULE MarketHistoryProofs -------------------------
(***************************************************************************)
(* Proofs about MarketHistory, for any value of its constants: its types,  *)
(* the rate limit, the freshness of what is served, and that known pools   *)
(* are not asked for again.  The limiter only keeps the latest timestamps; *)
(* what makes the limit hold is that those it has dropped are out of the   *)
(* window for good, which Forgotten says.                                  *)
(***************************************************************************)
EXTENDS MarketHistory, TLAPS

Forgotten ==
  /\ \A i \in 1..Len(sent) : sent[i] <= now
  /\ \A i \in 1..Dropped : sent[i] + Window < now

IInv == TypeOK /\ Forgotten /\ RateLimitHolds

\* What shifting the first k timestamps leaves.
LEMMA KeptTimestamps ==
  ASSUME LimiterOK, NEW k \in 0..Len(requestTimestamps)
  PROVE  /\ Kept(k) \in Seq(Nat)
         /\ Len(Kept(k)) = Len(requestTimestamps) - k
         /\ \A i \in 1..Len(Kept(k)) : Kept(k)[i] = sent[Dropped + k + i]
<1>1. Len(requestTimestamps) \in Nat /\ requestTimestamps \in Seq(Nat)
  BY DEF LimiterOK
<1>2. Kept(k) \in Seq(Nat) /\ Len(Kept(k)) = Len(requestTimestamps) - k
  BY <1>1 DEF Kept
<1>3. ASSUME NEW i \in 1..Len(Kept(k))
      PROVE  Kept(k)[i] = sent[Dropped + k + i]
  <2>1. Kept(k)[i] = requestTimestamps[k + i]
    BY <1>1, <1>2 DEF Kept
  <2>2. k + i \in 1..Len(requestTimestamps)
    BY <1>1, <1>2
  <2>3. requestTimestamps[k + i] = sent[Dropped + (k + i)]
    BY <2>2 DEF LimiterOK
  <2>4. Dropped + (k + i) = Dropped + k + i
    BY DEF LimiterOK
  <2> QED
    BY <2>1, <2>3, <2>4
<1> QED
  BY <1>2, <1>3

\* The timestamps shifted are out of the window, as those dropped before.
LEMMA ShiftedAreForgotten ==
  ASSUME IInv, NEW k \in 0..Len(requestTimestamps), Shifted(k),
         NEW i \in 1..(Dropped + k)
  PROVE  sent[i] + Window < now
<1>0. LimiterOK /\ Forgotten
  BY DEF IInv, TypeOK
<1>1. Dropped \in Nat /\ Len(sent) \in Nat /\ Len(requestTimestamps) \in Nat
  BY <1>0 DEF LimiterOK
<1>2. now \in Nat /\ Window \in Nat
  BY LimitAssumption, TimesAssumption DEF IInv, TypeOK
<1>3. CASE i <= Dropped
  BY <1>0, <1>1, <1>3 DEF Forgotten
<1>4. CASE i > Dropped
  <2>1. i - Dropped \in 1..k /\ i - Dropped \in 1..Len(requestTimestamps)
    BY <1>1, <1>4
  <2>2. requestTimestamps[i - Dropped] < now - Window
    BY <2>1 DEF Shifted
  <2>3. requestTimestamps[i - Dropped] = sent[Dropped + (i - Dropped)]
    BY <1>0, <2>1 DEF LimiterOK
  <2>4. Dropped + (i - Dropped) = i
    BY <1>1
  <2>5. i \in 1..Len(sent)
    BY <1>1 DEF Dropped
  <2>6. sent[i] \in Nat
    BY <1>0, <2>5 DEF LimiterOK
  <2> QED
    BY <1>2, <2>2, <2>3, <2>4, <2>6
<1> QED
  BY <1>1, <1>3, <1>4

LimiterInv == LimiterOK /\ Forgotten /\ RateLimitHolds

\* A request that is sent keeps to the limit.
LEMMA SlotReservedStep ==
  ASSUME IInv, SlotReserved, UNCHANGED now
  PROVE  LimiterInv'
<1>l. LimiterOK /\ Forgotten /\ RateLimitHolds
  BY DEF IInv, TypeOK
<1>t. now \in Nat /\ Limit \in Nat \ {0} /\ Window \in Nat
  BY LimitAssumption, TimesAssumption DEF IInv, TypeOK
<1>0. Dropped \in Nat /\ Len(sent) \in Nat /\ Len(requestTimestamps) \in Nat
      /\ sent \in Seq(Nat) /\ requestTimestamps \in Seq(Nat)
  BY <1>l DEF LimiterOK
<1>d. Dropped = Len(sent) - Len(requestTimestamps)
  BY DEF Dropped
<1>1. PICK k \in 0..Len(requestTimestamps) :
        /\ Shifted(k) /\ Len(Kept(k)) < Limit
        /\ requestTimestamps' = Append(Kept(k), now)
        /\ sent' = Append(sent, now)
  BY DEF SlotReserved
<1>n. Len(Kept(k)) = Len(requestTimestamps) - k
  BY <1>l, KeptTimestamps
<1>2. /\ Kept(k) \in Seq(Nat)
      /\ Len(Kept(k)) = Len(requestTimestamps) - k
      /\ \A i \in 1..Len(Kept(k)) : Kept(k)[i] = sent[Dropped + k + i]
  BY <1>l, KeptTimestamps
<1>3. /\ sent' \in Seq(Nat) /\ Len(sent') = Len(sent) + 1
      /\ sent'[Len(sent) + 1] = now
      /\ \A i \in 1..Len(sent) : sent'[i] = sent[i]
  BY <1>0, <1>t, <1>1
<1>4. /\ requestTimestamps' \in Seq(Nat) /\ Len(requestTimestamps') = Len(Kept(k)) + 1
      /\ requestTimestamps'[Len(Kept(k)) + 1] = now
      /\ \A i \in 1..Len(Kept(k)) : requestTimestamps'[i] = Kept(k)[i]
  BY <1>0, <1>t, <1>1, <1>2
<1>s. Len(sent') = Len(sent) + 1 /\ Len(requestTimestamps') = Len(requestTimestamps) - k + 1
  BY <1>n, <1>3, <1>4
<1>5. Dropped' = Dropped + k
  <2>1. Dropped' = Len(sent') - Len(requestTimestamps')
    BY DEF Dropped
  <2> QED
    BY <1>0, <1>d, <1>s, <2>1
<1>6. LimiterOK'
  <2>1. ASSUME NEW i \in 1..Len(requestTimestamps')
        PROVE  requestTimestamps'[i] = sent'[Dropped' + i]
    <3>1. CASE i = Len(Kept(k)) + 1
      <4>1. Dropped' + i = Len(sent) + 1
        BY <1>0, <1>d, <1>n, <1>5, <3>1
      <4> QED
        BY <1>3, <1>4, <3>1, <4>1
    <3>2. CASE i \in 1..Len(Kept(k))
      <4>1. Dropped + k + i \in 1..Len(sent)
        BY <1>0, <1>d, <1>n, <3>2
      <4> QED
        BY <1>2, <1>3, <1>4, <1>5, <3>2, <4>1
    <3> QED
      BY <1>0, <1>n, <1>s, <3>1, <3>2
  <2> QED
    BY <1>0, <1>3, <1>4, <1>5, <2>1 DEF LimiterOK
<1>7. Forgotten'
  <2>1. \A i \in 1..Len(sent') : sent'[i] <= now
    <3> SUFFICES ASSUME NEW i \in 1..Len(sent') PROVE sent'[i] <= now
      OBVIOUS
    <3>1. CASE i = Len(sent) + 1
      BY <1>0, <1>t, <1>3, <3>1
    <3>2. CASE i \in 1..Len(sent)
      BY <1>l, <1>3, <3>2 DEF Forgotten
    <3> QED
      BY <1>0, <1>s, <3>1, <3>2
  <2>2. \A i \in 1..(Dropped + k) : sent'[i] + Window < now
    <3> SUFFICES ASSUME NEW i \in 1..(Dropped + k) PROVE sent'[i] + Window < now
      OBVIOUS
    <3>1. sent[i] + Window < now
      BY <1>1, ShiftedAreForgotten
    <3>2. i \in 1..Len(sent)
      BY <1>0, <1>d
    <3> QED
      BY <1>3, <3>1, <3>2
  <2> QED
    BY <1>5, <2>1, <2>2 DEF Forgotten
<1>8. RateLimitHolds'
  <2> SUFFICES ASSUME NEW i \in 1..Len(sent'), i + Limit <= Len(sent')
               PROVE  sent'[i + Limit] > sent'[i] + Window
    BY DEF RateLimitHolds
  <2>1. CASE i + Limit <= Len(sent)
    <3>1. i \in 1..Len(sent) /\ i + Limit \in 1..Len(sent)
      BY <1>0, <1>t, <1>s, <2>1
    <3> QED
      BY <1>l, <1>3, <2>1, <3>1 DEF RateLimitHolds
  <2>2. CASE i + Limit = Len(sent) + 1
    <3>1. i \in 1..(Dropped + k) /\ i \in 1..Len(sent)
      BY <1>0, <1>t, <1>d, <1>1, <1>n, <1>s, <2>2
    <3>2. sent[i] + Window < now
      BY <1>1, <3>1, ShiftedAreForgotten
    <3>3. sent[i] \in Nat
      BY <1>0, <3>1
    <3> QED
      BY <1>0, <1>t, <1>3, <2>2, <3>1, <3>2, <3>3
  <2>3. i + Limit <= Len(sent) \/ i + Limit = Len(sent) + 1
    BY <1>0, <1>t, <1>s
  <2> QED
    BY <2>1, <2>2, <2>3
<1> QED
  BY <1>6, <1>7, <1>8 DEF LimiterInv

\* A refused request only forgets.
LEMMA SlotRefusedStep ==
  ASSUME IInv, SlotRefused, UNCHANGED now
  PROVE  LimiterInv'
<1>l. LimiterOK /\ Forgotten /\ RateLimitHolds
  BY DEF IInv, TypeOK
<1>0. Dropped \in Nat /\ Len(sent) \in Nat /\ Len(requestTimestamps) \in Nat
  BY <1>l DEF LimiterOK
<1>1. PICK k \in 0..Len(requestTimestamps) :
        Shifted(k) /\ requestTimestamps' = Kept(k) /\ UNCHANGED sent
  BY DEF SlotRefused
<1>2. /\ Kept(k) \in Seq(Nat)
      /\ Len(Kept(k)) = Len(requestTimestamps) - k
      /\ \A i \in 1..Len(Kept(k)) : Kept(k)[i] = sent[Dropped + k + i]
  BY <1>l, KeptTimestamps
<1>3. Dropped' = Dropped + k
  BY <1>0, <1>1, <1>2 DEF Dropped
<1>4. LimiterOK'
  BY <1>l, <1>0, <1>1, <1>2, <1>3 DEF LimiterOK
<1>5. Forgotten'
  <2>1. \A i \in 1..(Dropped + k) : sent[i] + Window < now
    BY <1>1, ShiftedAreForgotten
  <2> QED
    BY <1>l, <1>1, <1>3, <2>1 DEF Forgotten
<1>6. RateLimitHolds'
  BY <1>l, <1>1 DEF RateLimitHolds
<1> QED
  BY <1>4, <1>5, <1>6 DEF LimiterInv

-----------------------------------------------------------------------------
LEMMA InitIInv == Init => IInv
<1> SUFFICES ASSUME Init PROVE IInv
  OBVIOUS
<1>1. FetchesOK
  BY DEF Init, FetchesOK, Fetch, IdleFetch, Waiting
<1>2. CacheOf(poolCache, Tokens, Pools) /\ CacheOf(historyCache, Pools, Histories)
  BY DEF Init, CacheOf
<1>3. sent = <<>> /\ requestTimestamps = <<>> /\ now = 0
  BY DEF Init
<1>4. LimiterInv
  BY <1>3 DEF LimiterInv, LimiterOK, Forgotten, RateLimitHolds, Dropped
<1>5. now \in 0..MaxTime
  BY <1>3, TimesAssumption
<1> QED
  BY <1>1, <1>2, <1>4, <1>5 DEF IInv, TypeOK, LimiterInv

\* A step writes well-formed fetches.
LEMMA FetchUpdates ==
  ASSUME FetchesOK, NEW f \in Fetches, now \in 0..MaxTime, MaxTime \in Nat
  PROVE  /\ \A stage \in Waiting \cup {"gecko"} :
              To(f, stage) /\ stage # "resolving" /\ stage # "ohlcv" => FetchesOK'
         /\ To(f, "resolving") /\ fetch[f].token \in Tokens => FetchesOK'
         /\ To(f, "ohlcv") /\ fetch[f].pool \in Pools => FetchesOK'
         /\ \A result \in Histories \cup {None} : End(f, result) => FetchesOK'
         /\ \A p \in Pools :
              fetch' = [fetch EXCEPT ![f].stage = "pool", ![f].pool = p] => FetchesOK'
<1> DEFINE Becomes(row) == fetch' = [fetch EXCEPT ![f] = row]
<1>1. ASSUME NEW row \in Fetch, Becomes(row),
             row.stage = "resolving" => row.token \in Tokens,
             row.stage \in {"pool", "ohlcv"} => row.pool \in Pools
      PROVE  FetchesOK'
  BY <1>1 DEF FetchesOK
<1>2. fetch[f] \in Fetch /\ fetch \in [Fetches -> Fetch]
  BY DEF FetchesOK
<1>3. ASSUME NEW stage \in Waiting \cup {"gecko"}, To(f, stage),
             stage = "resolving" => fetch[f].token \in Tokens,
             stage = "ohlcv" => fetch[f].pool \in Pools
      PROVE  FetchesOK'
  <2> DEFINE at == IF stage \in Waiting THEN now ELSE 0
  <2> DEFINE row == [fetch[f] EXCEPT !.stage = stage, !.sentAt = at]
  <2>1. Becomes(row)
    BY <1>2, <1>3 DEF To
  <2>4. at \in Nat
    OBVIOUS
  <2> HIDE DEF at
  <2>2. row \in Fetch /\ row.stage = stage /\ row.token = fetch[f].token /\ row.pool = fetch[f].pool
    BY <1>2, <2>4 DEF Fetch
  <2>3. stage # "pool"
    BY DEF Waiting
  <2> HIDE DEF row, Becomes
  <2> QED
    BY <1>1, <1>3, <2>1, <2>2, <2>3
<1>4. ASSUME NEW result \in Histories \cup {None}, End(f, result)
      PROVE  FetchesOK'
  <2> DEFINE row == [IdleFetch EXCEPT !.stage = "done", !.start = fetch[f].start, !.result = result]
  <2>1. row \in Fetch /\ row.stage = "done"
    BY <1>2 DEF Fetch, IdleFetch
  <2>2. Becomes(row)
    BY <1>4 DEF End
  <2> HIDE DEF row, Becomes
  <2> QED
    BY <1>1, <2>1, <2>2
<1>5. ASSUME NEW p \in Pools, fetch' = [fetch EXCEPT ![f].stage = "pool", ![f].pool = p]
      PROVE  FetchesOK'
  <2> DEFINE row == [fetch[f] EXCEPT !.stage = "pool", !.pool = p]
  <2>1. row \in Fetch /\ row.stage = "pool" /\ row.pool = p
    BY <1>2 DEF Fetch
  <2>2. Becomes(row)
    BY <1>2, <1>5
  <2> HIDE DEF row, Becomes
  <2> QED
    BY <1>1, <2>1, <2>2
<1>6. {"resolving", "ohlcv"} \subseteq Waiting
  BY DEF Waiting
<1> QED
  BY <1>3, <1>4, <1>5, <1>6

LEMMA SetType ==
  ASSUME NEW keys, NEW values, NEW cache, CacheOf(cache, keys, values),
         NEW key \in keys, NEW value \in values \cup {None}, NEW ttl \in Nat, now \in Nat
  PROVE  CacheOf(Set(cache, key, value, ttl), keys, values)
  BY DEF CacheOf, Set

LEMMA WithoutType ==
  ASSUME NEW keys, NEW values, NEW cache, CacheOf(cache, keys, values), NEW key
  PROVE  CacheOf(Without(cache, key), keys, values)
  BY DEF CacheOf, Without

-----------------------------------------------------------------------------
\* Steps that leave the limiter and the clock alone.
LEMMA LimiterUnchanged ==
  ASSUME IInv, UNCHANGED <<now, limiter>>
  PROVE  LimiterInv'
  BY DEF IInv, TypeOK, limiter, LimiterInv, LimiterOK, Forgotten, RateLimitHolds, Dropped

LEMMA Assemble ==
  ASSUME (now \in 0..MaxTime)', FetchesOK',
         CacheOf(poolCache, Tokens, Pools)', CacheOf(historyCache, Pools, Histories)',
         LimiterInv'
  PROVE  IInv'
  BY DEF IInv, TypeOK, LimiterInv

LEMMA PoolRequestStep ==
  ASSUME IInv, NEW f \in Fetches, PoolRequest(f)
  PROVE  IInv'
<1> DEFINE t == fetch[f].token
<1>1. now \in 0..MaxTime /\ MaxTime \in Nat /\ FetchesOK
      /\ CacheOf(poolCache, Tokens, Pools) /\ CacheOf(historyCache, Pools, Histories)
  BY TimesAssumption DEF IInv, TypeOK
<1>2. LimiterInv'
  BY SlotReservedStep, SlotRefusedStep DEF PoolRequest
<1>3. t \in Tokens
  BY <1>1 DEF PoolRequest, FetchesOK, Fetch
<1>4. FetchesOK'
  BY <1>1, <1>3, FetchUpdates DEF PoolRequest
<1>5. CacheOf(poolCache, Tokens, Pools)'
  BY <1>1, WithoutType DEF PoolRequest
<1>6. CacheOf(historyCache, Pools, Histories)' /\ (now \in 0..MaxTime)'
  BY <1>1 DEF PoolRequest, CacheOf
<1> QED
  BY <1>2, <1>4, <1>5, <1>6, Assemble

LEMMA HistoryRequestStep ==
  ASSUME IInv, NEW f \in Fetches, HistoryRequest(f)
  PROVE  IInv'
<1>1. now \in 0..MaxTime /\ MaxTime \in Nat /\ FetchesOK
      /\ CacheOf(poolCache, Tokens, Pools) /\ CacheOf(historyCache, Pools, Histories)
  BY TimesAssumption DEF IInv, TypeOK
<1>2. LimiterInv'
  BY SlotReservedStep, SlotRefusedStep DEF HistoryRequest
<1>3. fetch[f].pool \in Pools
  BY <1>1 DEF HistoryRequest, FetchesOK
<1>4. FetchesOK'
  BY <1>1, <1>3, FetchUpdates DEF HistoryRequest
<1>5. CacheOf(historyCache, Pools, Histories)'
  BY <1>1, WithoutType DEF HistoryRequest
<1>6. CacheOf(poolCache, Tokens, Pools)' /\ (now \in 0..MaxTime)'
  BY <1>1 DEF HistoryRequest, CacheOf
<1> QED
  BY <1>2, <1>4, <1>5, <1>6, Assemble

LEMMA NextIInv == IInv /\ [Next]_vars => IInv'
<1> SUFFICES ASSUME IInv, [Next]_vars PROVE IInv'
  OBVIOUS
<1>0. /\ now \in 0..MaxTime /\ FetchesOK
      /\ CacheOf(poolCache, Tokens, Pools) /\ CacheOf(historyCache, Pools, Histories)
      /\ {HistoryTTL, ResolutionTTL, MaxTime} \subseteq Nat
  BY TimesAssumption DEF IInv, TypeOK
<1>a. MaxTime \in Nat /\ HistoryTTL \in Nat /\ ResolutionTTL \in Nat /\ now \in Nat
      /\ now \in Histories
  BY <1>0 DEF Histories
<1>u. UNCHANGED <<now, caches, limiter>> /\ FetchesOK' => IInv'
  <2> SUFFICES ASSUME UNCHANGED <<now, caches, limiter>>, FetchesOK' PROVE IInv'
    OBVIOUS
  <2>1. LimiterInv'
    BY LimiterUnchanged
  <2>2. /\ CacheOf(poolCache, Tokens, Pools)' /\ CacheOf(historyCache, Pools, Histories)'
        /\ (now \in 0..MaxTime)'
    BY <1>0 DEF caches, CacheOf
  <2> QED
    BY <2>1, <2>2, Assemble
<1>1. ASSUME NEW f \in Fetches, NEW t \in Tokens \cup {None}, GetComparisonHistory(f, t)
      PROVE  IInv'
  <2>1. FetchesOK'
    BY <1>0, <1>a, <1>1 DEF GetComparisonHistory, FetchesOK, Fetch, IdleFetch, Waiting
  <2> QED
    BY <1>u, <1>1, <2>1 DEF GetComparisonHistory
<1>2. ASSUME NEW f \in Fetches, HyperliquidAnswers(f) \/ CoinGeckoAnswers(f) PROVE IInv'
  <2>1. FetchesOK'
    BY <1>0, <1>a, <1>2, FetchUpdates DEF HyperliquidAnswers, CoinGeckoAnswers, Waiting
  <2> QED
    BY <1>u, <1>2, <2>1 DEF HyperliquidAnswers, CoinGeckoAnswers
<1>3. ASSUME NEW f \in Fetches, NotListed(f) PROVE IInv'
  <2>1. FetchesOK'
    BY <1>0, <1>a, <1>3, FetchUpdates DEF NotListed
  <2> QED
    BY <1>u, <1>3, <2>1 DEF NotListed
<1>4. ASSUME NEW f \in Fetches, PoolCached(f) PROVE IInv'
  <2>1. poolCache[fetch[f].token].value \in Pools \cup {None}
    BY <1>0, <1>4 DEF PoolCached, Hit, CacheOf
  <2>2. FetchesOK'
    BY <1>0, <1>a, <1>4, <2>1, FetchUpdates DEF PoolCached
  <2> QED
    BY <1>u, <1>4, <2>2 DEF PoolCached
<1>5. ASSUME NEW f \in Fetches, PoolRequest(f) PROVE IInv'
  BY <1>5, PoolRequestStep
<1>6. ASSUME NEW f \in Fetches, NEW p \in Pools \cup {None}, PoolAnswers(f, p) PROVE IInv'
  <2>1. fetch[f].token \in Tokens
    BY <1>0, <1>6 DEF PoolAnswers, FetchesOK
  <2>2. FetchesOK'
    BY <1>0, <1>a, <1>6, FetchUpdates DEF PoolAnswers
  <2>3. CacheOf(poolCache, Tokens, Pools)'
    BY <1>0, <1>a, <1>6, <2>1, SetType DEF PoolAnswers
  <2>4. CacheOf(historyCache, Pools, Histories)' /\ (now \in 0..MaxTime)'
    BY <1>0, <1>6 DEF PoolAnswers, CacheOf
  <2>5. LimiterInv'
    BY <1>6, LimiterUnchanged DEF PoolAnswers
  <2> QED
    BY <2>2, <2>3, <2>4, <2>5, Assemble
<1>7. ASSUME NEW f \in Fetches, HistoryCached(f) PROVE IInv'
  <2>1. historyCache[fetch[f].pool].value \in Histories \cup {None}
    BY <1>0, <1>7 DEF HistoryCached, Hit, CacheOf
  <2>2. FetchesOK'
    BY <1>0, <1>a, <1>7, <2>1, FetchUpdates DEF HistoryCached
  <2> QED
    BY <1>u, <1>7, <2>2 DEF HistoryCached
<1>8. ASSUME NEW f \in Fetches, HistoryRequest(f) PROVE IInv'
  BY <1>8, HistoryRequestStep
<1>9. ASSUME NEW f \in Fetches, NEW h \in Histories \cup {None}, HistoryAnswers(f, h) PROVE IInv'
  <2>1. fetch[f].pool \in Pools
    BY <1>0, <1>9 DEF HistoryAnswers, FetchesOK
  <2>2. FetchesOK'
    BY <1>0, <1>a, <1>9, FetchUpdates DEF HistoryAnswers
  <2>3. CacheOf(historyCache, Pools, Histories)'
    BY <1>0, <1>a, <1>9, <2>1, SetType DEF HistoryAnswers
  <2>4. CacheOf(poolCache, Tokens, Pools)' /\ (now \in 0..MaxTime)'
    BY <1>0, <1>9 DEF HistoryAnswers, CacheOf
  <2>5. LimiterInv'
    BY <1>9, LimiterUnchanged DEF HistoryAnswers
  <2> QED
    BY <2>2, <2>3, <2>4, <2>5, Assemble
<1>10. ASSUME NEW f \in Fetches, Done(f) PROVE IInv'
  <2>1. FetchesOK'
    BY <1>0, <1>10 DEF Done, FetchesOK, Fetch, IdleFetch, Waiting
  <2> QED
    BY <1>u, <1>10, <2>1 DEF Done
<1>11. CASE Tick
  <2>1. FetchesOK' /\ (now \in 0..MaxTime)'
    BY <1>0, <1>a, <1>11 DEF Tick, FetchesOK
  <2>2. CacheOf(poolCache, Tokens, Pools)' /\ CacheOf(historyCache, Pools, Histories)'
    BY <1>0, <1>11 DEF Tick, caches, CacheOf
  <2>3. LimiterOK' /\ RateLimitHolds' /\ sent \in Seq(Nat) /\ UNCHANGED sent /\ Dropped' = Dropped
        /\ Dropped \in Nat /\ Len(sent) \in Nat /\ Dropped <= Len(sent)
    BY <1>11 DEF Tick, limiter, IInv, TypeOK, LimiterOK, RateLimitHolds, Dropped
  <2>4. \A i \in 1..Len(sent) : sent[i] \in Nat
    BY <2>3
  <2>5. Forgotten'
    BY <1>a, <1>11, <2>3, <2>4, LimitAssumption DEF Tick, IInv, Forgotten
  <2> QED
    BY <2>1, <2>2, <2>3, <2>5, Assemble DEF LimiterInv
<1>12. CASE UNCHANGED vars
  <2>1. FetchesOK'
    BY <1>0, <1>12 DEF vars, FetchesOK
  <2> QED
    BY <1>u, <1>12, <2>1 DEF vars, caches, limiter
<1> QED
  BY <1>1, <1>2, <1>3, <1>4, <1>5, <1>6, <1>7, <1>8, <1>9, <1>10, <1>11, <1>12
  DEF Next, Proceed

\* The variables keep their types, and the timestamps the limiter keeps are
\* the latest requests sent.
THEOREM TypeCorrect == Spec => []TypeOK
<1>1. IInv => TypeOK
  BY DEF IInv
<1> QED
  BY <1>1, InitIInv, NextIInv, PTL DEF Spec

\* GeckoTerminal is never sent more requests than the limit within a window,
\* however many fetches run and whatever the configured numbers are.
THEOREM RateLimit == Spec => []RateLimitHolds
<1>1. IInv => RateLimitHolds
  BY DEF IInv
<1> QED
  BY <1>1, InitIInv, NextIInv, PTL DEF Spec

-----------------------------------------------------------------------------
(***************************************************************************)
(* Freshness.  A history that is served has been through the cache, which  *)
(* knows when it was stored and not when it was true; that is known of the *)
(* request that fetched it, until it is answered.                          *)
(***************************************************************************)
Timely(f) ==
  /\ fetch[f].start <= now
  /\ fetch[f].stage \in Waiting =>
       /\ fetch[f].start <= fetch[f].sentAt /\ fetch[f].sentAt <= now
       /\ now <= fetch[f].sentAt + HttpTimeout
  /\ fetch[f].stage = "done" /\ fetch[f].result # None =>
       fetch[f].result + HistoryTTL + HttpTimeout > fetch[f].start

\* What is stored was true a timeout before it was stored, or later.
StoredTimely ==
  \A p \in DOMAIN historyCache : historyCache[p].value # None =>
    historyCache[p].value + HttpTimeout + HistoryTTL >= historyCache[p].expiresAt

\* A pool stored while a request for it is on its way was stored since that
\* request was sent, because the request found no entry.
StoredSince ==
  \A f \in Fetches : fetch[f].stage = "resolving" /\ fetch[f].token \in DOMAIN poolCache =>
    fetch[f].sentAt + ResolutionTTL <= poolCache[fetch[f].token].expiresAt

CacheInv == (\A f \in Fetches : Timely(f)) /\ StoredTimely /\ StoredSince

LEMMA Times ==
  ASSUME TypeOK
  PROVE  /\ now \in Nat /\ HistoryTTL \in Nat /\ ResolutionTTL \in Nat /\ HttpTimeout \in Nat
         /\ HistoryTTL > 0 /\ HttpTimeout > 0
         /\ now \in Histories /\ Histories \subseteq Nat
         /\ fetch \in [Fetches -> Fetch]
BY TimesAssumption DEF TypeOK, Histories, FetchesOK

\* A fetch that goes on to another stage, or ends, stays timely; the others
\* are not concerned.
LEMMA TimelySteps ==
  ASSUME TypeOK, \A g \in Fetches : Timely(g), NEW f \in Fetches, UNCHANGED now
  PROVE  /\ \A stage \in Waiting \cup {"gecko"} :
              To(f, stage) => \A g \in Fetches : Timely(g)'
         /\ \A result \in Histories \cup {None} :
              End(f, result) /\ (result # None => result + HistoryTTL + HttpTimeout > fetch[f].start)
                => \A g \in Fetches : Timely(g)'
         /\ \A p : fetch' = [fetch EXCEPT ![f].stage = "pool", ![f].pool = p]
                => \A g \in Fetches : Timely(g)'
<1>1. fetch[f] \in Fetch
  BY Times
<1>2. ASSUME NEW stage \in Waiting \cup {"gecko"}, To(f, stage)
      PROVE  \A g \in Fetches : Timely(g)'
  BY <1>1, <1>2, Times DEF To, Timely, Fetch, Waiting
<1>3. ASSUME NEW result \in Histories \cup {None}, End(f, result),
             result # None => result + HistoryTTL + HttpTimeout > fetch[f].start
      PROVE  \A g \in Fetches : Timely(g)'
  BY <1>1, <1>3, Times DEF End, IdleFetch, Timely, Fetch, Waiting
<1>4. ASSUME NEW p, fetch' = [fetch EXCEPT ![f].stage = "pool", ![f].pool = p]
      PROVE  \A g \in Fetches : Timely(g)'
  BY <1>1, <1>4, Times DEF Timely, Fetch, Waiting
<1> QED
  BY <1>2, <1>3, <1>4

\* Where a fetch is after such a step; the others stay where they are.
LEMMA StageSteps ==
  ASSUME TypeOK, NEW f \in Fetches
  PROVE  /\ \A stage : To(f, stage) =>
              /\ fetch'[f].stage = stage /\ fetch'[f].token = fetch[f].token
              /\ \A g \in Fetches \ {f} : fetch'[g] = fetch[g]
         /\ \A result : End(f, result) =>
              fetch'[f].stage = "done" /\ \A g \in Fetches \ {f} : fetch'[g] = fetch[g]
         /\ \A p : fetch' = [fetch EXCEPT ![f].stage = "pool", ![f].pool = p] =>
              fetch'[f].stage = "pool" /\ \A g \in Fetches \ {f} : fetch'[g] = fetch[g]
<1>1. fetch \in [Fetches -> Fetch] /\ fetch[f] \in Fetch
  BY Times
<1>2. ASSUME NEW stage, To(f, stage)
      PROVE  /\ fetch'[f].stage = stage /\ fetch'[f].token = fetch[f].token
             /\ \A g \in Fetches \ {f} : fetch'[g] = fetch[g]
  BY <1>1, <1>2 DEF To, Fetch
<1>3. ASSUME NEW result, End(f, result)
      PROVE  fetch'[f].stage = "done" /\ \A g \in Fetches \ {f} : fetch'[g] = fetch[g]
  BY <1>1, <1>3 DEF End, IdleFetch
<1>4. ASSUME NEW p, fetch' = [fetch EXCEPT ![f].stage = "pool", ![f].pool = p]
      PROVE  fetch'[f].stage = "pool" /\ \A g \in Fetches \ {f} : fetch'[g] = fetch[g]
  BY <1>1, <1>4 DEF Fetch
<1> QED
  BY <1>2, <1>3, <1>4

LEMMA CacheInit == Init => CacheInv
BY TimesAssumption DEF Init, CacheInv, Timely, StoredTimely, StoredSince, IdleFetch, Waiting

\* Steps that leave both caches alone, and send no request for a pool.
LEMMA CachesAlone ==
  ASSUME CacheInv, UNCHANGED caches, \A g \in Fetches : Timely(g)',
         \A g \in Fetches : fetch'[g].stage = "resolving" => fetch'[g] = fetch[g]
  PROVE  CacheInv'
BY DEF CacheInv, StoredTimely, StoredSince, caches

\* What a fetch is served from the history cache is fresh.
LEMMA ServedIsFresh ==
  ASSUME TypeOK, CacheInv, NEW f \in Fetches, HistoryCached(f)
  PROVE  LET h == historyCache[fetch[f].pool].value IN
         h \in Histories \cup {None} /\ (h # None => h + HistoryTTL + HttpTimeout > fetch[f].start)
<1> DEFINE e == historyCache[fetch[f].pool]
<1>1. fetch[f].pool \in DOMAIN historyCache /\ e.expiresAt > now
  BY DEF HistoryCached, Hit
<1>2. e.value \in Histories \cup {None} /\ e.expiresAt \in Nat
  BY <1>1 DEF TypeOK, CacheOf
<1>3. e.value # None => e.value + HttpTimeout + HistoryTTL >= e.expiresAt
  BY <1>1 DEF CacheInv, StoredTimely
<1>4. fetch[f].start <= now /\ fetch[f].start \in Nat
  BY Times DEF CacheInv, Timely, Fetch
<1> HIDE DEF e
<1>5. e.value # None => e.value + HistoryTTL + HttpTimeout > fetch[f].start
  BY <1>1, <1>2, <1>3, <1>4, Times
<1> QED
  BY <1>2, <1>5 DEF e

LEMMA CacheStep ==
  ASSUME TypeOK, CacheInv, [Next]_vars
  PROVE  CacheInv'
<1>t. \A g \in Fetches : Timely(g) /\ fetch[g] \in Fetch
  BY Times DEF CacheInv
<1>1. ASSUME NEW f \in Fetches, NEW t \in Tokens \cup {None}, GetComparisonHistory(f, t)
      PROVE  CacheInv'
  <2>1. \A g \in Fetches : Timely(g)'
    BY <1>t, <1>1, Times DEF GetComparisonHistory, IdleFetch, Timely, Waiting
  <2>2. \A g \in Fetches : fetch'[g].stage = "resolving" => fetch'[g] = fetch[g]
    BY <1>1, Times DEF GetComparisonHistory, IdleFetch
  <2> QED
    BY <1>1, <2>1, <2>2, CachesAlone DEF GetComparisonHistory
<1>2. ASSUME NEW f \in Fetches, HyperliquidAnswers(f) \/ CoinGeckoAnswers(f) PROVE CacheInv'
  <2>1. now + HistoryTTL + HttpTimeout > fetch[f].start
    BY <1>t, Times DEF Timely, Fetch
  <2>2. \A g \in Fetches : Timely(g)'
    BY <1>t, <1>2, <2>1, Times, TimelySteps DEF HyperliquidAnswers, CoinGeckoAnswers, Waiting
  <2>3. \A g \in Fetches : fetch'[g].stage = "resolving" => fetch'[g] = fetch[g]
    BY <1>2, StageSteps DEF HyperliquidAnswers, CoinGeckoAnswers
  <2> QED
    BY <1>2, <2>2, <2>3, CachesAlone DEF HyperliquidAnswers, CoinGeckoAnswers
<1>3. ASSUME NEW f \in Fetches, NotListed(f) PROVE CacheInv'
  <2>1. \A g \in Fetches : Timely(g)'
    BY <1>t, <1>3, TimelySteps DEF NotListed
  <2>2. \A g \in Fetches : fetch'[g].stage = "resolving" => fetch'[g] = fetch[g]
    BY <1>3, StageSteps DEF NotListed
  <2> QED
    BY <1>3, <2>1, <2>2, CachesAlone DEF NotListed
<1>4. ASSUME NEW f \in Fetches, PoolCached(f) PROVE CacheInv'
  <2>1. \A g \in Fetches : Timely(g)'
    BY <1>t, <1>4, TimelySteps DEF PoolCached
  <2>2. \A g \in Fetches : fetch'[g].stage = "resolving" => fetch'[g] = fetch[g]
    BY <1>4, StageSteps DEF PoolCached
  <2> QED
    BY <1>4, <2>1, <2>2, CachesAlone DEF PoolCached
<1>5. ASSUME NEW f \in Fetches, PoolRequest(f) PROVE CacheInv'
  <2> DEFINE t == fetch[f].token
  <2>1. \A g \in Fetches : Timely(g)'
    BY <1>t, <1>5, TimelySteps DEF PoolRequest, Waiting
  <2>2. StoredTimely'
    BY <1>5 DEF PoolRequest, CacheInv, StoredTimely
  <2>3. ASSUME NEW g \in Fetches, fetch'[g].stage = "resolving",
               fetch'[g].token \in DOMAIN poolCache'
        PROVE  fetch'[g].sentAt + ResolutionTTL <= poolCache'[fetch'[g].token].expiresAt
    <3>1. fetch'[g].token # t /\ fetch'[g].token \in DOMAIN poolCache
          /\ poolCache'[fetch'[g].token] = poolCache[fetch'[g].token]
      BY <1>5, <2>3 DEF PoolRequest, Without
    <3>2. g # f /\ fetch'[g] = fetch[g]
      BY <1>5, <2>3, <3>1, StageSteps DEF PoolRequest
    <3> QED
      BY <2>3, <3>1, <3>2 DEF CacheInv, StoredSince
  <2> QED
    BY <2>1, <2>2, <2>3 DEF CacheInv, StoredSince
<1>6. ASSUME NEW f \in Fetches, NEW p \in Pools \cup {None}, PoolAnswers(f, p) PROVE CacheInv'
  <2>1. \A g \in Fetches : Timely(g)'
    BY <1>t, <1>6, TimelySteps DEF PoolAnswers
  <2>2. StoredTimely'
    BY <1>6 DEF PoolAnswers, CacheInv, StoredTimely
  <2>3. ASSUME NEW g \in Fetches, fetch'[g].stage = "resolving",
               fetch'[g].token \in DOMAIN poolCache'
        PROVE  fetch'[g].sentAt + ResolutionTTL <= poolCache'[fetch'[g].token].expiresAt
    <3>1. g # f /\ fetch'[g] = fetch[g]
      BY <1>6, <2>3, StageSteps DEF PoolAnswers
    <3>2. CASE fetch[g].token = fetch[f].token
      <4>1. poolCache'[fetch'[g].token].expiresAt = now + ResolutionTTL
        BY <1>6, <3>1, <3>2 DEF PoolAnswers, Set
      <4>2. fetch[g].sentAt <= now /\ fetch[g].sentAt \in Nat
        BY <1>t, <2>3, <3>1 DEF Timely, Waiting, Fetch
      <4> QED
        BY <3>1, <4>1, <4>2, Times
    <3>3. CASE fetch[g].token # fetch[f].token
      <4>1. fetch[g].token \in DOMAIN poolCache /\ poolCache'[fetch[g].token] = poolCache[fetch[g].token]
        BY <1>6, <2>3, <3>1, <3>3 DEF PoolAnswers, Set
      <4> QED
        BY <2>3, <3>1, <4>1 DEF CacheInv, StoredSince
    <3> QED
      BY <3>2, <3>3
  <2> QED
    BY <2>1, <2>2, <2>3 DEF CacheInv, StoredSince
<1>7. ASSUME NEW f \in Fetches, HistoryCached(f) PROVE CacheInv'
  <2>1. \A g \in Fetches : Timely(g)'
    BY <1>t, <1>7, ServedIsFresh, TimelySteps DEF HistoryCached
  <2>2. \A g \in Fetches : fetch'[g].stage = "resolving" => fetch'[g] = fetch[g]
    BY <1>7, StageSteps DEF HistoryCached
  <2> QED
    BY <1>7, <2>1, <2>2, CachesAlone DEF HistoryCached
<1>8. ASSUME NEW f \in Fetches, HistoryRequest(f) PROVE CacheInv'
  <2>1. \A g \in Fetches : Timely(g)'
    BY <1>t, <1>8, TimelySteps DEF HistoryRequest, Waiting
  <2>2. StoredTimely'
    BY <1>8 DEF HistoryRequest, Without, CacheInv, StoredTimely
  <2>3. \A g \in Fetches : fetch'[g].stage = "resolving" => fetch'[g] = fetch[g]
    BY <1>8, StageSteps DEF HistoryRequest
  <2>4. StoredSince'
    BY <1>8, <2>3 DEF HistoryRequest, CacheInv, StoredSince
  <2> QED
    BY <2>1, <2>2, <2>4 DEF CacheInv
<1>9. ASSUME NEW f \in Fetches, NEW h \in Histories \cup {None}, HistoryAnswers(f, h) PROVE CacheInv'
  <2>1. fetch[f].start <= fetch[f].sentAt /\ now <= fetch[f].sentAt + HttpTimeout
        /\ fetch[f].start \in Nat /\ fetch[f].sentAt \in Nat
    BY <1>t, <1>9 DEF HistoryAnswers, Timely, Waiting, Fetch
  <2>2. h # None => h \in Nat /\ fetch[f].sentAt <= h
    BY <1>9, <2>1, Times DEF HistoryAnswers
  <2>3. h # None => h + HistoryTTL + HttpTimeout > fetch[f].start
    BY <2>1, <2>2, Times
  <2>4. \A g \in Fetches : Timely(g)'
    BY <1>t, <1>9, <2>3, TimelySteps DEF HistoryAnswers
  <2>5. h # None => h + HttpTimeout + HistoryTTL >= now + HistoryTTL
    BY <2>1, <2>2, Times
  <2>6. StoredTimely'
    BY <1>9, <2>5 DEF HistoryAnswers, Set, CacheInv, StoredTimely
  <2>7. \A g \in Fetches : fetch'[g].stage = "resolving" => fetch'[g] = fetch[g]
    BY <1>9, StageSteps DEF HistoryAnswers
  <2>8. StoredSince'
    BY <1>9, <2>7 DEF HistoryAnswers, CacheInv, StoredSince
  <2> QED
    BY <2>4, <2>6, <2>8 DEF CacheInv
<1>10. ASSUME NEW f \in Fetches, Done(f) PROVE CacheInv'
  <2>1. \A g \in Fetches : Timely(g)'
    BY <1>t, <1>10, Times DEF Done, IdleFetch, Timely, Waiting
  <2>2. \A g \in Fetches : fetch'[g].stage = "resolving" => fetch'[g] = fetch[g]
    BY <1>10, Times DEF Done, IdleFetch
  <2> QED
    BY <1>10, <2>1, <2>2, CachesAlone DEF Done
<1>11. CASE Tick
  <2>1. ASSUME NEW g \in Fetches PROVE Timely(g)'
    BY <1>t, <1>11, Times DEF Tick, Timely, Fetch
  <2> QED
    BY <1>11, <2>1, CachesAlone DEF Tick
<1>12. CASE UNCHANGED vars
  BY <1>12, CachesAlone DEF vars, caches, CacheInv, Timely
<1> QED
  BY <1>1, <1>2, <1>3, <1>4, <1>5, <1>6, <1>7, <1>8, <1>9, <1>10, <1>11, <1>12
  DEF Next, Proceed

\* A history served was true less than its time to live and a timeout before
\* it was asked for, whatever order overlapping requests are answered in.
THEOREM FreshHistoryTheorem == Spec => []HistoryIsFresh
<1>1. CacheInv => HistoryIsFresh
  BY DEF CacheInv, Timely, HistoryIsFresh
<1>2. IInv => TypeOK
  BY DEF IInv
<1> QED
  BY <1>1, <1>2, InitIInv, NextIInv, CacheInit, CacheStep, PTL DEF Spec

\* What is known of a pool, a failure too, is not asked for again while it
\* counts: only a request already on its way replaces it.
THEOREM KnownPoolsTheorem == Spec => KnownPoolsStand
<1> DEFINE Stands ==
      \A t \in DOMAIN poolCache :
        poolCache[t].expiresAt > now =>
          \/ t \in DOMAIN poolCache' /\ poolCache'[t] = poolCache[t]
          \/ \E f \in Fetches :
               /\ fetch[f].stage = "resolving" /\ fetch'[f].stage # "resolving"
               /\ fetch[f].token = t
               /\ fetch[f].sentAt <= poolCache[t].expiresAt - ResolutionTTL
<1>1. ASSUME TypeOK, CacheInv, [Next]_vars PROVE [Stands]_vars
  <2> SUFFICES ASSUME NEW t \in DOMAIN poolCache, poolCache[t].expiresAt > now,
                      ~(t \in DOMAIN poolCache' /\ poolCache'[t] = poolCache[t])
               PROVE  \E f \in Fetches :
                        /\ fetch[f].stage = "resolving" /\ fetch'[f].stage # "resolving"
                        /\ fetch[f].token = t
                        /\ fetch[f].sentAt <= poolCache[t].expiresAt - ResolutionTTL
    OBVIOUS
  <2>1. ASSUME NEW f \in Fetches, PoolRequest(f) PROVE FALSE
    BY <2>1 DEF PoolRequest, Hit, Without
  <2>2. PICK f \in Fetches : \E p \in Pools \cup {None} : PoolAnswers(f, p)
    BY <1>1, <2>1 DEF Next, Proceed, vars, caches, GetComparisonHistory, HyperliquidAnswers,
      CoinGeckoAnswers, NotListed, PoolCached, HistoryCached, HistoryRequest, HistoryAnswers, Done, Tick
  <2>3. fetch[f].stage = "resolving" /\ fetch'[f].stage # "resolving"
    BY <1>1, <2>2, StageSteps DEF PoolAnswers
  <2>4. fetch[f].token = t
    BY <2>2 DEF PoolAnswers, Set
  <2>5. fetch[f].sentAt + ResolutionTTL <= poolCache[t].expiresAt
    BY <1>1, <2>3, <2>4 DEF CacheInv, StoredSince
  <2>6. fetch[f].sentAt \in Nat /\ poolCache[t].expiresAt \in Nat /\ ResolutionTTL \in Nat
    BY <1>1, Times DEF Fetch, TypeOK, CacheOf
  <2>7. fetch[f].sentAt <= poolCache[t].expiresAt - ResolutionTTL
    BY <2>5, <2>6
  <2> QED
    BY <2>3, <2>4, <2>7
<1>2. IInv => TypeOK
  BY DEF IInv
<1> QED
  BY <1>1, <1>2, InitIInv, NextIInv, CacheInit, CacheStep, PTL DEF Spec, KnownPoolsStand

=============================================================================
