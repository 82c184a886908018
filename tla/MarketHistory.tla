---------------------------- MODULE MarketHistory ----------------------------
(***************************************************************************)
(* The history of one asset, as MarketsService.getComparisonHistory gets   *)
(* it: from Hyperliquid, else from CoinGecko, else from GeckoTerminal, by  *)
(* way of the best pool of the token.  GeckoTerminalMarketHistoryClient is *)
(* one object for all requests: it caches pools and histories, failures    *)
(* too, and keeps the times of its requests to stay within a limit per     *)
(* minute.  Fetches interleave wherever they wait for a provider.          *)
(***************************************************************************)
EXTENDS Integers, Sequences

CONSTANTS
  Fetches,        \* calls of getComparisonHistory in progress
  Tokens,         \* tokens, each with its network, and one timeframe
  Pools,
  Limit,          \* GECKOTERMINAL_RATE_LIMIT_PER_MINUTE
  Window,         \* 60_000 ms
  HistoryTTL,     \* MARKET_HISTORY_CACHE_TTL_MS
  ResolutionTTL,  \* MARKET_HISTORY_RESOLUTION_CACHE_TTL_MS
  HttpTimeout,    \* MARKET_HISTORY_HTTP_TIMEOUT_MS
  MaxTime,        \* the clock: a bound of the model
  None

ASSUME LimitAssumption == Limit \in Nat \ {0} /\ Window \in Nat
\* positiveNumber of the times to live; axios takes a timeout of 0 for none.
ASSUME TimesAssumption ==
  {HistoryTTL, ResolutionTTL, HttpTimeout} \subseteq Nat \ {0} /\ MaxTime \in Nat

VARIABLES
  now,
  fetch,              \* the state of each fetch
  poolCache,          \* token -> entry, for the tokens it has an entry for
  historyCache,       \* pool -> entry
  requestTimestamps,
  sent                \* the times of all requests there have been

vars == <<now, fetch, poolCache, historyCache, requestTimestamps, sent>>
caches == <<poolCache, historyCache>>
limiter == <<requestTimestamps, sent>>

\* A history is the time it was true at; None stands for an empty one, and
\* for no pool.
Histories == 0..MaxTime
IdleFetch ==
  [stage |-> "idle", token |-> None, start |-> 0, pool |-> None, sentAt |-> 0, result |-> None]
Waiting == {"hyperliquid", "coingecko", "resolving", "ohlcv"}

Init ==
  /\ now = 0
  /\ fetch = [f \in Fetches |-> IdleFetch]
  /\ poolCache = [t \in {} |-> None] /\ historyCache = [p \in {} |-> None]
  /\ requestTimestamps = <<>> /\ sent = <<>>

To(f, stage) ==
  fetch' = [fetch EXCEPT ![f].stage = stage, ![f].sentAt = IF stage \in Waiting THEN now ELSE 0]
End(f, result) ==
  fetch' = [fetch EXCEPT ![f] = [IdleFetch EXCEPT
              !.stage = "done", !.start = fetch[f].start, !.result = result]]

-----------------------------------------------------------------------------
\* getComparisonHistory of an asset, or of none that GeckoTerminal can look up,
\* up to the fallbacks
GetComparisonHistory(f, t) ==
  /\ fetch[f].stage = "idle"
  /\ fetch' = [fetch EXCEPT ![f] = [IdleFetch EXCEPT
                 !.stage = "hyperliquid", !.token = t, !.start = now, !.sentAt = now]]
  /\ UNCHANGED <<now, caches, limiter>>

\* Hyperliquid has candles, or none, or fails; CoinGecko likewise.
HyperliquidAnswers(f) ==
  /\ fetch[f].stage = "hyperliquid"
  /\ End(f, now) \/ To(f, "coingecko")
  /\ UNCHANGED <<now, caches, limiter>>

CoinGeckoAnswers(f) ==
  /\ fetch[f].stage = "coingecko"
  /\ End(f, now) \/ To(f, "gecko")
  /\ UNCHANGED <<now, caches, limiter>>

-----------------------------------------------------------------------------
BrokenHit(cache, key) ==
  key \in DOMAIN cache /\ cache[key].expiresAt > now /\ cache[key].value # None

\* getCached: an entry, of a failure too, counts until it expires.
Hit(cache, key) == key \in DOMAIN cache /\ cache[key].expiresAt > now

\* the cache after setCached, and after a miss of getCached
Set(cache, key, value, ttl) ==
  [k \in DOMAIN cache \cup {key} |->
     IF k = key THEN [value |-> value, expiresAt |-> now + ttl] ELSE cache[k]]
Without(cache, key) == [k \in DOMAIN cache \ {key} |-> cache[k]]

BrokenShifted(k) ==
  /\ k \in 0..Len(requestTimestamps)
  /\ \A i \in 1..k : requestTimestamps[i] < now
  /\ k < Len(requestTimestamps) => requestTimestamps[k + 1] >= now

\* reserveRequestSlot shifts the first k timestamps, those that have left
\* the window, ...
Shifted(k) ==
  /\ k \in 0..Len(requestTimestamps)
  /\ \A i \in 1..k : requestTimestamps[i] < now - Window
  /\ k < Len(requestTimestamps) => requestTimestamps[k + 1] >= now - Window
Kept(k) == SubSeq(requestTimestamps, k + 1, Len(requestTimestamps))

\* ... and reserves a slot for the request that follows, or refuses it.
SlotReserved ==
  \E k \in 0..Len(requestTimestamps) :
    /\ Shifted(k) /\ Len(Kept(k)) < Limit
    /\ requestTimestamps' = Append(Kept(k), now)
    /\ sent' = Append(sent, now)

SlotRefused ==
  \E k \in 0..Len(requestTimestamps) :
    /\ Shifted(k) /\ Len(Kept(k)) >= Limit
    /\ requestTimestamps' = Kept(k)
    /\ UNCHANGED sent

-----------------------------------------------------------------------------
\* The client is disabled, or knows no network or no address for the asset.
NotListed(f) ==
  /\ fetch[f].stage = "gecko" /\ fetch[f].token = None
  /\ End(f, None)
  /\ UNCHANGED <<now, caches, limiter>>

\* resolvePoolAddress
PoolCached(f) ==
  LET t == fetch[f].token IN
  /\ fetch[f].stage = "gecko" /\ Hit(poolCache, t)
  /\ \/ poolCache[t].value = None /\ End(f, None)
     \/ /\ poolCache[t].value # None
        /\ fetch' = [fetch EXCEPT ![f].stage = "pool", ![f].pool = poolCache[t].value]
  /\ UNCHANGED <<now, caches, limiter>>

PoolRequest(f) ==
  LET t == fetch[f].token IN
  /\ fetch[f].stage = "gecko" /\ t # None /\ ~Hit(poolCache, t)
  /\ \/ SlotReserved /\ To(f, "resolving")
     \/ SlotRefused /\ End(f, None)
  /\ poolCache' = Without(poolCache, t)
  /\ UNCHANGED <<now, historyCache>>

\* An answer with the best pool or none, or a failure; both are cached.
PoolAnswers(f, pool) ==
  /\ fetch[f].stage = "resolving"
  /\ poolCache' = Set(poolCache, fetch[f].token, pool, ResolutionTTL)
  /\ IF pool = None THEN End(f, None)
     ELSE fetch' = [fetch EXCEPT ![f].stage = "pool", ![f].pool = pool]
  /\ UNCHANGED <<now, historyCache, limiter>>

BrokenHistoryCached(f) ==
  LET p == fetch[f].pool IN
  /\ fetch[f].stage = "pool" /\ p \in DOMAIN historyCache
  /\ End(f, historyCache[p].value)
  /\ UNCHANGED <<now, caches, limiter>>

\* getPoolHistory
HistoryCached(f) ==
  LET p == fetch[f].pool IN
  /\ fetch[f].stage = "pool" /\ Hit(historyCache, p)
  /\ End(f, historyCache[p].value)
  /\ UNCHANGED <<now, caches, limiter>>

HistoryRequest(f) ==
  LET p == fetch[f].pool IN
  /\ fetch[f].stage = "pool" /\ ~Hit(historyCache, p)
  /\ \/ SlotReserved /\ To(f, "ohlcv")
     \/ SlotRefused /\ End(f, None)
  /\ historyCache' = Without(historyCache, p)
  /\ UNCHANGED <<now, poolCache>>

\* The history is that of some moment since the request; None is an empty
\* one, or a failure.
HistoryAnswers(f, history) ==
  /\ fetch[f].stage = "ohlcv"
  /\ history = None \/ history \in fetch[f].sentAt..now
  /\ historyCache' = Set(historyCache, fetch[f].pool, history, HistoryTTL)
  /\ End(f, history)
  /\ UNCHANGED <<now, poolCache, limiter>>

-----------------------------------------------------------------------------
Done(f) ==
  /\ fetch[f].stage = "done"
  /\ fetch' = [fetch EXCEPT ![f] = IdleFetch]
  /\ UNCHANGED <<now, caches, limiter>>

\* Nothing waits for a provider longer than the HTTP client does.
Tick ==
  /\ now < MaxTime
  /\ \A f \in Fetches : fetch[f].stage \in Waiting => now < fetch[f].sentAt + HttpTimeout
  /\ now' = now + 1
  /\ UNCHANGED <<fetch, caches, limiter>>

Proceed(f) ==
  \/ HyperliquidAnswers(f) \/ CoinGeckoAnswers(f)
  \/ NotListed(f) \/ PoolCached(f) \/ PoolRequest(f) \/ \E p \in Pools \cup {None} : PoolAnswers(f, p)
  \/ HistoryCached(f) \/ HistoryRequest(f)
  \/ \E h \in Histories \cup {None} : HistoryAnswers(f, h)

Next ==
  \/ \E f \in Fetches :
       \/ \E t \in Tokens \cup {None} : GetComparisonHistory(f, t)
       \/ Proceed(f) \/ Done(f)
  \/ Tick

Spec == Init /\ [][Next]_vars

-----------------------------------------------------------------------------
Fetch ==
  [stage: Waiting \cup {"idle", "gecko", "pool", "done"}, token: Tokens \cup {None}, start: Nat,
   pool: Pools \cup {None}, sentAt: Nat, result: Histories \cup {None}]
FetchesOK ==
  /\ fetch \in [Fetches -> Fetch]
  /\ \A f \in Fetches :
       /\ fetch[f].stage = "resolving" => fetch[f].token \in Tokens
       /\ fetch[f].stage \in {"pool", "ohlcv"} => fetch[f].pool \in Pools
CacheOf(cache, keys, values) ==
  /\ DOMAIN cache \subseteq keys
  /\ cache \in [DOMAIN cache -> [value: values \cup {None}, expiresAt: Nat]]
Dropped == Len(sent) - Len(requestTimestamps)
LimiterOK ==
  /\ requestTimestamps \in Seq(Nat) /\ sent \in Seq(Nat)
  /\ Dropped \in Nat
  /\ \A i \in 1..Len(requestTimestamps) : requestTimestamps[i] = sent[Dropped + i]

\* The types of the variables; a fetch asks for the history of a pool only,
\* and the timestamps kept are the latest of those sent.
TypeOK ==
  /\ now \in 0..MaxTime
  /\ FetchesOK
  /\ CacheOf(poolCache, Tokens, Pools) /\ CacheOf(historyCache, Pools, Histories)
  /\ LimiterOK

\* However fetches interleave, no stretch of time as long as the window sees
\* more requests than the limit: each request comes later than a window
\* after the one Limit places before it (reserveRequestSlot).
RateLimitHolds ==
  \A i \in 1..Len(sent) : i + Limit <= Len(sent) => sent[i + Limit] > sent[i] + Window

\* A history served was true less than its time to live, and the time a
\* request may take, before it was asked for, whichever of two overlapping
\* requests was cached last (getPoolHistory).
HistoryIsFresh ==
  \A f \in Fetches : fetch[f].stage = "done" /\ fetch[f].result # None =>
    fetch[f].result + HistoryTTL + HttpTimeout > fetch[f].start

\* An entry that has not expired, a failure too, is replaced only by the
\* outcome of a request that was on its way when the entry was stored: what
\* is known is never asked again (resolvePoolAddress).
KnownPoolsStand ==
  [][\A t \in DOMAIN poolCache :
       poolCache[t].expiresAt > now =>
         \/ t \in DOMAIN poolCache' /\ poolCache'[t] = poolCache[t]
         \/ \E f \in Fetches :
              /\ fetch[f].stage = "resolving" /\ fetch'[f].stage # "resolving"
              /\ fetch[f].token = t
              /\ fetch[f].sentAt <= poolCache[t].expiresAt - ResolutionTTL]_vars

=============================================================================
