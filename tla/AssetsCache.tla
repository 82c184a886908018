----------------------------- MODULE AssetsCache -----------------------------
(***************************************************************************)
(* The list of assets of AssetsService: one cache of the tokens of 1Click, *)
(* for every request that needs the list (GET /assets, the look-up of one  *)
(* asset, the comparison of markets).  A request that finds the cache      *)
(* expired asks 1Click by itself, so refreshes overlap and are stored in   *)
(* the order of their answers; a request whose own refresh fails is served *)
(* the cache, however old, if there is one.                                *)
(*                                                                         *)
(* A list is the time at which 1Click composed it and, for two symbols,    *)
(* what it says of their price: not listed (or dropped by isValidToken),   *)
(* without a price, with a price of unknown age, or the time at which the  *)
(* price was updated.  Of several assets with one symbol it is the last.   *)
(***************************************************************************)
EXTENDS Integers

CONSTANTS
  Symbols,      \* of the two tokens somebody asks for
  Requests,     \* requests in progress, or answered last
  TTL,          \* ASSETS_CACHE_TTL_MS
  HttpTimeout,  \* of the 1Click client
  MaxTime, MaxChanges,  \* the clock, and changes of the list at 1Click: bounds of the model
  Absent, Unpriced, Undated,  \* what a list says of a token without the age of a price
  None

ASSUME AssetTimesAssumption == TTL \in Nat \ {0} /\ {HttpTimeout, MaxTime, MaxChanges} \subseteq Nat
ASSUME PriceAssumption == {Absent, Unpriced, Undated, None} \cap Nat = {}

VARIABLES
  now,
  upstream,  \* the tokens as 1Click has them
  changes,   \* how often it has changed them
  cache,     \* the cache entry, or None
  request,   \* the state of every getAssets
  steady     \* the symbols that 1Click has never been without a price of
             \* (a history variable)

assetVars == <<now, upstream, changes, cache, request, steady>>

Times == 0..MaxTime
Price == {Absent, Unpriced, Undated} \cup Times
Priced(price) == price \notin {Absent, Unpriced}

List == [at : Times, price : [Symbols -> Price]]
CacheEntry == [data : List, fetchedAt : Times, expiresAt : Nat]
ASSUME NoneAssumption == None \notin CacheEntry /\ None \notin List

\* stage "asked": 1Click has the request; "answered": its answer is on its way;
\* loaded: whether there was a cache entry when the request began;
\* failed: whether the refresh of this request has.
Request ==
  [stage : {"idle", "asked", "answered", "served", "unavailable"},
   sentAt : Times, data : List \cup {None}, loaded : BOOLEAN, failed : BOOLEAN]
IdleRequest ==
  [stage |-> "idle", sentAt |-> 0, data |-> None, loaded |-> FALSE, failed |-> FALSE]

AssetsInit ==
  /\ now = 0
  /\ upstream \in [Symbols -> {Absent, Unpriced, Undated, 0}]
  /\ changes = 0
  /\ cache = None
  /\ request = [r \in Requests |-> IdleRequest]
  /\ steady = {s \in Symbols : Priced(upstream[s])}

-----------------------------------------------------------------------------
Waiting(r) == request[r].stage \in {"asked", "answered"}

BrokenUnexpired == cache # None /\ cache.expiresAt >= now

Unexpired == cache # None /\ cache.expiresAt > now

\* getAssets is called: the cache answers, or 1Click is asked.
GetAssets(r) ==
  /\ ~Waiting(r)
  /\ request' = [request EXCEPT ![r] =
       IF Unexpired
       THEN [IdleRequest EXCEPT !.stage = "served", !.data = cache.data, !.loaded = TRUE]
       ELSE [IdleRequest EXCEPT !.stage = "asked", !.sentAt = now, !.loaded = cache # None]]
  /\ UNCHANGED <<now, upstream, changes, cache, steady>>

\* 1Click composes its answer.
OneClickReads(r) ==
  /\ request[r].stage = "asked"
  /\ request' = [request EXCEPT ![r].stage = "answered",
                                ![r].data = [at |-> now, price |-> upstream]]
  /\ UNCHANGED <<now, upstream, changes, cache, steady>>

\* The answer arrives and replaces the cache, whatever that holds by now.
Refreshed(r) ==
  /\ request[r].stage = "answered"
  /\ cache' = [data |-> request[r].data, fetchedAt |-> now, expiresAt |-> now + TTL]
  /\ request' = [request EXCEPT ![r] =
       [IdleRequest EXCEPT !.stage = "served", !.data = request[r].data, !.loaded = request[r].loaded]]
  /\ UNCHANGED <<now, upstream, changes, steady>>

BrokenRefreshFailsForgets(r) ==
  /\ Waiting(r)
  /\ cache' = None
  /\ request' = [request EXCEPT ![r] =
       [IdleRequest EXCEPT !.stage = "unavailable", !.loaded = request[r].loaded, !.failed = TRUE]]
  /\ UNCHANGED <<now, upstream, changes, steady>>

\* The request fails or times out: the cache is served as it is now; without
\* one the service is unavailable.
RefreshFails(r) ==
  /\ Waiting(r)
  /\ request' = [request EXCEPT ![r] =
       [IdleRequest EXCEPT !.stage = IF cache = None THEN "unavailable" ELSE "served",
                           !.data = IF cache = None THEN None ELSE cache.data,
                           !.loaded = request[r].loaded, !.failed = TRUE]]
  /\ UNCHANGED <<now, upstream, changes, cache, steady>>

\* 1Click updates a price, or drops the token.
Reprice(s) ==
  /\ upstream[s] # now /\ changes < MaxChanges
  /\ changes' = changes + 1
  /\ upstream' = [upstream EXCEPT ![s] = now]
  /\ UNCHANGED <<now, cache, request, steady>>

Delist(s) ==
  /\ upstream[s] # Absent /\ changes < MaxChanges
  /\ changes' = changes + 1
  /\ upstream' = [upstream EXCEPT ![s] = Absent]
  /\ steady' = steady \ {s}
  /\ UNCHANGED <<now, cache, request>>

\* No request waits longer than the timeout of the client.
AssetsTick ==
  /\ now < MaxTime
  /\ \A r \in Requests : Waiting(r) => now < request[r].sentAt + HttpTimeout
  /\ now' = now + 1
  /\ UNCHANGED <<upstream, changes, cache, request, steady>>

AssetsNext ==
  \/ \E r \in Requests : GetAssets(r) \/ OneClickReads(r) \/ Refreshed(r) \/ RefreshFails(r)
  \/ \E s \in Symbols : Reprice(s) \/ Delist(s)
  \/ AssetsTick

AssetsSpec == AssetsInit /\ [][AssetsNext]_assetVars

-----------------------------------------------------------------------------
\* The types of the variables; requests that wait hold what they need.
AssetsTypeOK ==
  /\ now \in Times /\ upstream \in [Symbols -> Price] /\ changes \in 0..MaxChanges
  /\ cache \in CacheEntry \cup {None}
  /\ request \in [Requests -> Request]
  /\ steady \in SUBSET Symbols
  /\ \A r \in Requests : request[r].stage \in {"answered", "served"} => request[r].data \in List

\* A list that is served was true at 1Click less than the time to live and the
\* timeout of one request ago, unless the refresh of that very request failed:
\* in whatever order the refreshes of overlapping requests are stored, an old
\* answer is never kept for longer than a new one would be (getAssets).
ListIsRecent ==
  [][\A r \in Requests :
       /\ request'[r].stage = "served" /\ request'[r] # request[r] /\ ~request'[r].failed
       => now < request'[r].data.at + HttpTimeout + TTL]_assetVars

=============================================================================
