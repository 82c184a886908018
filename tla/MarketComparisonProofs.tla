------------------------ MODULE MarketComparisonProofs ------------------------
(***************************************************************************)
(* Proofs about MarketComparison and the list of assets it shares with     *)
(* AssetsCache, for every value of the constants.                          *)
(*                                                                         *)
(* ListIsRecent rests on the timeout: an answer that is on its way has     *)
(* been composed after its request was sent, so whatever is stored in the  *)
(* cache was true at most a timeout before (RecentInv).                    *)
(* LoadedTokensStaySupported rests on the cache being replaced, but never  *)
(* emptied: every list anywhere between 1Click and the answer has a price  *)
(* of the steady symbols (SteadyInv, LoadedInv).                           *)
(***************************************************************************)
EXTENDS MarketComparison, TLAPS

\* Answers in flight and the cached list were composed within the timeout.
RecentInv ==
  /\ cache # None =>
       /\ cache.data.at + HttpTimeout >= cache.fetchedAt
       /\ cache.expiresAt = cache.fetchedAt + TTL
  /\ \A r \in Requests :
       /\ Waiting(r) => request[r].sentAt <= now /\ now <= request[r].sentAt + HttpTimeout
       /\ request[r].stage = "answered" => request[r].sentAt <= request[r].data.at

\* Every list prices the steady symbols.
SteadyInv ==
  \A s \in steady :
    /\ Priced(upstream[s])
    /\ cache # None => Priced(cache.data.price[s])
    /\ \A r \in Requests :
         request[r].stage \in {"answered", "served"} => Priced(request[r].data.price[s])

\* A request that found a list is never told there is none.
LoadedInv ==
  \A r \in Requests :
    request[r].loaded => cache # None /\ request[r].stage # "unavailable"

ComparedInv ==
  \A r \in Requests :
    comparison[r].stage = "histories" /\ comparison[r].loaded =>
      \A s \in steady : Priced(comparison[r].asset[s])

ListInv == AssetsTypeOK /\ RecentInv /\ SteadyInv /\ LoadedInv
IInv == ListInv /\ TypeOK /\ ComparedInv /\ LoadedTokensStaySupported /\ PriceOnlyIsFresh

-----------------------------------------------------------------------------
LEMMA Numbers ==
  /\ TTL \in Nat /\ TTL > 0
  /\ HttpTimeout \in Nat /\ MaxTime \in Nat /\ MaxChanges \in Nat /\ PriceStale \in Nat
  /\ Times \subseteq Nat
  /\ \A n \in Nat : Priced(n)
BY AssetTimesAssumption, PriceAssumption, PriceStaleAssumption DEF Times, Priced

RequestOK(q) == q \in Request /\ (q.stage \in {"answered", "served"} => q.data \in List)

\* A step that only writes one well-typed request keeps the requests typed.
LEMMA RequestUpdate ==
  ASSUME AssetsTypeOK, NEW r \in Requests, NEW q, RequestOK(q), request' = [request EXCEPT ![r] = q]
  PROVE  /\ request' \in [Requests -> Request]
         /\ \A p \in Requests : request'[p].stage \in {"answered", "served"} => request'[p].data \in List
BY DEF AssetsTypeOK, RequestOK

\* What the actions write.
LEMMA WrittenRequests ==
  ASSUME AssetsTypeOK, NEW r \in Requests
  PROVE  /\ request[r] \in Request
         /\ cache # None => cache \in CacheEntry /\ cache.data \in List
         /\ \A l \in List, b \in BOOLEAN, c \in BOOLEAN :
              RequestOK([IdleRequest EXCEPT !.stage = "served", !.data = l, !.loaded = b, !.failed = c])
         /\ \A l \in List, b \in BOOLEAN :
              RequestOK([IdleRequest EXCEPT !.stage = "served", !.data = l, !.loaded = b])
         /\ \A b \in BOOLEAN :
              RequestOK([IdleRequest EXCEPT !.stage = "asked", !.sentAt = now, !.loaded = b])
         /\ \A b \in BOOLEAN, c \in BOOLEAN :
              RequestOK([IdleRequest EXCEPT !.stage = "unavailable", !.data = None, !.loaded = b, !.failed = c])
         /\ \A l \in List :
              RequestOK([request[r] EXCEPT !.stage = "answered", !.data = l])
         /\ RequestOK(IdleRequest)
<1>1. 0 \in Times
  BY Numbers DEF Times
<1>2. /\ request[r] \in Request
      /\ cache # None => cache \in CacheEntry /\ cache.data \in List
  BY DEF AssetsTypeOK, CacheEntry
<1>3. ASSUME NEW l \in List, NEW b \in BOOLEAN, NEW c \in BOOLEAN
      PROVE  /\ RequestOK([IdleRequest EXCEPT !.stage = "served", !.data = l, !.loaded = b, !.failed = c])
             /\ RequestOK([IdleRequest EXCEPT !.stage = "served", !.data = l, !.loaded = b])
  BY <1>1 DEF RequestOK, IdleRequest, Request
<1>4. ASSUME NEW b \in BOOLEAN, NEW c \in BOOLEAN
      PROVE  /\ RequestOK([IdleRequest EXCEPT !.stage = "asked", !.sentAt = now, !.loaded = b])
             /\ RequestOK([IdleRequest EXCEPT !.stage = "unavailable", !.data = None, !.loaded = b, !.failed = c])
  BY <1>1 DEF RequestOK, IdleRequest, Request, AssetsTypeOK
<1>5. ASSUME NEW l \in List
      PROVE  RequestOK([request[r] EXCEPT !.stage = "answered", !.data = l])
  BY <1>2 DEF RequestOK, Request
<1>6. RequestOK(IdleRequest)
  BY <1>1 DEF RequestOK, IdleRequest, Request
<1> QED
  BY <1>2, <1>3, <1>4, <1>5, <1>6

\* The list of assets keeps its types.
LEMMA AssetsTypes ==
  ASSUME AssetsTypeOK, AssetsNext
  PROVE  AssetsTypeOK'
<1>1. ASSUME NEW r \in Requests, GetAssets(r) PROVE AssetsTypeOK'
  <2> DEFINE q == IF Unexpired
                  THEN [IdleRequest EXCEPT !.stage = "served", !.data = cache.data, !.loaded = TRUE]
                  ELSE [IdleRequest EXCEPT !.stage = "asked", !.sentAt = now, !.loaded = cache # None]
  <2>1. RequestOK(q)
    BY WrittenRequests DEF Unexpired
  <2>2. request' = [request EXCEPT ![r] = q]
    BY <1>1 DEF GetAssets
  <2> HIDE DEF q
  <2> QED
    BY <1>1, <2>1, <2>2, RequestUpdate DEF GetAssets, AssetsTypeOK
<1>2. ASSUME NEW r \in Requests, OneClickReads(r) PROVE AssetsTypeOK'
  <2> DEFINE l == [at |-> now, price |-> upstream]
             q == [request[r] EXCEPT !.stage = "answered", !.data = l]
  <2>1. l \in List
    BY DEF List, AssetsTypeOK
  <2>2. request' = [request EXCEPT ![r] = q]
    BY <1>2 DEF OneClickReads, AssetsTypeOK
  <2> HIDE DEF l
  <2>3. RequestOK(q)
    BY <2>1, WrittenRequests
  <2> HIDE DEF q
  <2> QED
    BY <1>2, <2>2, <2>3, RequestUpdate DEF OneClickReads, AssetsTypeOK
<1>3. ASSUME NEW r \in Requests, Refreshed(r) PROVE AssetsTypeOK'
  <2> DEFINE q == [IdleRequest EXCEPT !.stage = "served", !.data = request[r].data,
                                      !.loaded = request[r].loaded]
  <2>1. request[r].data \in List /\ request[r].loaded \in BOOLEAN
    BY <1>3, WrittenRequests DEF Refreshed, AssetsTypeOK, Request
  <2>2. RequestOK(q)
    BY <2>1, WrittenRequests
  <2>3. request' = [request EXCEPT ![r] = q]
    BY <1>3 DEF Refreshed
  <2>4. cache' \in CacheEntry
    BY <1>3, <2>1, Numbers DEF Refreshed, CacheEntry, AssetsTypeOK
  <2> HIDE DEF q
  <2> QED
    BY <1>3, <2>2, <2>3, <2>4, RequestUpdate DEF Refreshed, AssetsTypeOK
<1>4. ASSUME NEW r \in Requests, RefreshFails(r) PROVE AssetsTypeOK'
  <2> DEFINE q == [IdleRequest EXCEPT !.stage = IF cache = None THEN "unavailable" ELSE "served",
                                      !.data = IF cache = None THEN None ELSE cache.data,
                                      !.loaded = request[r].loaded, !.failed = TRUE]
  <2>1. request[r].loaded \in BOOLEAN
    BY WrittenRequests DEF Request
  <2>2. RequestOK(q)
    BY <2>1, WrittenRequests
  <2>3. request' = [request EXCEPT ![r] = q]
    BY <1>4 DEF RefreshFails
  <2> HIDE DEF q
  <2> QED
    BY <1>4, <2>2, <2>3, RequestUpdate DEF RefreshFails, AssetsTypeOK
<1>5. ASSUME NEW s \in Symbols, Reprice(s) PROVE AssetsTypeOK'
  BY <1>5, Numbers DEF Reprice, AssetsTypeOK, Price
<1>6. ASSUME NEW s \in Symbols, Delist(s) PROVE AssetsTypeOK'
  BY <1>6, Numbers DEF Delist, AssetsTypeOK, Price
<1>7. ASSUME AssetsTick PROVE AssetsTypeOK'
  BY <1>7, Numbers DEF AssetsTick, AssetsTypeOK, Times
<1> QED
  BY <1>1, <1>2, <1>3, <1>4, <1>5, <1>6, <1>7 DEF AssetsNext

\* The steps of the list, as the composition takes them.
AssetsStep ==
  \/ AssetsNext
  \/ \E r \in Requests : request' = [request EXCEPT ![r] = IdleRequest]
                         /\ UNCHANGED <<now, upstream, changes, cache, steady>>

LEMMA AssetsSteps == ASSUME AssetsTypeOK, AssetsStep PROVE AssetsTypeOK'
<1>1. CASE AssetsNext
  BY <1>1, AssetsTypes
<1>2. ASSUME NEW r \in Requests, request' = [request EXCEPT ![r] = IdleRequest],
             UNCHANGED <<now, upstream, changes, cache, steady>>
      PROVE  AssetsTypeOK'
  <2>1. RequestOK(IdleRequest)
    BY WrittenRequests
  <2> QED
    BY <1>2, <2>1, RequestUpdate DEF AssetsTypeOK
<1> QED
  BY <1>1, <1>2 DEF AssetsStep

\* The steps that can end or extend the life of a list.
LEMMA RecentStep ==
  ASSUME AssetsTypeOK, RecentInv, AssetsStep
  PROVE  RecentInv'
<1> USE DEF RecentInv, Waiting
<1>0. /\ now \in Nat /\ request \in [Requests -> Request]
      /\ \A r \in Requests : request[r].sentAt \in Nat
  BY Numbers DEF AssetsTypeOK, Request
<1>1. ASSUME NEW r \in Requests, GetAssets(r) PROVE RecentInv'
  BY <1>0, <1>1, Numbers DEF GetAssets, IdleRequest
<1>2. ASSUME NEW r \in Requests, OneClickReads(r) PROVE RecentInv'
  BY <1>0, <1>2, Numbers DEF OneClickReads, Request
<1>3. ASSUME NEW r \in Requests, Refreshed(r) PROVE RecentInv'
  <2>1. request[r].data \in List /\ request[r].data.at \in Nat
    BY <1>3, Numbers DEF Refreshed, AssetsTypeOK, List
  <2>2. request[r].data.at + HttpTimeout >= now
    BY <1>0, <1>3, <2>1, Numbers DEF Refreshed
  <2> QED
    BY <1>0, <1>3, <2>1, <2>2, Numbers DEF Refreshed, IdleRequest
<1>4. ASSUME NEW r \in Requests, RefreshFails(r) PROVE RecentInv'
  BY <1>0, <1>4, Numbers DEF RefreshFails, IdleRequest
<1>5. ASSUME NEW s \in Symbols, Reprice(s) \/ Delist(s) PROVE RecentInv'
  BY <1>5 DEF Reprice, Delist
<1>6. ASSUME AssetsTick PROVE RecentInv'
  BY <1>0, <1>6, Numbers DEF AssetsTick
<1>7. ASSUME NEW r \in Requests, request' = [request EXCEPT ![r] = IdleRequest],
             UNCHANGED <<now, upstream, changes, cache, steady>>
      PROVE  RecentInv'
  BY <1>0, <1>7 DEF IdleRequest
<1> QED
  BY <1>1, <1>2, <1>3, <1>4, <1>5, <1>6, <1>7 DEF AssetsStep, AssetsNext

\* What is served is recent: either the cache has not expired, or the list was
\* composed after this request was sent.
LEMMA ServedIsRecent ==
  ASSUME AssetsTypeOK, RecentInv, AssetsStep, NEW r \in Requests,
         request'[r].stage = "served", request'[r] # request[r], ~request'[r].failed
  PROVE  now < request'[r].data.at + HttpTimeout + TTL
<1>0. /\ now \in Nat /\ request \in [Requests -> Request]
      /\ request[r].sentAt \in Nat
  BY Numbers DEF AssetsTypeOK, Request
<1>1. ASSUME NEW q \in Requests, GetAssets(q) PROVE now < request'[r].data.at + HttpTimeout + TTL
  <2>1. q = r /\ Unexpired /\ request'[r].data = cache.data
    BY <1>0, <1>1 DEF GetAssets, IdleRequest
  <2>2. cache.data.at \in Nat /\ cache.fetchedAt \in Nat
    BY <2>1, Numbers DEF Unexpired, AssetsTypeOK, CacheEntry, List
  <2> QED
    BY <1>0, <2>1, <2>2, Numbers DEF Unexpired, RecentInv
<1>2. ASSUME NEW q \in Requests, Refreshed(q) PROVE now < request'[r].data.at + HttpTimeout + TTL
  <2>1. q = r /\ request'[r].data = request[r].data
    BY <1>0, <1>2 DEF Refreshed, IdleRequest
  <2>2. request[r].data.at \in Nat
    BY <1>2, <2>1, Numbers DEF Refreshed, AssetsTypeOK, List
  <2> QED
    BY <1>0, <1>2, <2>1, <2>2, Numbers DEF Refreshed, RecentInv, Waiting
<1>3. ASSUME NEW q \in Requests, OneClickReads(q) \/ RefreshFails(q) PROVE FALSE
  BY <1>0, <1>3 DEF OneClickReads, RefreshFails, IdleRequest, Request
<1>4. ASSUME NEW s \in Symbols, Reprice(s) \/ Delist(s) PROVE FALSE
  BY <1>4 DEF Reprice, Delist
<1>5. ASSUME AssetsTick PROVE FALSE
  BY <1>5 DEF AssetsTick
<1>6. ASSUME NEW q \in Requests, request' = [request EXCEPT ![q] = IdleRequest] PROVE FALSE
  BY <1>0, <1>6 DEF IdleRequest
<1> QED
  BY <1>1, <1>2, <1>3, <1>4, <1>5, <1>6 DEF AssetsStep, AssetsNext

-----------------------------------------------------------------------------
LEMMA NextIsAssetsStep ==
  ASSUME Next
  PROVE  AssetsStep \/ UNCHANGED assetVars
<1>1. ASSUME NEW r \in Requests, GetComparison(r) PROVE AssetsStep
  BY <1>1 DEF GetComparison, AssetsStep, AssetsNext
<1>2. ASSUME NEW r \in Requests, AssetsBySymbol(r) PROVE AssetsStep
  BY <1>2 DEF AssetsBySymbol, AssetsStep
<1>3. ASSUME NEW r \in Requests, AnswerComparison(r) PROVE UNCHANGED assetVars
  BY <1>3 DEF AnswerComparison
<1> QED
  BY <1>1, <1>2, <1>3 DEF Next, AssetsStep, AssetsNext

\* Every change of a request, of the cache and of the prices at 1Click keeps a
\* price for the symbols that stay steady, and keeps the cache.
LEMMA SteadyListStep ==
  ASSUME AssetsTypeOK, LoadedInv, SteadyInv, AssetsStep
  PROVE  LoadedInv' /\ SteadyInv'
<1> USE DEF LoadedInv, SteadyInv
<1>0. /\ request \in [Requests -> Request] /\ steady \subseteq Symbols
      /\ upstream \in [Symbols -> Price]
  BY DEF AssetsTypeOK
<1>1. ASSUME NEW r \in Requests, GetAssets(r) PROVE LoadedInv' /\ SteadyInv'
  <2>1. LoadedInv'
    BY <1>0, <1>1 DEF GetAssets, IdleRequest, Unexpired
  <2>2. SteadyInv'
    BY <1>0, <1>1 DEF GetAssets, IdleRequest, Unexpired
  <2> QED
    BY <2>1, <2>2
<1>2. ASSUME NEW r \in Requests, OneClickReads(r) PROVE LoadedInv' /\ SteadyInv'
  <2>0. request[r] \in Request
    BY <1>0
  <2>1. LoadedInv'
    BY <1>0, <1>2, <2>0 DEF OneClickReads, Request
  <2>2. SteadyInv'
    BY <1>0, <1>2, <2>0 DEF OneClickReads, Request
  <2> QED
    BY <2>1, <2>2
<1>3. ASSUME NEW r \in Requests, Refreshed(r) PROVE LoadedInv' /\ SteadyInv'
  <2>1. cache' # None
    <3>1. request[r].data \in List
      BY <1>3 DEF Refreshed, AssetsTypeOK
    <3>2. cache' \in CacheEntry
      BY <1>3, <3>1, Numbers DEF Refreshed, CacheEntry, AssetsTypeOK
    <3> QED
      BY <3>2, NoneAssumption
  <2>2. LoadedInv'
    BY <1>0, <1>3, <2>1 DEF Refreshed, IdleRequest
  <2>3. SteadyInv'
    BY <1>0, <1>3 DEF Refreshed, IdleRequest
  <2> QED
    BY <2>2, <2>3
<1>4. ASSUME NEW r \in Requests, RefreshFails(r) PROVE LoadedInv' /\ SteadyInv'
  <2>1. LoadedInv'
    BY <1>0, <1>4 DEF RefreshFails, IdleRequest
  <2>2. SteadyInv'
    BY <1>0, <1>4 DEF RefreshFails, IdleRequest
  <2> QED
    BY <2>1, <2>2
<1>5. ASSUME NEW s \in Symbols, Reprice(s) PROVE LoadedInv' /\ SteadyInv'
  <2>1. Priced(now)
    BY Numbers DEF AssetsTypeOK
  <2> QED
    BY <1>0, <1>5, <2>1 DEF Reprice
<1>6. ASSUME NEW s \in Symbols, Delist(s) PROVE LoadedInv' /\ SteadyInv'
  BY <1>0, <1>6 DEF Delist
<1>7. ASSUME AssetsTick PROVE LoadedInv' /\ SteadyInv'
  BY <1>7 DEF AssetsTick
<1>8. ASSUME NEW r \in Requests, request' = [request EXCEPT ![r] = IdleRequest],
             UNCHANGED <<now, upstream, changes, cache, steady>>
      PROVE  LoadedInv' /\ SteadyInv'
  BY <1>0, <1>8 DEF IdleRequest
<1> QED
  BY <1>1, <1>2, <1>3, <1>4, <1>5, <1>6, <1>7, <1>8 DEF AssetsStep, AssetsNext

-----------------------------------------------------------------------------
LEMMA ListStep ==
  ASSUME ListInv, [Next]_vars
  PROVE  ListInv'
<1>1. CASE AssetsStep
  BY <1>1, AssetsSteps, RecentStep, SteadyListStep DEF ListInv
<1>2. CASE UNCHANGED assetVars
  BY <1>2 DEF ListInv, assetVars, AssetsTypeOK, RecentInv, SteadyInv, LoadedInv, Waiting
<1> QED
  BY <1>1, <1>2, NextIsAssetsStep DEF vars

LEMMA ListInit == ASSUME AssetsInit PROVE ListInv
<1>1. 0 \in Times /\ IdleRequest \in Request
  BY Numbers DEF Times, IdleRequest, Request
<1>2. RecentInv /\ SteadyInv /\ LoadedInv
  BY DEF AssetsInit, RecentInv, SteadyInv, LoadedInv, Waiting, IdleRequest
<1>3. AssetsTypeOK
  BY <1>1, Numbers DEF AssetsInit, AssetsTypeOK, IdleRequest, Price
<1> QED
  BY <1>2, <1>3 DEF ListInv

\* A list that is served was true at 1Click less than the time to live and the
\* timeout of one request ago, unless the refresh of that very request failed.
THEOREM RecentTheorem == Spec => ListIsRecent
<1> DEFINE Recent ==
             \A r \in Requests :
               /\ request'[r].stage = "served" /\ request'[r] # request[r] /\ ~request'[r].failed
               => now < request'[r].data.at + HttpTimeout + TTL
<1>1. Init => ListInv
  BY ListInit DEF Init
<1>2. ListInv /\ [Next]_vars => ListInv'
  BY ListStep
<1>3. ListInv /\ [Next]_vars => [Recent]_assetVars
  <2> SUFFICES ASSUME ListInv, Next, assetVars' # assetVars PROVE Recent
    BY DEF vars
  <2>1. AssetsStep
    BY NextIsAssetsStep
  <2> QED
    BY <2>1, ServedIsRecent DEF ListInv
<1> QED
  BY <1>1, <1>2, <1>3, PTL DEF Spec, ListIsRecent

-----------------------------------------------------------------------------
\* The composition keeps its types, and takes priced lists only.
LEMMA ComparisonStep ==
  ASSUME IInv, Next
  PROVE  TypeOK' /\ ComparedInv'
<1>0. /\ comparison \in [Requests -> Comparison] /\ request \in [Requests -> Request]
      /\ steady' \subseteq steady
      /\ AssetsTypeOK'
  <2>1. steady' \subseteq steady
    BY DEF Next, GetComparison, GetAssets, AssetsBySymbol, AnswerComparison, OneClickReads,
           Refreshed, RefreshFails, Reprice, Delist, AssetsTick, assetVars
  <2>2. AssetsTypeOK'
    BY ListStep DEF IInv, ListInv
  <2> QED
    BY <2>1, <2>2 DEF IInv, TypeOK, AssetsTypeOK
<1>1. ASSUME NEW r \in Requests, GetComparison(r) PROVE TypeOK' /\ ComparedInv'
  BY <1>0, <1>1 DEF GetComparison, GetAssets, IdleRequest, IInv, TypeOK, ComparedInv, Comparison
<1>2. ASSUME NEW r \in Requests, AssetsBySymbol(r) PROVE TypeOK' /\ ComparedInv'
  <2> DEFINE q == [stage |-> "histories", loaded |-> request[r].loaded,
                   asset |-> IF request[r].stage = "served" THEN request[r].data.price ELSE NoAssets]
  <2>1. comparison' = [comparison EXCEPT ![r] = q]
    BY <1>2 DEF AssetsBySymbol
  <2>2. request[r] \in Request /\ request[r].loaded \in BOOLEAN
    BY <1>0 DEF Request
  <2>3. q.asset \in [Symbols -> Price]
    BY <2>2 DEF IInv, ListInv, AssetsTypeOK, List, NoAssets, Price
  <2>4. q \in Comparison
    BY <2>2, <2>3 DEF Comparison
  <2>5. q.loaded => \A s \in steady : Priced(q.asset[s])
    BY <1>2 DEF AssetsBySymbol, IInv, ListInv, SteadyInv, LoadedInv
  <2>6. q.stage = "histories"
    OBVIOUS
  <2> HIDE DEF q
  <2>7. ComparedInv'
    BY <1>0, <2>1, <2>5 DEF ComparedInv, IInv
  <2>8. \A p \in Requests : (request'[p].stage # "idle") <=> (comparison'[p].stage = "assets")
    BY <1>0, <1>2, <2>1, <2>6 DEF AssetsBySymbol, IdleRequest, IInv, TypeOK
  <2> QED
    BY <1>0, <1>2, <2>1, <2>4, <2>7, <2>8 DEF AssetsBySymbol, TypeOK
<1>3. ASSUME NEW r \in Requests, AnswerComparison(r) PROVE TypeOK' /\ ComparedInv'
  <2>1. NoComparison \in Comparison
    BY DEF NoComparison, NoAssets, Comparison, Price
  <2>2. ComparedInv'
    BY <1>0, <1>3 DEF AnswerComparison, NoComparison, ComparedInv, IInv, assetVars
  <2>3. \A p \in Requests : (request'[p].stage # "idle") <=> (comparison'[p].stage = "assets")
    BY <1>0, <1>3 DEF AnswerComparison, NoComparison, IInv, TypeOK, assetVars
  <2>4. comparison' \in [Requests -> Comparison]
    BY <1>0, <1>3, <2>1 DEF AnswerComparison
  <2>5. answer' \in Answer
    <3>1. PICK history \in [Symbols -> BOOLEAN] :
            answer' = [asset |-> comparison[r].asset, loaded |-> comparison[r].loaded,
                       token |-> [s \in Symbols |-> tokenStatus(comparison[r].asset[s], history[s])],
                       status |-> comparisonStatus([s \in Symbols |-> tokenStatus(comparison[r].asset[s], history[s])])]
      BY <1>3 DEF AnswerComparison
    <3>2. \A s \in Symbols : tokenStatus(comparison[r].asset[s], history[s]) \in TokenStatus
      BY DEF tokenStatus, TokenStatus
    <3>3. \A token : comparisonStatus(token) \in Status
      BY DEF comparisonStatus, Status
    <3>4. comparison[r].asset \in [Symbols -> Price] /\ comparison[r].loaded \in BOOLEAN
      BY <1>0 DEF Comparison
    <3> QED
      BY <3>1, <3>2, <3>3, <3>4 DEF Answer
  <2> QED
    BY <1>0, <2>2, <2>3, <2>4, <2>5 DEF TypeOK
<1>4. ASSUME NEW r \in Requests, OneClickReads(r) \/ Refreshed(r) \/ RefreshFails(r),
             UNCHANGED comparison, answer' = None
      PROVE  TypeOK' /\ ComparedInv'
  <2>1. request[r].stage # "idle" /\ request'[r].stage # "idle"
    <3>1. CASE OneClickReads(r)
      BY <1>0, <3>1 DEF OneClickReads, Request
    <3>2. CASE Refreshed(r)
      BY <1>0, <3>2 DEF Refreshed, IdleRequest
    <3>3. CASE RefreshFails(r)
      BY <1>0, <3>3 DEF RefreshFails, IdleRequest, Waiting
    <3> QED
      BY <1>4, <3>1, <3>2, <3>3
  <2>2. \A p \in Requests \ {r} : request'[p] = request[p]
    BY <1>0, <1>4 DEF OneClickReads, Refreshed, RefreshFails
  <2>3. \A p \in Requests : (request'[p].stage # "idle") <=> (comparison'[p].stage = "assets")
    BY <1>4, <2>1, <2>2 DEF IInv, TypeOK
  <2>4. ComparedInv'
    BY <1>0, <1>4 DEF ComparedInv, IInv
  <2> QED
    BY <1>0, <1>4, <2>3, <2>4 DEF TypeOK
<1>5. ASSUME (\E s \in Symbols : Reprice(s) \/ Delist(s)) \/ AssetsTick,
             UNCHANGED comparison, answer' = None
      PROVE  TypeOK' /\ ComparedInv'
  BY <1>0, <1>5 DEF Reprice, Delist, AssetsTick, IInv, TypeOK, ComparedInv
<1> QED
  BY <1>1, <1>2, <1>3, <1>4, <1>5 DEF Next

\* An answer gives a token whose price it has at least the price, and calls
\* itself price_only when no price is stale.
LEMMA AnswerStep ==
  ASSUME IInv, Next
  PROVE  LoadedTokensStaySupported' /\ PriceOnlyIsFresh'
<1>1. ASSUME NEW r \in Requests, AnswerComparison(r)
      PROVE  LoadedTokensStaySupported' /\ PriceOnlyIsFresh'
  <2>1. PICK history \in [Symbols -> BOOLEAN] :
          answer' = [asset |-> comparison[r].asset, loaded |-> comparison[r].loaded,
                     token |-> [s \in Symbols |-> tokenStatus(comparison[r].asset[s], history[s])],
                     status |-> comparisonStatus([s \in Symbols |-> tokenStatus(comparison[r].asset[s], history[s])])]
    BY <1>1 DEF AnswerComparison
  <2> DEFINE token == [s \in Symbols |-> tokenStatus(comparison[r].asset[s], history[s])]
  <2>2. /\ comparison[r].stage = "histories"
        /\ steady' = steady /\ now' = now /\ steady \subseteq Symbols
    BY <1>1 DEF AnswerComparison, assetVars, IInv, ListInv, AssetsTypeOK
  <2>3. LoadedTokensStaySupported'
    <3>1. SUFFICES ASSUME comparison[r].loaded, NEW s \in steady PROVE token[s] # "unsupported"
      BY <2>1, <2>2 DEF LoadedTokensStaySupported
    <3>2. Priced(comparison[r].asset[s]) /\ s \in Symbols
      BY <2>2, <3>1 DEF IInv, ComparedInv
    <3> QED
      BY <3>2 DEF tokenStatus
  <2>4. PriceOnlyIsFresh'
    <3>1. SUFFICES ASSUME comparisonStatus(token) = "price_only", NEW s \in Symbols,
                          comparison[r].asset[s] \in Times
                   PROVE  now <= comparison[r].asset[s] + PriceStale
      BY <2>1, <2>2 DEF PriceOnlyIsFresh
    <3>2. token[s] \notin {"history", "stale"}
      BY <3>1 DEF comparisonStatus
    <3>3. Priced(comparison[r].asset[s])
      BY <3>1, Numbers
    <3>4. ~isStalePrice(comparison[r].asset[s])
      BY <3>2, <3>3 DEF tokenStatus
    <3>5. ~(now - comparison[r].asset[s] > PriceStale)
      BY <3>1, <3>4 DEF isStalePrice
    <3>6. now \in Nat /\ PriceStale \in Nat /\ comparison[r].asset[s] \in Nat
      BY <3>1, Numbers DEF IInv, ListInv, AssetsTypeOK
    <3> HIDE DEF token
    <3> QED
      BY <3>5, <3>6
  <2> QED
    BY <2>3, <2>4
<1>2. ASSUME answer' = None
      PROVE  LoadedTokensStaySupported' /\ PriceOnlyIsFresh'
  BY <1>2 DEF LoadedTokensStaySupported, PriceOnlyIsFresh
<1> QED
  BY <1>1, <1>2 DEF Next, GetComparison, AssetsBySymbol

\* The invariant is inductive.
THEOREM InductiveInvariant == Spec => []IInv
<1>1. Init => IInv
  <2> SUFFICES ASSUME Init PROVE IInv
    OBVIOUS
  <2>1. ListInv
    BY ListInit DEF Init
  <2>2. NoComparison \in Comparison
    BY DEF NoComparison, NoAssets, Comparison, Price
  <2>3. TypeOK /\ ComparedInv
    BY <2>1, <2>2 DEF Init, AssetsInit, IdleRequest, NoComparison, ListInv, TypeOK, ComparedInv
  <2> QED
    BY <2>1, <2>3 DEF Init, IInv, LoadedTokensStaySupported, PriceOnlyIsFresh
<1>2. IInv /\ [Next]_vars => IInv'
  <2> SUFFICES ASSUME IInv, [Next]_vars PROVE IInv'
    OBVIOUS
  <2>1. CASE Next
    BY <2>1, ListStep, ComparisonStep, AnswerStep DEF IInv
  <2>2. CASE UNCHANGED vars
    <3>1. ListInv'
      BY <2>2, ListStep DEF IInv
    <3> QED
      BY <2>2, <3>1 DEF vars, assetVars, IInv, ListInv, TypeOK, ComparedInv, LoadedTokensStaySupported, PriceOnlyIsFresh
  <2> QED
    BY <2>1, <2>2
<1> QED
  BY <1>1, <1>2, PTL DEF Spec

\* Once the list has been loaded, a token that 1Click has listed with a price
\* all along is never answered as unsupported.
THEOREM SupportTheorem == Spec => []LoadedTokensStaySupported
<1>1. IInv => LoadedTokensStaySupported
  BY DEF IInv
<1> QED
  BY <1>1, InductiveInvariant, PTL

\* A comparison that claims current prices rests on none known to be stale.
THEOREM FreshTheorem == Spec => []PriceOnlyIsFresh
<1>1. IInv => PriceOnlyIsFresh
  BY DEF IInv
<1> QED
  BY <1>1, InductiveInvariant, PTL

=============================================================================
