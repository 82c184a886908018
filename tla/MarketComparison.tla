--------------------------- MODULE MarketComparison ---------------------------
(***************************************************************************)
(* getComparison of MarketsService, composed with the list of assets that  *)
(* it takes prices from (AssetsCache).                                     *)
(*                                                                         *)
(* A comparison reads the list (getAssetsBySymbol: no assets if that       *)
(* fails), then waits for the two histories, which MarketHistory models;   *)
(* here each is there or not.  The age of a price is judged when the       *)
(* answer is put together.                                                 *)
(***************************************************************************)
EXTENDS AssetsCache

CONSTANT PriceStale  \* priceStaleMs

ASSUME PriceStaleAssumption == PriceStale \in Nat

VARIABLES
  comparison,  \* of each request, the comparison it is made for
  answer       \* what the last step has answered, if it was an answer

vars == <<assetVars, comparison, answer>>

TokenStatus == {"history", "price_only", "stale", "unsupported"}
Status == {"ready", "partial", "stale", "price_only", "unsupported"}
NoAssets == [s \in Symbols |-> Absent]

\* loaded: whether there was a cached list when the comparison began
Comparison ==
  [stage : {"none", "assets", "histories"}, asset : [Symbols -> Price], loaded : BOOLEAN]
NoComparison == [stage |-> "none", asset |-> NoAssets, loaded |-> FALSE]
Answer ==
  [asset : [Symbols -> Price], loaded : BOOLEAN, token : [Symbols -> TokenStatus], status : Status]
ASSUME NoAnswerAssumption == None \notin Answer

Init ==
  /\ AssetsInit
  /\ comparison = [r \in Requests |-> NoComparison] /\ answer = None

-----------------------------------------------------------------------------
\* getComparison asks for the list, as GET /assets and findAssetById do.
GetComparison(r) ==
  /\ comparison[r].stage = "none" /\ GetAssets(r)
  /\ comparison' = [comparison EXCEPT ![r].stage = "assets"]
  /\ answer' = None

\* getAssetsBySymbol
AssetsBySymbol(r) ==
  /\ comparison[r].stage = "assets" /\ request[r].stage \in {"served", "unavailable"}
  /\ comparison' = [comparison EXCEPT ![r] =
       [stage |-> "histories", loaded |-> request[r].loaded,
        asset |-> IF request[r].stage = "served" THEN request[r].data.price ELSE NoAssets]]
  /\ request' = [request EXCEPT ![r] = IdleRequest]
  /\ answer' = None
  /\ UNCHANGED <<now, upstream, changes, cache, steady>>

isStalePrice(price) == price \in Times /\ now - price > PriceStale

tokenStatus(price, historyAvailable) ==
  CASE historyAvailable -> "history"
    [] ~historyAvailable /\ ~Priced(price) -> "unsupported"
    [] ~historyAvailable /\ Priced(price) /\ isStalePrice(price) -> "stale"
    [] OTHER -> "price_only"

BrokenComparisonStatus(token) ==
  LET statuses == {token[s] : s \in Symbols} IN
  IF statuses = {"history"} THEN "ready"
  ELSE IF "history" \in statuses THEN "partial"
  ELSE IF "price_only" \in statuses THEN "price_only"
  ELSE IF "stale" \in statuses THEN "stale"
  ELSE "unsupported"

comparisonStatus(token) ==
  LET statuses == {token[s] : s \in Symbols} IN
  IF statuses = {"history"} THEN "ready"
  ELSE IF "history" \in statuses THEN "partial"
  ELSE IF "stale" \in statuses THEN "stale"
  ELSE IF "price_only" \in statuses THEN "price_only"
  ELSE "unsupported"

\* Both histories are there, or known not to be.
AnswerComparison(r) ==
  /\ comparison[r].stage = "histories"
  /\ \E history \in [Symbols -> BOOLEAN] :
       LET token == [s \in Symbols |-> tokenStatus(comparison[r].asset[s], history[s])] IN
       answer' = [asset |-> comparison[r].asset, loaded |-> comparison[r].loaded,
                  token |-> token, status |-> comparisonStatus(token)]
  /\ comparison' = [comparison EXCEPT ![r] = NoComparison]
  /\ UNCHANGED assetVars

Next ==
  \/ \E r \in Requests : GetComparison(r) \/ AssetsBySymbol(r) \/ AnswerComparison(r)
  \/ /\ \/ \E r \in Requests : OneClickReads(r) \/ Refreshed(r) \/ RefreshFails(r)
        \/ \E s \in Symbols : Reprice(s) \/ Delist(s)
        \/ AssetsTick
     /\ answer' = None
     /\ UNCHANGED comparison

Spec == Init /\ [][Next]_vars

-----------------------------------------------------------------------------
\* The types of the variables; a comparison takes the list of its own request.
TypeOK ==
  /\ AssetsTypeOK
  /\ comparison \in [Requests -> Comparison]
  /\ answer \in Answer \cup {None}
  /\ \A r \in Requests : (request[r].stage # "idle") <=> (comparison[r].stage = "assets")

\* Once the list has been loaded, a token that 1Click has listed with a price
\* all along is never answered as unsupported, whichever refreshes fail
\* (getAssets serves the last list, getAssetsBySymbol hides a failure).
LoadedTokensStaySupported ==
  answer # None /\ answer.loaded => \A s \in steady : answer.token[s] # "unsupported"

\* A comparison that claims to have current prices at least rests on no price
\* known to be older than the limit when it is answered, however long the list
\* was cached and the histories took (toComparisonToken, comparisonStatus).
PriceOnlyIsFresh ==
  answer # None /\ answer.status = "price_only" =>
    \A s \in Symbols : answer.asset[s] \in Times => now <= answer.asset[s] + PriceStale

=============================================================================
