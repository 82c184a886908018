----------------------------- MODULE BalanceCache -----------------------------
(***************************************************************************)
(* The balances of the NEAR wallets of one user: BalancesService, which    *)
(* serves rows of balance_cache_entries and asks the NEAR RPC for the      *)
(* wallets that have no unexpired row, and GetPortfolioUseCase, which      *)
(* gives agents a snapshot of the same rows.  Requests overlap: nothing    *)
(* locks a row between the moment it is missed and the upsert of the       *)
(* fetched balance, and answers of the RPC arrive in any order.            *)
(***************************************************************************)
EXTENDS Integers, FiniteSets, FiniteSetsExt

CONSTANTS
  Wallets,
  Requests,     \* calls of getBalances in progress
  Snapshots,    \* calls of GetPortfolioUseCase in progress
  TTL,          \* NEAR_BALANCE_TTL_MS
  MaxTime,      \* the clock: a bound of the model
  MaxBalances   \* successive balances of a wallet: a bound of the model

ASSUME TTLAssumption == TTL \in Nat \ {0}
ASSUME BoundsAssumption == {MaxTime, MaxBalances} \subseteq Nat

VARIABLES
  now,
  balance,     \* the balance a wallet has on chain, as a number of its changes
  replacedAt,  \* when each former balance ceased to be the current one
  cache,       \* the row of a wallet
  request, snapshot

vars == <<now, balance, replacedAt, cache, request, snapshot>>
chain == <<balance, replacedAt>>

Balances == 0..MaxBalances
Time == 0..MaxTime
NoEntry == [value |-> 0, fetchedAt |-> 0, expiresAt |-> 0]
Entry == [value: Balances, fetchedAt: Time, expiresAt: 0..(MaxTime + TTL)]
Entries == UNION {[wallets -> Entry] : wallets \in SUBSET Wallets}

\* A request, its now and its assetId; the wallets it has an entry for, the
\* wallets it still fetches, and those whose fetch was answered.
Request ==
  [stage: {"idle", "started", "fetching", "answered"}, start: Time, filter: {"none", "wrapped"},
   wallets: SUBSET Wallets, entries: Entries, fetching: SUBSET Wallets, fetched: Entries, fetchedAt: Time]
IdleRequest ==
  [stage |-> "idle", start |-> 0, filter |-> "none", wallets |-> {}, entries |-> [w \in {} |-> NoEntry],
   fetching |-> {}, fetched |-> [w \in {} |-> NoEntry], fetchedAt |-> 0]
\* prices: when the price of NEAR in the snapshot is from, if it has one
Snapshot ==
  [stage: {"idle", "started", "answered"}, start: Time, entries: Entries, prices: SUBSET Time]
IdleSnapshot ==
  [stage |-> "idle", start |-> 0, entries |-> [w \in {} |-> NoEntry], prices |-> {}]

Init ==
  /\ now = 0
  /\ balance = [w \in Wallets |-> 0]
  /\ replacedAt = [w \in Wallets |-> [v \in {} |-> 0]]
  /\ cache = [w \in Wallets |-> NoEntry]
  /\ request = [r \in Requests |-> IdleRequest]
  /\ snapshot = [s \in Snapshots |-> IdleSnapshot]

Restricted(f, S) == [x \in DOMAIN f \cap S |-> f[x]]
With(f, x, y) == [z \in DOMAIN f \cup {x} |-> IF z = x THEN y ELSE f[z]]

-----------------------------------------------------------------------------
\* getBalances for all wallets or one of them.  The asset of assetId may be
\* wrapped NEAR, which counts as NEAR; native NEAR is as good as none.
GetBalances(r, wallets, filter) ==
  /\ request[r].stage = "idle"
  /\ request' = [request EXCEPT ![r] =
       [IdleRequest EXCEPT !.stage = "started", !.start = now, !.filter = filter, !.wallets = wallets]]
  /\ UNCHANGED <<now, chain, cache, snapshot>>

\* The rows of the asset asked for that expire after the start of the request
Unexpired(wallets, at) == {w \in wallets : cache[w].expiresAt > at}

BrokenCachedFor(r) == {w \in request[r].wallets : cache[w].expiresAt >= request[r].start}

CachedFor(r) ==
  IF request[r].filter = "wrapped" THEN {} ELSE Unexpired(request[r].wallets, request[r].start)

\* The rows are read, and the other balances are requested.
ReadCache(r) ==
  LET cached == CachedFor(r) IN
  /\ request[r].stage = "started"
  /\ request' = [request EXCEPT ![r].stage = "fetching", ![r].filter = "none",
                                ![r].entries = Restricted(cache, cached),
                                ![r].fetching = request[r].wallets \ cached,
                                ![r].fetchedAt = now]
  /\ UNCHANGED <<now, chain, cache, snapshot>>

\* getNativeBalance: the node evaluates the balance after fetchedAt was taken
RpcReads(r, w) ==
  /\ w \in request[r].fetching \ DOMAIN request[r].fetched
  /\ request' = [request EXCEPT ![r].fetched = With(@, w,
       [value |-> balance[w], fetchedAt |-> request[r].fetchedAt,
        expiresAt |-> request[r].fetchedAt + TTL])]
  /\ UNCHANGED <<now, chain, cache, snapshot>>

\* refreshNearBalance writes the row whatever it holds by then.
Upsert(r, w) ==
  /\ w \in DOMAIN request[r].fetched
  /\ cache' = [cache EXCEPT ![w] = request[r].fetched[w]]
  /\ request' = [request EXCEPT ![r].fetching = @ \ {w},
                                ![r].fetched = Restricted(@, Wallets \ {w}),
                                ![r].entries = With(@, w, request[r].fetched[w])]
  /\ UNCHANGED <<now, chain, snapshot>>

\* The RPC or the upsert of one wallet fails: Promise.allSettled drops it.
RefreshFails(r, w) ==
  /\ w \in request[r].fetching
  /\ request' = [request EXCEPT ![r].fetching = @ \ {w},
                                ![r].fetched = Restricted(@, Wallets \ {w})]
  /\ UNCHANGED <<now, chain, cache, snapshot>>

Answer(r) ==
  /\ request[r].stage = "fetching" /\ request[r].fetching = {}
  /\ request' = [request EXCEPT ![r].stage = "answered"]
  /\ UNCHANGED <<now, chain, cache, snapshot>>

Done(r) ==
  /\ request[r].stage = "answered"
  /\ request' = [request EXCEPT ![r] = IdleRequest]
  /\ UNCHANGED <<now, chain, cache, snapshot>>

-----------------------------------------------------------------------------
\* GetPortfolioUseCase: the wallets are read, then their unexpired rows.
GetPortfolio(s) ==
  /\ snapshot[s].stage = "idle"
  /\ snapshot' = [snapshot EXCEPT ![s] = [IdleSnapshot EXCEPT !.stage = "started", !.start = now]]
  /\ UNCHANGED <<now, chain, cache, request>>

\* The rows become positions; getAssets gives NEAR a price, of any age, or none.
Positions(s, rows) ==
  \E prices \in {{}} \cup (IF rows = {} THEN {} ELSE {{t} : t \in 0..now}) :
    snapshot' = [snapshot EXCEPT ![s].stage = "answered", ![s].prices = prices,
                                 ![s].entries = Restricted(cache, rows)]

BrokenBalancesForUser(s) ==
  /\ snapshot[s].stage = "started"
  /\ Positions(s, {w \in Wallets : cache[w].expiresAt >= now})
  /\ UNCHANGED <<now, chain, cache, request>>

BalancesForUser(s) ==
  /\ snapshot[s].stage = "started"
  /\ Positions(s, Unexpired(Wallets, now))
  /\ UNCHANGED <<now, chain, cache, request>>

SnapshotDone(s) ==
  /\ snapshot[s].stage = "answered"
  /\ snapshot' = [snapshot EXCEPT ![s] = IdleSnapshot]
  /\ UNCHANGED <<now, chain, cache, request>>

FreshnessTimestamps(s) ==
  {snapshot[s].entries[w].fetchedAt : w \in DOMAIN snapshot[s].entries} \cup snapshot[s].prices

BrokenAsOf(s) == Max(FreshnessTimestamps(s))

\* asOf
AsOf(s) == Min(FreshnessTimestamps(s))

-----------------------------------------------------------------------------
\* The wallet is used elsewhere.
BalanceChanges(w) ==
  /\ balance[w] < MaxBalances
  /\ balance' = [balance EXCEPT ![w] = @ + 1]
  /\ replacedAt' = [replacedAt EXCEPT ![w] = With(@, balance[w], now)]
  /\ UNCHANGED <<now, cache, request, snapshot>>

Tick ==
  /\ now < MaxTime
  /\ now' = now + 1
  /\ UNCHANGED <<chain, cache, request, snapshot>>

Next ==
  \/ \E r \in Requests :
       \/ \E wallets \in {Wallets} \cup {{w} : w \in Wallets}, filter \in {"none", "wrapped"} :
            GetBalances(r, wallets, filter)
       \/ ReadCache(r) \/ Answer(r) \/ Done(r)
       \/ \E w \in Wallets : RpcReads(r, w) \/ Upsert(r, w) \/ RefreshFails(r, w)
  \/ \E s \in Snapshots : GetPortfolio(s) \/ BalancesForUser(s) \/ SnapshotDone(s)
  \/ \E w \in Wallets : BalanceChanges(w)
  \/ Tick

Spec == Init /\ [][Next]_vars

-----------------------------------------------------------------------------
\* The types of the variables: replacedAt has the times of all former balances;
\* a request has rows of the wallets asked for, and ends when it has fetched.
TypeOK ==
  /\ now \in Time
  /\ balance \in [Wallets -> Balances]
  /\ replacedAt \in [Wallets -> UNION {[0..(n - 1) -> Time] : n \in Balances}]
  /\ \A w \in Wallets : DOMAIN replacedAt[w] = 0..(balance[w] - 1)
  /\ cache \in [Wallets -> Entry]
  /\ request \in [Requests -> Request]
  /\ \A r \in Requests :
       /\ request[r].fetching \cup DOMAIN request[r].entries \subseteq request[r].wallets
       /\ DOMAIN request[r].fetched \subseteq request[r].fetching
       /\ request[r].fetching # {} => request[r].stage = "fetching"
  /\ snapshot \in [Snapshots -> Snapshot]

\* v was the balance of w at time t or later
StillAt(w, v, t) == v = balance[w] \/ replacedAt[w][v] >= t

\* However requests overlap and overwrite each other's rows, a balance in an
\* answer was on chain less than TTL before the request, or since
\* (BalancesService, NearRpcBalanceService).
BalancesAreFresh ==
  \A r \in Requests : request[r].stage = "answered" =>
    \A w \in DOMAIN request[r].entries :
      StillAt(w, request[r].entries[w].value, (request[r].start + 1) - TTL)

\* "Portfolio snapshots exclude expired balance-cache rows": the same holds
\* of the snapshots given to agents.
PortfolioIsFresh ==
  \A s \in Snapshots : snapshot[s].stage = "answered" =>
    \A w \in DOMAIN snapshot[s].entries :
      StillAt(w, snapshot[s].entries[w].value, (snapshot[s].start + 1) - TTL)

\* "The top-level asOf is the oldest balance or price timestamp": nothing in a
\* snapshot is older than its asOf says.
AsOfIsHonest ==
  \A s \in Snapshots : snapshot[s].stage = "answered" =>
    /\ \A w \in DOMAIN snapshot[s].entries :
         StillAt(w, snapshot[s].entries[w].value, AsOf(s))
    /\ \A t \in snapshot[s].prices : AsOf(s) <= t

=============================================================================
