------------------------- MODULE BalanceCacheProofs -------------------------
(***************************************************************************)
(* Proofs about BalanceCache, for any wallets, requests and snapshots and  *)
(* any time to live: its types, and the freshness of what it answers.      *)
(***************************************************************************)
EXTENDS BalanceCache, WellFoundedInduction, TLAPS

\* e is what the node said of the balance of w at e.fetchedAt or later.
Real(w, e) ==
  /\ e.expiresAt = e.fetchedAt + TTL
  /\ e.fetchedAt <= now
  /\ e.value <= balance[w]
  /\ e.value # balance[w] => replacedAt[w][e.value] >= e.fetchedAt

CacheOK == \A w \in Wallets : cache[w] = NoEntry \/ Real(w, cache[w])

\* What a request or a snapshot holds was not expired when it began.
HasRows(q) == \A w \in DOMAIN q.entries : Real(w, q.entries[w]) /\ q.entries[w].expiresAt > q.start
HasFetched(q) == \A w \in DOMAIN q.fetched : Real(w, q.fetched[w]) /\ q.fetched[w].fetchedAt = q.fetchedAt
Timely(q) ==
  /\ q.start <= now /\ q.fetchedAt <= now
  /\ q.stage = "fetching" => q.start <= q.fetchedAt

RequestsOK == \A r \in Requests : Timely(request[r]) /\ HasRows(request[r]) /\ HasFetched(request[r])
SnapshotsOK == \A s \in Snapshots : snapshot[s].start <= now /\ HasRows(snapshot[s])

IInv == TypeOK /\ CacheOK /\ RequestsOK /\ SnapshotsOK

-----------------------------------------------------------------------------
\* The types of the operators
LEMMA Constants ==
  /\ TTL \in Nat \ {0} /\ MaxTime \in Nat /\ MaxBalances \in Nat
  /\ NoEntry \in Entry
BY TTLAssumption, BoundsAssumption DEF NoEntry, Entry, Balances, Time

LEMMA RowsOf ==
  ASSUME NEW f \in Entries
  PROVE  /\ DOMAIN f \in SUBSET Wallets /\ f \in [DOMAIN f -> Entry]
         /\ \A w \in DOMAIN f : w \in Wallets /\ f[w] \in Entry
BY DEF Entries

LEMMA RowsAre ==
  ASSUME NEW S \in SUBSET Wallets, NEW f \in [S -> Entry]
  PROVE  f \in Entries
BY DEF Entries

LEMMA RestrictedRows ==
  ASSUME NEW T \in SUBSET Wallets, NEW f \in [T -> Entry], NEW S
  PROVE  /\ Restricted(f, S) \in Entries /\ DOMAIN Restricted(f, S) = T \cap S
         /\ \A w \in T \cap S : Restricted(f, S)[w] = f[w]
<1>1. DOMAIN Restricted(f, S) = T \cap S /\ \A w \in T \cap S : Restricted(f, S)[w] = f[w]
  BY DEF Restricted
<1>2. Restricted(f, S) \in [T \cap S -> Entry]
  BY DEF Restricted
<1> QED
  BY <1>1, <1>2, RowsAre

\* g is f without a row for w, or with e as the row for w.
Without(g, f, w) == DOMAIN g = DOMAIN f \ {w} /\ \A v \in DOMAIN g : g[v] = f[v]
Extended(g, f, w, e) ==
  /\ DOMAIN g = DOMAIN f \cup {w} /\ g[w] = e
  /\ \A v \in DOMAIN f : v # w => g[v] = f[v]

LEMMA WithoutRow ==
  ASSUME NEW f \in Entries, NEW w \in Wallets, NEW g, g = Restricted(f, Wallets \ {w})
  PROVE  g \in Entries /\ Without(g, f, w)
<1>1. DOMAIN f \cap (Wallets \ {w}) = DOMAIN f \ {w}
  BY RowsOf
<1>2. g \in [DOMAIN f \ {w} -> Entry]
  BY <1>1, RowsOf DEF Restricted
<1>3. DOMAIN f \ {w} \in SUBSET Wallets
  BY RowsOf
<1>4. g \in Entries
  BY <1>2, <1>3, RowsAre
<1> QED
  BY <1>1, <1>4 DEF Restricted, Without

LEMMA WithRow ==
  ASSUME NEW f \in Entries, NEW w \in Wallets, NEW e \in Entry, NEW g, g = With(f, w, e)
  PROVE  g \in Entries /\ Extended(g, f, w, e)
<1>1. g \in [DOMAIN f \cup {w} -> Entry]
  BY RowsOf DEF With
<1>2. DOMAIN f \cup {w} \in SUBSET Wallets
  BY RowsOf
<1>3. g \in Entries
  BY <1>1, <1>2, RowsAre
<1> QED
  BY <1>3 DEF With, Extended

LEMMA NoRows ==
  /\ [w \in {} |-> NoEntry] \in Entries /\ DOMAIN [w \in {} |-> NoEntry] = {}
<1>1. [w \in {} |-> NoEntry] \in [{} -> Entry]
  OBVIOUS
<1> QED
  BY <1>1, RowsAre

LEMMA IdleTypes == IdleRequest \in Request /\ IdleSnapshot \in Snapshot
<1>1. 0 \in Time
  BY Constants DEF Time
<1> QED
  BY <1>1, NoRows DEF IdleRequest, IdleSnapshot, Request, Snapshot

-----------------------------------------------------------------------------
\* What the node has said stays so.
LEMMA RealStep ==
  ASSUME TypeOK, [Next]_vars
  PROVE  \A w \in Wallets, e \in Entry : Real(w, e) => Real(w, e)'
<1> SUFFICES ASSUME NEW w \in Wallets, NEW e \in Entry, Real(w, e) PROVE Real(w, e)'
  OBVIOUS
<1> USE Constants DEF Real
<1>1. ASSUME UNCHANGED <<now, chain>> PROVE Real(w, e)'
  BY <1>1 DEF chain
<1>2. ASSUME Tick PROVE Real(w, e)'
  BY <1>2 DEF Tick, chain, TypeOK, Entry, Time
<1>3. ASSUME NEW v \in Wallets, BalanceChanges(v) PROVE Real(w, e)'
  <2>1. /\ balance[v] \in Nat /\ balance[w] \in Nat /\ e.value \in Nat /\ e.fetchedAt \in Nat /\ now \in Nat
        /\ balance'[v] = balance[v] + 1 /\ now' = now
        /\ v # w => balance'[w] = balance[w]
    BY <1>3 DEF BalanceChanges, TypeOK, Balances, Time, Entry
  <2>2. /\ DOMAIN replacedAt[w] = 0..(balance[w] - 1)
        /\ v # w => replacedAt'[w] = replacedAt[w]
        /\ replacedAt'[v] = With(replacedAt[v], balance[v], now)
    BY <1>3 DEF BalanceChanges, TypeOK
  <2>3. CASE v # w
    BY <2>1, <2>2, <2>3
  <2>4. CASE v = w
    <3>1. \A n \in 0..balance[w] :
            replacedAt'[w][n] = IF n = balance[w] THEN now ELSE replacedAt[w][n]
      BY <2>1, <2>2, <2>4 DEF With
    <3> QED
      BY <2>1, <2>4, <3>1
  <2> QED
    BY <2>3, <2>4
<1> QED
  BY <1>1, <1>2, <1>3
     DEF Next, vars, GetBalances, ReadCache, Answer, Done, RpcReads, Upsert, RefreshFails,
         GetPortfolio, BalancesForUser, SnapshotDone

-----------------------------------------------------------------------------
\* The action on request r leaves it as q.
Asks(r, q) ==
  /\ request' \in [Requests -> Request] /\ q \in Request
  /\ request'[r] = q
  /\ \A o \in Requests : o # r => request'[o] = request[o]

LEMMA GetBalancesStep ==
  ASSUME TypeOK, NEW r \in Requests, NEW wallets \in SUBSET Wallets, NEW filter \in {"none", "wrapped"},
         GetBalances(r, wallets, filter)
  PROVE  \E q \in Request :
           /\ Asks(r, q)
           /\ q.stage = "started" /\ q.start = now /\ q.fetchedAt = 0
           /\ DOMAIN q.entries = {} /\ DOMAIN q.fetched = {} /\ q.fetching = {}
<1> DEFINE q == [IdleRequest EXCEPT !.stage = "started", !.start = now, !.filter = filter, !.wallets = wallets]
<1>1. q \in Request
  BY IdleTypes DEF TypeOK, Request
<1>2. /\ q.stage = "started" /\ q.start = now /\ q.fetchedAt = 0 /\ q.fetching = {}
      /\ DOMAIN q.entries = {} /\ DOMAIN q.fetched = {}
  BY NoRows DEF IdleRequest
<1>3. Asks(r, q)
  BY <1>1 DEF GetBalances, TypeOK, Asks
<1> QED
  BY <1>1, <1>2, <1>3

LEMMA ReadCacheStep ==
  ASSUME TypeOK, NEW r \in Requests, ReadCache(r)
  PROVE  \E q \in Request :
           /\ Asks(r, q) /\ request[r].stage = "started"
           /\ q.stage = "fetching" /\ q.start = request[r].start /\ q.fetchedAt = now
           /\ q.fetched = request[r].fetched /\ q.wallets = request[r].wallets
           /\ q.entries = Restricted(cache, CachedFor(r)) /\ q.fetching \in SUBSET q.wallets
<1>1. request[r] \in Request /\ request \in [Requests -> Request] /\ now \in Time
  BY DEF TypeOK
<1>2. PICK rows : rows = Restricted(cache, CachedFor(r))
  OBVIOUS
<1>3. rows \in Entries
  BY <1>2, RestrictedRows DEF TypeOK
<1>4. PICK missing : missing = request[r].wallets \ CachedFor(r)
  OBVIOUS
<1>5. missing \in SUBSET request[r].wallets /\ missing \in SUBSET Wallets
  BY <1>1, <1>4 DEF Request
<1>6. request' = [request EXCEPT ![r].stage = "fetching", ![r].filter = "none", ![r].entries = rows,
                                 ![r].fetching = missing, ![r].fetchedAt = now]
  BY <1>2, <1>4 DEF ReadCache
<1>7. Asks(r, request'[r])
  BY <1>1, <1>3, <1>5, <1>6 DEF Asks, Request
<1>8. /\ request'[r].stage = "fetching" /\ request'[r].start = request[r].start
      /\ request'[r].fetchedAt = now /\ request'[r].fetched = request[r].fetched
      /\ request'[r].wallets = request[r].wallets
      /\ request'[r].entries = rows /\ request'[r].fetching = missing
  BY <1>1, <1>6 DEF Request
<1>9. request[r].stage = "started"
  BY DEF ReadCache
<1> QED
  BY <1>2, <1>5, <1>7, <1>8, <1>9 DEF Asks

LEMMA RpcReadsStep ==
  ASSUME TypeOK, NEW r \in Requests, NEW w \in Wallets, RpcReads(r, w)
  PROVE  \E q \in Request, e \in Entry :
           /\ Asks(r, q) /\ w \in request[r].fetching
           /\ e.value = balance[w] /\ e.fetchedAt = request[r].fetchedAt /\ e.expiresAt = e.fetchedAt + TTL
           /\ Extended(q.fetched, request[r].fetched, w, e)
           /\ q.stage = request[r].stage /\ q.start = request[r].start /\ q.fetchedAt = request[r].fetchedAt
           /\ q.entries = request[r].entries /\ q.fetching = request[r].fetching
           /\ q.wallets = request[r].wallets
<1>1. request[r] \in Request /\ request \in [Requests -> Request]
  BY DEF TypeOK
<1>2. PICK e : e = [value |-> balance[w], fetchedAt |-> request[r].fetchedAt,
                    expiresAt |-> request[r].fetchedAt + TTL]
  OBVIOUS
<1>3. e \in Entry
  BY <1>1, <1>2, Constants DEF TypeOK, Entry, Request, Time
<1>4. PICK rows : rows = With(request[r].fetched, w, e)
  OBVIOUS
<1>5. rows \in Entries /\ Extended(rows, request[r].fetched, w, e)
  BY <1>1, <1>3, <1>4, WithRow DEF Request
<1>6. request' = [request EXCEPT ![r].fetched = rows]
  BY <1>2, <1>4 DEF RpcReads
<1>7. Asks(r, request'[r])
  BY <1>1, <1>5, <1>6 DEF Asks, Request
<1>8. /\ request'[r].stage = request[r].stage /\ request'[r].start = request[r].start
      /\ request'[r].fetchedAt = request[r].fetchedAt /\ request'[r].wallets = request[r].wallets
      /\ request'[r].fetched = rows /\ request'[r].fetching = request[r].fetching
      /\ request'[r].entries = request[r].entries
  BY <1>1, <1>6 DEF Request
<1>9. /\ e.value = balance[w] /\ e.fetchedAt = request[r].fetchedAt
      /\ e.expiresAt = request[r].fetchedAt + TTL
  BY <1>2
<1>10. w \in request[r].fetching
  BY DEF RpcReads
<1> QED
  BY <1>3, <1>5, <1>7, <1>8, <1>9, <1>10 DEF Asks

LEMMA UpsertStep ==
  ASSUME TypeOK, NEW r \in Requests, NEW w \in Wallets, Upsert(r, w)
  PROVE  \E q \in Request, e \in Entry :
           /\ Asks(r, q) /\ w \in DOMAIN request[r].fetched /\ e = request[r].fetched[w]
           /\ cache' = [cache EXCEPT ![w] = e]
           /\ Without(q.fetched, request[r].fetched, w)
           /\ Extended(q.entries, request[r].entries, w, e) /\ q.fetching = request[r].fetching \ {w}
           /\ q.stage = request[r].stage /\ q.start = request[r].start /\ q.fetchedAt = request[r].fetchedAt
           /\ q.wallets = request[r].wallets
<1>1. request[r] \in Request /\ request \in [Requests -> Request]
  BY DEF TypeOK
<1>2. PICK e : e = request[r].fetched[w]
  OBVIOUS
<1>3. e \in Entry /\ w \in DOMAIN request[r].fetched
  BY <1>1, <1>2, RowsOf DEF Upsert, Request
<1>4. PICK rows : rows = With(request[r].entries, w, e)
  OBVIOUS
<1>5. rows \in Entries /\ Extended(rows, request[r].entries, w, e)
  BY <1>1, <1>3, <1>4, WithRow DEF Request
<1>6. PICK rest : rest = Restricted(request[r].fetched, Wallets \ {w})
  OBVIOUS
<1>7. rest \in Entries /\ Without(rest, request[r].fetched, w)
  BY <1>1, <1>6, WithoutRow DEF Request
<1>8. request' = [request EXCEPT ![r].fetching = @ \ {w}, ![r].fetched = rest, ![r].entries = rows]
  BY <1>2, <1>4, <1>6 DEF Upsert
<1>9. Asks(r, request'[r])
  BY <1>1, <1>5, <1>7, <1>8 DEF Asks, Request
<1>10. /\ request'[r].stage = request[r].stage /\ request'[r].start = request[r].start
       /\ request'[r].fetchedAt = request[r].fetchedAt /\ request'[r].wallets = request[r].wallets
       /\ request'[r].fetched = rest /\ request'[r].fetching = request[r].fetching \ {w}
       /\ request'[r].entries = rows
  BY <1>1, <1>8 DEF Request
<1>11. cache' = [cache EXCEPT ![w] = e]
  BY <1>2 DEF Upsert
<1> QED
  BY <1>2, <1>3, <1>5, <1>7, <1>9, <1>10, <1>11 DEF Asks

LEMMA RefreshFailsStep ==
  ASSUME TypeOK, NEW r \in Requests, NEW w \in Wallets, RefreshFails(r, w)
  PROVE  \E q \in Request :
           /\ Asks(r, q)
           /\ Without(q.fetched, request[r].fetched, w)
           /\ q.entries = request[r].entries /\ q.fetching = request[r].fetching \ {w}
           /\ q.stage = request[r].stage /\ q.start = request[r].start /\ q.fetchedAt = request[r].fetchedAt
           /\ q.wallets = request[r].wallets
<1>1. request[r] \in Request /\ request \in [Requests -> Request]
  BY DEF TypeOK
<1>2. PICK rest : rest = Restricted(request[r].fetched, Wallets \ {w})
  OBVIOUS
<1>3. rest \in Entries /\ Without(rest, request[r].fetched, w)
  BY <1>1, <1>2, WithoutRow DEF Request
<1>4. request' = [request EXCEPT ![r].fetching = @ \ {w}, ![r].fetched = rest]
  BY <1>2 DEF RefreshFails
<1>5. Asks(r, request'[r])
  BY <1>1, <1>3, <1>4 DEF Asks, Request
<1>6. /\ request'[r].stage = request[r].stage /\ request'[r].start = request[r].start
      /\ request'[r].fetchedAt = request[r].fetchedAt /\ request'[r].wallets = request[r].wallets
      /\ request'[r].fetched = rest /\ request'[r].fetching = request[r].fetching \ {w}
      /\ request'[r].entries = request[r].entries
  BY <1>1, <1>4 DEF Request
<1> QED
  BY <1>3, <1>5, <1>6 DEF Asks

LEMMA AnswerStep ==
  ASSUME TypeOK, NEW r \in Requests, Answer(r)
  PROVE  \E q \in Request :
           /\ Asks(r, q) /\ request[r].fetching = {} /\ q.stage = "answered"
           /\ q.fetched = request[r].fetched /\ q.entries = request[r].entries /\ q.fetching = request[r].fetching
           /\ q.start = request[r].start /\ q.fetchedAt = request[r].fetchedAt
           /\ q.wallets = request[r].wallets
<1>1. request[r] \in Request /\ request \in [Requests -> Request]
  BY DEF TypeOK
<1>2. Asks(r, request'[r])
  BY <1>1 DEF Answer, Asks, Request
<1> QED
  BY <1>1, <1>2 DEF Answer, Asks, Request

-----------------------------------------------------------------------------
\* The rest of the type of a request
Shaped(q) ==
  /\ q.fetching \cup DOMAIN q.entries \subseteq q.wallets
  /\ DOMAIN q.fetched \subseteq q.fetching
  /\ q.fetching # {} => q.stage = "fetching"

LEMMA Later ==
  ASSUME TypeOK, [Next]_vars
  PROVE  now <= now' /\ now' \in Time
<1>1. now \in Nat /\ now \in Time
  BY Constants DEF TypeOK, Time
<1>2. CASE Tick
  BY <1>1, <1>2, Constants DEF Tick, Time
<1>3. CASE UNCHANGED now
  BY <1>1, <1>3
<1> QED
  BY <1>2, <1>3
     DEF Next, vars, GetBalances, ReadCache, Answer, Done, RpcReads, Upsert, RefreshFails,
         GetPortfolio, BalancesForUser, SnapshotDone, BalanceChanges

\* What held of an untouched request or snapshot still does.
LEMMA RequestKept ==
  ASSUME TypeOK, [Next]_vars, NEW q \in Request, Timely(q), HasRows(q), HasFetched(q)
  PROVE  Timely(q)' /\ HasRows(q)' /\ HasFetched(q)'
<1>1. /\ q.start \in Nat /\ q.fetchedAt \in Nat /\ now \in Nat /\ now' \in Nat /\ now <= now'
  BY Later DEF Request, TypeOK, Time
<1>2. /\ \A w \in DOMAIN q.entries : w \in Wallets /\ q.entries[w] \in Entry
      /\ \A w \in DOMAIN q.fetched : w \in Wallets /\ q.fetched[w] \in Entry
  BY RowsOf DEF Request
<1>3. Timely(q)'
  BY <1>1 DEF Timely
<1>4. HasRows(q)' /\ HasFetched(q)'
  BY <1>2, RealStep DEF HasRows, HasFetched
<1> QED
  BY <1>3, <1>4

LEMMA SnapshotKept ==
  ASSUME TypeOK, [Next]_vars, NEW q \in Snapshot, q.start <= now, HasRows(q)
  PROVE  q.start <= now' /\ HasRows(q)'
<1>1. /\ q.start \in Nat /\ now \in Nat /\ now' \in Nat /\ now <= now'
  BY Later DEF Snapshot, TypeOK, Time
<1>2. \A w \in DOMAIN q.entries : w \in Wallets /\ q.entries[w] \in Entry
  BY RowsOf DEF Snapshot
<1> QED
  BY <1>1, <1>2, RealStep DEF HasRows

-----------------------------------------------------------------------------
LEMMA InvInit == Init => IInv
<1> SUFFICES ASSUME Init PROVE IInv
  OBVIOUS
<1>1. 0 \in Time /\ 0 \in Balances
  BY Constants DEF Time, Balances
<1>2. /\ now = 0 /\ \A w \in Wallets : balance[w] = 0 /\ cache[w] = NoEntry
      /\ \A r \in Requests : request[r] = IdleRequest
      /\ \A s \in Snapshots : snapshot[s] = IdleSnapshot
  BY DEF Init
<1>3. TypeOK
  <2>1. [v \in {} |-> 0] \in [0..(0 - 1) -> Time] /\ DOMAIN [v \in {} |-> 0] = 0..(0 - 1)
    OBVIOUS
  <2>2. replacedAt \in [Wallets -> UNION {[0..(n - 1) -> Time] : n \in Balances}]
    BY <1>1, <2>1 DEF Init
  <2>3. \A w \in Wallets : DOMAIN replacedAt[w] = 0..(balance[w] - 1)
    BY <1>2, <2>1 DEF Init
  <2>4. \A r \in Requests :
          /\ request[r].fetching \cup DOMAIN request[r].entries \subseteq request[r].wallets
          /\ DOMAIN request[r].fetched \subseteq request[r].fetching
          /\ request[r].fetching # {} => request[r].stage = "fetching"
    BY <1>2, NoRows DEF IdleRequest
  <2>5. request \in [Requests -> Request] /\ snapshot \in [Snapshots -> Snapshot]
    BY IdleTypes DEF Init
  <2>6. /\ now \in Time /\ balance \in [Wallets -> Balances] /\ cache \in [Wallets -> Entry]
    BY <1>1, Constants DEF Init
  <2> QED
    BY <2>2, <2>3, <2>4, <2>5, <2>6 DEF TypeOK
<1>4. CacheOK
  BY <1>2 DEF CacheOK
<1>5. RequestsOK
  <2>1. Timely(IdleRequest) /\ HasRows(IdleRequest) /\ HasFetched(IdleRequest)
    BY <1>2, NoRows DEF IdleRequest, Timely, HasRows, HasFetched
  <2> QED
    BY <1>2, <2>1 DEF RequestsOK
<1>6. SnapshotsOK
  BY <1>2, NoRows DEF SnapshotsOK, IdleSnapshot, HasRows
<1> QED
  BY <1>3, <1>4, <1>5, <1>6 DEF IInv

\* A step of one request
LEMMA RequestStep ==
  ASSUME IInv, Next, UNCHANGED <<now, chain, snapshot>>, cache' \in [Wallets -> Entry], CacheOK',
         NEW r \in Requests, NEW q \in Request,
         Asks(r, q), Shaped(q), Timely(q), HasRows(q), HasFetched(q)
  PROVE  IInv'
<1>1. \A o \in Requests : request'[o] = IF o = r THEN q ELSE request[o]
  BY DEF Asks
<1>2. \A o \in Requests : request[o] \in Request /\ Shaped(request[o])
  BY DEF IInv, TypeOK, Shaped
<1>3. \A o \in Requests : Shaped(request'[o])
  BY <1>1, <1>2
<1>4. TypeOK'
  BY <1>3 DEF Asks, IInv, TypeOK, chain, Shaped
<1>5. RequestsOK'
  <2>1. ASSUME NEW p \in Request, Timely(p), HasRows(p), HasFetched(p)
        PROVE  Timely(p)' /\ HasRows(p)' /\ HasFetched(p)'
    BY <2>1, RequestKept DEF IInv
  <2>2. \A o \in Requests : \E p \in Request :
          request'[o] = p /\ Timely(p) /\ HasRows(p) /\ HasFetched(p)
    BY <1>1, <1>2 DEF IInv, RequestsOK
  <2>3. ASSUME NEW o \in Requests
        PROVE  Timely(request[o])' /\ HasRows(request[o])' /\ HasFetched(request[o])'
    <3>1. PICK p \in Request : request'[o] = p /\ Timely(p) /\ HasRows(p) /\ HasFetched(p)
      BY <2>2
    <3>2. Timely(p)' /\ HasRows(p)' /\ HasFetched(p)'
      BY <2>1, <3>1
    <3> QED
      BY <3>1, <3>2 DEF Timely, HasRows, HasFetched, Real
  <2> QED
    BY <2>3 DEF RequestsOK
<1>6. SnapshotsOK'
  BY DEF IInv, SnapshotsOK, HasRows, Real, chain
<1> QED
  BY <1>4, <1>5, <1>6 DEF IInv

LEMMA SameCache ==
  ASSUME IInv, UNCHANGED <<now, chain, cache>>
  PROVE  cache' \in [Wallets -> Entry] /\ CacheOK'
BY DEF IInv, TypeOK, CacheOK, Real, chain

LEMMA RequestIs ==
  ASSUME IInv, NEW r \in Requests
  PROVE  /\ request[r] \in Request /\ Shaped(request[r])
         /\ Timely(request[r]) /\ HasRows(request[r]) /\ HasFetched(request[r])
         /\ request[r].start \in Nat /\ request[r].fetchedAt \in Nat /\ now \in Nat
BY DEF IInv, TypeOK, Shaped, RequestsOK, Request, Time

LEMMA GetBalancesInv ==
  ASSUME IInv, Next, NEW r \in Requests, NEW wallets \in SUBSET Wallets, NEW filter \in {"none", "wrapped"},
         GetBalances(r, wallets, filter)
  PROVE  IInv'
<1>1. PICK q \in Request :
        /\ Asks(r, q)
        /\ q.stage = "started" /\ q.start = now /\ q.fetchedAt = 0
        /\ DOMAIN q.entries = {} /\ DOMAIN q.fetched = {} /\ q.fetching = {}
  BY GetBalancesStep DEF IInv
<1>2. Shaped(q) /\ Timely(q) /\ HasRows(q) /\ HasFetched(q)
  BY <1>1, RequestIs DEF Shaped, Timely, HasRows, HasFetched
<1>3. UNCHANGED <<now, chain, cache, snapshot>>
  BY DEF GetBalances
<1> QED
  BY <1>1, <1>2, <1>3, RequestStep, SameCache

LEMMA ReadCacheInv ==
  ASSUME IInv, Next, NEW r \in Requests, ReadCache(r)
  PROVE  IInv'
<1>1. PICK q \in Request :
        /\ Asks(r, q) /\ request[r].stage = "started"
        /\ q.stage = "fetching" /\ q.start = request[r].start /\ q.fetchedAt = now
        /\ q.fetched = request[r].fetched /\ q.wallets = request[r].wallets
        /\ q.entries = Restricted(cache, CachedFor(r)) /\ q.fetching \in SUBSET q.wallets
  BY ReadCacheStep DEF IInv
<1>2. DOMAIN q.fetched = {}
  BY <1>1, RequestIs DEF Shaped
<1>3. /\ CachedFor(r) \subseteq request[r].wallets
      /\ \A w \in CachedFor(r) : w \in Wallets /\ cache[w].expiresAt > request[r].start
  BY RequestIs DEF CachedFor, Unexpired, Request
<1>4. /\ DOMAIN q.entries = CachedFor(r)
      /\ \A w \in CachedFor(r) : q.entries[w] = cache[w]
  <2>1. DOMAIN q.entries = Wallets \cap CachedFor(r) /\ \A w \in Wallets \cap CachedFor(r) : q.entries[w] = cache[w]
    BY <1>1 DEF Restricted, IInv, TypeOK
  <2> QED
    BY <1>3, <2>1
<1>5. \A w \in CachedFor(r) : Real(w, cache[w])
  BY <1>3, RequestIs DEF IInv, CacheOK, NoEntry
<1>6. Shaped(q) /\ Timely(q)
  BY <1>1, <1>2, <1>3, <1>4, RequestIs DEF Shaped, Timely
<1>7. HasRows(q) /\ HasFetched(q)
  BY <1>1, <1>2, <1>3, <1>4, <1>5 DEF HasRows, HasFetched
<1>8. UNCHANGED <<now, chain, cache, snapshot>>
  BY DEF ReadCache
<1> QED
  BY <1>1, <1>6, <1>7, <1>8, RequestStep, SameCache

LEMMA RpcReadsInv ==
  ASSUME IInv, Next, NEW r \in Requests, NEW w \in Wallets, RpcReads(r, w)
  PROVE  IInv'
<1>1. PICK q \in Request, e \in Entry :
        /\ Asks(r, q) /\ w \in request[r].fetching
        /\ e.value = balance[w] /\ e.fetchedAt = request[r].fetchedAt /\ e.expiresAt = e.fetchedAt + TTL
        /\ Extended(q.fetched, request[r].fetched, w, e)
        /\ q.stage = request[r].stage /\ q.start = request[r].start /\ q.fetchedAt = request[r].fetchedAt
        /\ q.entries = request[r].entries /\ q.fetching = request[r].fetching
        /\ q.wallets = request[r].wallets
  BY RpcReadsStep DEF IInv
<1>2. Real(w, e)
  BY <1>1, RequestIs DEF Real, Timely, IInv, TypeOK, Balances
<1>3. Shaped(q) /\ Timely(q)
  BY <1>1, RequestIs DEF Shaped, Timely, Extended
<1>4. HasRows(q) /\ HasFetched(q)
  BY <1>1, <1>2, RequestIs DEF HasRows, HasFetched, Extended
<1>5. UNCHANGED <<now, chain, cache, snapshot>>
  BY DEF RpcReads
<1> QED
  BY <1>1, <1>3, <1>4, <1>5, RequestStep, SameCache

LEMMA UpsertInv ==
  ASSUME IInv, Next, NEW r \in Requests, NEW w \in Wallets, Upsert(r, w)
  PROVE  IInv'
<1>1. PICK q \in Request, e \in Entry :
        /\ Asks(r, q) /\ w \in DOMAIN request[r].fetched /\ e = request[r].fetched[w]
        /\ cache' = [cache EXCEPT ![w] = e]
        /\ Without(q.fetched, request[r].fetched, w)
        /\ Extended(q.entries, request[r].entries, w, e) /\ q.fetching = request[r].fetching \ {w}
        /\ q.stage = request[r].stage /\ q.start = request[r].start /\ q.fetchedAt = request[r].fetchedAt
        /\ q.wallets = request[r].wallets
  BY UpsertStep DEF IInv
<1>2. /\ Real(w, e) /\ e.expiresAt > request[r].start /\ w \in request[r].fetching
      /\ w \in request[r].wallets
  BY <1>1, RequestIs, Constants DEF HasFetched, Real, Shaped, Timely
<1>3. Shaped(q) /\ Timely(q)
  BY <1>1, <1>2, RequestIs DEF Shaped, Timely, Extended, Without
<1>4. HasRows(q) /\ HasFetched(q)
  BY <1>1, <1>2, RequestIs DEF HasRows, HasFetched, Extended, Without
<1>5. UNCHANGED <<now, chain, snapshot>>
  BY DEF Upsert
<1>6. cache' \in [Wallets -> Entry] /\ CacheOK'
  BY <1>1, <1>2, <1>5 DEF IInv, TypeOK, CacheOK, Real, chain
<1> QED
  BY <1>1, <1>3, <1>4, <1>5, <1>6, RequestStep

LEMMA RefreshFailsInv ==
  ASSUME IInv, Next, NEW r \in Requests, NEW w \in Wallets, RefreshFails(r, w)
  PROVE  IInv'
<1>1. PICK q \in Request :
        /\ Asks(r, q)
        /\ Without(q.fetched, request[r].fetched, w)
        /\ q.entries = request[r].entries /\ q.fetching = request[r].fetching \ {w}
        /\ q.stage = request[r].stage /\ q.start = request[r].start /\ q.fetchedAt = request[r].fetchedAt
        /\ q.wallets = request[r].wallets
  BY RefreshFailsStep DEF IInv
<1>2. Shaped(q) /\ Timely(q)
  BY <1>1, RequestIs DEF Shaped, Timely, Without
<1>3. HasRows(q) /\ HasFetched(q)
  BY <1>1, RequestIs DEF HasRows, HasFetched, Without
<1>4. UNCHANGED <<now, chain, cache, snapshot>>
  BY DEF RefreshFails
<1> QED
  BY <1>1, <1>2, <1>3, <1>4, RequestStep, SameCache

LEMMA AnswerInv ==
  ASSUME IInv, Next, NEW r \in Requests, Answer(r)
  PROVE  IInv'
<1>1. PICK q \in Request :
        /\ Asks(r, q) /\ request[r].fetching = {} /\ q.stage = "answered"
        /\ q.fetched = request[r].fetched /\ q.entries = request[r].entries /\ q.fetching = request[r].fetching
        /\ q.start = request[r].start /\ q.fetchedAt = request[r].fetchedAt
        /\ q.wallets = request[r].wallets
  BY AnswerStep DEF IInv
<1>2. Shaped(q) /\ Timely(q) /\ HasRows(q) /\ HasFetched(q)
  BY <1>1, RequestIs DEF Shaped, Timely, HasRows, HasFetched
<1>3. UNCHANGED <<now, chain, cache, snapshot>>
  BY DEF Answer
<1> QED
  BY <1>1, <1>2, <1>3, RequestStep, SameCache

LEMMA DoneInv ==
  ASSUME IInv, Next, NEW r \in Requests, Done(r)
  PROVE  IInv'
<1>1. Asks(r, IdleRequest) /\ UNCHANGED <<now, chain, cache, snapshot>>
  BY IdleTypes DEF Done, Asks, IInv, TypeOK
<1>2. Shaped(IdleRequest) /\ Timely(IdleRequest) /\ HasRows(IdleRequest) /\ HasFetched(IdleRequest)
  BY NoRows, RequestIs DEF IdleRequest, Shaped, Timely, HasRows, HasFetched
<1> QED
  BY <1>1, <1>2, RequestStep, SameCache, IdleTypes

-----------------------------------------------------------------------------
\* A step of one snapshot
LEMMA SnapshotStep ==
  ASSUME IInv, Next, UNCHANGED <<now, chain, cache, request>>,
         NEW s \in Snapshots, NEW q \in Snapshot,
         snapshot' = [snapshot EXCEPT ![s] = q], q.start <= now, HasRows(q)
  PROVE  IInv'
<1>1. \A o \in Snapshots : snapshot'[o] = IF o = s THEN q ELSE snapshot[o]
  BY DEF IInv, TypeOK
<1>2. TypeOK'
  BY DEF IInv, TypeOK, chain
<1>3. CacheOK'
  BY SameCache
<1>4. RequestsOK'
  BY DEF IInv, RequestsOK, Timely, HasRows, HasFetched, Real, chain
<1>5. SnapshotsOK'
  BY <1>1 DEF IInv, SnapshotsOK, HasRows, Real, chain
<1> QED
  BY <1>2, <1>3, <1>4, <1>5 DEF IInv

LEMMA GetPortfolioInv ==
  ASSUME IInv, Next, NEW s \in Snapshots, GetPortfolio(s)
  PROVE  IInv'
<1>1. PICK q : q = [IdleSnapshot EXCEPT !.stage = "started", !.start = now]
  OBVIOUS
<1>2. q \in Snapshot /\ q.start = now /\ DOMAIN q.entries = {}
  BY <1>1, IdleTypes, NoRows DEF IInv, TypeOK, Snapshot, IdleSnapshot
<1>3. now \in Nat /\ HasRows(q)
  BY <1>2 DEF HasRows, IInv, TypeOK, Time
<1>4. snapshot' = [snapshot EXCEPT ![s] = q] /\ UNCHANGED <<now, chain, cache, request>>
  BY <1>1 DEF GetPortfolio
<1>5. q.start <= now
  BY <1>2, <1>3
<1> QED
  BY <1>2, <1>3, <1>4, <1>5, SnapshotStep

LEMMA BalancesForUserInv ==
  ASSUME IInv, Next, NEW s \in Snapshots, BalancesForUser(s)
  PROVE  IInv'
<1>1. PICK rows : rows = Restricted(cache, Unexpired(Wallets, now))
  OBVIOUS
<1>2. /\ snapshot \in [Snapshots -> Snapshot] /\ snapshot[s] \in Snapshot /\ now \in Nat
      /\ snapshot[s].start <= now /\ snapshot[s].start \in Nat
  BY DEF IInv, TypeOK, SnapshotsOK, Snapshot, Time
<1>3. /\ rows \in Entries
      /\ \A w \in DOMAIN rows : w \in Wallets /\ rows[w] = cache[w] /\ cache[w].expiresAt > now
  <2>1. rows \in Entries
    BY <1>1, RestrictedRows DEF IInv, TypeOK
  <2>2. \A w \in DOMAIN rows : w \in Unexpired(Wallets, now) /\ rows[w] = cache[w]
    BY <1>1 DEF Restricted
  <2> QED
    BY <2>1, <2>2 DEF Unexpired
<1>4. PICK prices \in SUBSET Time :
        snapshot' = [snapshot EXCEPT ![s].stage = "answered", ![s].prices = prices, ![s].entries = rows]
  <2>1. PICK prices \in {{}} \cup (IF Unexpired(Wallets, now) = {} THEN {} ELSE {{t} : t \in 0..now}) :
          snapshot' = [snapshot EXCEPT ![s].stage = "answered", ![s].prices = prices, ![s].entries = rows]
    BY <1>1 DEF BalancesForUser, Positions
  <2>2. now \in Time
    BY DEF IInv, TypeOK
  <2>3. prices \in SUBSET Time
    BY <2>1, <2>2, Constants DEF Time
  <2> QED
    BY <2>1, <2>3
<1>5. PICK q : q = [snapshot[s] EXCEPT !.stage = "answered", !.prices = prices, !.entries = rows]
  OBVIOUS
<1>6. q \in Snapshot /\ q.start = snapshot[s].start /\ q.entries = rows
  BY <1>2, <1>3, <1>5 DEF Snapshot
<1>7. HasRows(q)
  <2>1. ASSUME NEW w \in DOMAIN rows PROVE Real(w, rows[w]) /\ rows[w].expiresAt > snapshot[s].start
    <3>1. cache[w] \in Entry /\ cache[w].expiresAt \in Int /\ (cache[w] = NoEntry \/ Real(w, cache[w]))
      BY <1>3, Constants DEF IInv, TypeOK, CacheOK, Entry
    <3>2. cache[w] # NoEntry
      BY <1>2, <1>3 DEF NoEntry
    <3> QED
      BY <1>2, <1>3, <3>1, <3>2
  <2> QED
    BY <1>6, <2>1 DEF HasRows
<1>8. snapshot' = [snapshot EXCEPT ![s] = q]
  BY <1>2, <1>4, <1>5
<1>9. UNCHANGED <<now, chain, cache, request>>
  BY DEF BalancesForUser
<1> QED
  BY <1>2, <1>6, <1>7, <1>8, <1>9, SnapshotStep

LEMMA SnapshotDoneInv ==
  ASSUME IInv, Next, NEW s \in Snapshots, SnapshotDone(s)
  PROVE  IInv'
<1>1. IdleSnapshot.start <= now /\ HasRows(IdleSnapshot)
  BY NoRows DEF IdleSnapshot, HasRows, IInv, TypeOK, Time
<1> QED
  BY <1>1, IdleTypes, SnapshotStep DEF SnapshotDone

-----------------------------------------------------------------------------
\* The chain and the clock
LEMMA WorldInv ==
  ASSUME IInv, Next, TypeOK', UNCHANGED <<cache, request, snapshot>>
  PROVE  IInv'
<1>1. CacheOK'
  <2>1. \A w \in Wallets : cache[w] \in Entry
    BY DEF IInv, TypeOK
  <2> QED
    BY <2>1, RealStep DEF IInv, CacheOK, Real
<1>2. RequestsOK'
  <2>1. ASSUME NEW r \in Requests
        PROVE  Timely(request[r])' /\ HasRows(request[r])' /\ HasFetched(request[r])'
    <3>1. PICK q : q = request[r]
      OBVIOUS
    <3>2. Timely(q)' /\ HasRows(q)' /\ HasFetched(q)'
      BY <3>1, RequestIs, RequestKept DEF IInv
    <3> QED
      BY <3>1, <3>2 DEF Timely, HasRows, HasFetched, Real
  <2> QED
    BY <2>1 DEF RequestsOK
<1>3. SnapshotsOK'
  <2>1. ASSUME NEW s \in Snapshots
        PROVE  snapshot'[s].start <= now' /\ HasRows(snapshot[s])'
    <3>1. PICK q : q = snapshot[s]
      OBVIOUS
    <3>2. q \in Snapshot /\ q.start <= now /\ HasRows(q)
      BY <3>1 DEF IInv, TypeOK, SnapshotsOK
    <3>3. q.start <= now' /\ HasRows(q)'
      BY <3>2, SnapshotKept DEF IInv
    <3> QED
      BY <3>1, <3>3 DEF HasRows, Real
  <2> QED
    BY <2>1 DEF SnapshotsOK
<1> QED
  BY <1>1, <1>2, <1>3 DEF IInv

LEMMA BalanceChangesInv ==
  ASSUME IInv, Next, NEW w \in Wallets, BalanceChanges(w)
  PROVE  IInv'
<1>1. /\ balance[w] \in Nat /\ balance[w] + 1 \in Balances /\ now \in Time
      /\ balance' = [balance EXCEPT ![w] = balance[w] + 1]
      /\ UNCHANGED <<now, cache, request, snapshot>>
  BY Constants DEF BalanceChanges, IInv, TypeOK, Balances
<1>2. PICK times : times = With(replacedAt[w], balance[w], now)
  OBVIOUS
<1>3. replacedAt' = [replacedAt EXCEPT ![w] = times]
  BY <1>2 DEF BalanceChanges
<1>4. times \in [0..((balance[w] + 1) - 1) -> Time]
  <2>1. replacedAt[w] \in [0..(balance[w] - 1) -> Time]
    <3>1. PICK n \in Balances : replacedAt[w] \in [0..(n - 1) -> Time]
      BY DEF IInv, TypeOK
    <3>2. DOMAIN replacedAt[w] = 0..(balance[w] - 1)
      BY DEF IInv, TypeOK
    <3> QED
      BY <3>1, <3>2
  <2>2. 0..((balance[w] + 1) - 1) = 0..(balance[w] - 1) \cup {balance[w]}
    BY <1>1
  <2> QED
    BY <1>1, <1>2, <2>1, <2>2 DEF With
<1>5. times \in UNION {[0..(n - 1) -> Time] : n \in Balances}
  BY <1>1, <1>4
<1>6. \A v \in Wallets : DOMAIN replacedAt'[v] = 0..(balance'[v] - 1)
  BY <1>1, <1>3, <1>4 DEF IInv, TypeOK
<1>7. TypeOK'
  BY <1>1, <1>3, <1>5, <1>6 DEF IInv, TypeOK
<1> QED
  BY <1>1, <1>7, WorldInv

LEMMA TickInv ==
  ASSUME IInv, Next, Tick
  PROVE  IInv'
<1>1. TypeOK'
  BY Later DEF Tick, IInv, TypeOK, chain
<1> QED
  BY <1>1, WorldInv DEF Tick

LEMMA InvStep == IInv /\ [Next]_vars => IInv'
<1> SUFFICES ASSUME IInv, [Next]_vars PROVE IInv'
  OBVIOUS
<1>1. CASE UNCHANGED vars
  BY <1>1 DEF vars, IInv, TypeOK, CacheOK, RequestsOK, SnapshotsOK, Timely, HasRows, HasFetched, Real
<1>2. ASSUME Next PROVE IInv'
  <2>1. ASSUME NEW r \in Requests,
               NEW wallets \in {Wallets} \cup {{w} : w \in Wallets}, NEW filter \in {"none", "wrapped"},
               GetBalances(r, wallets, filter)
        PROVE  IInv'
    <3>1. wallets \in SUBSET Wallets
      OBVIOUS
    <3> QED
      BY <1>2, <2>1, <3>1, GetBalancesInv
  <2> QED
    BY <1>2, <2>1, ReadCacheInv, AnswerInv, DoneInv, RpcReadsInv, UpsertInv, RefreshFailsInv,
       GetPortfolioInv, BalancesForUserInv, SnapshotDoneInv, BalanceChangesInv, TickInv
       DEF Next
<1> QED
  BY <1>1, <1>2

\* The types of the variables in every reachable state.
THEOREM TypeCorrect == Spec => []TypeOK
<1>1. IInv => TypeOK
  BY DEF IInv
<1> QED
  BY <1>1, InvInit, InvStep, PTL DEF Spec

-----------------------------------------------------------------------------
\* A balance that was on chain at e.fetchedAt or later was so at any earlier
\* time or later.
LEMMA RealIsStill ==
  ASSUME IInv, NEW w \in Wallets, NEW e \in Entry, Real(w, e), NEW t \in Int, t <= e.fetchedAt
  PROVE  StillAt(w, e.value, t)
<1>1. /\ e.value \in Nat /\ e.fetchedAt \in Nat /\ balance[w] \in Nat
      /\ e.value # balance[w] => replacedAt[w][e.value] \in Nat
  <2>1. e.value \in Nat /\ e.fetchedAt \in Nat /\ balance[w] \in Nat /\ e.value <= balance[w]
    BY DEF Real, IInv, TypeOK, Entry, Balances, Time
  <2>2. PICK n \in Balances : replacedAt[w] \in [0..(n - 1) -> Time]
    BY DEF IInv, TypeOK
  <2>3. DOMAIN replacedAt[w] = 0..(balance[w] - 1)
    BY DEF IInv, TypeOK
  <2>4. \A v \in DOMAIN replacedAt[w] : replacedAt[w][v] \in Time
    BY <2>2
  <2>5. e.value # balance[w] => e.value \in 0..(balance[w] - 1)
    BY <2>1
  <2>6. e.value # balance[w] => replacedAt[w][e.value] \in Nat
    BY <2>3, <2>4, <2>5 DEF Time
  <2> QED
    BY <2>1, <2>6
<1> QED
  BY <1>1 DEF Real, StillAt

\* What a request or a snapshot holds was on chain less than the time to live
\* before it began, or since.
LEMMA RowsAreFresh ==
  ASSUME IInv, NEW q, q.entries \in Entries, q.start \in Nat, HasRows(q), NEW w \in DOMAIN q.entries
  PROVE  StillAt(w, q.entries[w].value, (q.start + 1) - TTL)
<1>1. PICK e : e = q.entries[w]
  OBVIOUS
<1>2. w \in Wallets /\ e \in Entry
  BY <1>1, RowsOf
<1>3. Real(w, e) /\ e.expiresAt > q.start /\ e.fetchedAt \in Nat
  BY <1>1, <1>2 DEF HasRows, Entry, Time
<1>4. (q.start + 1) - TTL \in Int /\ (q.start + 1) - TTL <= e.fetchedAt
  BY <1>3, Constants DEF Real
<1> QED
  BY <1>1, <1>2, <1>3, <1>4, RealIsStill

\* No answer has a balance that ceased to be the wallet's before the time to live
\* that ends with the request, whatever requests overlap and however their
\* upserts are ordered.
THEOREM FreshBalancesTheorem == Spec => []BalancesAreFresh
<1>1. IInv => BalancesAreFresh
  <2> SUFFICES ASSUME IInv, NEW r \in Requests, NEW w \in DOMAIN request[r].entries
               PROVE  StillAt(w, request[r].entries[w].value, (request[r].start + 1) - TTL)
    BY DEF BalancesAreFresh
  <2> QED
    BY RequestIs, RowsAreFresh DEF Request
<1> QED
  BY <1>1, InvInit, InvStep, PTL DEF Spec

\* The same of the snapshots of the portfolio.
THEOREM FreshPortfolioTheorem == Spec => []PortfolioIsFresh
<1>1. IInv => PortfolioIsFresh
  <2> SUFFICES ASSUME IInv, NEW s \in Snapshots, NEW w \in DOMAIN snapshot[s].entries
               PROVE  StillAt(w, snapshot[s].entries[w].value, (snapshot[s].start + 1) - TTL)
    BY DEF PortfolioIsFresh
  <2>1. snapshot[s].entries \in Entries /\ snapshot[s].start \in Nat /\ HasRows(snapshot[s])
    BY DEF IInv, TypeOK, SnapshotsOK, Snapshot, Time
  <2> QED
    BY <2>1, RowsAreFresh
<1> QED
  BY <1>1, InvInit, InvStep, PTL DEF Spec

\* A set of numbers has a least one.
LEMMA Least ==
  ASSUME NEW S \in SUBSET Nat, S # {}
  PROVE  Min(S) \in S /\ \A t \in S : Min(S) <= t
<1> DEFINE R == {p \in Nat \X Nat : p[1] < p[2]}
<1>1. IsWellFoundedOn(R, Nat)
  BY NatLessThanWellFounded DEF OpToRel
<1>2. \A x, y \in Nat : x < y => <<x, y>> \in R
  OBVIOUS
<1> HIDE DEF R
<1>3. S \subseteq Nat /\ S # {}
  OBVIOUS
<1>4. PICK m \in S : \A k \in S : ~(<<k, m>> \in R)
  BY <1>1, <1>3, WFMin
<1>5. \A k \in S : m <= k
  <2>1. \A k \in S : k \in Nat /\ m \in Nat /\ ~(k < m)
    BY <1>2, <1>3, <1>4
  <2> QED
    BY <2>1
<1> QED
  BY <1>4, <1>5 DEF Min

\* Nothing in a snapshot is older than the asOf it is given with.
THEOREM HonestAsOfTheorem == Spec => []AsOfIsHonest
<1>1. IInv => AsOfIsHonest
  <2> SUFFICES ASSUME IInv, NEW s \in Snapshots
               PROVE  /\ \A w \in DOMAIN snapshot[s].entries :
                           StillAt(w, snapshot[s].entries[w].value, AsOf(s))
                      /\ \A t \in snapshot[s].prices : AsOf(s) <= t
    BY DEF AsOfIsHonest
  <2>1. PICK rows : rows = snapshot[s].entries
    OBVIOUS
  <2>2. /\ rows \in Entries /\ \A w \in DOMAIN rows : Real(w, rows[w])
        /\ snapshot[s].prices \in SUBSET Nat
    BY <2>1 DEF IInv, TypeOK, SnapshotsOK, HasRows, Snapshot, Time
  <2>3. \A w \in DOMAIN rows : w \in Wallets /\ rows[w] \in Entry /\ rows[w].fetchedAt \in Nat
    BY <2>2, RowsOf DEF Entry, Time
  <2>4. PICK times : times = FreshnessTimestamps(s)
    OBVIOUS
  <2>5. /\ times \in SUBSET Nat /\ snapshot[s].prices \subseteq times
        /\ \A w \in DOMAIN rows : rows[w].fetchedAt \in times
    BY <2>1, <2>2, <2>3, <2>4 DEF FreshnessTimestamps
  <2>6. \A t \in times : AsOf(s) \in Nat /\ AsOf(s) <= t
    BY <2>4, <2>5, Least DEF AsOf
  <2>7. ASSUME NEW w \in DOMAIN rows PROVE StillAt(w, rows[w].value, AsOf(s))
    <3>1. PICK e : e = rows[w]
      OBVIOUS
    <3>2. PICK asOf : asOf = AsOf(s)
      OBVIOUS
    <3>3. e \in Entry /\ w \in Wallets /\ Real(w, e) /\ asOf \in Int /\ asOf <= e.fetchedAt
      BY <2>2, <2>3, <2>5, <2>6, <3>1, <3>2
    <3>4. StillAt(w, e.value, asOf)
      BY <3>3, RealIsStill
    <3> QED
      BY <3>1, <3>2, <3>4
  <2> QED
    BY <2>1, <2>5, <2>6, <2>7
<1> QED
  BY <1>1, InvInit, InvStep, PTL DEF Spec

=============================================================================
