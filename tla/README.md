# TLA+ models of the CraftScript NestJS backend

TLA+ specifications of the stateful parts of this backend, the TLC
configurations that model-check them on small instances, and theorems that
TLAPS proves for every value of the constants.

    tlc -config WalletLinks.cfg MCWalletLinks.tla   # one run
    tlapm AgentGrantsProofs.tla                     # the proofs of one component

`PROJECT.json` lists the components, the runs, the line of the source each
definition models, the hazards of the code and the properties that watch them.
Definitions named `Broken...` are wrong variants of the definition they precede;
nothing uses them. Put in its place, each makes TLC report the property they are
listed with, so that every property is known to depend on the code it is about.

## 1. Inventory of the system

One NestJS process (several replicas may run) with a PostgreSQL database through
Sequelize, an HTTP and SSE API, one WebSocket gateway, and HTTP or WebSocket
clients of 1Click, the NEAR solver relay, a NEAR RPC node, Hyperliquid, CoinGecko,
GeckoTerminal and Privy.

| Component | State | Operations | Hard behaviour | What makes it correct |
|---|---|---|---|---|
| Agent access (`modules/agent-access`) | tables `agent_authorizations`, `agent_connections`, `agent_credentials`; audit events | begin (browser, device), look-up, decide, complete, exchange, refresh, revoke, authenticate | overlapping exchanges and refreshes, reuse of tokens, locks in opposite orders, unlocked reads, four lifetimes | tokens only with consent, one live refresh token, revocation for good, nothing honoured beyond the grant |
| Wallet links (`api/auth/privy-auth.service.ts`) | `wallet_links` | bind, switch primary, delete | READ COMMITTED transactions without locking reads, stale instances | at most one primary wallet, handed over as a whole, set right by the next switch, primary bind or deletion of a primary wallet |
| Account lifecycle (same file) | `app_users` | sign in, enable passkey, request deletion, restore, finalise, purge | instances loaded before they are written, races at the end of the window | no lock-out, no deletion before the promised date |
| Market chart stream (`markets-chart.gateway.ts`, `hyperliquid-ws.service.ts`) | map of subscriptions, reference count, one upstream socket, reconnect timer | subscribe, unsubscribe, disconnect, socket events | an await between release and retain, late socket events | exact count, no leak, listeners served again |
| Market history (`markets.service.ts`, history clients) | pool and history caches, request timestamps | fetch with two fallbacks | overlapping misses, failures cached, limit per minute | the limit holds, answers are not stale |
| Market comparison (`markets.service.ts`) | none of its own | read the list, wait for two histories, judge prices | a price may age between the list and the answer | no stale price passes as current |
| Swaps (`modules/swaps`) | none between calls; one swap from prepare to execute | validate, quote, select, check, package, execute | providers answer at any time or fail, rounding, amounts of zero, forms of addresses | no offer is lost, the approved quote is the best, within tolerance, for a recipient the network knows |
| Quotes (`api/quotes`) | none | validate, look up the asset, pass on to 1Click | a second copy of the rules for recipients | same parties, same recipient as in swaps |
| Balances and portfolio (`api/balances`, `modules/portfolio`) | `balance_cache_entries` | read cache, RPC, upsert, snapshot | overlapping upserts of older answers | nothing older than the time to live, honest `asOf` |
| Assets (`api/assets`) | one cached list | refresh, serve stale, find one asset | overlapping refreshes, stored in the order of their answers | a served list is recent unless its own refresh failed |
| Product events (`api/product-events`) | table `product_events` | record, record many, record best effort, daily summary | a second connection while a transaction holds the first; events outlive a rollback | requests end, a lost event fails nobody, events are true, sums add up |
| Candle stream (`markets.service.ts`, SSE) | one upstream socket per subscriber | subscribe, socket events, teardown | teardown while connecting, upstream close | the client is served or told, no socket stays behind |
| Privy token, guard, ownership; connection pool | pool of connections | verify, look up the account, ask Privy; grant, time out | every step takes a connection or may fail | only verified requests of active accounts reach a transaction |
| Translations; HTTP clients; configuration; schema; deployment | none of their own | stateless proxies, wiring | failures, which the models choose | not modelled |

Interactions: the guard decides who calls a service; every account request
shares one pool of connections, and records its event on a second one; sign-in
calls the same `upsertWallet` as `bindWallet`; MCP tools authenticate with agent access and then
read the portfolio, which reads the rows that balances writes and the list that
assets caches; swaps, quotes and comparisons use that list; the chart gateway holds
references to the shared upstream socket.

## 2. Modules

| Module | Models | State and actions against the code |
|---|---|---|
| `AgentGrants` | `AgentAccessService`, each locking method one atomic action | The three tables, the audit events that state a revocation, the locals of `authenticateAccessToken`. A row is an index, a secret is its row, timestamps are readings of `now`, `used_at` and `revoked_at` are "is not null". `ReadCredential`, `ReadConnection`, `RejectAccess` and `GrantAccess` split the access check at its two reads; `Redeploy` switches the feature flag. |
| `AgentGrantsTx` | the same methods statement by statement, under the row locks of `forUpdate`, of UPDATE and of the foreign key | `tx` holds the locals of a call and the next statement, `locks` the row locks; `...Lock` actions wait, `...Commit` actions write. `DeadlockVictim` and `LoseConnection` roll back. It implements `AgentGrants!Spec` (`TransactionsAreAtomic`): a commit is a step of it, all else a stutter. The mapping is the identity on the shared tables, so no INSTANCE is needed. |
| `PrimaryWallet` | what the wallets of one user promise | An abstract specification: the active wallets, the primary ones, and whether a bind has overlapped another call. One step binds, switches or removes a wallet. |
| `WalletLinks` | `bindWallet`, `setPrimaryWallet`, `deleteWallet`, `markPrimaryWallet` | Committed rows, uncommitted versions, row locks and, for each call, the instance it loaded. A multi-row UPDATE selects by its snapshot and locks and re-tests the rows one at a time, in any order. `instance.update` writes the columns that differ from the loaded values, as Sequelize does. It implements `PrimaryWallet` (`ImplementsPrimaryWallet`, INSTANCE ... WITH): the mapping takes the committed rows, so every statement but a COMMIT is a stutter. |
| `AccountLifecycle` | `upsertSession`, `requestAccountDeletion`, `purgeDeletionEligibleAccounts` | As above, for the rows of one Privy subject; `promised` remembers the deletion dates answered. |
| `SessionRequests` | requests of the account API, from the guard to the end of their transaction, on the connection pool | `request` holds the stage of each request and the connections it has, `queue` and `poolSize` the pool, `rowLock` the row lock of the account, `rows` the table of events. Account and wallets are reduced to what decides the next step; `AccountLifecycle` and `WalletLinks` have the details. |
| `ProductMetrics` | `ProductEventsService.dailySummary` | Pure operators over a set of rows: the GROUP BY, the Map under two kinds of keys, the ratios. |
| `ChartStream` | `MarketsChartGateway` and `HyperliquidWsService` together | `entry` and `live` are the map and its subscriptions, `handler` the invocations that await the asset context, `refCount`, `ws` and `reconnectTimer` the fields of the service, `socket` and `timers` what the ws library and the event loop hold. |
| `MarketHistory` | `getComparisonHistory` and `GeckoTerminalMarketHistoryClient` | One stage per await; the two Maps and `requestTimestamps`; `sent` remembers every request. |
| `CandleStream` | `MarketsService.streamCandles` | `stream` holds, for each subscriber, its client, its upstream socket and what the listeners have done. |
| `AssetsCache` | `AssetsService` | `cache` is the field, `request` the locals of each `getAssets`, `upstream` the list at 1Click, whose answer is composed between the request and its arrival. |
| `MarketComparison` | `getComparison`, composed with `AssetsCache` (EXTENDS) | `comparison` is what each call has read of the list while it waits for histories; the actions of the list are those of `AssetsCache`, whose `GetAssets` a comparison takes. |
| `SwapAddresses` | `SwapAddressValidationService` | Pure operators. An address is its text in lower case, its spelling, and its form: the class of strings the patterns cannot tell apart. |
| `SwapPrepare` | `PrepareSwapUseCase`, both policies, both quote providers, `ExecuteSwapUseCase` | One command, how the requests to the providers settle (`replies`, the array of `Promise.allSettled`), and how the call ends. A request settles at any time, whatever the use case is doing (`Settle`); that the use case waits is `Settled`. Integer arithmetic as in the slippage policy, with its early return for amounts of zero (`WithinTolerance`): a provider may answer with any amount, zero included, as nothing in the code rejects it. |
| `OneClickQuotes` | `QuotesService`, composed with `SwapPrepare` (EXTENDS) | One request of either endpoint, with the same parties and assets. |
| `BalanceCache` | `BalancesService`, `NearRpcBalanceService`, `GetPortfolioUseCase` | The chain's balances with the times they were replaced, the rows, and the locals of each request and snapshot. |
| `AgentGrantsProofs`, `WalletLinksProofs`, `AccountLifecycleProofs`, `ChartStreamProofs`, `MarketHistoryProofs`, `MarketComparisonProofs`, `BalanceCacheProofs`, `SwapPrepareProofs` | theorems about the module each is named after; `WalletLinksProofs` also about `PrimaryWallet`, `SwapPrepareProofs` about `OneClickQuotes`, `AgentGrantsProofs` about `AgentGrantsTx`, `AccountLifecycleProofs` about `SessionRequests` | Each EXTENDS its modules. `AccountLifecycleProofs` extends two that share nothing, which is why the specification of `SessionRequests` is called `SessionSpec`. |
| `MC...` | instances for TLC: scope sets, assets, symmetry | |

What is external is modelled from its use: PostgreSQL's locks, visibility and
deadlock detector, the connection pool of Sequelize, the close and error events
of the ws library and of the runtime's WebSocket, the list of 1Click, transfers
on chain, the clock. The clock never goes back; `Date.now()` may, when the host's
clock is set, and no property is claimed for that.

## 3. Runs

| Run | Question | Bounds | Outcome |
|---|---|---|---|
| `grants` | Do tokens exist only under their consent, do decisions stand, do rotation, reuse, revocation and expiry end access under an overlapping access check? The inductive invariant | two users, two requests that compete for one connection, five token rows (two generations, and one more), one access check, time 0..3 with lifetimes 1, 1, 2 | pass |
| `tx` | Are the locking methods atomic, and do they all end? | one grant, two generations, two transactions | pass |
| `wallets` | Do overlapping calls implement the abstract primary wallet, and does a lone switch, primary bind or deletion of a primary wallet set right what they leave? | three wallets, two calls | pass |
| `accounts_races` | Lock-out, early deletion, sign-in | two calls, three generations of the account, time 0..3 | pass |
| `sessions` | Do all requests end on a small pool, what do events say, does the summary add up? | two requests of any kind, pools of two and three connections, client events of four kinds, batches up to two | pass |
| `chart` | Counting, leaks, lost feeds | two clients, two awaiting handlers, two sockets, two timers | pass |
| `candles` | Is every subscriber served or told, which sockets stay behind? | two subscribers, with and without a WebSocket in the runtime | pass |
| `market_history` | Rate limit, freshness, what failures replace | two fetches, two tokens, one pool, limit 2 per window of 1, time 0..3 | pass |
| `comparison` | How old may a list and a price be that an answer rests on? | two overlapping comparisons, two symbols, one change of the list, time 0..3, time to live, timeout and limit of age 1 | pass |
| `swap_quotes` | Does a call end knowing all that is offered, when is a swap refused, what does the tolerance guarantee, do the two endpoints agree? | five quoted amounts, zero among them, assets on several networks, parties with several forms of recipients, three tolerances, up to two relay quotes | pass |
| `swap_best` | Is it the best quote for both swap types? | the same | violated |
| `balances` | Freshness of balances and snapshots | one wallet, two requests, one snapshot, one change, time 0..3, time to live 2 | pass |

Why these bounds are enough to be of use:

- Races here are between two calls: a second generation of tokens is needed for
  reuse. Further generations, connections, clients and access checks, and more calls,
  wallets, fetches, subscribers and quotes are covered by the theorems (section 5),
  which hold for any number. A third wallet is needed
  for "the oldest remaining".
- A pool of two connections is the smallest in which one request can get both of
  its connections; with two requests each may hold one and wait for the other's.
  A pool of one would only time out. The pool of the program has five.
- Times only matter by order; each instance lets every lifetime it has run out
  with something still happening afterwards.
- Two sockets are needed for a late close of the former one; a second timer for
  one that is overwritten. With both in use the model cannot open another, which
  is why deadlock is not checked there. It is not checked either where
  the instance ends by design: all requests decided and tables full (`AgentGrants`
  in `tx`), one swap or quote answered (`SwapPrepare`, `OneClickQuotes`), each request
  made once (`SessionRequests`).
- One change of the list of assets suffices to tell a stale list from a current one;
  the theorems about `MarketComparison` hold for any number of changes.

Some properties hold under a condition the code does not enforce, and say so in
their formula, through a history variable:

- `ImplementsPrimaryWallet` promises nothing once a bind has overlapped another
  call of the same user. The UPDATE of `markPrimaryWallet` does not see a wallet that
  a bind has inserted or reactivated and not yet committed, so two primaries are
  possible after that. `LoneCallRepairsPrimary` shows which calls set it right when no
  other call overlaps them: a switch and a primary bind leave exactly their own wallet,
  the deletion of a primary wallet one primary, the oldest, if any wallet remains.
  Binds that are not primary and deletions of other wallets are excepted; they
  leave what they find.
- In `ChartStream`, `NoSubscriptionLeaks` until a client sends again or leaves
  while its last message is handled; `OneUpstream` and `MidsKeepComing` until a
  socket is opened while another is still closing. After a
  late close event the service forgets the socket it has (`this.ws`), whichever it
  is, and another one is opened beside it. `RefCountIsExact` and `FeedIsNotLost`
  hold regardless.
- In `CandleStream`, `AbandonedStreamsEnd` excepts a socket whose client left while it
  was connecting (`threw`), and `StreamSpeaks` an upstream that closes without an
  error (`silent`).
- `ListIsRecent` excepts a request whose own refresh failed: it is served the last
  list, of any age, as `getAssets` intends.

- `SlippageProtects` excepts a quote that pays nothing (`amountOut` zero), since the
  policy returns before it compares it (`swap-slippage.policy.ts:22`), and says when one
  can be approved: with a given input, if no executable offer pays anything. A
  quote that takes nothing is not compared either, but is worth its input.
  `NoNeedlessRefusal` and `NoOfferIsLost` hold for amounts of zero too.
  The worth of a quote is stated for equal decimals, and `NoNeedlessRefusal` and the
  last part of `NoOfferIsLost` for a given input (`EXACT_INPUT`); with a given output
  `swap_best` applies.

### A disagreement a run shows

- `swap_best` (`swap-quote-selection.policy.ts:19`): the sort is descending for both
  swap types, so for `EXACT_OUTPUT` the quote that takes most is approved.

Seen while modelling, with no run of their own:

- `swap-slippage.policy.ts:22`: a quote with an amount of zero is within any
  tolerance, so between priced assets one that pays nothing is approved if it is the only
  executable one, although the end-to-end test `swaps.e2e-spec.ts:606` says of `prepare`
  that it "rejects quotes that exceed slippage tolerance against registry prices". The
  amounts of the solver relay are passed on as they are
  (`solver-relay-quote.provider.ts:42`), and the check of the 1Click provider
  (`one-click-quote.provider.ts:46`) lets the string "0" through. `SlippageProtects` has
  that exception in its formula.
- `swap-slippage.policy.ts:26` multiplies smallest units by a ratio of prices of
  whole tokens and ignores the decimals of the two assets; `SlippageProtects` is
  stated for equal decimals. A ratio below 0.0000005 rounds to zero, so that any output
  passes: `RatioLoss` allows for it, one unit of output in two million of input.
- A 1Click quote with hashes gives a package to sign that no execution provider
  accepts (`UnsupportedProvider` of `SwapPrepare`; `swaps.module.ts:41`).
- `balances.service.ts:45`: a request filtered by wrapped NEAR never finds the row
  of native NEAR, and calls the RPC each time (`CachedFor`).
- A reuse of a refresh token that loses a deadlock against the rotation of
  a sibling is rolled back and not retried, so the family stays
  (`agent-access.service.ts:271`, action `DeadlockVictim`).
- Agent tokens are not ended by the deletion of the user's account.
- `purgeDeletionEligibleAccounts` is called by its test only.
- `privy-auth.service.ts:283`: `deleteWallet` decides by an instance it loaded
  before a switch made the wallet primary, and then promotes none. `PrimaryWallet`
  admits that (`Remove`); the test `privy-auth.service.spec.ts:300` promotes one.
- `privy-auth.service.ts:524`: `finalizeDeletedUser` does not test the status again,
  and deletes an account that was restored since it was loaded. `NoEarlyDeletion`
  bounds that: a promised date had passed.
- `streamCandles`: the teardown of a stream that still connects throws in `send`, so
  `close` is not reached (`markets.service.ts:224`), and nobody listens for "close".
  `globalThis.WebSocket` is not there in Node 20, the version of the Docker image
  (`available` of `CandleStream`), and every stream then fails at once.
- The backend records `account.login` and `account.passkey.enabled`, never
  `account.login.passkey`, `deposit.*` or `withdrawal.*`; the summary counts successes of
  those from the source `backend`, which only clients that name it as their source
  can make non-zero. A client that chooses `occurredAt` may also place an event outside
  every window.
- Signers' own addresses are not checked against the network of the destination, by
  either endpoint; `prepare` tells 1Click the deposit type INTENTS for NEAR, the bare
  quote always ORIGIN_CHAIN. The Solana pattern matches ordinary addresses of
  other base-58 networks (`Patterns` of `SwapAddresses`).
- The list keyed by symbol for comparisons keeps the last asset of a symbol, whichever
  network it is on (`markets.service.ts:281`).
- `http-clients.interceptor.ts:51` reads the status of a response that a timeout does
  not have.

## 4. Fairness

- `AgentGrantsTx!FairTxSpec`: PostgreSQL queues the transactions that wait for a
  row, so a step that can be taken again and again is taken (SF), and its
  deadlock detector runs (WF). No fairness is assumed of clients or of crashes.
  `TransactionsEnd` is about database transactions, not about HTTP clients.
- `ChartStream!FairSpec`: the event loop fires pending timers and reports
  the close of a socket that is closing or aborted (WF); a connection that is
  attempted again and again is at last accepted (SF on `Open`). That is the
  assumption on Hyperliquid without which nothing could be claimed.
- `CandleStream!FairSpec`: the runtime ends every attempt to connect, by "open" or by
  "error", and every close it was asked for (WF); an upstream that stays connected and
  has a subscription sends candles (WF). Clients need not leave, and the upstream need
  not close.
- `SessionRequests!FairSpec`: the pool grants a free connection to the first in its
  queue, or refuses one after its timeout, and the database answers each statement of
  a transaction whose locks are free (WF for each request). Nothing is assumed of the
  order in which requests run, nor that connections break or stay.

## 5. Proofs

Every theorem is about the specification its run checks (where the run's adds
fairness, about the specification without it, which asks less), for every value of
the constants that satisfies the assumptions of its module. Those are that times,
lifetimes and bounds are natural numbers (lifetimes positive where the code needs
them to be), that sets of rows, clients and handlers that are counted are finite, that
values for "none" are outside the sets they are added to, and, for swaps, that amounts,
prices and tolerances are whole numbers, the amount of the command a positive one (the
request DTO), those of the quotes any, zero included. TLC evaluates them in every run.

Most properties are not inductive. What each proof adds:

`AgentGrantsProofs`: `InductiveInvariant` (`Spec => []IInv`, which run `grants` checks
too), and from it `TypeCorrect`, `ConsentTheorem`, `FamilyTheorem`, `RotationTheorem`,
`ReuseTheorem`, `RevocationTheorem`, `GrantTheorem` and `DecisionTheorem`: all that
`grants` checks. `ConsentPrecedesTokens` needs that an approved request points at a
connection of its own (`ApprovalCreatesConnection`, `ConnectionHasOneAuthorization`), that
tokens stem from a consumed one (`TokensComeFromExchange`) and, for rotations, that a
family is named after its first token (`FamilyIsNamedAfterItsFirstToken`).
`RevocationIsEffective` needs that the audit events of a revocation stay true
(`RevocationEventsHold`) and that an access check in progress holds an issued token
(`HandlersHoldIssuedTokens`).

Also in `AgentGrantsProofs`, about `AgentGrantsTx`: `TxInvariant` (the invariant
`TxIInv`) and `AtomicityTheorem`, that the locking methods, statement by statement,
implement `AgentGrants`: a COMMIT maps to the one action of its method, every other
statement, a deadlock victim or a lost connection to a stutter. The invariant says that
what a call has read stays true while it holds its row locks (`ReadsStand`,
`TokenReadsStand`), although others commit in between. Revocations are the hard case:
their UPDATE selects rows first and locks them one after the other, so each token of the
scope is revoked, locked, or still to be locked (`RevocationCovers`). No token can join
the scope meanwhile: the revocation holds the row of the connection, which a rotation
locks too and for which the foreign key makes an exchange wait. In `AgentGrantsTx` the
clock and the flag of the feature stand still (`NothingExpires`): what expiry does is
the subject of `AgentGrants`.

`WalletLinksProofs`: `RefinementTheorem`, that the statements of the three calls
implement `PrimaryWallet`, step by step: a COMMIT maps to `Bind`, `Switch` or `Remove` of
the call's wallet or to a stutter, every other statement to a stutter. What a COMMIT
makes visible is known from the invariant, one part for each phase of a call
(`LocksGood`, `BindGood`, `DeleteGood`, `MarkGood`), and these hold only while the call is
calm: no bind has overlapped a call, or it is alone (`CalmOK`). Then others may only take
wallets away, so the rows `markPrimaryWallet` still has to clear are the active ones it
has not locked yet. `OnePrimaryTheorem` carries the promise of the abstract specification
over to the rows; `LoneCallTheorem` adds `AloneGood`, that a lone deletion promotes the
oldest wallet.

`AccountLifecycleProofs`: `NoLockOutTheorem` needs that an inserted, uncommitted account
is the only one with an owner but those its own transaction has locked to finalise
(`OwnersOK`). `EarlyDeletionTheorem` needs that every date in a row, committed or
not, was answered before or is the one its deletion request is about to answer
(`DatesOK`), and that whoever finalises acts upon a date that had come (`DueOK`): a
restoration in between changes the row, not the fact that a promised date is past.
`LoneSignInTheorem` follows the phases of a sign-in while it is alone (`AloneOK`).

Also in `AccountLifecycleProofs`, about `SessionRequests`: `SessionInvariant` (the
invariant `SessionInv`), `TelemetryTheorem` and `EventsTheorem`, for any requests and
any size of the pool. A request has the connections its stage asked for, less the one it
queues for (`ConnectionsAreAsked`), only the holder of the account's row lock has
written it (`WritersHoldTheRow`), and a row of `rows` is of an event its request has
inserted (`RowsAreInserted`). So two first sign-ins record `account.created` one after
the other, and the second only when the transaction of the first is gone.

`ChartStreamProofs`: `RefCountTheorem` and `NoLeaksTheorem`, `FeedTheorem` and
`OneUpstreamTheorem`. The count is the cardinality of the set of subscriptions, so
`retain` and `release` add and remove one element of it. `OneUpstream` needs `Single`: as
long as sockets have not overlapped, a timer that is set is the one `disconnect` would
clear, and a socket on its way out has no listeners. `NoSubscriptionLeaks` needs
`Tidy`: a client that waits for the asset context has no entry.

`MarketHistoryProofs`: `RateLimit` speaks of all requests ever sent, the limiter keeps
the latest only; `Forgotten` closes the gap: whatever it has shifted out is older than
the window, and stays so because the clock does not go back. `FreshHistoryTheorem`:
the cache knows when an answer was stored, not when it was true, which is known of the
request that fetched it (`Timely`) and so of what it stores (`StoredTimely`).
`KnownPoolsTheorem` needs that a pool stored while a request for it is on its way was
stored since that request was sent (`StoredSince`).

`MarketComparisonProofs`: `RecentTheorem` compares a list with the time 1Click composed
it, of which a request knows nothing. `RecentInv` closes the gap: a request waits for one
timeout at most, so whatever is stored was composed at most a timeout before
`fetchedAt`, in whatever order. `SupportTheorem` needs that every list between
1Click and the answer has a price of the steady symbols (`SteadyInv`, `ComparedInv`), and
that a cache that was there is replaced, never emptied (`LoadedInv`). `FreshTheorem`
follows from the state in which the answer is put together, and is carried by the
invariant because every other step clears `answer`.

`BalanceCacheProofs`: `FreshBalancesTheorem`, `FreshPortfolioTheorem` and
`HonestAsOfTheorem` rest on one relation between an entry and the chain, `Real`: its
value is the balance now, or was replaced at its `fetchedAt` or later. It holds of the
rows, of what requests and snapshots have read and of what they have fetched, in
whatever order upserts overwrite each other, because a transfer never comes before
an answer already given.

`SwapPrepareProofs`: `RecipientTheorem`, `OffersTheorem`, `RefusalTheorem` and
`SlippageTheorem` about `SwapPrepare`, `EndpointsTheorem` about `OneClickQuotes`, and
`CompositionTheorem`, that the composition implements `SwapPrepare`, so that the former
hold of it as well. `NoOfferIsLost` and `NoNeedlessRefusal` speak of all that providers
ever offer (`Offers`), while the code looks at what it has when it decides; the
invariant closes the gap: past the decision every request has settled, so no answer is
late (`DecisionOK`), and one that was rejected offers nothing (`RepliesOK`), so that
offers are the quotes compared (`OffersAreQuotes`). It also says that the approved and
the refused quote are the one that was selected (`OutcomeOK`) among replies that
name their provider and the amount asked for. That there is a best quote among any
number is the lemma `FirstOfBest`. The arithmetic of the slippage policy is two lemmas:
what passes lacks no more than a unit for each of the two integer divisions and
half a millionth of the input for the ratio rounded to six decimals (`RoundedValue`);
what is refused lacks more than that half millionth could have added to what was
expected (`RefusedValue`). Both hold for products of any size, which TLC's 32-bit integers
cannot show.

Only model-checked:

- `SummaryAddsUp`: what the folds of `ProductMetrics` compute for every set of rows needs
  induction over data, which does not go through the backends of TLAPS. For the same
  reason nothing is proved of the number of free connections of the pool, which is a sum
  over the requests (`Free`).
- Every liveness property (`TransactionsEnd`, `RequestsEnd`, `MidsKeepComing`,
  `StreamSpeaks`, `AbandonedStreamsEnd`), since TLAPS does not reason about ENABLED.

## 6. Not modelled

PKCE, hashing and token formats; JSON-RPC framing; the decimal arithmetic of
portfolio values; preferences (one upsert); the audit events and wallets of a
deleted account; the content of market messages and series; the seed of names and
icons (data); shutdown of the chart service; the library's verification of signatures
and its cache of keys; translations, HTTP clients and their interceptor, which keep
no state the models need; bootstrap, migrations and deployment.

## 7. Plan

In order:

1. `AgentAccounts`: `AgentGrants` composed with the status of the user's account.
2. One abstract cache (a value served was current within a bound) that `AssetsCache`,
   the caches of `MarketHistory` and the rows of `BalanceCache` implement: `Real`,
   `StoredTimely` and `RecentInv` have the same shape.
