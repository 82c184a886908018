----------------------------- MODULE ChartStream -----------------------------
(***************************************************************************)
(* The market chart stream of one process: MarketsChartGateway, which      *)
(* keeps a Map from client sockets to subscriptions, and                   *)
(* HyperliquidWsService, which shares one upstream socket among them by    *)
(* counting references.  A handler of an event runs to its end before the  *)
(* next one, except that handleSubscribe awaits the asset context between  *)
(* the removal of the old subscription and the registration of the new     *)
(* one, and that every socket reports its opening, error and close later.  *)
(* What the ws library does is modelled from its use: close() answers at   *)
(* once and the close event follows, at the next tick if the socket was    *)
(* still connecting; send() on a connecting socket throws.                 *)
(***************************************************************************)
EXTENDS Naturals, FiniteSets

CONSTANTS
  Clients,    \* client connections
  Symbols,
  Handlers,   \* invocations of handleSubscribe that await the asset context
  Sockets,    \* upstream sockets that exist at a time: a bound of the model
  Timers,     \* reconnect timers pending at a time: a bound of the model
  None

ASSUME NoneAssumption == None \notin Clients \cup Symbols \cup Sockets \cup Timers
\* There are finitely many connections, coins and messages being handled.
ASSUME FiniteAssumption == IsFiniteSet(Clients) /\ IsFiniteSet(Symbols) /\ IsFiniteSet(Handlers)

VARIABLES
  connected,      \* the clients that are connected
  entry,          \* clientSubscriptions: the symbol a client is registered for
  live,           \* the subscriptions to mids$ that are not unsubscribed
  handler,        \* the invocations of handleSubscribe in progress
  refCount, ws, reconnectTimer,  \* the fields of HyperliquidWsService
  socket,         \* the state of every upstream socket
  timers,         \* the timers that are going to fire
  overlapped,     \* whether a client has ever been disconnected, or sent again,
                  \* before its last message was handled
  late            \* whether a socket has ever been closing still when the next
                  \* was opened

vars ==
  <<connected, entry, live, handler, refCount, ws, reconnectTimer, socket, timers, overlapped, late>>
gateway == <<connected, entry, live, handler>>
upstream == <<ws, reconnectTimer, socket, timers>>

\* subscriptions of a client to a symbol: a bound of the model
MaxLive == Cardinality(Handlers) + 1
NoSocket == [state |-> "none", subscribed |-> FALSE]
Socket ==
  [state: {"none", "connecting", "open", "aborting", "closing"}, subscribed: BOOLEAN]

Init ==
  /\ connected = {}
  /\ entry = [c \in Clients |-> None]
  /\ live = [p \in Clients \X Symbols |-> 0]
  /\ handler = [h \in Handlers |-> None]
  /\ refCount = 0
  /\ ws = None /\ reconnectTimer = None
  /\ socket = [s \in Sockets |-> NoSocket]
  /\ timers = {}
  /\ overlapped = FALSE /\ late = FALSE

-----------------------------------------------------------------------------
\* socket.close(): a connecting socket is aborted, an open one says goodbye.
Closed(sockets, s) ==
  IF s = None THEN sockets
  ELSE CASE sockets[s].state = "connecting" -> [sockets EXCEPT ![s].state = "aborting"]
         [] sockets[s].state = "open" -> [sockets EXCEPT ![s].state = "closing"]
         [] OTHER -> sockets

\* connect
Connect(s) ==
  /\ socket[s].state = "none"
  /\ socket' = [socket EXCEPT ![s] = [state |-> "connecting", subscribed |-> FALSE]]
  /\ ws' = s

disconnect ==
  /\ timers' = timers \ {reconnectTimer}
  /\ reconnectTimer' = None
  /\ socket' = Closed(socket, ws)
  /\ ws' = None

\* retain
Retain ==
  /\ refCount' = refCount + 1
  /\ IF refCount = 0
     THEN /\ \E s \in Sockets : Connect(s)
          /\ UNCHANGED <<reconnectTimer, timers>>
     ELSE UNCHANGED upstream

BrokenReleaseKeepsSocket ==
  /\ refCount' = IF refCount = 0 THEN 0 ELSE refCount - 1
  /\ UNCHANGED upstream

\* release
Release ==
  /\ refCount' = IF refCount = 0 THEN 0 ELSE refCount - 1
  /\ IF refCount' = 0 THEN disconnect ELSE UNCHANGED upstream

BrokenUnsubscribeKeepsEntry(c) ==
  IF entry[c] = None
  THEN UNCHANGED <<entry, live, refCount, upstream>>
  ELSE /\ live' = [live EXCEPT ![<<c, entry[c]>>] = IF @ = 0 THEN 0 ELSE @ - 1]
       /\ Release
       /\ UNCHANGED entry

\* unsubscribeClient
UnsubscribeClient(c) ==
  IF entry[c] = None
  THEN UNCHANGED <<entry, live, refCount, upstream>>
  ELSE /\ live' = [live EXCEPT ![<<c, entry[c]>>] = @ - 1]
       /\ entry' = [entry EXCEPT ![c] = None]
       /\ Release

-----------------------------------------------------------------------------
Waiting(c) == \E h \in Handlers : handler[h] # None /\ handler[h].client = c

\* A new connection; it may take the place of one that has left no trace.
Arrive(c) ==
  /\ c \notin connected /\ ~Waiting(c)
  /\ \A symbol \in Symbols : live[<<c, symbol>>] = 0
  /\ connected' = connected \cup {c}
  /\ UNCHANGED <<entry, live, handler, refCount, upstream>>

\* handleSubscribe up to the await of getAssetContext
Subscribe(c, h, symbol) ==
  /\ c \in connected
  /\ handler[h] = None
  /\ UnsubscribeClient(c)
  /\ handler' = [handler EXCEPT ![h] = [client |-> c, symbol |-> symbol]]
  /\ UNCHANGED connected

\* handleUnsubscribe; handleSubscribe without a symbol has the same effect.
Unsubscribe(c) ==
  /\ c \in connected
  /\ UnsubscribeClient(c)
  /\ UNCHANGED <<connected, handler>>

BrokenDisconnectForgets(c) ==
  /\ c \in connected
  /\ connected' = connected \ {c}
  /\ UNCHANGED <<entry, live, handler, refCount, upstream>>

\* handleDisconnect
Disconnect(c) ==
  /\ c \in connected
  /\ UnsubscribeClient(c)
  /\ connected' = connected \ {c}
  /\ UNCHANGED handler

\* handleSubscribe after the await, whatever has happened in the meantime
Subscribed(h) ==
  /\ handler[h] # None
  /\ LET c == handler[h].client
         symbol == handler[h].symbol
     IN  /\ live[<<c, symbol>>] < MaxLive
         /\ live' = [live EXCEPT ![<<c, symbol>>] = @ + 1]
         /\ entry' = [entry EXCEPT ![c] = symbol]
  /\ Retain
  /\ handler' = [handler EXCEPT ![h] = None]
  /\ UNCHANGED connected

\* getAssetContext fails: the client gets an error event.
SubscribeFails(h) ==
  /\ handler[h] # None
  /\ handler' = [handler EXCEPT ![h] = None]
  /\ UNCHANGED <<connected, entry, live, refCount, upstream>>

-----------------------------------------------------------------------------
\* The events of an aborted socket come before all others.
Quiet == \A s \in Sockets : socket[s].state # "aborting"

BrokenOpenSendsNothing(s) ==
  /\ Quiet
  /\ socket[s].state = "connecting"
  /\ socket' = [socket EXCEPT ![s].state = "open"]
  /\ UNCHANGED <<gateway, refCount, ws, reconnectTimer, timers>>

\* 'open' of socket s: the subscription is sent on this.ws, which may be
\* another socket by now, or none.
Open(s) ==
  LET opened == [socket EXCEPT ![s].state = "open"] IN
  /\ Quiet
  /\ socket[s].state = "connecting"
  /\ ws # None => opened[ws].state # "connecting"
  /\ socket' = IF ws # None /\ opened[ws].state = "open"
               THEN [opened EXCEPT ![ws].subscribed = TRUE] ELSE opened
  /\ UNCHANGED <<gateway, refCount, ws, reconnectTimer, timers>>

\* send() throws in the listener: nothing catches it and the process starts
\* anew.
OpenThrows(s) ==
  /\ Quiet
  /\ socket[s].state = "connecting"
  /\ ws \notin {None, s}
  /\ socket[ws].state = "connecting"
  /\ connected' = {}
  /\ entry' = [c \in Clients |-> None]
  /\ live' = [p \in Clients \X Symbols |-> 0]
  /\ handler' = [h \in Handlers |-> None]
  /\ refCount' = 0
  /\ ws' = None /\ reconnectTimer' = None
  /\ socket' = [q \in Sockets |-> NoSocket]
  /\ timers' = {}

BrokenCloseNoReconnect(sockets, s) ==
  /\ socket' = [sockets EXCEPT ![s] = NoSocket]
  /\ ws' = None
  /\ UNCHANGED <<timers, reconnectTimer>>

\* The listener of 'close' of socket s forgets this.ws, whichever it is.
OnClose(sockets, s) ==
  /\ socket' = [sockets EXCEPT ![s] = NoSocket]
  /\ ws' = None
  /\ IF refCount > 0
     THEN \E timer \in Timers \ (timers \cup {reconnectTimer}) :
            /\ timers' = timers \cup {timer}
            /\ reconnectTimer' = timer
     ELSE UNCHANGED <<timers, reconnectTimer>>

\* The closing handshake is over, or the peer has closed.
Close(s) ==
  /\ Quiet
  /\ socket[s].state \in {"open", "closing"}
  /\ OnClose(socket, s)
  /\ UNCHANGED <<gateway, refCount>>

\* A connecting socket fails or is aborted: 'error', whose listener closes
\* this.ws, and at once 'close'.
Fail(s) ==
  /\ socket[s].state \in IF Quiet THEN {"connecting"} ELSE {"aborting"}
  /\ OnClose(IF ws = s THEN socket ELSE Closed(socket, ws), s)
  /\ UNCHANGED <<gateway, refCount>>

\* The timer of the reconnection fires.
Reconnect(timer) ==
  /\ Quiet
  /\ timer \in timers
  /\ timers' = timers \ {timer}
  /\ \E s \in Sockets : Connect(s)
  /\ UNCHANGED <<gateway, refCount, reconnectTimer>>

Overlaps ==
  \E h \in Handlers :
    /\ handler[h] # None
    /\ \/ handler[h].client \notin connected
       \/ \E g \in Handlers \ {h} : handler[g] # None /\ handler[g].client = handler[h].client
SocketsOverlap == \E s, q \in Sockets : s # q /\ socket[s].state # "none" /\ socket[q].state # "none"

Next ==
  /\ \/ Quiet /\ \E c \in Clients :
          \/ Arrive(c) \/ Unsubscribe(c) \/ Disconnect(c)
          \/ \E h \in Handlers, symbol \in Symbols : Subscribe(c, h, symbol)
     \/ Quiet /\ \E h \in Handlers : Subscribed(h) \/ SubscribeFails(h)
     \/ \E s \in Sockets : Open(s) \/ OpenThrows(s) \/ Close(s) \/ Fail(s)
     \/ \E timer \in Timers : Reconnect(timer)
  /\ overlapped' = (overlapped \/ Overlaps')
  /\ late' = (late \/ SocketsOverlap')

Spec == Init /\ [][Next]_vars

\* The event loop runs pending handlers and timers; the peer answers, and a
\* connection that is attempted for ever is at last accepted.
FairSpec ==
  /\ Spec
  /\ \A s \in Sockets :
       /\ SF_upstream(Open(s))
       /\ WF_upstream(Close(s) /\ socket[s].state = "closing")
       /\ WF_upstream(Fail(s) /\ socket[s].state = "aborting")
  /\ \A timer \in Timers : WF_upstream(Reconnect(timer))

-----------------------------------------------------------------------------
\* The types of the variables; and this.ws is never a socket that has
\* reported its close.
TypeOK ==
  /\ connected \subseteq Clients
  /\ entry \in [Clients -> Symbols \cup {None}]
  /\ live \in [Clients \X Symbols -> 0..MaxLive]
  /\ handler \in [Handlers -> [client: Clients, symbol: Symbols] \cup {None}]
  /\ refCount \in Nat
  /\ ws \in Sockets \cup {None}
  /\ reconnectTimer \in Timers \cup {None}
  /\ socket \in [Sockets -> Socket]
  /\ timers \subseteq Timers
  /\ ws # None => socket[ws].state # "none"

\* The subscriptions that are alive, as numbered members of a set
Subscriptions == {s \in (Clients \X Symbols) \X (1..MaxLive) : s[2] <= live[s[1]]}

\* Whatever clients do while their subscription is being prepared, the
\* references counted are the subscriptions that are alive, each one retained
\* and released once; and a registered client has a live one.
RefCountIsExact ==
  /\ refCount = Cardinality(Subscriptions)
  /\ \A c \in Clients : entry[c] # None => live[<<c, entry[c]>>] > 0

\* As long as somebody listens, the service has a socket or is going to open
\* one, however late the events of former sockets arrive.
FeedIsNotLost == refCount > 0 => ws # None \/ timers # {}

\* As long as the former socket is gone before the next is opened, the service
\* never loses track: every upstream socket is this.ws or on its way out, one
\* reconnection at most is pending, and none without listeners.
OneUpstream ==
  ~late =>
    /\ \A s \in Sockets : socket[s].state \in {"connecting", "open"} => s = ws
    /\ Cardinality(timers) <= 1
    /\ refCount = 0 => ws = None /\ timers = {}

\* As long as no client sends or leaves while its last message is being
\* handled, no subscription outlives its client or its replacement.
NoSubscriptionLeaks ==
  ~overlapped => \A c \in Clients, symbol \in Symbols :
    /\ live[<<c, symbol>>] <= 1
    /\ live[<<c, symbol>>] = 1 => c \in connected /\ entry[c] = symbol

\* Listeners are served: as long as there are any, and sockets do not
\* overlap, a subscribed open socket always comes back.
Served == \E s \in Sockets : socket[s].state = "open" /\ socket[s].subscribed
MidsKeepComing == refCount > 0 ~> (refCount = 0 \/ Served \/ late)

=============================================================================
