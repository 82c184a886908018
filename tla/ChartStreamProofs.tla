------------------------- MODULE ChartStreamProofs -------------------------
(***************************************************************************)
(* Proofs about ChartStream, for any clients, symbols, handlers, sockets   *)
(* and timers: its types, the reference count, that the feed is not lost,  *)
(* that there is one upstream socket, and that no subscription leaks.      *)
(***************************************************************************)
EXTENDS ChartStream, FiniteSetTheorems, TLAPS

Up(state) == state \in {"connecting", "open"}
Down(state) == state \in {"aborting", "closing"}

\* As long as sockets have not overlapped: one socket at most, which is this.ws
\* unless nobody listens and it is on its way out, and a timer only if there is
\* no socket in use, the one that disconnect would clear.
Single ==
  ~late =>
    /\ ~SocketsOverlap
    /\ \A s \in Sockets : Up(socket[s].state) => s = ws
    /\ \A s \in Sockets : Down(socket[s].state) => refCount = 0
    /\ timers # {} => ws = None /\ timers = {reconnectTimer}
    /\ refCount = 0 => ws = None /\ timers = {}

\* As long as messages have not overlapped: a client that waits for its
\* subscription has none.
Tidy ==
  ~overlapped =>
    /\ ~Overlaps
    /\ \A c \in Clients, symbol \in Symbols :
         /\ live[<<c, symbol>>] <= 1
         /\ live[<<c, symbol>>] = 1 => c \in connected /\ entry[c] = symbol
    /\ \A h \in Handlers : handler[h] # None => entry[handler[h].client] = None

IInv == TypeOK /\ RefCountIsExact /\ FeedIsNotLost /\ Single /\ Tidy

-----------------------------------------------------------------------------
\* The subscriptions of a number for every client and coin
SubscriptionsOf(f) == {s \in (Clients \X Symbols) \X (1..MaxLive) : s[2] <= f[s[1]]}
Counts == [Clients \X Symbols -> 0..MaxLive]

LEMMA Constants ==
  /\ None \notin Clients /\ None \notin Symbols /\ None \notin Sockets /\ None \notin Timers
  /\ MaxLive \in Nat \ {0}
<1>1. Cardinality(Handlers) \in Nat
  BY FiniteAssumption, FS_CardinalityType
<1> QED
  BY <1>1, NoneAssumption DEF MaxLive

LEMMA FiniteSubscriptions ==
  ASSUME NEW f
  PROVE  IsFiniteSet(SubscriptionsOf(f)) /\ Cardinality(SubscriptionsOf(f)) \in Nat
<1>1. IsFiniteSet(Clients \X Symbols)
  BY FiniteAssumption, FS_Product
<1>2. IsFiniteSet(1..MaxLive)
  BY Constants, FS_Interval
<1>3. IsFiniteSet((Clients \X Symbols) \X (1..MaxLive))
  BY <1>1, <1>2, FS_Product
<1>4. SubscriptionsOf(f) \subseteq (Clients \X Symbols) \X (1..MaxLive)
  BY DEF SubscriptionsOf
<1>5. IsFiniteSet(SubscriptionsOf(f))
  BY <1>3, <1>4, FS_Subset
<1> QED
  BY <1>5, FS_CardinalityType

\* One subscription more, one less, and none
LEMMA OneMore ==
  ASSUME NEW f \in Counts, NEW p \in Clients \X Symbols, f[p] < MaxLive,
         NEW g, g = [f EXCEPT ![p] = f[p] + 1]
  PROVE  /\ g \in Counts
         /\ Cardinality(SubscriptionsOf(g)) = Cardinality(SubscriptionsOf(f)) + 1
<1>1. f[p] \in 0..MaxLive /\ f[p] + 1 \in 1..MaxLive
  BY Constants DEF Counts
<1>2. g \in Counts /\ g[p] = f[p] + 1 /\ \A q \in Clients \X Symbols : q # p => g[q] = f[q]
  BY <1>1, Constants DEF Counts
<1>3. PICK new : new = <<p, f[p] + 1>>
  OBVIOUS
<1>4. new \notin SubscriptionsOf(f)
  BY <1>1, <1>3 DEF SubscriptionsOf
<1>5. SubscriptionsOf(g) = SubscriptionsOf(f) \cup {new}
  <2>1. ASSUME NEW q \in Clients \X Symbols, NEW n \in 1..MaxLive
        PROVE  <<q, n>> \in SubscriptionsOf(g) <=> <<q, n>> \in SubscriptionsOf(f) \cup {new}
    <3>1. f[q] \in 0..MaxLive /\ <<q, n>> = new <=> (q = p /\ n = f[p] + 1)
      BY <1>3 DEF Counts
    <3>2. <<q, n>> \in SubscriptionsOf(g) <=> n <= g[q]
      BY DEF SubscriptionsOf
    <3>3. <<q, n>> \in SubscriptionsOf(f) <=> n <= f[q]
      BY DEF SubscriptionsOf
    <3>4. CASE q # p
      BY <1>2, <1>3, <3>2, <3>3, <3>4
    <3>5. CASE q = p
      <4>1. n <= f[p] + 1 <=> n <= f[p] \/ n = f[p] + 1
        BY <1>1
      <4>2. <<q, n>> = new <=> n = f[p] + 1
        BY <1>3, <3>5
      <4> QED
        BY <1>2, <3>2, <3>3, <3>5, <4>1, <4>2
    <3> QED
      BY <3>4, <3>5
  <2>2. /\ SubscriptionsOf(g) \subseteq (Clients \X Symbols) \X (1..MaxLive)
        /\ SubscriptionsOf(f) \cup {new} \subseteq (Clients \X Symbols) \X (1..MaxLive)
    BY <1>1, <1>3 DEF SubscriptionsOf
  <2>3. \A x \in (Clients \X Symbols) \X (1..MaxLive) :
          \E q \in Clients \X Symbols, n \in 1..MaxLive : x = <<q, n>>
    OBVIOUS
  <2>4. ASSUME NEW x \in (Clients \X Symbols) \X (1..MaxLive)
        PROVE  x \in SubscriptionsOf(g) <=> x \in SubscriptionsOf(f) \cup {new}
    <3>1. PICK q \in Clients \X Symbols, n \in 1..MaxLive : x = <<q, n>>
      BY <2>3
    <3> QED
      BY <2>1, <3>1
  <2> QED
    BY <2>2, <2>4
<1> QED
  BY <1>2, <1>4, <1>5, FiniteSubscriptions, FS_AddElement

LEMMA OneLess ==
  ASSUME NEW f \in Counts, NEW p \in Clients \X Symbols, f[p] > 0,
         NEW g, g = [f EXCEPT ![p] = f[p] - 1]
  PROVE  /\ g \in Counts
         /\ Cardinality(SubscriptionsOf(f)) = Cardinality(SubscriptionsOf(g)) + 1
<1>1. f[p] \in 1..MaxLive /\ f[p] - 1 \in 0..MaxLive /\ f[p] - 1 < MaxLive /\ (f[p] - 1) + 1 = f[p]
  <2>1. f[p] \in 0..MaxLive
    BY DEF Counts
  <2> QED
    BY <2>1, Constants
<1>2. g \in Counts /\ g[p] = f[p] - 1
  <2>1. PICK n \in 0..MaxLive : n = f[p] - 1
    BY <1>1
  <2>2. g = [f EXCEPT ![p] = n]
    BY <2>1
  <2> QED
    BY <2>1, <2>2 DEF Counts
<1>3. f = [g EXCEPT ![p] = g[p] + 1]
  <2>1. g[p] + 1 = f[p]
    BY <1>1, <1>2
  <2>2. f = [g EXCEPT ![p] = f[p]]
    BY DEF Counts
  <2> QED
    BY <2>1, <2>2
<1>4. g[p] < MaxLive
  BY <1>1, <1>2
<1> QED
  BY <1>2, <1>3, <1>4, OneMore

LEMMA NoneLive ==
  ASSUME NEW g, g = [p \in Clients \X Symbols |-> 0]
  PROVE  g \in Counts /\ Cardinality(SubscriptionsOf(g)) = 0
<1>1. g \in Counts
  BY Constants DEF Counts
<1>2. SubscriptionsOf(g) = {}
  BY DEF SubscriptionsOf
<1> QED
  BY <1>1, <1>2, FS_EmptySet

-----------------------------------------------------------------------------
\* The side of HyperliquidWsService
UpTypes ==
  /\ refCount \in Nat
  /\ ws \in Sockets \cup {None}
  /\ reconnectTimer \in Timers \cup {None}
  /\ socket \in [Sockets -> Socket]
  /\ timers \subseteq Timers
  /\ ws # None => socket[ws].state # "none"
UpInv == UpTypes /\ FeedIsNotLost /\ Single

LEMMA CloseType ==
  ASSUME NEW f \in [Sockets -> Socket], NEW s \in Sockets \cup {None}
  PROVE  /\ Closed(f, s) \in [Sockets -> Socket]
         /\ \A q \in Sockets : q # s => Closed(f, s)[q] = f[q]
         /\ \A q \in Sockets : Closed(f, s)[q].state # "none" <=> f[q].state # "none"
         /\ s # None => ~Up(Closed(f, s)[s].state)
         /\ s # None /\ Up(f[s].state) => Down(Closed(f, s)[s].state)
<1>1. CASE s = None
  BY <1>1, Constants DEF Closed
<1>2. CASE s # None
  <2>1. s \in Sockets /\ f[s] \in Socket
    BY <1>2
  <2>2. CASE f[s].state = "connecting"
    <3>1. PICK g : g = [f EXCEPT ![s].state = "aborting"]
      OBVIOUS
    <3>2. g \in [Sockets -> Socket] /\ g[s].state = "aborting" /\ \A q \in Sockets : q # s => g[q] = f[q]
      BY <2>1, <3>1 DEF Socket
    <3>3. Closed(f, s) = g
      BY <1>2, <2>2, <3>1 DEF Closed
    <3> QED
      BY <1>2, <2>2, <3>2, <3>3 DEF Up, Down
  <2>3. CASE f[s].state = "open"
    <3>1. PICK g : g = [f EXCEPT ![s].state = "closing"]
      OBVIOUS
    <3>2. g \in [Sockets -> Socket] /\ g[s].state = "closing" /\ \A q \in Sockets : q # s => g[q] = f[q]
      BY <2>1, <3>1 DEF Socket
    <3>3. Closed(f, s) = g
      BY <1>2, <2>3, <3>1 DEF Closed
    <3> QED
      BY <1>2, <2>3, <3>2, <3>3 DEF Up, Down
  <2>4. CASE f[s].state \notin {"connecting", "open"}
    <3>1. Closed(f, s) = f
      BY <1>2, <2>4 DEF Closed
    <3> QED
      BY <2>4, <3>1 DEF Up
  <2> QED
    BY <2>2, <2>3, <2>4
<1> QED
  BY <1>1, <1>2

LEMMA StatesOf ==
  ASSUME UpTypes, NEW s \in Sockets
  PROVE  /\ socket[s] \in Socket
         /\ socket[s].state # "none" <=> Up(socket[s].state) \/ Down(socket[s].state)
         /\ ~(Up(socket[s].state) /\ Down(socket[s].state))
BY DEF UpTypes, Socket, Up, Down

\* What Single says before a step that lets no sockets overlap
LEMMA Overlapping ==
  ASSUME late' = (late \/ SocketsOverlap'), Single, ~late'
  PROVE  /\ ~late /\ ~SocketsOverlap /\ ~SocketsOverlap'
         /\ \A s \in Sockets : Up(socket[s].state) => s = ws
         /\ \A s \in Sockets : Down(socket[s].state) => refCount = 0
         /\ timers # {} => ws = None /\ timers = {reconnectTimer}
         /\ refCount = 0 => ws = None /\ timers = {}
BY DEF Single

LEMMA UpKept ==
  ASSUME UpInv, late' = (late \/ SocketsOverlap'), UNCHANGED upstream,
         refCount' \in Nat, refCount' = 0 <=> refCount = 0
  PROVE  UpInv'
<1>1. refCount \in Nat
  BY DEF UpInv, UpTypes
<1>2. Single'
  BY Overlapping, <1>1 DEF UpInv, Single, upstream
<1> QED
  BY <1>1, <1>2 DEF UpInv, UpTypes, FeedIsNotLost, upstream

LEMMA UpDisconnect ==
  ASSUME UpInv, late' = (late \/ SocketsOverlap'), disconnect, refCount' = 0
  PROVE  UpInv'
<1>1. socket' \in [Sockets -> Socket] /\ ws' = None /\ reconnectTimer' = None /\ timers' = timers \ {reconnectTimer}
  BY CloseType DEF disconnect, UpInv, UpTypes
<1>2. UpTypes'
  BY <1>1 DEF UpInv, UpTypes
<1>3. ASSUME ~late' PROVE timers' = {} /\ \A s \in Sockets : ~Up(socket'[s].state)
  <2>1. \A s \in Sockets : Up(socket[s].state) => s = ws
    BY <1>3, Overlapping DEF UpInv
  <2>2. ws \in Sockets \cup {None} /\ socket \in [Sockets -> Socket]
    BY DEF UpInv, UpTypes
  <2>3. \A s \in Sockets : ~Up(socket'[s].state)
    BY <2>1, <2>2, CloseType, Constants DEF disconnect
  <2> QED
    BY <1>1, <1>3, <2>3, Overlapping DEF UpInv
<1>4. Single'
  BY <1>1, <1>3, Overlapping DEF UpInv, Single
<1> QED
  BY <1>2, <1>4 DEF UpInv, FeedIsNotLost

\* Connect(s) for a listener, or by the reconnection
LEMMA UpConnect ==
  ASSUME UpInv, late' = (late \/ SocketsOverlap'), NEW s \in Sockets, Connect(s),
         refCount' \in Nat, reconnectTimer' = reconnectTimer,
         timers' \subseteq timers, timers # {} \/ refCount = 0,
         \/ timers' = timers /\ refCount = 0 /\ refCount' > 0
         \/ refCount' = refCount /\ \E timer \in Timers : timer \in timers /\ timers' = timers \ {timer}
  PROVE  UpInv'
<1>1. /\ socket' \in [Sockets -> Socket] /\ ws' = s /\ socket'[s].state = "connecting"
      /\ \A q \in Sockets : q # s => socket'[q] = socket[q]
  BY DEF Connect, UpInv, UpTypes, Socket
<1>2. UpTypes'
  BY <1>1 DEF UpInv, UpTypes
<1>3. FeedIsNotLost'
  BY <1>1, Constants DEF FeedIsNotLost
<1>4. ASSUME ~late' PROVE Single'
  <2>1. \A q \in Sockets : q # s => socket'[q].state = "none"
    BY <1>1, <1>4, Overlapping DEF UpInv, SocketsOverlap
  <2>2. timers' = {} /\ refCount' # 0
    BY <1>4, Overlapping DEF UpInv, UpTypes
  <2>3. \A q \in Sockets : (Up(socket'[q].state) => q = s) /\ ~Down(socket'[q].state)
    BY <1>1, <2>1 DEF Up, Down
  <2> QED
    BY <1>1, <1>4, <2>2, <2>3, Overlapping DEF UpInv, Single
<1> QED
  BY <1>2, <1>3, <1>4 DEF UpInv, Single

LEMMA UpOnClose ==
  ASSUME UpInv, late' = (late \/ SocketsOverlap'), UNCHANGED refCount,
         NEW s \in Sockets, socket[s].state # "none", NEW f \in [Sockets -> Socket], OnClose(f, s),
         \A q \in Sockets : f[q].state # "none" <=> socket[q].state # "none"
  PROVE  UpInv'
<1>1. /\ socket' \in [Sockets -> Socket] /\ ws' = None /\ socket'[s].state = "none"
      /\ \A q \in Sockets : q # s => socket'[q] = f[q]
  BY DEF OnClose, Socket, NoSocket
<1>2. /\ refCount > 0 => \E timer \in Timers : timers' = timers \cup {timer} /\ reconnectTimer' = timer
      /\ ~(refCount > 0) => UNCHANGED <<timers, reconnectTimer>>
  BY DEF OnClose
<1>3. UpTypes'
  BY <1>1, <1>2 DEF UpInv, UpTypes
<1>4. FeedIsNotLost'
  BY <1>2 DEF FeedIsNotLost
<1>5. ASSUME ~late' PROVE Single'
  <2>1. \A q \in Sockets : q # s => socket[q].state = "none"
    BY <1>5, Overlapping DEF UpInv, SocketsOverlap
  <2>2. \A q \in Sockets : ~Up(socket'[q].state) /\ ~Down(socket'[q].state)
    BY <1>1, <2>1 DEF Up, Down
  <2>3. refCount \in Nat /\ (refCount # 0 => s = ws)
    BY <1>5, Overlapping, StatesOf DEF UpInv, UpTypes
  <2>4. timers = {}
    BY <1>5, <2>3, Overlapping, Constants DEF UpInv
  <2>5. /\ timers' # {} => timers' = {reconnectTimer'}
        /\ refCount = 0 => timers' = {}
    BY <1>2, <2>3, <2>4
  <2> QED
    BY <1>1, <1>5, <2>2, <2>5, Overlapping DEF UpInv, Single
<1> QED
  BY <1>3, <1>4, <1>5 DEF UpInv, Single

LEMMA UpOpen ==
  ASSUME UpInv, late' = (late \/ SocketsOverlap'), NEW s \in Sockets, Open(s)
  PROVE  UpInv'
<1>1. PICK opened : opened = [socket EXCEPT ![s].state = "open"]
  OBVIOUS
<1>2. /\ opened \in [Sockets -> Socket] /\ opened[s].state = "open"
      /\ \A q \in Sockets : q # s => opened[q] = socket[q]
  BY <1>1 DEF UpInv, UpTypes, Socket
<1>3. /\ socket' \in [Sockets -> Socket]
      /\ \A q \in Sockets : socket'[q].state = opened[q].state
  <2>1. socket' = IF ws # None /\ opened[ws].state = "open"
                  THEN [opened EXCEPT ![ws].subscribed = TRUE] ELSE opened
    BY <1>1 DEF Open
  <2>2. ws # None => ws \in Sockets
    BY DEF UpInv, UpTypes
  <2>3. CASE ws # None /\ opened[ws].state = "open"
    BY <1>2, <2>1, <2>2, <2>3 DEF Socket
  <2>4. CASE ~(ws # None /\ opened[ws].state = "open")
    BY <1>2, <2>1, <2>4
  <2> QED
    BY <2>3, <2>4
<1>4. UNCHANGED <<refCount, ws, reconnectTimer, timers>> /\ socket[s].state = "connecting"
  BY DEF Open
<1>5. \A q \in Sockets : /\ Up(socket'[q].state) <=> Up(socket[q].state)
                         /\ Down(socket'[q].state) <=> Down(socket[q].state)
                         /\ socket'[q].state = "none" <=> socket[q].state = "none"
  BY <1>2, <1>3, <1>4 DEF Up, Down
<1>6. UpTypes'
  BY <1>3, <1>4, <1>5 DEF UpInv, UpTypes
<1>7. Single'
  BY <1>4, <1>5, Overlapping DEF UpInv, Single
<1> QED
  BY <1>4, <1>6, <1>7 DEF UpInv, FeedIsNotLost

LEMMA UpThrows ==
  ASSUME late' = (late \/ SocketsOverlap'), NEW s \in Sockets, OpenThrows(s)
  PROVE  UpInv'
<1>1. /\ refCount' = 0 /\ ws' = None /\ reconnectTimer' = None /\ timers' = {}
      /\ socket' \in [Sockets -> Socket]
      /\ \A q \in Sockets : socket'[q].state = "none"
  BY DEF OpenThrows, NoSocket, Socket
<1>2. UpTypes'
  BY <1>1 DEF UpTypes
<1>3. ~SocketsOverlap' /\ \A q \in Sockets : ~Up(socket'[q].state) /\ ~Down(socket'[q].state)
  BY <1>1 DEF SocketsOverlap, Up, Down
<1> QED
  BY <1>1, <1>2, <1>3 DEF UpInv, FeedIsNotLost, Single

LEMMA UpClose ==
  ASSUME UpInv, late' = (late \/ SocketsOverlap'), NEW s \in Sockets, Close(s)
  PROVE  UpInv'
<1>1. socket \in [Sockets -> Socket] /\ socket[s].state # "none" /\ OnClose(socket, s) /\ UNCHANGED refCount
  BY DEF Close, UpInv, UpTypes
<1> QED
  BY <1>1, UpOnClose

LEMMA UpFail ==
  ASSUME UpInv, late' = (late \/ SocketsOverlap'), NEW s \in Sockets, Fail(s)
  PROVE  UpInv'
<1>1. PICK f : f = IF ws = s THEN socket ELSE Closed(socket, ws)
  OBVIOUS
<1>2. /\ f \in [Sockets -> Socket]
      /\ \A q \in Sockets : f[q].state # "none" <=> socket[q].state # "none"
  <2>1. socket \in [Sockets -> Socket] /\ ws \in Sockets \cup {None}
    BY DEF UpInv, UpTypes
  <2> QED
    BY <1>1, <2>1, CloseType
<1>3. socket[s].state # "none" /\ OnClose(f, s) /\ UNCHANGED refCount
  BY <1>1 DEF Fail
<1> QED
  BY <1>2, <1>3, UpOnClose

LEMMA UpReconnect ==
  ASSUME UpInv, late' = (late \/ SocketsOverlap'), NEW timer \in Timers, Reconnect(timer)
  PROVE  UpInv'
<1>1. PICK s \in Sockets : Connect(s)
  BY DEF Reconnect
<1>2. /\ timer \in timers /\ timers' = timers \ {timer}
      /\ refCount' = refCount /\ reconnectTimer' = reconnectTimer
  BY DEF Reconnect
<1>3. refCount' \in Nat /\ timers' \subseteq timers /\ timers # {}
  BY <1>2 DEF UpInv, UpTypes
<1> QED
  BY <1>1, <1>2, <1>3, UpConnect

LEMMA UpRetain ==
  ASSUME UpInv, late' = (late \/ SocketsOverlap'), Retain
  PROVE  UpInv' /\ refCount' = refCount + 1
<1>1. refCount \in Nat /\ refCount' = refCount + 1
  BY DEF Retain, UpInv, UpTypes
<1>2. CASE refCount = 0
  <2>1. PICK s \in Sockets : Connect(s)
    BY <1>2 DEF Retain
  <2>2. UNCHANGED <<reconnectTimer, timers>>
    BY <1>2 DEF Retain
  <2> QED
    BY <1>1, <1>2, <2>1, <2>2, UpConnect
<1>3. CASE refCount # 0
  <2>1. UNCHANGED upstream
    BY <1>3 DEF Retain
  <2> QED
    BY <1>1, <1>3, <2>1, UpKept
<1> QED
  BY <1>2, <1>3

LEMMA UpRelease ==
  ASSUME UpInv, late' = (late \/ SocketsOverlap'), Release, refCount > 0
  PROVE  UpInv' /\ refCount = refCount' + 1
<1>1. refCount \in Nat /\ refCount' \in Nat /\ refCount = refCount' + 1
  BY DEF Release, UpInv, UpTypes
<1>2. CASE refCount' = 0
  BY <1>1, <1>2, UpDisconnect DEF Release
<1>3. CASE refCount' # 0
  BY <1>1, <1>3, UpKept DEF Release
<1> QED
  BY <1>1, <1>2, <1>3

-----------------------------------------------------------------------------
\* The side of MarketsChartGateway
Handling == [client: Clients, symbol: Symbols]
DownTypes ==
  /\ connected \subseteq Clients
  /\ entry \in [Clients -> Symbols \cup {None}]
  /\ live \in Counts
  /\ handler \in [Handlers -> Handling \cup {None}]

LEMMA Types == TypeOK <=> DownTypes /\ UpTypes
BY DEF TypeOK, DownTypes, UpTypes, Counts, Handling

LEMMA Counted == Subscriptions = SubscriptionsOf(live) /\ Subscriptions' = SubscriptionsOf(live')
BY DEF Subscriptions, SubscriptionsOf

\* What unsubscribeClient does to the subscriptions of c
Leaves(c) ==
  /\ entry' \in [Clients -> Symbols \cup {None}] /\ live' \in Counts
  /\ entry'[c] = None
  /\ \A o \in Clients : o # c => entry'[o] = entry[o]
  /\ \A o \in Clients, symbol \in Symbols :
       live'[<<o, symbol>>] = IF o = c /\ entry[c] = symbol THEN live[<<o, symbol>>] - 1 ELSE live[<<o, symbol>>]

LEMMA UnsubscribeClientStep ==
  ASSUME DownTypes, UpInv, RefCountIsExact, late' = (late \/ SocketsOverlap'),
         NEW c \in Clients, UnsubscribeClient(c)
  PROVE  UpInv' /\ RefCountIsExact' /\ Leaves(c)
<1>1. CASE entry[c] = None
  <2>1. UNCHANGED <<entry, live, refCount>> /\ UNCHANGED upstream
    BY <1>1 DEF UnsubscribeClient
  <2>2. UpInv'
    <3>1. refCount \in Nat
      BY DEF UpInv, UpTypes
    <3> QED
      BY <2>1, <3>1, UpKept
  <2>3. RefCountIsExact'
    BY <2>1, Counted DEF RefCountIsExact
  <2>4. Leaves(c)
    BY <1>1, <2>1, Constants DEF Leaves, DownTypes
  <2> QED
    BY <2>2, <2>3, <2>4
<1>2. CASE entry[c] # None
  <2>1. PICK symbol \in Symbols : symbol = entry[c]
    BY <1>2 DEF DownTypes
  <2>2. PICK p \in Clients \X Symbols : p = <<c, symbol>>
    OBVIOUS
  <2>3. /\ live' = [live EXCEPT ![p] = live[p] - 1] /\ entry' = [entry EXCEPT ![c] = None]
        /\ Release /\ live[p] > 0 /\ live \in Counts
    BY <1>2, <2>1, <2>2 DEF UnsubscribeClient, RefCountIsExact, DownTypes
  <2>4. /\ live' \in Counts
        /\ Cardinality(SubscriptionsOf(live)) = Cardinality(SubscriptionsOf(live')) + 1
    <3>1. PICK f \in Counts : f = live
      BY <2>3
    <3>2. PICK g : g = live'
      OBVIOUS
    <3>3. g = [f EXCEPT ![p] = f[p] - 1] /\ f[p] > 0
      BY <2>3, <3>1, <3>2
    <3>4. g \in Counts /\ Cardinality(SubscriptionsOf(f)) = Cardinality(SubscriptionsOf(g)) + 1
      BY <3>3, OneLess
    <3> QED
      BY <3>1, <3>2, <3>4
  <2>5. /\ refCount = Cardinality(SubscriptionsOf(live)) /\ refCount \in Nat
        /\ Cardinality(SubscriptionsOf(live')) \in Nat
    BY Counted, FiniteSubscriptions DEF RefCountIsExact
  <2>6. refCount > 0
    BY <2>4, <2>5
  <2>7. UpInv' /\ refCount = refCount' + 1
    BY <2>3, <2>6, UpRelease
  <2>8. refCount' = Cardinality(SubscriptionsOf(live'))
    <3>1. refCount' \in Nat
      BY <2>7 DEF UpInv, UpTypes
    <3>2. Cardinality(SubscriptionsOf(live')) + 1 = refCount' + 1
      BY <2>4, <2>5, <2>7
    <3> QED
      BY <2>5, <3>1, <3>2
  <2>9. Leaves(c)
    BY <2>1, <2>2, <2>3, <2>4 DEF Leaves, DownTypes, Counts
  <2>10. \A o \in Clients : entry'[o] # None => live'[<<o, entry'[o]>>] > 0
    <3>1. ASSUME NEW o \in Clients, entry'[o] # None PROVE live'[<<o, entry'[o]>>] > 0
      <4>1. o # c /\ entry'[o] = entry[o]
        BY <2>9, <3>1 DEF Leaves
      <4>2. PICK mine \in Symbols : mine = entry[o]
        BY <3>1, <4>1 DEF DownTypes
      <4>3. live'[<<o, mine>>] = live[<<o, mine>>]
        BY <2>9, <4>1 DEF Leaves
      <4>4. live[<<o, mine>>] > 0
        BY <3>1, <4>1, <4>2 DEF RefCountIsExact
      <4> QED
        BY <4>1, <4>2, <4>3, <4>4
    <3> QED
      BY <3>1
  <2> QED
    BY <2>7, <2>8, <2>9, <2>10, Counted DEF RefCountIsExact
<1> QED
  BY <1>1, <1>2

\* What the registration of a subscription of c does
Joins(c, symbol) ==
  /\ entry' \in [Clients -> Symbols \cup {None}] /\ live' \in Counts
  /\ entry'[c] = symbol
  /\ \A o \in Clients : o # c => entry'[o] = entry[o]
  /\ \A o \in Clients, other \in Symbols :
       live'[<<o, other>>] = IF o = c /\ other = symbol THEN live[<<o, other>>] + 1 ELSE live[<<o, other>>]

LEMMA SubscribedStep ==
  ASSUME DownTypes, UpInv, RefCountIsExact, late' = (late \/ SocketsOverlap'),
         NEW h \in Handlers, Subscribed(h)
  PROVE  /\ UpInv' /\ RefCountIsExact'
         /\ handler[h] \in Handling /\ Joins(handler[h].client, handler[h].symbol)
<1>1. handler[h] \in Handling
  BY DEF Subscribed, DownTypes
<1>2. PICK c \in Clients, symbol \in Symbols : c = handler[h].client /\ symbol = handler[h].symbol
  BY <1>1 DEF Handling
<1>3. PICK p \in Clients \X Symbols : p = <<c, symbol>>
  OBVIOUS
<1>4. /\ live[p] < MaxLive /\ live' = [live EXCEPT ![p] = live[p] + 1]
      /\ entry' = [entry EXCEPT ![c] = symbol] /\ Retain /\ live \in Counts
  BY <1>2, <1>3 DEF Subscribed, DownTypes
<1>5. /\ live' \in Counts
      /\ Cardinality(SubscriptionsOf(live')) = Cardinality(SubscriptionsOf(live)) + 1
  <2>1. PICK f \in Counts : f = live
    BY <1>4
  <2>2. PICK g : g = live'
    OBVIOUS
  <2>3. g = [f EXCEPT ![p] = f[p] + 1] /\ f[p] < MaxLive
    BY <1>4, <2>1, <2>2
  <2>4. g \in Counts /\ Cardinality(SubscriptionsOf(g)) = Cardinality(SubscriptionsOf(f)) + 1
    BY <2>3, OneMore
  <2> QED
    BY <2>1, <2>2, <2>4
<1>6. UpInv' /\ refCount' = refCount + 1
  BY <1>4, UpRetain
<1>7. refCount' = Cardinality(SubscriptionsOf(live'))
  BY <1>5, <1>6, Counted DEF RefCountIsExact
<1>8. Joins(c, symbol)
  BY <1>3, <1>4, <1>5 DEF Joins, DownTypes, Counts
<1>9. \A o \in Clients : entry'[o] # None => live'[<<o, entry'[o]>>] > 0
  <2>1. ASSUME NEW o \in Clients, entry'[o] # None PROVE live'[<<o, entry'[o]>>] > 0
    <3>1. PICK mine \in Symbols : mine = entry'[o]
      BY <1>8, <2>1 DEF Joins
    <3>2. live[<<o, mine>>] \in Nat /\ (o = c => mine = symbol) /\ (o # c => mine = entry[o])
      BY <1>4, <1>8, <3>1 DEF Joins, Counts
    <3>3. o # c => live[<<o, mine>>] > 0
      BY <2>1, <3>1, <3>2 DEF RefCountIsExact
    <3>4. live'[<<o, mine>>] = IF o = c /\ mine = symbol THEN live[<<o, mine>>] + 1 ELSE live[<<o, mine>>]
      BY <1>8 DEF Joins
    <3>5. live'[<<o, mine>>] > 0
      BY <3>2, <3>3, <3>4
    <3> QED
      BY <3>1, <3>5
  <2> QED
    BY <2>1
<1> QED
  BY <1>1, <1>2, <1>6, <1>7, <1>8, <1>9, Counted DEF RefCountIsExact

-----------------------------------------------------------------------------
\* The clients, their messages and what they are registered for
LEMMA TidyFacts ==
  ASSUME Tidy, overlapped' = (overlapped \/ Overlaps'), ~overlapped'
  PROVE  /\ ~Overlaps /\ ~Overlaps'
         /\ \A c \in Clients, symbol \in Symbols :
              /\ live[<<c, symbol>>] <= 1
              /\ live[<<c, symbol>>] = 1 => c \in connected /\ entry[c] = symbol
         /\ \A h \in Handlers : handler[h] # None => entry[handler[h].client] = None
BY DEF Tidy

LEMMA CountOf ==
  ASSUME DownTypes, NEW c \in Clients, NEW symbol \in Symbols
  PROVE  live[<<c, symbol>>] \in Nat
<1>1. live[<<c, symbol>>] \in 0..MaxLive
  BY DEF DownTypes, Counts
<1> QED
  BY <1>1, Constants

LEMMA TidyLeaves ==
  ASSUME Tidy, DownTypes, RefCountIsExact, overlapped' = (overlapped \/ Overlaps'),
         NEW c \in Clients, Leaves(c), connected \ {c} \subseteq connected',
         \A h \in Handlers : handler'[h] = handler[h] \/ handler'[h].client = c
  PROVE  Tidy'
<1> SUFFICES ASSUME ~overlapped' PROVE Tidy'
  BY DEF Tidy
<1>1. ASSUME NEW o \in Clients, NEW symbol \in Symbols
      PROVE  /\ live'[<<o, symbol>>] <= 1
             /\ live'[<<o, symbol>>] = 1 => o \in connected' /\ entry'[o] = symbol
  <2>1. /\ live[<<o, symbol>>] \in Nat /\ live[<<o, symbol>>] <= 1
        /\ live[<<o, symbol>>] = 1 => o \in connected /\ entry[o] = symbol
    BY TidyFacts, CountOf
  <2>2. live'[<<o, symbol>>] = IF o = c /\ entry[c] = symbol THEN live[<<o, symbol>>] - 1 ELSE live[<<o, symbol>>]
    BY DEF Leaves
  <2>3. CASE o = c
    <3>1. live'[<<o, symbol>>] # 1
      BY <2>1, <2>2, <2>3
    <3> QED
      BY <2>1, <2>2, <3>1
  <2>4. CASE o # c
    BY <2>1, <2>2, <2>4 DEF Leaves
  <2> QED
    BY <2>3, <2>4
<1>2. ASSUME NEW h \in Handlers, handler'[h] # None PROVE entry'[handler'[h].client] = None
  <2>1. CASE handler'[h].client = c
    BY <2>1 DEF Leaves
  <2>2. CASE handler'[h].client # c
    <3>1. handler'[h] = handler[h] /\ handler[h] \in Handling
      BY <1>2, <2>2 DEF DownTypes
    <3>2. handler[h].client \in Clients /\ entry[handler[h].client] = None
      BY <1>2, <3>1, TidyFacts DEF Handling
    <3> QED
      BY <2>2, <3>1, <3>2 DEF Leaves
  <2> QED
    BY <2>1, <2>2
<1> QED
  BY <1>1, <1>2, TidyFacts DEF Tidy

LEMMA TidyJoins ==
  ASSUME Tidy, DownTypes, RefCountIsExact, overlapped' = (overlapped \/ Overlaps'),
         NEW h \in Handlers, handler[h] \in Handling, handler[h] # None,
         Joins(handler[h].client, handler[h].symbol),
         handler' = [handler EXCEPT ![h] = None], UNCHANGED connected
  PROVE  Tidy'
<1> SUFFICES ASSUME ~overlapped' PROVE Tidy'
  BY DEF Tidy
<1>1. PICK c \in Clients, mine \in Symbols : c = handler[h].client /\ mine = handler[h].symbol
  BY DEF Handling
<1>2. /\ c \in connected
      /\ \A g \in Handlers : g # h /\ handler[g] # None => handler[g].client # c
  BY <1>1, TidyFacts DEF Overlaps
<1>3. entry[c] = None /\ Joins(c, mine)
  BY <1>1, TidyFacts
<1>4. ASSUME NEW o \in Clients, NEW symbol \in Symbols
      PROVE  /\ live'[<<o, symbol>>] <= 1
             /\ live'[<<o, symbol>>] = 1 => o \in connected' /\ entry'[o] = symbol
  <2>1. /\ live[<<o, symbol>>] \in Nat /\ live[<<o, symbol>>] <= 1
        /\ live[<<o, symbol>>] = 1 => o \in connected /\ entry[o] = symbol
    BY TidyFacts, CountOf
  <2>2. live'[<<o, symbol>>] = IF o = c /\ symbol = mine THEN live[<<o, symbol>>] + 1 ELSE live[<<o, symbol>>]
    BY <1>3 DEF Joins
  <2>3. CASE o = c
    <3>1. live[<<o, symbol>>] = 0
      BY <1>3, <2>1, <2>3, Constants
    <3>2. /\ symbol = mine => live'[<<o, symbol>>] = 1
          /\ symbol # mine => live'[<<o, symbol>>] = 0
      BY <2>2, <2>3, <3>1
    <3>3. entry'[o] = mine /\ o \in connected'
      BY <1>2, <1>3, <2>3 DEF Joins
    <3> QED
      BY <3>2, <3>3
  <2>4. CASE o # c
    BY <1>3, <2>1, <2>2, <2>4 DEF Joins
  <2> QED
    BY <2>3, <2>4
<1>5. ASSUME NEW g \in Handlers, handler'[g] # None PROVE entry'[handler'[g].client] = None
  <2>1. g # h /\ handler'[g] = handler[g] /\ handler[g] \in Handling
    BY <1>5 DEF DownTypes
  <2>2. handler[g].client # c /\ handler[g].client \in Clients /\ entry[handler[g].client] = None
    BY <1>2, <1>5, <2>1, TidyFacts DEF Handling
  <2> QED
    BY <1>3, <2>1, <2>2 DEF Joins
<1> QED
  BY <1>4, <1>5, TidyFacts DEF Tidy

\* Nothing is registered or unsubscribed.
LEMMA TidyKept ==
  ASSUME Tidy, overlapped' = (overlapped \/ Overlaps'), UNCHANGED <<entry, live>>, connected \subseteq connected',
         \A h \in Handlers : handler'[h] = handler[h] \/ handler'[h] = None
  PROVE  Tidy'
<1> SUFFICES ASSUME ~overlapped' PROVE Tidy'
  BY DEF Tidy
<1> QED
  BY TidyFacts DEF Tidy

-----------------------------------------------------------------------------
\* The invariant, by the two sides
LEMMA Sides == IInv <=> DownTypes /\ UpInv /\ RefCountIsExact /\ Tidy
BY Types DEF IInv, UpInv

LEMMA SidesAfter == DownTypes' /\ UpInv' /\ RefCountIsExact' /\ Tidy' => IInv'
BY DEF IInv, UpInv, TypeOK, DownTypes, UpTypes, Counts, Handling

LEMMA InvInit == Init => IInv
<1> SUFFICES ASSUME Init PROVE IInv
  OBVIOUS
<1>1. live \in Counts /\ Cardinality(SubscriptionsOf(live)) = 0
  <2>1. PICK g : g = live
    OBVIOUS
  <2>2. g = [p \in Clients \X Symbols |-> 0]
    BY <2>1 DEF Init
  <2> QED
    BY <2>1, <2>2, NoneLive
<1>2. DownTypes
  BY <1>1 DEF Init, DownTypes
<1>3. UpInv
  BY DEF Init, UpInv, UpTypes, FeedIsNotLost, Single, NoSocket, Socket, SocketsOverlap, Up, Down
<1>4. RefCountIsExact
  BY <1>1, Counted DEF Init, RefCountIsExact
<1>5. Tidy
  BY DEF Init, Tidy, Overlaps
<1> QED
  BY <1>2, <1>3, <1>4, <1>5, Sides

\* What every step does to the history variables
Notes == overlapped' = (overlapped \/ Overlaps') /\ late' = (late \/ SocketsOverlap')

LEMMA LeavesInv ==
  ASSUME IInv, Notes, NEW c \in Clients, UnsubscribeClient(c),
         connected' \subseteq Clients, connected \ {c} \subseteq connected',
         handler' \in [Handlers -> Handling \cup {None}],
         \A h \in Handlers : handler'[h] = handler[h] \/ handler'[h].client = c
  PROVE  IInv'
<1>1. UpInv' /\ RefCountIsExact' /\ Leaves(c)
  BY Sides, UnsubscribeClientStep DEF Notes
<1>2. Tidy'
  BY <1>1, Sides, TidyLeaves DEF Notes
<1>3. DownTypes'
  BY <1>1 DEF DownTypes, Leaves
<1> QED
  BY <1>1, <1>2, <1>3, SidesAfter

\* Nothing is registered or unsubscribed.
LEMMA GatewayInv ==
  ASSUME IInv, Notes, UNCHANGED <<entry, live, refCount>>, UpInv',
         connected' \subseteq Clients, connected \subseteq connected',
         handler' \in [Handlers -> Handling \cup {None}],
         \A h \in Handlers : handler'[h] = handler[h] \/ handler'[h] = None
  PROVE  IInv'
<1>1. Tidy'
  BY Sides, TidyKept DEF Notes
<1>2. DownTypes'
  BY Sides DEF DownTypes
<1>3. RefCountIsExact'
  BY Sides, Counted DEF RefCountIsExact
<1> QED
  BY <1>1, <1>2, <1>3, SidesAfter

LEMMA UpstreamInv ==
  ASSUME IInv, Notes, UNCHANGED <<gateway, refCount>>, UpInv'
  PROVE  IInv'
<1>1. /\ UNCHANGED <<entry, live, refCount>> /\ connected' = connected /\ handler' = handler
      /\ connected \subseteq Clients /\ handler \in [Handlers -> Handling \cup {None}]
  BY Sides DEF gateway, DownTypes
<1> QED
  BY <1>1, GatewayInv

LEMMA IdleUpstream ==
  ASSUME IInv, Notes, UNCHANGED <<refCount, upstream>>
  PROVE  UpInv'
<1>1. refCount \in Nat
  BY Sides DEF UpInv, UpTypes
<1> QED
  BY <1>1, Sides, UpKept DEF Notes

LEMMA ClientInv ==
  ASSUME IInv, Notes, NEW c \in Clients,
         \/ Arrive(c) \/ Unsubscribe(c) \/ Disconnect(c)
         \/ \E h \in Handlers, symbol \in Symbols : Subscribe(c, h, symbol)
  PROVE  IInv'
<1>1. connected \subseteq Clients /\ handler \in [Handlers -> Handling \cup {None}]
  BY Sides DEF DownTypes
<1>2. ASSUME Arrive(c) PROVE IInv'
  <2>1. /\ connected' = connected \cup {c} /\ handler' = handler
        /\ UNCHANGED <<entry, live, refCount>> /\ UNCHANGED <<refCount, upstream>>
    BY <1>2 DEF Arrive
  <2> QED
    BY <1>1, <2>1, IdleUpstream, GatewayInv
<1>3. ASSUME Unsubscribe(c) PROVE IInv'
  BY <1>1, <1>3, LeavesInv DEF Unsubscribe
<1>4. ASSUME Disconnect(c) PROVE IInv'
  BY <1>1, <1>4, LeavesInv DEF Disconnect
<1>5. ASSUME NEW h \in Handlers, NEW symbol \in Symbols, Subscribe(c, h, symbol) PROVE IInv'
  <2>1. PICK new \in Handling : new = [client |-> c, symbol |-> symbol]
    BY DEF Handling
  <2>2. handler' = [handler EXCEPT ![h] = new] /\ new.client = c /\ UnsubscribeClient(c) /\ connected' = connected
    BY <1>5, <2>1 DEF Subscribe
  <2>3. /\ handler' \in [Handlers -> Handling \cup {None}]
        /\ \A g \in Handlers : handler'[g] = handler[g] \/ handler'[g].client = c
    BY <1>1, <2>2
  <2> QED
    BY <1>1, <2>2, <2>3, LeavesInv
<1> QED
  BY <1>2, <1>3, <1>4, <1>5

LEMMA HandlerInv ==
  ASSUME IInv, Notes, NEW h \in Handlers, Subscribed(h) \/ SubscribeFails(h)
  PROVE  IInv'
<1>1. connected \subseteq Clients /\ handler \in [Handlers -> Handling \cup {None}]
  BY Sides DEF DownTypes
<1>2. ASSUME Subscribed(h) PROVE IInv'
  <2>1. /\ UpInv' /\ RefCountIsExact'
        /\ handler[h] \in Handling /\ Joins(handler[h].client, handler[h].symbol)
    BY <1>2, Sides, SubscribedStep DEF Notes
  <2>2. handler[h] # None /\ handler' = [handler EXCEPT ![h] = None] /\ connected' = connected
    BY <1>2 DEF Subscribed
  <2>3. Tidy'
    BY <2>1, <2>2, Sides, TidyJoins DEF Notes
  <2>4. handler' \in [Handlers -> Handling \cup {None}]
    BY <1>1, <2>2
  <2>5. DownTypes'
    BY <1>1, <2>1, <2>2, <2>4 DEF DownTypes, Joins
  <2> QED
    BY <2>1, <2>3, <2>5, SidesAfter
<1>3. ASSUME SubscribeFails(h) PROVE IInv'
  <2>1. /\ handler' = [handler EXCEPT ![h] = None] /\ connected' = connected
        /\ UNCHANGED <<entry, live, refCount>> /\ UNCHANGED <<refCount, upstream>>
    BY <1>3 DEF SubscribeFails
  <2>2. /\ handler' \in [Handlers -> Handling \cup {None}]
        /\ \A g \in Handlers : handler'[g] = handler[g] \/ handler'[g] = None
    BY <1>1, <2>1
  <2> QED
    BY <1>1, <2>1, <2>2, IdleUpstream, GatewayInv
<1> QED
  BY <1>2, <1>3

LEMMA SocketInv ==
  ASSUME IInv, Notes, NEW s \in Sockets, Open(s) \/ OpenThrows(s) \/ Close(s) \/ Fail(s)
  PROVE  IInv'
<1>1. ASSUME Open(s) PROVE IInv'
  <2>1. UNCHANGED <<gateway, refCount>>
    BY <1>1 DEF Open
  <2> QED
    BY <1>1, <2>1, Sides, UpOpen, UpstreamInv DEF Notes
<1>2. ASSUME OpenThrows(s) PROVE IInv'
  <2>1. live' \in Counts /\ Cardinality(SubscriptionsOf(live')) = 0
    <3>1. PICK g : g = live'
      OBVIOUS
    <3>2. g = [p \in Clients \X Symbols |-> 0]
      BY <1>2, <3>1 DEF OpenThrows
    <3> QED
      BY <3>1, <3>2, NoneLive
  <2>2. DownTypes'
    BY <1>2, <2>1 DEF OpenThrows, DownTypes
  <2>3. RefCountIsExact'
    BY <1>2, <2>1, Counted DEF OpenThrows, RefCountIsExact
  <2>4. UpInv'
    BY <1>2, UpThrows DEF Notes
  <2>5. Tidy'
    BY <1>2 DEF OpenThrows, Tidy, Overlaps
  <2> QED
    BY <2>2, <2>3, <2>4, <2>5, SidesAfter
<1>3. ASSUME Close(s) PROVE IInv'
  <2>1. UNCHANGED <<gateway, refCount>>
    BY <1>3 DEF Close
  <2> QED
    BY <1>3, <2>1, Sides, UpClose, UpstreamInv DEF Notes
<1>4. ASSUME Fail(s) PROVE IInv'
  <2>1. UNCHANGED <<gateway, refCount>>
    BY <1>4 DEF Fail
  <2> QED
    BY <1>4, <2>1, Sides, UpFail, UpstreamInv DEF Notes
<1> QED
  BY <1>1, <1>2, <1>3, <1>4

LEMMA TimerInv ==
  ASSUME IInv, Notes, NEW timer \in Timers, Reconnect(timer)
  PROVE  IInv'
<1>1. UNCHANGED <<gateway, refCount>>
  BY DEF Reconnect
<1> QED
  BY <1>1, Sides, UpReconnect, UpstreamInv DEF Notes

LEMMA InvStep == IInv /\ [Next]_vars => IInv'
<1> SUFFICES ASSUME IInv, [Next]_vars PROVE IInv'
  OBVIOUS
<1>1. CASE Next
  <2>1. Notes
    BY <1>1 DEF Next, Notes
  <2> QED
    BY <1>1, <2>1, ClientInv, HandlerInv, SocketInv, TimerInv DEF Next
<1>2. CASE UNCHANGED vars
  <2>1. /\ UNCHANGED <<connected, entry, live, handler, refCount, ws, reconnectTimer, socket, timers>>
        /\ overlapped' = overlapped /\ late' = late
    BY <1>2 DEF vars
  <2>2. UpInv'
    BY <2>1, Sides DEF UpInv, UpTypes, FeedIsNotLost, Single, SocketsOverlap
  <2>3. DownTypes' /\ RefCountIsExact'
    BY <2>1, Sides, Counted DEF DownTypes, RefCountIsExact
  <2>4. Tidy'
    BY <2>1, Sides DEF Tidy, Overlaps
  <2> QED
    BY <2>2, <2>3, <2>4, SidesAfter
<1> QED
  BY <1>1, <1>2

-----------------------------------------------------------------------------
\* The types of the variables; and this.ws is never a socket that has reported
\* its close.
THEOREM TypeCorrect == Spec => []TypeOK
<1>1. IInv => TypeOK
  BY DEF IInv
<1> QED
  BY <1>1, InvInit, InvStep, PTL DEF Spec

\* Every subscription is retained once and released once, however handlers,
\* disconnections and restarts interleave.
THEOREM RefCountTheorem == Spec => []RefCountIsExact
<1>1. IInv => RefCountIsExact
  BY DEF IInv
<1> QED
  BY <1>1, InvInit, InvStep, PTL DEF Spec

\* Whenever somebody listens, there is a socket or a timer that will open one.
THEOREM FeedTheorem == Spec => []FeedIsNotLost
<1>1. IInv => FeedIsNotLost
  BY DEF IInv
<1> QED
  BY <1>1, InvInit, InvStep, PTL DEF Spec

\* Until sockets overlap, there is one upstream socket and one timer at most,
\* and none without listeners.
THEOREM OneUpstreamTheorem == Spec => []OneUpstream
<1>1. IInv => OneUpstream
  <2> SUFFICES ASSUME IInv, ~late PROVE OneUpstream
    BY DEF OneUpstream
  <2>1. /\ \A s \in Sockets : Up(socket[s].state) => s = ws
        /\ timers # {} => timers = {reconnectTimer}
        /\ refCount = 0 => ws = None /\ timers = {}
    BY DEF IInv, Single
  <2>2. Cardinality(timers) <= 1
    <3>1. PICK timer : timer = reconnectTimer
      OBVIOUS
    <3>2. Cardinality({}) = 0 /\ Cardinality({timer}) = 1
      BY FS_EmptySet, FS_Singleton
    <3>3. timers = {} \/ timers = {timer}
      BY <2>1, <3>1
    <3>4. Cardinality(timers) \in {0, 1}
      BY <3>2, <3>3
    <3> QED
      BY <3>4
  <2> QED
    BY <2>1, <2>2 DEF OneUpstream, Up
<1> QED
  BY <1>1, InvInit, InvStep, PTL DEF Spec

\* Until messages overlap, no subscription outlives its client or its
\* replacement.
THEOREM NoLeaksTheorem == Spec => []NoSubscriptionLeaks
<1>1. IInv => NoSubscriptionLeaks
  BY DEF IInv, Tidy, NoSubscriptionLeaks
<1> QED
  BY <1>1, InvInit, InvStep, PTL DEF Spec

=============================================================================
