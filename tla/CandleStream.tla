---------------------------- MODULE CandleStream ----------------------------
(***************************************************************************)
(* streamCandles of MarketsService: each subscriber of                     *)
(* GET /markets/:symbol/candles/stream has an upstream WebSocket of its    *)
(* own, opened by the Observable and closed by its teardown, which runs    *)
(* when the client leaves and after subscriber.error.                      *)
(*                                                                         *)
(* The socket is the runtime's: send throws while the socket connects and  *)
(* does nothing once it closes, and an exception of the teardown skips the *)
(* rest of it; what becomes of the exception is not modelled.  No listener *)
(* of "close" is registered.                                               *)
(***************************************************************************)
EXTENDS Naturals

CONSTANT Subscribers

VARIABLES
  available,  \* whether the runtime has a WebSocket
  stream      \* the stream of each subscriber

vars == <<available, stream>>

\* subscribed: the upstream has the subscribe message; served: the client has
\* been sent a candle; threw: the teardown has; silent: the upstream has closed
\* without an error while the client waited.
Stream ==
  [client: {"none", "waiting", "left", "failed"},
   socket: {"none", "connecting", "open", "closing", "closed"},
   subscribed: BOOLEAN, served: BOOLEAN, threw: BOOLEAN, silent: BOOLEAN]
NoStream ==
  [client |-> "none", socket |-> "none",
   subscribed |-> FALSE, served |-> FALSE, threw |-> FALSE, silent |-> FALSE]

Init ==
  /\ available \in BOOLEAN
  /\ stream = [s \in Subscribers |-> NoStream]

-----------------------------------------------------------------------------
Becomes(s, new) == stream' = [stream EXCEPT ![s] = new] /\ UNCHANGED available

\* The Observable is subscribed to; a client may come again.
Subscribe(s) ==
  /\ stream[s].client # "waiting" /\ stream[s].socket \in {"none", "closed"}
  /\ Becomes(s, IF available THEN [NoStream EXCEPT !.client = "waiting", !.socket = "connecting"]
                             ELSE [NoStream EXCEPT !.client = "failed"])

BrokenOpen(s) ==
  /\ stream[s].socket = "connecting"
  /\ Becomes(s, [stream[s] EXCEPT !.socket = "open"])

\* The listener of "open" asks for the candles, whether or not the subscriber
\* is still there.
Open(s) ==
  /\ stream[s].socket = "connecting"
  /\ Becomes(s, [stream[s] EXCEPT !.socket = "open", !.subscribed = TRUE])

\* A message: candles of the symbol and interval go to the subscriber, if it is
\* still there; anything else is dropped.
Message(s) ==
  /\ stream[s].socket = "open" /\ stream[s].subscribed
  /\ \E candles \in BOOLEAN :
       Becomes(s, [stream[s] EXCEPT !.served = @ \/ (candles /\ stream[s].client = "waiting")])

BrokenTeardown(now) == [now EXCEPT !.threw = now.socket = "connecting"]

\* The teardown: unsubscribe upstream, which throws while the socket connects,
\* then close it.
Teardown(now) ==
  [now EXCEPT !.threw = now.socket = "connecting",
              !.socket = IF @ = "open" THEN "closing" ELSE @]

ClientLeaves(s) ==
  /\ stream[s].client = "waiting"
  /\ Becomes(s, [Teardown(stream[s]) EXCEPT !.client = "left"])

\* The connection is refused or lost; the listener of "error" fails the
\* subscriber, whose teardown finds nothing left to close.
SocketFails(s) ==
  /\ stream[s].socket \in {"connecting", "open"}
  /\ Becomes(s, [stream[s] EXCEPT !.socket = "closed",
                                  !.client = IF @ = "waiting" THEN "failed" ELSE @])

\* The upstream closes the connection properly: nobody listens.
UpstreamCloses(s) ==
  /\ stream[s].socket = "open"
  /\ Becomes(s, [stream[s] EXCEPT !.socket = "closed", !.silent = stream[s].client = "waiting"])

Closed(s) ==
  /\ stream[s].socket = "closing"
  /\ Becomes(s, [stream[s] EXCEPT !.socket = "closed"])

Next ==
  \E s \in Subscribers :
    \/ Subscribe(s) \/ Open(s) \/ Message(s) \/ ClientLeaves(s) \/ SocketFails(s)
    \/ UpstreamCloses(s) \/ Closed(s)

\* The runtime ends every attempt to connect, one way or the other, and every
\* close; a subscribed upstream that stays connected sends candles.
Fairness ==
  \A s \in Subscribers :
    /\ WF_vars(stream[s].socket = "connecting" /\ (Open(s) \/ SocketFails(s)))
    /\ WF_vars(Message(s) /\ stream'[s].served)
    /\ WF_vars(Closed(s))

Spec == Init /\ [][Next]_vars
FairSpec == Spec /\ Fairness

-----------------------------------------------------------------------------
\* The types of the variables.
TypeOK == available \in BOOLEAN /\ stream \in [Subscribers -> Stream]

\* A subscriber is sent candles or told of a failure, unless it leaves first or
\* the upstream closes the connection without an error (the listeners of "open"
\* and "error", and none of "close").
StreamSpeaks ==
  \A s \in Subscribers :
    stream[s].client = "waiting" ~>
      stream[s].served \/ stream[s].silent \/ stream[s].client # "waiting"

\* The upstream socket of a subscriber that has gone is closed, unless it was
\* still connecting when the subscriber left: then it opens, and subscribes, for
\* nobody (the teardown).
AbandonedStreamsEnd ==
  \A s \in Subscribers :
    stream[s].client \in {"left", "failed"} /\ stream[s].socket # "none" ~>
      stream[s].socket = "closed" \/ stream[s].threw

=============================================================================
