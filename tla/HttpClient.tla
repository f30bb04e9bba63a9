----------------------------- MODULE HttpClient -----------------------------
(***************************************************************************)
(* The asynchronous HTTP client (lib/http/client.cc) that the HA library   *)
(* sends its commands with: one connection per URL, one transaction at a   *)
(* time on it, a queue for the requests that have to wait, and a timer.    *)
(* A connection is a record.  Every callback of the event loop is an       *)
(* operator that returns the connection it leaves behind and, when it ends *)
(* the transaction, the request whose caller is called back.               *)
(*                                                                         *)
(* The event loop runs what it has queued (done) in order.  An operation   *)
(* that waits for the network (op) is performed when the loop gets to the  *)
(* notice that the socket is ready, and can be cancelled until then; one   *)
(* that was completed at once, and a timer that has expired, cannot: they  *)
(* run in whatever transaction is then in progress.                        *)
(***************************************************************************)
EXTENDS Integers, Sequences

CONSTANTS
    Request,
    Persistent,     \* the requests that ask to keep the connection
    Parts           \* the pieces a response is received in

NoRequest == <<>>

ASSUME HttpAssumption ==
    /\ Persistent \subseteq Request
    /\ NoRequest \notin Request
    /\ Parts \in Nat \ {0}

\* What the network delivers of the response to a request.
Piece == [request : Request, part : 1..Parts, result : {"ok", "error"}]

\* A completion, the transaction it was started in, and the data of a read.
Completion == [what : {"ready", "connected", "sent", "unsent", "received", "lost", "timer"},
               of : Request \cup {NoRequest}, data : Seq(Piece)]

Connection == [
    socket  : {"closed", "connecting", "connected", "broken"},
    current : Request \cup {NoRequest},     \* current_request_
    queue   : Seq(Request),
    op      : {"none", "connect", "receive"},
    done    : Seq(Completion),
    timer   : {"off", "on", "expired"},     \* "off" when interval_ is 0
    parsed  : 0..(Parts - 1),               \* the pieces the parser has got
    server  : Seq(Request \X (1..Parts)),   \* the other end: what it has to send
    input   : Seq(Piece)]                   \* received, and not read yet

Idle == [socket |-> "closed", current |-> NoRequest, queue |-> <<>>, op |-> "none",
         done |-> <<>>, timer |-> "off", parsed |-> 0, server |-> <<>>, input |-> <<>>]

\* The event loop queues a completion for the transaction in progress.
Complete(c, what, data) ==
    [c EXCEPT !.done = Append(@, [what |-> what, of |-> c.current, data |-> data])]

\* Whatever was under way on the old socket is lost.
closeSocket(c) == [c EXCEPT !.socket = "closed", !.server = <<>>, !.input = <<>>]

\* Unread data do not make a connection unusable.
isUsable(c) == c.socket = "connected"

doTransaction(c, request) ==
    LET open == IF c.socket # "closed" /\ ~isUsable(c) THEN closeSocket(c) ELSE c
        next == [open EXCEPT !.current = request, !.parsed = 0]
    IN  IF isUsable(next)
        THEN Complete(next, "connected", <<>>)
        ELSE [next EXCEPT !.socket = "connecting", !.op = "connect"]

\* Requests that are queued one after the other: the first is started when it can be.
queueRequests(c, requests) ==
    CASE requests = <<>> -> c
      [] requests # <<>> /\ c.current # NoRequest -> [c EXCEPT !.queue = @ \o requests]
      [] OTHER -> [doTransaction(c, Head(requests)) EXCEPT !.queue = @ \o Tail(requests)]

resetState(c) == [c EXCEPT !.current = NoRequest, !.parsed = 0]

GoesOn(c) == [conn |-> c, ends |-> NoRequest, result |-> "none"]

\* Mutant: the next request is left in the queue.
terminateAndForget(c, result) ==
    [conn |-> resetState([c EXCEPT !.timer = "off", !.op = "none"]),
     ends |-> c.current, result |-> result]

\* Mutant: the timer goes on.
terminateTimed(c, result) ==
    LET cancelled == [c EXCEPT !.op = "none"]
        kept == IF c.current \in Persistent THEN cancelled ELSE closeSocket(cancelled)
        over == resetState(kept)
    IN  [conn |-> IF c.queue = <<>>
                  THEN over
                  ELSE doTransaction([over EXCEPT !.queue = Tail(@)], Head(c.queue)),
         ends |-> c.current, result |-> result]

\* The socket and the timer are cancelled, the caller is called back, and the next
\* request is taken from the queue.
terminate(c, result) ==
    LET cancelled == [c EXCEPT !.timer = "off", !.op = "none"]
        kept == IF c.current \in Persistent THEN cancelled ELSE closeSocket(cancelled)
        over == resetState(kept)
    IN  [conn |-> IF c.queue = <<>>
                  THEN over
                  ELSE doTransaction([over EXCEPT !.queue = Tail(@)], Head(c.queue)),
         ends |-> c.current, result |-> result]

\* scheduleTimer(timer_.getInterval())
pushBackTimer(c) == [c EXCEPT !.timer = IF @ = "off" THEN "off" ELSE "on"]

\* The request is written at once, as long as the connection is there.
doSend(c) ==
    IF isUsable(c)
    THEN Complete([c EXCEPT !.server = Append(@, <<c.current, 1>>)], "sent", <<>>)
    ELSE Complete(c, "unsent", <<>>)

\* What has arrived is read at once, otherwise the read has to wait.
doReceive(c) ==
    CASE c.input # <<>> -> Complete([c EXCEPT !.input = <<>>], "received", c.input)
      [] c.input = <<>> /\ ~isUsable(c) -> Complete(c, "lost", <<>>)
      [] OTHER -> [c EXCEPT !.op = "receive"]

\* The timer is set only here: a connection attempt has none.
connectCallback(c, connected) ==
    IF connected THEN GoesOn(doSend([c EXCEPT !.timer = "on"])) ELSE terminate(c, "failed")

sendCallback(c, sent) ==
    IF sent THEN GoesOn(doReceive(pushBackTimer(c))) ELSE terminate(c, "failed")

\* The pieces of one response have to come in order; what follows it is thrown away.
Garbled(c, data) ==
    \E j \in DOMAIN data : c.parsed + j <= Parts /\ data[j].part # c.parsed + j

receiveCallback(c, data) ==
    CASE Garbled(c, data) -> terminate(c, "failed")
      [] ~Garbled(c, data) /\ c.parsed + Len(data) >= Parts ->
            terminate(c, data[Parts - c.parsed].result)
      [] OTHER -> GoesOn(doReceive([pushBackTimer(c) EXCEPT !.parsed = @ + Len(data)]))

\* A timer that was cancelled after it had expired does nothing.
timerCallback(c) == IF c.timer = "off" THEN GoesOn(c) ELSE terminate(c, "failed")

\* The operation that waits can be performed.
IsReady(c) ==
    \/ c.op = "connect" /\ c.socket # "connecting"
    \/ c.op = "receive" /\ (c.input # <<>> \/ ~isUsable(c))

\* Performs the operation that waits, if it still does.
perform(c) ==
    LET performed == [c EXCEPT !.op = "none"]
    IN  CASE ~IsReady(c) -> GoesOn(c)
          [] IsReady(c) /\ c.op = "connect" -> connectCallback(performed, isUsable(c))
          [] IsReady(c) /\ c.op = "receive" /\ c.input # <<>> ->
                receiveCallback([performed EXCEPT !.input = <<>>], c.input)
          [] OTHER -> terminate(performed, "failed")

\* The event loop runs what is at the head of its queue.
RunHead(c) ==
    LET head == Head(c.done)
        rest == [c EXCEPT !.done = Tail(@)]
    IN  CASE head.what = "ready" -> perform(rest)
          [] head.what = "connected" -> connectCallback(rest, TRUE)
          [] head.what \in {"sent", "unsent"} -> sendCallback(rest, head.what = "sent")
          [] head.what = "received" -> receiveCallback(rest, head.data)
          [] head.what = "lost" -> terminate(rest, "failed")
          [] head.what = "timer" -> timerCallback(rest)

\* The timer expires, and its callback is queued.
Expired(c) == Complete([c EXCEPT !.timer = "expired"], "timer", <<>>)
=============================================================================
