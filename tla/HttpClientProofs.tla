--------------------------- MODULE HttpClientProofs ---------------------------
(***************************************************************************)
(* What the operators of HttpClient do to a connection: which fields each  *)
(* callback changes, that the event loop keeps its transactions apart, and *)
(* that the pieces of a response reach the transaction they belong to.     *)
(***************************************************************************)
EXTENDS HttpClient, Functions, TLAPS

-----------------------------------------------------------------------------
(* Sequences. *)

LEMMA EmptySeq ==
  ASSUME NEW S
  PROVE  /\ <<>> \in Seq(S) /\ Len(<<>>) = 0
         /\ \A s \in Seq(S) : s # <<>> => Len(s) \in Nat \ {0}
OBVIOUS

LEMMA ConcatProperties ==
  ASSUME NEW S, NEW s \in Seq(S), NEW t \in Seq(S)
  PROVE  /\ s \o t \in Seq(S)
         /\ Len(s \o t) = Len(s) + Len(t)
         /\ \A i \in 1..(Len(s) + Len(t)) :
               (s \o t)[i] = IF i <= Len(s) THEN s[i] ELSE t[i - Len(s)]
OBVIOUS

LEMMA HeadTailProperties ==
  ASSUME NEW S, NEW s \in Seq(S), s # <<>>
  PROVE  /\ Head(s) \in S /\ Tail(s) \in Seq(S)
         /\ Len(Tail(s)) = Len(s) - 1
         /\ \A i \in 1..Len(Tail(s)) : Tail(s)[i] = s[i + 1]
OBVIOUS

LEMMA AppendProperties ==
  ASSUME NEW S, NEW s \in Seq(S), NEW e \in S
  PROVE  /\ Append(s, e) \in Seq(S) /\ Append(s, e) # <<>>
         /\ Len(Append(s, e)) = Len(s) + 1
         /\ \A i \in 1..Len(s) : Append(s, e)[i] = s[i]
         /\ Append(s, e)[Len(s) + 1] = e
OBVIOUS

-----------------------------------------------------------------------------
(* The invariants of a connection. *)

\* The requests that wait on a connection are different ones, of packets that were
\* received, and none waits without one that is in progress.
QueueInv(u, c, queries) ==
    /\ c.current # NoRequest => c.current[1] \in queries /\ c.current[2] = u
    /\ c.current = NoRequest => c.queue = <<>> /\ c.op = "none"
    /\ \A r \in Range(c.queue) : r[1] \in queries /\ r[2] = u /\ r # c.current
    /\ IsInjective(c.queue)

\* The completions of operations, of which a transaction has one at a time.
Steps == {"connected", "sent", "unsent", "received", "lost"}

\* What the event loop has queued for a connection, and how it belongs to the transaction:
\* a transaction waits for the network or has one completion queued, which comes last;
\* before it there is at most a notice or a timer that has expired.  A timer that is queued
\* belongs to the transaction, or was cancelled and is next.
LoopInv(c) ==
    /\ Len(c.done) <= 2
    /\ \A i \in 1..Len(c.done) : c.done[i].what \in Steps =>
          /\ i = Len(c.done) /\ c.op = "none"
          /\ c.current # NoRequest /\ c.done[i].of = c.current
          /\ c.done[i].what # "connected" => c.timer # "off"
    /\ \A i \in 1..Len(c.done) : c.done[i].what = "timer" =>
          /\ IF c.timer = "off" THEN i = 1 ELSE c.op = "receive" /\ c.done[i].of = c.current
          /\ \A j \in 1..Len(c.done) : c.done[j].what = "timer" => i = j
    /\ c.current # NoRequest /\ c.op = "none" =>
          Len(c.done) > 0 /\ c.done[Len(c.done)].what \in Steps
    /\ c.current = NoRequest => c.op = "none" /\ c.timer = "off" /\ Len(c.done) <= 1
    /\ c.op = "connect" =>
          /\ c.timer = "off"
          /\ IF c.socket = "connecting"
             THEN Len(c.done) <= 1
             ELSE Len(c.done) > 0 /\ c.done[Len(c.done)].what = "ready"
    /\ c.op = "receive" =>
          /\ c.timer # "off"
          /\ \A i, j \in 1..Len(c.done) : c.done[i].what = "ready" /\ c.done[j].what = "ready" => i = j
    /\ c.timer = "expired" => \E i \in 1..Len(c.done) : c.done[i].what = "timer"
    /\ c.socket = "connecting" => c.op = "connect"
    /\ c.socket # "connected" => c.input = <<>> /\ c.server = <<>>

LastStep(c) == IF c.done = <<>> THEN "none" ELSE c.done[Len(c.done)].what

\* The pieces of a response on their way to the parser.
Arriving(c) ==
    IF LastStep(c) = "received" THEN c.done[Len(c.done)].data \o c.input ELSE c.input

\* What arrives belongs to the transaction in progress and comes in order, and the peer has
\* to send what follows it.  A response that is complete says what became of the update.
Flow(c, arriving, lacking) ==
    /\ \A j \in 1..Len(arriving) :
          /\ arriving[j].request = c.current
          /\ arriving[j].part = c.parsed + j
          /\ c.parsed + j = Parts /\ arriving[j].result = "ok" => c.current \notin lacking
    /\ c.server # <<>> => c.server = <<<<c.current, c.parsed + Len(arriving) + 1>>>>

\* As long as no request has timed out, nothing is left on the way when a transaction ends.
StreamInv(c, lacking) ==
    /\ \A i \in 1..Len(c.done) : c.done[i].what # "timer"
    /\ c.current = NoRequest \/ c.op = "connect" \/ LastStep(c) = "connected" =>
          c.server = <<>> /\ c.input = <<>> /\ c.parsed = 0
    /\ LastStep(c) \in {"unsent", "lost"} => c.socket # "connected"
    /\ Flow(c, Arriving(c), lacking)

-----------------------------------------------------------------------------
(* The operators of the HTTP client. *)

NoticeOf(what, c, data) == [what |-> what, of |-> c.current, data |-> data]

\* What stands for no request in progress is not a request.
LEMMA RequestIsSome == NoRequest \notin Request
  BY HttpAssumption

\* The fields of a connection, without what their sets consist of.
Counts == 0..(Parts - 1)
Tosend == Seq(Request \X (1..Parts))
Pieces == Seq(Piece)
Completions == Seq(Completion)
Requests == Seq(Request)

LEMMA ConnectionFields ==
    Connection = [socket : {"closed", "connecting", "connected", "broken"},
                  current : Request \cup {NoRequest}, queue : Requests,
                  op : {"none", "connect", "receive"}, done : Completions,
                  timer : {"off", "on", "expired"}, parsed : Counts, server : Tosend,
                  input : Pieces]
  BY DEF Connection, Counts, Tosend, Pieces, Completions, Requests

LEMMA EmptyFields ==
    <<>> \in Requests /\ <<>> \in Completions /\ <<>> \in Tosend /\ <<>> \in Pieces /\ 0 \in Counts
  BY HttpAssumption DEF Counts, Tosend, Pieces, Completions, Requests

\* A completion goes to the end of what the event loop has queued.
LEMMA CompleteFields ==
  ASSUME NEW c \in Connection, NEW data \in Seq(Piece),
         NEW what \in {"ready", "connected", "sent", "unsent", "received", "lost", "timer"}
  PROVE  /\ Complete(c, what, data) \in Connection
         /\ Complete(c, what, data) = [c EXCEPT !.done = Append(c.done, NoticeOf(what, c, data))]
  <1> DEFINE n == NoticeOf(what, c, data)
  <1>1. n \in Completion
    BY DEF NoticeOf, Completion, Connection
  <1>2. Append(c.done, n) \in Completions
    BY <1>1 DEF Connection, Completions
  <1>3. Complete(c, what, data) = [c EXCEPT !.done = Append(c.done, n)]
    BY DEF Complete, NoticeOf
  <1> HIDE DEF n
  <1> QED BY Zenon, <1>2, <1>3, ConnectionFields DEF n

\* A socket that is closed leaves nothing on the way.
LEMMA CloseFields ==
  ASSUME NEW c \in Connection
  PROVE  LET t == closeSocket(c) IN
         /\ t \in Connection
         /\ t.socket = "closed" /\ t.server = <<>> /\ t.input = <<>>
         /\ t.current = c.current /\ t.queue = c.queue /\ t.op = c.op /\ t.done = c.done
         /\ t.timer = c.timer /\ t.parsed = c.parsed
  BY Zenon, ConnectionFields, EmptyFields DEF closeSocket

\* A request that is started finds the connection open, or opens it.
Started(c, r, t) ==
    /\ t \in Connection
    /\ t.current = r /\ t.queue = c.queue /\ t.timer = c.timer /\ t.parsed = 0
    /\ \/ /\ c.socket = "connected" /\ t.socket = "connected" /\ t.op = c.op
          /\ t.done = Append(c.done, [what |-> "connected", of |-> r, data |-> <<>>])
          /\ t.server = c.server /\ t.input = c.input
       \/ /\ c.socket # "connected" /\ t.socket = "connecting" /\ t.op = "connect"
          /\ t.done = c.done
          /\ t.server \in {<<>>, c.server} /\ t.input \in {<<>>, c.input}

LEMMA TransactionFields ==
  ASSUME NEW c \in Connection, NEW r \in Request
  PROVE  Started(c, r, doTransaction(c, r))
  <1> USE DEF Started
  <1> DEFINE open == IF c.socket # "closed" /\ ~isUsable(c) THEN closeSocket(c) ELSE c
             next == [open EXCEPT !.current = r, !.parsed = 0]
             t == doTransaction(c, r)
  <1>1. open \in Connection /\ open.queue = c.queue /\ open.timer = c.timer /\ open.done = c.done
        /\ open.op = c.op /\ (open.socket = "connected" <=> c.socket = "connected")
        /\ open.server \in {<<>>, c.server} /\ open.input \in {<<>>, c.input}
        /\ (c.socket = "connected" => open = c)
    <2>1. closeSocket(c) \in Connection /\ closeSocket(c).queue = c.queue
          /\ closeSocket(c).timer = c.timer /\ closeSocket(c).done = c.done
          /\ closeSocket(c).op = c.op /\ closeSocket(c).socket = "closed"
          /\ closeSocket(c).server = <<>> /\ closeSocket(c).input = <<>>
      BY CloseFields
    <2> QED BY <2>1 DEF isUsable
  <1>2. t = IF isUsable(next) THEN Complete(next, "connected", <<>>)
            ELSE [next EXCEPT !.socket = "connecting", !.op = "connect"]
    BY DEF doTransaction
  <1> HIDE DEF open
  <1>3. next \in Connection /\ next.current = r /\ next.queue = c.queue /\ next.timer = c.timer
        /\ next.parsed = 0 /\ next.done = c.done /\ next.op = c.op
        /\ (next.socket = "connected" <=> c.socket = "connected")
        /\ next.server = open.server /\ next.input = open.input
    BY Zenon, <1>1, EmptyFields, ConnectionFields
  <1> HIDE DEF next, t
  <1>4. ASSUME isUsable(next)
        PROVE  /\ t \in Connection /\ c.socket = "connected"
               /\ t = [next EXCEPT !.done = Append(c.done, [what |-> "connected", of |-> r, data |-> <<>>])]
    <2>1. t \in Connection /\ t = [next EXCEPT !.done = Append(next.done, NoticeOf("connected", next, <<>>))]
      BY Zenon, <1>2, <1>3, <1>4, EmptyFields, CompleteFields DEF Pieces
    <2> QED BY <2>1, <1>3, <1>4 DEF isUsable, NoticeOf
  <1>5. ASSUME ~isUsable(next)
        PROVE  /\ t \in Connection /\ c.socket # "connected"
               /\ t = [next EXCEPT !.socket = "connecting", !.op = "connect"]
    BY Zenon, <1>2, <1>3, <1>5, ConnectionFields DEF isUsable
  <1>6. ASSUME isUsable(next)
        PROVE  /\ t.current = r /\ t.queue = c.queue /\ t.timer = c.timer /\ t.parsed = 0
               /\ t.socket = "connected" /\ t.op = c.op
               /\ t.server = c.server /\ t.input = c.input
               /\ t.done = Append(c.done, [what |-> "connected", of |-> r, data |-> <<>>])
    <2>1. open.server = c.server /\ open.input = c.input /\ next.socket = "connected"
      BY <1>1, <1>3, <1>6 DEF isUsable
    <2>2. /\ t.current = next.current /\ t.queue = next.queue /\ t.timer = next.timer
          /\ t.parsed = next.parsed /\ t.socket = next.socket /\ t.op = next.op
          /\ t.server = next.server /\ t.input = next.input
          /\ t.done = Append(c.done, [what |-> "connected", of |-> r, data |-> <<>>])
      BY <1>3, <1>4, <1>6, ConnectionFields
    <2> QED BY <2>1, <2>2, <1>3
  <1>7. ASSUME ~isUsable(next)
        PROVE  /\ t.current = r /\ t.queue = c.queue /\ t.timer = c.timer /\ t.parsed = 0
               /\ t.socket = "connecting" /\ t.op = "connect" /\ t.done = c.done
               /\ t.server \in {<<>>, c.server} /\ t.input \in {<<>>, c.input}
    BY ZenonT(30), <1>1, <1>3, <1>5, <1>7, ConnectionFields
  <1> QED BY <1>4, <1>5, <1>6, <1>7 DEF t

\* A transaction that ends calls back, and makes way for the next one.
Ended(c, n) ==
    /\ n \in Connection /\ n.timer = "off" /\ n.parsed = 0
    /\ \/ n.socket = c.socket /\ n.server = c.server /\ n.input = c.input
       \/ n.socket # "connected" /\ n.server = <<>> /\ n.input = <<>>
       \/ /\ n.socket # "connected" /\ c.socket # "connected"
          /\ n.server \in {<<>>, c.server} /\ n.input \in {<<>>, c.input}
    /\ \/ /\ c.queue = <<>> /\ n.current = NoRequest /\ n.queue = <<>> /\ n.op = "none"
          /\ n.done = c.done /\ n.socket \in {"closed", c.socket}
       \/ /\ c.queue # <<>> /\ n.current = Head(c.queue) /\ n.queue = Tail(c.queue)
          /\ \/ /\ n.socket = "connected" /\ n.op = "none"
                /\ n.done = Append(c.done, [what |-> "connected", of |-> Head(c.queue), data |-> <<>>])
             \/ n.socket = "connecting" /\ n.op = "connect" /\ n.done = c.done

LEMMA TerminateFields ==
  ASSUME NEW c \in Connection, NEW result
  PROVE  /\ terminate(c, result).ends = c.current /\ terminate(c, result).result = result
         /\ Ended(c, terminate(c, result).conn)
  <1> USE DEF Ended
  <1> DEFINE cancelled == [c EXCEPT !.timer = "off", !.op = "none"]
             kept == IF c.current \in Persistent THEN cancelled ELSE closeSocket(cancelled)
             over == resetState(kept)
             last == [over EXCEPT !.queue = Tail(@)]
             n == terminate(c, result).conn
  <1>1. /\ cancelled \in Connection /\ cancelled.timer = "off" /\ cancelled.op = "none"
        /\ cancelled.socket = c.socket /\ cancelled.current = c.current
        /\ cancelled.queue = c.queue /\ cancelled.done = c.done
        /\ cancelled.server = c.server /\ cancelled.input = c.input
    BY Zenon, ConnectionFields
  <1>2. /\ terminate(c, result).ends = c.current /\ terminate(c, result).result = result
        /\ n = IF c.queue = <<>> THEN over ELSE doTransaction(last, Head(c.queue))
    BY DEF terminate
  <1> HIDE DEF cancelled
  <1>3. /\ kept \in Connection /\ kept.timer = "off" /\ kept.op = "none"
        /\ kept.queue = c.queue /\ kept.done = c.done
        /\ \/ kept.socket = c.socket /\ kept.server = c.server /\ kept.input = c.input
           \/ kept.socket = "closed" /\ kept.server = <<>> /\ kept.input = <<>>
    BY <1>1, CloseFields
  <1> HIDE DEF kept
  <1>4. /\ over \in Connection /\ over.timer = "off" /\ over.op = "none" /\ over.parsed = 0
        /\ over.current = NoRequest /\ over.queue = c.queue /\ over.done = c.done
        /\ over.socket = kept.socket /\ over.server = kept.server /\ over.input = kept.input
    BY Zenon, <1>3, EmptyFields, ConnectionFields DEF resetState
  <1> HIDE DEF over, n
  <1>5. CASE c.queue = <<>>
    BY <1>2, <1>3, <1>4, <1>5 DEF n
  <1>6. CASE c.queue # <<>>
    <2>1. c.queue \in Seq(Request)
      BY DEF Connection
    <2>2. Head(c.queue) \in Request /\ Tail(c.queue) \in Requests
      BY <2>1, <1>6 DEF Requests
    <2>3. /\ last \in Connection /\ last.timer = "off" /\ last.op = "none"
          /\ last.queue = Tail(c.queue) /\ last.done = c.done
          /\ last.socket = kept.socket /\ last.server = kept.server /\ last.input = kept.input
      BY Zenon, <2>2, <1>4, ConnectionFields
    <2> HIDE DEF last
    <2>4. n = doTransaction(last, Head(c.queue))
      BY <1>2, <1>6
    <2> DEFINE t == doTransaction(last, Head(c.queue))
    <2>5. /\ t \in Connection
          /\ t.current = Head(c.queue) /\ t.queue = Tail(c.queue) /\ t.timer = "off" /\ t.parsed = 0
          /\ \/ /\ kept.socket = "connected" /\ t.socket = "connected" /\ t.op = "none"
                /\ t.done = Append(c.done, [what |-> "connected", of |-> Head(c.queue), data |-> <<>>])
                /\ t.server = kept.server /\ t.input = kept.input
             \/ /\ kept.socket # "connected" /\ t.socket = "connecting" /\ t.op = "connect"
                /\ t.done = c.done
                /\ t.server \in {<<>>, kept.server} /\ t.input \in {<<>>, kept.input}
      <3> DEFINE r == Head(c.queue)
      <3> HIDE DEF r
      <3>1. r \in Request /\ last \in Connection
        BY <2>2, <2>3 DEF r
      <3> DEFINE s == doTransaction(last, r)
      <3>2. /\ s \in Connection
            /\ s.current = r /\ s.queue = last.queue /\ s.timer = last.timer /\ s.parsed = 0
            /\ \/ /\ last.socket = "connected" /\ s.socket = "connected" /\ s.op = last.op
                  /\ s.done = Append(last.done, [what |-> "connected", of |-> r, data |-> <<>>])
                  /\ s.server = last.server /\ s.input = last.input
               \/ /\ last.socket # "connected" /\ s.socket = "connecting" /\ s.op = "connect"
                  /\ s.done = last.done
                  /\ s.server \in {<<>>, last.server} /\ s.input \in {<<>>, last.input}
        <4>1. Started(last, r, s)
          BY <3>1, TransactionFields
        <4> HIDE DEF s
        <4> QED BY <4>1 DEF Started
      <3>3. t = s
        BY DEF r
      <3> HIDE DEF s, t
      <3> QED BY <2>3, <3>2, <3>3 DEF r
    <2> HIDE DEF t
    <2>6. /\ \/ t.socket = c.socket /\ t.server = c.server /\ t.input = c.input
             \/ t.socket # "connected" /\ t.server = <<>> /\ t.input = <<>>
             \/ /\ t.socket # "connected" /\ c.socket # "connected"
                /\ t.server \in {<<>>, c.server} /\ t.input \in {<<>>, c.input}
      BY <1>3, <2>5
    <2>7. n = t
      BY <2>4 DEF t
    <2> HIDE DEF n
    <2>8. /\ n \in Connection /\ n.timer = "off" /\ n.parsed = 0
          /\ \/ n.socket = c.socket /\ n.server = c.server /\ n.input = c.input
             \/ n.socket # "connected" /\ n.server = <<>> /\ n.input = <<>>
             \/ /\ n.socket # "connected" /\ c.socket # "connected"
                /\ n.server \in {<<>>, c.server} /\ n.input \in {<<>>, c.input}
          /\ n.current = Head(c.queue) /\ n.queue = Tail(c.queue)
          /\ \/ /\ n.socket = "connected" /\ n.op = "none"
                /\ n.done = Append(c.done, [what |-> "connected", of |-> Head(c.queue), data |-> <<>>])
             \/ n.socket = "connecting" /\ n.op = "connect" /\ n.done = c.done
      BY <2>5, <2>6, <2>7
    <2> QED BY <1>2, <1>6, <2>8 DEF n
  <1> QED BY <1>5, <1>6

\* A request is written when the connection is there.
Sent(c, t) ==
    /\ t \in Connection
    /\ t.socket = c.socket /\ t.current = c.current /\ t.queue = c.queue /\ t.op = c.op
    /\ t.timer = c.timer /\ t.parsed = c.parsed /\ t.input = c.input
    /\ \/ /\ c.socket = "connected" /\ t.server = Append(c.server, <<c.current, 1>>)
          /\ t.done = Append(c.done, [what |-> "sent", of |-> c.current, data |-> <<>>])
       \/ /\ c.socket # "connected" /\ t.server = c.server
          /\ t.done = Append(c.done, [what |-> "unsent", of |-> c.current, data |-> <<>>])

LEMMA SendFields ==
  ASSUME NEW c \in Connection, c.current # NoRequest
  PROVE  Sent(c, doSend(c))
  <1> USE DEF Sent
  <1> DEFINE w == [c EXCEPT !.server = Append(@, <<c.current, 1>>)]
             t == doSend(c)
  <1>1. Append(c.server, <<c.current, 1>>) \in Tosend
    BY HttpAssumption DEF Connection, Tosend
  <1>2. /\ w \in Connection /\ w.socket = c.socket /\ w.current = c.current /\ w.queue = c.queue
        /\ w.op = c.op /\ w.timer = c.timer /\ w.parsed = c.parsed /\ w.input = c.input
        /\ w.done = c.done /\ w.server = Append(c.server, <<c.current, 1>>)
    BY Zenon, <1>1, ConnectionFields
  <1>3. t = IF isUsable(c) THEN Complete(w, "sent", <<>>) ELSE Complete(c, "unsent", <<>>)
    BY DEF doSend
  <1> HIDE DEF w, t
  <1>4. ASSUME isUsable(c)
        PROVE  t \in Connection
               /\ t = [w EXCEPT !.done = Append(c.done, [what |-> "sent", of |-> c.current, data |-> <<>>])]
    <2>1. t \in Connection /\ t = [w EXCEPT !.done = Append(w.done, NoticeOf("sent", w, <<>>))]
      BY Zenon, <1>2, <1>3, <1>4, EmptyFields, CompleteFields DEF Pieces
    <2> QED BY <2>1, <1>2 DEF NoticeOf
  <1>5. ASSUME ~isUsable(c)
        PROVE  t \in Connection
               /\ t = [c EXCEPT !.done = Append(c.done, [what |-> "unsent", of |-> c.current, data |-> <<>>])]
    BY Zenon, <1>3, <1>5, EmptyFields, CompleteFields DEF Pieces, NoticeOf
  <1>6. ASSUME isUsable(c)
        PROVE  /\ t.socket = w.socket /\ t.current = w.current /\ t.queue = w.queue /\ t.op = w.op
               /\ t.timer = w.timer /\ t.parsed = w.parsed /\ t.input = w.input /\ t.server = w.server
               /\ t.done = Append(c.done, [what |-> "sent", of |-> c.current, data |-> <<>>])
    BY <1>2, <1>4, <1>6, ConnectionFields
  <1>7. ASSUME ~isUsable(c)
        PROVE  /\ t.socket = c.socket /\ t.current = c.current /\ t.queue = c.queue /\ t.op = c.op
               /\ t.timer = c.timer /\ t.parsed = c.parsed /\ t.input = c.input /\ t.server = c.server
               /\ t.done = Append(c.done, [what |-> "unsent", of |-> c.current, data |-> <<>>])
    BY <1>5, <1>7, ConnectionFields
  <1> QED BY <1>2, <1>4, <1>5, <1>6, <1>7 DEF isUsable, t

\* What has arrived is read, or the read waits.
Awaited(c, t) ==
    /\ t \in Connection
    /\ t.socket = c.socket /\ t.current = c.current /\ t.queue = c.queue
    /\ t.timer = c.timer /\ t.parsed = c.parsed /\ t.server = c.server /\ t.input = <<>>
    /\ \/ /\ c.input # <<>> /\ t.op = c.op
          /\ t.done = Append(c.done, [what |-> "received", of |-> c.current, data |-> c.input])
       \/ /\ c.input = <<>> /\ c.socket # "connected" /\ t.op = c.op
          /\ t.done = Append(c.done, [what |-> "lost", of |-> c.current, data |-> <<>>])
       \/ /\ c.input = <<>> /\ c.socket = "connected" /\ t.op = "receive" /\ t.done = c.done

LEMMA ReceiveFields ==
  ASSUME NEW c \in Connection
  PROVE  Awaited(c, doReceive(c))
  <1> USE DEF Awaited
  <1> DEFINE e == [c EXCEPT !.input = <<>>]
             w == [c EXCEPT !.op = "receive"]
             t == doReceive(c)
  <1>1. /\ e \in Connection /\ e.socket = c.socket /\ e.current = c.current /\ e.queue = c.queue
        /\ e.op = c.op /\ e.timer = c.timer /\ e.parsed = c.parsed /\ e.input = <<>>
        /\ e.done = c.done /\ e.server = c.server
    BY EmptyFields, ConnectionFields
  <1>2. /\ w \in Connection /\ w.socket = c.socket /\ w.current = c.current /\ w.queue = c.queue
        /\ w.op = "receive" /\ w.timer = c.timer /\ w.parsed = c.parsed /\ w.input = c.input
        /\ w.done = c.done /\ w.server = c.server
    BY EmptyFields, ConnectionFields
  <1>3. /\ c.input # <<>> => t = Complete(e, "received", c.input)
        /\ c.input = <<>> /\ ~isUsable(c) => t = Complete(c, "lost", <<>>)
        /\ c.input = <<>> /\ isUsable(c) => t = w
    BY Zenon DEF doReceive
  <1>4. c.input \in Seq(Piece) /\ <<>> \in Seq(Piece)
    BY EmptyFields DEF Connection, Pieces
  <1> HIDE DEF e, w, t
  <1>5. ASSUME c.input # <<>>
        PROVE  /\ t \in Connection
               /\ t = [e EXCEPT !.done = Append(c.done, [what |-> "received", of |-> c.current, data |-> c.input])]
    <2>1. t \in Connection /\ t = [e EXCEPT !.done = Append(e.done, NoticeOf("received", e, c.input))]
      <3> DEFINE d == c.input
      <3> HIDE DEF d
      <3>1. d \in Seq(Piece) /\ e \in Connection
        BY <1>1, <1>4 DEF d
      <3>2. /\ Complete(e, "received", d) \in Connection
            /\ Complete(e, "received", d) = [e EXCEPT !.done = Append(e.done, NoticeOf("received", e, d))]
        BY Zenon, <3>1, CompleteFields
      <3> QED BY <3>2, <1>3, <1>5 DEF d
    <2> QED BY <2>1, <1>1 DEF NoticeOf
  <1>6. ASSUME c.input = <<>>, ~isUsable(c)
        PROVE  /\ t \in Connection
               /\ t = [c EXCEPT !.done = Append(c.done, [what |-> "lost", of |-> c.current, data |-> <<>>])]
    <2>1. t \in Connection /\ t = [c EXCEPT !.done = Append(c.done, NoticeOf("lost", c, <<>>))]
      <3>1. /\ Complete(c, "lost", <<>>) \in Connection
            /\ Complete(c, "lost", <<>>) = [c EXCEPT !.done = Append(c.done, NoticeOf("lost", c, <<>>))]
        BY Zenon, <1>4, CompleteFields
      <3> QED BY <3>1, <1>3, <1>6
    <2> QED BY <2>1 DEF NoticeOf
  <1>7. ASSUME c.input # <<>>
        PROVE  /\ t.socket = e.socket /\ t.current = e.current /\ t.queue = e.queue /\ t.op = e.op
               /\ t.timer = e.timer /\ t.parsed = e.parsed /\ t.input = e.input /\ t.server = e.server
               /\ t.done = Append(c.done, [what |-> "received", of |-> c.current, data |-> c.input])
    BY <1>1, <1>5, <1>7, ConnectionFields
  <1>8. ASSUME c.input = <<>>, ~isUsable(c)
        PROVE  /\ t.socket = c.socket /\ t.current = c.current /\ t.queue = c.queue /\ t.op = c.op
               /\ t.timer = c.timer /\ t.parsed = c.parsed /\ t.input = c.input /\ t.server = c.server
               /\ t.done = Append(c.done, [what |-> "lost", of |-> c.current, data |-> <<>>])
    BY <1>6, <1>8, ConnectionFields
  <1>9. ASSUME c.input = <<>>, isUsable(c) PROVE t = w
    BY <1>3, <1>9
  <1> QED
    <2>1. CASE c.input # <<>>
      BY <2>1, <1>1, <1>5, <1>7 DEF t
    <2>2. CASE c.input = <<>> /\ ~isUsable(c)
      BY <2>2, <1>6, <1>8 DEF t, isUsable
    <2>3. CASE c.input = <<>> /\ isUsable(c)
      BY <2>3, <1>2, <1>9 DEF t, isUsable
    <2> QED BY <2>1, <2>2, <2>3

-----------------------------------------------------------------------------
(* What the event loop does with the head of its queue. *)

\* What all of it leaves alone before a transaction ends.
Follows(c, x) ==
    /\ x \in Connection /\ x.done = Tail(c.done)
    /\ x.socket = c.socket /\ x.current = c.current /\ x.queue = c.queue /\ x.server = c.server

What(c) == Head(c.done).what

\* A notice that comes too late, or a timer that was cancelled.
Skips(c, x) ==
    /\ RunHead(c) = GoesOn(x)
    /\ \/ What(c) = "ready" /\ ~IsReady(c)
       \/ What(c) = "timer" /\ c.timer = "off"
    /\ x.op = c.op /\ x.timer = c.timer /\ x.parsed = c.parsed /\ x.input = c.input

\* The connection is there, and the request is sent.
Sends(c, x) ==
    /\ RunHead(c) = GoesOn(doSend(x))
    /\ x.timer = "on" /\ x.parsed = c.parsed /\ x.input = c.input
    /\ \/ What(c) = "ready" /\ c.op = "connect" /\ c.socket = "connected" /\ x.op = "none"
       \/ What(c) = "connected" /\ x.op = c.op

\* The data that the parser is fed, if any.
Fed(c, data) ==
    \/ What(c) = "received" /\ data = Head(c.done).data
    \/ What(c) = "ready" /\ c.op = "receive" /\ c.input # <<>> /\ data = c.input

\* The next read is started.
Reads(c, x) ==
    /\ RunHead(c) = GoesOn(doReceive(x))
    /\ x.timer = IF c.timer = "off" THEN "off" ELSE "on"
    /\ IF What(c) = "ready" THEN x.op = "none" /\ x.input = <<>> ELSE x.op = c.op /\ x.input = c.input
    /\ \/ What(c) = "sent" /\ x.parsed = c.parsed
       \/ \E data \in Seq(Piece) :
             Fed(c, data) /\ ~Garbled(c, data) /\ x.parsed = c.parsed + Len(data)

\* The transaction ends.
Ends(c, x, result) ==
    /\ RunHead(c) = terminate(x, result)
    /\ x.input = IF What(c) = "ready" /\ c.op = "receive" THEN <<>> ELSE c.input
    /\ \/ /\ result = "failed"
          /\ \/ What(c) = "ready" /\ c.op = "connect" /\ c.socket \notin {"connecting", "connected"}
             \/ What(c) = "ready" /\ c.op = "receive" /\ c.input = <<>> /\ c.socket # "connected"
             \/ What(c) \in {"unsent", "lost"}
             \/ What(c) = "timer" /\ c.timer # "off"
       \/ \E data \in Seq(Piece) :
             /\ Fed(c, data)
             /\ \/ Garbled(c, data) /\ result = "failed"
                \/ /\ ~Garbled(c, data) /\ c.parsed + Len(data) >= Parts
                   /\ result = data[Parts - c.parsed].result

\* The parser has got all of the response, or something else, or it needs more.
LEMMA ReceivedIs ==
  ASSUME NEW y \in Connection, NEW data \in Seq(Piece)
  PROVE  \/ Garbled(y, data) /\ receiveCallback(y, data) = terminate(y, "failed")
         \/ /\ ~Garbled(y, data) /\ y.parsed + Len(data) >= Parts
            /\ receiveCallback(y, data) = terminate(y, data[Parts - y.parsed].result)
         \/ \E z \in Connection :
               /\ ~Garbled(y, data) /\ receiveCallback(y, data) = GoesOn(doReceive(z))
               /\ z.timer = (IF y.timer = "off" THEN "off" ELSE "on")
               /\ z.parsed = y.parsed + Len(data)
               /\ z.socket = y.socket /\ z.current = y.current /\ z.queue = y.queue
               /\ z.op = y.op /\ z.done = y.done /\ z.server = y.server /\ z.input = y.input
  <1> DEFINE z == [pushBackTimer(y) EXCEPT !.parsed = @ + Len(data)]
             more == y.parsed + Len(data) >= Parts
             k == y.parsed + Len(data)
  <1>1. /\ Garbled(y, data) => receiveCallback(y, data) = terminate(y, "failed")
        /\ ~Garbled(y, data) /\ more =>
              receiveCallback(y, data) = terminate(y, data[Parts - y.parsed].result)
        /\ ~Garbled(y, data) /\ ~more => receiveCallback(y, data) = GoesOn(doReceive(z))
    <2> HIDE DEF z
    <2>1. receiveCallback(y, data) =
            CASE Garbled(y, data) -> terminate(y, "failed")
              [] ~Garbled(y, data) /\ more -> terminate(y, data[Parts - y.parsed].result)
              [] OTHER -> GoesOn(doReceive(z))
      BY DEF receiveCallback, z
    <2> HIDE DEF more
    <2> QED BY <2>1, Zenon
  <1>2. ASSUME ~more
        PROVE  /\ z \in Connection /\ z.parsed = y.parsed + Len(data)
               /\ z.timer = (IF y.timer = "off" THEN "off" ELSE "on")
               /\ z.socket = y.socket /\ z.current = y.current /\ z.queue = y.queue
               /\ z.op = y.op /\ z.done = y.done /\ z.server = y.server /\ z.input = y.input
    <2>1. y.parsed \in 0..(Parts - 1) /\ Len(data) \in Nat /\ Parts \in Nat
      BY HttpAssumption DEF Connection
    <2>2. k \in Counts
      BY <2>1, <1>2 DEF Counts
    <2>3. z = [y EXCEPT !.timer = IF @ = "off" THEN "off" ELSE "on", !.parsed = k]
      BY ConnectionFields DEF pushBackTimer
    <2> HIDE DEF k, z
    <2>4. /\ z \in Connection /\ z.parsed = k
          /\ z.timer = (IF y.timer = "off" THEN "off" ELSE "on")
          /\ z.socket = y.socket /\ z.current = y.current /\ z.queue = y.queue
          /\ z.op = y.op /\ z.done = y.done /\ z.server = y.server /\ z.input = y.input
      BY Zenon, <2>2, <2>3, ConnectionFields
    <2> QED BY <2>4 DEF k
  <1> HIDE DEF z
  <1> QED BY <1>1, <1>2

\* One turn of the event loop.
LEMMA RunHeadIs ==
  ASSUME NEW c \in Connection, c.done # <<>>
  PROVE  \E x \in Connection :
            /\ Follows(c, x)
            /\ Skips(c, x) \/ Sends(c, x) \/ Reads(c, x) \/ \E result : Ends(c, x, result)
  <1> DEFINE rest == [c EXCEPT !.done = Tail(@)]
             performed == [rest EXCEPT !.op = "none"]
             emptied == [performed EXCEPT !.input = <<>>]
             pushed == pushBackTimer(rest)
             timed == [rest EXCEPT !.timer = "on"]
             timedp == [performed EXCEPT !.timer = "on"]
             head == Head(c.done)
  <1>1. head \in Completion /\ Tail(c.done) \in Completions
    BY DEF Connection, Completions
  <1>2. head.data \in Seq(Piece) /\ c.input \in Seq(Piece)
        /\ head.what \in {"ready", "connected", "sent", "unsent", "received", "lost", "timer"}
    BY <1>1 DEF Completion, Connection
  <1>3. /\ rest \in Connection /\ Follows(c, rest)
        /\ rest.op = c.op /\ rest.timer = c.timer /\ rest.parsed = c.parsed /\ rest.input = c.input
    BY Zenon, <1>1, ConnectionFields DEF Follows
  <1>4. /\ RunHead(c) = CASE head.what = "ready" -> perform(rest)
          [] head.what = "connected" -> connectCallback(rest, TRUE)
          [] head.what \in {"sent", "unsent"} -> sendCallback(rest, head.what = "sent")
          [] head.what = "received" -> receiveCallback(rest, head.data)
          [] head.what = "lost" -> terminate(rest, "failed")
          [] head.what = "timer" -> timerCallback(rest)
    BY DEF RunHead
  <1> HIDE DEF rest, head
  <1>5. /\ performed \in Connection /\ Follows(c, performed) /\ performed.op = "none"
        /\ performed.timer = c.timer /\ performed.parsed = c.parsed /\ performed.input = c.input
    BY <1>3, ConnectionFields DEF Follows
  <1>6. /\ pushed \in Connection /\ Follows(c, pushed) /\ pushed.op = c.op
        /\ pushed.timer = (IF c.timer = "off" THEN "off" ELSE "on")
        /\ pushed.parsed = c.parsed /\ pushed.input = c.input
    BY <1>3, ConnectionFields DEF Follows, pushBackTimer
  <1>7. /\ timed \in Connection /\ Follows(c, timed) /\ timed.op = c.op /\ timed.timer = "on"
        /\ timed.parsed = c.parsed /\ timed.input = c.input
    BY <1>3, ConnectionFields DEF Follows
  <1> HIDE DEF performed
  <1>8. /\ emptied \in Connection /\ Follows(c, emptied) /\ emptied.op = "none"
        /\ emptied.timer = c.timer /\ emptied.parsed = c.parsed /\ emptied.input = <<>>
    BY <1>5, EmptyFields, ConnectionFields DEF Follows
  <1>9. /\ timedp \in Connection /\ Follows(c, timedp) /\ timedp.op = "none" /\ timedp.timer = "on"
        /\ timedp.parsed = c.parsed /\ timedp.input = c.input
    BY <1>5, ConnectionFields DEF Follows
  <1> HIDE DEF pushed, timed, emptied, timedp
  <1>10. CASE head.what = "connected"
    <2>1. RunHead(c) = GoesOn(doSend(timed))
      <3>1. RunHead(c) = connectCallback(rest, TRUE)
        BY <1>4, <1>10, Zenon
      <3> QED BY <3>1 DEF connectCallback, timed
    <2> QED BY <2>1, <1>7, <1>10 DEF Sends, What, head
  <1>11. CASE head.what = "sent"
    <2>1. RunHead(c) = GoesOn(doReceive(pushed))
      <3>1. RunHead(c) = sendCallback(rest, head.what = "sent")
        BY <1>4, <1>11, Zenon
      <3> QED BY <3>1, <1>11 DEF sendCallback, pushed
    <2> QED BY <2>1, <1>6, <1>11 DEF Reads, What, head
  <1>12. CASE head.what = "unsent"
    <2>1. RunHead(c) = terminate(rest, "failed")
      <3>1. RunHead(c) = sendCallback(rest, head.what = "sent")
        BY <1>4, <1>12, Zenon
      <3> QED BY <3>1, <1>12 DEF sendCallback
    <2> QED BY <2>1, <1>3, <1>12 DEF Ends, What, head
  <1>13. CASE head.what = "lost"
    <2>1. RunHead(c) = terminate(rest, "failed")
      BY <1>4, <1>13, Zenon
    <2> QED BY <2>1, <1>3, <1>13 DEF Ends, What, head
  <1>14. CASE head.what = "timer"
    <2>1. RunHead(c) = timerCallback(rest)
      BY <1>4, <1>14, Zenon
    <2>2. CASE c.timer = "off"
      BY <2>1, <2>2, <1>3, <1>14 DEF timerCallback, Skips, What, head
    <2>3. CASE c.timer # "off"
      BY <2>1, <2>3, <1>3, <1>14 DEF timerCallback, Ends, What, head
    <2> QED BY <2>2, <2>3
  <1>15. ASSUME NEW y \in Connection, Follows(c, y), y.parsed = c.parsed, y.timer = c.timer,
               NEW data \in Seq(Piece), Fed(c, data), RunHead(c) = receiveCallback(y, data),
               IF What(c) = "ready" THEN y.op = "none" /\ y.input = <<>> ELSE y.op = c.op /\ y.input = c.input
        PROVE  \E x \in Connection :
                  Follows(c, x) /\ (Reads(c, x) \/ \E result : Ends(c, x, result))
    <2>1. Garbled(y, data) <=> Garbled(c, data)
      BY <1>15 DEF Garbled
    <2>2. y.input = IF What(c) = "ready" /\ c.op = "receive" THEN <<>> ELSE c.input
      BY <1>15 DEF Fed
    <2>3. CASE receiveCallback(y, data) = terminate(y, "failed") /\ Garbled(y, data)
      BY <2>1, <2>2, <2>3, <1>15 DEF Ends
    <2>4. CASE /\ receiveCallback(y, data) = terminate(y, data[Parts - y.parsed].result)
               /\ ~Garbled(y, data) /\ y.parsed + Len(data) >= Parts
      <3>1. Ends(c, y, data[Parts - y.parsed].result)
        BY <2>1, <2>2, <2>4, <1>15 DEF Ends
      <3> QED BY <3>1, <1>15
    <2>5. ASSUME NEW z \in Connection,
                 ~Garbled(y, data), receiveCallback(y, data) = GoesOn(doReceive(z)),
                 z.timer = (IF y.timer = "off" THEN "off" ELSE "on"),
                 z.parsed = y.parsed + Len(data),
                 z.socket = y.socket, z.current = y.current, z.queue = y.queue,
                 z.op = y.op, z.done = y.done, z.server = y.server, z.input = y.input
          PROVE  Follows(c, z) /\ Reads(c, z)
      <3>1. Follows(c, z)
        BY <2>5, <1>15 DEF Follows
      <3> QED BY <3>1, <2>1, <2>5, <1>15 DEF Reads
    <2> QED BY <2>3, <2>4, <2>5, ReceivedIs
  <1>16. CASE head.what = "received"
    <2>1. RunHead(c) = receiveCallback(rest, head.data)
      BY <1>4, <1>16, Zenon
    <2>2. Fed(c, head.data) /\ What(c) = "received"
      BY <1>16 DEF Fed, What, head
    <2> QED BY <2>1, <2>2, <1>2, <1>3, <1>15
  <1>17. CASE head.what = "ready"
    <2>1. RunHead(c) = perform(rest)
      BY <1>4, <1>17, Zenon
    <2>2. What(c) = "ready"
      BY <1>17 DEF What, head
    <2>3. (IsReady(rest) <=> IsReady(c)) /\ (isUsable(rest) <=> c.socket = "connected")
      BY <1>3 DEF IsReady, isUsable, Follows
    <2>4. /\ ~IsReady(rest) => perform(rest) = GoesOn(rest)
          /\ IsReady(rest) /\ rest.op = "connect" =>
                perform(rest) = connectCallback(performed, isUsable(rest))
          /\ IsReady(rest) /\ rest.op = "receive" /\ rest.input # <<>> =>
                perform(rest) = receiveCallback(emptied, rest.input)
          /\ IsReady(rest) /\ rest.op # "connect" /\ ~(rest.op = "receive" /\ rest.input # <<>>) =>
                perform(rest) = terminate(performed, "failed")
      <3> DEFINE ready == IsReady(rest)
                 fed == rest.op = "receive" /\ rest.input # <<>>
      <3>1. perform(rest) =
              CASE ~ready -> GoesOn(rest)
                [] ready /\ rest.op = "connect" -> connectCallback(performed, isUsable(rest))
                [] ready /\ rest.op = "receive" /\ rest.input # <<>> -> receiveCallback(emptied, rest.input)
                [] OTHER -> terminate(performed, "failed")
        BY DEF perform, performed, emptied
      <3> HIDE DEF ready
      <3>2. rest.op = "connect" => rest.op # "receive"
        OBVIOUS
      <3>3. /\ ~ready => perform(rest) = GoesOn(rest)
            /\ ready /\ rest.op = "connect" => perform(rest) = connectCallback(performed, isUsable(rest))
            /\ ready /\ rest.op = "receive" /\ rest.input # <<>> =>
                  perform(rest) = receiveCallback(emptied, rest.input)
            /\ ready /\ rest.op # "connect" /\ ~(rest.op = "receive" /\ rest.input # <<>>) =>
                  perform(rest) = terminate(performed, "failed")
        BY <3>1, <3>2, Zenon
      <3> QED BY <3>3 DEF ready
    <2>5. CASE ~IsReady(c)
      BY <2>1, <2>2, <2>3, <2>4, <2>5, <1>3 DEF Skips
    <2>6. CASE IsReady(c) /\ c.op = "connect"
      <3>1. RunHead(c) = connectCallback(performed, isUsable(rest)) /\ c.socket # "connecting"
        BY <2>1, <2>3, <2>4, <2>6, <1>3 DEF IsReady
      <3>2. CASE isUsable(rest)
        BY Zenon, <3>1, <3>2, <2>2, <2>3, <2>6, <1>9 DEF connectCallback, timedp, Sends
      <3>3. CASE ~isUsable(rest)
        BY <3>1, <3>3, <2>2, <2>3, <2>6, <1>5 DEF connectCallback, Ends
      <3> QED BY <3>2, <3>3
    <2>7. CASE IsReady(c) /\ c.op # "connect" /\ c.input # <<>>
      <3>1. c.op = "receive"
        BY <2>7 DEF IsReady
      <3>2. RunHead(c) = receiveCallback(emptied, c.input)
        BY <3>1, <2>1, <2>3, <2>4, <2>7, <1>3
      <3>3. Fed(c, c.input)
        BY <3>1, <2>2, <2>7 DEF Fed
      <3> QED BY <3>2, <3>3, <2>2, <1>2, <1>8, <1>15
    <2>8. CASE IsReady(c) /\ c.op # "connect" /\ c.input = <<>>
      <3>1. c.op = "receive" /\ c.socket # "connected"
        BY <2>8 DEF IsReady, isUsable
      <3>2. RunHead(c) = terminate(performed, "failed")
        BY <3>1, <2>1, <2>3, <2>4, <2>8, <1>3
      <3> QED BY <3>1, <3>2, <2>2, <2>8, <1>5 DEF Ends
    <2> QED BY <2>5, <2>6, <2>7, <2>8
  <1> QED BY <1>2, <1>10, <1>11, <1>12, <1>13, <1>14, <1>16, <1>17

\* A callback that is run finds its transaction (RunCompletion).
Runnable(c) ==
    /\ c.done # <<>>
    /\ \/ c.current # NoRequest
       \/ What(c) = "ready"
       \/ What(c) = "timer" /\ c.timer = "off"
    /\ c.current = NoRequest => c.queue = <<>> /\ c.op = "none"

LEMMA GoesOnFields ==
  ASSUME NEW c
  PROVE  GoesOn(c).conn = c /\ GoesOn(c).ends = NoRequest
  BY DEF GoesOn

\* Only a notice that comes too late, or a cancelled timer, finds no transaction.
LEMMA RunsInTransaction ==
  ASSUME NEW c \in Connection, Runnable(c), NEW x, NEW result,
         Sends(c, x) \/ Reads(c, x) \/ Ends(c, x, result)
  PROVE  c.current # NoRequest
  <1>1. What(c) = "ready" /\ c.op # "none" => c.current # NoRequest
    BY DEF Runnable
  <1>2. CASE Sends(c, x)
    BY <1>1, <1>2 DEF Sends, Runnable
  <1>3. CASE Reads(c, x)
    BY <1>1, <1>3 DEF Reads, Fed, Runnable
  <1>4. CASE Ends(c, x, result)
    BY <1>1, <1>4 DEF Ends, Fed, Runnable
  <1> QED BY <1>2, <1>3, <1>4

\* One turn of the event loop, which leaves the connection n: nothing happens, the request
\* is sent, the next read is started, or the transaction ends.
Turn(c, x, n, ends, result) ==
    \/ Skips(c, x) /\ n = x /\ ends = NoRequest
    \/ Sends(c, x) /\ Sent(x, n) /\ ends = NoRequest /\ c.current # NoRequest
    \/ Reads(c, x) /\ Awaited(x, n) /\ ends = NoRequest /\ c.current # NoRequest
    \/ Ends(c, x, result) /\ Ended(x, n) /\ ends = c.current /\ c.current # NoRequest

LEMMA TurnIs ==
  ASSUME NEW c \in Connection, Runnable(c)
  PROVE  \E x \in Connection :
            Follows(c, x) /\ Turn(c, x, RunHead(c).conn, RunHead(c).ends, RunHead(c).result)
  <1> DEFINE n == RunHead(c).conn
             ends == RunHead(c).ends
             T(x) == Turn(c, x, n, ends, RunHead(c).result)
  <1>1. PICK x \in Connection :
           /\ Follows(c, x)
           /\ Skips(c, x) \/ Sends(c, x) \/ Reads(c, x) \/ \E result : Ends(c, x, result)
    BY RunHeadIs DEF Runnable
  <1>2. x.current = c.current
    BY <1>1 DEF Follows
  <1>3. ASSUME Skips(c, x) PROVE T(x)
    BY <1>3, GoesOnFields DEF Skips, Turn
  <1>4. ASSUME Sends(c, x) PROVE T(x)
    <2>1. n = doSend(x) /\ ends = NoRequest /\ c.current # NoRequest
      BY <1>4, GoesOnFields, RunsInTransaction DEF Sends
    <2>2. Sent(x, doSend(x))
      BY <2>1, <1>2, SendFields
    <2> QED BY <2>1, <2>2, <1>4 DEF Turn
  <1>5. ASSUME Reads(c, x) PROVE T(x)
    <2>1. n = doReceive(x) /\ ends = NoRequest /\ c.current # NoRequest
      BY <1>5, GoesOnFields, RunsInTransaction DEF Reads
    <2>2. Awaited(x, doReceive(x))
      BY ReceiveFields
    <2> QED BY <2>1, <2>2, <1>5 DEF Turn
  <1>6. ASSUME NEW result, Ends(c, x, result) PROVE T(x)
    <2>1. RunHead(c) = terminate(x, result) /\ c.current # NoRequest
      BY <1>6, RunsInTransaction DEF Ends
    <2>2. /\ terminate(x, result).ends = x.current /\ terminate(x, result).result = result
          /\ Ended(x, terminate(x, result).conn)
      BY TerminateFields
    <2> QED BY <2>1, <2>2, <1>2, <1>6 DEF Turn
  <1> QED BY <1>1, <1>3, <1>4, <1>5, <1>6

\* What one turn of the event loop does to the requests: it leaves them alone, or it ends
\* the one in progress and starts the next one in the queue.
Moves(c, n, ends) ==
    /\ n \in Connection
    /\ n.current = NoRequest => n.queue = <<>> /\ n.op = "none"
    /\ \/ ends = NoRequest /\ n.current = c.current /\ n.queue = c.queue
       \/ /\ ends = c.current /\ c.current # NoRequest
          /\ \/ c.queue = <<>> /\ n.current = NoRequest /\ n.queue = <<>>
             \/ c.queue # <<>> /\ n.current = Head(c.queue) /\ n.queue = Tail(c.queue)

LEMMA TurnMoves ==
  ASSUME NEW c \in Connection, Runnable(c), NEW x \in Connection, Follows(c, x),
         NEW n, NEW ends, NEW result, Turn(c, x, n, ends, result)
  PROVE  Moves(c, n, ends)
  <1>1. x.current = c.current /\ x.queue = c.queue
    BY DEF Follows
  <1>2. CASE Skips(c, x) /\ n = x /\ ends = NoRequest
    BY <1>1, <1>2 DEF Skips, Moves, Runnable
  <1>3. CASE Sends(c, x) /\ Sent(x, n) /\ ends = NoRequest /\ c.current # NoRequest
    BY <1>1, <1>3 DEF Sent, Moves
  <1>4. CASE Reads(c, x) /\ Awaited(x, n) /\ ends = NoRequest /\ c.current # NoRequest
    BY <1>1, <1>4 DEF Awaited, Moves
  <1>5. CASE Ends(c, x, result) /\ Ended(x, n) /\ ends = c.current /\ c.current # NoRequest
    <2>1. x.queue # <<>> => Head(x.queue) \in Request
      BY DEF Connection
    <2> QED BY <2>1, <1>1, <1>5, RequestIsSome DEF Ended, Moves
  <1> QED BY <1>2, <1>3, <1>4, <1>5 DEF Turn

-----------------------------------------------------------------------------
(* The event loop of a connection. *)

\* LoopInv for the three lengths of the queue: without quantifiers.
Rests(c) ==
    /\ c.current = NoRequest => c.op = "none" /\ c.timer = "off"
    /\ c.op = "connect" => c.timer = "off"
    /\ c.op = "receive" => c.timer # "off"
    /\ c.socket = "connecting" => c.op = "connect"
    /\ c.socket # "connected" => c.input = <<>> /\ c.server = <<>>

Stepped(c, d) ==
    d.what \in Steps =>
        /\ c.op = "none" /\ c.current # NoRequest /\ d.of = c.current
        /\ d.what # "connected" => c.timer # "off"

Timed(c, d) == c.timer # "off" => c.op = "receive" /\ d.of = c.current

LoopEmpty(c) ==
    /\ Rests(c)
    /\ c.current # NoRequest => c.op # "none"
    /\ c.op = "connect" => c.socket = "connecting"
    /\ c.timer # "expired"

LoopOne(c, d) ==
    /\ Rests(c)
    /\ Stepped(c, d)
    /\ d.what = "timer" => Timed(c, d)
    /\ c.current # NoRequest /\ c.op = "none" => d.what \in Steps
    /\ c.op = "connect" => c.socket = "connecting" \/ d.what = "ready"
    /\ c.timer = "expired" => d.what = "timer"

LoopTwo(c, d, e) ==
    /\ Rests(c)
    /\ d.what \notin Steps /\ Stepped(c, e)
    /\ d.what = "timer" => Timed(c, d) /\ e.what # "timer"
    /\ e.what = "timer" => Timed(c, e) /\ c.timer # "off"
    /\ c.current # NoRequest
    /\ c.op = "none" => e.what \in Steps
    /\ c.op = "connect" => c.socket # "connecting" /\ e.what = "ready"
    /\ c.op = "receive" => d.what # "ready" \/ e.what # "ready"
    /\ c.timer = "expired" => d.what = "timer" \/ e.what = "timer"

LEMMA LoopUnrolled ==
  ASSUME NEW c \in Connection
  PROVE  /\ Len(c.done) = 0 => (LoopInv(c) <=> LoopEmpty(c))
         /\ Len(c.done) = 1 => (LoopInv(c) <=> LoopOne(c, c.done[1]))
         /\ Len(c.done) = 2 => (LoopInv(c) <=> LoopTwo(c, c.done[1], c.done[2]))
         /\ LoopInv(c) => Len(c.done) \in {0, 1, 2}
  <1>1. c.done \in Seq(Completion)
    BY DEF Connection
  <1>2. Len(c.done) \in Nat
    BY <1>1
  <1>3. /\ c.op \in {"none", "connect", "receive"} /\ c.timer \in {"off", "on", "expired"}
        /\ \A i \in 1..Len(c.done) : c.done[i].what \in
              {"ready", "connected", "sent", "unsent", "received", "lost", "timer"}
    <2>1. c.op \in {"none", "connect", "receive"} /\ c.timer \in {"off", "on", "expired"}
      BY DEF Connection
    <2>2. \A i \in 1..Len(c.done) : c.done[i] \in Completion
      BY <1>1
    <2> QED BY <2>1, <2>2 DEF Completion
  <1>4. CASE Len(c.done) = 0
    BY <1>4 DEF LoopInv, LoopEmpty, Rests
  <1>5. CASE Len(c.done) = 1
    BY <1>3, <1>5 DEF LoopInv, LoopOne, Rests, Stepped, Timed, Steps
  <1>6. ASSUME Len(c.done) = 2, LoopInv(c) PROVE LoopTwo(c, c.done[1], c.done[2])
    BY <1>3, <1>6 DEF LoopInv, LoopTwo, Rests, Stepped, Timed, Steps
  <1>7. ASSUME Len(c.done) = 2, LoopTwo(c, c.done[1], c.done[2]) PROVE LoopInv(c)
    BY <1>3, <1>7 DEF LoopInv, LoopTwo, Rests, Stepped, Timed, Steps
  <1>8. LoopInv(c) => Len(c.done) <= 2
    BY DEF LoopInv
  <1>9. CASE Len(c.done) = 2
    BY <1>6, <1>7, <1>9
  <1>10. CASE Len(c.done) \notin {0, 1, 2}
    <2> DEFINE k == Len(c.done)
    <2>1. k \in Nat /\ k \notin {0, 1, 2} /\ (LoopInv(c) => k <= 2)
      BY <1>2, <1>8, <1>10
    <2> HIDE DEF k
    <2>2. ~LoopInv(c) /\ k \notin {0, 1, 2}
      BY <2>1
    <2> QED BY <2>2 DEF k
  <1> QED BY <1>4, <1>5, <1>9, <1>10

\* The two places of the queue of the event loop.
LEMMA TurnQueue ==
  ASSUME NEW c \in Connection, NEW x \in Connection, c.done # <<>>, Len(c.done) <= 2, Follows(c, x)
  PROVE  /\ Len(c.done) \in {1, 2} /\ Len(x.done) = Len(c.done) - 1
         /\ Len(c.done) = 2 => x.done[1] = c.done[2]
         /\ What(c) = c.done[1].what
         /\ \A e \in Completion :
               /\ Len(Append(x.done, e)) = Len(c.done)
               /\ Append(x.done, e)[Len(c.done)] = e
               /\ Len(c.done) = 2 => Append(x.done, e)[1] = c.done[2]
  <1>1. c.done \in Seq(Completion) /\ x.done = Tail(c.done)
    BY DEF Connection, Follows
  <1>2. Len(c.done) \in Nat \ {0}
    <2> DEFINE d == c.done
    <2>1. d \in Seq(Completion) /\ d # <<>>
      BY <1>1
    <2> HIDE DEF d
    <2>2. Len(d) \in Nat \ {0}
      BY <2>1, EmptySeq
    <2> QED BY <2>2 DEF d
  <1>3. Len(c.done) \in {1, 2}
    <2> DEFINE k == Len(c.done)
    <2>1. k \in Nat \ {0} /\ k <= 2
      BY <1>2
    <2> HIDE DEF k
    <2>2. k \in {1, 2}
      BY <2>1
    <2> QED BY <2>2 DEF k
  <1>4. x.done \in Seq(Completion) /\ Len(x.done) = Len(c.done) - 1
    BY <1>1, <1>3
  <1>5. Len(c.done) = 2 => x.done[1] = c.done[2]
    BY <1>1, <1>3
  <1>6. What(c) = c.done[1].what
    BY <1>1, <1>3 DEF What
  <1>7. ASSUME NEW e \in Completion
        PROVE  /\ Len(Append(x.done, e)) = Len(c.done)
               /\ Append(x.done, e)[Len(c.done)] = e
               /\ Len(c.done) = 2 => Append(x.done, e)[1] = c.done[2]
    BY <1>3, <1>4, <1>5
  <1> QED BY <1>3, <1>4, <1>5, <1>6, <1>7

\* What the event loop has queued after a turn.
LEMMA LoopAfter ==
  ASSUME NEW c \in Connection, NEW x \in Connection, NEW n \in Connection, c.done # <<>>,
         LoopInv(c), Follows(c, x)
  PROVE  /\ Len(c.done) \in {1, 2} /\ What(c) = c.done[1].what
         /\ Len(c.done) = 1 => LoopOne(c, c.done[1])
         /\ Len(c.done) = 2 => LoopTwo(c, c.done[1], c.done[2])
         /\ n.done = x.done /\ Len(c.done) = 1 /\ LoopEmpty(n) => LoopInv(n)
         /\ n.done = x.done /\ Len(c.done) = 2 /\ LoopOne(n, c.done[2]) => LoopInv(n)
         /\ \A f \in Completion : n.done = Append(x.done, f) =>
               /\ Len(c.done) = 1 /\ LoopOne(n, f) => LoopInv(n)
               /\ Len(c.done) = 2 /\ LoopTwo(n, c.done[2], f) => LoopInv(n)
  <1>1. /\ Len(c.done) \in {1, 2} /\ Len(x.done) = Len(c.done) - 1
        /\ Len(c.done) = 2 => x.done[1] = c.done[2]
        /\ What(c) = c.done[1].what
        /\ \A f \in Completion :
              /\ Len(Append(x.done, f)) = Len(c.done)
              /\ Append(x.done, f)[Len(c.done)] = f
              /\ Len(c.done) = 2 => Append(x.done, f)[1] = c.done[2]
    BY TurnQueue DEF LoopInv
  <1>2. /\ Len(c.done) = 1 => LoopOne(c, c.done[1])
        /\ Len(c.done) = 2 => LoopTwo(c, c.done[1], c.done[2])
    BY LoopUnrolled
  <1>3. /\ Len(n.done) = 0 /\ LoopEmpty(n) => LoopInv(n)
        /\ Len(n.done) = 1 /\ LoopOne(n, n.done[1]) => LoopInv(n)
        /\ Len(n.done) = 2 /\ LoopTwo(n, n.done[1], n.done[2]) => LoopInv(n)
    BY LoopUnrolled
  <1>4. ASSUME n.done = x.done, Len(c.done) = 1, LoopEmpty(n) PROVE LoopInv(n)
    BY <1>1, <1>3, <1>4
  <1>5. ASSUME n.done = x.done, Len(c.done) = 2, LoopOne(n, c.done[2]) PROVE LoopInv(n)
    BY <1>1, <1>3, <1>5
  <1>6. ASSUME NEW f \in Completion, n.done = Append(x.done, f), Len(c.done) = 1, LoopOne(n, f)
        PROVE  LoopInv(n)
    BY <1>1, <1>3, <1>6
  <1>7. ASSUME NEW f \in Completion, n.done = Append(x.done, f), Len(c.done) = 2,
               LoopTwo(n, c.done[2], f)
        PROVE  LoopInv(n)
    BY <1>1, <1>3, <1>7
  <1> QED BY <1>1, <1>2, <1>4, <1>5, <1>6, <1>7

\* The completions of the client are well-formed.
LEMMA NoticeIs ==
  ASSUME NEW r \in Request \cup {NoRequest}, NEW data \in Seq(Piece),
         NEW what \in {"ready", "connected", "sent", "unsent", "received", "lost", "timer"}
  PROVE  [what |-> what, of |-> r, data |-> data] \in Completion
  BY DEF Completion

LEMMA LoopTurn ==
  ASSUME NEW c \in Connection, Runnable(c), NEW x \in Connection, Follows(c, x),
         NEW n, NEW ends, NEW result, Turn(c, x, n, ends, result), LoopInv(c)
  PROVE  LoopInv(n)
  <1> DEFINE d == c.done[1]
             e == c.done[2]
  <1>1. n \in Connection
    BY TurnMoves DEF Moves
  <1>2. /\ Len(c.done) \in {1, 2} /\ What(c) = d.what
        /\ Len(c.done) = 1 => LoopOne(c, d)
        /\ Len(c.done) = 2 => LoopTwo(c, d, e)
        /\ n.done = x.done /\ Len(c.done) = 1 /\ LoopEmpty(n) => LoopInv(n)
        /\ n.done = x.done /\ Len(c.done) = 2 /\ LoopOne(n, e) => LoopInv(n)
        /\ \A f \in Completion : n.done = Append(x.done, f) =>
              /\ Len(c.done) = 1 /\ LoopOne(n, f) => LoopInv(n)
              /\ Len(c.done) = 2 /\ LoopTwo(n, e, f) => LoopInv(n)
    BY <1>1, LoopAfter DEF Runnable
  <1>3. x.socket = c.socket /\ x.current = c.current /\ x.queue = c.queue /\ x.server = c.server
    BY DEF Follows
  <1>4. /\ c.op \in {"none", "connect", "receive"} /\ c.timer \in {"off", "on", "expired"}
        /\ c.current \in Request \cup {NoRequest} /\ c.input \in Seq(Piece) /\ x.input \in Seq(Piece)
        /\ <<>> \in Seq(Piece) /\ (c.queue # <<>> => Head(c.queue) \in Request)
    BY EmptyFields DEF Connection, Pieces
  <1> HIDE DEF d, e
  <1>5. CASE Skips(c, x) /\ n = x /\ ends = NoRequest
    <2>1. /\ n.op = c.op /\ n.timer = c.timer /\ n.input = c.input /\ n.done = x.done
          /\ n.server = c.server /\ n.socket = c.socket /\ n.current = c.current
          /\ \/ d.what = "ready" /\ ~IsReady(c)
             \/ d.what = "timer" /\ c.timer = "off"
      BY <1>2, <1>3, <1>5 DEF Skips
    <2>2. ASSUME LoopOne(c, d) PROVE LoopEmpty(n)
      BY <1>3, <1>4, <2>1, <2>2 DEF LoopOne, LoopEmpty, Rests, Stepped, Timed, Steps, IsReady
    <2>3. ASSUME LoopTwo(c, d, e) PROVE LoopOne(n, e)
      BY <1>3, <1>4, <2>1, <2>3 DEF LoopOne, LoopTwo, Rests, Stepped, Timed, Steps, IsReady
    <2> QED BY <2>1, <2>2, <2>3, <1>2
  <1>6. CASE Sends(c, x) /\ Sent(x, n) /\ ends = NoRequest /\ c.current # NoRequest
    <2>1. PICK f \in Completion :
             /\ n.done = Append(x.done, f) /\ f.what \in {"sent", "unsent"} /\ f.of = c.current
      BY Zenon, <1>3, <1>4, <1>6, NoticeIs DEF Sent
    <2>2. /\ n.socket = c.socket /\ n.current = c.current /\ n.timer = "on" /\ n.input = c.input
          /\ n.op = x.op /\ (n.socket # "connected" => n.server = c.server)
          /\ \/ d.what = "ready" /\ c.op = "connect" /\ c.socket = "connected" /\ x.op = "none"
             \/ d.what = "connected" /\ x.op = c.op
      BY <1>2, <1>3, <1>6 DEF Sends, Sent
    <2>3. ASSUME LoopOne(c, d) PROVE LoopOne(n, f)
      BY <1>4, <1>6, <2>1, <2>2, <2>3 DEF LoopOne, Rests, Stepped, Timed, Steps
    <2>4. ASSUME LoopTwo(c, d, e) PROVE LoopTwo(n, e, f)
      BY <1>4, <1>6, <2>1, <2>2, <2>4 DEF LoopTwo, Rests, Stepped, Timed, Steps
    <2> QED BY <2>1, <2>3, <2>4, <1>2
  <1>7. CASE Reads(c, x) /\ Awaited(x, n) /\ ends = NoRequest /\ c.current # NoRequest
    <2>1. /\ n.socket = c.socket /\ n.current = c.current /\ n.input = <<>> /\ n.timer = x.timer
          /\ n.server = c.server
          /\ x.timer = IF c.timer = "off" THEN "off" ELSE "on"
          /\ \/ d.what = "ready" /\ c.op = "receive" /\ c.input # <<>> /\ x.op = "none" /\ x.input = <<>>
             \/ d.what \in {"sent", "received"} /\ x.op = c.op
      BY Zenon, <1>2, <1>3, <1>7 DEF Reads, Awaited, Fed
    <2>2. CASE x.input # <<>> \/ x.socket # "connected"
      <3>1. PICK f \in Completion :
               /\ n.done = Append(x.done, f) /\ f.what \in {"received", "lost"} /\ f.of = c.current
               /\ n.op = x.op
        <4> DEFINE f1 == [what |-> "received", of |-> x.current, data |-> x.input]
                   f2 == [what |-> "lost", of |-> x.current, data |-> <<>>]
        <4>1. f1 \in Completion /\ f2 \in Completion
          BY Zenon, <1>3, <1>4, NoticeIs
        <4>2. n.op = x.op /\ n.done \in {Append(x.done, f1), Append(x.done, f2)}
          BY <1>7, <2>2 DEF Awaited
        <4>3. f1.what = "received" /\ f2.what = "lost" /\ f1.of = c.current /\ f2.of = c.current
          BY <1>3
        <4> HIDE DEF f1, f2
        <4> QED BY <4>1, <4>2, <4>3
      <3>2. ASSUME LoopOne(c, d) PROVE LoopOne(n, f)
        BY <1>3, <1>4, <1>7, <2>1, <2>2, <3>1, <3>2 DEF LoopOne, Rests, Stepped, Timed, Steps
      <3>3. ASSUME LoopTwo(c, d, e) PROVE FALSE
        BY <1>3, <1>4, <1>7, <2>1, <2>2, <3>3 DEF LoopTwo, Rests, Stepped, Timed, Steps
      <3> QED BY <3>1, <3>2, <3>3, <1>2
    <2>3. CASE x.input = <<>> /\ x.socket = "connected"
      <3>1. n.done = x.done /\ n.op = "receive"
        BY <1>7, <2>3 DEF Awaited
      <3>2. ASSUME LoopOne(c, d) PROVE LoopEmpty(n)
        BY <1>3, <1>4, <1>7, <2>1, <2>3, <3>1, <3>2 DEF LoopOne, LoopEmpty, Rests, Stepped, Timed, Steps
      <3>3. ASSUME LoopTwo(c, d, e) PROVE LoopOne(n, e)
        BY <1>3, <1>4, <1>7, <2>1, <2>3, <3>1, <3>3 DEF LoopOne, LoopTwo, Rests, Stepped, Timed, Steps
      <3> QED BY <3>1, <3>2, <3>3, <1>2
    <2> QED BY <2>2, <2>3
  <1>8. CASE Ends(c, x, result) /\ Ended(x, n) /\ ends = c.current /\ c.current # NoRequest
    <2>1. /\ x.input = IF d.what = "ready" /\ c.op = "receive" THEN <<>> ELSE c.input
          /\ \/ d.what = "ready" /\ c.op = "connect" /\ c.socket \notin {"connecting", "connected"}
             \/ d.what = "ready" /\ c.op = "receive"
             \/ d.what \in {"unsent", "lost", "received"}
             \/ d.what = "timer" /\ c.timer # "off"
      BY Zenon, <1>2, <1>8 DEF Ends, Fed
    <2>2. /\ n.timer = "off"
          /\ n.socket \in {"closed", "broken", "connected", "connecting"}
          /\ n.socket # "connected" =>
                \/ n.input = <<>> /\ n.server = <<>>
                \/ /\ x.socket # "connected"
                   /\ n.input \in {<<>>, x.input} /\ n.server \in {<<>>, x.server}
      BY Zenon, <1>1, <1>8 DEF Ended, Connection
    <2>3. c.socket # "connected" => c.input = <<>> /\ c.server = <<>>
      BY DEF LoopInv
    <2>4. n.socket # "connected" => n.input = <<>> /\ n.server = <<>>
      BY <2>1, <2>2, <2>3, <1>3
    <2>5. c.socket # "connecting"
      BY Zenon, <2>1, <1>2 DEF LoopOne, LoopTwo, Rests, Stepped, Timed, Steps
    <2>6. ASSUME n.done = x.done,
                 \/ n.current = NoRequest /\ n.op = "none" /\ n.socket # "connecting"
                 \/ n.current \in Request /\ n.op = "connect" /\ n.socket = "connecting"
          PROVE  LoopInv(n)
      <3>2. n.current \in Request => n.current # NoRequest
        BY RequestIsSome
      <3>3. ASSUME LoopOne(c, d) PROVE LoopEmpty(n)
        BY <2>1, <2>2, <2>4, <2>6, <3>2, <3>3 DEF LoopOne, LoopEmpty, Rests, Stepped, Timed, Steps
      <3>4. ASSUME LoopTwo(c, d, e) PROVE LoopOne(n, e)
        BY <2>1, <2>2, <2>4, <2>6, <3>2, <3>4, <1>4 DEF LoopTwo, LoopOne, Rests, Stepped, Timed, Steps
      <3> QED BY <2>6, <3>3, <3>4, <1>2
    <2>7. ASSUME c.queue # <<>>, n.socket = "connected", n.op = "none", n.current = Head(c.queue),
                 NEW f \in Completion, n.done = Append(x.done, f), f.what = "connected",
                 f.of = Head(c.queue)
          PROVE  LoopInv(n)
      <3>1. n.current # NoRequest
        BY <2>7, <1>4, RequestIsSome
      <3>2. ASSUME LoopOne(c, d) PROVE LoopOne(n, f)
        BY <2>2, <2>7, <3>1, <3>2 DEF LoopOne, Rests, Stepped, Timed, Steps
      <3>3. ASSUME LoopTwo(c, d, e) PROVE LoopTwo(n, e, f)
        BY <2>1, <2>2, <2>7, <3>1, <3>3, <1>4 DEF LoopTwo, Rests, Stepped, Timed, Steps
      <3> QED BY Zenon, <2>7, <3>2, <3>3, <1>2
    <2>8. \/ /\ n.done = x.done
             /\ \/ n.current = NoRequest /\ n.op = "none" /\ n.socket # "connecting"
                \/ n.current \in Request /\ n.op = "connect" /\ n.socket = "connecting"
          \/ /\ c.queue # <<>> /\ n.socket = "connected" /\ n.op = "none" /\ n.current = Head(c.queue)
             /\ n.done = Append(x.done, [what |-> "connected", of |-> Head(c.queue), data |-> <<>>])
      BY <2>5, <1>3, <1>4, <1>8 DEF Ended
    <2>9. c.queue # <<>> => [what |-> "connected", of |-> Head(c.queue), data |-> <<>>] \in Completion
      <3> DEFINE r == Head(c.queue)
      <3>1. c.queue # <<>> => r \in Request
        BY <1>4
      <3> HIDE DEF r
      <3>2. c.queue # <<>> => [what |-> "connected", of |-> r, data |-> <<>>] \in Completion
        BY Zenon, <3>1, <1>4, NoticeIs
      <3> QED BY <3>2 DEF r
    <2> QED BY <2>6, <2>7, <2>8, <2>9
  <1> QED BY <1>5, <1>6, <1>7, <1>8 DEF Turn

\* Requests that are queued wait behind the one in progress, or the first of them is started.
Enqueued(c, requests, n) ==
    /\ n \in Connection
    /\ \/ requests = <<>> /\ n = c
       \/ /\ requests # <<>> /\ c.current # NoRequest /\ n.queue = c.queue \o requests
          /\ n.current = c.current /\ n.op = c.op /\ n.timer = c.timer /\ n.done = c.done
          /\ n.socket = c.socket /\ n.server = c.server /\ n.input = c.input /\ n.parsed = c.parsed
       \/ /\ requests # <<>> /\ c.current = NoRequest /\ n.queue = c.queue \o Tail(requests)
          /\ n.current = Head(requests) /\ n.timer = c.timer /\ n.parsed = 0
          /\ \/ /\ c.socket = "connected" /\ n.socket = "connected" /\ n.op = c.op
                /\ n.done = Append(c.done, [what |-> "connected", of |-> Head(requests), data |-> <<>>])
                /\ n.server = c.server /\ n.input = c.input
             \/ /\ c.socket # "connected" /\ n.socket = "connecting" /\ n.op = "connect"
                /\ n.done = c.done
                /\ n.server \in {<<>>, c.server} /\ n.input \in {<<>>, c.input}

LEMMA QueueFields ==
  ASSUME NEW c \in Connection, NEW requests \in Seq(Request)
  PROVE  Enqueued(c, requests, queueRequests(c, requests))
  <1> DEFINE r == Head(requests)
             t == doTransaction(c, r)
             waits == [c EXCEPT !.queue = @ \o requests]
             starts == [t EXCEPT !.queue = @ \o Tail(requests)]
             n == queueRequests(c, requests)
  <1>1. /\ requests = <<>> => n = c
        /\ requests # <<>> /\ c.current # NoRequest => n = waits
        /\ requests # <<>> /\ c.current = NoRequest => n = starts
    <2>1. n = CASE requests = <<>> -> c
                [] requests # <<>> /\ c.current # NoRequest -> waits
                [] OTHER -> starts
      BY DEF queueRequests
    <2> HIDE DEF n, waits, starts
    <2> QED BY <2>1, Zenon
  <1> HIDE DEF n
  <1>2. CASE requests = <<>>
    BY <1>1, <1>2 DEF Enqueued, n
  <1>3. CASE requests # <<>> /\ c.current # NoRequest
    <2>1. c.queue \o requests \in Requests
      BY DEF Requests, Connection
    <2>2. /\ waits \in Connection /\ waits.queue = c.queue \o requests
          /\ waits.current = c.current /\ waits.op = c.op /\ waits.timer = c.timer /\ waits.done = c.done
          /\ waits.socket = c.socket /\ waits.server = c.server /\ waits.input = c.input
          /\ waits.parsed = c.parsed
      BY <2>1, ConnectionFields
    <2>3. n = waits
      <3> HIDE DEF waits, starts
      <3> QED BY <1>1, <1>3
    <2> HIDE DEF waits
    <2> QED BY <2>2, <2>3, <1>3 DEF Enqueued, n
  <1>4. CASE requests # <<>> /\ c.current = NoRequest
    <2>0. n = starts
      <3> HIDE DEF waits, starts
      <3> QED BY <1>1, <1>4
    <2>1. r \in Request /\ Tail(requests) \in Requests
      BY <1>4 DEF Requests
    <2> HIDE DEF r
    <2>2. Started(c, r, t)
      BY <2>1, TransactionFields
    <2> HIDE DEF t
    <2>3. t \in Connection /\ t.queue = c.queue
      BY <2>2 DEF Started
    <2>4. c.queue \o Tail(requests) \in Requests
      BY <2>1 DEF Requests, Connection
    <2>5. /\ starts \in Connection /\ starts.queue = c.queue \o Tail(requests)
          /\ starts.current = t.current /\ starts.op = t.op /\ starts.timer = t.timer
          /\ starts.done = t.done /\ starts.socket = t.socket /\ starts.server = t.server
          /\ starts.input = t.input /\ starts.parsed = t.parsed
      BY <2>3, <2>4, ConnectionFields
    <2> HIDE DEF starts
    <2>7. /\ n.current = r /\ n.timer = c.timer /\ n.parsed = 0
          /\ \/ /\ c.socket = "connected" /\ n.socket = "connected" /\ n.op = c.op
                /\ n.done = Append(c.done, [what |-> "connected", of |-> r, data |-> <<>>])
                /\ n.server = c.server /\ n.input = c.input
             \/ /\ c.socket # "connected" /\ n.socket = "connecting" /\ n.op = "connect"
                /\ n.done = c.done
                /\ n.server \in {<<>>, c.server} /\ n.input \in {<<>>, c.input}
      BY <2>2, <2>5, <2>0 DEF Started
    <2> QED BY SMTT(30), <2>5, <2>0, <2>7, <1>4 DEF Enqueued, n, r
  <1> QED BY <1>2, <1>3, <1>4

\* A completion that is queued comes last.
LEMMA LoopGrows ==
  ASSUME NEW c \in Connection, NEW n \in Connection, NEW f \in Completion, LoopInv(c),
         n.done = Append(c.done, f)
  PROVE  /\ Len(c.done) \in {0, 1, 2}
         /\ Len(c.done) = 0 => LoopEmpty(c) /\ (LoopOne(n, f) => LoopInv(n))
         /\ Len(c.done) = 1 => LoopOne(c, c.done[1]) /\ (LoopTwo(n, c.done[1], f) => LoopInv(n))
         /\ Len(c.done) = 2 => LoopTwo(c, c.done[1], c.done[2])
  <1>1. c.done \in Seq(Completion) /\ n.done \in Seq(Completion)
    BY DEF Connection
  <1>2. /\ Len(n.done) = Len(c.done) + 1 /\ n.done[Len(c.done) + 1] = f
        /\ Len(c.done) = 1 => n.done[1] = c.done[1]
    BY <1>1
  <1>3. /\ Len(c.done) = 0 => (LoopInv(c) <=> LoopEmpty(c))
        /\ Len(c.done) = 1 => (LoopInv(c) <=> LoopOne(c, c.done[1]))
        /\ Len(c.done) = 2 => (LoopInv(c) <=> LoopTwo(c, c.done[1], c.done[2]))
        /\ LoopInv(c) => Len(c.done) \in {0, 1, 2}
    BY LoopUnrolled
  <1>4. /\ Len(n.done) = 1 => (LoopInv(n) <=> LoopOne(n, n.done[1]))
        /\ Len(n.done) = 2 => (LoopInv(n) <=> LoopTwo(n, n.done[1], n.done[2]))
    BY Zenon, LoopUnrolled
  <1>5. CASE Len(c.done) = 0
    BY <1>2, <1>3, <1>4, <1>5
  <1>6. CASE Len(c.done) = 1
    BY <1>2, <1>3, <1>4, <1>6
  <1>7. CASE Len(c.done) = 2
    BY <1>3, <1>7
  <1> QED BY <1>3, <1>5, <1>6, <1>7

\* LoopInv looks at these fields only.
LEMMA LoopSame ==
  ASSUME NEW c, NEW n, LoopInv(c), n.done = c.done, n.op = c.op, n.timer = c.timer,
         n.current = c.current, n.socket = c.socket,
         n.socket # "connected" => n.input = <<>> /\ n.server = <<>>
  PROVE  LoopInv(n)
  BY DEF LoopInv

LEMMA LoopQueues ==
  ASSUME NEW c \in Connection, NEW requests \in Seq(Request), NEW n,
         Enqueued(c, requests, n), LoopInv(c)
  PROVE  LoopInv(n)
  <1>1. n \in Connection
    BY DEF Enqueued
  <1>2. CASE requests = <<>> /\ n = c
    BY SMTT(30), <1>2
  <1>3. CASE /\ requests # <<>> /\ c.current # NoRequest /\ n.queue = c.queue \o requests
             /\ n.current = c.current /\ n.op = c.op /\ n.timer = c.timer /\ n.done = c.done
             /\ n.socket = c.socket /\ n.server = c.server /\ n.input = c.input /\ n.parsed = c.parsed
    BY <1>3, LoopSame DEF LoopInv
  <1>4. ASSUME requests # <<>>, c.current = NoRequest, n.current = Head(requests),
               n.timer = c.timer
        PROVE  /\ n.current # NoRequest /\ n.current \in Request /\ n.timer = "off" /\ c.op = "none"
    BY <1>4, RequestIsSome DEF LoopInv
  <1>5. ASSUME requests # <<>>, c.current = NoRequest, n.current = Head(requests),
               n.timer = c.timer, c.socket = "connected", n.socket = "connected", n.op = c.op,
               n.done = Append(c.done, [what |-> "connected", of |-> n.current, data |-> <<>>])
        PROVE  LoopInv(n)
    <2> DEFINE f == [what |-> "connected", of |-> n.current, data |-> <<>>]
    <2>1. f \in Completion /\ f.what = "connected" /\ f.of = n.current
      BY Zenon, <1>4, <1>5, EmptyFields, NoticeIs DEF Pieces
    <2>2. n.done = Append(c.done, f)
      BY <1>5
    <2> HIDE DEF f
    <2>3. /\ Len(c.done) \in {0, 1, 2}
          /\ Len(c.done) = 0 => LoopEmpty(c) /\ (LoopOne(n, f) => LoopInv(n))
          /\ Len(c.done) = 1 => LoopOne(c, c.done[1]) /\ (LoopTwo(n, c.done[1], f) => LoopInv(n))
          /\ Len(c.done) = 2 => LoopTwo(c, c.done[1], c.done[2])
      BY <1>1, <2>1, <2>2, LoopGrows
    <2>4. LoopOne(n, f)
      BY <1>4, <1>5, <2>1 DEF LoopOne, Rests, Stepped, Steps
    <2>5. ASSUME LoopOne(c, c.done[1]) PROVE LoopTwo(n, c.done[1], f)
      BY Zenon, <1>4, <1>5, <2>1, <2>5 DEF LoopOne, LoopTwo, Rests, Stepped, Timed, Steps
    <2>6. ~LoopTwo(c, c.done[1], c.done[2])
      BY Zenon, <1>5 DEF LoopTwo
    <2> QED BY <2>3, <2>4, <2>5, <2>6
  <1>6. ASSUME requests # <<>>, c.current = NoRequest, n.current = Head(requests),
               n.timer = c.timer, n.socket = "connecting", n.op = "connect", n.done = c.done,
               c.socket # "connected", n.server \in {<<>>, c.server}, n.input \in {<<>>, c.input}
        PROVE  LoopInv(n)
    <2>1. n.input = <<>> /\ n.server = <<>> /\ Len(n.done) <= 1
      BY Zenon, <1>6 DEF LoopInv
    <2>2. \A i \in 1..Len(c.done) : c.done[i].what \notin Steps
      BY <1>6 DEF LoopInv
    <2>3. Len(c.done) \in {0, 1} /\ Len(n.done) = Len(c.done)
      BY <1>6, <2>1, LoopUnrolled
    <2>4. CASE Len(c.done) = 0
      <3>1. LoopEmpty(n)
        BY <1>4, <1>6, <2>1 DEF LoopEmpty, Rests
      <3> QED BY <3>1, <2>3, <2>4, <1>1, LoopUnrolled
    <2>5. CASE Len(c.done) = 1
      <3>1. LoopOne(n, n.done[1])
        BY <1>4, <1>6, <2>1, <2>2, <2>5 DEF LoopOne, Rests, Stepped, Timed
      <3> QED BY <3>1, <2>3, <2>5, <1>1, LoopUnrolled
    <2> QED BY <2>3, <2>4, <2>5
  <1> QED BY Zenon, <1>2, <1>3, <1>5, <1>6 DEF Enqueued

\* A notice of the event loop goes to the end of its queue.
Noticed(c, what, n) ==
    /\ n \in Connection
    /\ n.done = Append(c.done, [what |-> what, of |-> c.current, data |-> <<>>])
    /\ n.current = c.current /\ n.queue = c.queue /\ n.op = c.op /\ n.parsed = c.parsed
    /\ n.server = c.server /\ n.input = c.input

LEMMA NoticeFields ==
  ASSUME NEW c \in Connection, NEW what \in {"ready", "timer"}
  PROVE  /\ Noticed(c, what, Complete(c, what, <<>>))
         /\ Complete(c, what, <<>>).socket = c.socket /\ Complete(c, what, <<>>).timer = c.timer
  <1> DEFINE n == Complete(c, what, <<>>)
             f == [what |-> what, of |-> c.current, data |-> <<>>]
  <1>1. f \in Completion
    BY EmptyFields DEF Completion, Pieces, Connection
  <1>2. n = [c EXCEPT !.done = Append(c.done, f)]
    BY DEF Complete
  <1>3. Append(c.done, f) \in Completions
    BY <1>1 DEF Connection, Completions
  <1> HIDE DEF f, n
  <1>4. /\ n \in Connection /\ n.done = Append(c.done, f)
        /\ n.socket = c.socket /\ n.current = c.current /\ n.queue = c.queue /\ n.op = c.op
        /\ n.timer = c.timer /\ n.parsed = c.parsed /\ n.server = c.server /\ n.input = c.input
    BY Zenon, <1>2, <1>3, ConnectionFields
  <1>5. Noticed(c, what, n)
    BY <1>4 DEF f, Noticed
  <1> QED BY <1>4, <1>5 DEF n

\* The completion of a notice is well-formed.
LEMMA NoticedIs ==
  ASSUME NEW c \in Connection, NEW what \in {"ready", "timer"}
  PROVE  LET f == [what |-> what, of |-> c.current, data |-> <<>>] IN
         f \in Completion /\ f.what = what /\ f.of = c.current
  BY EmptyFields DEF Completion, Pieces, Connection

LEMMA ExpiredFields ==
  ASSUME NEW c \in Connection
  PROVE  /\ Noticed(c, "timer", Expired(c))
         /\ Expired(c).socket = c.socket /\ Expired(c).timer = "expired"
  <1> DEFINE x == [c EXCEPT !.timer = "expired"]
             n == Complete(x, "timer", <<>>)
  <1>1. /\ x \in Connection /\ x.timer = "expired" /\ x.done = c.done
        /\ x.socket = c.socket /\ x.current = c.current /\ x.queue = c.queue /\ x.op = c.op
        /\ x.parsed = c.parsed /\ x.server = c.server /\ x.input = c.input
    BY ConnectionFields
  <1>2. Expired(c) = n
    BY DEF Expired
  <1> HIDE DEF x
  <1>3. Noticed(x, "timer", n) /\ n.socket = x.socket /\ n.timer = x.timer
    BY <1>1, NoticeFields
  <1> HIDE DEF n
  <1>4. Noticed(c, "timer", n)
    BY <1>1, <1>3 DEF Noticed
  <1> QED BY <1>1, <1>2, <1>3, <1>4

LEMMA ConnectedFields ==
  ASSUME NEW c \in Connection, NEW socket \in {"connected", "broken"}
  PROVE  LET n == Complete([c EXCEPT !.socket = socket], "ready", <<>>) IN
         Noticed(c, "ready", n) /\ n.socket = socket /\ n.timer = c.timer
  <1> DEFINE x == [c EXCEPT !.socket = socket]
             n == Complete(x, "ready", <<>>)
  <1>1. /\ x \in Connection /\ x.timer = c.timer /\ x.done = c.done
        /\ x.socket = socket /\ x.current = c.current /\ x.queue = c.queue /\ x.op = c.op
        /\ x.parsed = c.parsed /\ x.server = c.server /\ x.input = c.input
    BY ConnectionFields
  <1> HIDE DEF x
  <1>3. Noticed(x, "ready", n) /\ n.socket = x.socket /\ n.timer = x.timer
    BY <1>1, NoticeFields
  <1> HIDE DEF n
  <1>4. Noticed(c, "ready", n)
    BY <1>1, <1>3 DEF Noticed
  <1> QED BY <1>1, <1>3, <1>4 DEF n, x

\* A notice is queued, or a timer expires: the transaction is waiting for its answer, or for
\* its connection.
LEMMA LoopNotices ==
  ASSUME NEW c \in Connection, NEW n, NEW what \in {"ready", "timer"}, Noticed(c, what, n), LoopInv(c),
         \/ /\ what = "ready" /\ IsReady(c) /\ n.socket = c.socket /\ n.timer = c.timer
            /\ \A i \in 1..Len(c.done) : c.done[i].what # "ready"
         \/ /\ what = "timer" /\ c.timer = "on" /\ n.socket = c.socket /\ n.timer = "expired"
            /\ \A i \in 1..Len(c.done) : c.done[i].what = "ready"
         \/ /\ what = "ready" /\ c.socket = "connecting" /\ n.socket # "connecting"
            /\ n.timer = c.timer
  PROVE  LoopInv(n)
  <1> DEFINE f == [what |-> what, of |-> c.current, data |-> <<>>]
             d == c.done[1]
             e == c.done[2]
  <1>1. f \in Completion /\ f.what = what /\ f.of = c.current
    BY Zenon, NoticedIs
  <1>2. /\ n \in Connection /\ n.done = Append(c.done, f) /\ n.current = c.current /\ n.op = c.op
        /\ n.server = c.server /\ n.input = c.input
    BY DEF Noticed
  <1> HIDE DEF f
  <1>3. /\ Len(c.done) \in {0, 1, 2}
        /\ Len(c.done) = 0 => LoopEmpty(c) /\ (LoopOne(n, f) => LoopInv(n))
        /\ Len(c.done) = 1 => LoopOne(c, d) /\ (LoopTwo(n, d, f) => LoopInv(n))
        /\ Len(c.done) = 2 => LoopTwo(c, d, e)
    BY <1>1, <1>2, LoopGrows
  <1>4. /\ Len(c.done) \in {1, 2} => d \in Completion
        /\ Len(c.done) = 2 => e \in Completion
    <2>1. c.done \in Seq(Completion)
      BY DEF Connection
    <2> QED BY <2>1
  <1>5. ASSUME what = "ready", IsReady(c), n.socket = c.socket, n.timer = c.timer,
               \A i \in 1..Len(c.done) : c.done[i].what # "ready"
        PROVE  LoopInv(n)
    <2>1. /\ Len(c.done) \in {1, 2} => d.what # "ready"
          /\ Len(c.done) = 2 => e.what # "ready"
      BY <1>5
    <2>2. Len(c.done) # 2
      BY Zenon, <1>3, <1>4, <1>5, <2>1 DEF LoopTwo, Stepped, Completion, Steps, IsReady
    <2>3. CASE Len(c.done) = 0
      BY Zenon, <1>1, <1>2, <1>3, <1>5, <2>3 DEF LoopEmpty, LoopOne, Rests, Stepped, Steps, IsReady
    <2>4. CASE Len(c.done) = 1
      BY Zenon, <1>1, <1>2, <1>3, <1>4, <1>5, <2>1, <2>4
         DEF LoopOne, LoopTwo, Rests, Stepped, Steps, Timed, IsReady
    <2> QED BY <1>3, <2>2, <2>3, <2>4
  <1>6. ASSUME what = "timer", c.timer = "on", n.socket = c.socket, n.timer = "expired",
               \A i \in 1..Len(c.done) : c.done[i].what = "ready"
        PROVE  LoopInv(n)
    <2>1. /\ Len(c.done) \in {1, 2} => d.what = "ready"
          /\ Len(c.done) = 2 => e.what = "ready"
      BY <1>6
    <2>2. Len(c.done) # 2
      BY Zenon, <1>2, <1>3, <1>4, <1>6, <2>1 DEF LoopTwo, Stepped, Steps, Rests, Connection
    <2>5. c.op \in {"none", "connect", "receive"}
      BY Zenon, ConnectionFields
    <2>3. CASE Len(c.done) = 0
      BY Zenon, <1>1, <1>2, <1>3, <1>6, <2>3, <2>5 DEF LoopEmpty, LoopOne, Rests, Stepped, Steps, Timed
    <2>4. CASE Len(c.done) = 1
      BY Zenon, <1>1, <1>2, <1>3, <1>4, <1>6, <2>1, <2>4, <2>5
         DEF LoopOne, LoopTwo, Rests, Stepped, Steps, Timed
    <2> QED BY <1>3, <2>2, <2>3, <2>4
  <1>7. ASSUME what = "ready", c.socket = "connecting", n.socket # "connecting", n.timer = c.timer
        PROVE  LoopInv(n)
    <2>2. Len(c.done) # 2
      BY Zenon, <1>3, <1>7 DEF LoopTwo, Rests
    <2>3. CASE Len(c.done) = 0
      BY Zenon, <1>1, <1>2, <1>3, <1>7, <2>3 DEF LoopEmpty, LoopOne, Rests, Stepped, Steps
    <2>4. CASE Len(c.done) = 1
      BY Zenon, <1>1, <1>2, <1>3, <1>4, <1>7, <2>4
         DEF LoopOne, LoopTwo, Rests, Stepped, Steps, Timed
    <2> QED BY <1>3, <2>2, <2>3, <2>4
  <1> QED BY <1>5, <1>6, <1>7

\* A connection that the peer closes loses what was under way.
LEMMA LoopCloses ==
  ASSUME NEW c, NEW n, LoopInv(c), c.socket = "connected", n.socket = "broken",
         n.done = c.done, n.op = c.op, n.timer = c.timer, n.current = c.current,
         n.input = <<>>, n.server = <<>>
  PROVE  LoopInv(n)
  BY DEF LoopInv

-----------------------------------------------------------------------------
(* The answers of a peer. *)

LEMMA FlowAdvances ==
  ASSUME NEW c, NEW n, NEW data \in Seq(Piece), NEW rest \in Seq(Piece), NEW lacking, c.parsed \in Nat,
         Flow(c, data \o rest, lacking), n.current = c.current, n.server = c.server,
         n.parsed = c.parsed + Len(data)
  PROVE  Flow(n, rest, lacking)
  <1> DEFINE all == data \o rest
             k == Len(data)
  <1>1. k \in Nat /\ Len(rest) \in Nat /\ Len(all) = k + Len(rest)
        /\ \A j \in 1..Len(rest) : k + j \in 1..Len(all) /\ all[k + j] = rest[j]
    BY ConcatProperties
  <1>2. \A j \in 1..Len(all) :
           /\ all[j].request = c.current
           /\ all[j].part = c.parsed + j
           /\ c.parsed + j = Parts /\ all[j].result = "ok" => c.current \notin lacking
    BY Zenon DEF Flow
  <1>3. c.server # <<>> => c.server = <<<<c.current, c.parsed + Len(all) + 1>>>>
    BY DEF Flow
  <1> HIDE DEF all, k
  <1>4. c.parsed + Len(all) + 1 = n.parsed + Len(rest) + 1
    BY <1>1 DEF k
  <1>5. ASSUME NEW j \in 1..Len(rest)
        PROVE  /\ rest[j].request = n.current
               /\ rest[j].part = n.parsed + j
               /\ n.parsed + j = Parts /\ rest[j].result = "ok" => n.current \notin lacking
    <2>1. k + j \in 1..Len(all) /\ all[k + j] = rest[j] /\ c.parsed + (k + j) = n.parsed + j
      BY <1>1 DEF k
    <2> QED BY <1>2, <2>1
  <1>6. n.server # <<>> => n.server = <<<<n.current, n.parsed + Len(rest) + 1>>>>
    BY <1>3, <1>4
  <1> QED BY Zenon, <1>5, <1>6 DEF Flow

\* A prefix of what arrives is in order, too.
LEMMA FlowIsOrdered ==
  ASSUME NEW c \in Connection, NEW data \in Seq(Piece), NEW rest \in Seq(Piece), NEW lacking,
         Flow(c, data \o rest, lacking)
  PROVE  ~Garbled(c, data)
  <1>1. \A j \in 1..Len(data) : j \in 1..Len(data \o rest) /\ (data \o rest)[j] = data[j]
    BY ConcatProperties
  <1>2. DOMAIN data = 1..Len(data)
    OBVIOUS
  <1>3. \A j \in 1..Len(data) : data[j].part = c.parsed + j
    BY <1>1 DEF Flow
  <1> QED BY <1>2, <1>3 DEF Garbled

\* When a response is complete there is nothing behind it, and the peer has sent it all.
LEMMA FlowIsComplete ==
  ASSUME NEW c \in Connection, NEW data \in Seq(Piece), NEW rest \in Seq(Piece), NEW lacking,
         Flow(c, data \o rest, lacking), c.parsed + Len(data) >= Parts
  PROVE  /\ rest = <<>> /\ c.server = <<>>
         /\ data[Parts - c.parsed].result \in {"ok", "error"}
         /\ data[Parts - c.parsed].result = "ok" => c.current \notin lacking
  <1> DEFINE all == data \o rest
             k == Len(data)
             p == c.parsed
  <1>1. k \in Nat /\ Len(rest) \in Nat /\ Len(all) = k + Len(rest) /\ all \in Seq(Piece)
        /\ \A j \in 1..k : all[j] = data[j]
    BY ConcatProperties
  <1>2. p \in 0..(Parts - 1) /\ c.server \in Seq(Request \X (1..Parts)) /\ Parts \in Nat
    BY HttpAssumption DEF Connection
  <1>3. \A j \in 1..Len(all) :
           /\ all[j].part = p + j
           /\ p + j = Parts /\ all[j].result = "ok" => c.current \notin lacking
    BY DEF Flow
  <1>4. c.server # <<>> => c.server = <<<<c.current, p + Len(all) + 1>>>>
    BY DEF Flow
  <1> HIDE DEF all
  <1>5. \A j \in 1..Len(all) : all[j] \in Piece
    BY <1>1
  <1>6. \A j \in 1..Len(all) : all[j].part \in 1..Parts /\ all[j].result \in {"ok", "error"}
    BY <1>5 DEF Piece
  <1> HIDE DEF k, p
  <1>7. p + k >= Parts
    BY DEF k, p
  <1>8. k = Parts - p /\ Len(rest) = 0 /\ Len(all) = k
    <2>1. CASE Len(all) = 0
      BY <2>1, <1>1, <1>2, <1>7
    <2>2. CASE Len(all) > 0
      <3>1. Len(all) \in 1..Len(all) /\ Len(all) \in Nat
        BY <1>1, <2>2
      <3>2. p + Len(all) <= Parts
        <4> DEFINE m == Len(all)
        <4>1. m \in 1..Len(all) /\ m \in Nat
          BY <3>1
        <4> HIDE DEF m
        <4>2. all[m].part = p + m /\ all[m].part \in 1..Parts
          BY <1>3, <1>6, <4>1
        <4>3. p + m <= Parts
          BY <4>2, <4>1, <1>2
        <4> QED BY <4>3 DEF m
      <3> QED BY <3>2, <1>1, <1>2, <1>7
    <2> QED BY <1>1, <2>1, <2>2
  <1>9. rest = <<>>
    <2>1. Len(rest) = 0
      BY <1>8
    <2> QED BY <2>1, EmptySeq
  <1>10. c.server = <<>>
    <2> SUFFICES ASSUME c.server # <<>> PROVE FALSE
      OBVIOUS
    <2>1. c.server = <<<<c.current, Parts + 1>>>>
      BY <1>4, <1>8, <1>2, <1>1
    <2>2. c.server[1] \in Request \X (1..Parts)
      BY <1>2, <2>1
    <2>3. c.server[1][2] = Parts + 1
      BY <2>1
    <2>4. c.server[1][2] \in 1..Parts
      BY <2>2
    <2> QED BY <2>3, <2>4, <1>2
  <1>11. Parts - p \in 1..Len(all) /\ data[Parts - p] = all[Parts - p] /\ p + (Parts - p) = Parts
    BY <1>1, <1>2, <1>8
  <1>12. /\ data[Parts - p].result \in {"ok", "error"}
         /\ data[Parts - p].result = "ok" => c.current \notin lacking
    BY <1>3, <1>6, <1>11
  <1> QED BY <1>9, <1>10, <1>12 DEF p

\* What comes last in the queue of the event loop.
LEMMA LastIs ==
  ASSUME NEW n, NEW d \in Seq(Completion), NEW f \in Completion, n.done = Append(d, f)
  PROVE  /\ LastStep(n) = f.what
         /\ Arriving(n) = IF f.what = "received" THEN f.data \o n.input ELSE n.input
  <1>1. n.done # <<>> /\ n.done[Len(n.done)] = f
    BY AppendProperties
  <1> QED BY <1>1 DEF LastStep, Arriving

LEMMA LastOfNone ==
  ASSUME NEW n, n.done = <<>>
  PROVE  LastStep(n) = "none" /\ Arriving(n) = n.input
  BY DEF LastStep, Arriving

\* What is left in the queue of the event loop when its head is run.
Leaves(c, x) ==
    \/ /\ What(c) \in Steps /\ x.done = <<>> /\ LastStep(c) = What(c) /\ c.op = "none"
       /\ Arriving(c) = IF What(c) = "received" THEN Head(c.done).data \o c.input ELSE c.input
    \/ /\ What(c) = "ready" /\ x.done = <<>> /\ LastStep(c) = "ready" /\ Arriving(c) = c.input
    \/ /\ What(c) = "ready" /\ c.op # "receive" /\ LastStep(x) = LastStep(c)
       /\ (x.input = c.input => Arriving(x) = Arriving(c))
       /\ c.op # "none" => LastStep(c) = "ready" /\ Arriving(c) = c.input

LEMMA TurnLeaves ==
  ASSUME NEW c \in Connection, NEW x \in Connection, c.done # <<>>, LoopInv(c), Follows(c, x),
         \A i \in 1..Len(c.done) : c.done[i].what # "timer"
  PROVE  Leaves(c, x)
  <1> DEFINE d == c.done[1]
             e == c.done[2]
  <1>1. /\ Len(c.done) \in {1, 2} /\ Len(x.done) = Len(c.done) - 1
        /\ Len(c.done) = 2 => x.done[1] = e
        /\ What(c) = d.what
    BY TurnQueue DEF LoopInv
  <1>2. /\ Len(c.done) = 1 => LoopOne(c, d)
        /\ Len(c.done) = 2 => LoopTwo(c, d, e)
    BY LoopUnrolled
  <1>3. d \in Completion /\ (Len(c.done) = 2 => e \in Completion)
    BY <1>1 DEF Connection
  <1>4. d.what # "timer" /\ (Len(c.done) = 2 => e.what # "timer")
    BY <1>1
  <1>5. d.what \in Steps \cup {"ready"} /\ (Len(c.done) = 2 => e.what \in Steps \cup {"ready"})
    BY <1>3, <1>4 DEF Completion, Steps
  <1>6. c.done \in Seq(Completion) /\ x.done \in Seq(Completion)
    BY DEF Connection
  <1>7. Head(c.done) = d
    BY <1>1, <1>6
  <1> HIDE DEF d, e
  <1>8. CASE Len(c.done) = 1
    <2>1. x.done = <<>>
      <3>1. Len(x.done) = 0
        BY <1>1, <1>8
      <3> QED BY <3>1, <1>6, EmptySeq
    <2>2. c.done[Len(c.done)] = d
      BY <1>8 DEF d
    <2>3. LastStep(c) = d.what
      BY <2>2 DEF LastStep
    <2>4. Arriving(c) = IF d.what = "received" THEN d.data \o c.input ELSE c.input
      BY <2>2, <2>3 DEF Arriving
    <2>5. d.what \in Steps => c.op = "none"
      BY <1>2, <1>8 DEF LoopOne, Stepped
    <2> QED BY Zenon, <1>1, <1>5, <1>7, <2>1, <2>3, <2>4, <2>5 DEF Leaves, Steps
  <1>9. CASE Len(c.done) = 2
    <2>1. c.done[Len(c.done)] = e /\ x.done[Len(x.done)] = e /\ x.done # <<>>
      BY <1>1, <1>9 DEF e
    <2>2. LastStep(c) = e.what /\ LastStep(x) = e.what
      BY <2>1 DEF LastStep
    <2>3. x.input = c.input => Arriving(x) = Arriving(c)
      BY <2>1, <2>2 DEF Arriving
    <2>4. d.what = "ready" /\ c.op # "receive" /\ (c.op # "none" => e.what = "ready")
      BY <1>2, <1>5, <1>9 DEF LoopTwo, Stepped, Steps
    <2>5. e.what = "ready" => Arriving(c) = c.input
      BY <2>2 DEF Arriving
    <2> QED BY <1>1, <2>2, <2>3, <2>4, <2>5 DEF Leaves
  <1> QED BY <1>1, <1>8, <1>9

\* Nothing is left on the way when the transaction ends; one that ends well has been applied.
LEMMA StreamEnds ==
  ASSUME NEW c \in Connection, NEW x \in Connection, NEW result, NEW lacking,
         c.done # <<>>, LoopInv(c), StreamInv(c, lacking), Follows(c, x), Leaves(c, x),
         Ends(c, x, result)
  PROVE  /\ x.server = <<>> /\ x.input = <<>> /\ LastStep(x) \notin Steps
         /\ result = "ok" => c.current \notin lacking
  <1>1. x.server = c.server /\ x.socket = c.socket
    BY DEF Follows
  <1>2. c.socket # "connected" => c.server = <<>> /\ c.input = <<>>
    BY DEF LoopInv
  <1>3. x.input = IF What(c) = "ready" /\ c.op = "receive" THEN <<>> ELSE c.input
    BY DEF Ends
  <1>4. What(c) # "timer"
    BY Zenon DEF Leaves, Steps
  <1>5. ASSUME result = "failed", c.socket # "connected"
        PROVE  x.server = <<>> /\ x.input = <<>> /\ result # "ok"
    BY <1>1, <1>2, <1>3, <1>5
  <1>6. ASSUME NEW data \in Seq(Piece), Fed(c, data),
               \/ Garbled(c, data) /\ result = "failed"
               \/ /\ ~Garbled(c, data) /\ c.parsed + Len(data) >= Parts
                  /\ result = data[Parts - c.parsed].result
        PROVE  /\ x.server = <<>> /\ x.input = <<>>
               /\ result = "ok" => c.current \notin lacking
    <2> DEFINE rest == IF What(c) = "received" THEN c.input ELSE <<>>
    <2>1. rest \in Seq(Piece) /\ c.input \in Seq(Piece)
      BY EmptyFields DEF Pieces, Connection
    <2>2. Arriving(c) = data \o rest
      <3>1. CASE What(c) = "received" /\ data = Head(c.done).data
        BY Zenon, <3>1 DEF Leaves, Steps
      <3>2. CASE What(c) = "ready" /\ c.op = "receive" /\ data = c.input
        <4>1. Arriving(c) = c.input
          BY <3>2 DEF Leaves, Steps
        <4>2. data \o <<>> = data
          OBVIOUS
        <4> QED BY <3>2, <4>1, <4>2
      <3> QED BY <1>6, <3>1, <3>2 DEF Fed
    <2>3. Flow(c, data \o rest, lacking)
      BY <2>2 DEF StreamInv
    <2> HIDE DEF rest
    <2>4. ~Garbled(c, data)
      BY <2>1, <2>3, FlowIsOrdered
    <2>5. c.parsed + Len(data) >= Parts /\ result = data[Parts - c.parsed].result
      BY <1>6, <2>4
    <2>6. /\ rest = <<>> /\ c.server = <<>>
          /\ data[Parts - c.parsed].result = "ok" => c.current \notin lacking
      BY <2>1, <2>3, <2>5, FlowIsComplete
    <2>7. x.input = <<>>
      BY SMTT(30), <1>3, <1>6, <2>6 DEF rest, Fed
    <2> QED BY <1>1, <2>5, <2>6, <2>7
  <1>7. /\ x.server = <<>> /\ x.input = <<>>
        /\ result = "ok" => c.current \notin lacking
    <2>1. ASSUME result = "failed",
                 \/ What(c) = "ready" /\ c.op = "connect" /\ c.socket \notin {"connecting", "connected"}
                 \/ What(c) = "ready" /\ c.op = "receive" /\ c.input = <<>> /\ c.socket # "connected"
                 \/ What(c) \in {"unsent", "lost"}
                 \/ What(c) = "timer" /\ c.timer # "off"
          PROVE  c.socket # "connected"
      <3>1. What(c) \in {"unsent", "lost"} => LastStep(c) = What(c)
        BY Zenon DEF Leaves, Steps
      <3> QED BY <1>4, <2>1, <3>1 DEF StreamInv
    <2> QED BY SMTT(30), <1>5, <1>6, <2>1 DEF Ends
  <1>8. LastStep(x) \notin Steps
    <2>1. x.done = <<>> => LastStep(x) \notin Steps
      BY DEF LastStep, Steps
    <2>2. What(c) = "ready" => c.op # "none"
      BY DEF Ends, Fed
    <2> QED BY Zenon, <2>1, <2>2 DEF Leaves, Steps
  <1> QED BY <1>7, <1>8

LEMMA FlowSame ==
  ASSUME NEW c, NEW n, NEW arriving, NEW lacking, Flow(c, arriving, lacking),
         n.current = c.current, n.parsed = c.parsed, n.server = c.server
  PROVE  Flow(n, arriving, lacking)
  BY DEF Flow

LEMMA FlowOfNone ==
  ASSUME NEW n, NEW lacking, n.server = <<>>
  PROVE  Flow(n, <<>>, lacking)
  BY DEF Flow

\* A turn of the event loop queues no timer.
LEMMA NoTimerLeft ==
  ASSUME NEW c \in Connection, c.done # <<>>, \A i \in 1..Len(c.done) : c.done[i].what # "timer"
  PROVE  /\ \A i \in 1..Len(Tail(c.done)) : Tail(c.done)[i].what # "timer"
         /\ \A f \in Completion : f.what # "timer" =>
               \A i \in 1..Len(Append(Tail(c.done), f)) : Append(Tail(c.done), f)[i].what # "timer"
  <1> DEFINE t == Tail(c.done)
  <1>1. c.done \in Seq(Completion)
    BY DEF Connection
  <1>2. t \in Seq(Completion) /\ Len(t) = Len(c.done) - 1 /\ \A i \in 1..Len(t) : t[i] = c.done[i + 1]
    BY <1>1, HeadTailProperties
  <1>3. \A i \in 1..Len(t) : i + 1 \in 1..Len(c.done)
    BY <1>1, <1>2
  <1> HIDE DEF t
  <1>4. \A i \in 1..Len(t) : t[i].what # "timer"
    BY <1>2, <1>3
  <1>5. ASSUME NEW f \in Completion, f.what # "timer", NEW i \in 1..Len(Append(t, f))
        PROVE  Append(t, f)[i].what # "timer"
    <2>1. Len(Append(t, f)) = Len(t) + 1 /\ Append(t, f)[Len(t) + 1] = f
          /\ \A j \in 1..Len(t) : Append(t, f)[j] = t[j]
      BY <1>2, AppendProperties
    <2>2. i = Len(t) + 1 \/ i \in 1..Len(t)
      BY <1>2, <2>1
    <2> QED BY <1>4, <1>5, <2>1, <2>2
  <1> QED BY <1>4, <1>5 DEF t

LEMMA StreamTurn ==
  ASSUME NEW c \in Connection, Runnable(c), NEW x \in Connection, Follows(c, x),
         NEW n, NEW ends, NEW result, NEW lacking, Turn(c, x, n, ends, result), LoopInv(c),
         StreamInv(c, lacking)
  PROVE  /\ StreamInv(n, lacking)
         /\ ends # NoRequest /\ result = "ok" => c.current \notin lacking
  <1>1. c.done # <<>> /\ \A i \in 1..Len(c.done) : c.done[i].what # "timer"
    BY Zenon DEF Runnable, StreamInv
  <1>2. Leaves(c, x)
    BY Zenon, <1>1, TurnLeaves
  <1>3. /\ x.done = Tail(c.done) /\ x.done \in Seq(Completion)
        /\ x.socket = c.socket /\ x.current = c.current /\ x.queue = c.queue /\ x.server = c.server
    BY Zenon DEF Follows, Connection
  <1>4. /\ \A i \in 1..Len(x.done) : x.done[i].what # "timer"
        /\ \A f \in Completion : f.what # "timer" =>
              \A i \in 1..Len(Append(x.done, f)) : Append(x.done, f)[i].what # "timer"
    BY <1>1, <1>3, NoTimerLeft
  <1>5. /\ c.current = NoRequest \/ c.op = "connect" \/ LastStep(c) = "connected" =>
             c.server = <<>> /\ c.input = <<>> /\ c.parsed = 0
        /\ LastStep(c) \in {"unsent", "lost"} => c.socket # "connected"
        /\ Flow(c, Arriving(c), lacking)
    BY DEF StreamInv
  <1>6. c.parsed \in Nat /\ c.input \in Seq(Piece) /\ c.current \in Request \cup {NoRequest}
    BY HttpAssumption DEF Connection
  <1>7. c.socket # "connected" => c.server = <<>> /\ c.input = <<>>
    BY DEF LoopInv
  <1>8. \A what \in {"connected", "sent", "unsent", "received", "lost"} : \A data \in Seq(Piece) :
           LET f == [what |-> what, of |-> c.current, data |-> data] IN
           f \in Completion /\ f.what = what /\ f.data = data
    BY Zenon, <1>6, NoticeIs
  <1>9. <<>> \in Seq(Piece)
    BY EmptyFields DEF Pieces
  <1>10. ASSUME Skips(c, x), n = x, ends = NoRequest
         PROVE  StreamInv(n, lacking)
    <2>1. What(c) = "ready" /\ x.op = c.op /\ x.parsed = c.parsed /\ x.input = c.input
      BY Zenon, <1>2, <1>10 DEF Skips, Leaves, Steps
    <2>2. Arriving(x) = Arriving(c) /\ LastStep(x) \in {"none", LastStep(c)}
      BY Zenon, <1>2, <2>1, LastOfNone DEF Leaves, Steps
    <2>3. Flow(x, Arriving(x), lacking)
      BY Zenon, <1>3, <1>5, <2>1, <2>2, FlowSame
    <2>4. LastStep(x) \in {"connected", "unsent", "lost"} => LastStep(x) = LastStep(c)
      BY <2>2
    <2> QED BY Zenon, <1>3, <1>4, <1>5, <1>10, <2>1, <2>3, <2>4 DEF StreamInv
  <1>11. ASSUME Sends(c, x), Sent(x, n), ends = NoRequest, c.current # NoRequest
         PROVE  StreamInv(n, lacking)
    <2>1. c.server = <<>> /\ c.input = <<>> /\ c.parsed = 0 /\ x.op = "none"
          /\ x.parsed = c.parsed /\ x.input = c.input
      BY Zenon, <1>2, <1>5, <1>11 DEF Sends, Leaves, Steps
    <2>2. /\ n.socket = x.socket /\ n.current = c.current /\ n.op = "none" /\ n.parsed = 0
          /\ n.input = <<>>
      BY Zenon, <1>3, <1>11, <2>1 DEF Sent
    <2>3. ASSUME NEW what \in {"sent", "unsent"}, what = "unsent" => n.socket # "connected",
                 n.done = Append(x.done, [what |-> what, of |-> c.current, data |-> <<>>]),
                 n.server # <<>> => n.server = <<<<c.current, 1>>>>
          PROVE  StreamInv(n, lacking)
      <3> DEFINE f == [what |-> what, of |-> c.current, data |-> <<>>]
      <3>1. f \in Completion /\ f.what = what
        BY Zenon, <1>8, <1>9
      <3>2. n.done = Append(x.done, f)
        BY Zenon, <2>3
      <3> HIDE DEF f
      <3>3. LastStep(n) = what /\ Arriving(n) = <<>>
        BY Zenon, <1>3, <2>2, <3>1, <3>2, LastIs
      <3>4. Flow(n, <<>>, lacking)
        BY <2>2, <2>3 DEF Flow
      <3>5. \A i \in 1..Len(n.done) : n.done[i].what # "timer"
        BY <1>4, <3>1, <3>2
      <3> QED BY Zenon, <1>11, <2>2, <2>3, <3>3, <3>4, <3>5 DEF StreamInv
    <2>4. Append(<<>>, <<c.current, 1>>) = <<<<c.current, 1>>>>
      OBVIOUS
    <2>5. \/ /\ x.socket = "connected" /\ n.server = Append(x.server, <<x.current, 1>>)
             /\ n.done = Append(x.done, [what |-> "sent", of |-> x.current, data |-> <<>>])
          \/ /\ x.socket # "connected" /\ n.server = x.server
             /\ n.done = Append(x.done, [what |-> "unsent", of |-> x.current, data |-> <<>>])
      BY <1>11 DEF Sent
    <2> QED BY Zenon, <1>3, <2>1, <2>2, <2>3, <2>4, <2>5
  <1>12. ASSUME Reads(c, x), Awaited(x, n), ends = NoRequest, c.current # NoRequest
         PROVE  StreamInv(n, lacking)
    <2>1. x.done = <<>> /\ (What(c) = "ready" => c.op = "receive") /\ x.op = "none"
      BY Zenon, <1>2, <1>12 DEF Reads, Fed, Leaves, Steps
    <2>2. Flow(x, x.input, lacking) /\ x.input \in Seq(Piece)
      <3>1. CASE What(c) = "sent" /\ x.parsed = c.parsed
        <4>1. Arriving(c) = c.input /\ x.input = c.input
          BY Zenon, <1>2, <1>12, <3>1 DEF Leaves, Steps, Reads
        <4> QED BY Zenon, <1>3, <1>5, <1>6, <3>1, <4>1, FlowSame
      <3>2. ASSUME NEW data \in Seq(Piece), Fed(c, data), x.parsed = c.parsed + Len(data)
            PROVE  Flow(x, x.input, lacking) /\ x.input \in Seq(Piece)
        <4>1. Arriving(c) = data \o x.input /\ x.input \in Seq(Piece)
          <5>1. CASE What(c) = "received" /\ data = Head(c.done).data
            BY Zenon, <1>2, <1>6, <1>12, <5>1 DEF Leaves, Steps, Reads
          <5>2. CASE What(c) = "ready" /\ c.op = "receive" /\ data = c.input
            <6>1. Arriving(c) = c.input /\ x.input = <<>>
              BY Zenon, <1>2, <1>12, <5>2 DEF Leaves, Steps, Reads
            <6>2. data \o <<>> = data
              OBVIOUS
            <6> QED BY Zenon, <1>9, <5>2, <6>1, <6>2
          <5> QED BY <3>2, <5>1, <5>2 DEF Fed
        <4>2. Flow(c, data \o x.input, lacking)
          BY Zenon, <1>5, <4>1
        <4> QED BY Zenon, <1>3, <1>6, <3>2, <4>1, <4>2, FlowAdvances
      <3> QED BY Zenon, <1>12, <3>1, <3>2 DEF Reads
    <2>3. /\ n.socket = c.socket /\ n.current = c.current /\ n.parsed = x.parsed
          /\ n.server = c.server /\ n.input = <<>> /\ n.op # "connect"
      BY Zenon, <1>3, <1>12, <2>1 DEF Awaited
    <2>4. Flow(n, x.input, lacking)
      BY <1>3, <2>2, <2>3, FlowSame
    <2>5. ASSUME NEW what \in {"received", "lost"}, NEW data \in Seq(Piece),
                 n.done = Append(x.done, [what |-> what, of |-> c.current, data |-> data]),
                 what = "lost" => n.socket # "connected",
                 x.input = IF what = "received" THEN data ELSE <<>>
          PROVE  StreamInv(n, lacking)
      <3> DEFINE f == [what |-> what, of |-> c.current, data |-> data]
      <3>1. f \in Completion /\ f.what = what /\ f.data = data
        BY <1>8
      <3>2. n.done = Append(x.done, f)
        BY <2>5
      <3> HIDE DEF f
      <3>3. LastStep(n) = what /\ Arriving(n) = IF what = "received" THEN data \o n.input ELSE n.input
        BY Zenon, <1>3, <3>1, <3>2, LastIs
      <3>4. data \o <<>> = data
        OBVIOUS
      <3>5. Arriving(n) = x.input
        BY SMTT(30), <2>3, <2>5, <3>3, <3>4
      <3>6. \A i \in 1..Len(n.done) : n.done[i].what # "timer"
        BY <1>4, <3>1, <3>2
      <3> QED BY Zenon, <1>12, <2>3, <2>4, <2>5, <3>3, <3>5, <3>6 DEF StreamInv
    <2>6. ASSUME n.done = <<>>, x.input = <<>>
          PROVE  StreamInv(n, lacking)
      <3>1. LastStep(n) = "none" /\ Arriving(n) = n.input
        BY Zenon, <2>6, LastOfNone
      <3>2. \A i \in 1..Len(n.done) : n.done[i].what # "timer"
        BY <2>6
      <3> QED BY Zenon, <1>12, <2>3, <2>4, <2>6, <3>1, <3>2 DEF StreamInv
    <2>7. \/ n.done = Append(x.done, [what |-> "received", of |-> x.current, data |-> x.input])
          \/ /\ x.input = <<>> /\ x.socket # "connected"
             /\ n.done = Append(x.done, [what |-> "lost", of |-> x.current, data |-> <<>>])
          \/ x.input = <<>> /\ n.done = x.done
      BY <1>12 DEF Awaited
    <2>8. CASE n.done = Append(x.done, [what |-> "received", of |-> x.current, data |-> x.input])
      BY Zenon, <1>3, <2>2, <2>5, <2>8
    <2>9. CASE /\ x.input = <<>> /\ x.socket # "connected"
               /\ n.done = Append(x.done, [what |-> "lost", of |-> x.current, data |-> <<>>])
      BY Zenon, <1>3, <1>9, <2>3, <2>5, <2>9
    <2> QED BY <2>1, <2>6, <2>7, <2>8, <2>9
  <1>13. ASSUME Ends(c, x, result), Ended(x, n), ends = c.current, c.current # NoRequest
         PROVE  /\ StreamInv(n, lacking)
                /\ result = "ok" => c.current \notin lacking
    <2>1. /\ x.server = <<>> /\ x.input = <<>> /\ LastStep(x) \notin Steps
          /\ result = "ok" => c.current \notin lacking
      BY Zenon, <1>1, <1>2, <1>13, StreamEnds
    <2>2. n.server = <<>> /\ n.input = <<>> /\ n.parsed = 0
      BY <1>13, <2>1 DEF Ended
    <2>3. Flow(n, <<>>, lacking)
      BY <2>2, FlowOfNone
    <2>4. ASSUME n.done = x.done PROVE StreamInv(n, lacking)
      <3>1. LastStep(n) \notin Steps /\ Arriving(n) = n.input
        BY <2>1, <2>4 DEF LastStep, Arriving, Steps
      <3> QED BY Zenon, <1>4, <2>2, <2>3, <2>4, <3>1 DEF StreamInv, Steps
    <2>5. ASSUME NEW r \in Request,
                 n.done = Append(x.done, [what |-> "connected", of |-> r, data |-> <<>>])
          PROVE  StreamInv(n, lacking)
      <3> DEFINE f == [what |-> "connected", of |-> r, data |-> <<>>]
      <3>1. f \in Completion /\ f.what = "connected"
        BY Zenon, <1>9, NoticeIs
      <3>2. n.done = Append(x.done, f)
        BY <2>5
      <3> HIDE DEF f
      <3>3. LastStep(n) = "connected" /\ Arriving(n) = n.input
        BY Zenon, <1>3, <3>1, <3>2, LastIs
      <3>4. \A i \in 1..Len(n.done) : n.done[i].what # "timer"
        BY Zenon, <1>4, <3>1, <3>2
      <3> QED BY <2>2, <2>3, <3>3, <3>4 DEF StreamInv
    <2>6. x.queue # <<>> => Head(x.queue) \in Request
      <3>1. x.queue \in Seq(Request)
        BY DEF Connection
      <3> QED BY <3>1
    <2>7. \/ n.done = x.done
          \/ x.queue # <<>>
             /\ n.done = Append(x.done, [what |-> "connected", of |-> Head(x.queue), data |-> <<>>])
      BY Zenon, <1>13 DEF Ended
    <2> QED BY <2>1, <2>4, <2>5, <2>6, <2>7
  <1> QED BY <1>10, <1>11, <1>12, <1>13 DEF Turn

\* New updates do not concern what is on the way.
LEMMA StreamGrows ==
  ASSUME NEW c, NEW lacking, NEW new, StreamInv(c, lacking), c.current \notin new
  PROVE  StreamInv(c, lacking \cup new)
  BY DEF StreamInv, Flow

\* A request that is queued waits, or finds nothing on the way.
LEMMA StreamQueues ==
  ASSUME NEW c \in Connection, NEW requests \in Seq(Request), NEW n, NEW lacking,
         Enqueued(c, requests, n), LoopInv(c), StreamInv(c, lacking)
  PROVE  StreamInv(n, lacking)
  <1>1. CASE requests = <<>> /\ n = c
    BY <1>1
  <1>2. ASSUME n.current = c.current, n.op = c.op, n.done = c.done, n.socket = c.socket,
               n.server = c.server, n.input = c.input, n.parsed = c.parsed
        PROVE  StreamInv(n, lacking)
    <2>1. LastStep(n) = LastStep(c) /\ Arriving(n) = Arriving(c)
      BY <1>2 DEF LastStep, Arriving
    <2>2. Flow(n, Arriving(n), lacking)
      BY Zenon, <1>2, <2>1, FlowSame DEF StreamInv
    <2> QED BY Zenon, <1>2, <2>1, <2>2 DEF StreamInv
  <1>3. ASSUME requests # <<>>, c.current = NoRequest, n.parsed = 0,
               n.server \in {<<>>, c.server}, n.input \in {<<>>, c.input},
               \/ n.done = c.done
               \/ n.done = Append(c.done, [what |-> "connected", of |-> Head(requests), data |-> <<>>])
        PROVE  StreamInv(n, lacking)
    <2>1. n.server = <<>> /\ n.input = <<>> /\ \A i \in 1..Len(c.done) : c.done[i].what # "timer"
      BY <1>3 DEF StreamInv
    <2>2. Flow(n, <<>>, lacking)
      BY <2>1, FlowOfNone
    <2>3. c.done \in Seq(Completion)
      BY DEF Connection
    <2>4. CASE n.done = c.done
      <3>1. LastStep(n) \notin Steps
        <4>1. CASE c.done = <<>>
          BY <2>4, <4>1 DEF LastStep, Steps
        <4>2. CASE c.done # <<>>
          <5>1. Len(c.done) \in 1..Len(c.done)
            BY <2>3, <4>2, EmptySeq
          <5>2. c.done[Len(c.done)].what \notin Steps
            BY Zenon, <1>3, <5>1 DEF LoopInv
          <5> QED BY <2>4, <4>2, <5>2 DEF LastStep
        <4> QED BY Zenon, <4>1, <4>2
      <3>2. Arriving(n) = n.input
        BY <3>1 DEF Arriving, Steps
      <3> QED BY Zenon, <1>3, <2>1, <2>2, <2>4, <3>1, <3>2 DEF StreamInv, Steps
    <2>5. CASE n.done = Append(c.done, [what |-> "connected", of |-> Head(requests), data |-> <<>>])
      <3> DEFINE f == [what |-> "connected", of |-> Head(requests), data |-> <<>>]
      <3>1. f \in Completion /\ f.what = "connected"
        <4>1. Head(requests) \in Request
          BY <1>3
        <4>2. <<>> \in Seq(Piece)
          BY EmptyFields DEF Pieces
        <4> QED BY Zenon, <4>1, <4>2, NoticeIs
      <3>2. n.done = Append(c.done, f)
        BY <2>5
      <3> HIDE DEF f
      <3>3. LastStep(n) = "connected" /\ Arriving(n) = n.input
        BY Zenon, <2>3, <3>1, <3>2, LastIs
      <3>4. Len(n.done) = Len(c.done) + 1 /\ n.done[Len(c.done) + 1] = f /\ Len(c.done) \in Nat
            /\ \A i \in 1..Len(c.done) : n.done[i] = c.done[i]
        BY <2>3, <3>1, <3>2, AppendProperties
      <3>5. ASSUME NEW i \in 1..Len(n.done) PROVE n.done[i].what # "timer"
        <4>1. i \in 1..Len(c.done) \/ i = Len(c.done) + 1
          BY <3>4
        <4> QED BY <2>1, <3>1, <3>4, <4>1
      <3> QED BY <1>3, <2>1, <2>2, <3>3, <3>5 DEF StreamInv
    <2> QED BY <1>3, <2>4, <2>5
  <1> QED BY Zenon, <1>1, <1>2, <1>3 DEF Enqueued

\* The socket gets ready.
LEMMA StreamNotices ==
  ASSUME NEW c \in Connection, NEW n, NEW lacking, Noticed(c, "ready", n), LoopInv(c),
         StreamInv(c, lacking), IsReady(c) \/ c.socket = "connecting"
  PROVE  StreamInv(n, lacking)
  <1> DEFINE f == [what |-> "ready", of |-> c.current, data |-> <<>>]
  <1>1. f \in Completion /\ f.what = "ready" /\ f.of = c.current
    BY Zenon, NoticedIs
  <1>2. /\ n.done = Append(c.done, f) /\ n.current = c.current /\ n.op = c.op /\ n.parsed = c.parsed
        /\ n.server = c.server /\ n.input = c.input
    BY DEF Noticed
  <1> HIDE DEF f
  <1>3. c.done \in Seq(Completion)
    BY DEF Connection
  <1>4. LastStep(n) = "ready" /\ Arriving(n) = n.input
    BY Zenon, <1>1, <1>2, <1>3, LastIs
  <1>5. LastStep(c) \notin Steps
    <2>1. CASE c.done = <<>>
      BY <2>1 DEF LastStep, Steps
    <2>2. CASE c.done # <<>>
      <3>1. Len(c.done) \in 1..Len(c.done)
        BY <1>3, <2>2, EmptySeq
      <3>2. c.op # "none"
        BY Zenon DEF IsReady, LoopInv
      <3>3. c.done[Len(c.done)].what \notin Steps
        BY <3>1, <3>2 DEF LoopInv
      <3> QED BY <2>2, <3>3 DEF LastStep
    <2> QED BY <2>1, <2>2
  <1>6. Arriving(n) = Arriving(c)
    BY <1>2, <1>4, <1>5 DEF Arriving, Steps
  <1>7. Flow(n, Arriving(n), lacking)
    BY Zenon, <1>2, <1>6, FlowSame DEF StreamInv
  <1>8. Len(n.done) = Len(c.done) + 1 /\ n.done[Len(c.done) + 1] = f /\ Len(c.done) \in Nat
        /\ \A i \in 1..Len(c.done) : n.done[i] = c.done[i]
    BY <1>1, <1>2, <1>3, AppendProperties
  <1>9. ASSUME NEW i \in 1..Len(n.done) PROVE n.done[i].what # "timer"
    <2>1. i \in 1..Len(c.done) \/ i = Len(c.done) + 1
      BY <1>8
    <2> QED BY <1>1, <1>8, <2>1 DEF StreamInv
  <1> QED BY <1>2, <1>4, <1>7, <1>9 DEF StreamInv

\* The peer closes the connection.
LEMMA StreamCloses ==
  ASSUME NEW c \in Connection, NEW n, NEW lacking, StreamInv(c, lacking),
         n.done = c.done, n.op = c.op, n.current = c.current, n.parsed = c.parsed,
         n.socket = "broken", n.input = <<>>, n.server = <<>>
  PROVE  StreamInv(n, lacking)
  <1>1. LastStep(n) = LastStep(c)
    BY DEF LastStep
  <1>2. Flow(n, Arriving(n), lacking)
    <2>1. CASE LastStep(c) = "received"
      <3> DEFINE data == c.done[Len(c.done)].data
      <3>1. c.done \in Seq(Completion) /\ c.input \in Seq(Piece)
        BY DEF Connection
      <3>2. c.done # <<>>
        BY <2>1 DEF LastStep
      <3>3. Len(c.done) \in 1..Len(c.done)
        BY <3>1, <3>2, EmptySeq
      <3>4. c.done[Len(c.done)] \in Completion
        BY <3>1, <3>3
      <3>5. data \in Seq(Piece)
        BY <3>4 DEF Completion
      <3>6. Arriving(c) = data \o c.input /\ Arriving(n) = data \o <<>>
        BY <1>1, <2>1 DEF Arriving
      <3> HIDE DEF data
      <3>7. data \o <<>> = data
        BY <3>5
      <3>8. \A j \in 1..Len(data) : j \in 1..Len(data \o c.input) /\ (data \o c.input)[j] = data[j]
        BY <3>1, <3>5, ConcatProperties
      <3>9. Flow(c, data \o c.input, lacking)
        BY <3>6 DEF StreamInv
      <3>10. Flow(n, data, lacking)
        BY <3>8, <3>9 DEF Flow
      <3> QED BY <3>6, <3>7, <3>10
    <2>2. CASE LastStep(c) # "received"
      BY <1>1, <2>2, FlowOfNone DEF Arriving
    <2> QED BY <2>1, <2>2
  <1> QED BY <1>1, <1>2 DEF StreamInv

\* The peer sends a piece of a response.
PieceOf(c, result) ==
    [request |-> Head(c.server)[1], part |-> Head(c.server)[2], result |-> result]

Served(c, n, result) ==
    /\ n \in Connection
    /\ n.input = Append(c.input, PieceOf(c, result))
    /\ n.server = IF Head(c.server)[2] = Parts
                  THEN Tail(c.server)
                  ELSE <<<<Head(c.server)[1], Head(c.server)[2] + 1>>>> \o Tail(c.server)
    /\ n.socket = c.socket /\ n.current = c.current /\ n.queue = c.queue /\ n.op = c.op
    /\ n.done = c.done /\ n.timer = c.timer /\ n.parsed = c.parsed

LEMMA ServeTypes ==
  ASSUME NEW c \in Connection, c.server # <<>>, NEW result \in {"ok", "error"}
  PROVE  /\ PieceOf(c, result) \in Piece
         /\ Append(c.input, PieceOf(c, result)) \in Pieces
         /\ Tail(c.server) \in Tosend
         /\ Head(c.server)[2] # Parts =>
               <<<<Head(c.server)[1], Head(c.server)[2] + 1>>>> \o Tail(c.server) \in Tosend
  <1> DEFINE h == Head(c.server)
  <1>1. c.server \in Seq(Request \X (1..Parts)) /\ c.input \in Seq(Piece)
    BY DEF Connection
  <1>2. h \in Request \X (1..Parts) /\ Tail(c.server) \in Seq(Request \X (1..Parts))
    BY <1>1
  <1>3. h[1] \in Request /\ h[2] \in 1..Parts /\ Parts \in Nat
    BY <1>2, HttpAssumption
  <1>4. PieceOf(c, result) \in Piece
    BY <1>3 DEF PieceOf, Piece
  <1>5. Append(c.input, PieceOf(c, result)) \in Pieces
    BY <1>1, <1>4 DEF Pieces
  <1> HIDE DEF h
  <1>6. h[2] # Parts => <<h[1], h[2] + 1>> \in Request \X (1..Parts)
    BY <1>3
  <1>7. h[2] # Parts => <<<<h[1], h[2] + 1>>>> \in Seq(Request \X (1..Parts))
    BY <1>6
  <1>8. h[2] # Parts => <<<<h[1], h[2] + 1>>>> \o Tail(c.server) \in Seq(Request \X (1..Parts))
    BY <1>2, <1>7, ConcatProperties
  <1> QED BY <1>2, <1>4, <1>5, <1>8 DEF h, Tosend

LEMMA StreamServes ==
  ASSUME NEW c \in Connection, NEW n, NEW result \in {"ok", "error"}, NEW lacking,
         c.server # <<>>, Served(c, n, result), StreamInv(c, lacking)
  PROVE  StreamInv(n, IF Head(c.server)[2] = Parts /\ result = "ok"
                      THEN lacking \ {Head(c.server)[1]} ELSE lacking)
  <1> DEFINE a == Arriving(c)
             k == Len(a)
             piece == PieceOf(c, result)
             less == IF Head(c.server)[2] = Parts /\ result = "ok"
                     THEN lacking \ {Head(c.server)[1]} ELSE lacking
  <1>1. /\ c.server = <<<<c.current, c.parsed + k + 1>>>>
        /\ \A j \in 1..k :
              /\ a[j].request = c.current
              /\ a[j].part = c.parsed + j
              /\ c.parsed + j = Parts /\ a[j].result = "ok" => c.current \notin lacking
    BY DEF StreamInv, Flow
  <1>2. /\ n.input = Append(c.input, piece) /\ n.current = c.current /\ n.op = c.op
        /\ n.done = c.done /\ n.parsed = c.parsed /\ n.socket = c.socket
        /\ n.server = IF Head(c.server)[2] = Parts
                      THEN Tail(c.server)
                      ELSE <<<<Head(c.server)[1], Head(c.server)[2] + 1>>>> \o Tail(c.server)
    BY DEF Served
  <1>3. LastStep(n) = LastStep(c)
    BY <1>2 DEF LastStep
  <1>4. a \in Seq(Piece) /\ Arriving(n) = Append(a, piece) /\ piece \in Piece
    <2>1. c.done \in Seq(Completion) /\ c.input \in Seq(Piece) /\ piece \in Piece
      BY Zenon, ServeTypes DEF Connection
    <2>2. CASE LastStep(c) = "received"
      <3> DEFINE data == c.done[Len(c.done)].data
      <3>2. c.done # <<>>
        BY <2>2 DEF LastStep
      <3>3. Len(c.done) \in 1..Len(c.done)
        BY <2>1, <3>2, EmptySeq
      <3>4. c.done[Len(c.done)] \in Completion
        BY <2>1, <3>3
      <3>5. data \in Seq(Piece)
        BY <3>4 DEF Completion
      <3>6. Arriving(c) = data \o c.input /\ Arriving(n) = data \o Append(c.input, piece)
        BY <1>2, <1>3, <2>2 DEF Arriving
      <3> HIDE DEF data, piece
      <3>7. data \o Append(c.input, piece) = Append(data \o c.input, piece)
        BY <2>1, <3>5
      <3>8. data \o c.input \in Seq(Piece)
        BY <2>1, <3>5
      <3> QED BY <2>1, <3>6, <3>7, <3>8
    <2>3. CASE LastStep(c) # "received"
      BY <1>2, <1>3, <2>1, <2>3 DEF Arriving
    <2> QED BY <2>2, <2>3
  <1>5. Head(c.server) = <<c.current, c.parsed + k + 1>> /\ Tail(c.server) = <<>>
    BY <1>1
  <1>6. /\ piece.request = c.current /\ piece.part = c.parsed + k + 1 /\ piece.result = result
    BY <1>5 DEF PieceOf
  <1>7. n.server = IF c.parsed + k + 1 = Parts THEN <<>> ELSE <<<<c.current, c.parsed + k + 2>>>>
    <2>1. c.parsed \in Nat /\ k \in Nat
      BY <1>4, HttpAssumption DEF Connection
    <2> DEFINE m == c.parsed + k + 1
    <2>2. m + 1 = c.parsed + k + 2
      BY <2>1
    <2>3. Head(c.server)[1] = c.current /\ Head(c.server)[2] = m
      BY <1>5
    <2> HIDE DEF m
    <2>4. <<<<c.current, m + 1>>>> \o <<>> = <<<<c.current, m + 1>>>>
      OBVIOUS
    <2>5. n.server = IF m = Parts THEN <<>> ELSE <<<<c.current, m + 1>>>>
      BY Zenon, <1>2, <1>5, <2>3, <2>4
    <2> QED BY <2>2, <2>5 DEF m
  <1>8. less \subseteq lacking /\ (c.parsed + k + 1 = Parts /\ result = "ok" => c.current \notin less)
    BY <1>5
  <1>9. c.current # NoRequest /\ c.op # "connect" /\ LastStep(c) # "connected"
    BY DEF StreamInv
  <1> HIDE DEF a, piece, less
  <1>10. Flow(n, Append(a, piece), less)
    <2>1. k \in Nat /\ c.parsed \in Nat /\ k = Len(a)
      BY <1>4, HttpAssumption DEF Connection
    <2>2. Len(Append(a, piece)) = k + 1 /\ Append(a, piece)[k + 1] = piece
          /\ \A j \in 1..k : Append(a, piece)[j] = a[j]
      BY <1>4, <2>1, AppendProperties
    <2> DEFINE all == Append(a, piece)
    <2> HIDE DEF all, k
    <2>3. n.server # <<>> => n.server = <<<<n.current, n.parsed + (k + 1) + 1>>>>
      <3>1. n.parsed + (k + 1) + 1 = c.parsed + k + 2
        <4> DEFINE m == c.parsed
        <4>1. n.parsed = m /\ m \in Nat /\ k \in Nat
          BY <1>2, <2>1
        <4> HIDE DEF m
        <4>2. m + (k + 1) + 1 = m + k + 2
          BY <4>1
        <4> QED BY <4>1, <4>2 DEF m
      <3> QED BY Zenon, <1>2, <1>7, <3>1
    <2>4. ASSUME NEW j \in 1..(k + 1)
          PROVE  /\ all[j].request = n.current
                 /\ all[j].part = n.parsed + j
                 /\ n.parsed + j = Parts /\ all[j].result = "ok" => n.current \notin less
      <3>1. CASE j \in 1..k
        <4>1. all[j] = a[j]
          BY <2>2, <3>1 DEF all
        <4> QED BY <1>1, <1>2, <1>8, <3>1, <4>1
      <3>2. CASE j = k + 1
        <4>1. all[j] = piece /\ c.parsed + j = c.parsed + k + 1
          BY <2>1, <2>2, <3>2 DEF all
        <4> QED BY <1>2, <1>6, <1>8, <4>1
      <3> QED BY <2>1, <3>1, <3>2
    <2>5. Len(all) = k + 1
      BY <2>2 DEF all
    <2>6. Flow(n, all, less)
      BY <2>3, <2>4, <2>5 DEF Flow
    <2> QED BY <2>6 DEF all
  <1>11. Flow(n, Arriving(n), less)
    BY <1>4, <1>10
  <1>12. StreamInv(n, less)
    BY <1>2, <1>3, <1>9, <1>11 DEF StreamInv
  <1> QED BY <1>12 DEF less

-----------------------------------------------------------------------------
(* The requests of a connection. *)

LEMMA TailOf ==
  ASSUME NEW S, NEW s \in Seq(S), s # <<>>
  PROVE  /\ Head(s) \in S /\ Tail(s) \in Seq(S)
         /\ \A r : r \in Range(s) <=> r = Head(s) \/ r \in Range(Tail(s))
         /\ IsInjective(s) => IsInjective(Tail(s)) /\ Head(s) \notin Range(Tail(s))
  <1> DEFINE t == Tail(s)
             k == Len(s)
  <1>1. /\ k \in Nat \ {0} /\ Head(s) = s[1] /\ Head(s) \in S
        /\ t \in Seq(S) /\ Len(t) = k - 1 /\ \A i \in 1..(k - 1) : t[i] = s[i + 1]
    BY HeadTailProperties
  <1>2. DOMAIN s = 1..k /\ DOMAIN t = 1..(k - 1)
    BY <1>1
  <1> HIDE DEF t, k
  <1>3. /\ \A i \in 1..(k - 1) : i + 1 \in 1..k /\ i + 1 # 1
        /\ 1 \in 1..k
        /\ \A i \in 1..k : i = 1 \/ (i - 1 \in 1..(k - 1) /\ (i - 1) + 1 = i)
    BY <1>1
  <1>4. ASSUME NEW r \in Range(s) PROVE r = Head(s) \/ r \in Range(t)
    <2>1. PICK i \in 1..k : r = s[i]
      BY <1>2, <1>4 DEF Range
    <2>2. CASE i - 1 \in 1..(k - 1) /\ (i - 1) + 1 = i
      <3>1. t[i - 1] = s[i]
        BY <1>1, <2>2
      <3> QED BY <1>2, <2>1, <2>2, <3>1 DEF Range
    <2> QED BY <1>1, <1>3, <2>1, <2>2
  <1>5. Head(s) \in Range(s)
    BY <1>1, <1>2, <1>3 DEF Range
  <1>6. ASSUME NEW r \in Range(t) PROVE r \in Range(s)
    <2>1. PICK i \in 1..(k - 1) : r = t[i]
      BY <1>2, <1>6 DEF Range
    <2>2. r = s[i + 1] /\ i + 1 \in 1..k
      BY <1>1, <1>3, <2>1
    <2> QED BY <1>2, <2>2 DEF Range
  <1>7. ASSUME IsInjective(s) PROVE IsInjective(t) /\ Head(s) \notin Range(t)
    <2>1. \A i, j \in 1..k : s[i] = s[j] => i = j
      BY <1>2, <1>7 DEF IsInjective
    <2>2. ASSUME NEW i \in 1..(k - 1), NEW j \in 1..(k - 1), t[i] = t[j] PROVE i = j
      <3>1. t[i] = s[i + 1] /\ t[j] = s[j + 1] /\ i + 1 \in 1..k /\ j + 1 \in 1..k
        BY <1>1, <1>3
      <3>2. i + 1 = j + 1
        BY Zenon, <2>1, <2>2, <3>1
      <3> QED BY <3>2
    <2>3. ASSUME NEW i \in 1..(k - 1), Head(s) = t[i] PROVE FALSE
      BY <1>1, <1>3, <2>1, <2>3
    <2> QED BY <1>2, <2>2, <2>3 DEF IsInjective, Range
  <1> QED BY <1>1, <1>4, <1>5, <1>6, <1>7 DEF t

LEMMA ConcatOf ==
  ASSUME NEW S, NEW s \in Seq(S), NEW t \in Seq(S)
  PROVE  /\ s \o t \in Seq(S)
         /\ \A r : r \in Range(s \o t) <=> r \in Range(s) \/ r \in Range(t)
         /\ IsInjective(s) /\ IsInjective(t) /\ Range(s) \cap Range(t) = {} => IsInjective(s \o t)
  <1> DEFINE a == s \o t
             k == Len(s)
             m == Len(t)
  <1>1. /\ k \in Nat /\ m \in Nat /\ a \in Seq(S) /\ Len(a) = k + m
        /\ \A i \in 1..k : a[i] = s[i]
        /\ \A i \in 1..m : a[k + i] = t[i]
    BY ConcatProperties
  <1>2. DOMAIN s = 1..k /\ DOMAIN t = 1..m /\ DOMAIN a = 1..(k + m)
    BY <1>1
  <1> HIDE DEF a, k, m
  <1>3. /\ \A i \in 1..(k + m) : i \in 1..k \/ (i - k \in 1..m /\ k + (i - k) = i)
        /\ \A i \in 1..k : i \in 1..(k + m)
        /\ \A i \in 1..m : k + i \in 1..(k + m)
    BY <1>1
  <1>4. \A i \in 1..(k + m) :
           \/ i \in 1..k /\ a[i] = s[i] /\ a[i] \in Range(s)
           \/ i - k \in 1..m /\ a[i] = t[i - k] /\ a[i] \in Range(t)
    <2> TAKE i \in 1..(k + m)
    <2>1. CASE i \in 1..k
      BY <1>1, <1>2, <2>1 DEF Range
    <2>2. CASE i - k \in 1..m /\ k + (i - k) = i
      <3>1. a[i] = t[i - k]
        BY <1>1, <2>2
      <3> QED BY <1>2, <2>2, <3>1 DEF Range
    <2> QED BY <1>3, <2>1, <2>2
  <1>5. ASSUME NEW r \in Range(a) PROVE r \in Range(s) \/ r \in Range(t)
    <2>1. PICK i \in 1..(k + m) : r = a[i]
      BY <1>2, <1>5 DEF Range
    <2> QED BY <1>4, <2>1
  <1>6. ASSUME NEW r \in Range(s) PROVE r \in Range(a)
    <2>1. PICK i \in 1..k : r = s[i]
      BY <1>2, <1>6 DEF Range
    <2> QED BY <1>1, <1>2, <1>3, <2>1 DEF Range
  <1>7. ASSUME NEW r \in Range(t) PROVE r \in Range(a)
    <2>1. PICK i \in 1..m : r = t[i]
      BY <1>2, <1>7 DEF Range
    <2>2. r = a[k + i] /\ k + i \in 1..(k + m)
      BY <1>1, <1>3, <2>1
    <2> QED BY <1>2, <2>2 DEF Range
  <1>8. ASSUME IsInjective(s), IsInjective(t), Range(s) \cap Range(t) = {} PROVE IsInjective(a)
    <2>1. /\ \A i, j \in 1..k : s[i] = s[j] => i = j
          /\ \A i, j \in 1..m : t[i] = t[j] => i = j
      BY <1>2, <1>8 DEF IsInjective
    <2>2. ASSUME NEW i \in 1..(k + m), NEW j \in 1..(k + m), a[i] = a[j] PROVE i = j
      <3>1. CASE i \in 1..k /\ j \in 1..k /\ a[i] = s[i] /\ a[j] = s[j]
        BY Zenon, <2>1, <2>2, <3>1
      <3>2. CASE i - k \in 1..m /\ j - k \in 1..m /\ a[i] = t[i - k] /\ a[j] = t[j - k]
        <4>1. i - k = j - k
          BY Zenon, <2>1, <2>2, <3>2
        <4> QED BY <1>1, <4>1
      <3> QED BY <1>4, <1>8, <2>2, <3>1, <3>2
    <2> QED BY <1>2, <2>2 DEF IsInjective
  <1> QED BY <1>1, <1>5, <1>6, <1>7, <1>8 DEF a

LEMMA EmptyIs == Range(<<>>) = {} /\ IsInjective(<<>>)
  BY DEF Range, IsInjective

\* A request is in progress, or waits.
Has(c, r) == r = c.current \/ r \in Range(c.queue)

\* A turn of the event loop ends the request in progress, or none.
LEMMA QueueMoves ==
  ASSUME NEW c \in Connection, NEW u, NEW queries, NEW n, NEW ends,
         QueueInv(u, c, queries), Moves(c, n, ends)
  PROVE  /\ QueueInv(u, n, queries)
         /\ ends = NoRequest => \A r : Has(n, r) <=> Has(c, r)
         /\ ends # NoRequest =>
               /\ ends = c.current /\ ends \in Request
               /\ \A r \in Request : Has(n, r) <=> Has(c, r) /\ r # ends
  <1>1. c.queue \in Seq(Request) /\ c.current \in Request \cup {NoRequest}
    BY DEF Connection
  <1>2. n.current = NoRequest => n.queue = <<>> /\ n.op = "none"
    BY DEF Moves
  <1>3. CASE ends = NoRequest /\ n.current = c.current /\ n.queue = c.queue
    BY <1>2, <1>3 DEF QueueInv, Has
  <1>4. CASE ends = c.current /\ c.current # NoRequest /\ c.queue = <<>> /\ n.current = NoRequest
             /\ n.queue = <<>>
    <2>1. QueueInv(u, n, queries)
      BY <1>2, <1>4, EmptyIs DEF QueueInv
    <2> QED BY Zenon, <1>1, <1>4, <2>1, EmptyIs, RequestIsSome DEF Has
  <1>5. CASE ends = c.current /\ c.current # NoRequest /\ c.queue # <<>> /\ n.current = Head(c.queue)
             /\ n.queue = Tail(c.queue)
    <2>1. /\ Head(c.queue) \in Request
          /\ \A r : r \in Range(c.queue) <=> r = Head(c.queue) \/ r \in Range(Tail(c.queue))
          /\ IsInjective(c.queue) =>
                IsInjective(Tail(c.queue)) /\ Head(c.queue) \notin Range(Tail(c.queue))
      BY <1>1, <1>5, TailOf
    <2>2. n.current # NoRequest
      BY <1>5, <2>1, RequestIsSome
    <2>3. QueueInv(u, n, queries)
      BY <1>5, <2>1, <2>2 DEF QueueInv
    <2>4. c.current \notin Range(c.queue)
      BY DEF QueueInv
    <2> QED BY Zenon, <1>1, <1>5, <2>1, <2>3, <2>4 DEF Has
  <1> QED BY Zenon, <1>3, <1>4, <1>5 DEF Moves

\* Requests that are queued are added at the end.
LEMMA QueueGrows ==
  ASSUME NEW c \in Connection, NEW u, NEW queries, NEW n, NEW q, NEW requests \in Seq(Request),
         QueueInv(u, c, queries), Enqueued(c, requests, n), q \notin queries, IsInjective(requests),
         \A r \in Range(requests) : r[1] = q /\ r[2] = u
  PROVE  /\ QueueInv(u, n, queries \cup {q})
         /\ \A r \in Request : Has(n, r) <=> Has(c, r) \/ r \in Range(requests)
  <1>1. c.queue \in Seq(Request) /\ c.current \in Request \cup {NoRequest}
    BY DEF Connection
  <1>2. CASE requests = <<>> /\ n = c
    BY <1>2, EmptyIs DEF QueueInv
  <1>3. ASSUME c.current # NoRequest, n.queue = c.queue \o requests, n.current = c.current, n.op = c.op
        PROVE  /\ QueueInv(u, n, queries \cup {q})
               /\ \A r \in Request : Has(n, r) <=> Has(c, r) \/ r \in Range(requests)
    <2>1. Range(c.queue) \cap Range(requests) = {}
      BY DEF QueueInv
    <2>2. /\ \A r : r \in Range(n.queue) <=> r \in Range(c.queue) \/ r \in Range(requests)
          /\ IsInjective(n.queue)
      BY <1>1, <1>3, <2>1, ConcatOf DEF QueueInv
    <2>3. QueueInv(u, n, queries \cup {q})
      BY Zenon, <1>3, <2>2 DEF QueueInv
    <2> QED BY <1>3, <2>2, <2>3 DEF Has
  <1>4. ASSUME requests # <<>>, c.current = NoRequest, n.queue = c.queue \o Tail(requests),
               n.current = Head(requests)
        PROVE  /\ QueueInv(u, n, queries \cup {q})
               /\ \A r \in Request : Has(n, r) <=> Has(c, r) \/ r \in Range(requests)
    <2>1. /\ Head(requests) \in Request /\ Tail(requests) \in Seq(Request)
          /\ \A r : r \in Range(requests) <=> r = Head(requests) \/ r \in Range(Tail(requests))
          /\ IsInjective(Tail(requests)) /\ Head(requests) \notin Range(Tail(requests))
      BY <1>4, TailOf
    <2>2. c.queue = <<>>
      BY <1>4 DEF QueueInv
    <2>3. n.queue = Tail(requests)
      BY <1>4, <2>1, <2>2
    <2>4. n.current # NoRequest
      BY <1>4, <2>1, RequestIsSome
    <2>5. QueueInv(u, n, queries \cup {q})
      BY Zenon, <1>4, <2>1, <2>3, <2>4 DEF QueueInv
    <2>6. \A r \in Request : ~Has(c, r)
      BY Zenon, <1>4, <2>2, EmptyIs, RequestIsSome DEF Has
    <2>7. \A r \in Request : Has(n, r) <=> r \in Range(requests)
      BY Zenon, <1>4, <2>1, <2>3 DEF Has
    <2> QED BY Zenon, <2>5, <2>6, <2>7
  <1> QED BY Zenon, <1>2, <1>3, <1>4 DEF Enqueued

=============================================================================
