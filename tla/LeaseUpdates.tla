---------------------------- MODULE LeaseUpdates ----------------------------
(***************************************************************************)
(* How a DHCP server with the HA library answers a client: the packet is   *)
(* processed unless the service is disabled (NetworkState), the changes to *)
(* its leases are sent to the partner and to the backup servers            *)
(* (HttpClient), the packet is parked meanwhile (lib/hooks/parking_lots.h),*)
(* and the response is sent when the last update has been answered, unless *)
(* the partner's has failed.                                               *)
(***************************************************************************)
EXTENDS NetworkState, HttpClient, FiniteSets, Functions

CONSTANTS
    Queries,        \* the packets, each of which is received once
    Partner,        \* the other active server
    Backups,        \* the backup servers
    HaStates,       \* the states the HA state machine may be in
    Kinds,          \* what the packets ask for
    Faults          \* what may befall the requests to a peer: "timeout", "reset", "blocked"

Peers == {Partner} \cup Backups

\* The leases a packet changes, in the order their updates are sent.
Changes(kind) ==
    CASE kind = "renewal" -> <<"update">>
      [] kind = "new address" -> <<"delete", "update">>
      [] kind = "release" -> <<"delete">>
      [] kind = "decline" -> <<"update">>
      [] kind = "refusal" -> <<>>

\* A DHCPRELEASE and a DHCPDECLINE have no response.
Responds(kind) == kind \notin {"release", "decline"}

Updates == Queries \X Peers \X {"delete", "update"}

ASSUME UpdatesAssumption ==
    /\ Request = Updates
    /\ Partner \notin Backups /\ IsFiniteSet(Backups)
    /\ Kinds \subseteq {"renewal", "new address", "release", "decline", "refusal"}

VARIABLES
    conn,           \* the connection to each peer
    received,       \* the packets that have been received
    pending,        \* pending_requests_: the number for a packet, or -1
    lot,            \* the parking lot: "parked", "referenced" or "out"
    answered,       \* history: the packets whose response was sent
    failed,         \* history: the packets with an update that failed at the partner
    unapplied,      \* history: the updates sent to the partner that it has not applied
    late            \* history: the peers a request to which has timed out

serverVars == <<vars, conn, received, pending, lot, answered, failed, unapplied, late>>
updateVars == <<conn, received, pending, lot, answered, failed, unapplied, late>>

ServerInit ==
    /\ Init
    /\ conn = [u \in Peers |-> Idle]
    /\ received = {}
    /\ pending = [q \in Queries |-> -1]
    /\ lot = [q \in Queries |-> "out"]
    /\ answered = {}
    /\ failed = {}
    /\ unapplied = {}
    /\ late = {}

----------------------------------------------------------------------------
\* The partner gets updates in load-balancing and hot-standby.
shouldSendLeaseUpdates(u, state) == u \in Backups \/ state \in {"load-balancing", "hot-standby"}

\* The updates of a packet for a peer.
UpdatesFor(q, k, u) == [i \in 1..Len(Changes(k)) |-> <<q, u, Changes(k)[i]>>]

\* Mutant: the updates to the backup servers are not counted.
asyncSendLeaseUpdatesUncounted(q, k, peers) ==
    /\ conn' = [u \in Peers |->
                    IF u \in peers
                    THEN queueRequests(conn[u], UpdatesFor(q, k, u))
                    ELSE conn[u]]
    /\ pending' = [pending EXCEPT
                    ![q] = IF peers = {} THEN -1 ELSE Cardinality(peers \ Backups) * Len(Changes(k))]

asyncSendLeaseUpdates(q, k, peers) ==
    /\ conn' = [u \in Peers |->
                    IF u \in peers
                    THEN queueRequests(conn[u], UpdatesFor(q, k, u))
                    ELSE conn[u]]
    /\ pending' = [pending EXCEPT
                    ![q] = IF peers = {} THEN -1 ELSE Cardinality(peers) * Len(Changes(k))]

\* leases4Committed, and the parking of the packet that follows it in processPacket.
\* A packet without a response is referenced, and then not parked.
processPacket(q, k, state) ==
    LET peers == {u \in Peers : shouldSendLeaseUpdates(u, state) /\ Changes(k) # <<>>}
    IN  /\ q \notin received /\ service = "enabled"
        /\ received' = received \cup {q}
        /\ unapplied' = unapplied \cup
              {<<q, u, change>> : u \in peers \cap {Partner}, change \in Range(Changes(k))}
        /\ asyncSendLeaseUpdates(q, k, peers)
        /\ IF peers = {}
           THEN answered' = answered \cup {r \in {q} : Responds(k)} /\ UNCHANGED lot
           ELSE /\ lot' = [lot EXCEPT ![q] = IF Responds(k) THEN "parked" ELSE "referenced"]
                /\ UNCHANGED answered
        /\ UNCHANGED <<vars, failed, late>>

\* Packets that arrive while the service is disabled are dropped.
dropPacket(q) ==
    /\ q \notin received /\ service = "disabled"
    /\ received' = received \cup {q}
    /\ UNCHANGED <<vars, conn, pending, lot, answered, failed, unapplied, late>>

\* Mutant: the packet is not dropped when the partner's update fails.
UpdateCallbackUndropped(update, result) ==
    LET q == update[1]
        fails == update[2] = Partner /\ result # "ok"
        last == pending[q] <= 1
    IN  /\ lot' = [lot EXCEPT ![q] = IF last THEN "out" ELSE @]
        /\ answered' = answered \cup {r \in {q} : last /\ lot[q] = "parked"}
        /\ failed' = IF fails THEN failed \cup {q} ELSE failed
        /\ pending' = [pending EXCEPT ![q] = IF last /\ lot[q] # "referenced" THEN -1 ELSE @ - 1]

\* Mutant: only the partner's update unparks the packet.
UpdateCallbackOfPartner(update, result) ==
    LET q == update[1]
        fails == update[2] = Partner /\ result # "ok"
        left == IF fails THEN "out" ELSE lot[q]
        last == pending[q] <= 1
        unparks == last /\ update[2] = Partner
    IN  /\ lot' = [lot EXCEPT ![q] = IF unparks THEN "out" ELSE left]
        /\ answered' = answered \cup {r \in {q} : unparks /\ left = "parked"}
        /\ failed' = IF fails THEN failed \cup {q} ELSE failed
        /\ pending' = [pending EXCEPT ![q] = IF last /\ left # "referenced" THEN -1 ELSE @ - 1]

\* Mutant: the first update that is answered unparks the packet.
UpdateCallbackAtOnce(update, result) ==
    LET q == update[1]
        fails == update[2] = Partner /\ result # "ok"
        left == IF fails THEN "out" ELSE lot[q]
        last == pending[q] <= 1
    IN  /\ lot' = [lot EXCEPT ![q] = "out"]
        /\ answered' = answered \cup {r \in {q} : left = "parked"}
        /\ failed' = IF fails THEN failed \cup {q} ELSE failed
        /\ pending' = [pending EXCEPT ![q] = IF last /\ left # "referenced" THEN -1 ELSE @ - 1]

\* The callback of asyncSendLeaseUpdate.  The last one unparks the packet: one that was
\* dropped is not there any more; one that is only referenced has no function to call,
\* and the exception keeps its entry of pending_requests_.
UpdateCallback(update, result) ==
    LET q == update[1]
        fails == update[2] = Partner /\ result # "ok"
        left == IF fails THEN "out" ELSE lot[q]
        last == pending[q] <= 1
    IN  /\ lot' = [lot EXCEPT ![q] = IF last THEN "out" ELSE left]
        /\ answered' = answered \cup {r \in {q} : last /\ left = "parked"}
        /\ failed' = IF fails THEN failed \cup {q} ELSE failed
        /\ pending' = [pending EXCEPT ![q] = IF last /\ left # "referenced" THEN -1 ELSE @ - 1]

\* A callback of the HTTP client runs on the connection to a peer.
Runs(u, callback) ==
    /\ conn' = [conn EXCEPT ![u] = callback.conn]
    /\ IF callback.ends = NoRequest
       THEN UNCHANGED <<lot, answered, failed, pending>>
       ELSE UpdateCallback(callback.ends, callback.result)
    /\ UNCHANGED <<vars, received, unapplied, late>>

\* A callback that finds no transaction would follow a null pointer.
RunCompletion(u) ==
    /\ conn[u].done # <<>>
    /\ \/ conn[u].current # NoRequest
       \/ Head(conn[u].done).what = "ready"
       \/ Head(conn[u].done).what = "timer" /\ conn[u].timer = "off"
    /\ Runs(u, RunHead(conn[u]))

Queued(u) == {conn[u].done[i].what : i \in DOMAIN conn[u].done}

\* The event loop notices that the socket is ready.
SocketReady(u) ==
    /\ IsReady(conn[u]) /\ "ready" \notin Queued(u)
    /\ conn' = [conn EXCEPT ![u] = Complete(@, "ready", <<>>)]
    /\ UNCHANGED <<vars, received, pending, lot, answered, failed, unapplied, late>>

\* A request takes too long.  The event loop is polled every second, so a callback does
\* not wait as long as that, unless a synchronization blocks the loop.  With "blocked" a
\* completion may run in the next transaction; the model is exact up to there, and then
\* keeps only one of the operations that may wait for the connection.
Expire(u) ==
    /\ "timeout" \in Faults[u] /\ conn[u].timer = "on"
    /\ Queued(u) \subseteq {"ready"} \/ "blocked" \in Faults[u]
    /\ conn' = [conn EXCEPT ![u] = Expired(@)]
    /\ late' = late \cup {u}
    /\ UNCHANGED <<vars, received, pending, lot, answered, failed, unapplied>>

\* A connection attempt ends, and the event loop notices it.
Connected(u) ==
    /\ conn[u].socket = "connecting"
    /\ conn' = [conn EXCEPT ![u] = Complete([@ EXCEPT !.socket = "connected"], "ready", <<>>)]
    /\ UNCHANGED <<vars, received, pending, lot, answered, failed, unapplied, late>>

ConnectFails(u) ==
    /\ "reset" \in Faults[u] /\ conn[u].socket = "connecting"
    /\ conn' = [conn EXCEPT ![u] = Complete([@ EXCEPT !.socket = "broken"], "ready", <<>>)]
    /\ UNCHANGED <<vars, received, pending, lot, answered, failed, unapplied, late>>

\* The peer executes a request and answers it, in pieces, however late.  What becomes of an
\* update at a backup server makes no difference.
Serve(u) ==
    LET c == conn[u]
        next == Head(c.server)
        rest == IF next[2] = Parts
                THEN Tail(c.server)
                ELSE <<<<next[1], next[2] + 1>>>> \o Tail(c.server)
    IN  /\ c.server # <<>>
        /\ \E result \in {"ok", "error"} :
              /\ result = "error" => next[2] = Parts /\ u = Partner
              /\ conn' = [conn EXCEPT ![u].server = rest,
                            ![u].input = Append(@, [request |-> next[1], part |-> next[2],
                                                    result |-> result])]
              /\ unapplied' = IF next[2] = Parts /\ result = "ok"
                              THEN unapplied \ {next[1]} ELSE unapplied
        /\ UNCHANGED <<vars, received, pending, lot, answered, failed, late>>

\* The peer closes the connection, or restarts.
PeerCloses(u) ==
    /\ "reset" \in Faults[u] /\ isUsable(conn[u])
    /\ conn' = [conn EXCEPT ![u].socket = "broken", ![u].server = <<>>, ![u].input = <<>>]
    /\ UNCHANGED <<vars, received, pending, lot, answered, failed, unapplied, late>>

EventLoop(u) == RunCompletion(u) \/ SocketReady(u) \/ Expire(u) \/ Connected(u) \/ ConnectFails(u)

ServerNext ==
    \/ \E q \in Queries : dropPacket(q) \/ \E k \in Kinds, state \in HaStates : processPacket(q, k, state)
    \/ \E u \in Peers : EventLoop(u) \/ Serve(u) \/ PeerCloses(u)
    \/ Next /\ UNCHANGED updateVars

ServerSpec == ServerInit /\ [][ServerNext]_serverVars

----------------------------------------------------------------------------
\* The updates of a packet that have not been called back.
Outstanding(q) ==
    {r \in Updates : r[1] = q /\ (r = conn[r[2]].current \/ r \in Range(conn[r[2]].queue))}

\* pending_requests_ counts the updates of a packet that are queued or under way, through
\* every failure, timeout and reconnection: none is called back twice, or never.
PendingIsOutstanding ==
    \A q \in Queries :
        Cardinality(Outstanding(q)) = (IF pending[q] = -1 THEN 0 ELSE pending[q])

\* A packet does not stay in the parking lot when its last update has been answered.
ParkedIsPending ==
    \A q \in Queries : lot[q] # "out" => Outstanding(q) # {}

\* A client gets the response to a packet only when the partner has applied all the updates
\* it was sent for the packet, unless a request to it has timed out before.
AnsweredIsApplied ==
    Partner \notin late => \A r \in unapplied : r[1] \notin answered

\* A completion runs in the transaction that it was started in.
CompletionsAreCurrent ==
    \A u \in Peers : \A i \in DOMAIN conn[u].done :
        \/ conn[u].done[i].of = conn[u].current
        \/ conn[u].done[i].what = "ready"
        \/ conn[u].done[i].what = "timer" /\ conn[u].timer = "off"

\* A packet is not answered when an update of it has failed at the partner, whichever of
\* its updates is the last to be answered.
FailedIsDropped == answered \cap failed = {}

\* No request is stuck: one in progress is about to be connected, has a callback queued, or
\* waits for its answer with the timer set; and the queue waits only for a request in progress.
TransactionsGoOn ==
    \A u \in Peers :
        LET c == conn[u] IN
        /\ c.current # NoRequest =>
              \/ c.op = "connect"
              \/ c.done # <<>>
              \/ c.op = "receive" /\ c.timer = "on"
        /\ c.queue # <<>> => c.current # NoRequest
=============================================================================
