--------------------------------- MODULE D2 ---------------------------------
(***************************************************************************)
(* kea-dhcp-ddns: the process loop (D2Process), the queue manager with its *)
(* UDP listener (D2QueueMgr, NameChangeListener), the update manager       *)
(* (D2UpdateMgr) with the transactions of NameChangeTransaction, and the   *)
(* DNS zones they update.                                                  *)
(*                                                                         *)
(* One thread runs everything. D2Process::run() alternates one pass over   *)
(* the managers (Iterate) with runIO(): poll() runs the handlers that are  *)
(* ready, all of them, and only if there was none run_one() waits for one. *)
(* No pass is made unless a handler ran since the last one.                *)
(***************************************************************************)
EXTENDS NameChangeTransaction, Sequences, FiniteSetsExt

CONSTANTS
    Requests,           \* the NameChangeRequests DHCP servers may send
    MaxRequests,        \* bound: how many of them are received
    MaxQueueSize,       \* max_queue_size_ of D2QueueMgr
    MaxTransactions,    \* max_transactions_ of D2UpdateMgr
    RestartPercent,     \* QUEUE_RESTART_PERCENT
    Directions,         \* directions with configured DNS domains
    FwdZone,            \* names some forward domain matches
    RevZone,            \* addresses some reverse domain matches
    Signals,            \* which of "reload", "bad-reload", "term" may arrive
    MaxSignals,         \* bound: how many of them
    Faults,             \* which of "receive", "invalid", "bind", "send",
                        \* "refused" may happen
    MaxLate             \* bound: updates delayed beyond their timeout

ASSUME D2Assumption ==
    /\ Requests \subseteq NameChangeRequest
    /\ MaxRequests \in Nat /\ MaxSignals \in Nat /\ MaxLate \in Nat
    /\ MaxQueueSize \in Nat \ {0} /\ MaxTransactions \in Nat \ {0}
    /\ RestartPercent \in 0..100
    /\ Directions \subseteq {"fwd", "rev"}
    /\ Signals \subseteq {"reload", "bad-reload", "term"}

VARIABLES
    mgr_state,          \* D2QueueMgr::mgr_state_
    target_stop_state,  \* D2QueueMgr::target_stop_state_
    listener,           \* "none", "closed" or "open" (listening)
    io_pending,         \* a receive handed over: subset of {"recv"}
    cancelled,          \* handlers of ended DNS exchanges: subset of {"fetch"}
    queue,              \* D2QueueMgr::ncr_queue_
    transactions,       \* D2UpdateMgr::transaction_list_, by DHCID
    flags,              \* "reconf" (reconf_queue_flag_), "shutdown"
    loop,               \* where run() is, see LoopStates
    received, signals,  \* inputs so far
    fwd, rev,           \* the DNS zones: records of names and of addresses
    late,               \* updates still on their way to a server
    delayed,            \* history: how many updates were
    last, settled       \* history: the last request received for a DHCID; the
                        \* DHCIDs whose last started request was completed

queueMgr == <<mgr_state, target_stop_state, listener, io_pending>>
dns == <<fwd, rev, late, delayed>>
inputs == <<received, signals>>
history == <<last, settled>>
vars == <<queueMgr, queue, transactions, flags, cancelled, loop, inputs, dns,
          history>>

Dhcids == Clients \X Names

MgrStates == {"NOT_INITTED", "INITTED", "RUNNING", "STOPPING",
              "STOPPED_QUEUE_FULL", "STOPPED_RECV_ERROR", "STOPPED"}

\* In poll() before and after a handler ran, in run_one() before and after.
LoopStates == {"poll", "polled", "run_one", "ran_one", "exited"}

\* The types of the variables. A request is tried at most MaxTries times at a
\* server (update_attempts_), and no more transactions are in progress, nor
\* requests queued, than the limits allow.
TypeOK ==
    /\ mgr_state \in MgrStates /\ target_stop_state \in MgrStates
    /\ listener \in {"none", "closed", "open"}
    /\ io_pending \subseteq {"recv"}
    /\ queue \in Seq(NameChangeRequest) /\ Len(queue) <= MaxQueueSize
    /\ DOMAIN transactions \subseteq Dhcids
    /\ Cardinality(DOMAIN transactions) <= MaxTransactions
    /\ \A d \in DOMAIN transactions : transactions[d] \in Transaction
    /\ flags \subseteq {"reconf", "shutdown"}
    /\ cancelled \subseteq {"fetch"} /\ loop \in LoopStates
    /\ received \in 0..MaxRequests /\ signals \in Seq(Signals)
    /\ \A n \in Names : fwd[n] \subseteq AddressTypes \X Addrs
                                         \cup {"DHCID"} \X Dhcids
    /\ \A a \in Addrs : rev[a] \subseteq {"PTR"} \X Names
                                         \cup {"DHCID"} \X Dhcids

\* main() has read a configuration, so the first pass sets up the listener.
Init ==
    /\ mgr_state = "NOT_INITTED" /\ target_stop_state = "NOT_INITTED"
    /\ listener = "none" /\ io_pending = {}
    /\ queue = <<>> /\ transactions = <<>>
    /\ flags = {"reconf"} /\ cancelled = {} /\ loop = "ran_one"
    /\ received = 0 /\ signals = <<>>
    /\ fwd = [n \in Names |-> {}] /\ rev = [a \in Addrs |-> {}]
    /\ late = {} /\ delayed = 0
    /\ last = <<>> /\ settled = {}

Add(f, k, v) == [x \in DOMAIN f \cup {k} |-> IF x = k THEN v ELSE f[x]]
Drop(f, S) == [x \in DOMAIN f \ S |-> f[x]]

-----------------------------------------------------------------------------
(* The queue manager and its listener. *)

\* startListening(): the socket is opened and a receive is started; if the
\* bind fails the state stays what it was.
startListening(state) ==
    \/ /\ listener' = "open" /\ io_pending' = {"recv"}
       /\ mgr_state' = "RUNNING"
    \/ /\ "bind" \in Faults
       /\ listener' = "closed" /\ io_pending' = {}
       /\ mgr_state' = state

\* Mutant: does not wait for the cancellation.
stopListeningAtOnce(target, pending) ==
    /\ target_stop_state' = target
    /\ listener' = "closed" /\ io_pending' = pending
    /\ mgr_state' = target

\* stopListening(target): the socket is closed. With a receive under way the
\* stop is complete when its cancellation is reported.
stopListening(target, pending) ==
    /\ target_stop_state' = target
    /\ listener' = "closed" /\ io_pending' = pending
    /\ mgr_state' = IF pending = {} THEN target ELSE "STOPPING"

\* reconfigureQueueMgr(): a new listener, in state INITTED until it listens.
reconfigureQueueMgr ==
    /\ startListening("INITTED")
    /\ flags' = flags \ {"reconf"}
    /\ UNCHANGED target_stop_state

\* Mutant: a full queue stops the manager like a shutdown does.
enqueueStops(ncr) ==
    IF Len(queue) < MaxQueueSize
    THEN /\ queue' = Append(queue, ncr)
         /\ last' = Add(last, Dhcid(ncr), ncr)
         /\ UNCHANGED <<queueMgr, settled>>
    ELSE /\ stopListening("STOPPED", {})
         /\ UNCHANGED <<queue, history>>

\* D2QueueMgr::operator() on SUCCESS: queue the request, or stop when full.
enqueue(ncr) ==
    IF Len(queue) < MaxQueueSize
    THEN /\ queue' = Append(queue, ncr)
         /\ last' = Add(last, Dhcid(ncr), ncr)
         /\ UNCHANGED <<queueMgr, settled>>
    ELSE /\ stopListening("STOPPED_QUEUE_FULL", {})
         /\ UNCHANGED <<queue, history>>

-----------------------------------------------------------------------------
(* One pass of D2Process::run(). *)

canShutdown ==
    /\ "shutdown" \in flags
    /\ mgr_state \notin {"RUNNING", "STOPPING"}
    /\ DOMAIN transactions = {}

threshold == (MaxQueueSize * RestartPercent) \div 100

checkQueueStatus ==
    CASE mgr_state = "RUNNING" /\ flags # {} ->
             stopListening("STOPPED", io_pending) /\ UNCHANGED flags
      [] mgr_state = "STOPPED_QUEUE_FULL" /\ Len(queue) <= threshold ->
             /\ startListening("STOPPED_QUEUE_FULL")
             /\ UNCHANGED <<flags, target_stop_state>>
      [] mgr_state = "STOPPED_RECV_ERROR" /\ "shutdown" \notin flags ->
             reconfigureQueueMgr
      [] mgr_state \in {"NOT_INITTED", "INITTED", "STOPPED"}
         /\ "reconf" \in flags -> reconfigureQueueMgr
      [] OTHER -> UNCHANGED <<queueMgr, flags>>

\* Mutant: ended transactions stay in the list.
UnfinishedOrNot == transactions

\* checkFinishedTransactions()
Unfinished ==
    Drop(transactions, {d \in DOMAIN transactions : transactions[d].st = "END"})

\* pickNextJob(): the queued requests whose DHCID has no transaction.
Eligible == {i \in 1..Len(queue) : Dhcid(queue[i]) \notin DOMAIN Unfinished}

\* makeTransaction(): directions without domains are not updated; a request
\* that matches no domain, or leaves nothing to do, is dropped.
Enabled(ncr) == [ncr EXCEPT !.dirs = @ \cap Directions]

Matched(ncr) == /\ ncr.dirs # {}
                /\ "fwd" \in ncr.dirs => ncr.fqdn \in FwdZone
                /\ "rev" \in ncr.dirs => ncr.addr \in RevZone

\* sendUpdate() catches what building or sending the update throws.
Outcomes(t) ==
    {t} \cup {processFailed(t) : f \in Faults \cap {"send"}}

makeTransaction(ncr) ==
    IF Matched(Enabled(ncr))
    THEN \E t \in Outcomes(startTransaction(Enabled(ncr))) :
             transactions' = Add(Unfinished, Dhcid(ncr), t)
    ELSE transactions' = Unfinished

dequeueAt(q, i) == SubSeq(q, 1, i - 1) \o SubSeq(q, i + 1, Len(q))

sweep ==
    IF Cardinality(DOMAIN Unfinished) < MaxTransactions /\ Eligible # {}
    THEN LET i == Min(Eligible)
         IN  /\ makeTransaction(queue[i])
             /\ queue' = dequeueAt(queue, i)
             /\ settled' = settled \ {Dhcid(queue[i])}
    ELSE transactions' = Unfinished /\ UNCHANGED <<queue, settled>>

\* Handlers that wait for nothing but their turn: poll() runs them all.
Ready == \/ cancelled # {}
         \/ listener = "closed" /\ io_pending # {}
         \/ \E d \in DOMAIN transactions : transactions[d].io = "posted"

runIOReturned == \/ loop = "ran_one"
                 \/ loop = "polled" /\ ~Ready

Iterate ==
    /\ runIOReturned
    /\ ~canShutdown
    /\ checkQueueStatus
    /\ sweep
    /\ loop' = "poll"
    /\ UNCHANGED <<cancelled, inputs, dns, last>>

Exit ==
    /\ runIOReturned
    /\ canShutdown
    /\ loop' = "exited"
    /\ UNCHANGED <<queueMgr, queue, transactions, flags, cancelled, inputs, dns,
                   history>>

\* poll() found nothing to run.
PollEmpty ==
    /\ loop = "poll" /\ ~Ready
    /\ loop' = "run_one"
    /\ UNCHANGED <<queueMgr, queue, transactions, flags, cancelled, inputs, dns,
                   history>>

-----------------------------------------------------------------------------
(* The handlers runIO() runs. *)

Handler == \/ loop \in {"poll", "polled"} /\ loop' = "polled"
           \/ loop = "run_one" /\ loop' = "ran_one"

\* A datagram: a request, or what fromFormat() rejects.
Receive(ncr) ==
    /\ Handler
    /\ listener = "open" /\ received < MaxRequests
    /\ enqueue(ncr)
    /\ received' = received + 1
    /\ UNCHANGED <<transactions, flags, cancelled, signals, dns>>

ReceiveInvalid ==
    /\ Handler
    /\ listener = "open" /\ "invalid" \in Faults
    /\ UNCHANGED <<queueMgr, queue, transactions, flags, cancelled, inputs,
                   dns, history>>

ReceiveError ==
    /\ Handler
    /\ listener = "open" /\ "receive" \in Faults
    /\ stopListening("STOPPED_RECV_ERROR", {})
    /\ UNCHANGED <<queue, transactions, flags, cancelled, inputs, dns, history>>

\* The cancelled receive of a closed socket.
ReceiveStopped ==
    /\ Handler
    /\ listener = "closed" /\ io_pending # {}
    /\ io_pending' = {}
    /\ mgr_state' = target_stop_state
    /\ UNCHANGED <<target_stop_state, listener, queue, transactions, flags,
                   cancelled, inputs, dns, history>>

\* processSignal(): SIGHUP with a valid file, with one that does not parse,
\* SIGTERM.
Signal ==
    /\ Handler
    /\ Len(signals) < MaxSignals
    /\ \E s \in Signals :
           /\ signals' = Append(signals, s)
           /\ flags' = CASE s = "reload" -> flags \cup {"reconf"}
                         [] s = "bad-reload" -> flags \ {"reconf"}
                         [] s = "term" -> flags \cup {"shutdown"}
    /\ UNCHANGED <<queueMgr, queue, transactions, cancelled, received, dns,
                   history>>

\* IOFetch: the posted exchange sends its packet.
SendUpdate(d) ==
    /\ Handler
    /\ transactions[d].io = "posted"
    /\ transactions' = [transactions EXCEPT ![d].io = "sent"]
    /\ UNCHANGED <<queueMgr, queue, flags, cancelled, inputs, dns, history>>

\* The transaction goes on with what its handler makes of it. The exchange
\* leaves the cancelled wait for its timer, or for its answer, to be handled.
Continue(d, next) ==
    \E t \in Outcomes(next) :
        /\ transactions' = [transactions EXCEPT ![d] = t]
        /\ settled' = settled \cup {e \in {d} : t.status = "COMPLETED"}
        /\ cancelled' = {"fetch"}

Cancelled ==
    /\ Handler
    /\ cancelled # {} /\ cancelled' = {}
    /\ UNCHANGED <<queueMgr, queue, transactions, flags, inputs, dns, history>>

\* DNSClient reports a response.
Response(d) ==
    /\ Handler
    /\ transactions[d].io = "answered"
    /\ Continue(d, ioCompleted(transactions[d]))
    /\ UNCHANGED <<queueMgr, queue, flags, inputs, dns, last>>

\* DNSClient reports TIMEOUT, OTHER or INVALID_RESPONSE: the request or the
\* response is lost, or corrupt, or the request is only delayed.
NoResponse(d) ==
    /\ Handler
    /\ transactions[d].io \in {"sent", "answered"}
    /\ Continue(d, ioCompleted([transactions[d] EXCEPT !.rcode = "none"]))
    /\ \/ UNCHANGED <<late, delayed>>
       \/ /\ transactions[d].io = "sent" /\ delayed < MaxLate
          /\ late' = late \cup {Update(transactions[d])}
          /\ delayed' = delayed + 1
    /\ UNCHANGED <<queueMgr, queue, flags, inputs, fwd, rev, last>>

-----------------------------------------------------------------------------
(* The DNS server. *)

Rcode(u) ==
    Prerequisites(IF u.zone = "fwd" THEN fwd[u.name] ELSE rev[u.name], u)

Apply(u) ==
    \/ /\ Rcode(u) = "NOERROR" /\ u.zone = "fwd"
       /\ fwd' = [fwd EXCEPT ![u.name] = NewRecords(@, u)]
       /\ UNCHANGED rev
    \/ /\ Rcode(u) = "NOERROR" /\ u.zone = "rev"
       /\ rev' = [rev EXCEPT ![u.name] = NewRecords(@, u)]
       /\ UNCHANGED fwd
    \/ /\ Rcode(u) # "NOERROR"
       /\ UNCHANGED <<fwd, rev>>

Answer(d, rcode) ==
    transactions' = [transactions EXCEPT ![d].io = "answered",
                                         ![d].rcode = rcode]

DnsUpdate(d) ==
    /\ transactions[d].io = "sent"
    /\ LET u == Update(transactions[d])
       IN  \/ Apply(u) /\ Answer(d, Rcode(u))
           \/ /\ "refused" \in Faults /\ Answer(d, "REFUSED")
              /\ UNCHANGED <<fwd, rev>>
    /\ UNCHANGED <<queueMgr, queue, flags, cancelled, loop, inputs, late,
                   delayed, history>>

DnsLateUpdate ==
    /\ \E u \in late : Apply(u) /\ late' = late \ {u}
    /\ UNCHANGED <<queueMgr, queue, transactions, flags, cancelled, loop,
                   inputs, delayed, history>>

-----------------------------------------------------------------------------
Next ==
    \/ Iterate \/ Exit \/ PollEmpty \/ Cancelled
    \/ \E ncr \in Requests : Receive(ncr)
    \/ ReceiveInvalid \/ ReceiveError \/ ReceiveStopped \/ Signal
    \/ \E d \in DOMAIN transactions :
           SendUpdate(d) \/ Response(d) \/ NoResponse(d) \/ DnsUpdate(d)
    \/ DnsLateUpdate

Spec == Init /\ [][Next]_vars

\* run() goes on when a handler has run, and poll() does not return before the
\* handlers that are ready have. A fetch gets an answer or times out, and its
\* handler takes its turn in the io service's queue, whatever else arrives.
InProgress(d, A) == d \in DOMAIN transactions /\ A

Fairness ==
    /\ WF_vars(Iterate) /\ WF_vars(Exit) /\ WF_vars(PollEmpty)
    /\ WF_vars(ReceiveStopped) /\ WF_vars(Cancelled)
    /\ \A d \in Dhcids :
           /\ WF_vars(InProgress(d, SendUpdate(d)))
           /\ SF_vars(InProgress(d, Response(d) \/ NoResponse(d)))

FairSpec == Spec /\ Fairness

-----------------------------------------------------------------------------
(* Properties. *)

\* The daemon is never deaf without knowing it: the queue manager is RUNNING
\* exactly while a receive is under way on an open socket, and STOPPING
\* exactly while the cancellation of one is still to be reported.
StateTellsListening ==
    /\ mgr_state = "RUNNING" <=> listener = "open"
    /\ mgr_state = "STOPPING" <=> listener = "closed" /\ io_pending # {}
    /\ listener = "open" => io_pending # {}

\* The forward zone says what the request asked for.
Holds(ncr) == IF ncr.chg = "add"
              THEN {AddressRR(ncr), DhcidRR(ncr)} \subseteq fwd[ncr.fqdn]
              ELSE DhcidRR(ncr) \notin fwd[ncr.fqdn]

\* What a transaction believes it has done in the forward zone is there, in
\* spite of lost answers and repeated updates, until it ends: an added
\* address is held by the name under the client's DHCID, and a removal has
\* left the name without that DHCID. (Not so when an update takes effect
\* after its timeout.)
ForwardDoneIsThere ==
    \A d \in DOMAIN transactions :
        "fwd" \in transactions[d].done /\ delayed = 0 =>
            Holds(transactions[d].ncr)

\* Requests take effect in the order they were received, per client and name:
\* when none is queued or in progress and the last one started was completed,
\* the forward zone says what the last one received asked for.
LastRequestWins ==
    \A d \in settled :
        /\ delayed = 0
        /\ \A i \in 1..Len(queue) : Dhcid(queue[i]) # d
        /\ d \notin DOMAIN transactions
        /\ "fwd" \in last[d].dirs \cap Directions
        => Holds(last[d])

\* A name in use is left to its owner: its records change only by an update
\* of a request with the DHCID they carry, and a name gets a DHCID only when
\* it had no records.
NamesKeepTheirOwner ==
    [][\A n \in Names :
          fwd'[n] # fwd[n] /\ fwd[n] # {} =>
              \E d \in Dhcids :
                  /\ <<"DHCID", d>> \in fwd[n]
                  /\ \/ InProgress(d, DnsUpdate(d))
                     \/ \E u \in late \ late' : <<"DHCID", d>> \in u.exact]_vars

\* Every transaction ends, whatever the servers do.
TransactionsEnd ==
    \A d \in Dhcids :
        d \in DOMAIN transactions ~>
            (d \in DOMAIN transactions => transactions[d].st = "END")

\* Unless it is shut down or cannot bind its socket, the daemon always comes
\* back to listening: from a full queue, a receive error, a reconfiguration.
ListensAgain ==
    []<>(mgr_state \in {"RUNNING", "INITTED"} \/ "shutdown" \in flags)
=============================================================================
