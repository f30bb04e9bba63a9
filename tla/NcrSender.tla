------------------------------ MODULE NcrSender ------------------------------
(***************************************************************************)
(* The DHCP servers' side of DDNS: D2ClientMgr, and NameChangeUDPSender    *)
(* with the queue of requests waiting to be sent to kea-dhcp-ddns. One     *)
(* request at a time is handed to the socket; it stays at the front of the *)
(* queue until its completion handler has run.                             *)
(***************************************************************************)
EXTENDS Naturals, Sequences

CONSTANTS
    Requests,       \* the NameChangeRequests the server may generate
    MaxRequests,    \* bound: how many
    Configs,        \* D2ClientConfigs: records with enable ("on", "off"), max
    MaxConfigs,     \* bound: how many times the server is reconfigured
    SendFaults      \* which of "send", "open" may happen

VARIABLES
    config,         \* D2ClientMgr::d2_client_config_
    sender,         \* "none", "stopped" or "sending"
    send_queue,     \* NameChangeSender::send_queue_
    ncr_to_send,    \* "none", or how the send of the front request ends:
                    \* "sent" or "failed"
    net,            \* datagrams on their way
    generated, configured,  \* inputs so far
    accepted,       \* history: the requests put on the queue, in order
    shipped         \* history: the requests handed to the network, in order

history == <<accepted, shipped>>
vars == <<config, sender, send_queue, ncr_to_send, net, generated, configured,
          history>>

Init ==
    /\ config \in Configs /\ config.enable = "on"
    /\ sender = "sending" /\ send_queue = <<>> /\ ncr_to_send = "none"
    /\ net = <<>> /\ generated = 0 /\ configured = 0
    /\ accepted = <<>> /\ shipped = <<>>

\* sendNext() with the queue q: the socket takes the datagram, or fails.
sendNext(q) ==
    \/ /\ q = <<>> /\ ncr_to_send' = "none"
       /\ UNCHANGED <<net, shipped>>
    \/ /\ q # <<>> /\ ncr_to_send' = "sent"
       /\ net' = Append(net, Head(q)) /\ shipped' = Append(shipped, Head(q))
    \/ /\ q # <<>> /\ "send" \in SendFaults /\ ncr_to_send' = "failed"
       /\ UNCHANGED <<net, shipped>>

\* Mutant: the outstanding send is not waited for.
notFlushed == send_queue

\* stopSending(): the completion handler of an outstanding send is run first
\* (runReadyIO), which takes a request that was sent off the queue.
flushed == IF ncr_to_send = "sent" THEN Tail(send_queue) ELSE send_queue

\* suspendUpdates(), the error handler of the servers: off until reconfigured.
suspendUpdates ==
    /\ config' = [config EXCEPT !.enable = "off"]
    /\ sender' = "stopped"
    /\ send_queue' = flushed /\ ncr_to_send' = "none"

\* queueNCR(), D2ClientMgr::sendRequest(), NameChangeSender::sendRequest(): a
\* request that finds updates off or the sender stopped is lost, one that finds
\* the queue full is lost and suspends the updates.
Generate(ncr) ==
    /\ generated < MaxRequests /\ generated' = generated + 1
    /\ \/ /\ config.enable = "off" \/ sender # "sending"
          /\ UNCHANGED <<config, sender, send_queue, ncr_to_send, net, history>>
       \/ /\ config.enable = "on" /\ sender = "sending"
          /\ Len(send_queue) >= config.max
          /\ suspendUpdates
          /\ UNCHANGED <<net, history>>
       \/ /\ config.enable = "on" /\ sender = "sending"
          /\ Len(send_queue) < config.max
          /\ send_queue' = Append(send_queue, ncr)
          /\ accepted' = Append(accepted, ncr)
          /\ IF ncr_to_send = "none" THEN sendNext(send_queue')
             ELSE UNCHANGED <<ncr_to_send, net, shipped>>
          /\ UNCHANGED <<config, sender>>
    /\ UNCHANGED configured

\* Mutant: the next request waits for another one to be generated.
SendCompletedIdle ==
    /\ sender = "sending"
    /\ ncr_to_send = "sent"
    /\ send_queue' = Tail(send_queue) /\ ncr_to_send' = "none"
    /\ UNCHANGED <<config, sender, net, generated, configured, history>>

\* sendCompletionHandler() and invokeSendHandler()
SendCompleted ==
    /\ sender = "sending"
    /\ \/ /\ ncr_to_send = "sent"
          /\ send_queue' = Tail(send_queue)
          /\ sendNext(Tail(send_queue))
          /\ UNCHANGED <<config, sender, accepted>>
       \/ /\ ncr_to_send = "failed"
          /\ suspendUpdates
          /\ UNCHANGED <<net, history>>
    /\ UNCHANGED <<generated, configured>>

\* startD2() with the queue q: the sender is started when updates are enabled.
startD2(new, q) ==
    \/ /\ new.enable = "on"
       /\ sender' = "sending" /\ send_queue' = q
       /\ sendNext(q)
    \/ /\ new.enable = "on" /\ "open" \in SendFaults
       /\ sender' = "stopped" /\ send_queue' = q /\ ncr_to_send' = "none"
       /\ UNCHANGED <<net, shipped>>

\* D2ClientMgr::setD2ClientConfig(), then startD2(): a new sender takes over
\* the queue of the old one, if it fits.
Reconfigure(new) ==
    /\ configured < MaxConfigs /\ configured' = configured + 1
    /\ \/ /\ new = config /\ (sender = "sending" \/ new.enable = "off")
          /\ UNCHANGED <<config, sender, send_queue, ncr_to_send, net, history>>
       \/ /\ new = config /\ sender = "stopped"
          /\ startD2(new, send_queue)
          /\ UNCHANGED <<config, accepted>>
       \/ /\ new # config /\ new.enable = "off"
          /\ config' = new
          /\ sender' = "none" /\ send_queue' = <<>> /\ ncr_to_send' = "none"
          /\ accepted' = shipped       \* the queued requests are tossed
          /\ UNCHANGED <<net, shipped>>
       \/ /\ new # config /\ new.enable = "on" /\ new.max < Len(flushed)
          /\ sender' = "stopped"       \* assumeQueue() throws
          /\ send_queue' = flushed /\ ncr_to_send' = "none"
          /\ config' = IF ncr_to_send = "failed"
                       THEN [config EXCEPT !.enable = "off"] ELSE config
          /\ UNCHANGED <<net, history>>
       \/ /\ new # config /\ new.enable = "on" /\ new.max >= Len(flushed)
          /\ config' = new
          /\ startD2(new, flushed)
          /\ UNCHANGED accepted
    /\ UNCHANGED generated

Next == \/ \E ncr \in Requests : Generate(ncr)
        \/ SendCompleted
        \/ \E new \in Configs : Reconfigure(new)

-----------------------------------------------------------------------------
\* Every request put on the queue is sent once, in order, or still waits its
\* turn, across failures, suspensions and changes of sender. (At the front of
\* the queue is the request being sent, which may already be on its way.)
SentOnceInOrder ==
    accepted = shipped \o (IF ncr_to_send = "sent" THEN Tail(send_queue)
                                                   ELSE send_queue)

\* Requests do not wait for nothing: a sender that is sending and has a queue
\* has a send under way, whose completion starts the next one.
SenderKeepsGoing ==
    /\ sender = "sending" => (send_queue # <<>> <=> ncr_to_send # "none")
    /\ sender # "sending" => ncr_to_send = "none"
=============================================================================
