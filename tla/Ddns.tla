-------------------------------- MODULE Ddns --------------------------------
(***************************************************************************)
(* DDNS end to end: the sender of a DHCP server (NcrSender), the loopback  *)
(* UDP between them, kea-dhcp-ddns (D2) and the DNS server. A datagram is  *)
(* lost when kea-dhcp-ddns has no open socket.                             *)
(***************************************************************************)
EXTENDS D2

CONSTANTS Configs, MaxConfigs, SendFaults

VARIABLES config, sender, send_queue, ncr_to_send, net, generated, configured,
          accepted, shipped,
          lost              \* history: how many datagrams were

Sender == INSTANCE NcrSender

d2Vars == vars
senderVars == <<config, sender, send_queue, ncr_to_send, net, generated,
                configured, accepted, shipped>>
ddnsVars == <<d2Vars, senderVars, lost>>

DdnsInit == Init /\ Sender!Init /\ lost = 0

\* The datagram at the front of the socket's buffer.
Deliver ==
    /\ net # <<>>
    /\ Receive(Head(net))
    /\ net' = Tail(net)
    /\ lost' = IF queue' = queue THEN lost + 1 ELSE lost
    /\ UNCHANGED <<config, sender, send_queue, ncr_to_send, generated,
                   configured, accepted, shipped>>

\* No socket: the datagram is discarded. Closing a socket discards its buffer.
Lose ==
    /\ net # <<>> /\ listener # "open"
    /\ net' = Tail(net) /\ lost' = lost + 1
    /\ UNCHANGED <<d2Vars, config, sender, send_queue, ncr_to_send, generated,
                   configured, accepted, shipped>>

\* D2's steps, other than receiving a request from nowhere.
D2Step ==
    /\ \/ Iterate \/ Exit \/ PollEmpty \/ Cancelled
       \/ ReceiveError \/ ReceiveStopped \/ Signal
       \/ \E d \in DOMAIN transactions :
              SendUpdate(d) \/ Response(d) \/ NoResponse(d) \/ DnsUpdate(d)
    /\ UNCHANGED <<senderVars, lost>>

SenderStep == Sender!Next /\ UNCHANGED <<d2Vars, lost>>

DdnsNext == Deliver \/ Lose \/ D2Step \/ SenderStep

\* The sender's handlers run (its watch socket wakes the server), and the
\* datagrams it sends arrive or are lost.
DdnsSpec ==
    /\ DdnsInit /\ [][DdnsNext]_ddnsVars
    /\ Fairness
    /\ SF_ddnsVars(Deliver) /\ WF_ddnsVars(Lose)
    /\ WF_ddnsVars(Sender!SendCompleted /\ UNCHANGED <<d2Vars, lost>>)

-----------------------------------------------------------------------------
\* What the server has queued for D2 is sent once, in order, or waits its turn, across
\* failed sends, suspensions and reconfigurations of its sender (NameChangeSender).
SentOnceInOrder == Sender!SentOnceInOrder

\* The server's sender never sits on a queue: while it sends and has a request, a send is
\* under way whose completion starts the next one (sendNext, invokeSendHandler).
SenderKeepsGoing == Sender!SenderKeepsGoing

LastOf(d) == LET S == {i \in 1..Len(accepted) : Dhcid(accepted[i]) = d}
             IN  accepted[Max(S)]

\* The DNS follows the DHCP server: when every request has been through and
\* none was lost, refused or failed, and no update took effect after its
\* timeout, a name says what the server last asked for, in spite of lost DNS
\* messages and restarts of sender and listener.
DnsFollowsServer ==
    /\ send_queue = <<>> /\ net = <<>> /\ queue = <<>> /\ lost = 0 /\ delayed = 0
    /\ DOMAIN transactions = {}
    => \A d \in settled :
           "fwd" \in LastOf(d).dirs \cap Directions => Holds(LastOf(d))

\* A request the server queues gets through: it is dealt with by D2, unless
\* the sender was suspended, D2 was shut down, or its datagram was lost.
RequestsGetThrough ==
    send_queue # <<>> ~>
        \/ sender # "sending" \/ lost > 0 \/ "shutdown" \in flags
        \/ /\ send_queue = <<>> /\ queue = <<>>
           /\ \A d \in DOMAIN transactions : transactions[d].st = "END"
=============================================================================
