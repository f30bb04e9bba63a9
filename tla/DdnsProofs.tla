----------------------------- MODULE DdnsProofs -----------------------------
(***************************************************************************)
(* Proofs about Ddns: the sender neither loses, repeats nor reorders what  *)
(* it has queued, and does not sit on its queue; kea-dhcp-ddns behaves as  *)
(* D2 says when its requests come from such a sender.                      *)
(***************************************************************************)
EXTENDS Ddns, D2Proofs, SequenceTheorems

\* What of a queue has not been handed to the network when a send of its first request
\* is (not) under way.
Unsent(q, s) == IF s = "sent" THEN Tail(q) ELSE q

SenderInv ==
    /\ send_queue \in Seq(Requests) /\ net \in Seq(Requests)
    /\ accepted \in Seq(Requests) /\ shipped \in Seq(Requests)
    /\ ncr_to_send \in {"none", "sent", "failed"}
    /\ ncr_to_send # "none" => send_queue # <<>>
    /\ SenderKeepsGoing
    /\ SentOnceInOrder

\* The first of a queue moves to the end of what has been sent.
LEMMA HeadMoves ==
    ASSUME NEW S, NEW s \in Seq(S), NEW q \in Seq(S), q # <<>>
    PROVE  s \o q = Append(s, Head(q)) \o Tail(q)
<1>1. Head(q) \in S /\ Tail(q) \in Seq(S) /\ <<Head(q)>> \in Seq(S)
  BY HeadTailProperties
<1>2. q = <<Head(q)>> \o Tail(q)
  OBVIOUS
<1>3. s \o (<<Head(q)>> \o Tail(q)) = (s \o <<Head(q)>>) \o Tail(q)
  BY <1>1, ConcatAssociative
<1>4. Append(s, Head(q)) = s \o <<Head(q)>>
  BY Zenon, <1>1, AppendIsConcat
<1> QED
  BY Zenon, <1>2, <1>3, <1>4

\* sendNext() hands the first request of a queue to the network, or leaves it.
LEMMA SendingMoves ==
    ASSUME NEW q \in Seq(Requests), net \in Seq(Requests), shipped \in Seq(Requests),
           Sender!sendNext(q)
    PROVE  /\ ncr_to_send' \in {"none", "sent", "failed"}
           /\ ncr_to_send' # "none" <=> q # <<>>
           /\ net' \in Seq(Requests) /\ shipped' \in Seq(Requests)
           /\ shipped' \o Unsent(q, ncr_to_send') = shipped \o q
<1>1. CASE q = <<>> /\ ncr_to_send' = "none" /\ UNCHANGED <<net, shipped>>
  BY Zenon, <1>1 DEF Unsent
<1>2. CASE /\ q # <<>> /\ ncr_to_send' = "sent"
           /\ net' = Append(net, Head(q)) /\ shipped' = Append(shipped, Head(q))
  <2>1. Head(q) \in Requests
    BY Zenon, <1>2, HeadTailProperties
  <2>2. shipped \o q = Append(shipped, Head(q)) \o Tail(q)
    BY Zenon, <1>2, HeadMoves
  <2> QED
    BY Zenon, <1>2, <2>1, <2>2, AppendProperties DEF Unsent
<1>3. CASE q # <<>> /\ ncr_to_send' = "failed" /\ UNCHANGED <<net, shipped>>
  BY Zenon, <1>3 DEF Unsent
<1> QED
  BY Zenon, <1>1, <1>2, <1>3 DEF Sender!sendNext

\* stopSending() leaves the requests that have not been sent.
LEMMA FlushingKeeps ==
    ASSUME SenderInv
    PROVE  /\ Sender!flushed \in Seq(Requests)
           /\ accepted = shipped \o Sender!flushed
           /\ ncr_to_send # "sent" => Sender!flushed = send_queue
<1>1. send_queue # <<>> => Tail(send_queue) \in Seq(Requests)
  BY Zenon, HeadTailProperties DEF SenderInv
<1> QED
  BY Zenon, <1>1 DEF SenderInv, Sender!flushed, SentOnceInOrder, Sender!SentOnceInOrder

\* The invariant after a step that leaves the sender without a send under way.
LEMMA StoppedIsSound ==
    ASSUME sender' # "sending", ncr_to_send' = "none",
           send_queue' \in Seq(Requests), net' \in Seq(Requests),
           accepted' \in Seq(Requests), shipped' \in Seq(Requests),
           accepted' = shipped' \o send_queue'
    PROVE  SenderInv'
BY Zenon DEF SenderInv, SentOnceInOrder, Sender!SentOnceInOrder,
       SenderKeepsGoing, Sender!SenderKeepsGoing

\* The invariant after a step that ends with sendNext() on the queue q.
LEMMA SendingIsSound ==
    ASSUME NEW q \in Seq(Requests), net \in Seq(Requests), shipped \in Seq(Requests),
           Sender!sendNext(q), sender' = "sending", send_queue' = q,
           accepted' \in Seq(Requests), accepted' = shipped \o q
    PROVE  SenderInv'
<1>1. /\ ncr_to_send' \in {"none", "sent", "failed"}
      /\ ncr_to_send' # "none" <=> q # <<>>
      /\ net' \in Seq(Requests) /\ shipped' \in Seq(Requests)
      /\ shipped' \o Unsent(q, ncr_to_send') = shipped \o q
  BY Zenon, SendingMoves
<1>2. SentOnceInOrder'
  BY Zenon, <1>1 DEF Unsent, SentOnceInOrder, Sender!SentOnceInOrder
<1> QED
  BY Zenon, <1>1, <1>2 DEF SenderInv, SenderKeepsGoing, Sender!SenderKeepsGoing

\* The invariant when nothing it is about changes.
LEMMA UnchangedIsSound ==
    ASSUME SenderInv,
           UNCHANGED <<sender, send_queue, ncr_to_send, net, accepted, shipped>>
    PROVE  SenderInv'
BY Zenon DEF SenderInv, SentOnceInOrder, Sender!SentOnceInOrder,
       SenderKeepsGoing, Sender!SenderKeepsGoing

LEMMA GenerateIsSound ==
    ASSUME SenderInv, NEW ncr \in Requests, Sender!Generate(ncr)
    PROVE  SenderInv'
<1>1. CASE UNCHANGED <<config, sender, send_queue, ncr_to_send, net, accepted, shipped>>
  BY Zenon, <1>1, UnchangedIsSound
<1>2. CASE Sender!suspendUpdates /\ UNCHANGED <<net, accepted, shipped>>
  BY Zenon, <1>2, FlushingKeeps, StoppedIsSound DEF SenderInv, Sender!suspendUpdates
<1>3. CASE /\ sender = "sending"
           /\ send_queue' = Append(send_queue, ncr)
           /\ accepted' = Append(accepted, ncr)
           /\ IF ncr_to_send = "none" THEN Sender!sendNext(send_queue')
              ELSE UNCHANGED <<ncr_to_send, net, shipped>>
           /\ UNCHANGED <<config, sender>>
  <2>1. /\ Append(send_queue, ncr) \in Seq(Requests)
        /\ Append(accepted, ncr) \in Seq(Requests)
        /\ Append(send_queue, ncr) # <<>>
    BY AppendProperties DEF SenderInv
  <2>2. send_queue \in Seq(Requests) /\ shipped \in Seq(Requests)
    BY Zenon DEF SenderInv
  <2>3. Append(shipped \o send_queue, ncr) = shipped \o Append(send_queue, ncr)
    BY <2>2
  <2>4. CASE ncr_to_send = "none"
    <3>1. Append(accepted, ncr) = shipped \o Append(send_queue, ncr)
      BY Zenon, <2>3, <2>4 DEF SenderInv, SentOnceInOrder, Sender!SentOnceInOrder
    <3>2. Sender!sendNext(Append(send_queue, ncr))
      BY Zenon, <1>3, <2>4 DEF Sender!sendNext
    <3> QED
      BY Zenon, <1>3, <2>1, <3>1, <3>2, SendingIsSound DEF SenderInv
  <2>5. CASE ncr_to_send # "none"
    <3>1. send_queue # <<>> /\ Tail(send_queue) \in Seq(Requests)
      BY Zenon, <2>5, HeadTailProperties DEF SenderInv
    <3>2. Tail(Append(send_queue, ncr)) = Append(Tail(send_queue), ncr)
      BY Zenon, <3>1, HeadTailAppend DEF SenderInv
    <3>3. Append(shipped \o Tail(send_queue), ncr) = shipped \o Append(Tail(send_queue), ncr)
      BY <2>2, <3>1
    <3>4. SentOnceInOrder'
      BY Zenon, <1>3, <2>3, <2>5, <3>2, <3>3 DEF SenderInv, SentOnceInOrder, Sender!SentOnceInOrder
    <3> QED
      BY Zenon, <1>3, <2>1, <2>5, <3>4 DEF SenderInv, SenderKeepsGoing, Sender!SenderKeepsGoing
  <2> QED
    BY Zenon, <2>4, <2>5
<1> QED
  BY Zenon, <1>1, <1>2, <1>3 DEF Sender!Generate, Sender!history

LEMMA SendCompletedIsSound ==
    ASSUME SenderInv, Sender!SendCompleted
    PROVE  SenderInv'
<1>1. CASE /\ sender = "sending" /\ ncr_to_send = "sent"
           /\ send_queue' = Tail(send_queue) /\ Sender!sendNext(Tail(send_queue))
           /\ UNCHANGED <<config, sender, accepted>>
  <2>1. Tail(send_queue) \in Seq(Requests)
    BY Zenon, <1>1, HeadTailProperties DEF SenderInv
  <2>2. accepted = shipped \o Tail(send_queue)
    BY Zenon, <1>1 DEF SenderInv, SentOnceInOrder, Sender!SentOnceInOrder
  <2> QED
    BY Zenon, <1>1, <2>1, <2>2, SendingIsSound DEF SenderInv
<1>2. CASE Sender!suspendUpdates /\ UNCHANGED <<net, accepted, shipped>>
  BY Zenon, <1>2, FlushingKeeps, StoppedIsSound DEF SenderInv, Sender!suspendUpdates
<1> QED
  BY Zenon, <1>1, <1>2 DEF Sender!SendCompleted, Sender!history

LEMMA RestartIsSound ==
    ASSUME SenderInv, NEW new, NEW q \in Seq(Requests), Sender!startD2(new, q),
           accepted = shipped \o q, UNCHANGED accepted
    PROVE  SenderInv'
<1>1. CASE sender' = "sending" /\ send_queue' = q /\ Sender!sendNext(q)
  BY Zenon, <1>1, SendingIsSound DEF SenderInv
<1>2. CASE /\ sender' = "stopped" /\ send_queue' = q /\ ncr_to_send' = "none"
           /\ UNCHANGED <<net, shipped>>
  BY Zenon, <1>2, StoppedIsSound DEF SenderInv
<1> QED
  BY Zenon, <1>1, <1>2 DEF Sender!startD2

LEMMA ReconfigureIsSound ==
    ASSUME SenderInv, NEW new \in Configs, Sender!Reconfigure(new)
    PROVE  SenderInv'
<1>1. CASE UNCHANGED <<config, sender, send_queue, ncr_to_send, net, accepted, shipped>>
  BY Zenon, <1>1, UnchangedIsSound
<1>2. CASE /\ sender = "stopped" /\ Sender!startD2(new, send_queue)
           /\ UNCHANGED <<config, accepted>>
  <2>1. accepted = shipped \o send_queue /\ send_queue \in Seq(Requests)
    BY Zenon, <1>2 DEF SenderInv, SentOnceInOrder, Sender!SentOnceInOrder,
                SenderKeepsGoing, Sender!SenderKeepsGoing
  <2> QED
    BY Zenon, <1>2, <2>1, RestartIsSound
<1>3. CASE /\ sender' = "none" /\ send_queue' = <<>> /\ ncr_to_send' = "none"
           /\ accepted' = shipped /\ UNCHANGED <<net, shipped>>
  <2>1. shipped \o <<>> = shipped /\ <<>> \in Seq(Requests)
    BY Zenon, ConcatEmptySeq, EmptySeq DEF SenderInv
  <2> QED
    BY Zenon, <1>3, <2>1, StoppedIsSound DEF SenderInv
<1>4. CASE /\ sender' = "stopped" /\ send_queue' = Sender!flushed
           /\ ncr_to_send' = "none" /\ UNCHANGED <<net, accepted, shipped>>
  BY Zenon, <1>4, FlushingKeeps, StoppedIsSound DEF SenderInv
<1>5. CASE Sender!startD2(new, Sender!flushed) /\ UNCHANGED accepted
  BY Zenon, <1>5, FlushingKeeps, RestartIsSound
<1> QED
  BY Zenon, <1>1, <1>2, <1>3, <1>4, <1>5 DEF Sender!Reconfigure, Sender!history

\* SenderInv is inductive for the composition: D2 takes datagrams off the network and
\* leaves the sender alone.
LEMMA SenderInvariance == DdnsSpec => []SenderInv
<1>1. DdnsInit => SenderInv
  <2>1. <<>> \in Seq(Requests) /\ <<>> \o <<>> = <<>>
    BY Zenon, EmptySeq, ConcatEmptySeq
  <2> QED
    BY Zenon, <2>1 DEF DdnsInit, Sender!Init, SenderInv, SentOnceInOrder, Sender!SentOnceInOrder,
               SenderKeepsGoing, Sender!SenderKeepsGoing
<1>2. SenderInv /\ [DdnsNext]_ddnsVars => SenderInv'
  <2> SUFFICES ASSUME SenderInv, [DdnsNext]_ddnsVars
               PROVE  SenderInv'
    BY Zenon
  <2>1. ASSUME net # <<>>, net' = Tail(net),
               UNCHANGED <<sender, send_queue, ncr_to_send, accepted, shipped>>
        PROVE  SenderInv'
    <3>1. net' \in Seq(Requests)
      BY Zenon, <2>1, HeadTailProperties DEF SenderInv
    <3> QED
      BY Zenon, <2>1, <3>1 DEF SenderInv, SentOnceInOrder, Sender!SentOnceInOrder,
                        SenderKeepsGoing, Sender!SenderKeepsGoing
  <2>2. CASE Deliver
    BY Zenon, <2>1, <2>2 DEF Deliver
  <2>3. CASE Lose
    BY Zenon, <2>1, <2>3 DEF Lose
  <2>4. CASE D2Step
    BY Zenon, <2>4, UnchangedIsSound DEF D2Step, senderVars
  <2>5. CASE SenderStep
    BY Zenon, <2>5, GenerateIsSound, SendCompletedIsSound, ReconfigureIsSound
       DEF SenderStep, Sender!Next
  <2>6. CASE UNCHANGED ddnsVars
    BY Zenon, <2>6, UnchangedIsSound DEF ddnsVars, senderVars
  <2> QED
    BY Zenon, <2>2, <2>3, <2>4, <2>5, <2>6 DEF DdnsNext
<1> QED
  BY <1>1, <1>2, PTL DEF DdnsSpec

\* What a DHCP server has queued for kea-dhcp-ddns is sent once, in order, or waits its
\* turn, whatever becomes of its sender (NameChangeSender, D2ClientMgr).
THEOREM RequestsKeepTheirOrder == DdnsSpec => []SentOnceInOrder
<1>1. SenderInv => SentOnceInOrder
  BY Zenon DEF SenderInv
<1> QED
  BY <1>1, SenderInvariance, PTL

\* A sender that has something to send is sending it (NameChangeSender::sendNext).
THEOREM SenderIsNeverIdle == DdnsSpec => []SenderKeepsGoing
<1>1. SenderInv => SenderKeepsGoing
  BY Zenon DEF SenderInv
<1> QED
  BY <1>1, SenderInvariance, PTL

\* kea-dhcp-ddns behaves as D2 says when its requests come from a DHCP server: what is
\* delivered to it is a request the server generated, and nothing else touches its state.
\* What is proved and checked of D2 holds of it in the composed system.
THEOREM ServerDrivesD2 == DdnsSpec => FairSpec
<1>1. DdnsInit => Init
  BY Zenon DEF DdnsInit
<1>2. SenderInv /\ [DdnsNext]_ddnsVars => [Next]_vars
  <2> SUFFICES ASSUME SenderInv, [DdnsNext]_ddnsVars
               PROVE  Next \/ UNCHANGED vars
    BY Zenon
  <2>1. CASE Deliver
    <3>1. Head(net) \in Requests
      BY Zenon, <2>1, HeadTailProperties DEF Deliver, SenderInv
    <3> QED
      BY Zenon, <2>1, <3>1 DEF Deliver, Next
  <2>2. CASE Lose
    BY Zenon, <2>2 DEF Lose, d2Vars
  <2>3. CASE D2Step
    BY Zenon, <2>3 DEF D2Step, Next
  <2>4. CASE SenderStep
    BY Zenon, <2>4 DEF SenderStep, d2Vars
  <2>5. CASE UNCHANGED ddnsVars
    BY Zenon, <2>5 DEF ddnsVars, d2Vars
  <2> QED
    BY Zenon, <2>1, <2>2, <2>3, <2>4, <2>5 DEF DdnsNext
<1> QED
  BY <1>1, <1>2, SenderInvariance, PTL DEF DdnsSpec, FairSpec, Spec

-----------------------------------------------------------------------------
(* The DNS follows the server. *)

\* How many of the requests sent have been delivered, when none was lost.
Delivered == Len(shipped) - Len(net)

\* The n-th request sent is the last of its DHCID among the first k.
LastAmong(n, k) == \A j \in (n + 1)..k : Dhcid(shipped[j]) # Dhcid(shipped[n])

\* While no datagram is lost, those on their way are the last ones sent, and the last request
\* D2 has received for a DHCID is the last of that DHCID among those sent before.
NetInv ==
    /\ lost \in Nat
    /\ lost = 0 =>
           /\ Delivered \in Nat
           /\ \A i \in 1..Len(net) : net[i] = shipped[Delivered + i]
           /\ \A d \in DOMAIN last : \E n \in 1..Delivered :
                  /\ shipped[n] = last[d] /\ Dhcid(shipped[n]) = d
                  /\ LastAmong(n, Delivered)

\* The sender adds to both ends of the network, or leaves it.
LEMMA SenderShips ==
    ASSUME Sender!Next
    PROVE  \/ UNCHANGED <<net, shipped>>
           \/ \E ncr : net' = Append(net, ncr) /\ shipped' = Append(shipped, ncr)
BY Zenon DEF Sender!Next, Sender!Generate, Sender!SendCompleted, Sender!Reconfigure,
       Sender!startD2, Sender!sendNext, Sender!history

LEMMA ShippingKeepsNet ==
    ASSUME NetInv, SenderInv, SenderInv', UNCHANGED <<last, lost>>, NEW ncr,
           net' = Append(net, ncr), shipped' = Append(shipped, ncr)
    PROVE  NetInv'
<1>1. /\ Len(net) \in Nat /\ Len(shipped) \in Nat /\ net \in Seq(Requests)
      /\ shipped \in Seq(Requests)
  BY DEF SenderInv
<1>2. /\ Len(net') = Len(net) + 1 /\ Len(shipped') = Len(shipped) + 1
      /\ \A i \in 1..Len(net) : net'[i] = net[i]
      /\ \A i \in 1..Len(shipped) : shipped'[i] = shipped[i]
      /\ net'[Len(net) + 1] = ncr /\ shipped'[Len(shipped) + 1] = ncr
  BY <1>1
<1>3. Delivered' = Delivered /\ Delivered \in Int /\ Delivered <= Len(shipped)
  BY <1>1, <1>2 DEF Delivered
<1>4. SUFFICES ASSUME lost = 0
               PROVE  /\ \A i \in 1..Len(net') : net'[i] = shipped'[Delivered + i]
                      /\ \A d \in DOMAIN last : \E n \in 1..Delivered :
                             /\ shipped'[n] = last[d] /\ Dhcid(shipped'[n]) = d
                             /\ \A j \in (n + 1)..Delivered :
                                    Dhcid(shipped'[j]) # Dhcid(shipped'[n])
  BY ZenonT(30), <1>3 DEF NetInv, LastAmong
<1>5. ASSUME NEW i \in 1..Len(net')
      PROVE  net'[i] = shipped'[Delivered + i]
  <2>1. CASE i \in 1..Len(net)
    <3>1. net[i] = shipped[Delivered + i] /\ Delivered + i \in 1..Len(shipped)
      BY <1>1, <1>4, <2>1 DEF NetInv, Delivered
    <3> QED
      BY Zenon, <1>2, <2>1, <3>1
  <2>2. CASE i = Len(net) + 1
    <3>1. Delivered + i = Len(shipped) + 1
      BY <1>1, <2>2 DEF Delivered
    <3> QED
      BY Zenon, <1>2, <2>2, <3>1
  <2>3. Len(net) \in Nat /\ Len(net') = Len(net) + 1
    BY Zenon, <1>1, <1>2
  <2>4. i \in 1..Len(net) \/ i = Len(net) + 1
    BY <2>3
  <2> QED
    BY Zenon, <2>1, <2>2, <2>4
<1>6. ASSUME NEW d \in DOMAIN last
      PROVE  \E n \in 1..Delivered : /\ shipped'[n] = last[d] /\ Dhcid(shipped'[n]) = d
                                     /\ \A j \in (n + 1)..Delivered :
                                            Dhcid(shipped'[j]) # Dhcid(shipped'[n])
  <2>1. PICK n \in 1..Delivered : /\ shipped[n] = last[d] /\ Dhcid(shipped[n]) = d
                                  /\ LastAmong(n, Delivered)
    BY Zenon, <1>4 DEF NetInv
  <2>2. \A j \in 1..Delivered : shipped'[j] = shipped[j]
    BY <1>1, <1>2, <1>3
  <2>3. \A j \in (n + 1)..Delivered : j \in 1..Delivered
    BY <1>3
  <2> QED
    BY Zenon, <2>1, <2>2, <2>3 DEF LastAmong
<1> QED
  BY Zenon, <1>5, <1>6

\* A datagram that is delivered becomes the last request of its DHCID.
LEMMA DeliveryKeepsNet ==
    ASSUME NetInv, SenderInv, Deliver
    PROVE  NetInv'
<1>1. /\ Len(net) \in Nat /\ Len(shipped) \in Nat /\ net \in Seq(Requests)
      /\ shipped \in Seq(Requests) /\ net # <<>> /\ net' = Tail(net) /\ UNCHANGED shipped
  BY DEF SenderInv, Deliver
<1>2. /\ Len(net') = Len(net) - 1 /\ \A i \in 1..(Len(net) - 1) : net'[i] = net[i + 1]
      /\ Len(net) \in Nat \ {0} /\ Head(net) = net[1]
  BY <1>1
<1>3. Delivered' = Delivered + 1 /\ Delivered \in Int
  BY <1>1, <1>2 DEF Delivered
<1>4. lost' \in Nat /\ (lost' = 0 => lost = 0 /\ queue' # queue)
  BY DEF Deliver, NetInv
<1>5. queue' # queue => last' = Add(last, Dhcid(Head(net)), Head(net))
  BY Zenon DEF Deliver, Receive, enqueue
<1> DEFINE ncr == Head(net)
           e == Dhcid(ncr)
<1>6. SUFFICES ASSUME lost' = 0, last' = Add(last, e, ncr), lost = 0, Delivered \in Nat
               PROVE  /\ \A i \in 1..Len(net') : net'[i] = shipped[Delivered + 1 + i]
                      /\ \A d \in DOMAIN last' : \E n \in 1..(Delivered + 1) :
                             /\ shipped[n] = last'[d] /\ Dhcid(shipped[n]) = d
                             /\ LastAmong(n, Delivered + 1)
  BY <1>1, <1>3, <1>4, <1>5 DEF NetInv, LastAmong
<1>7. ncr = shipped[Delivered + 1]
  BY <1>2, <1>6 DEF NetInv
<1>8. ASSUME NEW i \in 1..Len(net')
      PROVE  net'[i] = shipped[Delivered + 1 + i]
  <2>1. i + 1 \in 1..Len(net) /\ net'[i] = net[i + 1] /\ Delivered + 1 + i = Delivered + (i + 1)
    BY <1>2, <1>6
  <2> QED
    BY Zenon, <1>6, <2>1 DEF NetInv
<1>9. ASSUME NEW d \in DOMAIN last'
      PROVE  \E n \in 1..(Delivered + 1) : /\ shipped[n] = last'[d] /\ Dhcid(shipped[n]) = d
                                           /\ LastAmong(n, Delivered + 1)
  <2>1. CASE d = e
    <3>1. last'[d] = ncr
      BY Zenon, <1>6, <2>1 DEF Add
    <3>2. LastAmong(Delivered + 1, Delivered + 1) /\ Delivered + 1 \in 1..(Delivered + 1)
      BY <1>6 DEF LastAmong
    <3> QED
      BY Zenon, <1>7, <2>1, <3>1, <3>2
  <2>2. CASE d # e
    <3>1. d \in DOMAIN last /\ last'[d] = last[d]
      BY Zenon, <1>6, <2>2 DEF Add
    <3>2. PICK n \in 1..Delivered : /\ shipped[n] = last[d] /\ Dhcid(shipped[n]) = d
                                    /\ LastAmong(n, Delivered)
      BY Zenon, <1>6, <3>1 DEF NetInv
    <3>3. ASSUME NEW j \in (n + 1)..(Delivered + 1)
          PROVE  Dhcid(shipped[j]) # Dhcid(shipped[n])
      <4>1. j \in (n + 1)..Delivered \/ j = Delivered + 1
        BY <1>6
      <4> QED
        BY Zenon, <1>7, <2>2, <3>2, <4>1 DEF LastAmong
    <3>4. n \in 1..(Delivered + 1)
      BY <1>6
    <3> QED
      BY Zenon, <3>1, <3>2, <3>3, <3>4 DEF LastAmong
  <2> QED
    BY Zenon, <2>1, <2>2
<1> QED
  BY Zenon, <1>8, <1>9

\* NetInv when nothing it is about changes.
LEMMA UnchangedKeepsNet ==
    ASSUME NetInv, UNCHANGED <<net, shipped, last, lost>>
    PROVE  NetInv'
BY DEF NetInv, Delivered, LastAmong

LEMMA NetInvariance == DdnsSpec => []NetInv
<1>1. DdnsInit => NetInv
  <2>1. DdnsInit => lost = 0 /\ Len(shipped) = 0 /\ Len(net) = 0 /\ DOMAIN last = {}
    BY DEF DdnsInit, Init, Sender!Init
  <2> QED
    BY <2>1 DEF NetInv, Delivered
<1>2. NetInv /\ SenderInv /\ SenderInv' /\ [DdnsNext]_ddnsVars => NetInv'
  <2> SUFFICES ASSUME NetInv, SenderInv, SenderInv', [DdnsNext]_ddnsVars
               PROVE  NetInv'
    BY Zenon
  <2>1. CASE Deliver
    BY Zenon, <2>1, DeliveryKeepsNet
  <2>2. CASE Lose
    BY <2>2 DEF Lose, NetInv
  <2>3. CASE D2Step
    <3>1. UNCHANGED last
      BY Zenon, <2>3 DEF D2Step, Iterate, Exit, PollEmpty, Cancelled, ReceiveError, ReceiveStopped,
                  Signal, SendUpdate, Response, NoResponse, DnsUpdate, history
    <3> QED
      BY Zenon, <2>3, <3>1, UnchangedKeepsNet DEF D2Step, senderVars
  <2>4. CASE SenderStep
    BY Zenon, <2>4, SenderShips, ShippingKeepsNet, UnchangedKeepsNet
    DEF SenderStep, d2Vars, vars, history
  <2>5. CASE UNCHANGED ddnsVars
    BY Zenon, <2>5, UnchangedKeepsNet DEF ddnsVars, senderVars, d2Vars, vars, history
  <2> QED
    BY Zenon, <2>1, <2>2, <2>3, <2>4, <2>5 DEF DdnsNext
<1> QED
  BY <1>1, <1>2, SenderInvariance, PTL DEF DdnsSpec

\* When all that was queued has been delivered, the last request the server queued for a
\* DHCID is the last one D2 received.
LEMMA LastIsLast ==
    ASSUME SenderInv, NetInv, send_queue = <<>>, net = <<>>, lost = 0, NEW d \in DOMAIN last
    PROVE  LastOf(d) = last[d]
<1>1. ncr_to_send = "none" /\ shipped \in Seq(Requests) /\ accepted = shipped \o <<>>
  BY Zenon DEF SenderInv, SentOnceInOrder, Sender!SentOnceInOrder
<1>2. accepted = shipped /\ Len(shipped) \in Nat
  BY <1>1, ConcatEmptySeq
<1>3. Delivered = Len(shipped)
  BY <1>2 DEF Delivered
<1> DEFINE S == {i \in 1..Len(accepted) : Dhcid(accepted[i]) = d}
<1>4. PICK n \in 1..Len(shipped) : /\ shipped[n] = last[d] /\ Dhcid(shipped[n]) = d
                                   /\ LastAmong(n, Len(shipped))
  BY Zenon, <1>3 DEF NetInv
<1>5. n \in S /\ \A i \in S : n >= i
  BY <1>2, <1>4 DEF LastAmong
<1>6. \A m \in S : (\A i \in S : m >= i) => m = n
  BY <1>2, <1>5
<1>7. Max(S) = n
  BY Zenon, <1>5, <1>6 DEF Max
<1> QED
  BY Zenon, <1>2, <1>4, <1>7 DEF LastOf

\* From the DHCP server to the DNS: for any number of clients, names and requests and any
\* limits of the queues, when all that the server queued has been through and nothing was
\* lost on the way, every name whose last transaction was completed says what the server
\* last asked for (D2ClientMgr, NameChangeSender, D2QueueMgr, D2UpdateMgr).
THEOREM DnsFollows == DdnsSpec => []DnsFollowsServer
<1>1. SenderInv /\ NetInv /\ OrderInv /\ LastRequestWins => DnsFollowsServer
  <2> SUFFICES ASSUME SenderInv, NetInv, OrderInv, LastRequestWins,
                      send_queue = <<>>, net = <<>>, queue = <<>>, lost = 0, delayed = 0,
                      DOMAIN transactions = {},
                      NEW d \in settled, "fwd" \in LastOf(d).dirs \cap Directions
               PROVE  Holds(LastOf(d))
    BY Zenon DEF DnsFollowsServer
  <2>1. LastOf(d) = last[d]
    BY Zenon, LastIsLast DEF OrderInv
  <2> QED
    BY <2>1 DEF LastRequestWins
<1> QED
  BY <1>1, SenderInvariance, NetInvariance, ServerDrivesD2, OrderInvariance, PTL DEF FairSpec
=============================================================================
