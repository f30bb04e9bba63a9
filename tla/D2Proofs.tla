------------------------------ MODULE D2Proofs ------------------------------
(***************************************************************************)
(* Proofs about D2, for any requests, queue size, number of transactions   *)
(* and DNS servers: the limits are kept, the queue manager's state tells   *)
(* whether the daemon listens, a name in use is left to its owner, what a  *)
(* transaction has done in the forward zone is there until it ends, and    *)
(* requests take effect in the order they were received.                   *)
(***************************************************************************)
EXTENDS D2, FiniteSetTheorems, WellFoundedInduction, SequenceTheorems,
        TLAPS

-----------------------------------------------------------------------------
(* The queue manager. *)

\* A stop ends in a state in which the daemon neither listens nor waits.
StopTargets == MgrStates \ {"RUNNING", "STOPPING"}

ListenerInv ==
    /\ mgr_state \in MgrStates
    /\ target_stop_state \in StopTargets
    /\ listener \in {"none", "closed", "open"}
    /\ io_pending \in {{}, {"recv"}}
    /\ StateTellsListening

\* startListening() leaves a manager that was not running in its state, or listening.
LEMMA StartKeeps ==
    ASSUME NEW state \in StopTargets, startListening(state),
           target_stop_state \in StopTargets, UNCHANGED target_stop_state
    PROVE  ListenerInv'
BY Zenon DEF startListening, ListenerInv, StateTellsListening, StopTargets, MgrStates

\* stopListening() leaves it stopped, or stopping while a receive is outstanding.
LEMMA StopKeeps ==
    ASSUME NEW target \in StopTargets, NEW pending \in {{}, {"recv"}},
           stopListening(target, pending)
    PROVE  ListenerInv'
BY Zenon DEF stopListening, ListenerInv, StateTellsListening, StopTargets, MgrStates

LEMMA EnqueueKeepsListener ==
    ASSUME ListenerInv, NEW ncr, enqueue(ncr)
    PROVE  ListenerInv'
<1>1. CASE Len(queue) < MaxQueueSize
  BY Zenon, <1>1 DEF enqueue, ListenerInv, StateTellsListening, queueMgr
<1>2. CASE ~(Len(queue) < MaxQueueSize)
  BY Zenon, <1>2, StopKeeps DEF enqueue, StopTargets, MgrStates
<1> QED
  BY Zenon, <1>1, <1>2

LEMMA StatusKeepsListener ==
    ASSUME ListenerInv, checkQueueStatus
    PROVE  ListenerInv'
<1>1. CASE mgr_state = "RUNNING" /\ flags # {}
  <2>1. stopListening("STOPPED", io_pending)
    BY Zenon, <1>1 DEF checkQueueStatus
  <2> QED
    BY Zenon, <2>1, StopKeeps DEF StopTargets, MgrStates, ListenerInv
<1>2. CASE mgr_state = "STOPPED_QUEUE_FULL" /\ Len(queue) <= threshold
  <2>1. startListening("STOPPED_QUEUE_FULL") /\ UNCHANGED target_stop_state
    BY Zenon, <1>2 DEF checkQueueStatus
  <2> QED
    BY Zenon, <2>1, StartKeeps DEF StopTargets, MgrStates, ListenerInv
<1>3. CASE reconfigureQueueMgr
  BY Zenon, <1>3, StartKeeps DEF reconfigureQueueMgr, StopTargets, MgrStates, ListenerInv
<1>4. CASE UNCHANGED <<queueMgr, flags>>
  BY Zenon, <1>4 DEF ListenerInv, StateTellsListening, queueMgr
<1> QED
  BY Zenon, <1>1, <1>2, <1>3, <1>4 DEF checkQueueStatus

LEMMA StepKeepsListener ==
    ASSUME ListenerInv, [Next]_vars
    PROVE  ListenerInv'
<1> USE DEF queueMgr
<1>1. CASE UNCHANGED queueMgr
  BY Zenon, <1>1 DEF ListenerInv, StateTellsListening
<1>2. CASE Iterate
  BY Zenon, <1>2, StatusKeepsListener DEF Iterate
<1>3. ASSUME NEW ncr \in Requests, Receive(ncr)
      PROVE  ListenerInv'
  BY Zenon, <1>3, EnqueueKeepsListener DEF Receive
<1>4. CASE ReceiveError
  BY Zenon, <1>4, StopKeeps DEF ReceiveError, StopTargets, MgrStates
<1>5. CASE ReceiveStopped
  BY Zenon, <1>5 DEF ReceiveStopped, ListenerInv, StateTellsListening, StopTargets, MgrStates
<1> QED
  BY Zenon, <1>1, <1>2, <1>3, <1>4, <1>5
  DEF Next, vars, Exit, PollEmpty, Cancelled, ReceiveInvalid, Signal, SendUpdate,
      Response, NoResponse, DnsUpdate, DnsLateUpdate

\* D2QueueMgr: whatever is received, fails or is signalled, and in whatever order the
\* handlers run, the state of the manager is RUNNING exactly while it listens and
\* STOPPING exactly while the cancelled receive is outstanding.
THEOREM ListeningIsKnown == Spec => []StateTellsListening
<1>1. Init => ListenerInv
  BY Zenon DEF Init, ListenerInv, StateTellsListening, MgrStates, StopTargets
<1>2. ListenerInv /\ [Next]_vars => ListenerInv'
  BY Zenon, StepKeepsListener
<1>3. ListenerInv => StateTellsListening
  BY Zenon DEF ListenerInv
<1> QED
  BY <1>1, <1>2, <1>3, PTL DEF Spec

-----------------------------------------------------------------------------
(* The transactions. *)

\* A transaction waits for an exchange unless it has ended.
Sound(t) ==
    /\ t \in Transaction
    /\ t.io = "none" <=> t.st = "END"

\* What a handler makes of a transaction is one, for the same request.
Follows(t, u) == Sound(u) /\ u.ncr = t.ncr

UpdateStates == FwdStates \cup RevStates

LEMMA SendKeeps ==
    ASSUME NEW t \in Transaction, t.st \in UpdateStates, t.tries < MaxTries
    PROVE  Follows(t, sendUpdate(t))
<1> DEFINE k == t.tries + 1
           u == [t EXCEPT !.tries = k, !.io = "posted", !.rcode = "none"]
<1>1. k \in 0..MaxTries
  BY TransactionAssumption DEF Transaction
<1> HIDE DEF k
<1>2. u \in Transaction
  BY Zenon, <1>1 DEF Transaction
<1>3. u.io = "posted" /\ u.st = t.st /\ u.ncr = t.ncr /\ t.st # "END"
  BY Zenon DEF Transaction, UpdateStates, FwdStates, RevStates
<1>4. u = sendUpdate(t)
  BY Zenon DEF sendUpdate, k
<1> HIDE DEF u
<1> QED
  BY Zenon, <1>2, <1>3, <1>4 DEF Follows, Sound

LEMMA EnterKeeps ==
    ASSUME NEW t \in Transaction, NEW st \in UpdateStates
    PROVE  Follows(t, enter(t, st))
<1> DEFINE u == [t EXCEPT !.st = st, !.tries = 0]
<1>0. 0 \in 0..MaxTries
  BY TransactionAssumption
<1>1. u \in Transaction /\ u.st = st /\ u.tries = 0 /\ u.ncr = t.ncr
  BY Zenon, <1>0 DEF Transaction, UpdateStates
<1>2. u.tries < MaxTries
  BY <1>1, TransactionAssumption
<1>3. enter(t, st) = sendUpdate(u)
  BY Zenon DEF enter
<1> QED
  BY Zenon, <1>1, <1>2, <1>3, SendKeeps DEF Follows

LEMMA EndKeeps ==
    ASSUME NEW t \in Transaction, NEW status \in {"COMPLETED", "FAILED"}
    PROVE  Follows(t, endModel(t, status))
BY Zenon DEF Transaction, Follows, Sound, endModel

LEMMA FailedKeeps ==
    ASSUME NEW t \in Transaction
    PROVE  Follows(t, processFailed(t)) /\ Follows(t, processOk(t))
BY Zenon, EndKeeps DEF processFailed, processOk

LEMMA SelectKeeps ==
    ASSUME NEW t \in Transaction
    PROVE  Follows(t, selectFwdServer(t)) /\ Follows(t, selectRevServer(t))
<1> DEFINE k == t.server + 1
           u == [t EXCEPT !.server = k]
<1>1. ASSUME k \in 0..(FwdServers + RevServers), NEW st \in UpdateStates
      PROVE  Follows(t, enter(u, st))
  <2> HIDE DEF k
  <2>1. u \in Transaction /\ u.ncr = t.ncr
    BY Zenon, <1>1 DEF Transaction
  <2> QED
    BY Zenon, <2>1, EnterKeeps DEF Follows
<1>2. ASSUME t.server < FwdServers
      PROVE  Follows(t, selectFwdServer(t))
  <2>1. k \in 0..(FwdServers + RevServers)
    BY <1>2, TransactionAssumption DEF Transaction
  <2> DEFINE st == IF t.ncr.chg = "add" THEN "ADDING_FWD_ADDRS" ELSE "REMOVING_FWD_ADDRS"
  <2>2. st \in UpdateStates
    BY Zenon DEF UpdateStates, FwdStates
  <2>3. selectFwdServer(t) = enter(u, st)
    BY Zenon, <1>2 DEF selectFwdServer
  <2> HIDE DEF st, u, k
  <2> QED
    BY Zenon, <1>1, <2>1, <2>2, <2>3
<1>3. ASSUME t.server < RevServers
      PROVE  Follows(t, selectRevServer(t))
  <2>1. k \in 0..(FwdServers + RevServers)
    BY <1>3, TransactionAssumption DEF Transaction
  <2> DEFINE st == IF t.ncr.chg = "add" THEN "REPLACING_REV_PTRS" ELSE "REMOVING_REV_PTRS"
  <2>2. st \in UpdateStates
    BY Zenon DEF UpdateStates, RevStates
  <2>3. selectRevServer(t) = enter(u, st)
    BY Zenon, <1>3 DEF selectRevServer
  <2> HIDE DEF st, u, k
  <2> QED
    BY Zenon, <1>1, <2>1, <2>2, <2>3
<1> QED
  BY Zenon, <1>2, <1>3, FailedKeeps DEF selectFwdServer, selectRevServer

LEMMA StartKeepsRequest ==
    ASSUME NEW t \in Transaction
    PROVE  Follows(t, startFwd(t)) /\ Follows(t, startRev(t))
<1> DEFINE u == [t EXCEPT !.server = 0]
<1>1. u \in Transaction /\ u.ncr = t.ncr
  BY TransactionAssumption DEF Transaction
<1> QED
  BY Zenon, <1>1, SelectKeeps DEF startFwd, startRev, Follows

\* A transaction starts with the request it is made for.
LEMMA StartIsSound ==
    ASSUME NEW ncr \in NameChangeRequest
    PROVE  Sound(startTransaction(ncr)) /\ startTransaction(ncr).ncr = ncr
<1> DEFINE t == [ncr |-> ncr, st |-> "END", server |-> 0, tries |-> 0,
                 done |-> {}, status |-> "PENDING", io |-> "none",
                 rcode |-> "none"]
<1>1. t \in Transaction /\ t.ncr = ncr
  BY TransactionAssumption DEF Transaction
<1>2. startTransaction(ncr) = IF "fwd" \in ncr.dirs THEN startFwd(t) ELSE startRev(t)
  BY Zenon DEF startTransaction
<1> HIDE DEF t
<1> QED
  BY Zenon, <1>1, <1>2, StartKeepsRequest DEF Follows

LEMMA CompletedKeeps ==
    ASSUME NEW t \in Transaction
    PROVE  Follows(t, fwdCompleted(t)) /\ Follows(t, revCompleted(t))
<1> DEFINE u == [t EXCEPT !.done = @ \cup {"fwd"}]
           v == [t EXCEPT !.done = @ \cup {"rev"}]
<1>1. u \in Transaction /\ u.ncr = t.ncr /\ v \in Transaction /\ v.ncr = t.ncr
  BY Zenon DEF Transaction
<1>2. fwdCompleted(t) = IF "rev" \in t.ncr.dirs THEN startRev(u) ELSE processOk(u)
  BY Zenon DEF fwdCompleted
<1>3. revCompleted(t) = processOk(v)
  BY Zenon DEF revCompleted
<1> HIDE DEF u, v
<1> QED
  BY <1>1, <1>2, <1>3, StartKeepsRequest, FailedKeeps DEF Follows

LEMMA RetryKeeps ==
    ASSUME NEW t \in Transaction, t.st \in UpdateStates, NEW failed, Follows(t, failed)
    PROVE  Follows(t, retryTransition(t, failed))
BY Zenon, SendKeeps DEF retryTransition

\* Every answer, or none, leads on to a transaction for the same request.
LEMMA HandlersKeep ==
    ASSUME NEW t \in Transaction, t.st \in UpdateStates
    PROVE  Follows(t, ioCompleted(t))
<1>1. /\ Follows(t, retryTransition(t, selectFwdServer(t)))
      /\ Follows(t, retryTransition(t, selectRevServer(t)))
      /\ Follows(t, retryTransition(t, processFailed(t)))
  BY Zenon, RetryKeeps, SelectKeeps, FailedKeeps
<1>2. Follows(t, addingFwdAddrsHandler(t)) /\ Follows(t, replacingFwdAddrsHandler(t))
  BY Zenon, <1>1, CompletedKeeps, EnterKeeps, FailedKeeps
  DEF addingFwdAddrsHandler, replacingFwdAddrsHandler, UpdateStates, FwdStates
<1>3. Follows(t, removingFwdAddrsHandler(t)) /\ Follows(t, removingFwdRRsHandler(t))
  BY Zenon, <1>1, CompletedKeeps, EnterKeeps, FailedKeeps
  DEF removingFwdAddrsHandler, removingFwdRRsHandler, UpdateStates, FwdStates
<1>4. Follows(t, replacingRevPtrsHandler(t)) /\ Follows(t, removingRevPtrsHandler(t))
  BY Zenon, <1>1, CompletedKeeps, FailedKeeps
  DEF replacingRevPtrsHandler, removingRevPtrsHandler
<1> QED
  BY Zenon, <1>2, <1>3, <1>4 DEF ioCompleted, UpdateStates, FwdStates, RevStates

-----------------------------------------------------------------------------
(* The updates. *)

ForwardRRs == AddressTypes \X Addrs \cup {"DHCID"} \X Dhcids
ReverseRRs == {"PTR"} \X Names \cup {"DHCID"} \X Dhcids

\* An update of a forward domain asks for a name that is not in use, or for the DHCID
\* of its own request.
Asks(u, d) == u.inUse = "no" \/ u.exact = {<<"DHCID", d>>}

SoundUpdate(u) ==
    /\ u.zone \in {"fwd", "rev"}
    /\ u.zone = "fwd" => /\ u.name \in Names /\ u.added \subseteq ForwardRRs
                         /\ \E d \in Dhcids : Asks(u, d)
    /\ u.zone = "rev" => u.name \in Addrs /\ u.added \subseteq ReverseRRs

LEMMA UpdateIsSound ==
    ASSUME NEW t \in Transaction, t.st \in UpdateStates
    PROVE  /\ SoundUpdate(Update(t))
           /\ Update(t).zone = "fwd" => Asks(Update(t), Dhcid(t.ncr))
<1> DEFINE n == t.ncr
<1>0. n \in NameChangeRequest
  BY Zenon DEF Transaction
<1>1. /\ Dhcid(n) \in Dhcids /\ n.fqdn \in Names /\ n.addr \in Addrs
      /\ AddressRR(n) \in ForwardRRs /\ DhcidRR(n) \in ForwardRRs
      /\ PtrRR(n) \in ReverseRRs /\ DhcidRR(n) \in ReverseRRs
      /\ DhcidRR(n) = <<"DHCID", Dhcid(n)>>
  BY Zenon, <1>0 DEF NameChangeRequest, Dhcid, Dhcids, AddressRR, DhcidRR, PtrRR, ForwardRRs,
              ReverseRRs, AddressTypes
<1> DEFINE Good(u) == SoundUpdate(u) /\ (u.zone = "fwd" => Asks(u, Dhcid(n)))
<1> HIDE DEF n
<1>2. Good(buildAddFwdAddressRequest(n))
  BY Zenon, <1>1 DEF buildAddFwdAddressRequest, prepNewRequest, SoundUpdate, Asks
<1>3. Good(buildReplaceFwdAddressRequest(n))
  BY Zenon, <1>1 DEF buildReplaceFwdAddressRequest, prepNewRequest, SoundUpdate, Asks
<1>4. Good(buildRemoveFwdAddressRequest(n))
  BY Zenon, <1>1 DEF buildRemoveFwdAddressRequest, prepNewRequest, SoundUpdate, Asks
<1>5. Good(buildRemoveFwdRRsRequest(n))
  BY Zenon, <1>1 DEF buildRemoveFwdRRsRequest, prepNewRequest, SoundUpdate, Asks
<1>6. Good(buildReplaceRevPtrsRequest(n))
  BY Zenon, <1>1 DEF buildReplaceRevPtrsRequest, prepNewRequest, SoundUpdate
<1>7. Good(buildRemoveRevPtrsRequest(n))
  BY Zenon, <1>1 DEF buildRemoveRevPtrsRequest, prepNewRequest, SoundUpdate
<1> HIDE DEF Good
<1>8. Good(Update(t))
  BY Zenon, <1>2, <1>3, <1>4, <1>5, <1>6, <1>7
  DEF Update, UpdateStates, FwdStates, RevStates, n
<1> QED
  BY Zenon, <1>8 DEF Good, n

\* A name in use is changed only by an update that names its DHCID.
LEMMA AnswerIsOwners ==
    ASSUME NEW rrs, rrs # {}, NEW u, NEW d, Asks(u, d), Prerequisites(rrs, u) = "NOERROR"
    PROVE  <<"DHCID", d>> \in rrs /\ <<"DHCID", d>> \in u.exact
<1>1. u.inUse # "no"
  BY Zenon DEF Prerequisites
<1>2. u.exact = {<<"DHCID", d>>}
  BY Zenon, <1>1 DEF Asks
<1>3. ~ \E r \in u.exact : {q \in rrs : q[1] = r[1]} # {r}
  BY Zenon, <1>1 DEF Prerequisites
<1> QED
  BY Zenon, <1>2, <1>3

-----------------------------------------------------------------------------
(* Sequences and sets. *)

LEMMA MinIsLeast ==
    ASSUME NEW S \in SUBSET Nat, S # {}
    PROVE  Min(S) \in S /\ \A y \in S : Min(S) <= y
<1> DEFINE R == OpToRel(<, Nat)
<1>1. PICK x \in S : \A y \in S : ~ (<<y, x>> \in R)
  <2>1. IsWellFoundedOn(R, Nat)
    BY Zenon, NatLessThanWellFounded
  <2> HIDE DEF R
  <2> QED
    BY Zenon, <2>1, WFMin
<1>2. \A a, b \in Nat : <<a, b>> \in R <=> a < b
  BY Zenon DEF OpToRel
<1> HIDE DEF R
<1>3. \A y \in S : x \in Nat /\ y \in Nat /\ ~ (y < x)
  BY <1>1, <1>2, Zenon
<1>4. \A y \in S : x <= y
  BY <1>3
<1> QED
  BY Zenon, <1>4 DEF Min

LEMMA DequeueKeeps ==
    ASSUME NEW T, NEW s \in Seq(T), NEW i \in 1..Len(s)
    PROVE  dequeueAt(s, i) \in Seq(T) /\ Len(dequeueAt(s, i)) = Len(s) - 1
<1> DEFINE a == SubSeq(s, 1, i - 1)
           b == SubSeq(s, i + 1, Len(s))
<1>1. /\ a \in Seq(T) /\ Len(a) = i - 1
      /\ b \in Seq(T) /\ Len(b) = Len(s) - i
  OBVIOUS
<1>2. dequeueAt(s, i) = a \o b
  BY Zenon DEF dequeueAt
<1> HIDE DEF a, b
<1>3. a \o b \in Seq(T) /\ Len(a \o b) = Len(a) + Len(b)
  BY Zenon, <1>1, ConcatProperties
<1>4. i - 1 + (Len(s) - i) = Len(s) - 1
  OBVIOUS
<1> QED
  BY Zenon, <1>1, <1>2, <1>3, <1>4

-----------------------------------------------------------------------------
(* The invariant of the transactions, the queue and the zones. *)

\* The transaction of a DHCID is one of a request with that DHCID.
Own(d, t) == Sound(t) /\ Dhcid(t.ncr) = d

SoundList(list) ==
    /\ DOMAIN list \subseteq Dhcids /\ IsFiniteSet(DOMAIN list)
    /\ Cardinality(DOMAIN list) <= MaxTransactions
    /\ \A d \in DOMAIN list : Own(d, list[d])

WorkInv ==
    /\ queue \in Seq(NameChangeRequest) /\ Len(queue) <= MaxQueueSize
    /\ SoundList(transactions)

DnsInv ==
    /\ fwd \in [Names -> SUBSET ForwardRRs]
    /\ rev \in [Addrs -> SUBSET ReverseRRs]
    /\ \A u \in late : SoundUpdate(u)

LoopInv ==
    /\ flags \subseteq {"reconf", "shutdown"}
    /\ cancelled \subseteq {"fetch"} /\ loop \in LoopStates
    /\ received \in 0..MaxRequests /\ signals \in Seq(Signals)

IInv == ListenerInv /\ WorkInv /\ DnsInv /\ LoopInv

\* The outcomes of a step of a transaction are transactions for the same request.
LEMMA OutcomesFollow ==
    ASSUME NEW t, Sound(t), NEW u \in Outcomes(t)
    PROVE  Follows(t, u)
<1>1. Follows(t, t) /\ Follows(t, processFailed(t))
  BY Zenon, FailedKeeps DEF Follows, Sound
<1> QED
  BY Zenon, <1>1 DEF Outcomes

\* checkFinishedTransactions() takes away, and changes nothing else.
LEMMA UnfinishedIsSound ==
    ASSUME WorkInv
    PROVE  /\ SoundList(Unfinished)
           /\ DOMAIN Unfinished \subseteq DOMAIN transactions
<1> DEFINE S == DOMAIN transactions \ {d \in DOMAIN transactions : transactions[d].st = "END"}
<1>1. Unfinished = [x \in S |-> transactions[x]]
  BY Zenon DEF Unfinished, Drop
<1>2. S \subseteq DOMAIN transactions
  BY Zenon
<1>3. IsFiniteSet(S) /\ Cardinality(S) <= MaxTransactions
  <2>1. IsFiniteSet(S) /\ Cardinality(S) <= Cardinality(DOMAIN transactions)
    BY Zenon, <1>2, FS_Subset DEF WorkInv, SoundList
  <2>2. Cardinality(S) \in Nat /\ Cardinality(DOMAIN transactions) \in Nat
    BY Zenon, <2>1, FS_CardinalityType DEF WorkInv, SoundList
  <2> QED
    BY <2>1, <2>2, D2Assumption DEF WorkInv, SoundList
<1> HIDE DEF S
<1> QED
  BY Zenon, <1>1, <1>2, <1>3 DEF SoundList, WorkInv

\* The transaction a request is given is one more, for its own DHCID.
LEMMA MadeIsSound ==
    ASSUME WorkInv, NEW ncr \in NameChangeRequest,
           Cardinality(DOMAIN Unfinished) < MaxTransactions, makeTransaction(ncr)
    PROVE  SoundList(transactions')
<1> DEFINE e == Enabled(ncr)
           S == DOMAIN Unfinished
<1>1. e \in NameChangeRequest /\ Dhcid(e) = Dhcid(ncr) /\ Dhcid(ncr) \in Dhcids
  BY Zenon, D2Assumption DEF Enabled, NameChangeRequest, Dhcid, Dhcids
<1>2. SoundList(Unfinished)
  BY Zenon, UnfinishedIsSound
<1>3. ASSUME NEW t \in Outcomes(startTransaction(e)),
             transactions' = Add(Unfinished, Dhcid(ncr), t)
      PROVE  SoundList(transactions')
  <2>1. Own(Dhcid(ncr), t)
    BY Zenon, <1>1, <1>3, StartIsSound, OutcomesFollow DEF Follows, Own
  <2>2. /\ IsFiniteSet(S \cup {Dhcid(ncr)})
        /\ Cardinality(S \cup {Dhcid(ncr)}) <= MaxTransactions
    <3>1. IsFiniteSet(S) /\ Cardinality(S) \in Nat
      BY Zenon, <1>2, FS_CardinalityType DEF SoundList
    <3>2. Cardinality(S) + 1 <= MaxTransactions /\ Cardinality(S) <= MaxTransactions
      BY <3>1, D2Assumption
    <3> HIDE DEF S
    <3>3. /\ IsFiniteSet(S \cup {Dhcid(ncr)})
          /\ Cardinality(S \cup {Dhcid(ncr)}) \in {Cardinality(S), Cardinality(S) + 1}
      BY Zenon, <3>1, FS_AddElement
    <3> QED
      BY Zenon, <3>2, <3>3
  <2>3. /\ DOMAIN transactions' = S \cup {Dhcid(ncr)}
        /\ transactions'[Dhcid(ncr)] = t
        /\ \A d \in S \ {Dhcid(ncr)} : transactions'[d] = Unfinished[d]
    BY Zenon, <1>3 DEF Add
  <2> QED
    BY Zenon, <1>1, <1>2, <2>1, <2>2, <2>3 DEF SoundList
<1>4. CASE transactions' = Unfinished
  BY Zenon, <1>2, <1>4
<1> QED
  BY Zenon, <1>3, <1>4 DEF makeTransaction

LEMMA SweepKeeps ==
    ASSUME WorkInv, sweep
    PROVE  WorkInv'
<1>1. CASE Cardinality(DOMAIN Unfinished) < MaxTransactions /\ Eligible # {}
  <2> DEFINE i == Min(Eligible)
  <2>1. i \in 1..Len(queue)
    <3>1. Len(queue) \in Nat
      BY Zenon, LenProperties DEF WorkInv
    <3>2. Eligible \in SUBSET Nat /\ Eligible \subseteq 1..Len(queue)
      BY <3>1 DEF Eligible
    <3> QED
      BY Zenon, <1>1, <3>2, MinIsLeast
  <2>2. makeTransaction(queue[i]) /\ queue' = dequeueAt(queue, i)
    BY Zenon, <1>1 DEF sweep
  <2>3. queue[i] \in NameChangeRequest
    BY Zenon, <2>1, ElementOfSeq DEF WorkInv
  <2>4. SoundList(transactions')
    BY Zenon, <1>1, <2>2, <2>3, MadeIsSound
  <2>5. queue' \in Seq(NameChangeRequest) /\ Len(queue') = Len(queue) - 1
    BY Zenon, <2>1, <2>2, DequeueKeeps DEF WorkInv
  <2>6. Len(queue) \in Nat
    BY Zenon, LenProperties DEF WorkInv
  <2> HIDE DEF i
  <2> QED
    BY <2>4, <2>5, <2>6, D2Assumption DEF WorkInv, SoundList
<1>2. CASE ~(Cardinality(DOMAIN Unfinished) < MaxTransactions /\ Eligible # {})
  BY Zenon, <1>2, UnfinishedIsSound DEF sweep, WorkInv, SoundList
<1> QED
  BY Zenon, <1>1, <1>2

\* A transaction that goes on stays in its place.
LEMMA ReplacedIsSound ==
    ASSUME WorkInv, NEW d \in DOMAIN transactions, NEW t, Own(d, t),
           transactions' = [transactions EXCEPT ![d] = t]
    PROVE  SoundList(transactions')
<1>1. /\ DOMAIN transactions' = DOMAIN transactions
      /\ \A e \in DOMAIN transactions :
             transactions'[e] = IF e = d THEN t ELSE transactions[e]
  BY Zenon
<1> QED
  BY Zenon, <1>1 DEF WorkInv, SoundList

LEMMA ContinueKeeps ==
    ASSUME WorkInv, NEW d \in DOMAIN transactions, NEW before, Own(d, before),
           before.st # "END", Continue(d, ioCompleted(before))
    PROVE  SoundList(transactions') /\ cancelled' = {"fetch"}
<1>1. before \in Transaction /\ before.st \in UpdateStates
  BY Zenon DEF Own, Sound, Transaction, UpdateStates
<1>2. Follows(before, ioCompleted(before))
  BY Zenon, <1>1, HandlersKeep
<1>3. PICK t \in Outcomes(ioCompleted(before)) :
          transactions' = [transactions EXCEPT ![d] = t] /\ cancelled' = {"fetch"}
  BY Zenon DEF Continue
<1>4. Own(d, t)
  BY Zenon, <1>2, <1>3, OutcomesFollow DEF Follows, Own
<1> QED
  BY Zenon, <1>3, <1>4, ReplacedIsSound

LEMMA EnqueueKeepsWork ==
    ASSUME WorkInv, NEW ncr \in Requests, enqueue(ncr), UNCHANGED transactions
    PROVE  WorkInv'
<1>1. ncr \in NameChangeRequest /\ Len(queue) \in Nat
  BY Zenon, D2Assumption, LenProperties DEF WorkInv
<1>2. queue' \in Seq(NameChangeRequest) /\ Len(queue') <= MaxQueueSize
  BY <1>1, AppendProperties, D2Assumption DEF enqueue, WorkInv, history
<1> QED
  BY Zenon, <1>2 DEF WorkInv, SoundList

\* The state of an exchange is not part of what a transaction is.
LEMMA ExchangeKeepsOwn ==
    ASSUME NEW d, NEW t, Own(d, t), t.st # "END",
           NEW io \in {"posted", "sent", "answered"},
           NEW rcode \in {"none", "NOERROR", "YXDOMAIN", "NXDOMAIN", "NXRRSET",
                          "YXRRSET", "REFUSED"}
    PROVE  /\ Own(d, [t EXCEPT !.io = io, !.rcode = rcode])
           /\ Own(d, [t EXCEPT !.io = io])
           /\ Own(d, [t EXCEPT !.rcode = rcode])
           /\ [t EXCEPT !.rcode = rcode].st = t.st
<1>1. t \in Transaction
  BY Zenon DEF Own, Sound
<1> DEFINE u == [t EXCEPT !.io = io, !.rcode = rcode]
           v == [t EXCEPT !.io = io]
           w == [t EXCEPT !.rcode = rcode]
<1>2. u \in Transaction /\ u.ncr = t.ncr /\ u.st = t.st /\ u.io = io
  BY Zenon, <1>1 DEF Transaction
<1>3. v \in Transaction /\ v.ncr = t.ncr /\ v.st = t.st /\ v.io = io
  BY Zenon, <1>1 DEF Transaction
<1>4. w \in Transaction /\ w.ncr = t.ncr /\ w.st = t.st /\ w.io = t.io
  BY Zenon, <1>1 DEF Transaction
<1> HIDE DEF u, v, w
<1> QED
  BY Zenon, <1>2, <1>3, <1>4 DEF Own, Sound, u, v, w

LEMMA RcodeIsKnown ==
    ASSUME NEW rrs, NEW u
    PROVE  Prerequisites(rrs, u) \in {"none", "NOERROR", "YXDOMAIN", "NXDOMAIN", "NXRRSET",
                                      "YXRRSET", "REFUSED"}
BY Zenon DEF Prerequisites

LEMMA StepKeepsWork ==
    ASSUME WorkInv, [Next]_vars
    PROVE  WorkInv'
<1>1. CASE UNCHANGED <<queue, transactions>>
  BY Zenon, <1>1 DEF WorkInv, SoundList
<1>2. CASE Iterate
  BY Zenon, <1>2, SweepKeeps DEF Iterate
<1>3. ASSUME NEW ncr \in Requests, Receive(ncr)
      PROVE  WorkInv'
  BY Zenon, <1>3, EnqueueKeepsWork DEF Receive
<1>4. ASSUME NEW d \in DOMAIN transactions, UNCHANGED queue, SoundList(transactions')
      PROVE  WorkInv'
  BY Zenon, <1>4 DEF WorkInv, SoundList
<1>5. ASSUME NEW d \in DOMAIN transactions, transactions[d].io # "none"
      PROVE  Own(d, transactions[d]) /\ transactions[d].st # "END"
  BY Zenon, <1>5 DEF WorkInv, SoundList, Own, Sound
<1>6. ASSUME NEW d \in DOMAIN transactions, SendUpdate(d)
      PROVE  WorkInv'
  <2> DEFINE t == [transactions[d] EXCEPT !.io = "sent"]
  <2>1. transactions' = [transactions EXCEPT ![d] = t] /\ UNCHANGED queue
    BY Zenon, <1>6 DEF SendUpdate
  <2>2. Own(d, t)
    BY Zenon, <1>5, <1>6, ExchangeKeepsOwn DEF SendUpdate
  <2> HIDE DEF t
  <2> QED
    BY Zenon, <1>4, <2>1, <2>2, ReplacedIsSound
<1>7. ASSUME NEW d \in DOMAIN transactions, Response(d)
      PROVE  WorkInv'
  <2>1. Continue(d, ioCompleted(transactions[d])) /\ UNCHANGED queue
    BY Zenon, <1>7 DEF Response
  <2>2. Own(d, transactions[d]) /\ transactions[d].st # "END"
    BY Zenon, <1>5, <1>7 DEF Response
  <2> QED
    BY Zenon, <1>4, <2>1, <2>2, ContinueKeeps
<1>8. ASSUME NEW d \in DOMAIN transactions, NoResponse(d)
      PROVE  WorkInv'
  <2> DEFINE t == [transactions[d] EXCEPT !.rcode = "none"]
  <2>1. Continue(d, ioCompleted(t)) /\ UNCHANGED queue
    BY Zenon, <1>8 DEF NoResponse
  <2>2. Own(d, t) /\ t.st # "END"
    BY <1>5, <1>8, ExchangeKeepsOwn, ZenonT(40) DEF NoResponse
  <2> HIDE DEF t
  <2> QED
    BY Zenon, <1>4, <2>1, <2>2, ContinueKeeps
<1>9. ASSUME NEW d \in DOMAIN transactions, DnsUpdate(d)
      PROVE  WorkInv'
  <2>1. PICK rcode \in {"none", "NOERROR", "YXDOMAIN", "NXDOMAIN", "NXRRSET",
                        "YXRRSET", "REFUSED"} : Answer(d, rcode)
    BY Zenon, <1>9, RcodeIsKnown DEF DnsUpdate, Rcode
  <2> DEFINE t == [transactions[d] EXCEPT !.io = "answered", !.rcode = rcode]
  <2>2. transactions' = [transactions EXCEPT ![d] = t] /\ UNCHANGED queue
    BY Zenon, <1>9, <2>1 DEF DnsUpdate, Answer
  <2>3. Own(d, t)
    BY Zenon, <1>5, <1>9, ExchangeKeepsOwn DEF DnsUpdate
  <2> HIDE DEF t
  <2> QED
    BY Zenon, <1>4, <2>2, <2>3, ReplacedIsSound
<1> QED
  BY Zenon, <1>1, <1>2, <1>3, <1>6, <1>7, <1>8, <1>9
  DEF Next, vars, Exit, PollEmpty, Cancelled, ReceiveInvalid, ReceiveError, ReceiveStopped,
      Signal, DnsLateUpdate

-----------------------------------------------------------------------------
(* The zones. *)

LEMMA ApplyKeeps ==
    ASSUME DnsInv, NEW u, SoundUpdate(u), Apply(u)
    PROVE  /\ fwd' \in [Names -> SUBSET ForwardRRs]
           /\ rev' \in [Addrs -> SUBSET ReverseRRs]
<1>1. CASE u.zone = "fwd" /\ fwd' = [fwd EXCEPT ![u.name] = NewRecords(@, u)] /\ UNCHANGED rev
  <2>1. NewRecords(fwd[u.name], u) \in SUBSET ForwardRRs
    BY Zenon, <1>1 DEF NewRecords, SoundUpdate, DnsInv
  <2> QED
    BY Zenon, <1>1, <2>1 DEF DnsInv
<1>2. CASE u.zone = "rev" /\ rev' = [rev EXCEPT ![u.name] = NewRecords(@, u)] /\ UNCHANGED fwd
  <2>1. NewRecords(rev[u.name], u) \in SUBSET ReverseRRs
    BY Zenon, <1>2 DEF NewRecords, SoundUpdate, DnsInv
  <2> QED
    BY Zenon, <1>2, <2>1 DEF DnsInv
<1>3. CASE UNCHANGED <<fwd, rev>>
  BY Zenon, <1>3 DEF DnsInv
<1> QED
  BY Zenon, <1>1, <1>2, <1>3 DEF Apply

\* The update of a transaction that waits for an exchange is sound, and asks for the
\* transaction's DHCID.
LEMMA SentIsSound ==
    ASSUME WorkInv, NEW d \in DOMAIN transactions, transactions[d].io = "sent"
    PROVE  /\ SoundUpdate(Update(transactions[d])) /\ d \in Dhcids
           /\ Update(transactions[d]).zone = "fwd" => Asks(Update(transactions[d]), d)
<1>1. /\ transactions[d] \in Transaction /\ transactions[d].st # "END"
      /\ Dhcid(transactions[d].ncr) = d /\ d \in Dhcids
  BY Zenon DEF WorkInv, SoundList, Own, Sound
<1>2. transactions[d].st \in UpdateStates
  BY Zenon, <1>1 DEF Transaction, UpdateStates
<1> QED
  BY Zenon, <1>1, <1>2, UpdateIsSound

LEMMA StepKeepsDns ==
    ASSUME WorkInv, DnsInv, [Next]_vars
    PROVE  DnsInv'
<1>1. CASE UNCHANGED <<fwd, rev, late>>
  BY Zenon, <1>1 DEF DnsInv
<1>2. ASSUME NEW d \in DOMAIN transactions, NoResponse(d)
      PROVE  DnsInv'
  <2>1. CASE UNCHANGED late
    BY Zenon, <1>1, <1>2, <2>1 DEF NoResponse
  <2>2. CASE transactions[d].io = "sent" /\ late' = late \cup {Update(transactions[d])}
    BY Zenon, <1>2, <2>2, SentIsSound DEF NoResponse, DnsInv
  <2> QED
    BY Zenon, <1>2, <2>1, <2>2 DEF NoResponse
<1>3. ASSUME NEW d \in DOMAIN transactions, DnsUpdate(d)
      PROVE  DnsInv'
  <2> DEFINE u == Update(transactions[d])
  <2>1. SoundUpdate(u) /\ late' = late /\ (Apply(u) \/ UNCHANGED <<fwd, rev>>)
    BY Zenon, <1>3, SentIsSound DEF DnsUpdate
  <2> HIDE DEF u
  <2> QED
    BY Zenon, <1>1, <2>1, ApplyKeeps DEF DnsInv
<1>4. CASE DnsLateUpdate
  <2>1. PICK u \in late : Apply(u) /\ late' = late \ {u}
    BY Zenon, <1>4 DEF DnsLateUpdate
  <2> QED
    BY Zenon, <2>1, ApplyKeeps DEF DnsInv
<1> QED
  BY Zenon, <1>1, <1>2, <1>3, <1>4
  DEF Next, vars, dns, Iterate, Exit, PollEmpty, Cancelled, Receive, ReceiveInvalid, ReceiveError,
      ReceiveStopped, Signal, SendUpdate, Response

-----------------------------------------------------------------------------
(* The theorems. *)

LEMMA StatusKeepsFlags ==
    ASSUME flags \subseteq {"reconf", "shutdown"}, checkQueueStatus
    PROVE  flags' \subseteq {"reconf", "shutdown"}
<1>1. flags' = flags \/ flags' = flags \ {"reconf"}
  BY Zenon DEF checkQueueStatus, reconfigureQueueMgr
<1> QED
  BY Zenon, <1>1

LEMMA SignalKeeps ==
    ASSUME LoopInv, Signal
    PROVE  flags' \subseteq {"reconf", "shutdown"} /\ signals' \in Seq(Signals)
<1>1. PICK s \in Signals :
          /\ signals' = Append(signals, s)
          /\ flags' = CASE s = "reload" -> flags \cup {"reconf"}
                        [] s = "bad-reload" -> flags \ {"reconf"}
                        [] s = "term" -> flags \cup {"shutdown"}
  BY Zenon DEF Signal
<1>2. s \in {"reload", "bad-reload", "term"}
  BY Zenon, D2Assumption
<1>3. \/ flags' = flags \cup {"reconf"} \/ flags' = flags \ {"reconf"}
      \/ flags' = flags \cup {"shutdown"}
  BY <1>1, <1>2, Zenon
<1> QED
  BY Zenon, <1>1, <1>3, AppendProperties DEF LoopInv

LEMMA StepKeepsLoop ==
    ASSUME LoopInv, [Next]_vars
    PROVE  LoopInv'
<1> USE DEF inputs
<1>0. Handler => loop' \in LoopStates
  BY Zenon DEF Handler, LoopStates
<1>1. CASE UNCHANGED <<flags, cancelled, loop, inputs>>
  BY Zenon, <1>1 DEF LoopInv
<1>2. CASE Iterate
  BY Zenon, <1>2, StatusKeepsFlags DEF Iterate, LoopInv, LoopStates
<1>3. CASE Exit \/ PollEmpty
  BY Zenon, <1>3 DEF Exit, PollEmpty, LoopInv, LoopStates
<1>4. CASE Cancelled
  BY Zenon, <1>0, <1>4 DEF Cancelled, LoopInv
<1>5. ASSUME NEW ncr \in Requests, Receive(ncr)
      PROVE  LoopInv'
  BY <1>0, <1>5, D2Assumption DEF Receive, LoopInv
<1>6. CASE ReceiveInvalid \/ ReceiveError \/ ReceiveStopped
  BY Zenon, <1>0, <1>6 DEF ReceiveInvalid, ReceiveError, ReceiveStopped, LoopInv
<1>7. CASE Signal
  <2>1. /\ loop' \in LoopStates /\ UNCHANGED <<cancelled, received>>
        /\ flags' \subseteq {"reconf", "shutdown"} /\ signals' \in Seq(Signals)
    BY Zenon, <1>0, <1>7, SignalKeeps DEF Signal
  <2> QED
    BY Zenon, <2>1 DEF LoopInv
<1>8. ASSUME NEW d \in DOMAIN transactions, SendUpdate(d)
      PROVE  LoopInv'
  BY Zenon, <1>0, <1>8 DEF SendUpdate, LoopInv
<1>9. ASSUME NEW d \in DOMAIN transactions, Response(d) \/ NoResponse(d)
      PROVE  LoopInv'
  BY Zenon, <1>0, <1>9 DEF Response, NoResponse, Continue, LoopInv
<1> QED
  BY Zenon, <1>1, <1>2, <1>3, <1>4, <1>5, <1>6, <1>7, <1>8, <1>9
  DEF Next, vars, DnsUpdate, DnsLateUpdate

LEMMA Invariance == Spec => []IInv
<1>1. Init => IInv
  <2> SUFFICES ASSUME Init PROVE IInv
    BY Zenon
  <2>1. ListenerInv
    BY Zenon DEF Init, ListenerInv, StateTellsListening, MgrStates, StopTargets
  <2>2. WorkInv
    <3>1. queue \in Seq(NameChangeRequest) /\ Len(queue) = 0 /\ DOMAIN transactions = {}
      BY EmptySeq DEF Init
    <3> QED
      BY <3>1, FS_EmptySet, D2Assumption DEF WorkInv, SoundList
  <2>3. DnsInv
    BY Zenon DEF Init, DnsInv
  <2>4. LoopInv
    BY EmptySeq, D2Assumption DEF Init, LoopInv, LoopStates
  <2> QED
    BY Zenon, <2>1, <2>2, <2>3, <2>4 DEF IInv
<1>2. IInv /\ [Next]_vars => IInv'
  BY Zenon, StepKeepsListener, StepKeepsWork, StepKeepsDns, StepKeepsLoop DEF IInv
<1> QED
  BY <1>1, <1>2, PTL DEF Spec

\* D2UpdateMgr and D2QueueMgr keep their limits (max_transactions_, max_queue_size_), and
\* no update is sent more than MAX_UPDATE_TRIES_PER_SERVER times to a server, whatever the
\* requests, the DNS servers' answers and the faults.
THEOREM LimitsAreKept == Spec => []TypeOK
<1>1. IInv => TypeOK
  <2> SUFFICES ASSUME IInv PROVE TypeOK
    BY Zenon
  <2>1. /\ mgr_state \in MgrStates /\ target_stop_state \in MgrStates
        /\ listener \in {"none", "closed", "open"}
        /\ io_pending \subseteq {"recv"}
    BY Zenon DEF IInv, ListenerInv, StopTargets
  <2>2. /\ queue \in Seq(NameChangeRequest) /\ Len(queue) <= MaxQueueSize
        /\ DOMAIN transactions \subseteq Dhcids
        /\ Cardinality(DOMAIN transactions) <= MaxTransactions
        /\ \A d \in DOMAIN transactions : transactions[d] \in Transaction
    BY Zenon DEF IInv, WorkInv, SoundList, Own, Sound
  <2>3. /\ \A n \in Names : fwd[n] \subseteq ForwardRRs
        /\ \A a \in Addrs : rev[a] \subseteq ReverseRRs
    BY Zenon DEF IInv, DnsInv
  <2> QED
    BY Zenon, <2>1, <2>2, <2>3 DEF TypeOK, IInv, LoopInv, ForwardRRs, ReverseRRs
<1> QED
  BY <1>1, Invariance, PTL

\* What the DNS server does with an update of a transaction, or with one that was delayed,
\* to a name in use.
LEMMA StepKeepsOwner ==
    ASSUME IInv, [Next]_vars, NEW n \in Names, fwd'[n] # fwd[n], fwd[n] # {}
    PROVE  \E d \in Dhcids :
               /\ <<"DHCID", d>> \in fwd[n]
               /\ \/ InProgress(d, DnsUpdate(d))
                  \/ \E u \in late \ late' : <<"DHCID", d>> \in u.exact
<1>1. ASSUME NEW u, Apply(u)
      PROVE  u.zone = "fwd" /\ n = u.name /\ Prerequisites(fwd[n], u) = "NOERROR"
  <2>1. ~ UNCHANGED fwd
    BY Zenon
  <2>2. u.zone = "fwd" /\ Rcode(u) = "NOERROR" /\ fwd' = [fwd EXCEPT ![u.name] = NewRecords(@, u)]
    BY Zenon, <1>1, <2>1 DEF Apply
  <2>3. n = u.name
    BY Zenon, <2>2 DEF IInv, DnsInv
  <2> QED
    BY Zenon, <2>2, <2>3 DEF Rcode
<1>2. ASSUME NEW d \in DOMAIN transactions, DnsUpdate(d)
      PROVE  d \in Dhcids /\ <<"DHCID", d>> \in fwd[n] /\ InProgress(d, DnsUpdate(d))
  <2> DEFINE u == Update(transactions[d])
  <2>1. Apply(u) /\ transactions[d].io = "sent"
    BY Zenon, <1>2 DEF DnsUpdate
  <2>2. d \in Dhcids /\ (u.zone = "fwd" => Asks(u, d))
    BY Zenon, <2>1, SentIsSound DEF IInv
  <2> HIDE DEF u
  <2>3. <<"DHCID", d>> \in fwd[n]
    BY Zenon, <1>1, <2>1, <2>2, AnswerIsOwners
  <2> QED
    BY Zenon, <1>2, <2>2, <2>3 DEF InProgress
<1>3. ASSUME DnsLateUpdate
      PROVE  \E d \in Dhcids : /\ <<"DHCID", d>> \in fwd[n]
                               /\ \E u \in late \ late' : <<"DHCID", d>> \in u.exact
  <2>1. PICK u \in late : Apply(u) /\ late' = late \ {u}
    BY Zenon, <1>3 DEF DnsLateUpdate
  <2>2. u.zone = "fwd" /\ Prerequisites(fwd[n], u) = "NOERROR"
    BY Zenon, <1>1, <2>1
  <2>3. PICK d \in Dhcids : Asks(u, d)
    BY Zenon, <2>1, <2>2 DEF IInv, DnsInv, SoundUpdate
  <2> QED
    BY Zenon, <2>1, <2>2, <2>3, AnswerIsOwners
<1>4. \/ \E d \in DOMAIN transactions : DnsUpdate(d)
      \/ DnsLateUpdate
  BY Zenon DEF Next, vars, dns, Iterate, Exit, PollEmpty, Cancelled, Receive, ReceiveInvalid,
         ReceiveError, ReceiveStopped, Signal, SendUpdate, Response, NoResponse
<1> QED
  BY Zenon, <1>2, <1>3, <1>4

\* NameAddTransaction and NameRemoveTransaction: the records of a name in use change only
\* by an update for the DHCID they carry, also when it takes effect after its timeout.
THEOREM OwnersAreKept == Spec => NamesKeepTheirOwner
<1>1. IInv /\ [Next]_vars =>
        [\A n \in Names :
            fwd'[n] # fwd[n] /\ fwd[n] # {} =>
                \E d \in Dhcids :
                    /\ <<"DHCID", d>> \in fwd[n]
                    /\ \/ InProgress(d, DnsUpdate(d))
                       \/ \E u \in late \ late' : <<"DHCID", d>> \in u.exact]_vars
  BY Zenon, StepKeepsOwner
<1> QED
  BY <1>1, Invariance, PTL DEF Spec, NamesKeepTheirOwner

-----------------------------------------------------------------------------
(* The progress of a transaction. *)

AddStates == {"ADDING_FWD_ADDRS", "REPLACING_FWD_ADDRS"}
RemoveStates == {"REMOVING_FWD_ADDRS", "REMOVING_FWD_RRS"}

\* Where a transaction is in its work agrees with what it has done.
Progress(t) ==
    /\ t.st \in AddStates => t.ncr.chg = "add"
    /\ t.st \in RemoveStates => t.ncr.chg # "add"
    /\ "fwd" \in t.done => t.st \notin FwdStates
    /\ t.st \in RevStates /\ "fwd" \in t.ncr.dirs => "fwd" \in t.done
    /\ t.status = "COMPLETED" => t.st = "END"
    /\ t.status = "COMPLETED" /\ "fwd" \in t.ncr.dirs => "fwd" \in t.done

\* The answer that completes the forward change.
Succeeded(t) ==
    \/ t.st \in AddStates /\ t.rcode = "NOERROR"
    \/ t.st = "REMOVING_FWD_RRS" /\ t.rcode \in Removed

Claims(t) == \/ "fwd" \in t.done
             \/ t.io = "answered" /\ Succeeded(t)

\* A step that completes nothing: the transaction goes on in one of the states S, or fails.
Moves(t, u, S) ==
    /\ u.ncr = t.ncr /\ u.done = t.done /\ u.io \in {"none", "posted"}
    /\ \/ u.st \in S /\ u.status = t.status
       \/ u.st = "END" /\ u.status = "FAILED"

FwdStart(ncr) == IF ncr.chg = "add" THEN "ADDING_FWD_ADDRS" ELSE "REMOVING_FWD_ADDRS"

LEMMA SendMoves ==
    ASSUME NEW t \in Transaction
    PROVE  Moves(t, sendUpdate(t), {t.st})
BY Zenon DEF Moves, sendUpdate, Transaction

LEMMA EnterMoves ==
    ASSUME NEW t \in Transaction, NEW st
    PROVE  Moves(t, enter(t, st), {st})
BY Zenon DEF Moves, enter, sendUpdate, Transaction

LEMMA FailMoves ==
    ASSUME NEW t \in Transaction
    PROVE  \A S : Moves(t, processFailed(t), S)
BY Zenon DEF Moves, processFailed, endModel, Transaction

LEMMA SelectMoves ==
    ASSUME NEW t \in Transaction
    PROVE  /\ Moves(t, selectFwdServer(t), {FwdStart(t.ncr)})
           /\ Moves(t, selectRevServer(t), RevStates)
<1> DEFINE u == [t EXCEPT !.server = t.server + 1]
<1>1. u.ncr = t.ncr /\ u.done = t.done /\ u.status = t.status
  BY Zenon DEF Transaction
<1>2. ASSUME NEW st
      PROVE  Moves(t, enter(u, st), {st})
  BY Zenon DEF Moves, enter, sendUpdate, Transaction
<1>3. Moves(t, selectFwdServer(t), {FwdStart(t.ncr)})
  BY Zenon, <1>2, FailMoves DEF selectFwdServer, FwdStart
<1>4. Moves(t, selectRevServer(t), RevStates)
  <2>1. CASE t.server < RevServers
    <3> DEFINE st == IF t.ncr.chg = "add" THEN "REPLACING_REV_PTRS" ELSE "REMOVING_REV_PTRS"
    <3>1. st \in RevStates
      BY Zenon DEF RevStates
    <3>2. selectRevServer(t) = enter(u, st)
      BY Zenon, <2>1 DEF selectRevServer
    <3> HIDE DEF st, u
    <3> QED
      BY <1>2, <3>1, <3>2 DEF Moves
  <2> QED
    BY Zenon, <2>1, FailMoves DEF selectRevServer
<1> QED
  BY Zenon, <1>3, <1>4

LEMMA RetryMoves ==
    ASSUME NEW t \in Transaction, NEW S, NEW failed, Moves(t, failed, S)
    PROVE  Moves(t, retryTransition(t, failed), S \cup {t.st})
<1>1. Moves(t, sendUpdate(t), {t.st})
  BY Zenon, SendMoves
<1> QED
  BY Zenon, <1>1 DEF retryTransition, Moves

\* A step that completes nothing keeps the progress, if its states are right.
LEMMA MovesKeepProgress ==
    ASSUME NEW t, NEW u, NEW S, Progress(t), Moves(t, u, S), t.status # "COMPLETED",
           \A st \in S : /\ st \in AddStates => t.ncr.chg = "add"
                         /\ st \in RemoveStates => t.ncr.chg # "add"
                         /\ st \in FwdStates => "fwd" \notin t.done
                         /\ st \in RevStates => "fwd" \in t.done \/ "fwd" \notin t.ncr.dirs
    PROVE  Progress(u)
BY Zenon DEF Progress, Moves, AddStates, RemoveStates, FwdStates, RevStates

\* What a handler makes of a transaction: it claims the forward change only when it did
\* before or the answer says so.
Advances(t, u) ==
    /\ Progress(u) /\ u.io \in {"none", "posted"}
    /\ "fwd" \in u.done => "fwd" \in t.done \/ Succeeded(t)

LEMMA ForwardAdvances ==
    ASSUME NEW t \in Transaction, Progress(t), t.st \in FwdStates, Succeeded(t)
    PROVE  Advances(t, fwdCompleted(t))
<1> DEFINE u == [t EXCEPT !.done = @ \cup {"fwd"}]
           v == [u EXCEPT !.server = 0]
<1>1. /\ u \in Transaction /\ u.ncr = t.ncr /\ u.done = t.done \cup {"fwd"}
      /\ v \in Transaction /\ v.ncr = t.ncr /\ v.done = t.done \cup {"fwd"}
      /\ v.status = t.status
  <2>1. 0 \in 0..(FwdServers + RevServers)
    BY TransactionAssumption
  <2>2. u \in Transaction /\ u.ncr = t.ncr /\ u.done = t.done \cup {"fwd"} /\ u.status = t.status
    BY Zenon DEF Transaction
  <2>3. /\ v \in Transaction /\ v.ncr = u.ncr /\ v.done = u.done /\ v.status = u.status
    <3> HIDE DEF u
    <3> QED
      BY Zenon, <2>1, <2>2 DEF Transaction
  <2> QED
    BY Zenon, <2>2, <2>3
<1>2. fwdCompleted(t) = IF "rev" \in t.ncr.dirs THEN selectRevServer(v) ELSE processOk(u)
  BY Zenon DEF fwdCompleted, startRev
<1>3. t.status # "COMPLETED"
  BY Zenon DEF Progress, FwdStates
<1> HIDE DEF u, v
<1>4. CASE "rev" \in t.ncr.dirs
  <2>1. Moves(v, fwdCompleted(t), RevStates)
    BY Zenon, <1>1, <1>2, <1>4, SelectMoves
  <2> QED
    BY Zenon, <1>1, <1>3, <2>1
    DEF Moves, Advances, Progress, AddStates, RemoveStates, FwdStates, RevStates
<1>5. CASE "rev" \notin t.ncr.dirs
  <2> DEFINE w == processOk(u)
  <2>1. w.ncr = t.ncr /\ w.done = t.done \cup {"fwd"} /\ w.st = "END" /\ w.io = "none"
    BY Zenon, <1>1 DEF processOk, endModel, Transaction
  <2>2. fwdCompleted(t) = w
    BY Zenon, <1>2, <1>5
  <2> HIDE DEF w
  <2> QED
    BY Zenon, <2>1, <2>2 DEF Advances, Progress, AddStates, RemoveStates, FwdStates, RevStates
<1> QED
  BY Zenon, <1>4, <1>5

LEMMA ReverseAdvances ==
    ASSUME NEW t \in Transaction, Progress(t), t.st \in RevStates
    PROVE  Advances(t, revCompleted(t))
<1> DEFINE w == revCompleted(t)
<1>1. w.ncr = t.ncr /\ w.done = t.done \cup {"rev"} /\ w.st = "END" /\ w.io = "none"
  BY Zenon DEF revCompleted, processOk, endModel, Transaction
<1> HIDE DEF w
<1>2. Advances(t, w)
  BY Zenon, <1>1 DEF Advances, Progress, AddStates, RemoveStates, FwdStates, RevStates
<1> QED
  BY Zenon, <1>2 DEF w

\* A step that completes nothing, within the forward or within the reverse change.
LEMMA MovesAdvance ==
    ASSUME NEW t \in Transaction, Progress(t), NEW u, NEW S, Moves(t, u, S),
           \/ t.st \in AddStates /\ S \subseteq AddStates
           \/ t.st \in RemoveStates /\ S \subseteq RemoveStates
           \/ t.st \in RevStates /\ S \subseteq RevStates
    PROVE  Advances(t, u)
<1>1. t.status # "COMPLETED"
  BY Zenon DEF Progress, AddStates, RemoveStates, RevStates
<1>2. Progress(u)
  BY Zenon, <1>1, MovesKeepProgress
  DEF Progress, AddStates, RemoveStates, FwdStates, RevStates
<1> QED
  BY Zenon, <1>2 DEF Moves, Advances

LEMMA HandlersAdvance ==
    ASSUME NEW t \in Transaction, Progress(t), t.st \in UpdateStates
    PROVE  Advances(t, ioCompleted(t))
<1> USE DEF AddStates, RemoveStates, RevStates
<1>1. Advances(t, processFailed(t))
  <2>1. Moves(t, processFailed(t), {})
    BY Zenon, FailMoves
  <2> QED
    BY Zenon, <2>1, MovesAdvance DEF UpdateStates, FwdStates
<1>2. CASE t.st \in AddStates
  <2>1. FwdStart(t.ncr) \in AddStates
    BY Zenon, <1>2 DEF Progress, FwdStart
  <2>2. Advances(t, retryTransition(t, selectFwdServer(t)))
    <3>1. Moves(t, retryTransition(t, selectFwdServer(t)), {FwdStart(t.ncr)} \cup {t.st})
      BY Zenon, SelectMoves, RetryMoves
    <3> QED
      BY Zenon, <1>2, <2>1, <3>1, MovesAdvance
  <2>3. ASSUME NEW st \in AddStates PROVE Advances(t, enter(t, st))
    BY Zenon, <1>2, EnterMoves, MovesAdvance
  <2>4. t.rcode = "NOERROR" => Advances(t, fwdCompleted(t))
    BY Zenon, <1>2, ForwardAdvances DEF Succeeded, FwdStates
  <2>5. Advances(t, addingFwdAddrsHandler(t)) /\ Advances(t, replacingFwdAddrsHandler(t))
    BY Zenon, <1>1, <2>2, <2>3, <2>4 DEF addingFwdAddrsHandler, replacingFwdAddrsHandler
  <2> QED
    BY Zenon, <1>2, <2>5 DEF ioCompleted
<1>3. CASE t.st \in RemoveStates
  <2>1. FwdStart(t.ncr) \in RemoveStates
    BY Zenon, <1>3 DEF Progress, FwdStart
  <2>2. /\ Advances(t, retryTransition(t, selectFwdServer(t)))
        /\ Advances(t, retryTransition(t, processFailed(t)))
    <3>1. Moves(t, retryTransition(t, selectFwdServer(t)), {FwdStart(t.ncr)} \cup {t.st})
      BY Zenon, SelectMoves, RetryMoves
    <3>2. Moves(t, retryTransition(t, processFailed(t)), {} \cup {t.st})
      BY Zenon, FailMoves, RetryMoves
    <3> QED
      BY Zenon, <1>3, <2>1, <3>1, <3>2, MovesAdvance
  <2>3. Advances(t, enter(t, "REMOVING_FWD_RRS"))
    BY Zenon, <1>3, EnterMoves, MovesAdvance
  <2>4. t.st = "REMOVING_FWD_RRS" /\ t.rcode \in Removed => Advances(t, fwdCompleted(t))
    BY Zenon, <1>3, ForwardAdvances DEF Succeeded, FwdStates
  <2>5. /\ Advances(t, removingFwdAddrsHandler(t))
        /\ t.st = "REMOVING_FWD_RRS" => Advances(t, removingFwdRRsHandler(t))
    BY Zenon, <1>1, <2>2, <2>3, <2>4 DEF removingFwdAddrsHandler, removingFwdRRsHandler
  <2> QED
    BY Zenon, <1>3, <2>5 DEF ioCompleted
<1>4. CASE t.st \in RevStates
  <2>1. Advances(t, retryTransition(t, selectRevServer(t)))
    <3>1. Moves(t, retryTransition(t, selectRevServer(t)), RevStates \cup {t.st})
      BY Zenon, SelectMoves, RetryMoves
    <3> QED
      BY Zenon, <1>4, <3>1, MovesAdvance
  <2>2. Advances(t, revCompleted(t))
    BY Zenon, <1>4, ReverseAdvances
  <2>3. Advances(t, replacingRevPtrsHandler(t)) /\ Advances(t, removingRevPtrsHandler(t))
    BY Zenon, <1>1, <2>1, <2>2 DEF replacingRevPtrsHandler, removingRevPtrsHandler
  <2> QED
    BY Zenon, <1>4, <2>3 DEF ioCompleted
<1> QED
  BY Zenon, <1>2, <1>3, <1>4 DEF UpdateStates, FwdStates

\* A transaction starts with nothing done.
LEMMA StartProgress ==
    ASSUME NEW ncr \in NameChangeRequest
    PROVE  LET u == startTransaction(ncr)
           IN  Progress(u) /\ "fwd" \notin u.done /\ u.io \in {"none", "posted"}
<1> DEFINE t == [ncr |-> ncr, st |-> "END", server |-> 0, tries |-> 0,
                 done |-> {}, status |-> "PENDING", io |-> "none",
                 rcode |-> "none"]
           v == [t EXCEPT !.server = 0]
           u == startTransaction(ncr)
<1>1. v \in Transaction /\ v.ncr = ncr /\ v.done = {} /\ v.status = "PENDING"
  BY TransactionAssumption DEF Transaction
<1>2. u = IF "fwd" \in ncr.dirs THEN selectFwdServer(v) ELSE selectRevServer(v)
  BY Zenon DEF startTransaction, startFwd, startRev
<1> HIDE DEF u, v
<1>3. \/ "fwd" \in ncr.dirs /\ Moves(v, u, {FwdStart(ncr)})
      \/ "fwd" \notin ncr.dirs /\ Moves(v, u, RevStates)
  BY Zenon, <1>1, <1>2, SelectMoves
<1>4. Progress(u) /\ "fwd" \notin u.done /\ u.io \in {"none", "posted"}
  BY Zenon, <1>1, <1>3 DEF Moves, Progress, FwdStart, AddStates, RemoveStates, FwdStates, RevStates
<1> QED
  BY Zenon, <1>4 DEF u

LEMMA OutcomesAdvance ==
    ASSUME NEW t, NEW next, Sound(next), Advances(t, next), NEW u \in Outcomes(next)
    PROVE  Advances(t, u)
<1>1. Moves(next, processFailed(next), {})
  BY Zenon, FailMoves DEF Sound
<1>2. Advances(t, processFailed(next))
  BY Zenon, <1>1 DEF Moves, Advances, Progress, AddStates, RemoveStates, FwdStates, RevStates
<1> QED
  BY Zenon, <1>2 DEF Outcomes

-----------------------------------------------------------------------------
(* What an update leaves of the claims of other transactions, and its own. *)

\* Holds, of a zone that is not the present one.
HoldsIn(zone, ncr) ==
    IF ncr.chg = "add" THEN {AddressRR(ncr), DhcidRR(ncr)} \subseteq zone[ncr.fqdn]
                       ELSE DhcidRR(ncr) \notin zone[ncr.fqdn]

OneOwner ==
    \A n \in Names : \A r, q \in fwd[n] : r[1] = "DHCID" /\ q[1] = "DHCID" => r = q

ForwardInv ==
    /\ delayed \in Nat
    /\ \A d \in DOMAIN transactions : Progress(transactions[d])
    /\ delayed = 0 => /\ late = {} /\ OneOwner
                      /\ \A d \in DOMAIN transactions :
                             Claims(transactions[d]) => Holds(transactions[d].ncr)


\* An update adds the DHCID of its own request only, and only to a name not in use.
AddsOwn(u, d) == \A r \in u.added : r[1] = "DHCID" => r = <<"DHCID", d>> /\ u.inUse = "no"

LEMMA UpdateAddsOwn ==
    ASSUME NEW t \in Transaction, t.st \in UpdateStates
    PROVE  /\ Update(t).zone = "fwd" <=> t.st \in FwdStates
           /\ Update(t).zone = "fwd" => /\ Update(t).name = t.ncr.fqdn
                                        /\ AddsOwn(Update(t), Dhcid(t.ncr))
<1> DEFINE n == t.ncr
<1>1. /\ AddressRR(n)[1] # "DHCID" /\ DhcidRR(n) = <<"DHCID", Dhcid(n)>>
      /\ PtrRR(n)[1] # "DHCID"
  BY Zenon DEF AddressRR, DhcidRR, PtrRR
<1> DEFINE Good(u) == u.zone = "fwd" /\ u.name = n.fqdn /\ AddsOwn(u, Dhcid(n))
<1> HIDE DEF n
<1>2. Good(buildAddFwdAddressRequest(n))
  BY Zenon, <1>1 DEF buildAddFwdAddressRequest, prepNewRequest, AddsOwn
<1>3. Good(buildReplaceFwdAddressRequest(n))
  BY Zenon, <1>1 DEF buildReplaceFwdAddressRequest, prepNewRequest, AddsOwn
<1>4. Good(buildRemoveFwdAddressRequest(n))
  BY Zenon, <1>1 DEF buildRemoveFwdAddressRequest, prepNewRequest, AddsOwn
<1>5. Good(buildRemoveFwdRRsRequest(n))
  BY Zenon, <1>1 DEF buildRemoveFwdRRsRequest, prepNewRequest, AddsOwn
<1>6. buildReplaceRevPtrsRequest(n).zone = "rev" /\ buildRemoveRevPtrsRequest(n).zone = "rev"
  BY Zenon DEF buildReplaceRevPtrsRequest, buildRemoveRevPtrsRequest, prepNewRequest
<1> HIDE DEF Good
<1>7. \/ t.st \in FwdStates /\ Good(Update(t))
      \/ t.st \in RevStates /\ Update(t).zone = "rev"
  BY Zenon, <1>2, <1>3, <1>4, <1>5, <1>6 DEF Update, UpdateStates, FwdStates, RevStates, n
<1>8. FwdStates \cap RevStates = {}
  BY Zenon DEF FwdStates, RevStates
<1> QED
  BY Zenon, <1>7, <1>8 DEF Good, n

\* Another client's update leaves what a request has done as it is.
LEMMA HoldsIsKept ==
    ASSUME DnsInv, OneOwner, NEW u, SoundUpdate(u), Apply(u), NEW e,
           u.zone = "fwd" => Asks(u, e), u.zone = "fwd" => AddsOwn(u, e),
           NEW ncr \in NameChangeRequest, Dhcid(ncr) # e, HoldsIn(fwd, ncr)
    PROVE  HoldsIn(fwd', ncr)
<1> DEFINE n == ncr.fqdn
<1>1. n \in Names
  BY Zenon DEF NameChangeRequest
<1>2. CASE fwd'[n] = fwd[n]
  BY Zenon, <1>2 DEF HoldsIn
<1>3. CASE fwd'[n] # fwd[n]
  <2>1. u.zone = "fwd" /\ Rcode(u) = "NOERROR" /\ fwd' = [fwd EXCEPT ![u.name] = NewRecords(@, u)]
    BY Zenon, <1>3 DEF Apply
  <2>2. n = u.name /\ fwd'[n] = NewRecords(fwd[n], u) /\ Prerequisites(fwd[n], u) = "NOERROR"
    BY Zenon, <1>1, <1>3, <2>1 DEF DnsInv, Rcode
  <2>3. CASE ncr.chg = "add"
    <3>1. DhcidRR(ncr) \in fwd[n] /\ DhcidRR(ncr) = <<"DHCID", Dhcid(ncr)>>
      BY Zenon, <2>3 DEF HoldsIn, DhcidRR
    <3>2. <<"DHCID", e>> \in fwd[n]
      BY Zenon, <2>1, <2>2, <3>1, AnswerIsOwners
    <3>3. <<"DHCID", e>> = <<"DHCID", Dhcid(ncr)>>
      BY <1>1, <3>1, <3>2 DEF OneOwner
    <3> QED
      BY Zenon, <3>3
  <2>4. CASE ncr.chg # "add"
    <3>1. DhcidRR(ncr) \notin fwd[n] /\ DhcidRR(ncr) = <<"DHCID", Dhcid(ncr)>>
      BY Zenon, <2>4 DEF HoldsIn, DhcidRR
    <3>2. DhcidRR(ncr) \notin u.added
      BY <2>1, <3>1 DEF AddsOwn
    <3> QED
      BY Zenon, <2>2, <2>4, <3>1, <3>2 DEF HoldsIn, NewRecords
  <2> QED
    BY Zenon, <2>3, <2>4
<1> QED
  BY Zenon, <1>2, <1>3

LEMMA OneOwnerIsKept ==
    ASSUME DnsInv, OneOwner, NEW u, Apply(u), NEW e, u.zone = "fwd" => AddsOwn(u, e)
    PROVE  OneOwner'
<1> SUFFICES ASSUME NEW n \in Names, NEW r \in fwd'[n], NEW q \in fwd'[n],
                    r[1] = "DHCID", q[1] = "DHCID"
             PROVE  r = q
  BY Zenon DEF OneOwner
<1>1. CASE fwd'[n] = fwd[n]
  BY Zenon, <1>1 DEF OneOwner
<1>2. CASE fwd'[n] # fwd[n]
  <2>1. u.zone = "fwd" /\ Rcode(u) = "NOERROR" /\ fwd' = [fwd EXCEPT ![u.name] = NewRecords(@, u)]
    BY Zenon, <1>2 DEF Apply
  <2>2. n = u.name /\ fwd'[n] = NewRecords(fwd[n], u) /\ Prerequisites(fwd[n], u) = "NOERROR"
    BY Zenon, <1>2, <2>1 DEF DnsInv, Rcode
  <2>3. u.inUse = "no" => fwd[n] = {}
    BY Zenon, <2>2 DEF Prerequisites
  <2>4. (r \in fwd[n] \/ r \in u.added) /\ (q \in fwd[n] \/ q \in u.added)
    BY Zenon, <2>2 DEF NewRecords
  <2> QED
    BY Zenon, <2>1, <2>3, <2>4 DEF AddsOwn, OneOwner
<1> QED
  BY Zenon, <1>1, <1>2

\* An update that was answered well has done what its request asked for.
LEMMA OwnHolds ==
    ASSUME DnsInv, OneOwner, NEW t \in Transaction, Progress(t), Apply(Update(t)),
           NEW rcode, rcode = Rcode(Update(t)),
           \/ t.st \in AddStates /\ rcode = "NOERROR"
           \/ t.st = "REMOVING_FWD_RRS" /\ rcode \in Removed
    PROVE  HoldsIn(fwd', t.ncr)
<1> DEFINE ncr == t.ncr
           n == ncr.fqdn
           u == Update(t)
<1>1. n \in Names /\ ncr \in NameChangeRequest
  BY Zenon DEF NameChangeRequest, Transaction
<1>2. u.zone = "fwd" /\ u.name = n /\ Rcode(u) = Prerequisites(fwd[n], u)
  BY Zenon, UpdateAddsOwn DEF AddStates, UpdateStates, FwdStates, Rcode
<1>3. Rcode(u) = "NOERROR" => fwd'[n] = NewRecords(fwd[n], u)
  BY Zenon, <1>1, <1>2 DEF Apply, DnsInv
<1>4. CASE t.st = "ADDING_FWD_ADDRS"
  <2>1. u = buildAddFwdAddressRequest(ncr)
    BY Zenon, <1>4 DEF Update
  <2>2. {AddressRR(ncr), DhcidRR(ncr)} \subseteq NewRecords(fwd[n], u)
    BY Zenon, <2>1 DEF buildAddFwdAddressRequest, prepNewRequest, NewRecords
  <2>3. ncr.chg = "add" /\ rcode = "NOERROR"
    BY Zenon, <1>4 DEF Progress, AddStates
  <2> QED
    BY Zenon, <1>3, <2>2, <2>3 DEF HoldsIn
<1>5. CASE t.st = "REPLACING_FWD_ADDRS"
  <2>1. u = buildReplaceFwdAddressRequest(ncr)
    BY Zenon, <1>5 DEF Update
  <2>2. /\ u.inUse = "yes" /\ u.exact = {DhcidRR(ncr)} /\ u.added = {AddressRR(ncr)}
        /\ u.deleted = {AddressRR(ncr)[1]} /\ u.removed = {}
    BY Zenon, <2>1 DEF buildReplaceFwdAddressRequest, prepNewRequest
  <2>3. ncr.chg = "add" /\ rcode = "NOERROR"
    BY Zenon, <1>5 DEF Progress, AddStates
  <2>4. DhcidRR(ncr) \in fwd[n]
    BY Zenon, <1>2, <2>2, <2>3 DEF Prerequisites
  <2>5. DhcidRR(ncr)[1] # AddressRR(ncr)[1]
    BY Zenon DEF DhcidRR, AddressRR
  <2>6. {AddressRR(ncr), DhcidRR(ncr)} \subseteq NewRecords(fwd[n], u)
    BY Zenon, <2>2, <2>4, <2>5 DEF NewRecords
  <2> QED
    BY Zenon, <1>3, <2>3, <2>6 DEF HoldsIn
<1>6. CASE t.st = "REMOVING_FWD_RRS"
  <2>1. u = buildRemoveFwdRRsRequest(ncr)
    BY Zenon, <1>6 DEF Update
  <2>2. /\ u.exact = {DhcidRR(ncr)} /\ u.added = {} /\ u.deleted = RRTypes
        /\ u.inUse = "any"
    BY Zenon, <2>1 DEF buildRemoveFwdRRsRequest, prepNewRequest
  <2>3. ncr.chg # "add" /\ rcode \in {"NOERROR", "NXRRSET"}
    BY Zenon, <1>6 DEF Progress, RemoveStates, AddStates, Removed
  <2>4. DhcidRR(ncr)[1] = "DHCID"
    BY Zenon DEF DhcidRR
  <2>5. CASE rcode = "NOERROR"
    <3>1. DhcidRR(ncr) \notin NewRecords(fwd[n], u)
      BY Zenon, <2>2, <2>4 DEF NewRecords, RRTypes
    <3> QED
      BY Zenon, <1>3, <2>3, <2>5, <3>1 DEF HoldsIn
  <2>6. CASE rcode = "NXRRSET"
    <3>1. {q \in fwd[n] : q[1] = "DHCID"} # {DhcidRR(ncr)}
      BY Zenon, <1>2, <2>2, <2>4, <2>6 DEF Prerequisites
    <3>2. DhcidRR(ncr) \notin fwd[n]
      BY Zenon, <1>1, <2>4, <3>1 DEF OneOwner
    <3>3. fwd' = fwd
      BY Zenon, <2>6 DEF Apply
    <3> QED
      BY Zenon, <2>3, <3>2, <3>3 DEF HoldsIn
  <2> QED
    BY Zenon, <2>3, <2>5, <2>6
<1> QED
  BY Zenon, <1>4, <1>5, <1>6 DEF AddStates

-----------------------------------------------------------------------------
(* The steps. *)

\* A new transaction has no claim.
LEMMA MadeClaimsNothing ==
    ASSUME NEW ncr \in NameChangeRequest, NEW t \in Outcomes(startTransaction(Enabled(ncr)))
    PROVE  Progress(t) /\ ~Claims(t) /\ t.ncr = Enabled(ncr)
<1> DEFINE s == startTransaction(Enabled(ncr))
<1>1. Enabled(ncr) \in NameChangeRequest
  BY Zenon DEF Enabled, NameChangeRequest
<1>2. Sound(s) /\ s.ncr = Enabled(ncr)
  BY Zenon, <1>1, StartIsSound
<1>3. Progress(s) /\ "fwd" \notin s.done /\ s.io \in {"none", "posted"}
  BY Zenon, <1>1, StartProgress
<1>4. t = s \/ Moves(s, t, {})
  BY Zenon, <1>2, FailMoves DEF Outcomes, Sound
<1> HIDE DEF s
<1> QED
  BY Zenon, <1>2, <1>3, <1>4
  DEF Moves, Claims, Progress, AddStates, RemoveStates, FwdStates, RevStates

\* A pass leaves the transactions it does not end as they are, and starts at most one.
LEMMA SweepClaimsNothing ==
    ASSUME WorkInv, sweep, NEW d \in DOMAIN transactions'
    PROVE  \/ d \in DOMAIN transactions /\ transactions'[d] = transactions[d]
           \/ Progress(transactions'[d]) /\ ~Claims(transactions'[d])
<1>1. \A e \in DOMAIN Unfinished : e \in DOMAIN transactions /\ Unfinished[e] = transactions[e]
  BY Zenon DEF Unfinished, Drop
<1>2. CASE transactions' = Unfinished
  BY Zenon, <1>1, <1>2
<1>3. ASSUME NEW ncr \in NameChangeRequest, makeTransaction(ncr), transactions' # Unfinished
      PROVE  \/ d \in DOMAIN transactions /\ transactions'[d] = transactions[d]
             \/ Progress(transactions'[d]) /\ ~Claims(transactions'[d])
  <2>1. PICK t \in Outcomes(startTransaction(Enabled(ncr))) :
            transactions' = Add(Unfinished, Dhcid(ncr), t)
    BY Zenon, <1>3 DEF makeTransaction
  <2>2. Progress(t) /\ ~Claims(t)
    BY Zenon, <1>3, <2>1, MadeClaimsNothing
  <2> QED
    BY Zenon, <1>1, <2>1, <2>2 DEF Add
<1>4. Eligible # {} => queue[Min(Eligible)] \in NameChangeRequest
  <2>1. Len(queue) \in Nat
    BY Zenon, LenProperties DEF WorkInv
  <2>2. Eligible \in SUBSET Nat /\ Eligible \subseteq 1..Len(queue)
    BY <2>1 DEF Eligible
  <2> QED
    BY Zenon, <2>2, MinIsLeast, ElementOfSeq DEF WorkInv
<1> QED
  BY Zenon, <1>2, <1>3, <1>4 DEF sweep

\* One transaction goes on without a new claim, and the zones stay as they are.
LEMMA NoNewClaim ==
    ASSUME WorkInv, ForwardInv, NEW d \in DOMAIN transactions, NEW t,
           transactions' = [transactions EXCEPT ![d] = t], t.ncr = transactions[d].ncr,
           Progress(t), delayed' = 0 /\ Claims(t) => Claims(transactions[d]),
           UNCHANGED fwd, delayed' \in Nat, delayed' = 0 => delayed = 0 /\ late' = late
    PROVE  ForwardInv'
<1>1. /\ DOMAIN transactions' = DOMAIN transactions /\ transactions'[d] = t
      /\ \A e \in DOMAIN transactions \ {d} : transactions'[e] = transactions[e]
  BY Zenon
<1>2. \A e \in DOMAIN transactions' : Progress(transactions'[e])
  BY Zenon, <1>1 DEF ForwardInv
<1>3. \A e \in DOMAIN transactions' : transactions'[e].ncr = transactions[e].ncr
  BY Zenon, <1>1
<1>4. ASSUME delayed' = 0, NEW e \in DOMAIN transactions', Claims(transactions'[e])
      PROVE  HoldsIn(fwd', transactions'[e].ncr)
  <2>1. Claims(transactions[e]) /\ delayed = 0
    BY Zenon, <1>1, <1>4
  <2>2. Holds(transactions[e].ncr)
    BY Zenon, <1>1, <2>1 DEF ForwardInv
  <2> QED
    BY Zenon, <1>3, <2>2 DEF Holds, HoldsIn
<1> QED
  BY Zenon, <1>2, <1>4 DEF ForwardInv, OneOwner, Holds, HoldsIn

LEMMA DnsUpdateKeepsForward ==
    ASSUME IInv, ForwardInv, NEW d \in DOMAIN transactions, DnsUpdate(d)
    PROVE  ForwardInv'
<1> DEFINE t == transactions[d]
           u == Update(t)
<1>1. /\ t \in Transaction /\ t.st \in UpdateStates /\ Dhcid(t.ncr) = d /\ t.io = "sent"
      /\ Progress(t)
  BY Zenon DEF DnsUpdate, IInv, WorkInv, SoundList, Own, Sound, Transaction, UpdateStates, ForwardInv
<1>2. SoundUpdate(u) /\ (u.zone = "fwd" => Asks(u, d) /\ AddsOwn(u, d))
  BY Zenon, <1>1, SentIsSound, UpdateAddsOwn DEF IInv
<1>3. PICK rcode : /\ Answer(d, rcode) /\ UNCHANGED <<late, delayed>>
                   /\ \/ Apply(u) /\ rcode = Rcode(u)
                      \/ rcode = "REFUSED" /\ UNCHANGED <<fwd, rev>>
  BY Zenon DEF DnsUpdate
<1> DEFINE v == [t EXCEPT !.io = "answered", !.rcode = rcode]
<1>4. transactions' = [transactions EXCEPT ![d] = v]
  BY Zenon, <1>3 DEF Answer
<1>5. /\ v.ncr = t.ncr /\ v.done = t.done /\ v.st = t.st /\ v.status = t.status
      /\ v.rcode = rcode
  BY Zenon, <1>1 DEF Transaction
<1>6. Progress(v)
  BY Zenon, <1>1, <1>5 DEF Progress
<1>7. CASE rcode = "REFUSED" /\ UNCHANGED <<fwd, rev>>
  <2>1. Claims(v) => Claims(t)
    BY Zenon, <1>5, <1>7 DEF Claims, Succeeded, Removed
  <2> HIDE DEF v
  <2> QED
    BY Zenon, <1>3, <1>4, <1>5, <1>6, <1>7, <2>1, NoNewClaim DEF IInv, ForwardInv
<1>8. CASE Apply(u) /\ rcode = Rcode(u)
  <2> HIDE DEF v
  <2>1. /\ DOMAIN transactions' = DOMAIN transactions /\ transactions'[d] = v
        /\ \A e \in DOMAIN transactions \ {d} : transactions'[e] = transactions[e]
    BY Zenon, <1>4
  <2>2. \A e \in DOMAIN transactions' : Progress(transactions'[e])
    BY Zenon, <1>6, <2>1 DEF ForwardInv
  <2> SUFFICES ASSUME delayed = 0
               PROVE  /\ OneOwner'
                      /\ \A e \in DOMAIN transactions' :
                             Claims(transactions'[e]) => HoldsIn(fwd', transactions'[e].ncr)
    BY Zenon, <1>3, <2>2 DEF ForwardInv, Holds, HoldsIn
  <2>3. OneOwner /\ DnsInv
    BY Zenon DEF ForwardInv, IInv
  <2>4. OneOwner'
    <3> HIDE DEF u
    <3> QED
      BY Zenon, <1>2, <1>8, <2>3, OneOwnerIsKept
  <2>5. ASSUME NEW e \in DOMAIN transactions \ {d}, Claims(transactions'[e])
        PROVE  HoldsIn(fwd', transactions'[e].ncr)
    <3>1. transactions'[e] = transactions[e] /\ HoldsIn(fwd, transactions[e].ncr)
      BY Zenon, <2>1, <2>5 DEF ForwardInv, Holds, HoldsIn
    <3>2. transactions[e].ncr \in NameChangeRequest /\ Dhcid(transactions[e].ncr) # d
      BY Zenon DEF IInv, WorkInv, SoundList, Own, Sound, Transaction
    <3>3. HoldsIn(fwd', transactions[e].ncr)
      <4> HIDE DEF u
      <4> QED
        BY Zenon, <1>2, <1>8, <2>3, <3>1, <3>2, HoldsIsKept
    <3> QED
      BY Zenon, <3>1, <3>3
  <2>6. ASSUME Claims(v)
        PROVE  HoldsIn(fwd', v.ncr)
    <3>1. CASE "fwd" \in t.done
      <4>1. u.zone # "fwd"
        BY Zenon, <1>1, <3>1, UpdateAddsOwn DEF Progress
      <4>2. fwd' = fwd
        BY Zenon, <1>8, <4>1 DEF Apply
      <4>3. HoldsIn(fwd, t.ncr)
        BY Zenon, <3>1 DEF ForwardInv, Claims, Holds, HoldsIn
      <4> QED
        BY Zenon, <1>5, <4>2, <4>3
    <3>2. CASE "fwd" \notin t.done
      <4>1. \/ t.st \in AddStates /\ rcode = "NOERROR"
            \/ t.st = "REMOVING_FWD_RRS" /\ rcode \in Removed
        BY Zenon, <1>5, <2>6, <3>2 DEF Claims, Succeeded
      <4> QED
        BY Zenon, <1>1, <1>5, <1>8, <2>3, <4>1, OwnHolds
    <3> QED
      BY Zenon, <3>1, <3>2
  <2> QED
    BY Zenon, <2>1, <2>4, <2>5, <2>6
<1> QED
  BY Zenon, <1>3, <1>7, <1>8

LEMMA StepKeepsForward ==
    ASSUME IInv, ForwardInv, [Next]_vars
    PROVE  ForwardInv'
<1> USE DEF dns
<1>1. CASE UNCHANGED <<transactions, fwd, late, delayed>>
  BY Zenon, <1>1 DEF ForwardInv, OneOwner, Holds
<1>2. CASE Iterate
  <2>1. sweep /\ UNCHANGED <<fwd, late, delayed>> /\ WorkInv
    BY Zenon, <1>2 DEF Iterate, IInv
  <2>2. \A d \in DOMAIN transactions' :
            \/ d \in DOMAIN transactions /\ transactions'[d] = transactions[d]
            \/ Progress(transactions'[d]) /\ ~Claims(transactions'[d])
    BY Zenon, <2>1, SweepClaimsNothing
  <2> QED
    BY Zenon, <2>1, <2>2 DEF ForwardInv, OneOwner, Holds
<1>3. ASSUME NEW d \in DOMAIN transactions
      PROVE  Own(d, transactions[d]) /\ Progress(transactions[d])
  BY Zenon DEF IInv, WorkInv, SoundList, ForwardInv
<1>4. ASSUME NEW d \in DOMAIN transactions, SendUpdate(d)
      PROVE  ForwardInv'
  <2> DEFINE t == [transactions[d] EXCEPT !.io = "sent"]
  <2>1. transactions' = [transactions EXCEPT ![d] = t] /\ UNCHANGED <<fwd, late, delayed>>
    BY Zenon, <1>4 DEF SendUpdate
  <2>2. /\ t.ncr = transactions[d].ncr /\ t.done = transactions[d].done
        /\ t.st = transactions[d].st /\ t.status = transactions[d].status /\ t.io = "sent"
    BY Zenon, <1>3 DEF Own, Sound, Transaction
  <2> HIDE DEF t
  <2>3. Progress(t) /\ (Claims(t) => Claims(transactions[d]))
    BY Zenon, <1>3, <2>2 DEF Progress, Claims
  <2> QED
    BY Zenon, <2>1, <2>2, <2>3, NoNewClaim DEF IInv, ForwardInv
<1>5. ASSUME NEW d \in DOMAIN transactions, NEW before, Own(d, before), before.st # "END",
             before.ncr = transactions[d].ncr, Progress(before),
             Continue(d, ioCompleted(before)),
             "fwd" \in before.done \/ Succeeded(before) => Claims(transactions[d]),
             UNCHANGED fwd, delayed' \in Nat, delayed' = 0 => delayed = 0 /\ late' = late
      PROVE  ForwardInv'
  <2>1. before \in Transaction /\ before.st \in UpdateStates
    BY Zenon, <1>5 DEF Own, Sound, Transaction, UpdateStates
  <2>2. Sound(ioCompleted(before)) /\ ioCompleted(before).ncr = before.ncr
    BY Zenon, <2>1, HandlersKeep DEF Follows
  <2>3. Advances(before, ioCompleted(before))
    BY Zenon, <1>5, <2>1, HandlersAdvance
  <2>4. PICK t \in Outcomes(ioCompleted(before)) : transactions' = [transactions EXCEPT ![d] = t]
    BY Zenon, <1>5 DEF Continue
  <2>5. t.ncr = transactions[d].ncr
    BY Zenon, <1>5, <2>2, <2>4, OutcomesFollow DEF Follows
  <2>6. Advances(before, t)
    BY Zenon, <2>2, <2>3, <2>4, OutcomesAdvance
  <2>7. Progress(t) /\ (Claims(t) => Claims(transactions[d]))
    BY Zenon, <1>5, <2>6 DEF Advances, Claims
  <2> QED
    BY Zenon, <1>5, <2>4, <2>5, <2>7, NoNewClaim DEF IInv
<1>6. ASSUME NEW d \in DOMAIN transactions, Response(d)
      PROVE  ForwardInv'
  <2>1. /\ Continue(d, ioCompleted(transactions[d])) /\ UNCHANGED <<fwd, late, delayed>>
        /\ transactions[d].io = "answered"
    BY Zenon, <1>6 DEF Response
  <2>2. transactions[d].st # "END"
    BY Zenon, <1>3, <2>1 DEF Own, Sound
  <2>3. "fwd" \in transactions[d].done \/ Succeeded(transactions[d]) => Claims(transactions[d])
    BY Zenon, <2>1 DEF Claims
  <2> QED
    BY Zenon, <1>3, <1>5, <2>1, <2>2, <2>3 DEF ForwardInv
<1>7. ASSUME NEW d \in DOMAIN transactions, NoResponse(d)
      PROVE  ForwardInv'
  <2> DEFINE t == [transactions[d] EXCEPT !.rcode = "none"]
  <2>1. /\ Continue(d, ioCompleted(t)) /\ UNCHANGED fwd
        /\ transactions[d].io \in {"sent", "answered"}
        /\ UNCHANGED <<late, delayed>> \/ delayed' = delayed + 1
    BY Zenon, <1>7 DEF NoResponse
  <2>2. /\ t.ncr = transactions[d].ncr /\ t.done = transactions[d].done
        /\ t.st = transactions[d].st /\ t.status = transactions[d].status
        /\ t.rcode = "none" /\ Own(d, t) /\ t.st # "END"
    <3>1. transactions[d].st # "END"
      BY Zenon, <1>3, <2>1 DEF Own, Sound
    <3>2. /\ t.ncr = transactions[d].ncr /\ t.done = transactions[d].done
          /\ t.st = transactions[d].st /\ t.status = transactions[d].status
          /\ t.rcode = "none"
      BY Zenon, <1>3 DEF Own, Sound, Transaction
    <3>3. Own(d, t)
      BY Zenon, <1>3, <3>1, ExchangeKeepsOwn
    <3> QED
      BY Zenon, <3>1, <3>2, <3>3
  <2> HIDE DEF t
  <2>3. Progress(t) /\ ~Succeeded(t) /\ ("fwd" \in t.done => Claims(transactions[d]))
    BY Zenon, <1>3, <2>2 DEF Progress, Succeeded, Removed, Claims
  <2>4. delayed' \in Nat /\ (delayed' = 0 => delayed = 0 /\ late' = late)
    BY <2>1 DEF ForwardInv
  <2> QED
    BY Zenon, <1>5, <2>1, <2>2, <2>3, <2>4
<1>8. ASSUME NEW d \in DOMAIN transactions, DnsUpdate(d)
      PROVE  ForwardInv'
  BY Zenon, <1>8, DnsUpdateKeepsForward
<1>9. CASE DnsLateUpdate
  BY Zenon, <1>9 DEF DnsLateUpdate, ForwardInv
<1> QED
  BY Zenon, <1>1, <1>2, <1>4, <1>6, <1>7, <1>8, <1>9
  DEF Next, vars, Exit, PollEmpty, Cancelled, Receive, ReceiveInvalid, ReceiveError,
      ReceiveStopped, Signal

\* NameAddTransaction and NameRemoveTransaction: whatever answers are lost and updates
\* repeated, and whatever other clients do with the name, a transaction that has completed
\* its forward change finds it in the zone until it ends.
THEOREM ForwardIsDone == Spec => []ForwardDoneIsThere
<1>1. Init => ForwardInv
  <2>1. Init => DOMAIN transactions = {} /\ delayed = 0 /\ late = {} /\ fwd = [n \in Names |-> {}]
    BY DEF Init
  <2> QED
    BY <2>1 DEF ForwardInv, OneOwner
<1>2. IInv /\ ForwardInv /\ [Next]_vars => ForwardInv'
  BY Zenon, StepKeepsForward
<1>3. ForwardInv => ForwardDoneIsThere
  BY Zenon DEF ForwardInv, ForwardDoneIsThere, Claims
<1> QED
  BY <1>1, <1>2, <1>3, Invariance, PTL DEF Spec

-----------------------------------------------------------------------------
(* The order of the requests. *)

Waits(d) == \E i \in 1..Len(queue) : Dhcid(queue[i]) = d

\* The last request received for a DHCID is the last one queued, or else the one started.
OrderInv ==
    /\ \A d \in DOMAIN last : last[d] \in NameChangeRequest /\ Dhcid(last[d]) = d
    /\ \A i \in 1..Len(queue) :
           /\ Dhcid(queue[i]) \in DOMAIN last
           /\ (\A j \in (i + 1)..Len(queue) : Dhcid(queue[j]) # Dhcid(queue[i])) =>
                  queue[i] = last[Dhcid(queue[i])]
    /\ \A d \in DOMAIN transactions :
           /\ d \in DOMAIN last
           /\ ~Waits(d) => transactions[d].ncr = Enabled(last[d])
           /\ d \in settled => transactions[d].status = "COMPLETED"
    /\ settled \subseteq DOMAIN last

LEMMA DequeueIs ==
    ASSUME NEW T, NEW s \in Seq(T), NEW i \in 1..Len(s), NEW j \in 1..(Len(s) - 1)
    PROVE  dequeueAt(s, i)[j] = IF j < i THEN s[j] ELSE s[j + 1]
<1> DEFINE a == SubSeq(s, 1, i - 1)
           b == SubSeq(s, i + 1, Len(s))
<1>1. /\ a \in Seq(T) /\ Len(a) = i - 1 /\ \A k \in 1..(i - 1) : a[k] = s[k]
      /\ b \in Seq(T) /\ Len(b) = Len(s) - i /\ \A k \in 1..(Len(s) - i) : b[k] = s[i + k]
  OBVIOUS
<1>2. dequeueAt(s, i) = a \o b
  BY Zenon DEF dequeueAt
<1> HIDE DEF a, b
<1>3. (a \o b)[j] = IF j <= Len(a) THEN a[j] ELSE b[j - Len(a)]
  <2>1. j \in 1..(Len(a) + Len(b))
    BY <1>1
  <2> QED
    BY Zenon, <1>1, <2>1, ConcatProperties
<1> QED
  BY <1>1, <1>2, <1>3

\* A settled request whose transaction is taken off the list has taken effect.
LEMMA SettledHolds ==
    ASSUME IInv, ForwardInv, OrderInv, LastRequestWins, NEW d \in settled, ~Waits(d),
           d \notin DOMAIN Unfinished, delayed = 0, "fwd" \in last[d].dirs \cap Directions
    PROVE  Holds(last[d])
<1>1. CASE d \notin DOMAIN transactions
  BY Zenon, <1>1 DEF LastRequestWins, Waits
<1>2. CASE d \in DOMAIN transactions
  <2>1. transactions[d].status = "COMPLETED" /\ transactions[d].ncr = Enabled(last[d])
    BY Zenon, <1>2 DEF OrderInv
  <2>2. last[d] \in NameChangeRequest
    BY Zenon DEF OrderInv
  <2>3. /\ Enabled(last[d]).dirs = last[d].dirs \cap Directions
        /\ Enabled(last[d]).chg = last[d].chg /\ Enabled(last[d]).fqdn = last[d].fqdn
        /\ Enabled(last[d]).addr = last[d].addr /\ Enabled(last[d]).client = last[d].client
    BY Zenon, <2>2 DEF Enabled, NameChangeRequest
  <2>4. Holds(transactions[d].ncr)
    BY Zenon, <1>2, <2>1, <2>3 DEF ForwardInv, Progress, Claims
  <2> QED
    BY Zenon, <2>1, <2>3, <2>4 DEF Holds, AddressRR, DhcidRR, Dhcid
<1> QED
  BY Zenon, <1>1, <1>2

\* What a pass does to the requests it does not start.
LEMMA SweepKeepsOrder ==
    ASSUME IInv, ForwardInv, OrderInv, LastRequestWins, sweep, UNCHANGED <<fwd, delayed, last>>
    PROVE  OrderInv' /\ LastRequestWins'
<1>1. /\ DOMAIN Unfinished \subseteq DOMAIN transactions
      /\ \A d \in DOMAIN Unfinished : Unfinished[d] = transactions[d]
  BY Zenon DEF Unfinished, Drop
<1>2. CASE transactions' = Unfinished /\ UNCHANGED <<queue, settled>>
  <2>1. OrderInv'
    BY Zenon, <1>1, <1>2 DEF OrderInv, Waits
  <2>2. LastRequestWins'
    BY Zenon, <1>2, SettledHolds DEF LastRequestWins, Waits, Holds
  <2> QED
    BY Zenon, <2>1, <2>2
<1>3. CASE Cardinality(DOMAIN Unfinished) < MaxTransactions /\ Eligible # {}
  <2> DEFINE i == Min(Eligible)
             r == queue[i]
             d0 == Dhcid(r)
  <2>1. /\ makeTransaction(r) /\ queue' = dequeueAt(queue, i) /\ settled' = settled \ {d0}
    BY Zenon, <1>3 DEF sweep
  <2>2. queue \in Seq(NameChangeRequest) /\ Len(queue) \in Nat
    BY Zenon, LenProperties DEF IInv, WorkInv
  <2>3. i \in 1..Len(queue) /\ d0 \notin DOMAIN Unfinished /\ \A k \in Eligible : i <= k
    <3>1. Eligible \in SUBSET Nat
      BY <2>2 DEF Eligible
    <3>2. i \in Eligible /\ \A k \in Eligible : i <= k
      BY Zenon, <1>3, <3>1, MinIsLeast
    <3> QED
      BY Zenon, <3>2 DEF Eligible
  <2>4. r \in NameChangeRequest
    BY Zenon, <2>2, <2>3, ElementOfSeq
  <2> HIDE DEF i
  <2>5. /\ Len(queue') = Len(queue) - 1
        /\ \A j \in 1..Len(queue') : queue'[j] = IF j < i THEN queue[j] ELSE queue[j + 1]
    BY Zenon, <2>1, <2>2, <2>3, DequeueKeeps, DequeueIs
  <2>6. /\ DOMAIN Unfinished \subseteq DOMAIN transactions'
        /\ DOMAIN transactions' \subseteq DOMAIN Unfinished \cup {d0}
        /\ \A d \in DOMAIN Unfinished : transactions'[d] = transactions[d]
        /\ d0 \in DOMAIN transactions' => transactions'[d0].ncr = Enabled(r)
    <3>1. CASE transactions' = Unfinished
      BY Zenon, <1>1, <2>3, <3>1
    <3>2. ASSUME NEW t \in Outcomes(startTransaction(Enabled(r))),
                 transactions' = Add(Unfinished, d0, t)
          PROVE  /\ DOMAIN transactions' = DOMAIN Unfinished \cup {d0}
                 /\ \A d \in DOMAIN Unfinished : transactions'[d] = transactions[d]
                 /\ transactions'[d0].ncr = Enabled(r)
      <4>1. t.ncr = Enabled(r)
        BY Zenon, <2>4, <3>2, MadeClaimsNothing
      <4> QED
        BY Zenon, <1>1, <2>3, <3>2, <4>1 DEF Add
    <3> QED
      BY Zenon, <2>1, <3>1, <3>2 DEF makeTransaction
  <2>7. ASSUME NEW d, d # d0, Waits(d)
        PROVE  Waits(d)'
    <3>1. PICK k \in 1..Len(queue) : Dhcid(queue[k]) = d
      BY Zenon, <2>7 DEF Waits
    <3>2. k # i
      BY Zenon, <2>7, <3>1
    <3> DEFINE j == IF k < i THEN k ELSE k - 1
    <3>3. j \in 1..Len(queue') /\ queue'[j] = queue[k]
      BY <2>2, <2>3, <2>5, <3>2
    <3> HIDE DEF j
    <3> QED
      BY Zenon, <3>1, <3>3 DEF Waits
  <2>8. ASSUME NEW d, d = d0, ~Waits(d)'
        PROVE  r = last[d]
    <3>1. ASSUME NEW k \in (i + 1)..Len(queue), Dhcid(queue[k]) = d
          PROVE  FALSE
      <4>1. k - 1 \in 1..Len(queue') /\ queue'[k - 1] = queue[k]
        BY <2>2, <2>3, <2>5, <3>1
      <4> QED
        BY Zenon, <2>8, <3>1, <4>1 DEF Waits
    <3> QED
      BY Zenon, <2>3, <2>8, <3>1 DEF OrderInv
  <2>9. ASSUME NEW j \in 1..Len(queue'),
               \A k \in (j + 1)..Len(queue') : Dhcid(queue'[k]) # Dhcid(queue'[j])
        PROVE  queue'[j] = last[Dhcid(queue'[j])]
    <3> DEFINE f == IF j < i THEN j ELSE j + 1
    <3>1. f \in 1..Len(queue) /\ queue'[j] = queue[f] /\ f # i
      BY <2>2, <2>3, <2>5
    <3>2. ASSUME NEW k \in (f + 1)..Len(queue), Dhcid(queue[k]) = Dhcid(queue[f])
          PROVE  FALSE
      <4>1. CASE k = i
        <5>1. f \in Eligible /\ f < i
          BY <2>2, <2>3, <3>1, <3>2, <4>1 DEF Eligible
        <5> QED
          BY <2>2, <2>3, <5>1
      <4>2. CASE k # i
        <5> DEFINE m == IF k < i THEN k ELSE k - 1
        <5>1. m \in (j + 1)..Len(queue') /\ queue'[m] = queue[k]
          BY <2>2, <2>3, <2>5, <3>2, <4>2
        <5> HIDE DEF m
        <5> QED
          BY Zenon, <2>9, <3>1, <3>2, <5>1
      <4> QED
        BY Zenon, <4>1, <4>2
    <3> HIDE DEF f
    <3> QED
      BY Zenon, <3>1, <3>2 DEF OrderInv
  <2>10. OrderInv'
    <3>1. \A d \in DOMAIN last' : last'[d] \in NameChangeRequest /\ Dhcid(last'[d]) = d
      BY Zenon DEF OrderInv
    <3>2. \A j \in 1..Len(queue') : Dhcid(queue'[j]) \in DOMAIN last'
      BY <2>2, <2>3, <2>5 DEF OrderInv
    <3>3. settled' \subseteq DOMAIN last'
      BY Zenon, <2>1 DEF OrderInv
    <3>4. ASSUME NEW d \in DOMAIN transactions'
          PROVE  /\ d \in DOMAIN last'
                 /\ ~Waits(d)' => transactions'[d].ncr = Enabled(last'[d])
                 /\ d \in settled' => transactions'[d].status = "COMPLETED"
      <4>1. CASE d = d0
        <5>1. d \in DOMAIN last /\ d \notin settled'
          BY Zenon, <2>1, <2>3, <4>1 DEF OrderInv
        <5> QED
          BY Zenon, <2>6, <2>8, <4>1, <5>1
      <4>2. CASE d # d0
        <5>1. d \in DOMAIN transactions /\ transactions'[d] = transactions[d]
          BY Zenon, <1>1, <2>6, <4>2
        <5> QED
          BY Zenon, <2>1, <2>7, <4>2, <5>1 DEF OrderInv
      <4> QED
        BY Zenon, <4>1, <4>2
    <3> QED
      BY Zenon, <2>9, <3>1, <3>2, <3>3, <3>4 DEF OrderInv
  <2>11. LastRequestWins'
    <3> SUFFICES ASSUME NEW d \in settled', delayed = 0, ~Waits(d)',
                        d \notin DOMAIN transactions',
                        "fwd" \in last[d].dirs \cap Directions
                 PROVE  Holds(last[d])
      BY Zenon DEF LastRequestWins, Waits, Holds
    <3>1. d \in settled /\ ~Waits(d) /\ d \notin DOMAIN Unfinished
      BY Zenon, <2>1, <2>6, <2>7
    <3> QED
      BY Zenon, <3>1, SettledHolds
  <2> QED
    BY Zenon, <2>10, <2>11
<1> QED
  BY Zenon, <1>2, <1>3 DEF sweep

LEMMA AppendIs ==
    ASSUME NEW S, NEW s \in Seq(S), NEW e \in S
    PROVE  /\ Len(s) \in Nat /\ Len(Append(s, e)) = Len(s) + 1 /\ Append(s, e)[Len(s) + 1] = e
           /\ \A i \in 1..Len(s) : Append(s, e)[i] = s[i]
OBVIOUS

\* Queueing a request makes it the last one of its DHCID.
LEMMA EnqueueKeepsOrder ==
    ASSUME IInv, OrderInv, LastRequestWins, NEW ncr \in NameChangeRequest, enqueue(ncr),
           UNCHANGED <<transactions, fwd, delayed>>
    PROVE  OrderInv' /\ LastRequestWins'
<1>1. CASE Len(queue) < MaxQueueSize
  <2> DEFINE d0 == Dhcid(ncr)
             n == Len(queue)
  <2>1. /\ queue' = Append(queue, ncr) /\ last' = Add(last, d0, ncr) /\ UNCHANGED settled
    BY Zenon, <1>1 DEF enqueue
  <2>2. /\ n \in Nat /\ Len(queue') = n + 1 /\ queue'[n + 1] = ncr
        /\ \A i \in 1..n : queue'[i] = queue[i]
    <3>1. queue \in Seq(NameChangeRequest)
      BY Zenon DEF IInv, WorkInv
    <3> QED
      BY ZenonT(30), <2>1, <3>1, AppendIs
  <2>3. /\ DOMAIN last' = DOMAIN last \cup {d0} /\ last'[d0] = ncr
        /\ \A d \in DOMAIN last \ {d0} : last'[d] = last[d]
    BY Zenon, <2>1 DEF Add
  <2>4. ASSUME NEW d
        PROVE  (Waits(d)' \/ d # d0) /\ (Waits(d) => Waits(d)')
    <3>1. Dhcid(queue'[n + 1]) = d0 /\ n + 1 \in 1..Len(queue')
      BY <2>2
    <3>2. \A i \in 1..n : i \in 1..Len(queue') /\ Dhcid(queue'[i]) = Dhcid(queue[i])
      BY <2>2
    <3> QED
      BY Zenon, <3>1, <3>2 DEF Waits
  <2>5. ASSUME NEW i \in 1..Len(queue')
        PROVE  /\ Dhcid(queue'[i]) \in DOMAIN last'
               /\ (\A j \in (i + 1)..Len(queue') : Dhcid(queue'[j]) # Dhcid(queue'[i])) =>
                      queue'[i] = last'[Dhcid(queue'[i])]
    <3>1. CASE i = n + 1
      BY Zenon, <2>2, <2>3, <3>1
    <3>2. CASE i # n + 1
      <4>1. i \in 1..n /\ queue'[i] = queue[i]
        BY <2>2, <3>2
      <4>2. CASE Dhcid(queue[i]) = d0
        <5>1. n + 1 \in (i + 1)..Len(queue') /\ Dhcid(queue'[n + 1]) = Dhcid(queue'[i])
          BY <2>2, <4>1, <4>2
        <5> QED
          BY Zenon, <2>3, <4>1, <4>2, <5>1
      <4>3. CASE Dhcid(queue[i]) # d0
        <5>1. \A j \in (i + 1)..n : j \in (i + 1)..Len(queue') /\ queue'[j] = queue[j]
          BY <2>2, <4>1
        <5>2. /\ Dhcid(queue[i]) \in DOMAIN last
              /\ (\A j \in (i + 1)..n : Dhcid(queue[j]) # Dhcid(queue[i])) =>
                     queue[i] = last[Dhcid(queue[i])]
          BY Zenon, <4>1 DEF OrderInv
        <5>3. last'[Dhcid(queue[i])] = last[Dhcid(queue[i])] /\ Dhcid(queue[i]) \in DOMAIN last'
          BY Zenon, <2>3, <4>3, <5>2
        <5>4. (\A j \in (i + 1)..Len(queue') : Dhcid(queue'[j]) # Dhcid(queue'[i])) =>
                  \A j \in (i + 1)..n : Dhcid(queue[j]) # Dhcid(queue[i])
          BY Zenon, <4>1, <5>1
        <5> QED
          BY Zenon, <4>1, <5>2, <5>3, <5>4
      <4> QED
        BY Zenon, <4>2, <4>3
    <3> QED
      BY Zenon, <3>1, <3>2
  <2>6. OrderInv'
    <3>1. \A d \in DOMAIN last' : last'[d] \in NameChangeRequest /\ Dhcid(last'[d]) = d
      BY Zenon, <2>3 DEF OrderInv
    <3>2. settled' \subseteq DOMAIN last'
      BY Zenon, <2>1, <2>3 DEF OrderInv
    <3>3. ASSUME NEW d \in DOMAIN transactions'
          PROVE  /\ d \in DOMAIN last'
                 /\ ~Waits(d)' => transactions'[d].ncr = Enabled(last'[d])
                 /\ d \in settled' => transactions'[d].status = "COMPLETED"
      BY Zenon, <2>1, <2>3, <2>4 DEF OrderInv
    <3> QED
      BY Zenon, <2>5, <3>1, <3>2, <3>3 DEF OrderInv
  <2>7. LastRequestWins'
    <3> SUFFICES ASSUME NEW d \in settled, delayed = 0, ~Waits(d)',
                        d \notin DOMAIN transactions,
                        "fwd" \in last'[d].dirs \cap Directions
                 PROVE  HoldsIn(fwd, last'[d])
      BY Zenon, <2>1 DEF LastRequestWins, Waits, Holds, HoldsIn
    <3>1. ~Waits(d) /\ d # d0
      BY Zenon, <2>4
    <3>2. last'[d] = last[d]
      BY Zenon, <2>3, <3>1 DEF OrderInv
    <3> QED
      BY Zenon, <3>1, <3>2 DEF LastRequestWins, Waits, Holds, HoldsIn
  <2> QED
    BY Zenon, <2>6, <2>7
<1>2. CASE ~(Len(queue) < MaxQueueSize)
  <2>1. UNCHANGED <<queue, last, settled>>
    BY Zenon, <1>2 DEF enqueue, history
  <2>2. OrderInv'
    BY Zenon, <2>1 DEF OrderInv, Waits
  <2>3. LastRequestWins'
    BY Zenon, <2>1 DEF LastRequestWins, Holds
  <2> QED
    BY Zenon, <2>2, <2>3
<1> QED
  BY Zenon, <1>1, <1>2

\* A transaction that goes on keeps its request; it is settled when it is completed.
LEMMA ReplacedKeepsOrder ==
    ASSUME OrderInv, LastRequestWins, NEW d \in DOMAIN transactions, NEW t,
           transactions' = [transactions EXCEPT ![d] = t], t.ncr = transactions[d].ncr,
           settled' \subseteq settled \cup {d}, d \in settled' => t.status = "COMPLETED",
           UNCHANGED <<queue, last, fwd>>, delayed' = 0 => delayed = 0
    PROVE  OrderInv' /\ LastRequestWins'
<1>1. /\ DOMAIN transactions' = DOMAIN transactions /\ transactions'[d] = t
      /\ \A e \in DOMAIN transactions \ {d} : transactions'[e] = transactions[e]
  BY Zenon
<1>2. OrderInv'
  <2>1. ASSUME NEW e \in DOMAIN transactions'
        PROVE  /\ e \in DOMAIN last'
               /\ ~Waits(e)' => transactions'[e].ncr = Enabled(last'[e])
               /\ e \in settled' => transactions'[e].status = "COMPLETED"
    BY Zenon, <1>1 DEF OrderInv, Waits
  <2>2. settled' \subseteq DOMAIN last'
    BY Zenon DEF OrderInv
  <2> QED
    BY Zenon, <2>1, <2>2 DEF OrderInv
<1>3. LastRequestWins'
  BY Zenon, <1>1 DEF LastRequestWins, Holds
<1> QED
  BY Zenon, <1>2, <1>3

\* The zones change only for a name whose request is in progress.
LEMMA DnsUpdateKeepsOrder ==
    ASSUME IInv, ForwardInv, OrderInv, LastRequestWins, NEW d \in DOMAIN transactions,
           DnsUpdate(d)
    PROVE  OrderInv' /\ LastRequestWins'
<1> DEFINE u == Update(transactions[d])
<1>1. /\ transactions[d] \in Transaction /\ transactions[d].st \in UpdateStates
      /\ Dhcid(transactions[d].ncr) = d /\ transactions[d].io = "sent"
  BY Zenon DEF DnsUpdate, IInv, WorkInv, SoundList, Own, Sound, Transaction, UpdateStates
<1>2. SoundUpdate(u) /\ (u.zone = "fwd" => Asks(u, d)) /\ (u.zone = "fwd" => AddsOwn(u, d))
  BY Zenon, <1>1, SentIsSound, UpdateAddsOwn DEF IInv
<1>3. PICK rcode : Answer(d, rcode)
  BY Zenon DEF DnsUpdate
<1> DEFINE v == [transactions[d] EXCEPT !.io = "answered", !.rcode = rcode]
<1>4. /\ transactions' = [transactions EXCEPT ![d] = v]
      /\ v.ncr = transactions[d].ncr /\ v.status = transactions[d].status
  BY Zenon, <1>1, <1>3 DEF Answer, Transaction
<1>5. (Apply(u) \/ UNCHANGED fwd) /\ UNCHANGED <<queue, last, settled, delayed>>
  BY Zenon DEF DnsUpdate, history
<1> HIDE DEF u, v
<1>6. /\ DOMAIN transactions' = DOMAIN transactions /\ transactions'[d] = v
      /\ \A e \in DOMAIN transactions \ {d} : transactions'[e] = transactions[e]
  BY Zenon, <1>4
<1>7. OrderInv'
  <2>1. ASSUME NEW e \in DOMAIN transactions'
        PROVE  /\ e \in DOMAIN last'
               /\ ~Waits(e)' => transactions'[e].ncr = Enabled(last'[e])
               /\ e \in settled' => transactions'[e].status = "COMPLETED"
    BY Zenon, <1>4, <1>5, <1>6 DEF OrderInv, Waits
  <2> QED
    BY Zenon, <1>5, <2>1 DEF OrderInv
<1>8. LastRequestWins'
  <2> SUFFICES ASSUME NEW e \in settled, delayed = 0, ~Waits(e), e \notin DOMAIN transactions,
                      "fwd" \in last[e].dirs \cap Directions
               PROVE  HoldsIn(fwd', last[e])
    BY Zenon, <1>5, <1>6 DEF LastRequestWins, Waits, Holds, HoldsIn
  <2>1. HoldsIn(fwd, last[e])
    BY Zenon DEF LastRequestWins, Waits, Holds, HoldsIn
  <2>2. last[e] \in NameChangeRequest /\ Dhcid(last[e]) # d
    BY Zenon DEF OrderInv
  <2>3. OneOwner /\ DnsInv
    BY Zenon DEF ForwardInv, IInv
  <2> QED
    BY Zenon, <1>2, <1>5, <2>1, <2>2, <2>3, HoldsIsKept
<1> QED
  BY Zenon, <1>7, <1>8

LEMMA StepKeepsOrder ==
    ASSUME IInv, ForwardInv, OrderInv, LastRequestWins, [Next]_vars
    PROVE  OrderInv' /\ LastRequestWins'
<1> USE DEF dns, history
<1>1. CASE UNCHANGED <<queue, transactions, last, settled, fwd, delayed>>
  BY Zenon, <1>1 DEF OrderInv, LastRequestWins, Waits, Holds
<1>2. CASE Iterate
  BY Zenon, <1>2, SweepKeepsOrder DEF Iterate
<1>3. ASSUME NEW ncr \in Requests, Receive(ncr)
      PROVE  OrderInv' /\ LastRequestWins'
  BY Zenon, <1>3, EnqueueKeepsOrder, D2Assumption DEF Receive
<1>4. ASSUME NEW d \in DOMAIN transactions
      PROVE  /\ Own(d, transactions[d]) /\ Progress(transactions[d])
             /\ d \in settled => transactions[d].status = "COMPLETED"
  BY Zenon DEF IInv, WorkInv, SoundList, ForwardInv, OrderInv
<1>5. ASSUME NEW d \in DOMAIN transactions, SendUpdate(d)
      PROVE  OrderInv' /\ LastRequestWins'
  <2> DEFINE t == [transactions[d] EXCEPT !.io = "sent"]
  <2>1. /\ transactions' = [transactions EXCEPT ![d] = t]
        /\ UNCHANGED <<queue, last, settled, fwd, delayed>>
    BY Zenon, <1>5 DEF SendUpdate
  <2>2. t.ncr = transactions[d].ncr /\ t.status = transactions[d].status
    BY Zenon, <1>4 DEF Own, Sound, Transaction
  <2> HIDE DEF t
  <2> QED
    BY Zenon, <1>4, <2>1, <2>2, ReplacedKeepsOrder
<1>6. ASSUME NEW d \in DOMAIN transactions, transactions[d].io # "none",
             NEW before, Own(d, before), before.st # "END",
             before.ncr = transactions[d].ncr, Continue(d, ioCompleted(before)),
             UNCHANGED <<queue, last, fwd>>, delayed' = 0 => delayed = 0
      PROVE  OrderInv' /\ LastRequestWins'
  <2>1. before \in Transaction /\ before.st \in UpdateStates
    BY Zenon, <1>6 DEF Own, Sound, Transaction, UpdateStates
  <2>2. Sound(ioCompleted(before)) /\ ioCompleted(before).ncr = before.ncr
    BY Zenon, <2>1, HandlersKeep DEF Follows
  <2>3. PICK t \in Outcomes(ioCompleted(before)) :
            /\ transactions' = [transactions EXCEPT ![d] = t]
            /\ settled' = settled \cup {e \in {d} : t.status = "COMPLETED"}
    BY Zenon, <1>6 DEF Continue
  <2>4. t.ncr = transactions[d].ncr
    BY Zenon, <1>6, <2>2, <2>3, OutcomesFollow DEF Follows
  <2>5. d \notin settled
    BY Zenon, <1>4, <1>6 DEF Own, Sound, Progress
  <2>6. settled' \subseteq settled \cup {d} /\ (d \in settled' => t.status = "COMPLETED")
    BY Zenon, <2>3, <2>5
  <2> QED
    BY Zenon, <1>6, <2>3, <2>4, <2>6, ReplacedKeepsOrder
<1>7. ASSUME NEW d \in DOMAIN transactions, Response(d)
      PROVE  OrderInv' /\ LastRequestWins'
  <2>1. /\ Continue(d, ioCompleted(transactions[d])) /\ UNCHANGED <<queue, last, fwd, delayed>>
        /\ transactions[d].io = "answered"
    BY Zenon, <1>7 DEF Response
  <2>2. transactions[d].st # "END"
    BY Zenon, <1>4, <2>1 DEF Own, Sound
  <2> QED
    BY Zenon, <1>4, <1>6, <2>1, <2>2
<1>8. ASSUME NEW d \in DOMAIN transactions, NoResponse(d)
      PROVE  OrderInv' /\ LastRequestWins'
  <2> DEFINE t == [transactions[d] EXCEPT !.rcode = "none"]
  <2>1. /\ Continue(d, ioCompleted(t)) /\ UNCHANGED <<queue, last, fwd>>
        /\ transactions[d].io \in {"sent", "answered"}
        /\ delayed' = delayed \/ delayed' = delayed + 1
    BY Zenon, <1>8 DEF NoResponse
  <2>2. transactions[d].st # "END"
    BY Zenon, <1>4, <2>1 DEF Own, Sound
  <2>3. t.ncr = transactions[d].ncr /\ t.st = transactions[d].st
    BY Zenon, <1>4 DEF Own, Sound, Transaction
  <2>4. Own(d, t)
    BY Zenon, <1>4, <2>2, ExchangeKeepsOwn
  <2>5. delayed' = 0 => delayed = 0
    BY <2>1 DEF ForwardInv
  <2> HIDE DEF t
  <2> QED
    BY Zenon, <1>6, <2>1, <2>2, <2>3, <2>4, <2>5
<1>9. ASSUME NEW d \in DOMAIN transactions, DnsUpdate(d)
      PROVE  OrderInv' /\ LastRequestWins'
  BY Zenon, <1>9, DnsUpdateKeepsOrder
<1>10. CASE DnsLateUpdate
  <2>1. delayed # 0 /\ UNCHANGED <<queue, transactions, last, settled, delayed>>
    BY Zenon, <1>10 DEF DnsLateUpdate, ForwardInv
  <2> QED
    BY Zenon, <2>1 DEF OrderInv, LastRequestWins, Waits
<1> QED
  BY Zenon, <1>1, <1>2, <1>3, <1>5, <1>7, <1>8, <1>9, <1>10
  DEF Next, vars, Exit, PollEmpty, Cancelled, ReceiveInvalid, ReceiveError, ReceiveStopped,
      Signal

\* The invariants together are inductive.
LEMMA OrderInvariance == Spec => [](OrderInv /\ LastRequestWins)
<1>1. Init => ForwardInv /\ OrderInv /\ LastRequestWins
  <2>1. Init => /\ DOMAIN transactions = {} /\ delayed = 0 /\ late = {}
                /\ fwd = [n \in Names |-> {}] /\ DOMAIN last = {} /\ settled = {}
                /\ Len(queue) = 0
    BY DEF Init
  <2>2. Init => ForwardInv
    BY <2>1 DEF ForwardInv, OneOwner
  <2>3. Init => OrderInv /\ LastRequestWins
    BY <2>1 DEF OrderInv, LastRequestWins
  <2> QED
    BY Zenon, <2>2, <2>3
<1>2. IInv /\ ForwardInv /\ OrderInv /\ LastRequestWins /\ [Next]_vars =>
          ForwardInv' /\ OrderInv' /\ LastRequestWins'
  BY Zenon, StepKeepsForward, StepKeepsOrder
<1> QED
  BY <1>1, <1>2, Invariance, PTL DEF Spec

\* D2UpdateMgr::pickNextJob() and the queue: for any number of clients, names and requests,
\* when nothing of a client and name is queued or in progress and the last transaction was
\* completed, the zone says what the last request received asked for.
THEOREM LastRequestIsDone == Spec => []LastRequestWins
BY OrderInvariance, PTL
=============================================================================
