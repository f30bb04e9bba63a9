------------------------ MODULE NameChangeTransaction ------------------------
(***************************************************************************)
(* The DNS update transactions of kea-dhcp-ddns (bin/d2): the state models *)
(* NameAddTransaction and NameRemoveTransaction as operators on a record,  *)
(* the update messages they build, and what a DNS server does with one     *)
(* (prerequisites first, then the update, all or nothing).                 *)
(*                                                                         *)
(* A state model runs, without yielding, from one DNS exchange to the next *)
(* (StateModel::runModel), so the states a transaction rests in are the    *)
(* ones that wait for an answer, and END_ST.                               *)
(***************************************************************************)
EXTENDS Integers, FiniteSets

CONSTANTS
    Names,          \* fully qualified domain names
    Addrs,          \* lease addresses
    Addrs6,         \* the IPv6 ones among them
    Clients,        \* the identifiers DHCIDs are computed from
    FwdServers,     \* how many DNS servers the forward domain lists
    RevServers,     \* ... and the reverse domain
    MaxTries        \* MAX_UPDATE_TRIES_PER_SERVER

ASSUME TransactionAssumption ==
    /\ Addrs6 \subseteq Addrs
    /\ FwdServers \in Nat /\ RevServers \in Nat
    /\ MaxTries \in Nat \ {0}

\* A NameChangeRequest. Its DHCID is a digest of the client's identifier and
\* the name, and stands for both.
NameChangeRequest == [chg : {"add", "remove"}, client : Clients, fqdn : Names,
                      addr : Addrs, dirs : SUBSET {"fwd", "rev"}]

Dhcid(ncr) == <<ncr.client, ncr.fqdn>>

FwdStates == {"ADDING_FWD_ADDRS", "REPLACING_FWD_ADDRS",
              "REMOVING_FWD_ADDRS", "REMOVING_FWD_RRS"}
RevStates == {"REPLACING_REV_PTRS", "REMOVING_REV_PTRS"}

Transaction == [ncr : NameChangeRequest,
                st : FwdStates \cup RevStates \cup {"END"},
                server : 0..(FwdServers + RevServers),    \* next_server_pos_
                tries : 0..MaxTries,                      \* update_attempts_
                done : SUBSET {"fwd", "rev"},     \* forward_, reverse_change_completed_
                status : {"PENDING", "COMPLETED", "FAILED"},
                io : {"none", "posted", "sent", "answered"},
                rcode : {"none", "NOERROR", "YXDOMAIN", "NXDOMAIN", "NXRRSET",
                         "YXRRSET", "REFUSED"}]

-----------------------------------------------------------------------------
(* The state models. *)

\* sendUpdate(): one more attempt; the exchange is posted to the io service.
sendUpdate(t) == [t EXCEPT !.tries = @ + 1, !.io = "posted", !.rcode = "none"]

\* transition() to a state that exchanges an update: entering it from another
\* state clears the request and the attempts made for it.
enter(t, st) == sendUpdate([t EXCEPT !.st = st, !.tries = 0])

endModel(t, status) ==
    [t EXCEPT !.st = "END", !.status = status, !.io = "none", !.rcode = "none"]

processFailed(t) == endModel(t, "FAILED")
processOk(t) == endModel(t, "COMPLETED")

\* Mutant: the exhausted server list ends the transaction as completed.
selectFwdServerGivesUpQuietly(t) ==
    IF t.server < FwdServers
    THEN enter([t EXCEPT !.server = @ + 1],
               IF t.ncr.chg = "add" THEN "ADDING_FWD_ADDRS"
                                    ELSE "REMOVING_FWD_ADDRS")
    ELSE processOk(t)

\* selectingFwdServerHandler(), selectingRevServerHandler(): the next server
\* of the domain, or failure when the list is exhausted.
selectFwdServer(t) ==
    IF t.server < FwdServers
    THEN enter([t EXCEPT !.server = @ + 1],
               IF t.ncr.chg = "add" THEN "ADDING_FWD_ADDRS"
                                    ELSE "REMOVING_FWD_ADDRS")
    ELSE processFailed(t)

selectRevServer(t) ==
    IF t.server < RevServers
    THEN enter([t EXCEPT !.server = @ + 1],
               IF t.ncr.chg = "add" THEN "REPLACING_REV_PTRS"
                                    ELSE "REMOVING_REV_PTRS")
    ELSE processFailed(t)

\* SELECT_SERVER_EVT: initServerSelection() rewinds the server list.
startFwd(t) == selectFwdServer([t EXCEPT !.server = 0])
startRev(t) == selectRevServer([t EXCEPT !.server = 0])

\* startTransaction() and readyHandler(): the forward change comes first.
startTransaction(ncr) ==
    LET t == [ncr |-> ncr, st |-> "END", server |-> 0, tries |-> 0,
              done |-> {}, status |-> "PENDING", io |-> "none",
              rcode |-> "none"]
    IN  IF "fwd" \in ncr.dirs THEN startFwd(t) ELSE startRev(t)

fwdCompleted(t) ==
    LET u == [t EXCEPT !.done = @ \cup {"fwd"}]
    IN  IF "rev" \in t.ncr.dirs THEN startRev(u) ELSE processOk(u)

revCompleted(t) == processOk([t EXCEPT !.done = @ \cup {"rev"}])

\* Mutants: one attempt too many; attempts that are not counted.
retryTransitionOnceMore(t, failed) ==
    IF t.tries <= MaxTries THEN sendUpdate(t) ELSE failed

retryTransitionForever(t, failed) == sendUpdate([t EXCEPT !.tries = 0])

\* retryTransition(): the same update again, or what follows from failing.
retryTransition(t, failed) ==
    IF t.tries < MaxTries THEN sendUpdate(t) ELSE failed

(* The handlers on IO_COMPLETED_EVT, one per state that exchanges an update. *)
(* Without a response code there was no usable response: TIMEOUT, OTHER or   *)
(* INVALID_RESPONSE, which are treated alike.                                *)

\* Mutant: a name that is in use counts as added.
addingFwdAddrsHandlerTakesConflict(t) ==
    CASE t.rcode = "none" -> retryTransition(t, selectFwdServer(t))
      [] t.rcode \in {"NOERROR", "YXDOMAIN"} -> fwdCompleted(t)
      [] OTHER -> processFailed(t)

addingFwdAddrsHandler(t) ==
    CASE t.rcode = "none" -> retryTransition(t, selectFwdServer(t))
      [] t.rcode = "NOERROR" -> fwdCompleted(t)
      [] t.rcode = "YXDOMAIN" -> enter(t, "REPLACING_FWD_ADDRS")
      [] OTHER -> processFailed(t)

replacingFwdAddrsHandler(t) ==
    CASE t.rcode = "none" -> retryTransition(t, selectFwdServer(t))
      [] t.rcode = "NOERROR" -> fwdCompleted(t)
      [] t.rcode = "NXDOMAIN" -> enter(t, "ADDING_FWD_ADDRS")
      [] OTHER -> processFailed(t)

replacingRevPtrsHandler(t) ==
    CASE t.rcode = "none" -> retryTransition(t, selectRevServer(t))
      [] t.rcode = "NOERROR" -> revCompleted(t)
      [] OTHER -> processFailed(t)

\* A removal treats "it was not there" as success.
Removed == {"NOERROR", "NXRRSET"}

removingFwdAddrsHandler(t) ==
    CASE t.rcode = "none" -> retryTransition(t, selectFwdServer(t))
      [] t.rcode \in Removed -> enter(t, "REMOVING_FWD_RRS")
      [] OTHER -> processFailed(t)

\* The addresses are gone from this server: no other one is tried.
removingFwdRRsHandler(t) ==
    CASE t.rcode = "none" -> retryTransition(t, processFailed(t))
      [] t.rcode \in Removed -> fwdCompleted(t)
      [] OTHER -> processFailed(t)

removingRevPtrsHandler(t) ==
    CASE t.rcode = "none" -> retryTransition(t, selectRevServer(t))
      [] t.rcode \in Removed -> revCompleted(t)
      [] OTHER -> processFailed(t)

\* operator(): runModel(IO_COMPLETED_EVT).
ioCompleted(t) ==
    CASE t.st = "ADDING_FWD_ADDRS" -> addingFwdAddrsHandler(t)
      [] t.st = "REPLACING_FWD_ADDRS" -> replacingFwdAddrsHandler(t)
      [] t.st = "REPLACING_REV_PTRS" -> replacingRevPtrsHandler(t)
      [] t.st = "REMOVING_FWD_ADDRS" -> removingFwdAddrsHandler(t)
      [] t.st = "REMOVING_FWD_RRS" -> removingFwdRRsHandler(t)
      [] t.st = "REMOVING_REV_PTRS" -> removingRevPtrsHandler(t)

-----------------------------------------------------------------------------
(* The update messages. A resource record is its type and its data. The    *)
(* prerequisites ask whether the name is in use, that RRsets are absent and *)
(* that RRsets consist of one record exactly; the update section deletes    *)
(* RRsets and records, and adds records, in this order.                     *)

AddressTypes == {"A", "AAAA"}
RRTypes == AddressTypes \cup {"DHCID", "PTR"}

AddressRR(ncr) == <<IF ncr.addr \in Addrs6 THEN "AAAA" ELSE "A", ncr.addr>>
DhcidRR(ncr) == <<"DHCID", Dhcid(ncr)>>
PtrRR(ncr) == <<"PTR", ncr.fqdn>>

\* prepNewRequest(): an empty update of a name in a forward or reverse domain.
prepNewRequest(zone, name) ==
    [zone |-> zone, name |-> name, inUse |-> "any", absent |-> {}, exact |-> {},
     deleted |-> {}, removed |-> {}, added |-> {}]

buildAddFwdAddressRequest(ncr) ==
    [prepNewRequest("fwd", ncr.fqdn) EXCEPT
        !.inUse = "no", !.added = {AddressRR(ncr), DhcidRR(ncr)}]

\* Mutant: a replacement that does not ask for the client's DHCID.
buildReplaceFwdAddressRequestAnyOwner(ncr) ==
    [prepNewRequest("fwd", ncr.fqdn) EXCEPT
        !.inUse = "yes",
        !.deleted = {AddressRR(ncr)[1]}, !.added = {AddressRR(ncr)}]

buildReplaceFwdAddressRequest(ncr) ==
    [prepNewRequest("fwd", ncr.fqdn) EXCEPT
        !.inUse = "yes", !.exact = {DhcidRR(ncr)},
        !.deleted = {AddressRR(ncr)[1]}, !.added = {AddressRR(ncr)}]

buildReplaceRevPtrsRequest(ncr) ==
    [prepNewRequest("rev", ncr.addr) EXCEPT
        !.deleted = {"PTR", "DHCID"}, !.added = {PtrRR(ncr), DhcidRR(ncr)}]

buildRemoveFwdAddressRequest(ncr) ==
    [prepNewRequest("fwd", ncr.fqdn) EXCEPT
        !.exact = {DhcidRR(ncr)}, !.removed = {AddressRR(ncr)}]

buildRemoveFwdRRsRequest(ncr) ==
    [prepNewRequest("fwd", ncr.fqdn) EXCEPT
        !.exact = {DhcidRR(ncr)}, !.absent = AddressTypes, !.deleted = RRTypes]

buildRemoveRevPtrsRequest(ncr) ==
    [prepNewRequest("rev", ncr.addr) EXCEPT
        !.exact = {PtrRR(ncr)}, !.deleted = RRTypes]

Update(t) ==
    CASE t.st = "ADDING_FWD_ADDRS" -> buildAddFwdAddressRequest(t.ncr)
      [] t.st = "REPLACING_FWD_ADDRS" -> buildReplaceFwdAddressRequest(t.ncr)
      [] t.st = "REPLACING_REV_PTRS" -> buildReplaceRevPtrsRequest(t.ncr)
      [] t.st = "REMOVING_FWD_ADDRS" -> buildRemoveFwdAddressRequest(t.ncr)
      [] t.st = "REMOVING_FWD_RRS" -> buildRemoveFwdRRsRequest(t.ncr)
      [] t.st = "REMOVING_REV_PTRS" -> buildRemoveRevPtrsRequest(t.ncr)

-----------------------------------------------------------------------------
(* What a DNS server makes of an update of a name that has the records rrs *)
(* (RFC 2136, sections 3.2 and 3.4).                                       *)

Prerequisites(rrs, u) ==
    IF u.inUse = "no" /\ rrs # {} THEN "YXDOMAIN"
    ELSE IF u.inUse = "yes" /\ rrs = {} THEN "NXDOMAIN"
    ELSE IF \E r \in rrs : r[1] \in u.absent THEN "YXRRSET"
    ELSE IF \E r \in u.exact : {q \in rrs : q[1] = r[1]} # {r} THEN "NXRRSET"
    ELSE "NOERROR"

NewRecords(rrs, u) ==
    {r \in rrs : r[1] \notin u.deleted /\ r \notin u.removed} \cup u.added
=============================================================================
