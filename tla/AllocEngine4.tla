----------------------------- MODULE AllocEngine4 -----------------------------
(***************************************************************************)
(* How kea-dhcp4 assigns the addresses of a subnet: the handlers of        *)
(* Dhcpv4Srv for DHCPDISCOVER, DHCPREQUEST, DHCPRELEASE and DHCPDECLINE,    *)
(* the part of AllocEngine they call, the timers that reclaim and delete   *)
(* expired leases, a reconfiguration that changes the host reservations,   *)
(* and the statistics these keep.                                          *)
(*                                                                         *)
(* A lease's lifetime is counted relative to the present, so that time can *)
(* pass for ever: "left" is the number of seconds to its expiration time.  *)
(* No hook library is loaded, and the subnet is in no shared network.      *)
(***************************************************************************)
EXTENDS Integers, Sequences, FiniteSets, FiniteSetsExt

CONSTANTS
    Addrs,          \* the addresses of the subnet
    Pools,          \* its pools, [lo, hi], in their order
    Clients,        \* what messages identify themselves as, see below
    Reservations,   \* the host reservations configurations may contain:
                    \* functions from hardware addresses to addresses
    ReservationMode,    \* "all", "out-of-pool" or "disabled"
    MatchClientId,      \* "yes" or "no"
    Valid,          \* valid-lifetime
    Probation,      \* decline-probation-period
    Hold,           \* hold-reclaimed-time
    MaxDrift        \* bound on how wrong a statistic may get

\* The zero address: no address was named, or none could be given.
Zero == 0

\* A client is a hardware address, a client identifier or "none", the machine
\* that uses the two and the pools whose client class it is in. A machine may
\* be several clients (a boot loader and an operating system), but no two
\* machines share a hardware address or a client identifier.
HwAddrs == {c.hw : c \in Clients}
Ids == {c.id : c \in Clients} \cup {"none"}
Machines == {c.machine : c \in Clients}

ASSUME AllocAssumption ==
    /\ Addrs \subseteq Nat \ {Zero}
    /\ IsFiniteSet(Addrs)
    /\ \A c, d \in Clients :
          c.machine # d.machine =>
              c.hw # d.hw /\ (c.id # d.id \/ c.id = "none")
    /\ "none" \notin HwAddrs
    /\ Reservations \subseteq [HwAddrs -> Addrs \cup {Zero}]
    /\ \A h \in Reservations, x, y \in HwAddrs :
          h[x] = h[y] /\ h[x] # Zero => x = y
    /\ Valid \in Nat /\ Probation \in Nat /\ Hold \in Nat /\ MaxDrift \in Nat

\* Subnet::addPool() refuses pools that overlap, and sorts them by address.
ASSUME PoolsAssumption ==
    /\ DOMAIN Pools \subseteq Nat
    /\ \A k \in DOMAIN Pools :
          Pools[k].lo <= Pools[k].hi /\ Pools[k].lo..Pools[k].hi \subseteq Addrs
    /\ \A k \in DOMAIN Pools : Pools[k].lo \in Addrs /\ Pools[k].hi \in Addrs
    /\ \A j, k \in DOMAIN Pools : j < k => Pools[j].hi < Pools[k].lo
    /\ \A c \in Clients : c.pools \subseteq DOMAIN Pools

VARIABLES
    leases,     \* the lease database
    allocator,  \* last_allocated_ of the pools and of the subnet
    hosts,      \* the host reservations of the current configuration
    assigned,   \* subnet[1].assigned-addresses
    declined,   \* subnet[1].declined-addresses
    bound,      \* what each machine uses, and for how long it still may
    drift       \* history: by how much "assigned" is off

vars == <<leases, allocator, hosts, assigned, declined, bound, drift>>

-----------------------------------------------------------------------------
(* Leases. *)

States == {"none", "default", "declined", "reclaimed"}

Lease == [st : States, hw : HwAddrs \cup {"none"}, id : Ids, left : Int]

NoLease == [st |-> "none", hw |-> "none", id |-> "none", left |-> 0]

\* Lease::expired() is strict: at its expiration time a lease is still valid.
expired(l) == l.left < 0

\* Lease4::belongsToClient().
belongsToClient(l, hw, id) ==
    /\ l.st # "none"
    /\ IF id # "none" /\ l.id # "none" THEN id = l.id ELSE hw = l.hw

\* The client identifier as far as the subnet looks at it.
ClientId(c) == IF MatchClientId = "yes" THEN c.id ELSE "none"

\* What createLease4() and updateLease4Information() put in a lease.
LeaseFor(c) ==
    [st |-> "default", hw |-> c.hw, id |-> ClientId(c), left |-> Valid]

\* Lease4::decline(): no one's any more.
DeclinedLease ==
    [st |-> "declined", hw |-> "none", id |-> "none", left |-> Probation]

\* Mutant: a declined lease does not keep an address from being given out.
availableDeclined(a) ==
    leases[a].st \in {"none", "declined"} \/ expired(leases[a])

\* allocateOrReuseLease4() succeeds when there is no lease or an expired one.
available(a) == leases[a].st = "none" \/ expired(leases[a])

\* findClientLease(): the addresses of the leases it may stop at, or Zero.
findClientLease(c) ==
    LET byId == {a \in Addrs : /\ ClientId(c) # "none"
                               /\ leases[a].st # "none"
                               /\ leases[a].id = c.id}
        byHw == {a \in Addrs : /\ leases[a].hw = c.hw
                               /\ belongsToClient(leases[a], c.hw, ClientId(c))}
    IN  IF byId # {} THEN byId ELSE IF byHw # {} THEN byHw ELSE {Zero}

-----------------------------------------------------------------------------
(* Pools and reservations. *)

inRange(a, k) == Pools[k].lo <= a /\ a <= Pools[k].hi

inPool(a) == \E k \in DOMAIN Pools : inRange(a, k)

inAllowedPool(a, c) == \E k \in c.pools : inRange(a, k)

\* Whether the mode lets the server look at a reservation of the address.
Reservable(a) == \/ ReservationMode = "all"
                 \/ ReservationMode = "out-of-pool" /\ ~inPool(a)

\* addressReserved(): for another client.
addressReserved(a, c) ==
    Reservable(a) /\ \E hw \in HwAddrs \ {c.hw} : hosts[hw] = a

\* hasAddressReservation() and the reserved address; Zero if there is none.
reservation(c) ==
    IF hosts[c.hw] # Zero /\ Reservable(hosts[c.hw]) THEN hosts[c.hw] ELSE Zero

-----------------------------------------------------------------------------
(* IterativeAllocator. *)

\* Mutant: one address beyond the end of the pool.
HasNextOffByOne(p, k) == IF k \in p.valid THEN p.last[k] <= Pools[k].hi
                                          ELSE p.last[k] = Pools[k].lo

\* A pool that was just (re)initialised, or one with an address left.
HasNext(p, k) == IF k \in p.valid THEN p.last[k] < Pools[k].hi
                                  ELSE p.last[k] = Pools[k].lo

setLastAllocated(p, k, a) ==
    [last |-> [p.last EXCEPT ![k] = a], valid |-> p.valid \cup {k}, subnet |-> a]

\* pickAddress(): the pool of the subnet's last address or one behind it, the
\* pools it runs out of losing their last address; else all start over. The
\* address picked is the new last address of the subnet.
pickAddress(p, pools) ==
    LET first == Min(pools)
        here == {k \in pools : inRange(p.subnet, k)}
        start == IF here = {} THEN first ELSE Min(here)
        ahead == {k \in pools : k >= start /\ HasNext(p, k)}
        next == Min(ahead)
        passed == {k \in pools : start <= k /\ k < next}
        rewound == [p EXCEPT
            !.last = [k \in DOMAIN @ |-> IF k \in pools THEN Pools[k].lo ELSE @[k]],
            !.valid = @ \ pools]
    IN  IF ahead # {}
        THEN setLastAllocated([p EXCEPT !.valid = @ \ passed], next,
                 IF next \in p.valid THEN p.last[next] + 1 ELSE p.last[next])
        ELSE setLastAllocated(rewound, first, Pools[first].lo)

\* Mutant: one pick too few.
getPoolCapacityOffByOne(c) == Cardinality({a \in Addrs : inAllowedPool(a, c)}) - 1

\* getPoolCapacity() of the pools the client may use (pools do not overlap).
getPoolCapacity(c) == Cardinality({a \in Addrs : inAllowedPool(a, c)})

\* What allocateUnreservedLease4() asks of a pick. (Every pick is an address
\* of the client's pools.)
Acceptable(a, c) == /\ a \in Addrs /\ inAllowedPool(a, c)
                    /\ ~addressReserved(a, c)
                    /\ available(a)

\* One round of the loop of allocateUnreservedLease4(): another pick, unless
\* the last one is acceptable.
Attempt(c, i, p) ==
    IF i > 1 /\ Acceptable(p.subnet, c) THEN p ELSE pickAddress(p, c.pools)

\* The allocator after the picks of one allocation: as many as the pools have
\* addresses, up to the first that is acceptable.
Walk(c) ==
    LET walk[i \in 0..getPoolCapacity(c)] ==
            IF i = 0 THEN allocator ELSE Attempt(c, i, walk[i - 1])
    IN  walk[getPoolCapacity(c)]

allocateUnreservedLease4(c) ==
    LET p == Walk(c)
    IN  [addr |-> IF getPoolCapacity(c) > 0 /\ Acceptable(p.subnet, c)
                  THEN p.subnet ELSE Zero,
         allocator |-> p]

-----------------------------------------------------------------------------
(* What the engine answers, given the client's lease "mine" and the address *)
(* the client names (Zero for none): an address and the allocator's state.  *)

Answer(a) == [addr |-> a, allocator |-> allocator]

\* Mutant: the client's lease is offered though its address was reserved for
\* another client.
discoverLease4Unreserved(c, mine, hint) ==
    LET r == reservation(c)
    IN  IF r # Zero /\ (mine = r \/ available(r)) THEN Answer(r)
        ELSE IF mine # Zero /\ inAllowedPool(mine, c) THEN Answer(mine)
        ELSE IF /\ hint # Zero /\ inAllowedPool(hint, c)
                /\ ~addressReserved(hint, c) /\ available(hint)
        THEN Answer(hint)
        ELSE allocateUnreservedLease4(c)

\* discoverLease4(): the reserved address, the leased one, the one asked for,
\* any. Nothing is stored.
discoverLease4(c, mine, hint) ==
    LET r == reservation(c)
    IN  IF r # Zero /\ (mine = r \/ available(r)) THEN Answer(r)
        ELSE IF mine # Zero /\ inAllowedPool(mine, c) /\ ~addressReserved(mine, c)
        THEN Answer(mine)
        ELSE IF /\ hint # Zero /\ inAllowedPool(hint, c)
                /\ ~addressReserved(hint, c) /\ available(hint)
        THEN Answer(hint)
        ELSE allocateUnreservedLease4(c)

\* requestLease4(), up to the point where it has decided: the checks of the
\* address the client names (its reservation if it names none), then the
\* renewal of the client's lease, the address named, or any.
Refused(c, req) ==
    LET r == reservation(c)
    IN  \/ /\ ~available(req)
           /\ ~belongsToClient(leases[req], c.hw, ClientId(c))
        \/ r # Zero /\ r # req /\ available(r)
        \/ r # req /\ ~inAllowedPool(req, c)

requestLease4(c, mine, named) ==
    LET r == reservation(c)
        req == IF named = Zero THEN r ELSE named
    IN  IF \/ named # Zero /\ addressReserved(named, c)
           \/ req # Zero /\ Refused(c, req)
        THEN Answer(Zero)
        ELSE IF /\ mine # Zero /\ req \in {mine, Zero}
                /\ r # Zero \/ inAllowedPool(mine, c)
        THEN Answer(mine)
        ELSE IF req # Zero
        THEN Answer(IF available(req) THEN req ELSE Zero)
        ELSE allocateUnreservedLease4(c)

-----------------------------------------------------------------------------
(* The handlers. *)

\* renewLease4() looks at the clock twice: a lease that expires in between is
\* counted as assigned again, though it was never reclaimed.
ClockMoved(l) == IF l.left = 0 /\ l.st = "default" THEN {0, 1} ELSE {0}

One(b) == IF b THEN 1 ELSE 0

\* Mutant: an expired declined lease is reused without being recovered.
CommitUnrecovered(c, mine, a, moved) ==
    LET old == leases[a]
        replaced == IF mine \in {Zero, a} THEN {} ELSE {mine}
        gained == One(old.st \in {"none", "reclaimed"}) + moved
    IN  /\ leases' = [b \in Addrs |-> IF b = a THEN LeaseFor(c)
                                      ELSE IF b \in replaced THEN NoLease
                                      ELSE leases[b]]
        /\ assigned' = assigned + gained - Cardinality(replaced)
        /\ drift' = drift + moved
                    - One(\E b \in replaced : leases[b].st = "reclaimed")
        /\ drift' \in -MaxDrift..MaxDrift
        /\ UNCHANGED declined

\* The database and the statistics after requestLease4() gave out an address:
\* the lease there is renewed, reused or created, and the client's other lease
\* deleted.
Commit(c, mine, a, moved) ==
    LET old == leases[a]
        replaced == IF mine \in {Zero, a} THEN {} ELSE {mine}
        gained == One(old.st \in {"none", "reclaimed"}) + moved
    IN  /\ leases' = [b \in Addrs |-> IF b = a THEN LeaseFor(c)
                                      ELSE IF b \in replaced THEN NoLease
                                      ELSE leases[b]]
        /\ assigned' = assigned + gained - Cardinality(replaced)
        /\ declined' = declined - One(old.st = "declined")
        /\ drift' = drift + moved
                    - One(\E b \in replaced : leases[b].st = "reclaimed")
        /\ drift' \in -MaxDrift..MaxDrift

Unbound == [addr |-> Zero, left |-> 0]

\* The machine's side of a DHCPREQUEST (external). It asks for the address it
\* uses, and keeps it when no answer comes, or it has given that address up.
Learn(c, named, reply) ==
    LET m == c.machine
    IN  bound' = [bound EXCEPT ![m] =
            IF reply.type = "ack" THEN [addr |-> reply.addr, left |-> Valid]
            ELSE IF reply.type = "lost" /\ named = @.addr THEN @
            ELSE Unbound]

\* processDiscover(): the offer moves nothing but the allocator.
processDiscover(c, hint) ==
    /\ \E mine \in findClientLease(c) :
          allocator' = discoverLease4(c, mine, hint).allocator
    /\ UNCHANGED <<leases, hosts, assigned, declined, bound, drift>>

\* processRequest() and assignLease(); the answer may get lost.
processRequest(c, named) ==
    \E mine \in findClientLease(c) :
        LET answer == requestLease4(c, mine, named)
            a == answer.addr
        IN  /\ allocator' = answer.allocator
            /\ IF a = Zero
               THEN UNCHANGED <<leases, assigned, declined, drift>>
               ELSE \E moved \in IF a = mine THEN ClockMoved(leases[a]) ELSE {0} :
                       Commit(c, mine, a, moved)
            /\ \E type \in {IF a = Zero THEN "nak" ELSE "ack", "lost"} :
                  Learn(c, named, [type |-> type, addr |-> a])
            /\ UNCHANGED hosts

\* assignLease() for a client that sends no server identifier (INIT-REBOOT):
\* a client without a lease gets no answer, one with another lease a NAK.
KnownLease(c) ==
    LET byId == {a \in Addrs : c.id # "none" /\ leases[a].id = c.id}
        byHw == {a \in Addrs : leases[a].hw = c.hw}
    IN  IF byId # {} THEN byId ELSE IF byHw # {} THEN byHw ELSE {Zero}

initReboot(c, named) ==
    \E known \in KnownLease(c) :
        IF known = Zero \/ ~belongsToClient(leases[known], c.hw, c.id)
        THEN /\ Learn(c, named, [type |-> "lost", addr |-> Zero])
             /\ UNCHANGED <<leases, allocator, hosts, assigned, declined, drift>>
        ELSE IF known # named
        THEN /\ \E type \in {"nak", "lost"} :
                   Learn(c, named, [type |-> type, addr |-> Zero])
             /\ UNCHANGED <<leases, allocator, hosts, assigned, declined, drift>>
        ELSE processRequest(c, named)

\* Mutant: the sender of a release is not compared with the lease's owner.
processReleaseAnyone(c) ==
    LET a == bound[c.machine].addr
    IN  /\ a # Zero
        /\ leases' = [leases EXCEPT ![a] = NoLease]
        /\ assigned' = assigned - One(leases[a].st # "none")
        /\ drift' = drift - One(leases[a].st = "reclaimed")
        /\ drift' \in -MaxDrift..MaxDrift
        /\ bound' = [bound EXCEPT ![c.machine] = Unbound]
        /\ UNCHANGED <<allocator, hosts, declined>>

\* processRelease() of the address the machine has used. The release may come
\* after the lease ran out, or get lost.
processRelease(c) ==
    LET a == bound[c.machine].addr
    IN  /\ a # Zero
        /\ IF belongsToClient(leases[a], c.hw, c.id)
           THEN /\ leases' = [leases EXCEPT ![a] = NoLease]
                /\ assigned' = assigned - 1
                /\ drift' = drift - One(leases[a].st = "reclaimed")
                /\ drift' \in -MaxDrift..MaxDrift
           ELSE UNCHANGED <<leases, assigned, drift>>
        /\ bound' = [bound EXCEPT ![c.machine] = Unbound]
        /\ UNCHANGED <<allocator, hosts, declined>>

\* A machine that is switched off, its release lost or never sent.
Leave(m) ==
    /\ bound' = [bound EXCEPT ![m] = Unbound]
    /\ UNCHANGED <<leases, allocator, hosts, assigned, declined, drift>>

\* processDecline() and declineLease(): the machine found the address it was
\* given in use.
processDecline(c) ==
    LET a == bound[c.machine].addr
    IN  /\ bound[c.machine].left > 0
        /\ IF belongsToClient(leases[a], c.hw, c.id)
           THEN /\ leases' = [leases EXCEPT ![a] = DeclinedLease]
                /\ declined' = declined + 1
           ELSE UNCHANGED <<leases, declined>>
        /\ bound' = [bound EXCEPT ![c.machine] = Unbound]
        /\ UNCHANGED <<allocator, hosts, assigned, drift>>

-----------------------------------------------------------------------------
(* Timers, commands and time. *)

\* getExpiredLeases4() takes leases from their expiration time on.
Expirable == {a \in Addrs : leases[a].st \in {"default", "declined"}
                            /\ leases[a].left <= 0}

\* Mutant: declined leases are taken off their own statistic only.
reclaimDeclinedOnce(S, remove) ==
    /\ S # {}
    /\ \A a \in S, b \in Expirable \ S : leases[a].left <= leases[b].left
    /\ leases' = [a \in Addrs |->
          IF a \notin S THEN leases[a]
          ELSE IF remove \/ leases[a].st = "declined" THEN NoLease
          ELSE [leases[a] EXCEPT !.st = "reclaimed"]]
    /\ assigned' = assigned - Cardinality({a \in S : leases[a].st = "default"})
    /\ declined' = declined - Cardinality({a \in S : leases[a].st = "declined"})
    /\ UNCHANGED <<allocator, hosts, bound, drift>>

\* reclaimExpiredLeases4(): the oldest first, some or all of them as the
\* limits on a pass have it; "remove" when hold-reclaimed-time is 0, or as the
\* leases-reclaim command says. A declined lease is always removed.
reclaimExpiredLeases4(S, remove) ==
    /\ S # {}
    /\ \A a \in S, b \in Expirable \ S : leases[a].left <= leases[b].left
    /\ leases' = [a \in Addrs |->
          IF a \notin S THEN leases[a]
          ELSE IF remove \/ leases[a].st = "declined" THEN NoLease
          ELSE [leases[a] EXCEPT !.st = "reclaimed"]]
    /\ assigned' = assigned - Cardinality(S)
    /\ declined' = declined - Cardinality({a \in S : leases[a].st = "declined"})
    /\ UNCHANGED <<allocator, hosts, bound, drift>>

\* deleteExpiredReclaimedLeases4(): those reclaimed Hold seconds ago or more.
deleteExpiredReclaimedLeases4 ==
    /\ leases' = [a \in Addrs |->
          IF leases[a].st = "reclaimed" /\ leases[a].left <= -Hold
          THEN NoLease ELSE leases[a]]
    /\ UNCHANGED <<allocator, hosts, assigned, declined, bound, drift>>

\* The pools of a new configuration have allocated nothing.
NewAllocator == [last |-> [k \in DOMAIN Pools |-> Pools[k].lo],
                 valid |-> {}, subnet |-> Zero]

InState(st) == {a \in Addrs : leases[a].st = st}

\* A (re)start or a reconfiguration: new reservations, new subnet and pool
\* objects, and recountLeaseStats4(), which counts no declined lease as
\* assigned.
Reconfigure(h) ==
    /\ hosts' = h
    /\ allocator' = NewAllocator
    /\ assigned' = Cardinality(InState("default"))
    /\ declined' = Cardinality(InState("declined"))
    /\ drift' = -Cardinality(InState("declined"))
    /\ drift' \in -MaxDrift..MaxDrift
    /\ UNCHANGED <<leases, bound>>

\* How long ago a lease expired matters up to the moment it is deleted.
Oldest == IF Hold = 0 THEN -1 ELSE -Hold

Older(n) == IF n > Oldest THEN n - 1 ELSE n

\* A second passes for every machine and for the server.
Tick ==
    /\ leases' = [a \in Addrs |->
          IF leases[a].st = "none" THEN leases[a]
          ELSE [leases[a] EXCEPT !.left = Older(@)]]
    /\ bound' = [m \in Machines |->
          IF bound[m].left > 0 THEN [bound[m] EXCEPT !.left = @ - 1]
          ELSE bound[m]]
    /\ UNCHANGED <<allocator, hosts, assigned, declined, drift>>

-----------------------------------------------------------------------------
Init ==
    /\ leases = [a \in Addrs |-> NoLease]
    /\ allocator = NewAllocator
    /\ hosts \in Reservations
    /\ assigned = 0
    /\ declined = 0
    /\ bound = [m \in Machines |-> Unbound]
    /\ drift = 0

Next ==
    \/ \E c \in Clients :
          \/ \E a \in Addrs \cup {Zero} : processDiscover(c, a)
          \/ \E a \in Addrs \cup {Zero} : processRequest(c, a)
          \/ \E a \in Addrs : initReboot(c, a)
          \/ processRelease(c)
          \/ processDecline(c)
    \/ \E m \in Machines : Leave(m)
    \/ \E S \in SUBSET Expirable, remove \in BOOLEAN :
          reclaimExpiredLeases4(S, remove)
    \/ deleteExpiredReclaimedLeases4
    \/ \E h \in Reservations : Reconfigure(h)
    \/ Tick

Spec == Init /\ [][Next]_vars

-----------------------------------------------------------------------------
(* Properties. *)

\* The types of the variables. Wherever the allocator has got to, the last
\* address it remembers of a pool (setLastAllocated) lies in that pool.
TypeOK ==
    /\ leases \in [Addrs -> Lease]
    /\ allocator.last \in [DOMAIN Pools -> Addrs]
    /\ allocator.valid \subseteq DOMAIN Pools
    /\ \A k \in DOMAIN Pools : inRange(allocator.last[k], k)
    /\ hosts \in Reservations
    /\ assigned \in Int /\ declined \in Nat
    /\ bound \in [Machines -> [addr : Addrs \cup {Zero}, left : 0..Valid]]
    /\ drift \in -MaxDrift..MaxDrift

\* Two machines never use the same address at the same time, whatever is
\* lost, reused, reclaimed, declined or reserved meanwhile: requestLease4()
\* gives out an address only when no lease a machine may still rely on is
\* there.
NoDoubleAssignment ==
    \A m, n \in Machines :
        /\ m # n /\ bound[m].left > 0 /\ bound[n].left > 0
        => bound[m].addr # bound[n].addr

\* What discoverLease4() offers, requestLease4() grants when it is asked for
\* it at once: the two functions agree on reservations, pools and leases, and
\* no client is sent from DHCPOFFER to DHCPNAK and back for ever.
OfferIsGranted ==
    \A c \in Clients, hint \in Addrs \cup {Zero} :
        \A mine \in findClientLease(c) :
            LET offered == discoverLease4(c, mine, hint).addr
            IN  offered # Zero => requestLease4(c, mine, offered).addr = offered

\* allocateUnreservedLease4() gives up only when there is nothing to give:
\* wherever earlier allocations left the pools' last addresses, as many picks
\* as there are addresses come by every one of them. (The clients of a subnet
\* all use the same pools.)
FreeAddressIsFound ==
    \A c \in Clients :
        allocateUnreservedLease4(c).addr = Zero =>
            \A a \in Addrs : inAllowedPool(a, c) =>
                addressReserved(a, c) \/ ~available(a)

\* The declined-addresses statistic is the number of declined leases, however
\* they are recovered: reclaimed, or reused by an allocation before that.
DeclinedIsCounted == declined = Cardinality(InState("declined"))

\* The assigned-addresses statistic is the number of leases that are neither
\* reclaimed nor released, up to the miscounts "drift" records: a reclaimed
\* lease that is released or replaced is taken off twice, a lease that expires
\* during its renewal is added twice, and declined leases are not recounted.
AssignedIsCounted ==
    assigned = Cardinality(InState("default") \cup InState("declined")) + drift

\* A declined address stays out of use for its probation period: no request,
\* release, reclamation or reservation changes its lease before its time.
ProbationIsKept ==
    [][\A a \in Addrs :
          leases[a].st = "declined" /\ leases[a].left > 0 =>
              leases'[a].st = "declined"]_vars
=============================================================================
