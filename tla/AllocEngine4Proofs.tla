-------------------------- MODULE AllocEngine4Proofs --------------------------
(***************************************************************************)
(* Proofs about AllocEngine4, for any number of machines, clients,         *)
(* addresses, pools and reservations: no address is used by two machines,  *)
(* an offer is granted when it is taken up, a declined address stays out   *)
(* of use, the statistics count what they say, and an address that is      *)
(* free is found.                                                          *)
(***************************************************************************)
EXTENDS AllocEngine4, FiniteSetTheorems, WellFoundedInduction, TLAPS

\* A lease's owner can be told from its hardware address and, when it has
\* one, from its client identifier.
OwnedBy(l, m) ==
    \E d \in Clients : /\ d.machine = m
                       /\ l.hw = d.hw
                       /\ l.id \in {d.id, "none"}

\* A machine that uses an address has a lease there that outlives its use.
HeldIsLeased ==
    \A m \in Machines : bound[m].left > 0 =>
        /\ bound[m].addr \in Addrs
        /\ leases[bound[m].addr].st = "default"
        /\ leases[bound[m].addr].left >= bound[m].left
        /\ OwnedBy(leases[bound[m].addr], m)

\* No client is recognised as the owner of a declined lease.
DeclinedIsNobodys ==
    \A a \in Addrs : leases[a].st = "declined" =>
        leases[a].hw = "none" /\ leases[a].id = "none"

Typed ==
    /\ leases \in [Addrs -> Lease]
    /\ hosts \in Reservations
    /\ bound \in [Machines -> [addr : Addrs \cup {Zero}, left : 0..Valid]]

IInv == Typed /\ HeldIsLeased /\ DeclinedIsNobodys

-----------------------------------------------------------------------------
(* The operators. *)

\* Two machines are told apart by what a lease is looked up with.
LEMMA OwnerIsOne ==
    ASSUME NEW l, NEW m, NEW n, OwnedBy(l, m), OwnedBy(l, n)
    PROVE  m = n
BY Zenon, AllocAssumption DEF OwnedBy

\* A lease that belongs to a client of one machine is not another machine's.
LEMMA BelongsToOwner ==
    ASSUME NEW c \in Clients, NEW l, NEW m, OwnedBy(l, m), NEW id,
           id \in {c.id, "none"}, belongsToClient(l, c.hw, id)
    PROVE  m = c.machine
BY Zenon, AllocAssumption DEF OwnedBy, belongsToClient

\* What findClientLease() finds is a lease of the client.
LEMMA FoundIsMine ==
    ASSUME NEW c \in Clients, NEW mine \in findClientLease(c), mine # Zero
    PROVE  /\ mine \in Addrs
           /\ belongsToClient(leases[mine], c.hw, ClientId(c))
           /\ leases[mine].hw = c.hw \/ leases[mine].id # "none"
BY Zenon DEF findClientLease, belongsToClient, ClientId

\* What the allocator comes up with may be given to the client.
LEMMA UnreservedIsGood ==
    ASSUME NEW c \in Clients, allocateUnreservedLease4(c).addr # Zero
    PROVE  LET a == allocateUnreservedLease4(c).addr
           IN  /\ a \in Addrs
               /\ inAllowedPool(a, c)
               /\ ~addressReserved(a, c)
               /\ available(a)
BY Zenon DEF allocateUnreservedLease4, Acceptable

LEMMA ReservationType ==
    ASSUME NEW c \in Clients, Typed
    PROVE  reservation(c) \in Addrs \cup {Zero}
<1>1. hosts \in [HwAddrs -> Addrs \cup {Zero}]
  BY AllocAssumption, Zenon DEF Typed
<1>2. c.hw \in HwAddrs
  BY Zenon DEF HwAddrs
<1> QED
  BY Zenon, <1>1, <1>2 DEF reservation

\* What requestLease4() grants is the client's lease or available, and the
\* address the client names if it names one.
LEMMA RequestAnswer ==
    ASSUME NEW c \in Clients, NEW mine \in findClientLease(c),
           NEW named \in Addrs \cup {Zero}, Typed,
           requestLease4(c, mine, named).addr # Zero
    PROVE  LET a == requestLease4(c, mine, named).addr
           IN  /\ a \in Addrs
               /\ a = mine \/ available(a)
               /\ named # Zero => a = named
<1>1. reservation(c) \in Addrs \cup {Zero}
  BY Zenon, ReservationType
<1>2. mine # Zero => mine \in Addrs
  BY Zenon, FoundIsMine
<1>3. CASE requestLease4(c, mine, named).addr
               = allocateUnreservedLease4(c).addr /\ named = Zero
  BY Zenon, <1>3, UnreservedIsGood
<1>4. CASE requestLease4(c, mine, named).addr = mine
           /\ named \in {mine, Zero}
  BY Zenon, <1>2, <1>4
<1>5. CASE LET req == IF named = Zero THEN reservation(c) ELSE named
           IN  requestLease4(c, mine, named).addr
                   = IF available(req) THEN req ELSE Zero
  BY Zenon, <1>1, <1>5
<1>6. \/ requestLease4(c, mine, named).addr = Zero
      \/ requestLease4(c, mine, named).addr = mine /\ named \in {mine, Zero}
      \/ LET req == IF named = Zero THEN reservation(c) ELSE named
         IN  requestLease4(c, mine, named).addr
                 = IF available(req) THEN req ELSE Zero
      \/ requestLease4(c, mine, named).addr
             = allocateUnreservedLease4(c).addr /\ named = Zero
  <2> DEFINE req == IF named = Zero THEN reservation(c) ELSE named
  <2> USE DEF Answer
  <2>1. CASE \/ named # Zero /\ addressReserved(named, c)
             \/ req # Zero /\ Refused(c, req)
    BY Zenon, <2>1 DEF requestLease4
  <2>2. CASE /\ ~(\/ named # Zero /\ addressReserved(named, c)
                  \/ req # Zero /\ Refused(c, req))
             /\ mine # Zero /\ req \in {mine, Zero}
             /\ reservation(c) # Zero \/ inAllowedPool(mine, c)
    BY Zenon, <2>2 DEF requestLease4
  <2>3. CASE /\ ~(\/ named # Zero /\ addressReserved(named, c)
                  \/ req # Zero /\ Refused(c, req))
             /\ ~(/\ mine # Zero /\ req \in {mine, Zero}
                  /\ reservation(c) # Zero \/ inAllowedPool(mine, c))
    BY Zenon, <2>3 DEF requestLease4
  <2> QED
    BY Zenon, <2>1, <2>2, <2>3
<1> QED
  BY Zenon, <1>3, <1>4, <1>5, <1>6

-----------------------------------------------------------------------------
(* An offer is granted. *)

\* The checks of requestLease4() pass for an address that is in the client's
\* pools or its reservation, reserved for no one else, and the client's own or
\* available, unless the client's reserved address is available.
LEMMA Grant ==
    ASSUME NEW c \in Clients, NEW mine \in findClientLease(c), NEW a \in Addrs,
           Typed,
           ~addressReserved(a, c),
           a = mine \/ available(a),
           a = reservation(c) \/ inAllowedPool(a, c),
           reservation(c) \notin {Zero, a} => ~available(reservation(c))
    PROVE  requestLease4(c, mine, a).addr = a
<1>1. a # Zero
  BY Zenon, AllocAssumption
<1>2. ~Refused(c, a)
  BY Zenon, <1>1, FoundIsMine DEF Refused
<1>3. CASE mine = a
  <2>1. reservation(c) # Zero \/ inAllowedPool(mine, c)
    BY Zenon, <1>1, <1>3
  <2> QED
    BY Zenon, <1>1, <1>2, <1>3, <2>1 DEF requestLease4, Answer
<1>4. CASE mine # a
  BY Zenon, <1>1, <1>2, <1>4 DEF requestLease4, Answer
<1> QED
  BY Zenon, <1>3, <1>4

LEMMA OfferGranted ==
    ASSUME Typed
    PROVE  OfferIsGranted
<1> SUFFICES ASSUME NEW c \in Clients, NEW hint \in Addrs \cup {Zero},
                    NEW mine \in findClientLease(c),
                    discoverLease4(c, mine, hint).addr # Zero
             PROVE  LET offered == discoverLease4(c, mine, hint).addr
                    IN  requestLease4(c, mine, offered).addr = offered
  BY Zenon DEF OfferIsGranted
<1> DEFINE r == reservation(c)
           offered == discoverLease4(c, mine, hint).addr
<1>1. r \in Addrs \cup {Zero}
  BY Zenon, ReservationType
<1>2. r # Zero => ~addressReserved(r, c)
  <2>1. c.hw \in HwAddrs
    BY Zenon DEF HwAddrs
  <2>2. \A x, y \in HwAddrs : hosts[x] = hosts[y] /\ hosts[x] # Zero => x = y
    BY AllocAssumption, Zenon DEF Typed
  <2> QED
    BY Zenon, <2>1, <2>2 DEF reservation, addressReserved
<1>3. mine # Zero => mine \in Addrs
  BY Zenon, FoundIsMine
<1>4. CASE r # Zero /\ (mine = r \/ available(r))
  <2>1. offered = r
    BY Zenon, <1>4 DEF discoverLease4, Answer
  <2> QED
    BY Zenon, <1>1, <1>2, <1>4, <2>1, Grant
<1>5. CASE ~(r # Zero /\ (mine = r \/ available(r)))
  <2>1. /\ offered \in Addrs
        /\ inAllowedPool(offered, c)
        /\ ~addressReserved(offered, c)
        /\ offered = mine \/ available(offered)
    <3>1. CASE mine # Zero /\ inAllowedPool(mine, c) /\ ~addressReserved(mine, c)
      BY Zenon, <1>3, <1>5, <3>1 DEF discoverLease4, Answer
    <3>2. CASE ~(mine # Zero /\ inAllowedPool(mine, c) /\ ~addressReserved(mine, c))
      <4>1. CASE /\ hint # Zero /\ inAllowedPool(hint, c)
                 /\ ~addressReserved(hint, c) /\ available(hint)
        BY Zenon, <1>5, <3>2, <4>1 DEF discoverLease4, Answer
      <4>2. CASE ~(/\ hint # Zero /\ inAllowedPool(hint, c)
                   /\ ~addressReserved(hint, c) /\ available(hint))
        <5>1. offered = allocateUnreservedLease4(c).addr
          BY Zenon, <1>5, <3>2, <4>2 DEF discoverLease4
        <5> QED
          BY Zenon, <5>1, UnreservedIsGood
      <4> QED
        BY Zenon, <4>1, <4>2
    <3> QED
      BY Zenon, <3>1, <3>2
  <2> QED
    BY Zenon, <1>5, <2>1, Grant
<1> QED
  BY Zenon, <1>4, <1>5

-----------------------------------------------------------------------------
(* No address is used by two machines. *)

LEMMA LeaseTypes ==
    /\ NoLease \in Lease
    /\ DeclinedLease \in Lease
    /\ \A c \in Clients : LeaseFor(c) \in Lease
BY AllocAssumption
   DEF Lease, NoLease, DeclinedLease, LeaseFor, ClientId, States, HwAddrs, Ids

LEMMA InitIInv == Init => IInv
<1> SUFFICES ASSUME Init PROVE IInv
  BY Zenon
<1>1. Typed
  BY LeaseTypes, AllocAssumption DEF Init, Typed, Unbound
<1>2. HeldIsLeased
  BY DEF Init, HeldIsLeased, Unbound
<1>3. DeclinedIsNobodys
  BY Zenon DEF Init, DeclinedIsNobodys, NoLease
<1> QED
  BY Zenon, <1>1, <1>2, <1>3 DEF IInv

\* A step in which machine m alone takes part leaves every other machine's
\* lease alone when it touches only leases that are not default, run out or
\* m's own.
LEMMA OthersKeepTheirs ==
    ASSUME IInv, NEW m \in Machines, NEW n \in Machines, n # m,
           bound'[n] = bound[n],
           \A a \in Addrs :
               \/ leases'[a] = leases[a]
               \/ leases[a].st # "default"
               \/ leases[a].left <= 0
               \/ \A k \in Machines : OwnedBy(leases[a], k) => k = m
    PROVE  bound'[n].left > 0 =>
               /\ bound'[n].addr \in Addrs
               /\ leases'[bound'[n].addr].st = "default"
               /\ leases'[bound'[n].addr].left >= bound'[n].left
               /\ OwnedBy(leases'[bound'[n].addr], n)
<1> SUFFICES ASSUME bound[n].left > 0
             PROVE  leases'[bound[n].addr] = leases[bound[n].addr]
  BY Zenon DEF IInv, HeldIsLeased
<1>1. /\ bound[n].addr \in Addrs
      /\ leases[bound[n].addr].st = "default"
      /\ leases[bound[n].addr].left >= bound[n].left
      /\ OwnedBy(leases[bound[n].addr], n)
  BY Zenon DEF IInv, HeldIsLeased
<1>2. leases[bound[n].addr].left \in Int /\ bound[n].left \in Int
  BY <1>1 DEF IInv, Typed, Lease
<1> QED
  BY <1>1, <1>2

LEMMA RequestIInv ==
    ASSUME IInv, NEW c \in Clients, NEW named \in Addrs \cup {Zero},
           processRequest(c, named)
    PROVE  IInv'
<1> DEFINE m == c.machine
<1>0. m \in Machines
  BY Zenon DEF Machines
<1>t. Typed
  BY Zenon DEF IInv
<1>1. PICK mine \in findClientLease(c) :
        LET a == requestLease4(c, mine, named).addr
        IN  /\ IF a = Zero
               THEN UNCHANGED <<leases, assigned, declined, drift>>
               ELSE \E moved \in IF a = mine THEN ClockMoved(leases[a]) ELSE {0} :
                       Commit(c, mine, a, moved)
            /\ \E type \in {IF a = Zero THEN "nak" ELSE "ack", "lost"} :
                  Learn(c, named, [type |-> type, addr |-> a])
            /\ UNCHANGED hosts
  BY Zenon DEF processRequest
<1> DEFINE a == requestLease4(c, mine, named).addr
<1>2. PICK type \in {IF a = Zero THEN "nak" ELSE "ack", "lost"} :
        Learn(c, named, [type |-> type, addr |-> a])
  BY Zenon, <1>1
<1>3. \A n \in Machines \ {m} : bound'[n] = bound[n]
  BY Zenon, <1>2, <1>t DEF Learn, Typed
<1>4. bound'[m] = IF type = "ack" THEN [addr |-> a, left |-> Valid]
                  ELSE IF type = "lost" /\ named = bound[m].addr THEN bound[m]
                  ELSE Unbound
  BY Zenon, <1>0, <1>2, <1>t DEF Learn, Typed
<1>5. bound' \in [Machines -> [addr : Addrs \cup {Zero}, left : 0..Valid]]
  <2>1. type = "ack" => a \in Addrs
    BY Zenon, <1>t, RequestAnswer
  <2> QED
    BY <1>0, <1>2, <1>t, <2>1, AllocAssumption DEF Learn, Typed, Unbound
<1>6. CASE a = Zero
  <2>1. leases' = leases /\ hosts' = hosts
    BY Zenon, <1>1, <1>6
  <2>2. Typed'
    BY Zenon, <1>5, <1>t, <2>1 DEF Typed
  <2>3. type # "ack"
    BY Zenon, <1>2, <1>6
  <2>4. HeldIsLeased'
    BY <1>3, <1>4, <2>1, <2>3 DEF IInv, HeldIsLeased, Unbound, OwnedBy
  <2>5. DeclinedIsNobodys'
    BY Zenon, <2>1 DEF IInv, DeclinedIsNobodys
  <2> QED
    BY Zenon, <2>2, <2>4, <2>5 DEF IInv
<1>7. CASE a # Zero
  <2>1. /\ a \in Addrs
        /\ a = mine \/ available(a)
        /\ named # Zero => a = named
    BY Zenon, <1>7, <1>t, RequestAnswer
  <2> DEFINE replaced == IF mine \in {Zero, a} THEN {} ELSE {mine}
  <2>2. leases' = [b \in Addrs |-> IF b = a THEN LeaseFor(c)
                                   ELSE IF b \in replaced THEN NoLease
                                   ELSE leases[b]]
    BY Zenon, <1>1, <1>7 DEF Commit
  <2>3. hosts' = hosts
    BY Zenon, <1>1
  <2>4. Typed'
    BY Zenon, <1>5, <1>t, <2>2, <2>3, LeaseTypes DEF Typed
  <2>5. DeclinedIsNobodys'
    BY Zenon, <2>2 DEF IInv, DeclinedIsNobodys, LeaseFor, NoLease
  <2>6. mine # Zero => \A k \in Machines : OwnedBy(leases[mine], k) => k = m
    BY Zenon, FoundIsMine, BelongsToOwner DEF ClientId
  <2>7. \A b \in Addrs : \/ leases'[b] = leases[b]
                         \/ leases[b].st # "default"
                         \/ leases[b].left <= 0
                         \/ \A k \in Machines : OwnedBy(leases[b], k) => k = m
    <3> SUFFICES ASSUME NEW b \in Addrs, leases'[b] # leases[b],
                        ~(\A k \in Machines : OwnedBy(leases[b], k) => k = m)
                 PROVE  leases[b].st # "default" \/ leases[b].left <= 0
      BY Zenon
    <3>1. b # mine
      BY Zenon, <2>6, AllocAssumption
    <3>2. b = a
      BY Zenon, <2>2, <3>1
    <3>3. available(b)
      BY Zenon, <2>1, <3>1, <3>2
    <3>4. leases[b].left \in Int
      BY Zenon, <1>t DEF Typed, Lease
    <3> QED
      BY <3>3, <3>4 DEF available, expired
  <2>8. ASSUME NEW n \in Machines, bound'[n].left > 0
        PROVE  /\ bound'[n].addr \in Addrs
               /\ leases'[bound'[n].addr].st = "default"
               /\ leases'[bound'[n].addr].left >= bound'[n].left
               /\ OwnedBy(leases'[bound'[n].addr], n)
    <3>1. CASE n # m
      BY Zenon, <1>0, <1>3, <2>7, <2>8, <3>1, OthersKeepTheirs
    <3>2. CASE n = m
      <4>1. bound'[m].addr = a
        <5>1. CASE type = "ack"
          BY <1>4, <5>1
        <5>2. CASE type # "ack" /\ named = bound[m].addr
          <6>1. bound'[m] = bound[m]
            BY <1>4, <2>8, <3>2, <5>2, <1>t DEF Unbound
          <6>2. bound[m].addr \in Addrs
            BY Zenon, <1>0, <2>8, <3>2, <6>1 DEF IInv, HeldIsLeased
          <6> QED
            BY Zenon, <2>1, <5>2, <6>1, <6>2, AllocAssumption
        <5>3. CASE type # "ack" /\ named # bound[m].addr
          BY <1>4, <2>8, <3>2, <5>3 DEF Unbound
        <5> QED
          BY Zenon, <5>1, <5>2, <5>3
      <4>2. leases'[a] = LeaseFor(c)
        BY Zenon, <2>1, <2>2
      <4>3. bound'[m].left <= Valid
        BY <1>0, <1>5, AllocAssumption
      <4>4. OwnedBy(LeaseFor(c), m)
        BY Zenon DEF OwnedBy, LeaseFor, ClientId
      <4> QED
        BY <2>1, <3>2, <4>1, <4>2, <4>3, <4>4 DEF LeaseFor
    <3> QED
      BY Zenon, <3>1, <3>2
  <2>9. HeldIsLeased'
    BY Zenon, <2>8 DEF HeldIsLeased, OwnedBy
  <2> QED
    BY Zenon, <2>4, <2>5, <2>9 DEF IInv
<1> QED
  BY Zenon, <1>6, <1>7

\* A message of one machine that changes at most its own lease, to one that
\* is not default, and leaves the machine without an address.
LEMMA GiveUpIInv ==
    ASSUME IInv, NEW c \in Clients, NEW a \in Addrs, NEW l \in {NoLease, DeclinedLease},
           belongsToClient(leases[a], c.hw, c.id),
           leases' = [leases EXCEPT ![a] = l],
           bound' = [bound EXCEPT ![c.machine] = Unbound],
           hosts' = hosts
    PROVE  IInv'
<1>0. c.machine \in Machines
  BY Zenon DEF Machines
<1>1. Typed'
  <2>1. leases' \in [Addrs -> Lease]
    BY Zenon, LeaseTypes DEF IInv, Typed
  <2>2. Unbound \in [addr : Addrs \cup {Zero}, left : 0..Valid]
    BY AllocAssumption DEF Unbound
  <2>3. bound' \in [Machines -> [addr : Addrs \cup {Zero}, left : 0..Valid]]
    BY Zenon, <1>0, <2>2 DEF IInv, Typed
  <2> QED
    BY Zenon, <2>1, <2>3 DEF IInv, Typed
<1>2. \A k \in Machines : OwnedBy(leases[a], k) => k = c.machine
  BY Zenon, BelongsToOwner
<1>3. \A b \in Addrs \ {a} : leases'[b] = leases[b]
  BY Zenon DEF IInv, Typed
<1>4. ASSUME NEW n \in Machines, bound'[n].left > 0
      PROVE  /\ bound'[n].addr \in Addrs
             /\ leases'[bound'[n].addr].st = "default"
             /\ leases'[bound'[n].addr].left >= bound'[n].left
             /\ OwnedBy(leases'[bound'[n].addr], n)
  <2>1. n # c.machine
    BY <1>0, <1>4 DEF IInv, Typed, Unbound
  <2>2. bound'[n] = bound[n]
    BY Zenon, <2>1 DEF IInv, Typed
  <2> QED
    BY <1>0, <1>2, <1>3, <1>4, <2>1, <2>2, OthersKeepTheirs
<1>5. HeldIsLeased'
  BY Zenon, <1>4 DEF HeldIsLeased, OwnedBy
<1>6. DeclinedIsNobodys'
  <2>1. leases'[a] = l
    BY Zenon DEF IInv, Typed
  <2> QED
    BY <1>3, <2>1 DEF IInv, DeclinedIsNobodys, NoLease, DeclinedLease
<1> QED
  BY Zenon, <1>1, <1>5, <1>6 DEF IInv

\* A machine that gives up its address.
LEMMA UnboundIInv ==
    ASSUME IInv, NEW m \in Machines, leases' = leases, hosts' = hosts,
           bound' \in {bound, [bound EXCEPT ![m] = Unbound]}
    PROVE  IInv'
<1>1. Typed'
  BY AllocAssumption DEF IInv, Typed, Unbound
<1>2. \A n \in Machines : bound'[n].left > 0 => bound'[n] = bound[n]
  BY DEF IInv, Typed, Unbound
<1>3. HeldIsLeased'
  BY <1>2 DEF IInv, HeldIsLeased, OwnedBy
<1>4. DeclinedIsNobodys'
  BY Zenon DEF IInv, DeclinedIsNobodys
<1> QED
  BY Zenon, <1>1, <1>3, <1>4 DEF IInv

\* A step that changes no lease a machine relies on.
LEMMA TimerIInv ==
    ASSUME IInv, leases' \in [Addrs -> Lease], bound' = bound, hosts' = hosts,
           \A a \in Addrs : \/ leases'[a] = leases[a]
                            \/ /\ leases[a].left <= 0 \/ leases[a].st # "default"
                               /\ leases'[a].st \in {"none", "reclaimed"}
    PROVE  IInv'
<1>1. Typed'
  BY Zenon DEF IInv, Typed
<1>2. ASSUME NEW n \in Machines, bound[n].left > 0
      PROVE  leases'[bound[n].addr] = leases[bound[n].addr]
  <2>1. /\ bound[n].addr \in Addrs
        /\ leases[bound[n].addr].st = "default"
        /\ leases[bound[n].addr].left >= bound[n].left
    BY Zenon, <1>2 DEF IInv, HeldIsLeased
  <2>2. leases[bound[n].addr].left \in Int /\ bound[n].left \in Int
    BY <2>1 DEF IInv, Typed, Lease
  <2> QED
    BY <1>2, <2>1, <2>2
<1>3. HeldIsLeased'
  BY <1>2 DEF IInv, HeldIsLeased, OwnedBy
<1>4. DeclinedIsNobodys'
  BY Zenon DEF IInv, DeclinedIsNobodys
<1> QED
  BY Zenon, <1>1, <1>3, <1>4 DEF IInv

LEMMA TickIInv ==
    ASSUME IInv, Tick
    PROVE  IInv'
<1>1. Oldest \in Int /\ Oldest < 0
  BY AllocAssumption DEF Oldest
<1>2. \A n \in Int : Older(n) \in Int /\ (n > 0 => Older(n) = n - 1)
  BY <1>1 DEF Older
<1>3. leases' \in [Addrs -> Lease]
  <2> SUFFICES ASSUME NEW a \in Addrs PROVE leases'[a] \in Lease
    BY Zenon DEF Tick
  <2>1. leases[a] \in Lease
    BY Zenon DEF IInv, Typed
  <2>2. leases'[a] = IF leases[a].st = "none" THEN leases[a]
                     ELSE [leases[a] EXCEPT !.left = Older(leases[a].left)]
    BY Zenon DEF Tick
  <2> QED
    BY Zenon, <1>2, <2>1, <2>2 DEF Lease
<1>4. Typed'
  BY <1>3, AllocAssumption DEF IInv, Typed, Tick
<1>5. ASSUME NEW n \in Machines, bound'[n].left > 0
      PROVE  /\ bound'[n].addr \in Addrs
             /\ leases'[bound'[n].addr].st = "default"
             /\ leases'[bound'[n].addr].left >= bound'[n].left
             /\ OwnedBy(leases'[bound'[n].addr], n)
  <2>1. /\ bound[n].left > 0
        /\ bound'[n].addr = bound[n].addr
        /\ bound'[n].left = bound[n].left - 1
    BY <1>5, AllocAssumption DEF IInv, Typed, Tick
  <2> DEFINE l == leases[bound[n].addr]
  <2>2. /\ bound[n].addr \in Addrs
        /\ l.st = "default"
        /\ l.left >= bound[n].left
        /\ OwnedBy(l, n)
    BY Zenon, <2>1 DEF IInv, HeldIsLeased
  <2>3. leases'[bound[n].addr] = [l EXCEPT !.left = Older(l.left)]
    BY Zenon, <2>2 DEF Tick
  <2>4. l \in Lease /\ bound[n].left \in Int
    <3>1. l \in Lease
      BY Zenon, <2>2 DEF IInv, Typed
    <3>2. bound[n] \in [addr : Addrs \cup {Zero}, left : 0..Valid]
      BY Zenon DEF IInv, Typed
    <3> QED
      BY <3>1, <3>2
  <2>5. Older(l.left) = l.left - 1
    BY <1>2, <2>1, <2>2, <2>4 DEF Lease
  <2> QED
    BY <2>1, <2>2, <2>3, <2>4, <2>5 DEF Lease, OwnedBy
<1>6. HeldIsLeased'
  BY Zenon, <1>5 DEF HeldIsLeased, OwnedBy
<1>7. DeclinedIsNobodys'
  <2> SUFFICES ASSUME NEW a \in Addrs, leases'[a].st = "declined"
               PROVE  leases'[a].hw = "none" /\ leases'[a].id = "none"
    BY Zenon DEF DeclinedIsNobodys
  <2>1. leases[a] \in Lease
    BY Zenon DEF IInv, Typed
  <2>2. /\ leases'[a].st = leases[a].st
        /\ leases'[a].hw = leases[a].hw
        /\ leases'[a].id = leases[a].id
    <3>1. leases'[a] = IF leases[a].st = "none" THEN leases[a]
                       ELSE [leases[a] EXCEPT !.left = Older(leases[a].left)]
      BY Zenon DEF Tick
    <3> QED
      BY Zenon, <2>1, <3>1 DEF Lease
  <2> QED
    BY Zenon, <2>2 DEF IInv, DeclinedIsNobodys
<1> QED
  BY Zenon, <1>4, <1>6, <1>7 DEF IInv

LEMMA NextIInv ==
    ASSUME IInv, [Next]_vars
    PROVE  IInv'
<1>1. CASE \E c \in Clients, a \in Addrs \cup {Zero} : processDiscover(c, a)
  <2>1. leases' = leases /\ hosts' = hosts /\ bound' = bound
    BY Zenon, <1>1 DEF processDiscover
  <2> QED
    BY Zenon, <2>1, TimerIInv DEF IInv, Typed
<1>2. CASE \E c \in Clients, a \in Addrs \cup {Zero} : processRequest(c, a)
  BY Zenon, <1>2, RequestIInv
<1>3. ASSUME NEW c \in Clients, NEW a \in Addrs, initReboot(c, a)
      PROVE  IInv'
  <2>1. CASE processRequest(c, a)
    BY Zenon, <2>1, RequestIInv
  <2>2. CASE /\ \E type \in {"nak", "lost"} :
                   Learn(c, a, [type |-> type, addr |-> Zero])
             /\ leases' = leases /\ hosts' = hosts
    <3>1. c.machine \in Machines
      BY Zenon DEF Machines
    <3>2. bound' \in {bound, [bound EXCEPT ![c.machine] = Unbound]}
      BY Zenon, <2>2, <3>1 DEF Learn, IInv, Typed
    <3> QED
      BY Zenon, <2>2, <3>1, <3>2, UnboundIInv
  <2> QED
    BY Zenon, <1>3, <2>1, <2>2 DEF initReboot
<1>4. ASSUME NEW c \in Clients, processRelease(c)
      PROVE  IInv'
  <2> DEFINE a == bound[c.machine].addr
  <2>1. c.machine \in Machines
    BY Zenon DEF Machines
  <2>2. a \in Addrs
    BY Zenon, <1>4, <2>1 DEF processRelease, IInv, Typed
  <2>3. CASE belongsToClient(leases[a], c.hw, c.id)
    BY Zenon, <1>4, <2>2, <2>3, GiveUpIInv DEF processRelease
  <2>4. CASE ~belongsToClient(leases[a], c.hw, c.id)
    BY Zenon, <1>4, <2>1, <2>4, UnboundIInv DEF processRelease
  <2> QED
    BY Zenon, <2>3, <2>4
<1>5. ASSUME NEW c \in Clients, processDecline(c)
      PROVE  IInv'
  <2> DEFINE a == bound[c.machine].addr
  <2>1. c.machine \in Machines
    BY Zenon DEF Machines
  <2>2. a \in Addrs
    BY Zenon, <1>5, <2>1 DEF processDecline, IInv, HeldIsLeased
  <2>3. CASE belongsToClient(leases[a], c.hw, c.id)
    BY Zenon, <1>5, <2>2, <2>3, GiveUpIInv DEF processDecline
  <2>4. CASE ~belongsToClient(leases[a], c.hw, c.id)
    BY Zenon, <1>5, <2>1, <2>4, UnboundIInv DEF processDecline
  <2> QED
    BY Zenon, <2>3, <2>4
<1>6. CASE \E m \in Machines : Leave(m)
  BY Zenon, <1>6, UnboundIInv DEF Leave
<1>7. ASSUME NEW S \in SUBSET Expirable, NEW remove \in BOOLEAN,
             reclaimExpiredLeases4(S, remove)
      PROVE  IInv'
  <2>1. ASSUME NEW a \in Addrs
        PROVE  /\ leases'[a] \in Lease
               /\ \/ leases'[a] = leases[a]
                  \/ /\ leases[a].left <= 0
                     /\ leases'[a].st \in {"none", "reclaimed"}
    <3>1. leases[a] \in Lease
      BY Zenon DEF IInv, Typed
    <3>2. leases'[a] = IF a \notin S THEN leases[a]
                       ELSE IF remove \/ leases[a].st = "declined" THEN NoLease
                       ELSE [leases[a] EXCEPT !.st = "reclaimed"]
      BY <1>7, Zenon DEF reclaimExpiredLeases4
    <3>3. a \in S => leases[a].left <= 0
      BY Zenon DEF Expirable
    <3>4. leases'[a] \in {leases[a], NoLease, [leases[a] EXCEPT !.st = "reclaimed"]}
      BY Zenon, <3>2
    <3>5. a \notin S => leases'[a] = leases[a]
      BY Zenon, <3>2
    <3> QED
      BY Zenon, <3>1, <3>3, <3>4, <3>5, LeaseTypes DEF Lease, NoLease, States
  <2>2. leases' \in [Addrs -> Lease]
    BY Zenon, <1>7, <2>1 DEF reclaimExpiredLeases4
  <2> QED
    BY Zenon, <1>7, <2>1, <2>2, TimerIInv DEF reclaimExpiredLeases4
<1>8. CASE deleteExpiredReclaimedLeases4
  <2>1. leases' \in [Addrs -> Lease]
    BY Zenon, <1>8, LeaseTypes DEF deleteExpiredReclaimedLeases4, IInv, Typed
  <2>2. \A a \in Addrs : \/ leases'[a] = leases[a]
                         \/ /\ leases[a].st # "default"
                            /\ leases'[a].st \in {"none", "reclaimed"}
    BY Zenon, <1>8 DEF deleteExpiredReclaimedLeases4, NoLease
  <2> QED
    BY Zenon, <1>8, <2>1, <2>2, TimerIInv DEF deleteExpiredReclaimedLeases4
<1>9. CASE \E h \in Reservations : Reconfigure(h)
  <2>1. leases' = leases /\ bound' = bound /\ hosts' \in Reservations
    BY Zenon, <1>9 DEF Reconfigure
  <2> QED
    BY Zenon, <2>1 DEF IInv, Typed, HeldIsLeased, DeclinedIsNobodys, OwnedBy
<1>10. CASE Tick
  BY Zenon, <1>10, TickIInv
<1>11. CASE UNCHANGED vars
  BY Zenon, <1>11 DEF vars, IInv, Typed, HeldIsLeased, DeclinedIsNobodys, OwnedBy
<1> QED
  BY Zenon, <1>1, <1>2, <1>3, <1>4, <1>5, <1>6, <1>7, <1>8, <1>9, <1>10, <1>11 DEF Next

\* The invariant the theorems below rest on.
LEMMA Invariance == Spec => []IInv
BY InitIInv, NextIInv, PTL DEF Spec

\* No two machines ever use the same address at the same time, in a subnet of
\* any size and whatever messages and answers are lost (requestLease4(),
\* processRelease(), processDecline() and the timers).
THEOREM AddressesAreExclusive == Spec => []NoDoubleAssignment
<1>1. IInv => NoDoubleAssignment
  BY Zenon, OwnerIsOne DEF IInv, HeldIsLeased, NoDoubleAssignment
<1> QED
  BY <1>1, Invariance, PTL

\* What discoverLease4() offers is what requestLease4() grants, with any
\* pools, client classes, reservations and leases.
THEOREM OffersAreGranted == Spec => []OfferIsGranted
<1>1. IInv => OfferIsGranted
  BY Zenon, OfferGranted DEF IInv
<1> QED
  BY <1>1, Invariance, PTL

\* No client finds a declined lease, so nobody renews, releases or declines
\* it, and it is reused or reclaimed only when its probation is over.
LEMMA StepKeepsProbation ==
    ASSUME IInv, [Next]_vars, NEW a \in Addrs,
           leases[a].st = "declined", leases[a].left > 0
    PROVE  leases'[a].st = "declined"
<1>1. leases[a] \in Lease /\ leases[a].hw = "none" /\ leases[a].id = "none"
  BY Zenon DEF IInv, Typed, DeclinedIsNobodys
<1>2. ~available(a)
  BY <1>1 DEF available, expired, Lease
<1>3. \A c \in Clients : c.hw # "none"
  BY Zenon, AllocAssumption DEF HwAddrs
<1>4. ASSUME NEW c \in Clients, NEW id PROVE ~belongsToClient(leases[a], c.hw, id)
  BY Zenon, <1>1, <1>3 DEF belongsToClient
<1>5. ASSUME NEW c \in Clients PROVE a \notin findClientLease(c)
  BY Zenon, <1>4, FoundIsMine, AllocAssumption
<1>6. ASSUME NEW c \in Clients, NEW b \in Addrs \cup {Zero}, processRequest(c, b)
      PROVE  leases'[a] = leases[a]
  <2>1. PICK mine \in findClientLease(c) :
          LET g == requestLease4(c, mine, b).addr
          IN  IF g = Zero
              THEN UNCHANGED <<leases, assigned, declined, drift>>
              ELSE \E moved \in IF g = mine THEN ClockMoved(leases[g]) ELSE {0} :
                      Commit(c, mine, g, moved)
    BY Zenon, <1>6 DEF processRequest
  <2> DEFINE g == requestLease4(c, mine, b).addr
  <2>2. CASE g = Zero
    BY Zenon, <2>1, <2>2
  <2>3. CASE g # Zero
    <3>1. g = mine \/ available(g)
      BY Zenon, <2>3, RequestAnswer DEF IInv
    <3>2. a # g /\ a # mine
      BY Zenon, <1>2, <1>5, <3>1
    <3> QED
      BY Zenon, <2>1, <2>3, <3>2 DEF Commit
  <2> QED
    BY Zenon, <2>2, <2>3
<1>7. CASE \E c \in Clients, b \in Addrs \cup {Zero} :
               processDiscover(c, b) \/ processRequest(c, b)
  BY Zenon, <1>6, <1>7 DEF processDiscover
<1>8. CASE \E c \in Clients, b \in Addrs : initReboot(c, b)
  BY Zenon, <1>6, <1>8 DEF initReboot
<1>9. CASE \E c \in Clients : processRelease(c) \/ processDecline(c)
  <2> PICK c \in Clients : processRelease(c) \/ processDecline(c)
    BY Zenon, <1>9
  <2>1. \/ leases' = leases
        \/ /\ belongsToClient(leases[bound[c.machine].addr], c.hw, c.id)
           /\ \E l : leases' = [leases EXCEPT ![bound[c.machine].addr] = l]
    BY Zenon DEF processRelease, processDecline
  <2> QED
    BY Zenon, <1>4, <2>1 DEF IInv, Typed
<1>10. CASE \E S \in SUBSET Expirable, remove \in BOOLEAN :
               reclaimExpiredLeases4(S, remove)
  <2> PICK S \in SUBSET Expirable, remove \in BOOLEAN :
               reclaimExpiredLeases4(S, remove)
    BY Zenon, <1>10
  <2>1. a \notin S
    BY <1>1 DEF Expirable, Lease
  <2> QED
    BY Zenon, <2>1 DEF reclaimExpiredLeases4
<1>11. CASE Tick
  <2>1. leases'[a] = [leases[a] EXCEPT !.left = Older(leases[a].left)]
    BY Zenon, <1>11 DEF Tick
  <2> QED
    BY Zenon, <1>1, <2>1 DEF Lease
<1>12. CASE \/ deleteExpiredReclaimedLeases4 \/ UNCHANGED vars
            \/ \E h \in Reservations : Reconfigure(h)
            \/ \E m \in Machines : Leave(m)
  BY Zenon, <1>12 DEF deleteExpiredReclaimedLeases4, vars, Reconfigure, Leave
<1> QED
  BY Zenon, <1>7, <1>8, <1>9, <1>10, <1>11, <1>12 DEF Next

\* A declined address stays declined for its probation period (declineLease(),
\* allocateOrReuseLease4() and reclaimExpiredLeases4()).
THEOREM DeclinedStaysOut == Spec => ProbationIsKept
<1>1. IInv /\ [Next]_vars =>
        [\A a \in Addrs : leases[a].st = "declined" /\ leases[a].left > 0 =>
              leases'[a].st = "declined"]_vars
  BY Zenon, StepKeepsProbation
<1> QED
  BY <1>1, Invariance, PTL DEF Spec, ProbationIsKept

-----------------------------------------------------------------------------
(* The statistics. *)

\* The leases that count as assigned.
Assigned == InState("default") \cup InState("declined")

Counted == DeclinedIsCounted /\ AssignedIsCounted /\ drift \in -MaxDrift..MaxDrift

LEMMA StatesAreFinite ==
    /\ IsFiniteSet(InState("default")) /\ IsFiniteSet(InState("declined")) /\ IsFiniteSet(Assigned)
    /\ Cardinality(InState("default")) \in Nat /\ Cardinality(InState("declined")) \in Nat
    /\ Cardinality(Assigned) \in Nat
<1>1. /\ InState("default") \in SUBSET Addrs /\ InState("declined") \in SUBSET Addrs
      /\ Assigned \in SUBSET Addrs
  BY Zenon DEF InState, Assigned
<1> QED
  BY Zenon, <1>1, FS_Subset, FS_CardinalityType, AllocAssumption

LEMMA DriftIs ==
    ASSUME Counted
    PROVE  drift \in Int
<1>1. drift \in -MaxDrift..MaxDrift /\ MaxDrift \in Nat
  BY Zenon, AllocAssumption DEF Counted
<1> QED
  BY <1>1

\* A step that leaves every lease in its state.
LEMMA StatesKept ==
    ASSUME Counted, \A a \in Addrs : leases'[a].st = leases[a].st,
           UNCHANGED <<assigned, declined, drift>>
    PROVE  Counted'
<1>1. InState("default")' = InState("default") /\ InState("declined")' = InState("declined")
  BY Zenon DEF InState
<1> QED
  BY Zenon, <1>1 DEF Counted, DeclinedIsCounted, AssignedIsCounted

\* A lease that belongs to a client is in use, or reclaimed.
LEMMA OwnedIsNotDeclined ==
    ASSUME IInv, NEW c \in Clients, NEW id, NEW a \in Addrs, belongsToClient(leases[a], c.hw, id)
    PROVE  leases[a].st \in {"default", "reclaimed"}
<1>1. leases[a].st \in States
  BY Zenon DEF IInv, Typed, Lease
<1>2. c.hw # "none"
  BY Zenon, AllocAssumption DEF HwAddrs
<1>3. leases[a].st # "declined"
  BY Zenon, <1>2 DEF IInv, DeclinedIsNobodys, belongsToClient
<1> QED
  BY Zenon, <1>1, <1>3 DEF belongsToClient, States

\* A lease is renewed, reused or created, and the client's other lease deleted.
LEMMA CommitCounts ==
    ASSUME IInv, Counted, NEW c \in Clients, NEW mine \in findClientLease(c), NEW a \in Addrs,
           NEW moved \in {0, 1}, Commit(c, mine, a, moved)
    PROVE  Counted'
<1> DEFINE replaced == IF mine \in {Zero, a} THEN {} ELSE {mine}
           D == InState("declined")
           gained == One(leases[a].st \in {"none", "reclaimed"})
           again == One(\E b \in replaced : leases[b].st = "reclaimed")
<1>1. /\ leases' = [b \in Addrs |-> IF b = a THEN LeaseFor(c)
                                    ELSE IF b \in replaced THEN NoLease
                                    ELSE leases[b]]
      /\ assigned' = assigned + (gained + moved) - Cardinality(replaced)
      /\ declined' = declined - One(leases[a].st = "declined")
      /\ drift' = drift + moved - again
      /\ drift' \in -MaxDrift..MaxDrift
  BY Zenon DEF Commit
<1>2. mine # Zero => mine \in Addrs /\ leases[mine].st \in {"default", "reclaimed"}
  BY Zenon, FoundIsMine, OwnedIsNotDeclined
<1>3. \A b \in Addrs : leases'[b].st = IF b = a THEN "default"
                                       ELSE IF b \in replaced THEN "none" ELSE leases[b].st
  BY Zenon, <1>1 DEF LeaseFor, NoLease
<1>4. leases[a].st \in States
  BY Zenon DEF IInv, Typed, Lease
<1>5. InState("declined")' = D \ {a}
  BY Zenon, <1>2, <1>3 DEF InState
<1>6. (InState("default") \cup InState("declined"))' = (Assigned \cup {a}) \ replaced
  <2>1. replaced \subseteq Addrs \ {a}
    BY Zenon, <1>2
  <2> HIDE DEF replaced
  <2>2. (InState("default") \cup InState("declined"))'
          = {b \in Addrs : leases'[b].st \in {"default", "declined"}}
    BY Zenon DEF InState
  <2>3. Assigned = {b \in Addrs : leases[b].st \in {"default", "declined"}}
    BY Zenon DEF InState, Assigned
  <2> QED
    BY Zenon, <1>3, <2>1, <2>2, <2>3
<1>7. Cardinality(D \ {a}) = Cardinality(D) - One(leases[a].st = "declined")
  <2>1. a \in D <=> leases[a].st = "declined"
    BY Zenon DEF InState
  <2>2. IsFiniteSet(D) /\ Cardinality(D) \in Nat
    BY Zenon, StatesAreFinite
  <2> HIDE DEF D
  <2>3. Cardinality(D \ {a}) = IF a \in D THEN Cardinality(D) - 1 ELSE Cardinality(D)
    BY Zenon, <2>2, FS_RemoveElement
  <2> QED
    BY <2>1, <2>2, <2>3 DEF One
<1>8. Cardinality(Assigned \cup {a}) = Cardinality(Assigned) + gained /\ IsFiniteSet(Assigned \cup {a})
  <2>1. a \in Assigned <=> leases[a].st \notin {"none", "reclaimed"}
    BY Zenon, <1>4 DEF InState, Assigned, States
  <2> QED
    BY <2>1, StatesAreFinite, FS_AddElement DEF One
<1>9. Cardinality((Assigned \cup {a}) \ replaced)
        = Cardinality(Assigned) + gained - Cardinality(replaced) + again
  <2> DEFINE U == Assigned \cup {a}
  <2>1. CASE mine \in {Zero, a}
    <3>1. replaced = {} /\ U \ replaced = U /\ again = 0 /\ Cardinality(replaced) = 0
      BY Zenon, <2>1, FS_EmptySet DEF One
    <3> HIDE DEF U, replaced, again
    <3>2. Cardinality(Assigned) \in Nat /\ gained \in Nat
      BY Zenon, StatesAreFinite DEF One
    <3> QED
      BY <1>8, <3>1, <3>2 DEF U
  <2>2. CASE mine \notin {Zero, a}
    <3>1. replaced = {mine} /\ Cardinality(replaced) = 1
      BY Zenon, <2>2, FS_Singleton
    <3>2. mine \in U <=> leases[mine].st # "reclaimed"
      BY Zenon, <1>2, <2>2 DEF InState, Assigned
    <3>3. again = One(leases[mine].st = "reclaimed")
      BY Zenon, <3>1 DEF One
    <3> HIDE DEF U, replaced, again
    <3>4. Cardinality(U \ {mine}) = IF mine \in U THEN Cardinality(U) - 1 ELSE Cardinality(U)
      BY Zenon, <1>8, FS_RemoveElement DEF U
    <3>5. Cardinality(Assigned) \in Nat /\ gained \in Nat
      BY Zenon, StatesAreFinite DEF One
    <3> QED
      BY <1>8, <3>1, <3>2, <3>3, <3>4, <3>5 DEF One, U
  <2> QED
    BY Zenon, <2>1, <2>2
<1> HIDE DEF D, gained, again, replaced
<1>10. DeclinedIsCounted'
  BY Zenon, <1>1, <1>5, <1>7 DEF Counted, DeclinedIsCounted, D
<1>11. AssignedIsCounted'
  <2>1. /\ Cardinality(Assigned) \in Int /\ gained \in Int /\ again \in Int
        /\ Cardinality(replaced) \in Int /\ drift \in Int /\ moved \in Int
    <3>1. Cardinality(replaced) \in Int
      BY FS_EmptySet, FS_Singleton DEF replaced
    <3>2. gained \in Int /\ again \in Int
      BY DEF One, gained, again
    <3> QED
      BY <3>1, <3>2, StatesAreFinite, DriftIs
  <2>2. assigned = Cardinality(Assigned) + drift
    BY Zenon DEF Counted, AssignedIsCounted, Assigned
  <2>3. assigned' = Cardinality((Assigned \cup {a}) \ replaced) + drift'
    BY <1>1, <1>9, <2>1, <2>2
  <2> QED
    BY Zenon, <1>6, <2>3 DEF AssignedIsCounted
<1> QED
  BY Zenon, <1>1, <1>10, <1>11 DEF Counted

\* One lease goes to another state.
LEMMA OneCounts ==
    ASSUME Typed, NEW a \in Addrs, NEW l, leases' = [leases EXCEPT ![a] = l]
    PROVE  /\ l.st = "none" /\ leases[a].st # "declined" =>
                /\ InState("declined")' = InState("declined")
                /\ (InState("default") \cup InState("declined"))' = Assigned \ {a}
           /\ l.st = "declined" /\ leases[a].st = "default" =>
                /\ InState("declined")' = InState("declined") \cup {a}
                /\ (InState("default") \cup InState("declined"))' = Assigned
<1>1. \A b \in Addrs : leases'[b] = IF b = a THEN l ELSE leases[b]
  BY Zenon DEF Typed
<1>2. \A b \in Addrs : leases'[b].st = IF b = a THEN l.st ELSE leases[b].st
  BY <1>1
<1>3. (InState("default") \cup InState("declined"))'
        = {b \in Addrs : leases'[b].st \in {"default", "declined"}}
  BY Zenon DEF InState
<1>4. Assigned = {b \in Addrs : leases[b].st \in {"default", "declined"}}
  BY Zenon DEF InState, Assigned
<1>5. /\ InState("declined")' = {b \in Addrs : leases'[b].st = "declined"}
      /\ InState("declined") = {b \in Addrs : leases[b].st = "declined"}
  BY Zenon DEF InState
<1>6. ASSUME l.st = "none", leases[a].st # "declined"
      PROVE  /\ InState("declined")' = InState("declined")
             /\ (InState("default") \cup InState("declined"))' = Assigned \ {a}
  <2>0. \A b \in Addrs : leases'[b].st = "declined" <=> leases[b].st = "declined"
    BY Zenon, <1>2, <1>6
  <2>1. InState("declined")' = InState("declined")
    BY Zenon, <1>5, <2>0
  <2>2. (InState("default") \cup InState("declined"))' = Assigned \ {a}
    BY Zenon, <1>2, <1>3, <1>4, <1>6
  <2> QED
    BY Zenon, <2>1, <2>2
<1>7. ASSUME l.st = "declined", leases[a].st = "default"
      PROVE  /\ InState("declined")' = InState("declined") \cup {a}
             /\ (InState("default") \cup InState("declined"))' = Assigned
  <2>1. InState("declined")' = InState("declined") \cup {a}
    BY Zenon, <1>2, <1>5, <1>7
  <2>2. (InState("default") \cup InState("declined"))' = Assigned
    BY <1>2, <1>3, <1>4, <1>7
  <2> QED
    BY Zenon, <2>1, <2>2
<1> QED
  BY Zenon, <1>6, <1>7

LEMMA ReleaseCounts ==
    ASSUME IInv, Counted, NEW c \in Clients, processRelease(c)
    PROVE  Counted'
<1> DEFINE a == bound[c.machine].addr
<1>1. a \in Addrs
  <2>1. c.machine \in Machines
    BY Zenon DEF Machines
  <2> QED
    BY Zenon, <2>1 DEF processRelease, IInv, Typed
<1>2. CASE ~belongsToClient(leases[a], c.hw, c.id)
  BY Zenon, <1>2, StatesKept DEF processRelease
<1>3. CASE belongsToClient(leases[a], c.hw, c.id)
  <2>1. /\ leases' = [leases EXCEPT ![a] = NoLease] /\ assigned' = assigned - 1
        /\ drift' = drift - One(leases[a].st = "reclaimed") /\ drift' \in -MaxDrift..MaxDrift
        /\ declined' = declined
    BY Zenon, <1>3 DEF processRelease
  <2>2. leases[a].st \in {"default", "reclaimed"}
    BY Zenon, <1>1, <1>3, OwnedIsNotDeclined
  <2>3. a \in Assigned <=> leases[a].st # "reclaimed"
    BY Zenon, <1>1, <2>2 DEF Assigned, InState
  <2> HIDE DEF a
  <2>4. /\ InState("declined")' = InState("declined")
        /\ (InState("default") \cup InState("declined"))' = Assigned \ {a}
    <3>1. NoLease.st = "none" /\ Typed /\ leases[a].st # "declined"
      BY Zenon, <2>2 DEF NoLease, IInv
    <3> QED
      BY Zenon, <1>1, <2>1, <3>1, OneCounts
  <2>5. Cardinality(Assigned \ {a}) = Cardinality(Assigned) - 1 + One(leases[a].st = "reclaimed")
    <3>1. IsFiniteSet(Assigned) /\ Cardinality(Assigned) \in Nat
      BY Zenon, StatesAreFinite
    <3>2. Cardinality(Assigned \ {a})
            = IF a \in Assigned THEN Cardinality(Assigned) - 1 ELSE Cardinality(Assigned)
      BY Zenon, <3>1, FS_RemoveElement
    <3> QED
      BY <2>3, <3>1, <3>2 DEF One
  <2>6. Cardinality(Assigned) \in Int /\ drift \in Int /\ One(leases[a].st = "reclaimed") \in Int
    BY StatesAreFinite, DriftIs DEF One
  <2>7. assigned = Cardinality(Assigned) + drift
    BY Zenon DEF Counted, AssignedIsCounted, Assigned
  <2>8. assigned' = Cardinality(Assigned \ {a}) + drift'
    BY <2>1, <2>5, <2>6, <2>7
  <2> QED
    BY Zenon, <2>1, <2>4, <2>8 DEF Counted, DeclinedIsCounted, AssignedIsCounted
<1> QED
  BY Zenon, <1>2, <1>3

\* A machine declines what it has just been given, so the lease counted as assigned, and
\* goes on to do so.
LEMMA DeclineCounts ==
    ASSUME IInv, Counted, NEW c \in Clients, processDecline(c)
    PROVE  Counted'
<1> DEFINE a == bound[c.machine].addr
<1>1. a \in Addrs /\ leases[a].st = "default"
  <2>1. c.machine \in Machines
    BY Zenon DEF Machines
  <2> QED
    BY Zenon, <2>1 DEF processDecline, IInv, HeldIsLeased
<1>2. CASE ~belongsToClient(leases[a], c.hw, c.id)
  BY Zenon, <1>2, StatesKept DEF processDecline
<1>3. CASE belongsToClient(leases[a], c.hw, c.id)
  <2>1. /\ leases' = [leases EXCEPT ![a] = DeclinedLease] /\ declined' = declined + 1
        /\ assigned' = assigned /\ drift' = drift
    BY Zenon, <1>3 DEF processDecline
  <2>2. a \notin InState("declined")
    BY Zenon, <1>1 DEF InState
  <2> HIDE DEF a
  <2>3. /\ InState("declined")' = InState("declined") \cup {a}
        /\ (InState("default") \cup InState("declined"))' = Assigned
    <3>1. DeclinedLease.st = "declined" /\ Typed
      BY Zenon DEF DeclinedLease, IInv
    <3> QED
      BY Zenon, <1>1, <2>1, <3>1, OneCounts
  <2>4. Cardinality(InState("declined") \cup {a}) = Cardinality(InState("declined")) + 1
    BY Zenon, <2>2, StatesAreFinite, FS_AddElement
  <2> QED
    BY Zenon, <2>1, <2>3, <2>4 DEF Counted, DeclinedIsCounted, AssignedIsCounted, Assigned
<1> QED
  BY Zenon, <1>2, <1>3

LEMMA ReclaimCounts ==
    ASSUME IInv, Counted, NEW S \in SUBSET Expirable, NEW remove \in BOOLEAN,
           reclaimExpiredLeases4(S, remove)
    PROVE  Counted'
<1> DEFINE D == InState("declined")
           SD == {a \in S : leases[a].st = "declined"}
<1>1. /\ assigned' = assigned - Cardinality(S) /\ declined' = declined - Cardinality(SD)
      /\ drift' = drift
  BY Zenon DEF reclaimExpiredLeases4
<1>2. ASSUME NEW a \in Addrs
      PROVE  /\ a \notin S => leases'[a].st = leases[a].st
             /\ a \in S => leases'[a].st \in {"none", "reclaimed"}
  <2>1. leases[a] \in Lease
    BY Zenon DEF IInv, Typed
  <2>2. leases'[a] = IF a \notin S THEN leases[a]
                     ELSE IF remove \/ leases[a].st = "declined" THEN NoLease
                     ELSE [leases[a] EXCEPT !.st = "reclaimed"]
    BY Zenon DEF reclaimExpiredLeases4
  <2> QED
    BY <2>1, <2>2 DEF NoLease, Lease
<1>3. S \subseteq Assigned /\ S \subseteq Addrs
  BY Zenon DEF Expirable, Assigned, InState
<1>4. SD = D \cap S
  BY Zenon, <1>3 DEF InState
<1>5. InState("declined")' = D \ S
  BY Zenon, <1>2 DEF InState
<1>6. (InState("default") \cup InState("declined"))' = Assigned \ S
  BY Zenon, <1>2 DEF InState, Assigned
<1>7. /\ IsFiniteSet(D) /\ Cardinality(D \ S) = Cardinality(D) - Cardinality(D \cap S)
      /\ Cardinality(Assigned \ S) = Cardinality(Assigned) - Cardinality(Assigned \cap S)
      /\ Assigned \cap S = S
  BY Zenon, <1>3, StatesAreFinite, FS_Difference
<1>8. Cardinality(S) \in Nat /\ Cardinality(Assigned) \in Nat /\ drift \in Int
  <2>1. IsFiniteSet(S)
    BY Zenon, <1>3, StatesAreFinite, FS_Subset
  <2> QED
    BY Zenon, <2>1, StatesAreFinite, FS_CardinalityType, DriftIs
<1> HIDE DEF D, SD
<1>9. assigned' = Cardinality(Assigned \ S) + drift'
  <2>1. assigned = Cardinality(Assigned) + drift
    BY Zenon DEF Counted, AssignedIsCounted, Assigned
  <2>2. Cardinality(Assigned \ S) = Cardinality(Assigned) - Cardinality(S)
    BY Zenon, <1>7
  <2> QED
    BY <1>1, <1>8, <2>1, <2>2
<1>10. declined' = Cardinality(D \ S)
  BY Zenon, <1>1, <1>4, <1>7 DEF Counted, DeclinedIsCounted, D
<1> QED
  BY Zenon, <1>1, <1>5, <1>6, <1>9, <1>10 DEF Counted, DeclinedIsCounted, AssignedIsCounted

LEMMA RecountCounts ==
    ASSUME NEW h \in Reservations, Reconfigure(h)
    PROVE  Counted'
<1> DEFINE D == InState("declined")
           F == InState("default")
<1>1. /\ assigned' = Cardinality(F) /\ declined' = Cardinality(D) /\ drift' = -Cardinality(D)
      /\ drift' \in -MaxDrift..MaxDrift
      /\ InState("declined")' = D /\ InState("default")' = F
  BY Zenon DEF Reconfigure, InState
<1>2. F \cap D = {}
  BY Zenon DEF InState
<1> HIDE DEF D, F
<1>3. IsFiniteSet(F) /\ IsFiniteSet(D) /\ Cardinality(F) \in Nat /\ Cardinality(D) \in Nat
  BY Zenon, StatesAreFinite DEF D, F
<1>4. Cardinality(F \cup D) = Cardinality(F) + Cardinality(D)
  <2>1. Cardinality(F \cup D) = Cardinality(F) + Cardinality(D) - Cardinality(F \cap D)
    BY Zenon, <1>3, FS_Union
  <2>2. Cardinality(F \cap D) = 0
    BY Zenon, <1>2, FS_EmptySet
  <2> QED
    BY <1>3, <2>1, <2>2
<1>5. assigned' = Cardinality(F \cup D) + drift'
  BY <1>1, <1>3, <1>4
<1> QED
  BY Zenon, <1>1, <1>5 DEF Counted, DeclinedIsCounted, AssignedIsCounted

LEMMA NextCounts ==
    ASSUME IInv, Counted, [Next]_vars
    PROVE  Counted'
<1>1. ASSUME NEW c \in Clients, NEW named \in Addrs \cup {Zero}, processRequest(c, named)
      PROVE  Counted'
  <2>1. PICK mine \in findClientLease(c) :
          LET a == requestLease4(c, mine, named).addr
          IN  IF a = Zero
              THEN UNCHANGED <<leases, assigned, declined, drift>>
              ELSE \E moved \in IF a = mine THEN ClockMoved(leases[a]) ELSE {0} :
                      Commit(c, mine, a, moved)
    BY Zenon, <1>1 DEF processRequest
  <2> DEFINE a == requestLease4(c, mine, named).addr
  <2>2. CASE a = Zero
    BY Zenon, <2>1, <2>2, StatesKept
  <2>3. CASE a # Zero
    <3>1. PICK moved \in {0, 1} : Commit(c, mine, a, moved)
      BY Zenon, <2>1, <2>3 DEF ClockMoved
    <3>2. a \in Addrs
      BY Zenon, <2>3, RequestAnswer DEF IInv
    <3> HIDE DEF a
    <3> QED
      BY Zenon, <3>1, <3>2, CommitCounts
  <2> QED
    BY Zenon, <2>2, <2>3
<1>2. CASE UNCHANGED <<leases, assigned, declined, drift>>
  BY Zenon, <1>2, StatesKept
<1>3. ASSUME NEW c \in Clients, NEW a \in Addrs, initReboot(c, a)
      PROVE  Counted'
  <2>1. processRequest(c, a) \/ UNCHANGED <<leases, assigned, declined, drift>>
    BY Zenon, <1>3 DEF initReboot
  <2> QED
    BY Zenon, <1>1, <1>2, <2>1
<1>4. CASE deleteExpiredReclaimedLeases4
  <2>1. /\ \A a \in Addrs : leases'[a] = leases[a] \/ (leases[a].st = "reclaimed" /\ leases'[a].st = "none")
        /\ UNCHANGED <<assigned, declined, drift>>
    BY Zenon, <1>4 DEF deleteExpiredReclaimedLeases4, NoLease
  <2>2. InState("default")' = InState("default") /\ InState("declined")' = InState("declined")
    BY Zenon, <2>1 DEF InState
  <2> QED
    BY Zenon, <2>1, <2>2 DEF Counted, DeclinedIsCounted, AssignedIsCounted
<1>5. CASE Tick
  <2>1. ASSUME NEW a \in Addrs PROVE leases'[a].st = leases[a].st
    <3>1. leases[a] \in Lease
      BY Zenon DEF IInv, Typed
    <3>2. leases'[a] = IF leases[a].st = "none" THEN leases[a]
                       ELSE [leases[a] EXCEPT !.left = Older(leases[a].left)]
      BY Zenon, <1>5 DEF Tick
    <3> QED
      BY Zenon, <3>1, <3>2 DEF Lease
  <2> QED
    BY Zenon, <1>5, <2>1, StatesKept DEF Tick
<1>6. CASE \E c \in Clients, a \in Addrs \cup {Zero} : processDiscover(c, a)
  BY Zenon, <1>2, <1>6 DEF processDiscover
<1>7. CASE (\E m \in Machines : Leave(m)) \/ UNCHANGED vars
  BY Zenon, <1>2, <1>7 DEF Leave, vars
<1> QED
  BY Zenon, <1>1, <1>3, <1>4, <1>5, <1>6, <1>7, ReleaseCounts, DeclineCounts, ReclaimCounts,
     RecountCounts DEF Next

LEMMA InitCounts == Init => Counted
<1> SUFFICES ASSUME Init PROVE Counted
  BY Zenon
<1>1. InState("default") = {} /\ InState("declined") = {} /\ InState("default") \cup InState("declined") = {}
  BY Zenon DEF Init, InState, NoLease
<1>2. 0 \in -MaxDrift..MaxDrift
  BY AllocAssumption
<1> QED
  BY <1>1, <1>2, FS_EmptySet DEF Init, Counted, DeclinedIsCounted, AssignedIsCounted

LEMMA CountsHold == Spec => []Counted
<1>1. Counted /\ IInv /\ [Next]_vars => Counted'
  BY Zenon, NextCounts
<1> QED
  BY <1>1, InitCounts, Invariance, PTL DEF Spec

\* The declined-addresses statistic is the number of declined leases, whether they are
\* reclaimed or reused (declineLease(), reuseExpiredLease(), reclaimExpiredLeases4(), the recount).
THEOREM DeclinedAreCounted == Spec => []DeclinedIsCounted
<1>1. Counted => DeclinedIsCounted
  BY Zenon DEF Counted
<1> QED
  BY <1>1, CountsHold, PTL

\* The assigned-addresses statistic is the number of leases in use or declined, up to the
\* miscounts that are recorded: there are no others.
THEOREM AssignedAreCounted == Spec => []AssignedIsCounted
<1>1. Counted => AssignedIsCounted
  BY Zenon DEF Counted
<1> QED
  BY <1>1, CountsHold, PTL

-----------------------------------------------------------------------------
(* The walk of the allocator. *)

\* An interval of naturals, or any set of them, has a least element.
LEMMA LeastIs ==
    ASSUME NEW S \in SUBSET Nat, S # {}
    PROVE  Min(S) \in S /\ \A y \in S : Min(S) <= y
<1> DEFINE R == OpToRel(<, Nat)
<1>1. PICK x \in S : \A y \in S : ~ (<<y, x>> \in R)
  <2>1. IsWellFoundedOn(R, Nat)
    BY Zenon, NatLessThanWellFounded
  <2> HIDE DEF R
  <2> QED
    BY Zenon, <2>1, WFMin
<1>2. \A a, b \in Nat : <<a, b>> \in R <=> a < b
  BY Zenon DEF OpToRel
<1> HIDE DEF R
<1>3. \A y \in S : x \in Nat /\ y \in Nat /\ ~ (y < x)
  BY <1>1, <1>2, Zenon
<1>4. \A y \in S : x <= y
  BY <1>3
<1> QED
  BY Zenon, <1>4 DEF Min

\* The walk of a client, of j picks at most.
Walks(c, w, j) == w = [i \in 0..j |-> IF i = 0 THEN allocator ELSE Attempt(c, i, w[i - 1])]

LEMMA WalkExists ==
    ASSUME NEW c, NEW n \in Nat
    PROVE  \E w : Walks(c, w, n)
<1> DEFINE Bad == {j \in Nat : ~\E w : Walks(c, w, j)}
           m == Min(Bad)
<1> SUFFICES ASSUME Bad # {} PROVE FALSE
  BY Zenon
<1>1. m \in Nat /\ (~\E w : Walks(c, w, m)) /\ \A j \in Bad : m <= j
  BY Zenon, LeastIs
<1> HIDE DEF m
<1>2. CASE m = 0
  <2> DEFINE w == [i \in 0..0 |-> allocator]
  <2>1. w = [i \in 0..0 |-> IF i = 0 THEN allocator ELSE Attempt(c, i, w[i - 1])]
    OBVIOUS
  <2> QED
    BY Zenon, <1>1, <1>2, <2>1 DEF Walks
<1>3. CASE m # 0
  <2>1. m - 1 \in Nat /\ m - 1 \notin Bad
    BY <1>1, <1>3
  <2>2. PICK v : Walks(c, v, m - 1)
    BY Zenon, <2>1
  <2> DEFINE last == Attempt(c, m, v[m - 1])
             w == [i \in 0..m |-> IF i = m THEN last ELSE v[i]]
  <2>3. \A i \in 0..(m - 1) : v[i] = IF i = 0 THEN allocator ELSE Attempt(c, i, v[i - 1])
    BY Zenon, <2>1, <2>2 DEF Walks
  <2>4. \A i \in 0..m : i # m => i \in 0..(m - 1) /\ (i # 0 => i - 1 \in 0..(m - 1))
    BY <1>1
  <2>5. m - 1 \in 0..(m - 1)
    BY <2>1
  <2> HIDE DEF last
  <2>6. \A i \in 0..(m - 1) : w[i] = v[i]
    BY <1>1
  <2>7. \A i \in 0..m : w[i] = IF i = 0 THEN allocator ELSE Attempt(c, i, w[i - 1])
    <3> TAKE i \in 0..m
    <3>1. CASE i = m
      <4>1. w[i] = last /\ w[i - 1] = v[m - 1]
        BY Zenon, <1>1, <2>5, <2>6, <3>1
      <4> QED
        BY Zenon, <1>3, <3>1, <4>1 DEF last
    <3>2. CASE i # m
      BY Zenon, <2>3, <2>4, <2>6, <3>2
    <3> QED
      BY Zenon, <3>1, <3>2
  <2>8. w = [i \in 0..m |-> IF i = 0 THEN allocator ELSE Attempt(c, i, w[i - 1])]
    <3>1. w = [i \in 0..m |-> w[i]]
      BY Zenon
    <3> HIDE DEF w
    <3> QED
      BY Zenon, <2>7, <3>1
  <2> QED
    BY Zenon, <1>1, <2>8 DEF Walks
<1> QED
  BY Zenon, <1>2, <1>3

LEMMA CapacityIs ==
    ASSUME NEW c \in Clients
    PROVE  /\ getPoolCapacity(c) \in Nat
           /\ getPoolCapacity(c) > 0 => c.pools # {}
<1> DEFINE P == {a \in Addrs : inAllowedPool(a, c)}
<1>1. P \in SUBSET Addrs
  BY Zenon
<1>2. IsFiniteSet(P) /\ Cardinality(P) \in Nat
  BY Zenon, <1>1, FS_Subset, FS_CardinalityType, AllocAssumption
<1>3. c.pools = {} => P = {}
  BY Zenon DEF inAllowedPool
<1> QED
  BY <1>2, <1>3, FS_EmptySet DEF getPoolCapacity

LEMMA WalkIs ==
    ASSUME NEW c \in Clients
    PROVE  \E w : Walks(c, w, getPoolCapacity(c)) /\ Walk(c) = w[getPoolCapacity(c)]
<1> DEFINE n == getPoolCapacity(c)
           walk == CHOOSE w : w = [i \in 0..n |-> IF i = 0 THEN allocator ELSE Attempt(c, i, w[i - 1])]
<1>1. Walk(c) = walk[n]
  BY Zenon DEF Walk
<1>2. n \in Nat
  BY Zenon, CapacityIs
<1>3. Walks(c, walk, n)
  BY Zenon, <1>2, WalkExists DEF Walks
<1> QED
  BY Zenon, <1>1, <1>3

\* What the allocator remembers: an address of each pool, and one of the subnet.
AllocatorState ==
    [last : [DOMAIN Pools -> Addrs], valid : SUBSET DOMAIN Pools, subnet : Addrs \cup {Zero}]

Sound == {p \in AllocatorState : \A k \in DOMAIN Pools : inRange(p.last[k], k)}

LEMMA RangeIs ==
    ASSUME NEW k \in DOMAIN Pools
    PROVE  /\ Pools[k].lo \in Addrs /\ Pools[k].lo \in Nat /\ Pools[k].hi \in Nat
           /\ inRange(Pools[k].lo, k)
<1>1. Pools[k].lo \in Addrs /\ Pools[k].hi \in Addrs /\ Pools[k].lo <= Pools[k].hi
  BY Zenon, PoolsAssumption
<1>2. Pools[k].lo \in Nat /\ Pools[k].hi \in Nat
  BY Zenon, <1>1, AllocAssumption
<1>3. Pools[k].lo <= Pools[k].lo
  BY <1>2
<1> QED
  BY Zenon, <1>1, <1>2, <1>3 DEF inRange

LEMMA SetLastIs ==
    ASSUME NEW p \in Sound, NEW k \in DOMAIN Pools, NEW a \in Addrs, inRange(a, k)
    PROVE  setLastAllocated(p, k, a) \in Sound
<1>1. /\ p.last \in [DOMAIN Pools -> Addrs] /\ p.valid \in SUBSET DOMAIN Pools
      /\ \A j \in DOMAIN Pools : inRange(p.last[j], j)
  BY Zenon DEF Sound, AllocatorState
<1> DEFINE last == [p.last EXCEPT ![k] = a]
           valid == p.valid \cup {k}
<1>2. last \in [DOMAIN Pools -> Addrs] /\ \A j \in DOMAIN Pools : inRange(last[j], j)
  BY Zenon, <1>1
<1>3. valid \in SUBSET DOMAIN Pools
  BY Zenon, <1>1
<1> HIDE DEF last, valid
<1>4. [last |-> last, valid |-> valid, subnet |-> a] \in AllocatorState
  BY Zenon, <1>2, <1>3 DEF AllocatorState
<1>5. setLastAllocated(p, k, a) = [last |-> last, valid |-> valid, subnet |-> a]
  BY Zenon DEF setLastAllocated, last, valid
<1> QED
  BY <1>2, <1>4, <1>5 DEF Sound

\* What a pick does, without its choices of the least.
Picked(p, pools, q) ==
    \E first, start \in pools :
        LET ahead == {k \in pools : k >= start /\ HasNext(p, k)} IN
        /\ \A k \in pools : first <= k
        /\ \/ /\ inRange(p.subnet, start)
              /\ \A k \in pools : inRange(p.subnet, k) => start <= k
           \/ start = first /\ \A k \in pools : ~inRange(p.subnet, k)
        /\ \/ \E next \in ahead :
                /\ \A k \in ahead : next <= k
                /\ q = setLastAllocated(
                         [p EXCEPT !.valid = @ \ {k \in pools : start <= k /\ k < next}], next,
                         IF next \in p.valid THEN p.last[next] + 1 ELSE p.last[next])
           \/ /\ ahead = {}
              /\ q = setLastAllocated(
                       [p EXCEPT
                          !.last = [k \in DOMAIN @ |-> IF k \in pools THEN Pools[k].lo ELSE @[k]],
                          !.valid = @ \ pools], first, Pools[first].lo)

LEMMA PickIs ==
    ASSUME NEW p, NEW pools \in SUBSET DOMAIN Pools, pools # {}
    PROVE  Picked(p, pools, pickAddress(p, pools))
<1> DEFINE first == Min(pools)
           here == {k \in pools : inRange(p.subnet, k)}
           start == IF here = {} THEN first ELSE Min(here)
           ahead == {k \in pools : k >= start /\ HasNext(p, k)}
           next == Min(ahead)
           passed == {k \in pools : start <= k /\ k < next}
           one == setLastAllocated([p EXCEPT !.valid = @ \ passed], next,
                      IF next \in p.valid THEN p.last[next] + 1 ELSE p.last[next])
           rewound == [p EXCEPT
               !.last = [k \in DOMAIN @ |-> IF k \in pools THEN Pools[k].lo ELSE @[k]],
               !.valid = @ \ pools]
           two == setLastAllocated(rewound, first, Pools[first].lo)
<1>1. pickAddress(p, pools) = IF ahead # {} THEN one ELSE two
  BY Zenon DEF pickAddress
<1>2. pools \in SUBSET Nat
  BY Zenon, PoolsAssumption
<1>3. first \in pools /\ \A k \in pools : first <= k
  BY Zenon, <1>2, LeastIs
<1>4. here # {} => Min(here) \in here /\ \A k \in here : Min(here) <= k
  <2>1. here \in SUBSET Nat
    BY Zenon, <1>2
  <2> HIDE DEF here
  <2> QED
    BY Zenon, <2>1, LeastIs
<1>5. ahead # {} => next \in ahead /\ \A k \in ahead : next <= k
  <2>1. ahead \in SUBSET Nat
    BY Zenon, <1>2
  <2> HIDE DEF ahead
  <2> QED
    BY Zenon, <2>1, LeastIs
<1> HIDE DEF first, next
<1>6. /\ start \in pools
      /\ \/ /\ inRange(p.subnet, start)
            /\ \A k \in pools : inRange(p.subnet, k) => start <= k
         \/ start = first /\ \A k \in pools : ~inRange(p.subnet, k)
  BY Zenon, <1>3, <1>4
<1> HIDE DEF start
<1>7. CASE ahead # {}
  BY Zenon, <1>1, <1>3, <1>5, <1>6, <1>7 DEF Picked
<1>8. CASE ahead = {}
  BY Zenon, <1>1, <1>3, <1>6, <1>8 DEF Picked
<1> QED
  BY Zenon, <1>7, <1>8

\* Every pick is an address of a pool, and becomes the last one of that pool.
LEMMA PickIsSound ==
    ASSUME NEW p \in Sound, NEW pools \in SUBSET DOMAIN Pools, NEW q, Picked(p, pools, q)
    PROVE  q \in Sound
<1>1. /\ p.last \in [DOMAIN Pools -> Addrs] /\ p.valid \in SUBSET DOMAIN Pools
      /\ \A j \in DOMAIN Pools : inRange(p.last[j], j) /\ p \in AllocatorState
  BY Zenon DEF Sound, AllocatorState
<1>2. ASSUME NEW next \in pools, HasNext(p, next)
      PROVE  LET a == IF next \in p.valid THEN p.last[next] + 1 ELSE p.last[next]
             IN  a \in Addrs /\ inRange(a, next)
  <2>1. CASE next \notin p.valid
    BY Zenon, <1>1, <2>1
  <2>2. CASE next \in p.valid
    <3>1. p.last[next] < Pools[next].hi /\ Pools[next].lo <= p.last[next]
      BY Zenon, <1>1, <1>2, <2>2 DEF HasNext, inRange
    <3>2. p.last[next] \in Nat /\ Pools[next].hi \in Nat /\ Pools[next].lo \in Nat
      BY Zenon, <1>1, PoolsAssumption, AllocAssumption
    <3>3. p.last[next] + 1 \in Pools[next].lo..Pools[next].hi
      BY <3>1, <3>2
    <3>4. Pools[next].lo..Pools[next].hi \subseteq Addrs
      BY Zenon, PoolsAssumption
    <3> QED
      BY <2>2, <3>2, <3>3, <3>4 DEF inRange
  <2> QED
    BY Zenon, <2>1, <2>2
<1>3. ASSUME NEW gone PROVE [p EXCEPT !.valid = @ \ gone] \in Sound
  BY Zenon, <1>1 DEF Sound, AllocatorState
<1>4. ASSUME NEW first \in pools
      PROVE  /\ [p EXCEPT
                   !.last = [k \in DOMAIN @ |-> IF k \in pools THEN Pools[k].lo ELSE @[k]],
                   !.valid = @ \ pools] \in Sound
             /\ Pools[first].lo \in Addrs /\ inRange(Pools[first].lo, first)
  <2> DEFINE last == [k \in DOMAIN p.last |-> IF k \in pools THEN Pools[k].lo ELSE p.last[k]]
             valid == p.valid \ pools
  <2>1. \A k \in pools : Pools[k].lo \in Addrs /\ inRange(Pools[k].lo, k)
    BY Zenon, RangeIs
  <2>2. last \in [DOMAIN Pools -> Addrs] /\ \A k \in DOMAIN Pools : inRange(last[k], k)
    BY Zenon, <1>1, <2>1
  <2>3. valid \in SUBSET DOMAIN Pools
    BY Zenon, <1>1
  <2> HIDE DEF last, valid
  <2>4. [p EXCEPT !.last = last, !.valid = valid] \in Sound
    BY Zenon, <1>1, <2>2, <2>3 DEF Sound, AllocatorState
  <2> QED
    BY Zenon, <2>1, <2>4 DEF last, valid
<1>5. ASSUME NEW next \in pools, HasNext(p, next), NEW gone,
             q = setLastAllocated([p EXCEPT !.valid = @ \ gone], next,
                     IF next \in p.valid THEN p.last[next] + 1 ELSE p.last[next])
      PROVE  q \in Sound
  <2> DEFINE x == [p EXCEPT !.valid = @ \ gone]
             a == IF next \in p.valid THEN p.last[next] + 1 ELSE p.last[next]
  <2>1. x \in Sound /\ a \in Addrs /\ inRange(a, next) /\ q = setLastAllocated(x, next, a)
    BY Zenon, <1>2, <1>3, <1>5
  <2> HIDE DEF x, a
  <2> QED
    BY Zenon, <2>1, SetLastIs
<1>6. ASSUME NEW first \in pools,
             q = setLastAllocated([p EXCEPT
                     !.last = [k \in DOMAIN @ |-> IF k \in pools THEN Pools[k].lo ELSE @[k]],
                     !.valid = @ \ pools], first, Pools[first].lo)
      PROVE  q \in Sound
  <2> DEFINE x == [p EXCEPT
                     !.last = [k \in DOMAIN @ |-> IF k \in pools THEN Pools[k].lo ELSE @[k]],
                     !.valid = @ \ pools]
             a == Pools[first].lo
  <2>1. x \in Sound /\ a \in Addrs /\ inRange(a, first)
    BY Zenon, <1>4
  <2>2. q = setLastAllocated(x, first, a)
    BY Zenon, <1>6
  <2> HIDE DEF x, a
  <2> QED
    BY Zenon, <2>1, <2>2, SetLastIs
<1> QED
  BY Zenon, <1>5, <1>6 DEF Picked

\* A set of states that picks do not leave is not left by a walk.
LEMMA WalkStays ==
    ASSUME NEW c \in Clients, NEW T, allocator \in T,
           c.pools # {} => \A p \in T : pickAddress(p, c.pools) \in T,
           NEW w, NEW n \in Nat, n > 0 => c.pools # {}, Walks(c, w, n)
    PROVE  \A i \in 0..n : w[i] \in T
<1> DEFINE Bad == {i \in 0..n : w[i] \notin T}
           m == Min(Bad)
<1> SUFFICES ASSUME Bad # {} PROVE FALSE
  BY Zenon
<1>1. Bad \in SUBSET Nat
  OBVIOUS
<1>2. m \in Bad /\ \A i \in Bad : m <= i
  BY Zenon, <1>1, LeastIs
<1> HIDE DEF m
<1>3. m \in 0..n /\ w[m] = IF m = 0 THEN allocator ELSE Attempt(c, m, w[m - 1])
  BY Zenon, <1>2 DEF Walks
<1>4. m # 0
  BY Zenon, <1>2, <1>3
<1>5. m - 1 \in 0..n /\ m - 1 \notin Bad /\ n > 0
  BY <1>2, <1>3, <1>4
<1>6. w[m - 1] \in T
  BY Zenon, <1>5
<1>7. Attempt(c, m, w[m - 1]) \in T
  BY Zenon, <1>5, <1>6 DEF Attempt
<1> QED
  BY Zenon, <1>2, <1>3, <1>4, <1>7

\* Only a walk and a new configuration move the allocator.
LEMMA AllocatorMoves ==
    ASSUME [Next]_vars
    PROVE  allocator' \in {allocator, NewAllocator} \/ \E c \in Clients : allocator' = Walk(c)
<1>1. ASSUME NEW c \in Clients, NEW mine, NEW hint
      PROVE  discoverLease4(c, mine, hint).allocator \in {allocator, Walk(c)}
  BY Zenon DEF discoverLease4, Answer, allocateUnreservedLease4
<1>2. ASSUME NEW c \in Clients, NEW mine, NEW named
      PROVE  requestLease4(c, mine, named).allocator \in {allocator, Walk(c)}
  BY Zenon DEF requestLease4, Answer, allocateUnreservedLease4
<1>3. ASSUME NEW c \in Clients, NEW a, processDiscover(c, a)
      PROVE  allocator' \in {allocator, Walk(c)}
  BY Zenon, <1>1, <1>3 DEF processDiscover
<1>4. ASSUME NEW c \in Clients, NEW a, processRequest(c, a)
      PROVE  allocator' \in {allocator, Walk(c)}
  BY Zenon, <1>2, <1>4 DEF processRequest
<1>5. ASSUME NEW c \in Clients, NEW a, initReboot(c, a)
      PROVE  allocator' \in {allocator, Walk(c)}
  <2>1. processRequest(c, a) \/ allocator' = allocator
    BY Zenon, <1>5 DEF initReboot
  <2> QED
    BY Zenon, <1>4, <2>1
<1>6. CASE \E c \in Clients : processRelease(c) \/ processDecline(c)
  BY Zenon, <1>6 DEF processRelease, processDecline
<1>7. CASE \E S \in SUBSET Expirable, remove \in BOOLEAN : reclaimExpiredLeases4(S, remove)
  BY Zenon, <1>7 DEF reclaimExpiredLeases4
<1>8. CASE \/ \E m \in Machines : Leave(m)
           \/ \E h \in Reservations : Reconfigure(h)
           \/ deleteExpiredReclaimedLeases4 \/ Tick \/ UNCHANGED vars
  BY Zenon, <1>8 DEF Leave, deleteExpiredReclaimedLeases4, Reconfigure, Tick, vars
<1> QED
  BY Zenon, <1>3, <1>4, <1>5, <1>6, <1>7, <1>8 DEF Next

LEMMA NewIsSound == NewAllocator \in Sound
<1> DEFINE last == [k \in DOMAIN Pools |-> Pools[k].lo]
<1>1. last \in [DOMAIN Pools -> Addrs] /\ \A k \in DOMAIN Pools : inRange(last[k], k)
  BY Zenon, RangeIs
<1> HIDE DEF last
<1>2. NewAllocator = [last |-> last, valid |-> {}, subnet |-> Zero]
  BY Zenon DEF NewAllocator, last
<1> QED
  BY Zenon, <1>1, <1>2 DEF Sound, AllocatorState

LEMMA SoundWalk ==
    ASSUME allocator \in Sound, NEW c \in Clients
    PROVE  Walk(c) \in Sound
<1> DEFINE n == getPoolCapacity(c)
<1>1. PICK w : Walks(c, w, n) /\ Walk(c) = w[n]
  BY Zenon, WalkIs
<1>2. n \in Nat /\ (n > 0 => c.pools # {})
  BY Zenon, CapacityIs
<1>3. c.pools \in SUBSET DOMAIN Pools
  BY Zenon, PoolsAssumption
<1> HIDE DEF n
<1>4. c.pools # {} => \A p \in Sound : pickAddress(p, c.pools) \in Sound
  BY Zenon, <1>3, PickIs, PickIsSound
<1>5. \A i \in 0..n : w[i] \in Sound
  BY Zenon, <1>1, <1>2, <1>4, WalkStays
<1>6. n \in 0..n
  BY <1>2
<1> QED
  BY Zenon, <1>1, <1>5, <1>6

SoundInv == allocator \in Sound

LEMMA SoundHolds == Spec => []SoundInv
<1>1. Init => SoundInv
  BY Zenon, NewIsSound DEF Init, SoundInv
<1>2. SoundInv /\ [Next]_vars => SoundInv'
  BY Zenon, AllocatorMoves, SoundWalk, NewIsSound DEF SoundInv
<1> QED
  BY <1>1, <1>2, PTL DEF Spec

\* The types, with any pools: the last address of a pool that pickAddress() remembers lies in
\* the pool, wherever walks for clients of different classes have left it, and the statistics
\* are numbers.
THEOREM TypeCorrect == Spec => []TypeOK
<1>1. IInv /\ Counted /\ SoundInv => TypeOK
  <2> SUFFICES ASSUME IInv, Counted, allocator \in Sound PROVE TypeOK
    BY Zenon DEF SoundInv
  <2>1. /\ allocator.last \in [DOMAIN Pools -> Addrs] /\ allocator.valid \subseteq DOMAIN Pools
        /\ \A k \in DOMAIN Pools : inRange(allocator.last[k], k)
    BY Zenon DEF Sound, AllocatorState
  <2>2. /\ leases \in [Addrs -> Lease] /\ hosts \in Reservations
        /\ bound \in [Machines -> [addr : Addrs \cup {Zero}, left : 0..Valid]]
    BY Zenon DEF IInv, Typed
  <2>3. assigned \in Int /\ declined \in Nat /\ drift \in -MaxDrift..MaxDrift
    <3>1. drift \in -MaxDrift..MaxDrift /\ drift \in Int
      BY AllocAssumption DEF Counted
    <3>2. declined \in Nat
      BY Zenon, StatesAreFinite DEF Counted, DeclinedIsCounted
    <3>3. assigned = Cardinality(Assigned) + drift
      BY Zenon DEF Counted, AssignedIsCounted, Assigned
    <3> QED
      BY <3>1, <3>2, <3>3, StatesAreFinite
  <2> QED
    BY Zenon, <2>1, <2>2, <2>3 DEF TypeOK
<1> QED
  BY <1>1, Invariance, CountsHold, SoundHolds, PTL

-----------------------------------------------------------------------------
(* A free address is found. *)

\* The addresses of some pools, and those of them before an address.
Of(pools) == {a \in Addrs : \E k \in pools : inRange(a, k)}
Before(a, pools) == {b \in Of(pools) : b < a}

\* When all clients use the same pools the allocator has been in none of them behind the one
\* of its last address, since it last started over.
AtPool(p, pools, k) ==
    /\ inRange(p.subnet, k) /\ p.last[k] = p.subnet /\ k \in p.valid
    /\ \A j \in pools : j > k => j \notin p.valid /\ p.last[j] = Pools[j].lo

InTurn(pools) ==
    {p \in Sound :
        \/ p.subnet = Zero /\ \A k \in pools : k \notin p.valid /\ p.last[k] = Pools[k].lo
        \/ \E k \in pools : AtPool(p, pools, k)}

\* The next address, or the first one.
Follows(a, b, pools) ==
    /\ b \in Of(pools)
    /\ a = Zero => Before(b, pools) = {}
    /\ a # Zero =>
          /\ a \in Of(pools)
          /\ \/ Before(b, pools) = Before(a, pools) \cup {a}
             \/ Before(b, pools) = {} /\ Before(a, pools) \cup {a} = Of(pools)

LEMMA RangesAreOrdered ==
    ASSUME NEW a \in Addrs, NEW b \in Addrs, NEW j \in DOMAIN Pools, NEW k \in DOMAIN Pools,
           inRange(a, j), inRange(b, k)
    PROVE  /\ j < k => a < b
           /\ j = k \/ a # b
           /\ a < b => j <= k
<1>1. /\ a \in Nat /\ b \in Nat /\ j \in Nat /\ k \in Nat
      /\ Pools[j].lo \in Nat /\ Pools[j].hi \in Nat /\ Pools[k].lo \in Nat /\ Pools[k].hi \in Nat
  BY Zenon, PoolsAssumption, AllocAssumption
<1>2. /\ Pools[j].lo <= a /\ a <= Pools[j].hi /\ Pools[k].lo <= b /\ b <= Pools[k].hi
      /\ j < k => Pools[j].hi < Pools[k].lo
      /\ k < j => Pools[k].hi < Pools[j].lo
  BY Zenon, PoolsAssumption DEF inRange
<1> QED
  BY <1>1, <1>2

\* The first address of a pool has before it what the pools before it have.
LEMMA FirstOf ==
    ASSUME NEW pools \in SUBSET DOMAIN Pools, NEW k \in pools
    PROVE  /\ Pools[k].lo \in Of(pools) /\ inRange(Pools[k].lo, k)
           /\ (\A j \in pools : k <= j) => Before(Pools[k].lo, pools) = {}
<1>1. Pools[k].lo \in Addrs /\ inRange(Pools[k].lo, k)
  BY Zenon, RangeIs
<1>2. ASSUME \A j \in pools : k <= j, NEW b \in Addrs, NEW j \in pools, inRange(b, j), b < Pools[k].lo
      PROVE  FALSE
  <2>1. j <= k /\ k <= j
    BY Zenon, <1>1, <1>2, RangesAreOrdered
  <2>2. j \in Nat /\ k \in Nat /\ b \in Nat /\ Pools[k].lo \in Nat
    BY Zenon, <1>1, PoolsAssumption, AllocAssumption
  <2>3. Pools[k].lo <= b
    BY <1>2, <2>1, <2>2 DEF inRange
  <2> QED
    BY <1>2, <2>2, <2>3
<1> QED
  BY Zenon, <1>1, <1>2 DEF Of, Before

LEMMA SetFields ==
    ASSUME NEW p, NEW k, NEW a
    PROVE  /\ setLastAllocated(p, k, a).last = [p.last EXCEPT ![k] = a]
           /\ setLastAllocated(p, k, a).valid = p.valid \cup {k}
           /\ setLastAllocated(p, k, a).subnet = a
BY Zenon DEF setLastAllocated

Moved(p, q, next, a) ==
    \E gone : q = setLastAllocated([p EXCEPT !.valid = @ \ gone], next, a)

\* A pick in a pool leaves the pools behind it alone.
LEMMA PickAtPool ==
    ASSUME NEW p \in Sound, NEW pools \in SUBSET DOMAIN Pools, NEW next \in pools, NEW a,
           inRange(a, next), NEW q, Moved(p, q, next, a),
           \A j \in pools : j > next => j \notin p.valid /\ p.last[j] = Pools[j].lo
    PROVE  AtPool(q, pools, next) /\ q.subnet = a
<1>0. PICK gone : q = setLastAllocated([p EXCEPT !.valid = @ \ gone], next, a)
  BY Zenon DEF Moved
<1> DEFINE x == [p EXCEPT !.valid = @ \ gone]
<1>1. p.last \in [DOMAIN Pools -> Addrs] /\ x.last = p.last /\ x.valid = p.valid \ gone
  BY Zenon DEF Sound, AllocatorState
<1>2. q = setLastAllocated(x, next, a)
  BY Zenon, <1>0
<1> HIDE DEF x
<1>3. /\ q.last = [p.last EXCEPT ![next] = a] /\ q.valid = (p.valid \ gone) \cup {next}
      /\ q.subnet = a
  BY <1>1, <1>2, SetFields
<1>4. \A j \in pools : j > next => j # next
  BY PoolsAssumption
<1>5. AtPool(q, pools, next)
  BY Zenon, <1>1, <1>3, <1>4 DEF AtPool
<1> QED
  BY Zenon, <1>3, <1>5

\* The next pick is the next address of the pools, or the first one after the last.
LEMMA PickFollows ==
    ASSUME NEW pools \in SUBSET DOMAIN Pools, NEW p \in InTurn(pools), NEW q, Picked(p, pools, q)
    PROVE  q \in InTurn(pools) /\ Follows(p.subnet, q.subnet, pools)
<1>1. p \in Sound /\ q \in Sound
  BY Zenon, PickIsSound DEF InTurn
<1>2. /\ p.last \in [DOMAIN Pools -> Addrs] /\ p.valid \in SUBSET DOMAIN Pools
      /\ p.subnet \in Addrs \cup {Zero} /\ \A k \in DOMAIN Pools : inRange(p.last[k], k)
  BY Zenon, <1>1 DEF Sound, AllocatorState
<1>3. /\ pools \subseteq Nat /\ Addrs \subseteq Nat \ {0}
      /\ \A k \in pools : Pools[k].lo \in Nat \ {0} /\ Pools[k].hi \in Nat
  BY Zenon, PoolsAssumption, AllocAssumption DEF Zero
<1> DEFINE ahead(start) == {k \in pools : k >= start /\ HasNext(p, k)}
           one(start, next) ==
               setLastAllocated(
                   [p EXCEPT !.valid = @ \ {k \in pools : start <= k /\ k < next}], next,
                   IF next \in p.valid THEN p.last[next] + 1 ELSE p.last[next])
           rewound == [p EXCEPT
               !.last = [k \in DOMAIN @ |-> IF k \in pools THEN Pools[k].lo ELSE @[k]],
               !.valid = @ \ pools]
<1>4. PICK first \in pools, start \in pools :
        /\ \A k \in pools : first <= k
        /\ \/ inRange(p.subnet, start)
           \/ start = first /\ \A k \in pools : ~inRange(p.subnet, k)
        /\ \/ \E next \in ahead(start) :
                (\A k \in ahead(start) : next <= k) /\ q = one(start, next)
           \/ ahead(start) = {} /\ q = setLastAllocated(rewound, first, Pools[first].lo)
  BY Zenon DEF Picked
<1>5. CASE p.subnet = Zero /\ \A k \in pools : k \notin p.valid /\ p.last[k] = Pools[k].lo
  <2>1. \A k \in pools : ~inRange(p.subnet, k)
    BY <1>3, <1>5 DEF inRange, Zero
  <2>2. start = first /\ ahead(start) = pools
    BY Zenon, <1>3, <1>4, <1>5, <2>1 DEF HasNext
  <2>3. PICK next \in pools : (\A k \in pools : next <= k) /\ q = one(start, next)
    BY Zenon, <1>4, <2>2
  <2> DEFINE a == Pools[next].lo
  <2>4. a = IF next \in p.valid THEN p.last[next] + 1 ELSE p.last[next]
    BY Zenon, <1>5
  <2>5. a \in Of(pools) /\ inRange(a, next) /\ Before(a, pools) = {}
    BY Zenon, <2>3, FirstOf
  <2>6. Moved(p, q, next, a)
    BY Zenon, <2>3, <2>4 DEF Moved
  <2> HIDE DEF a
  <2>7. AtPool(q, pools, next) /\ q.subnet = a
    BY SMTT(30), <1>1, <1>5, <2>5, <2>6, PickAtPool
  <2> QED
    BY Zenon, <1>1, <1>5, <2>5, <2>7 DEF InTurn, Follows
<1>6. ASSUME NEW k0 \in pools, AtPool(p, pools, k0)
      PROVE  q \in InTurn(pools) /\ Follows(p.subnet, q.subnet, pools)
  <2> DEFINE a == p.subnet
  <2>1. /\ inRange(a, k0) /\ p.last[k0] = a /\ k0 \in p.valid
        /\ \A j \in pools : j > k0 => j \notin p.valid /\ p.last[j] = Pools[j].lo
    BY Zenon, <1>6 DEF AtPool
  <2>2. a \in Addrs /\ a \in Nat /\ a # Zero /\ a \in Of(pools)
    BY Zenon, <1>2, <1>3, <2>1 DEF Zero, Of
  <2>3. start = k0
    BY <1>4, <2>1, <2>2, RangesAreOrdered
  <2>4. HasNext(p, k0) <=> a < Pools[k0].hi
    BY Zenon, <2>1 DEF HasNext
  <2>5. \A j \in pools : j > k0 => HasNext(p, j)
    BY Zenon, <2>1 DEF HasNext
  <2>6. a <= Pools[k0].hi
    BY Zenon, <2>1 DEF inRange
  <2>7. ASSUME NEW b \in Addrs, NEW i \in pools, inRange(b, i), i <= k0, ~(a < Pools[k0].hi)
        PROVE  b <= a
    <3>1. a = Pools[k0].hi
      BY <1>3, <2>2, <2>6, <2>7
    <3>2. CASE i = k0
      BY Zenon, <2>7, <3>1, <3>2 DEF inRange
    <3>3. CASE i # k0
      <4>1. i < k0
        BY <1>3, <2>7, <3>3
      <4>2. b < a
        BY Zenon, <2>1, <2>2, <2>7, <4>1, RangesAreOrdered
      <4> QED
        BY <1>3, <2>2, <4>2
    <3> QED
      BY Zenon, <3>2, <3>3
  <2> HIDE DEF a
  <2>8. ASSUME NEW next \in ahead(start), \A k \in ahead(start) : next <= k, q = one(start, next)
        PROVE  q \in InTurn(pools) /\ Follows(p.subnet, q.subnet, pools)
    <3>1. CASE a < Pools[k0].hi
      <4>1. next = k0
        BY <1>3, <2>3, <2>4, <2>8, <3>1
      <4>2. inRange(a + 1, k0) /\ a + 1 \in Addrs
        <5>1. Pools[k0].lo <= a
          BY Zenon, <2>1 DEF inRange
        <5>2. a + 1 \in Pools[k0].lo..Pools[k0].hi
          BY <1>3, <2>2, <3>1, <5>1
        <5>3. Pools[k0].lo..Pools[k0].hi \subseteq Addrs
          BY Zenon, PoolsAssumption
        <5> QED
          BY <1>3, <5>2, <5>3 DEF inRange
      <4>3. q = setLastAllocated([p EXCEPT !.valid = @ \ {k \in pools : start <= k /\ k < next}], k0, a + 1)
        BY Zenon, <2>1, <2>8, <4>1
      <4> DEFINE e == a + 1
      <4>3a. Moved(p, q, k0, e)
        BY Zenon, <4>3 DEF Moved
      <4>4. AtPool(q, pools, k0) /\ q.subnet = e
        <5> HIDE DEF e
        <5>1. inRange(e, k0)
          BY Zenon, <4>2 DEF e
        <5> QED BY <1>1, <2>1, <4>3a, <5>1, PickAtPool
      <4>5. e \in Of(pools)
        BY Zenon, <4>2 DEF Of
      <4>6. Before(e, pools) = Before(a, pools) \cup {a}
        <5>1. \A b \in Of(pools) : b \in Nat
          BY Zenon, <1>3 DEF Of
        <5>2. \A b \in Of(pools) : b < e <=> b < a \/ b = a
          BY <2>2, <5>1
        <5> QED
          BY Zenon, <2>2, <5>2 DEF Before
      <4> HIDE DEF e
      <4> QED
        BY Zenon, <1>1, <2>2, <4>4, <4>5, <4>6 DEF InTurn, Follows, a
    <3>2. CASE ~(a < Pools[k0].hi)
      <4>1. next \in pools /\ next > k0
        BY <1>3, <2>3, <2>4, <3>2
      <4>2. next \notin p.valid /\ p.last[next] = Pools[next].lo
        BY Zenon, <2>1, <4>1
      <4>3. \A j \in pools : j > k0 => next <= j
        BY <1>3, <2>3, <2>5, <2>8
      <4> DEFINE e == Pools[next].lo
      <4>4. Moved(p, q, next, e)
        BY Zenon, <2>8, <4>2 DEF Moved
      <4>5. e \in Of(pools) /\ inRange(e, next) /\ e \in Nat /\ e \in Addrs
        BY Zenon, <1>3, <4>1, FirstOf DEF Of
      <4>6. \A j \in pools : j > next => j \notin p.valid /\ p.last[j] = Pools[j].lo
        BY <1>3, <2>1, <4>1
      <4>7. a < e
        BY Zenon, <2>1, <2>2, <4>1, <4>5, RangesAreOrdered
      <4> HIDE DEF e
      <4>8. AtPool(q, pools, next) /\ q.subnet = e
        BY SMTT(30), <1>1, <4>1, <4>4, <4>5, <4>6, PickAtPool
      <4>9. ASSUME NEW b \in Of(pools), b < e PROVE b <= a
        <5>1. PICK i \in pools : inRange(b, i)
          BY Zenon DEF Of
        <5>2. b \in Addrs /\ b \in Nat
          BY Zenon, <1>3 DEF Of
        <5>3. i # next
          BY <1>3, <4>9, <5>1, <5>2 DEF inRange, e
        <5>4. i <= next
          BY Zenon, <4>1, <4>5, <4>9, <5>1, <5>2, RangesAreOrdered
        <5>5. i <= k0
          BY <1>3, <4>1, <4>3, <5>3, <5>4
        <5> QED
          BY Zenon, <2>7, <3>2, <5>1, <5>2, <5>5
      <4>10. Before(e, pools) = Before(a, pools) \cup {a}
        <5>1. \A b \in Of(pools) : b \in Nat
          BY Zenon, <1>3 DEF Of
        <5>2. \A b \in Of(pools) : b < e <=> b < a \/ b = a
          <6> TAKE b \in Of(pools)
          <6>1. b < e => b <= a
            BY Zenon, <4>9
          <6> QED
            BY <2>2, <4>5, <4>7, <5>1, <6>1
        <5> QED
          BY Zenon, <2>2, <5>2 DEF Before
      <4> QED
        BY Zenon, <1>1, <2>2, <4>1, <4>5, <4>8, <4>10 DEF InTurn, Follows, a
    <3> QED
      BY Zenon, <3>1, <3>2
  <2>9. ASSUME ahead(start) = {}, q = setLastAllocated(rewound, first, Pools[first].lo)
        PROVE  q \in InTurn(pools) /\ Follows(p.subnet, q.subnet, pools)
    <3> DEFINE e == Pools[first].lo
    <3>1. ~(a < Pools[k0].hi) /\ \A j \in pools : ~(j > k0)
      BY <1>3, <2>3, <2>4, <2>5, <2>9
    <3>2. e \in Of(pools) /\ inRange(e, first) /\ Before(e, pools) = {}
      BY Zenon, <1>4, FirstOf
    <3>3. /\ rewound.last = [k \in DOMAIN p.last |-> IF k \in pools THEN Pools[k].lo ELSE p.last[k]]
          /\ rewound.valid = p.valid \ pools
      BY Zenon, <1>1 DEF Sound, AllocatorState
    <3>3a. q = setLastAllocated(rewound, first, e)
      BY Zenon, <2>9
    <3> HIDE DEF rewound, e
    <3>4. q.last = [rewound.last EXCEPT ![first] = e] /\ q.valid = rewound.valid \cup {first} /\ q.subnet = e
      BY Zenon, <3>3a DEF setLastAllocated
    <3>5. AtPool(q, pools, first)
      <4>1. q.last[first] = e
        BY Zenon, <1>2, <3>3, <3>4
      <4>2. \A j \in pools : j > first => j # first
        BY <1>3
      <4>3. \A j \in pools : j # first => q.last[j] = Pools[j].lo /\ j \notin q.valid
        BY Zenon, <1>2, <3>3, <3>4
      <4> QED
        BY Zenon, <3>2, <3>4, <4>1, <4>2, <4>3 DEF AtPool
    <3>6. Before(a, pools) \cup {a} = Of(pools)
      <4>1. ASSUME NEW b \in Of(pools) PROVE b < a \/ b = a
        <5>1. PICK i \in pools : inRange(b, i)
          BY Zenon DEF Of
        <5>2. b \in Addrs /\ b \in Nat
          BY Zenon, <1>3 DEF Of
        <5>3. i <= k0
          BY <1>3, <3>1
        <5>4. b <= a
          BY Zenon, <2>7, <3>1, <5>1, <5>2, <5>3
        <5> QED
          BY <2>2, <5>2, <5>4
      <4> QED
        BY Zenon, <2>2, <4>1 DEF Before
    <3> QED
      BY Zenon, <1>1, <2>2, <3>2, <3>4, <3>5, <3>6 DEF InTurn, Follows, a
  <2> QED
    BY Zenon, <1>4, <2>8, <2>9
<1> QED
  BY Zenon, <1>5, <1>6 DEF InTurn

\* The place of an address among those of the pools.
Rank(a, pools) == IF a = Zero THEN -1 ELSE Cardinality(Before(a, pools))

LEMMA OfIsFinite ==
    ASSUME NEW pools, NEW a
    PROVE  /\ IsFiniteSet(Of(pools)) /\ Cardinality(Of(pools)) \in Nat
           /\ IsFiniteSet(Before(a, pools)) /\ Cardinality(Before(a, pools)) \in Nat
<1>1. Of(pools) \in SUBSET Addrs /\ Before(a, pools) \in SUBSET Addrs
  BY Zenon DEF Of, Before
<1> QED
  BY Zenon, <1>1, FS_Subset, FS_CardinalityType, AllocAssumption

LEMMA OfAreNumbers ==
    ASSUME NEW pools, NEW a \in Of(pools)
    PROVE  a \in Nat /\ a # Zero /\ a \in Addrs
BY Zenon, AllocAssumption DEF Of, Zero

LEMMA BeforeIsLess ==
    ASSUME NEW pools, NEW a \in Of(pools)
    PROVE  a \notin Before(a, pools) /\ Cardinality(Before(a, pools)) < Cardinality(Of(pools))
<1>1. a \notin Before(a, pools) /\ Before(a, pools) \in SUBSET Of(pools)
  BY OfAreNumbers DEF Before
<1>2. /\ Cardinality(Before(a, pools)) <= Cardinality(Of(pools))
      /\ Cardinality(Of(pools)) = Cardinality(Before(a, pools)) => Of(pools) = Before(a, pools)
  BY Zenon, <1>1, OfIsFinite, FS_Subset
<1> QED
  BY <1>1, <1>2, OfIsFinite

LEMMA RankFollows ==
    ASSUME NEW pools, NEW a, NEW b, Follows(a, b, pools)
    PROVE  /\ Rank(a, pools) \in Int /\ -1 <= Rank(a, pools) /\ Rank(a, pools) < Cardinality(Of(pools))
           /\ Rank(b, pools) = IF Rank(a, pools) + 1 < Cardinality(Of(pools))
                               THEN Rank(a, pools) + 1 ELSE 0
<1> DEFINE n == Cardinality(Of(pools))
           x == Cardinality(Before(a, pools))
           y == Cardinality(Before(b, pools))
<1>1. n \in Nat /\ x \in Nat /\ y \in Nat /\ b \in Of(pools) /\ b # Zero
  BY Zenon, OfIsFinite, OfAreNumbers DEF Follows
<1>2. y < n /\ Rank(b, pools) = y
  BY Zenon, <1>1, BeforeIsLess DEF Rank
<1>3. CASE a = Zero
  <2>1. y = 0
    BY Zenon, <1>3, FS_EmptySet DEF Follows
  <2> HIDE DEF n, x, y
  <2> QED
    BY <1>1, <1>2, <1>3, <2>1 DEF Rank, n
<1>4. CASE a # Zero
  <2>1. a \in Of(pools) /\ x < n /\ Rank(a, pools) = x
    BY Zenon, <1>4, BeforeIsLess DEF Follows, Rank
  <2>2. Cardinality(Before(a, pools) \cup {a}) = x + 1
    BY Zenon, <2>1, OfIsFinite, BeforeIsLess, FS_AddElement
  <2>3. y = x + 1 \/ (y = 0 /\ x + 1 = n)
    BY Zenon, <1>4, <2>2, FS_EmptySet DEF Follows
  <2> HIDE DEF n, x, y
  <2>4. y = IF x + 1 < n THEN x + 1 ELSE 0
    BY <1>1, <1>2, <2>1, <2>3
  <2> QED
    BY <1>1, <1>2, <2>1, <2>4 DEF n
<1> QED
  BY Zenon, <1>3, <1>4

LEMMA RankIsOne ==
    ASSUME NEW pools, NEW a \in Of(pools), NEW b \in Of(pools), Rank(a, pools) = Rank(b, pools)
    PROVE  a = b
<1> SUFFICES ASSUME NEW x \in Of(pools), NEW y \in Of(pools), x < y,
                    Rank(x, pools) = Rank(y, pools)
             PROVE  FALSE
  BY OfAreNumbers
<1>1. Cardinality(Before(x, pools)) = Cardinality(Before(y, pools))
  BY Zenon, OfAreNumbers DEF Rank
<1>2. Before(x, pools) \in SUBSET Before(y, pools) /\ x \in Before(y, pools) /\ x \notin Before(x, pools)
  BY OfAreNumbers DEF Before
<1> QED
  BY Zenon, <1>1, <1>2, OfIsFinite, FS_Subset

\* A pick that is acceptable is the last one.
LEMMA WalkGivesUp ==
    ASSUME NEW c, NEW n \in Nat, NEW w, Walks(c, w, n), ~Acceptable(w[n].subnet, c),
           NEW j \in 1..n
    PROVE  ~Acceptable(w[j].subnet, c)
<1> SUFFICES ASSUME Acceptable(w[j].subnet, c) PROVE FALSE
  BY Zenon
<1> DEFINE Bad == {i \in j..n : ~Acceptable(w[i].subnet, c)}
           m == Min(Bad)
<1>1. n \in Bad /\ Bad \in SUBSET Nat
  OBVIOUS
<1>2. m \in Bad /\ \A i \in Bad : m <= i
  BY Zenon, <1>1, LeastIs
<1> HIDE DEF m
<1>3. m \in j..n /\ m # j /\ ~Acceptable(w[m].subnet, c)
  BY Zenon, <1>2
<1>4. m \in 0..n /\ m > 1 /\ m - 1 \in j..n /\ m - 1 \notin Bad
  BY <1>2, <1>3
<1>5. Acceptable(w[m - 1].subnet, c)
  BY Zenon, <1>4
<1>6. w[m] = Attempt(c, m, w[m - 1])
  BY <1>4 DEF Walks
<1>7. w[m] = w[m - 1]
  BY Zenon, <1>4, <1>5, <1>6 DEF Attempt
<1> QED
  BY Zenon, <1>3, <1>5, <1>7

\* The ranks of the picks of a walk that begins at rank r and finds nothing.
Ranked(w, n, r, pools) ==
    /\ r \in Int /\ -1 <= r /\ r < n
    /\ \A i \in 1..n : /\ w[i].subnet \in Of(pools)
                       /\ Rank(w[i].subnet, pools) = IF r + i < n THEN r + i ELSE r + i - n

LEMMA WalkRanks ==
    ASSUME NEW c \in Clients, NEW n \in Nat, n > 0, n = Cardinality(Of(c.pools)), c.pools # {},
           NEW w, Walks(c, w, n), allocator \in InTurn(c.pools), ~Acceptable(w[n].subnet, c),
           NEW r, r = Rank(allocator.subnet, c.pools)
    PROVE  Ranked(w, n, r, c.pools)
<1> DEFINE pools == c.pools
           Right(i) == /\ w[i] \in InTurn(pools)
                       /\ i > 0 => w[i].subnet \in Of(pools)
                       /\ Rank(w[i].subnet, pools) = IF r + i < n THEN r + i ELSE r + i - n
           Bad == {i \in 0..n : ~Right(i)}
           m == Min(Bad)
<1>1. pools \in SUBSET DOMAIN Pools
  BY Zenon, PoolsAssumption
<1>2. w[0] = allocator /\ \A i \in 1..n : w[i] = Attempt(c, i, w[i - 1])
  BY DEF Walks
<1>3. \A i \in 1..n : i > 1 => ~Acceptable(w[i - 1].subnet, c)
  BY WalkGivesUp
<1>4. \A i \in 1..n : w[i] = pickAddress(w[i - 1], pools)
  BY Zenon, <1>2, <1>3 DEF Attempt
<1>5. ASSUME NEW p \in InTurn(pools)
      PROVE  pickAddress(p, pools) \in InTurn(pools)
             /\ Follows(p.subnet, pickAddress(p, pools).subnet, pools)
  BY Zenon, <1>1, PickIs, PickFollows
<1>6. r \in Int /\ -1 <= r /\ r < n
  BY Zenon, <1>5, RankFollows
<1>7. Bad = {}
  <2> SUFFICES ASSUME Bad # {} PROVE FALSE
    BY Zenon
  <2>1. Bad \in SUBSET Nat
    OBVIOUS
  <2> HIDE DEF Right
  <2>2. m \in Bad /\ \A i \in Bad : m <= i
    BY Zenon, <2>1, LeastIs
  <2>3. Right(0)
    BY <1>2, <1>6 DEF Right
  <2> HIDE DEF m
  <2>4. m \in 1..n /\ m - 1 \in 0..n /\ m - 1 \notin Bad /\ ~Right(m)
    BY <2>2, <2>3
  <2>5. Right(m - 1)
    BY Zenon, <2>4
  <2> DEFINE p == w[m - 1]
             q == w[m]
             rp == Rank(p.subnet, pools)
             rq == Rank(q.subnet, pools)
  <2>6. p \in InTurn(pools) /\ rp = IF r + (m - 1) < n THEN r + (m - 1) ELSE r + (m - 1) - n
    BY Zenon, <2>5 DEF Right
  <2>7. q = pickAddress(p, pools)
    BY Zenon, <1>4, <2>4
  <2> HIDE DEF p, q
  <2>8. q \in InTurn(pools) /\ Follows(p.subnet, q.subnet, pools)
    BY Zenon, <1>5, <2>6, <2>7
  <2>9. rq = IF rp + 1 < n THEN rp + 1 ELSE 0
    BY Zenon, <2>8, RankFollows
  <2> HIDE DEF rp, rq
  <2>10. rq = IF r + m < n THEN r + m ELSE r + m - n
    BY <1>6, <2>4, <2>6, <2>9
  <2>11. q.subnet \in Of(pools)
    BY Zenon, <2>8 DEF Follows
  <2> QED
    BY Zenon, <2>4, <2>8, <2>10, <2>11 DEF Right, q, rq
<1>8. \A i \in 1..n : Right(i)
  BY <1>7
<1> QED
  BY <1>6, <1>8 DEF Ranked

LEMMA FreeIsFound ==
    ASSUME NEW c \in Clients, allocator \in InTurn(c.pools), NEW a \in Addrs, inAllowedPool(a, c),
           allocateUnreservedLease4(c).addr = Zero
    PROVE  ~Acceptable(a, c)
<1> DEFINE n == getPoolCapacity(c)
           pools == c.pools
<1>1. n \in Nat /\ (n > 0 => pools # {})
  BY Zenon, CapacityIs
<1>2. n = Cardinality(Of(pools))
  BY Zenon DEF getPoolCapacity, inAllowedPool, Of
<1>3. a \in Of(pools)
  BY Zenon DEF inAllowedPool, Of
<1>4. n > 0
  BY <1>1, <1>2, <1>3, OfIsFinite, FS_EmptySet
<1>5. PICK w : Walks(c, w, n) /\ Walk(c) = w[n]
  BY Zenon, WalkIs
<1>6. ~Acceptable(w[n].subnet, c)
  BY Zenon, <1>4, <1>5, AllocAssumption DEF allocateUnreservedLease4, Acceptable, Zero
<1> DEFINE r == Rank(allocator.subnet, pools)
           t == Rank(a, pools)
<1> HIDE DEF n
<1>7. /\ r \in Int /\ -1 <= r /\ r < n
      /\ \A i \in 1..n : /\ w[i].subnet \in Of(pools)
                         /\ Rank(w[i].subnet, pools) = IF r + i < n THEN r + i ELSE r + i - n
  <2>1. Ranked(w, n, r, pools)
    BY Zenon, <1>1, <1>2, <1>4, <1>5, <1>6, WalkRanks
  <2> QED
    BY Zenon, <2>1 DEF Ranked
<1>8. t \in Nat /\ t < n
  BY Zenon, <1>2, <1>3, OfAreNumbers, OfIsFinite, BeforeIsLess DEF Rank
<1> HIDE DEF r, t
<1>9. PICK i \in 1..n : t = IF r + i < n THEN r + i ELSE r + i - n
  <2>1. CASE t > r
    <3>1. t - r \in 1..n /\ r + (t - r) = t
      BY <1>1, <1>7, <1>8, <2>1
    <3> QED
      BY Zenon, <1>8, <3>1
  <2>2. CASE ~(t > r)
    <3>1. t - r + n \in 1..n /\ r + (t - r + n) = t + n /\ r + (t - r + n) - n = t /\ ~(t + n < n)
      BY <1>1, <1>7, <1>8, <2>2
    <3> QED
      BY Zenon, <3>1
  <2> QED
    BY Zenon, <2>1, <2>2
<1>10. w[i].subnet = a
  <2>1. w[i].subnet \in Of(pools) /\ Rank(w[i].subnet, pools) = t
    BY Zenon, <1>7, <1>9
  <2> QED
    BY Zenon, <1>3, <2>1, RankIsOne DEF t
<1>11. ~Acceptable(w[i].subnet, c)
  BY Zenon, <1>1, <1>5, <1>6, WalkGivesUp
<1> QED
  BY Zenon, <1>10, <1>11

\* All clients use the same pools.
Alike == \A c, d \in Clients : c.pools = d.pools

TurnInv == \A c \in Clients : allocator \in InTurn(c.pools)

LEMMA NewInTurn ==
    ASSUME NEW pools \in SUBSET DOMAIN Pools
    PROVE  NewAllocator \in InTurn(pools)
BY Zenon, NewIsSound DEF NewAllocator, InTurn

LEMMA TurnStep ==
    ASSUME Alike, TurnInv, [Next]_vars
    PROVE  TurnInv'
<1> SUFFICES ASSUME NEW c \in Clients PROVE allocator' \in InTurn(c.pools)
  BY Zenon DEF TurnInv
<1>1. c.pools \in SUBSET DOMAIN Pools
  BY Zenon, PoolsAssumption
<1>2. NewAllocator \in InTurn(c.pools) /\ allocator \in InTurn(c.pools)
  BY Zenon, <1>1, NewInTurn DEF TurnInv
<1>3. ASSUME NEW d \in Clients PROVE Walk(d) \in InTurn(c.pools)
  <2> DEFINE n == getPoolCapacity(d)
             T == InTurn(c.pools)
  <2>1. d.pools = c.pools
    BY Zenon DEF Alike
  <2>2. PICK w : Walks(d, w, n) /\ Walk(d) = w[n]
    BY Zenon, WalkIs
  <2>3. n \in Nat /\ (n > 0 => d.pools # {}) /\ n \in 0..n
    BY CapacityIs
  <2>4. d.pools # {} => \A p \in T : pickAddress(p, d.pools) \in T
    BY Zenon, <1>1, <2>1, PickIs, PickFollows
  <2> HIDE DEF n, T
  <2>5. \A i \in 0..n : w[i] \in T
    BY Zenon, <1>2, <2>2, <2>3, <2>4, WalkStays DEF T
  <2> QED
    BY Zenon, <2>2, <2>3, <2>5 DEF T
<1> QED
  BY Zenon, <1>2, <1>3, AllocatorMoves

\* When the pools are open to all clients alike, allocateUnreservedLease4() fails only when
\* every address of them is taken or reserved: its picks come by all of them, wherever
\* earlier allocations have left the allocator, with any number of pools of any sizes.
THEOREM FreeAddressesAreFound ==
    ASSUME Alike
    PROVE  Spec => []FreeAddressIsFound
<1>1. Init => TurnInv
  BY Zenon, NewInTurn, PoolsAssumption DEF Init, TurnInv
<1>2. TurnInv /\ [Next]_vars => TurnInv'
  BY Zenon, TurnStep
<1>3. TurnInv => FreeAddressIsFound
  BY Zenon, FreeIsFound DEF TurnInv, FreeAddressIsFound, Acceptable
<1> QED
  BY <1>1, <1>2, <1>3, PTL DEF Spec
=============================================================================
