-------------------------- MODULE LeaseUpdatesProofs --------------------------
(***************************************************************************)
(* Proofs about NetworkState and LeaseUpdates, for any number of packets   *)
(* and of backup servers: updates are called back once each, parked        *)
(* packets are answered or dropped, and every transaction goes on.         *)
(***************************************************************************)
EXTENDS LeaseUpdates, HttpClientProofs, FiniteSetTheorems

-----------------------------------------------------------------------------
(* The invariant. *)

\* The packets.
PacketInv(q) ==
    /\ pending[q] \in Nat \cup {-1}
    /\ q \notin received => q \notin answered /\ q \notin failed /\ lot[q] = "out" /\ pending[q] = -1
    /\ q \in answered => Outstanding(q) = {}
    /\ q \in failed => lot[q] = "out"

UnappliedInv ==
    \A r \in unapplied :
        /\ r \in Updates /\ r[1] \in received /\ r[2] = Partner
        /\ Partner \notin late => r \in Outstanding(r[1]) \/ r[1] \in failed

\* A connection on which no callback can be late.
Timely(u) == u \notin late \/ "blocked" \notin Faults[u]

ServerTyped ==
    /\ conn \in [Peers -> Connection]
    /\ received \subseteq Queries /\ answered \subseteq Queries /\ failed \subseteq Queries
    /\ pending \in [Queries -> Int]
    /\ lot \in [Queries -> {"parked", "referenced", "out"}]
    /\ late \subseteq Peers

ConnInv(u) ==
    /\ QueueInv(u, conn[u], received)
    /\ Timely(u) => LoopInv(conn[u])
    /\ u = Partner /\ u \notin late => StreamInv(conn[u], unapplied)

PacketsInv ==
    /\ \A q \in Queries : PacketInv(q)
    /\ PendingIsOutstanding /\ ParkedIsPending /\ FailedIsDropped
    /\ UnappliedInv

IInv == ServerTyped /\ (\A u \in Peers : ConnInv(u)) /\ PacketsInv

-----------------------------------------------------------------------------
(* The updates of a packet. *)

LEMMA PeersAreFinite == IsFiniteSet(Peers)
  BY Zenon, UpdatesAssumption, FS_Singleton, FS_Union DEF Peers

UpdatesOf(q, P, C) == {<<q, u, change>> : u \in P, change \in C}

\* A packet has as many updates as there are pairs of a peer and a change.
LEMMA UpdatesCount ==
  ASSUME NEW q, NEW P, IsFiniteSet(P), NEW C, IsFiniteSet(C)
  PROVE  /\ IsFiniteSet(UpdatesOf(q, P, C))
         /\ Cardinality(UpdatesOf(q, P, C)) = Cardinality(P) * Cardinality(C)
  <1> DEFINE U == {<<q, u, change>> : u \in P, change \in C}
             f == [p \in P \X C |-> <<q, p[1], p[2]>>]
  <1>1. IsFiniteSet(P \X C) /\ Cardinality(P \X C) = Cardinality(P) * Cardinality(C)
    BY Zenon, FS_Product
  <1>2. f \in Bijection(P \X C, U)
    <2>1. f \in [P \X C -> U]
      OBVIOUS
    <2>2. ASSUME NEW a \in P \X C, NEW b \in P \X C, f[a] = f[b] PROVE a = b
      <3>1. <<q, a[1], a[2]>> = <<q, b[1], b[2]>>
        BY Zenon, <2>2
      <3>2. a[1] = b[1] /\ a[2] = b[2]
        BY Zenon, <3>1
      <3> QED BY <3>2
    <2>3. ASSUME NEW r \in U PROVE \E a \in P \X C : f[a] = r
      <3>1. PICK u \in P, change \in C : r = <<q, u, change>>
        OBVIOUS
      <3>2. <<u, change>> \in P \X C /\ f[<<u, change>>] = r
        BY <3>1
      <3> QED BY <3>2
    <2> HIDE DEF f, U
    <2>4. f \in Injection(P \X C, U)
      BY Zenon, <2>1, <2>2 DEF Injection, IsInjective
    <2>5. f \in Surjection(P \X C, U)
      BY Zenon, <2>1, <2>3 DEF Surjection
    <2> QED BY Zenon, <2>4, <2>5 DEF Bijection
  <1> HIDE DEF f, U
  <1>3. ExistsBijection(P \X C, U)
    BY Zenon, <1>2 DEF ExistsBijection
  <1>4. IsFiniteSet(U) /\ Cardinality(U) = Cardinality(P \X C)
    BY Zenon, <1>1, <1>3, FS_Bijection
  <1> QED BY <1>1, <1>4 DEF U, UpdatesOf

\* The changes of a packet are different ones, and at most two.
LEMMA ChangesAre ==
  ASSUME NEW k \in Kinds
  PROVE  /\ Changes(k) \in Seq({"delete", "update"}) /\ IsInjective(Changes(k))
         /\ IsFiniteSet(Range(Changes(k))) /\ Cardinality(Range(Changes(k))) = Len(Changes(k))
         /\ Changes(k) # <<>> => Range(Changes(k)) # {}
  <1>1. Changes(k) \in {<<>>, <<"delete">>, <<"update">>, <<"delete", "update">>}
    <2>1. k \in {"renewal", "new address", "release", "decline", "refusal"}
      BY Zenon, UpdatesAssumption
    <2> QED BY Zenon, <2>1 DEF Changes
  <1>2. CASE Changes(k) = <<>>
    <2>1. Range(<<>>) = {} /\ IsInjective(<<>>)
      BY Zenon, EmptyIs
    <2> QED BY <1>2, <2>1, FS_EmptySet
  <1>3. ASSUME NEW x \in {"delete", "update"}, Changes(k) = <<x>>
        PROVE  /\ Changes(k) \in Seq({"delete", "update"}) /\ IsInjective(Changes(k))
               /\ IsFiniteSet(Range(Changes(k))) /\ Cardinality(Range(Changes(k))) = Len(Changes(k))
               /\ Range(Changes(k)) # {}
    <2>1. Range(<<x>>) = {x}
      BY DEF Range
    <2>2. IsInjective(<<x>>)
      BY DEF IsInjective
    <2>3. <<x>> \in Seq({"delete", "update"}) /\ Len(<<x>>) = 1
      OBVIOUS
    <2>4. IsFiniteSet({x}) /\ Cardinality({x}) = 1
      BY Zenon, FS_Singleton
    <2> QED BY Zenon, <1>3, <2>1, <2>2, <2>3, <2>4
  <1>4. CASE Changes(k) = <<"delete", "update">>
    <2>1. Range(<<"delete", "update">>) = {"delete"} \cup {"update"}
      <3>1. DOMAIN <<"delete", "update">> = 1..2
        OBVIOUS
      <3>2. <<"delete", "update">>[1] = "delete" /\ <<"delete", "update">>[2] = "update"
        BY Zenon
      <3>3. Range(<<"delete", "update">>) = {<<"delete", "update">>[i] : i \in 1..2}
        BY Zenon, <3>1 DEF Range
      <3>4. 1..2 = {1, 2}
        OBVIOUS
      <3> QED BY Zenon, <3>2, <3>3, <3>4
    <2>2. IsInjective(<<"delete", "update">>)
      BY DEF IsInjective
    <2>3. <<"delete", "update">> \in Seq({"delete", "update"}) /\ Len(<<"delete", "update">>) = 2
      OBVIOUS
    <2>4. IsFiniteSet({"delete"}) /\ Cardinality({"delete"}) = 1
      BY Zenon, FS_Singleton
    <2>5. "update" \notin {"delete"}
      BY Zenon
    <2>6. IsFiniteSet({"delete"} \cup {"update"}) /\ Cardinality({"delete"} \cup {"update"}) = 2
      BY <2>4, <2>5, FS_AddElement
    <2> QED BY Zenon, <1>4, <2>1, <2>2, <2>3, <2>6
  <1> QED BY Zenon, <1>1, <1>2, <1>3, <1>4

LEMMA UpdatesForAre ==
  ASSUME NEW q \in Queries, NEW k \in Kinds, NEW u \in Peers
  PROVE  /\ UpdatesFor(q, k, u) \in Seq(Request) /\ IsInjective(UpdatesFor(q, k, u))
         /\ Range(UpdatesFor(q, k, u)) = {<<q, u, change>> : change \in Range(Changes(k))}
  <1> DEFINE s == Changes(k)
             m == Len(s)
             t == [i \in 1..m |-> <<q, u, s[i]>>]
  <1>1. s \in Seq({"delete", "update"}) /\ IsInjective(s) /\ DOMAIN s = 1..m /\ m \in Nat
    BY ChangesAre
  <1>2. UpdatesFor(q, k, u) = t
    BY Zenon DEF UpdatesFor
  <1> HIDE DEF s, m
  <1>3. \A i \in 1..m : s[i] \in {"delete", "update"}
    BY <1>1 DEF m
  <1>4. \A i \in 1..m : <<q, u, s[i]>> \in Request
    BY Zenon, <1>3, UpdatesAssumption DEF Updates
  <1>5. t \in Seq(Request) /\ DOMAIN t = 1..m
    BY <1>1, <1>4
  <1>6. IsInjective(t)
    <2> SUFFICES ASSUME NEW i \in 1..m, NEW j \in 1..m, t[i] = t[j] PROVE i = j
      BY Zenon, <1>5 DEF IsInjective
    <2>1. s[i] = s[j]
      BY Zenon
    <2> QED BY Zenon, <1>1, <2>1 DEF IsInjective
  <1>7. Range(t) = {<<q, u, change>> : change \in Range(s)}
    <2>1. Range(s) = {s[i] : i \in 1..m} /\ Range(t) = {t[i] : i \in 1..m}
      BY Zenon, <1>1, <1>5 DEF Range
    <2>2. \A i \in 1..m : t[i] = <<q, u, s[i]>>
      BY Zenon
    <2> HIDE DEF t
    <2> QED BY <2>1, <2>2
  <1> QED BY Zenon, <1>2, <1>5, <1>6, <1>7 DEF s

-----------------------------------------------------------------------------
(* The packets. *)

LEMMA OutstandingIs ==
  ASSUME NEW q
  PROVE  /\ Outstanding(q) = {r \in Updates : r[1] = q /\ Has(conn[r[2]], r)}
         /\ Outstanding(q)' = {r \in Updates : r[1] = q /\ Has(conn'[r[2]], r)}
  BY Zenon DEF Outstanding, Has

LEMMA UpdateIs ==
  ASSUME NEW r \in Updates
  PROVE  r[1] \in Queries /\ r[2] \in Peers /\ r[3] \in {"delete", "update"} /\ r = <<r[1], r[2], r[3]>>
  BY DEF Updates

LEMMA OutstandingIsFinite ==
  ASSUME NEW q
  PROVE  IsFiniteSet(Outstanding(q)) /\ IsFiniteSet(Outstanding(q)')
  <1> DEFINE U == {<<q, u, change>> : u \in Peers, change \in {"delete", "update"}}
  <1>1. IsFiniteSet({"delete"} \cup {"update"})
    BY Zenon, FS_Singleton, FS_AddElement
  <1>2. {"delete"} \cup {"update"} = {"delete", "update"}
    BY Zenon
  <1>3. IsFiniteSet(U)
    <2> DEFINE C == {"delete", "update"}
    <2>1. IsFiniteSet(C)
      BY Zenon, <1>1, <1>2
    <2> HIDE DEF C
    <2>2. IsFiniteSet(UpdatesOf(q, Peers, C))
      BY Zenon, <2>1, PeersAreFinite, UpdatesCount
    <2> QED BY <2>2 DEF C, UpdatesOf
  <1>4. \A r \in Updates : r[1] = q => r \in U
    BY UpdateIs
  <1>5. Outstanding(q) \in SUBSET U /\ Outstanding(q)' \in SUBSET U
    BY <1>4, OutstandingIs
  <1> QED BY <1>3, <1>5, FS_Subset

\* A step that ends no request leaves the packets alone.
LEMMA PacketsKept ==
  ASSUME PacketsInv, \A q : Outstanding(q)' = Outstanding(q),
         UNCHANGED <<received, pending, lot, answered, failed>>,
         unapplied' \subseteq unapplied, late \subseteq late'
  PROVE  PacketsInv'
  <1>1. \A q \in Queries : PacketInv(q)'
    BY Zenon DEF PacketsInv, PacketInv
  <1>2. PendingIsOutstanding' /\ ParkedIsPending'
    BY Zenon DEF PacketsInv, PendingIsOutstanding, ParkedIsPending
  <1>3. FailedIsDropped'
    BY Zenon DEF PacketsInv, FailedIsDropped
  <1>4. UnappliedInv'
    BY Zenon DEF PacketsInv, UnappliedInv
  <1> QED BY Zenon, <1>1, <1>2, <1>3, <1>4 DEF PacketsInv

\* A packet that is dropped has no updates.
LEMMA DropPackets ==
  ASSUME ServerTyped, PacketsInv, \A q : Outstanding(q)' = Outstanding(q), NEW p,
         UNCHANGED <<pending, lot, answered, failed, unapplied, late>>,
         received' = received \cup {p}
  PROVE  PacketsInv'
  <1>1. \A q \in Queries : PacketInv(q)'
    BY Zenon DEF PacketsInv, PacketInv
  <1>2. PendingIsOutstanding' /\ ParkedIsPending'
    BY Zenon DEF PacketsInv, PendingIsOutstanding, ParkedIsPending
  <1>3. FailedIsDropped'
    BY Zenon DEF PacketsInv, FailedIsDropped
  <1>4. UnappliedInv'
    BY Zenon DEF PacketsInv, UnappliedInv
  <1> QED BY Zenon, <1>1, <1>2, <1>3, <1>4 DEF PacketsInv

\* An update is called back: the packet has one less.
LEMMA CallbackPackets ==
  ASSUME ServerTyped, PacketsInv, NEW r \in Updates, NEW result, UpdateCallback(r, result),
         r \in Outstanding(r[1]), Outstanding(r[1])' = Outstanding(r[1]) \ {r},
         \A q : q # r[1] => Outstanding(q)' = Outstanding(q),
         UNCHANGED <<received, unapplied, late>>,
         Partner \notin late /\ r \in unapplied => result # "ok"
  PROVE  PacketsInv' /\ (conn' \in [Peers -> Connection] => ServerTyped')
  <1> DEFINE q == r[1]
             O == Outstanding(q)
             fails == r[2] = Partner /\ result # "ok"
             left == IF fails THEN "out" ELSE lot[q]
             last == pending[q] <= 1
  <1>1. q \in Queries /\ r[2] \in Peers
    BY Zenon, UpdateIs
  <1>2. /\ lot' = [lot EXCEPT ![q] = IF last THEN "out" ELSE left]
        /\ answered' = answered \cup {x \in {q} : last /\ left = "parked"}
        /\ failed' = IF fails THEN failed \cup {q} ELSE failed
        /\ pending' = [pending EXCEPT ![q] = IF last /\ left # "referenced" THEN -1 ELSE @ - 1]
    BY Zenon DEF UpdateCallback
  <1>3. /\ pending \in [Queries -> Int] /\ lot \in [Queries -> {"parked", "referenced", "out"}]
        /\ received \subseteq Queries /\ answered \subseteq Queries /\ failed \subseteq Queries
        /\ late \subseteq Peers
    BY Zenon DEF ServerTyped
  <1>4. IsFiniteSet(O) /\ r \in O /\ Outstanding(q)' = O \ {r}
    BY Zenon, OutstandingIsFinite
  <1> HIDE DEF q, O, fails, left, last
  <1>5. Cardinality(O) \in Nat /\ Cardinality(O) # 0 /\ Cardinality(O \ {r}) = Cardinality(O) - 1
        /\ (Cardinality(O \ {r}) = 0 <=> O \ {r} = {})
    BY Zenon, <1>4, FS_CardinalityType, FS_EmptySet, FS_RemoveElement
  <1>6. pending[q] = Cardinality(O) /\ pending[q] \in Nat /\ pending[q] >= 1
    BY <1>1, <1>5 DEF PacketsInv, PendingIsOutstanding, O
  <1>7. last <=> O \ {r} = {}
    BY <1>5, <1>6 DEF last
  <1>8. conn' \in [Peers -> Connection] => ServerTyped'
    <2>1. lot' \in [Queries -> {"parked", "referenced", "out"}]
      BY Zenon, <1>1, <1>2, <1>3 DEF left
    <2>2. pending' \in [Queries -> Int]
      BY <1>1, <1>2, <1>3
    <2>3. answered' \subseteq Queries /\ failed' \subseteq Queries
      BY Zenon, <1>1, <1>2, <1>3
    <2> QED BY Zenon, <1>3, <2>1, <2>2, <2>3 DEF ServerTyped
  <1>9. /\ pending'[q] = IF last /\ left # "referenced" THEN -1 ELSE pending[q] - 1
        /\ lot'[q] = IF last THEN "out" ELSE left
        /\ q \in answered' <=> q \in answered \/ (last /\ left = "parked")
        /\ q \in failed' <=> q \in failed \/ fails
    BY Zenon, <1>1, <1>2, <1>3
  <1>10. \A p \in Queries : p # q =>
           /\ pending'[p] = pending[p] /\ lot'[p] = lot[p]
           /\ p \in answered' <=> p \in answered
           /\ p \in failed' <=> p \in failed
    BY Zenon, <1>1, <1>2, <1>3
  <1>11. PacketInv(q) /\ O # {}
    BY Zenon, <1>1, <1>4 DEF PacketsInv
  <1>12. q \in received /\ q \notin answered
    <2>1. q \notin received => pending[q] = -1
      BY Zenon, <1>11 DEF PacketInv
    <2>2. q \in answered => O = {}
      BY Zenon, <1>11 DEF PacketInv, O
    <2> QED BY <1>6, <1>11, <2>1, <2>2
  <1>13. q \in failed => lot[q] = "out"
    BY Zenon, <1>11 DEF PacketInv
  <1>14. Outstanding(q)' = O \ {r}
    BY Zenon, <1>4
  <1>15. ASSUME NEW p \in Queries PROVE PacketInv(p)'
    <2>1. CASE p # q
      <3>1. Outstanding(p)' = Outstanding(p)
        BY Zenon, <2>1 DEF q
      <3>2. PacketInv(p)
        BY Zenon DEF PacketsInv
      <3> QED BY Zenon, <1>10, <2>1, <3>1, <3>2 DEF PacketInv
    <2>2. PacketInv(q)'
      <3>1. pending'[q] \in Nat \cup {-1}
        BY <1>6, <1>9
      <3>2. q \in received'
        BY Zenon, <1>12
      <3>3. q \in answered' => Outstanding(q)' = {}
        BY Zenon, <1>7, <1>9, <1>12, <1>14
      <3>4. q \in failed' => lot'[q] = "out"
        BY Zenon, <1>9, <1>13 DEF left
      <3> QED BY Zenon, <3>1, <3>2, <3>3, <3>4 DEF PacketInv
    <2> QED BY Zenon, <2>1, <2>2
  <1>16. PendingIsOutstanding'
    <2> SUFFICES ASSUME NEW p \in Queries
                 PROVE  Cardinality(Outstanding(p)') = (IF pending'[p] = -1 THEN 0 ELSE pending'[p])
      BY Zenon DEF PendingIsOutstanding
    <2>1. CASE p # q
      <3>1. Outstanding(p)' = Outstanding(p)
        BY Zenon, <2>1 DEF q
      <3>2. Cardinality(Outstanding(p)) = (IF pending[p] = -1 THEN 0 ELSE pending[p])
        BY Zenon DEF PacketsInv, PendingIsOutstanding
      <3> QED BY Zenon, <1>10, <2>1, <3>1, <3>2
    <2>2. Cardinality(O \ {r}) = (IF pending'[q] = -1 THEN 0 ELSE pending'[q])
      BY SMTT(30), <1>5, <1>6, <1>7, <1>9
    <2> QED BY Zenon, <1>14, <2>1, <2>2
  <1>17. ParkedIsPending'
    <2> SUFFICES ASSUME NEW p \in Queries, lot'[p] # "out" PROVE Outstanding(p)' # {}
      BY Zenon DEF ParkedIsPending
    <2>1. CASE p # q
      <3>1. Outstanding(p)' = Outstanding(p)
        BY Zenon, <2>1 DEF q
      <3> QED BY Zenon, <1>10, <2>1, <3>1 DEF PacketsInv, ParkedIsPending
    <2>2. CASE p = q
      BY Zenon, <1>7, <1>9, <1>14, <2>2
    <2> QED BY Zenon, <2>1, <2>2
  <1>18. FailedIsDropped'
    <2>1. answered \cap failed = {}
      BY Zenon DEF PacketsInv, FailedIsDropped
    <2>2. ~(q \in answered' /\ q \in failed')
      BY Zenon, <1>9, <1>12, <1>13 DEF left
    <2>3. answered' \cap failed' = {}
      BY Zenon, <1>2, <2>1, <2>2
    <2> QED BY Zenon, <2>3 DEF FailedIsDropped
  <1>19. UnappliedInv'
    <2> SUFFICES ASSUME NEW s \in unapplied
                 PROVE  /\ s \in Updates /\ s[1] \in received' /\ s[2] = Partner
                        /\ Partner \notin late' => s \in Outstanding(s[1])' \/ s[1] \in failed'
      BY Zenon DEF UnappliedInv
    <2>1. /\ s \in Updates /\ s[1] \in received /\ s[2] = Partner
          /\ Partner \notin late => s \in Outstanding(s[1]) \/ s[1] \in failed
      BY Zenon DEF PacketsInv, UnappliedInv
    <2>2. s[1] \in failed => s[1] \in failed'
      BY Zenon, <1>2
    <2>3. CASE s[1] # q
      <3>1. Outstanding(s[1])' = Outstanding(s[1])
        BY Zenon, <2>3 DEF q
      <3> QED BY Zenon, <2>1, <2>2, <3>1
    <2>4. CASE s[1] = q /\ s # r
      <3>1. s \in Outstanding(s[1]) => s \in O \ {r}
        BY Zenon, <2>4 DEF O
      <3>2. Outstanding(s[1])' = O \ {r}
        BY Zenon, <1>14, <2>4
      <3> QED BY Zenon, <2>1, <2>2, <3>1, <3>2
    <2>5. CASE s = r
      <3>1. Partner \notin late => fails
        BY Zenon, <2>1, <2>5 DEF fails
      <3> QED BY Zenon, <1>9, <2>1, <2>5, <3>1 DEF q
    <2> QED BY Zenon, <2>3, <2>4, <2>5
  <1> QED BY Zenon, <1>8, <1>15, <1>16, <1>17, <1>18, <1>19 DEF PacketsInv

\* A packet that is processed gets its updates.
\* What a new packet changes besides the connections.
Admitted(q, k, peers) ==
    /\ received' = received \cup {q}
    /\ unapplied' = unapplied \cup
          {<<q, u, change>> : u \in peers \cap {Partner}, change \in Range(Changes(k))}
    /\ pending' = [pending EXCEPT
          ![q] = IF peers = {} THEN -1 ELSE Cardinality(peers) * Len(Changes(k))]
    /\ \/ peers = {} /\ answered' = answered \cup {r \in {q} : Responds(k)} /\ lot' = lot
       \/ /\ peers # {} /\ answered' = answered
          /\ lot' = [lot EXCEPT ![q] = IF Responds(k) THEN "parked" ELSE "referenced"]
    /\ UNCHANGED <<failed, late>>

LEMMA NewPackets ==
  ASSUME ServerTyped, PacketsInv, NEW q \in Queries, q \notin received, NEW k \in Kinds,
         NEW peers \in SUBSET Peers, peers # {} => Changes(k) # <<>>, Admitted(q, k, peers),
         Outstanding(q)' = UpdatesOf(q, peers, Range(Changes(k))),
         \A p : p # q => Outstanding(p)' = Outstanding(p)
  PROVE  PacketsInv' /\ (conn' \in [Peers -> Connection] => ServerTyped')
  <1> DEFINE C == Range(Changes(k))
             m == Cardinality(peers) * Len(Changes(k))
             O == UpdatesOf(q, peers, C)
  <1>0. /\ received' = received \cup {q}
        /\ unapplied' = unapplied \cup {<<q, u, change>> : u \in peers \cap {Partner}, change \in C}
        /\ pending' = [pending EXCEPT ![q] = IF peers = {} THEN -1 ELSE m]
        /\ \/ peers = {} /\ answered' = answered \cup {r \in {q} : Responds(k)} /\ lot' = lot
           \/ /\ peers # {} /\ answered' = answered
              /\ lot' = [lot EXCEPT ![q] = IF Responds(k) THEN "parked" ELSE "referenced"]
        /\ UNCHANGED <<failed, late>>
    BY DEF Admitted
  <1> USE <1>0
  <1>1. /\ pending \in [Queries -> Int] /\ lot \in [Queries -> {"parked", "referenced", "out"}]
        /\ received \subseteq Queries /\ answered \subseteq Queries /\ failed \subseteq Queries
        /\ late \subseteq Peers
    BY Zenon DEF ServerTyped
  <1>2. /\ IsFiniteSet(C) /\ Cardinality(C) = Len(Changes(k)) /\ (peers # {} => C # {})
        /\ C \subseteq {"delete", "update"}
    <2>1. /\ IsFiniteSet(C) /\ Cardinality(C) = Len(Changes(k)) /\ (peers # {} => C # {})
          /\ Changes(k) \in Seq({"delete", "update"})
      BY Zenon, ChangesAre
    <2>2. \A r \in C : r \in {"delete", "update"}
      BY <2>1 DEF Range
    <2> QED BY Zenon, <2>1, <2>2
  <1>3. IsFiniteSet(peers) /\ Cardinality(peers) \in Nat /\ Cardinality(C) \in Nat
    BY Zenon, <1>2, PeersAreFinite, FS_Subset, FS_CardinalityType
  <1> HIDE DEF C
  <1>4. IsFiniteSet(O) /\ Cardinality(O) = m /\ m \in Nat
    BY <1>2, <1>3, UpdatesCount
  <1>5. /\ peers = {} => O = {}
        /\ peers # {} => O # {}
    <2>1. peers = {} => O = {}
      BY DEF UpdatesOf
    <2>2. ASSUME peers # {} PROVE O # {}
      <3>1. PICK v \in peers, change \in C : TRUE
        BY Zenon, <1>2, <2>2
      <3>2. <<q, v, change>> \in O
        BY <3>1 DEF UpdatesOf
      <3> QED BY Zenon, <3>2
    <2> QED BY Zenon, <2>1, <2>2
  <1>6. Outstanding(q)' = O
    BY Zenon DEF C
  <1>7. \A r \in unapplied' : r \in unapplied \/ (r \in O /\ r \in Updates /\ r[1] = q /\ r[2] = Partner)
    BY <1>2 DEF UpdatesOf, Updates, C, Peers
  <1> HIDE DEF O, m
  <1>8. /\ pending'[q] = IF peers = {} THEN -1 ELSE m
        /\ lot'[q] = IF peers = {} THEN lot[q] ELSE IF Responds(k) THEN "parked" ELSE "referenced"
        /\ q \in answered' => q \in answered \/ peers = {}
    BY Zenon, <1>1 DEF m
  <1>9. \A p \in Queries : p # q =>
           /\ pending'[p] = pending[p] /\ lot'[p] = lot[p]
           /\ p \in answered' <=> p \in answered
           /\ p \in received' <=> p \in received
    BY Zenon, <1>1
  <1>10. q \notin answered /\ q \notin failed /\ lot[q] = "out"
    BY Zenon DEF PacketsInv, PacketInv
  <1>11. conn' \in [Peers -> Connection] => ServerTyped'
    <2>1. pending' \in [Queries -> Int]
      BY <1>1, <1>4 DEF m
    <2>2. lot' \in [Queries -> {"parked", "referenced", "out"}]
      BY Zenon, <1>1
    <2>3. answered' \subseteq Queries /\ received' \subseteq Queries
      BY Zenon, <1>1
    <2> QED BY Zenon, <1>1, <2>1, <2>2, <2>3 DEF ServerTyped
  <1>12. ASSUME NEW p \in Queries PROVE PacketInv(p)'
    <2>1. CASE p # q
      <3>1. Outstanding(p)' = Outstanding(p) /\ PacketInv(p)
        BY Zenon, <2>1 DEF PacketsInv
      <3> QED BY Zenon, <1>9, <2>1, <3>1 DEF PacketInv
    <2>2. PacketInv(q)'
      <3>1. pending'[q] \in Nat \cup {-1}
        BY Zenon, <1>4, <1>8
      <3>2. q \in received'
        BY Zenon
      <3>3. q \in answered' => Outstanding(q)' = {}
        BY Zenon, <1>5, <1>6, <1>8, <1>10
      <3>4. q \notin failed'
        BY Zenon, <1>10
      <3> QED BY Zenon, <3>1, <3>2, <3>3, <3>4 DEF PacketInv
    <2> QED BY Zenon, <2>1, <2>2
  <1>13. PendingIsOutstanding'
    <2> SUFFICES ASSUME NEW p \in Queries
                 PROVE  Cardinality(Outstanding(p)') = (IF pending'[p] = -1 THEN 0 ELSE pending'[p])
      BY Zenon DEF PendingIsOutstanding
    <2>1. CASE p # q
      <3>1. Outstanding(p)' = Outstanding(p)
        BY Zenon, <2>1
      <3>2. Cardinality(Outstanding(p)) = (IF pending[p] = -1 THEN 0 ELSE pending[p])
        BY Zenon DEF PacketsInv, PendingIsOutstanding
      <3> QED BY Zenon, <1>9, <2>1, <3>1, <3>2
    <2>2. Cardinality(O) = (IF pending'[q] = -1 THEN 0 ELSE pending'[q])
      BY <1>4, <1>5, <1>8, FS_EmptySet
    <2> QED BY Zenon, <1>6, <2>1, <2>2
  <1>14. ParkedIsPending'
    <2> SUFFICES ASSUME NEW p \in Queries, lot'[p] # "out" PROVE Outstanding(p)' # {}
      BY Zenon DEF ParkedIsPending
    <2>1. CASE p # q
      <3>1. Outstanding(p)' = Outstanding(p)
        BY Zenon, <2>1
      <3> QED BY Zenon, <1>9, <2>1, <3>1 DEF PacketsInv, ParkedIsPending
    <2>2. CASE p = q
      BY Zenon, <1>5, <1>6, <1>8, <1>10, <2>2
    <2> QED BY Zenon, <2>1, <2>2
  <1>15. FailedIsDropped'
    <2>1. answered \cap failed = {}
      BY Zenon DEF PacketsInv, FailedIsDropped
    <2>2. answered' \cap failed' = {}
      BY Zenon, <1>10, <2>1
    <2> QED BY Zenon, <2>2 DEF FailedIsDropped
  <1>16. UnappliedInv'
    <2> SUFFICES ASSUME NEW s \in unapplied'
                 PROVE  /\ s \in Updates /\ s[1] \in received' /\ s[2] = Partner
                        /\ Partner \notin late' => s \in Outstanding(s[1])' \/ s[1] \in failed'
      BY Zenon DEF UnappliedInv
    <2>1. CASE s \in unapplied
      <3>1. /\ s \in Updates /\ s[1] \in received /\ s[2] = Partner
            /\ Partner \notin late => s \in Outstanding(s[1]) \/ s[1] \in failed
        BY Zenon, <2>1 DEF PacketsInv, UnappliedInv
      <3>2. Outstanding(s[1])' = Outstanding(s[1])
        BY Zenon, <3>1
      <3> QED BY Zenon, <3>1, <3>2
    <2>2. CASE s \in O /\ s \in Updates /\ s[1] = q /\ s[2] = Partner
      BY Zenon, <1>6, <2>2
    <2> QED BY Zenon, <1>7, <2>1, <2>2
  <1> QED BY Zenon, <1>11, <1>12, <1>13, <1>14, <1>15, <1>16 DEF PacketsInv

-----------------------------------------------------------------------------
(* The steps. *)

LEMMA StreamShrinks ==
  ASSUME NEW c, NEW lacking, NEW less \in SUBSET lacking, StreamInv(c, lacking)
  PROVE  StreamInv(c, less)
  BY Zenon DEF StreamInv, Flow

\* A step on one connection.
LEMMA OnePeer ==
  ASSUME IInv, NEW u \in Peers, NEW n \in Connection, conn' = [conn EXCEPT ![u] = n],
         UNCHANGED received, unapplied' \subseteq unapplied, late \subseteq late',
         QueueInv(u, n, received), Timely(u)' => LoopInv(n),
         u = Partner /\ u \notin late' => StreamInv(n, unapplied')
  PROVE  conn' \in [Peers -> Connection] /\ \A v \in Peers : ConnInv(v)'
  <1>1. conn \in [Peers -> Connection]
    BY Zenon DEF IInv, ServerTyped
  <1>2. conn' \in [Peers -> Connection] /\ conn'[u] = n /\ \A v \in Peers : v # u => conn'[v] = conn[v]
    BY Zenon, <1>1
  <1>3. ConnInv(u)'
    BY Zenon, <1>2 DEF ConnInv
  <1>4. ASSUME NEW v \in Peers, v # u PROVE ConnInv(v)'
    <2>1. ConnInv(v) /\ conn'[v] = conn[v]
      BY Zenon, <1>2, <1>4 DEF IInv
    <2>2. Timely(v)' => Timely(v)
      BY Zenon DEF Timely
    <2>3. v \notin late' => v \notin late
      BY Zenon
    <2>4. StreamInv(conn[v], unapplied) => StreamInv(conn[v], unapplied')
      BY Zenon, StreamShrinks
    <2> QED BY Zenon, <2>1, <2>2, <2>3, <2>4 DEF ConnInv
  <1> QED BY Zenon, <1>2, <1>3, <1>4

LEMMA OutstandingKept ==
  ASSUME conn \in [Peers -> Connection], NEW u \in Peers, NEW n, conn' = [conn EXCEPT ![u] = n],
         \A r : Has(n, r) <=> Has(conn[u], r)
  PROVE  \A q : Outstanding(q)' = Outstanding(q)
  <1> TAKE q
  <1>1. \A r \in Updates : Has(conn'[r[2]], r) <=> Has(conn[r[2]], r)
    BY Zenon, UpdateIs
  <1> QED BY Zenon, <1>1, OutstandingIs

\* A step that ends no request.
LEMMA SilentStep ==
  ASSUME IInv, NEW u \in Peers, NEW n \in Connection, conn' = [conn EXCEPT ![u] = n],
         n.current = conn[u].current, n.queue = conn[u].queue, n.op = conn[u].op,
         UNCHANGED <<received, pending, lot, answered, failed>>,
         unapplied' \subseteq unapplied, late \subseteq late', late' \subseteq Peers,
         Timely(u)' => LoopInv(n),
         u = Partner /\ u \notin late' => StreamInv(n, unapplied')
  PROVE  IInv'
  <1>1. QueueInv(u, n, received)
    BY DEF IInv, ConnInv, QueueInv
  <1>2. conn' \in [Peers -> Connection] /\ \A v \in Peers : ConnInv(v)'
    BY Zenon, <1>1, OnePeer
  <1>3. ServerTyped'
    BY Zenon, <1>2 DEF IInv, ServerTyped
  <1>4. \A r : Has(n, r) <=> Has(conn[u], r)
    BY Zenon DEF Has
  <1>5. \A q : Outstanding(q)' = Outstanding(q)
    BY Zenon, <1>4, OutstandingKept DEF IInv, ServerTyped
  <1>6. PacketsInv'
    BY Zenon, <1>5, PacketsKept DEF IInv
  <1> QED BY Zenon, <1>2, <1>3, <1>6 DEF IInv

\* The update in progress at u ends, and the connection becomes n.
EndsAt(u, n, r) ==
    /\ conn \in [Peers -> Connection] /\ conn' = [conn EXCEPT ![u] = n]
    /\ r \in Updates /\ r = conn[u].current /\ r[2] = u
    /\ \A s \in Updates : Has(n, s) <=> Has(conn[u], s) /\ s # r

LEMMA OutstandingEnds ==
  ASSUME NEW u \in Peers, NEW n, NEW r, EndsAt(u, n, r)
  PROVE  /\ r \in Outstanding(r[1]) /\ Outstanding(r[1])' = Outstanding(r[1]) \ {r}
         /\ \A q : q # r[1] => Outstanding(q)' = Outstanding(q)
  <1>0. /\ conn \in [Peers -> Connection] /\ conn' = [conn EXCEPT ![u] = n]
        /\ r \in Updates /\ r = conn[u].current /\ r[2] = u
        /\ \A s \in Updates : Has(n, s) <=> Has(conn[u], s) /\ s # r
    BY Zenon DEF EndsAt
  <1> USE <1>0
  <1>1. \A s \in Updates : s[2] \in Peers
    BY Zenon, UpdateIs
  <1>2. \A s \in Updates : Has(conn'[s[2]], s) <=> Has(conn[s[2]], s) /\ s # r
    BY Zenon, <1>1
  <1>3. Has(conn[r[2]], r)
    BY Zenon DEF Has
  <1>4. r \in Outstanding(r[1])
    BY <1>3, OutstandingIs
  <1>5. \A s : s \in Outstanding(r[1])' <=> s \in Outstanding(r[1]) \ {r}
    BY <1>2, OutstandingIs
  <1>6. ASSUME NEW q, q # r[1] PROVE Outstanding(q)' = Outstanding(q)
    <2>1. \A s : s \in Outstanding(q)' <=> s \in Outstanding(q)
      BY <1>2, <1>6, OutstandingIs
    <2> QED BY Zenon, <2>1, OutstandingIs
  <1>7. Outstanding(r[1])' = Outstanding(r[1]) \ {r}
    BY Zenon, <1>5, OutstandingIs
  <1> QED BY Zenon, <1>4, <1>6, <1>7

LEMMA RunKeeps ==
  ASSUME IInv, NEW u \in Peers, RunCompletion(u)
  PROVE  IInv'
  <1> DEFINE c == conn[u]
             b == RunHead(c)
             n == b.conn
             ends == b.ends
             result == b.result
  <1>0. conn \in [Peers -> Connection] /\ ServerTyped /\ PacketsInv
    BY Zenon DEF IInv, ServerTyped
  <1>1. /\ c \in Connection /\ QueueInv(u, c, received) /\ (Timely(u) => LoopInv(c))
        /\ u = Partner /\ u \notin late => StreamInv(c, unapplied)
    BY Zenon, <1>0 DEF IInv, ConnInv
  <1>2. Runnable(c)
    BY Zenon, <1>1 DEF RunCompletion, Runnable, What, QueueInv
  <1>3. /\ conn' = [conn EXCEPT ![u] = n]
        /\ ends = NoRequest => UNCHANGED <<lot, answered, failed, pending>>
        /\ ends # NoRequest => UpdateCallback(ends, result)
        /\ UNCHANGED <<received, unapplied, late>>
    BY Zenon DEF RunCompletion, Runs
  <1> HIDE DEF c
  <1>4. PICK x \in Connection : Follows(c, x) /\ Turn(c, x, n, ends, result)
    BY Zenon, <1>1, <1>2, TurnIs
  <1> HIDE DEF b, n, ends, result
  <1>5. Moves(c, n, ends)
    BY Zenon, <1>1, <1>2, <1>4, TurnMoves
  <1>6. n \in Connection
    BY Zenon, <1>5 DEF Moves
  <1>7. /\ QueueInv(u, n, received)
        /\ ends = NoRequest => \A r : Has(n, r) <=> Has(c, r)
        /\ ends # NoRequest =>
              /\ ends = c.current /\ ends \in Request
              /\ \A r \in Request : Has(n, r) <=> Has(c, r) /\ r # ends
    BY Zenon, <1>1, <1>5, QueueMoves
  <1>8. Timely(u) => LoopInv(n)
    BY Zenon, <1>1, <1>2, <1>4, LoopTurn
  <1>9. u = Partner /\ u \notin late =>
           /\ StreamInv(n, unapplied)
           /\ ends # NoRequest /\ result = "ok" => c.current \notin unapplied
    <2>1. u \notin late => Timely(u)
      BY Zenon DEF Timely
    <2> QED BY SMTT(30), <1>1, <1>2, <1>4, <2>1, StreamTurn
  <1>10. Timely(u)' => Timely(u)
    BY Zenon, <1>3 DEF Timely
  <1>11. conn' \in [Peers -> Connection] /\ \A v \in Peers : ConnInv(v)'
    BY Zenon, <1>3, <1>6, <1>7, <1>8, <1>9, <1>10, OnePeer
  <1>12. CASE ends = NoRequest
    <2>1. \A r : Has(n, r) <=> Has(conn[u], r)
      BY Zenon, <1>7, <1>12 DEF c
    <2>2. \A q : Outstanding(q)' = Outstanding(q)
      BY Zenon, <1>0, <1>3, <2>1, OutstandingKept
    <2>3. PacketsInv'
      BY Zenon, <1>0, <1>3, <1>12, <2>2, PacketsKept
    <2>4. ServerTyped'
      BY Zenon, <1>0, <1>3, <1>11, <1>12 DEF ServerTyped
    <2> QED BY Zenon, <1>11, <2>3, <2>4 DEF IInv
  <1>13. CASE ends # NoRequest
    <2>0. PICK r : r = ends
      BY Zenon
    <2>1. r \in Updates /\ r = conn[u].current /\ r[2] = u
      BY Zenon, <1>1, <1>7, <1>13, <2>0, UpdatesAssumption DEF c, QueueInv
    <2>2. \A s \in Updates : Has(n, s) <=> Has(conn[u], s) /\ s # r
      BY Zenon, <1>7, <1>13, <2>0, UpdatesAssumption DEF c
    <2>3. /\ r \in Outstanding(r[1]) /\ Outstanding(r[1])' = Outstanding(r[1]) \ {r}
          /\ \A q : q # r[1] => Outstanding(q)' = Outstanding(q)
      <3>1. EndsAt(u, n, r)
        BY Zenon, <1>0, <1>3, <2>1, <2>2 DEF EndsAt
      <3> QED BY Zenon, <3>1, OutstandingEnds
    <2>4. Partner \notin late /\ r \in unapplied => result # "ok"
      <3>1. r \in unapplied => u = Partner
        BY Zenon, <1>0, <2>1 DEF PacketsInv, UnappliedInv
      <3> QED BY Zenon, <1>7, <1>9, <1>13, <2>0, <3>1
    <2>5. UpdateCallback(r, result)
      BY Zenon, <1>3, <1>13, <2>0
    <2>6. PacketsInv' /\ (conn' \in [Peers -> Connection] => ServerTyped')
      BY Zenon, <1>0, <1>3, <2>1, <2>3, <2>4, <2>5, CallbackPackets
    <2> QED BY Zenon, <1>11, <2>6 DEF IInv
  <1> QED BY Zenon, <1>12, <1>13

\* What holds of one connection.
LEMMA ConnIs ==
  ASSUME IInv, NEW u \in Peers
  PROVE  /\ conn \in [Peers -> Connection] /\ conn[u] \in Connection /\ late \subseteq Peers
         /\ QueueInv(u, conn[u], received) /\ (Timely(u) => LoopInv(conn[u]))
         /\ u \notin late => Timely(u) /\ (u = Partner => StreamInv(conn[u], unapplied))
  BY Zenon DEF IInv, ConnInv, ServerTyped, Timely

LEMMA ReadyKeeps ==
  ASSUME IInv, NEW u \in Peers, SocketReady(u)
  PROVE  IInv'
  <1> DEFINE c == conn[u]
             n == Complete(c, "ready", <<>>)
  <1>1. /\ c \in Connection /\ late \subseteq Peers /\ (Timely(u) => LoopInv(c))
        /\ u \notin late => Timely(u) /\ (u = Partner => StreamInv(c, unapplied))
    BY Zenon, ConnIs
  <1>2. /\ IsReady(c) /\ conn' = [conn EXCEPT ![u] = n]
        /\ UNCHANGED <<received, pending, lot, answered, failed, unapplied, late>>
        /\ \A i \in DOMAIN c.done : c.done[i].what # "ready"
    BY Zenon DEF SocketReady, Queued
  <1>3. c.done \in Seq(Completion)
    BY Zenon, <1>1 DEF Connection
  <1>4. \A i \in 1..Len(c.done) : c.done[i].what # "ready"
    BY <1>2, <1>3
  <1>5. Noticed(c, "ready", n) /\ n.socket = c.socket /\ n.timer = c.timer
    BY Zenon, <1>1, NoticeFields
  <1> HIDE DEF n
  <1>6. n \in Connection /\ n.current = c.current /\ n.queue = c.queue /\ n.op = c.op
    BY Zenon, <1>5 DEF Noticed
  <1> HIDE DEF c
  <1>7. LoopInv(c) => LoopInv(n)
    BY Zenon, <1>1, <1>2, <1>4, <1>5, LoopNotices
  <1>8. LoopInv(c) /\ StreamInv(c, unapplied) => StreamInv(n, unapplied)
    BY Zenon, <1>1, <1>2, <1>5, StreamNotices
  <1>9. Timely(u)' => Timely(u)
    BY Zenon, <1>2 DEF Timely
  <1>10. n.current = conn[u].current /\ n.queue = conn[u].queue /\ n.op = conn[u].op
    BY Zenon, <1>6 DEF c
  <1>11. u = Partner /\ u \notin late' => StreamInv(n, unapplied')
    BY Zenon, <1>1, <1>2, <1>8
  <1>12. late \subseteq late' /\ late' \subseteq Peers /\ unapplied' \subseteq unapplied
    BY Zenon, <1>1, <1>2
  <1> QED BY Zenon, <1>1, <1>2, <1>6, <1>7, <1>9, <1>10, <1>11, <1>12, SilentStep

LEMMA ExpireKeeps ==
  ASSUME IInv, NEW u \in Peers, Expire(u)
  PROVE  IInv'
  <1> DEFINE c == conn[u]
             n == Expired(c)
  <1>1. c \in Connection /\ late \subseteq Peers /\ (Timely(u) => LoopInv(c))
    BY Zenon, ConnIs
  <1>2. /\ c.timer = "on" /\ conn' = [conn EXCEPT ![u] = n] /\ late' = late \cup {u}
        /\ UNCHANGED <<received, pending, lot, answered, failed, unapplied>>
        /\ \/ \A i \in DOMAIN c.done : c.done[i].what = "ready"
           \/ "blocked" \in Faults[u]
    BY Zenon DEF Expire, Queued
  <1>3. c.done \in Seq(Completion)
    BY Zenon, <1>1 DEF Connection
  <1>4. (\A i \in 1..Len(c.done) : c.done[i].what = "ready") \/ "blocked" \in Faults[u]
    BY SMTT(30), <1>2, <1>3
  <1>5. Noticed(c, "timer", n) /\ n.socket = c.socket /\ n.timer = "expired"
    BY Zenon, <1>1, ExpiredFields
  <1> HIDE DEF n
  <1>6. n \in Connection /\ n.current = c.current /\ n.queue = c.queue /\ n.op = c.op
    BY Zenon, <1>5 DEF Noticed
  <1> HIDE DEF c
  <1>7. LoopInv(c) /\ "blocked" \notin Faults[u] => LoopInv(n)
    BY Zenon, <1>1, <1>2, <1>4, <1>5, LoopNotices
  <1>8. Timely(u)' => "blocked" \notin Faults[u] /\ Timely(u)
    BY Zenon, <1>2 DEF Timely
  <1>10. n.current = conn[u].current /\ n.queue = conn[u].queue /\ n.op = conn[u].op
    BY Zenon, <1>6 DEF c
  <1>11. u \in late' /\ late \subseteq late' /\ late' \subseteq Peers /\ unapplied' \subseteq unapplied
    BY Zenon, <1>1, <1>2
  <1> QED BY Zenon, <1>1, <1>2, <1>6, <1>7, <1>8, <1>10, <1>11, SilentStep

LEMMA ConnectKeeps ==
  ASSUME IInv, NEW u \in Peers, Connected(u) \/ ConnectFails(u)
  PROVE  IInv'
  <1>1. PICK socket \in {"connected", "broken"} :
           conn' = [conn EXCEPT ![u] = Complete([conn[u] EXCEPT !.socket = socket], "ready", <<>>)]
    BY Zenon DEF Connected, ConnectFails
  <1> DEFINE c == conn[u]
             n == Complete([c EXCEPT !.socket = socket], "ready", <<>>)
  <1>2. /\ c \in Connection /\ late \subseteq Peers /\ (Timely(u) => LoopInv(c))
        /\ u \notin late => Timely(u) /\ (u = Partner => StreamInv(c, unapplied))
    BY Zenon, ConnIs
  <1>3. /\ c.socket = "connecting" /\ conn' = [conn EXCEPT ![u] = n]
        /\ UNCHANGED <<received, pending, lot, answered, failed, unapplied, late>>
    BY Zenon, <1>1 DEF Connected, ConnectFails
  <1>4. Noticed(c, "ready", n) /\ n.socket = socket /\ n.timer = c.timer
    BY Zenon, <1>2, ConnectedFields
  <1> HIDE DEF n
  <1>5. n \in Connection /\ n.current = c.current /\ n.queue = c.queue /\ n.op = c.op
    BY Zenon, <1>4 DEF Noticed
  <1> HIDE DEF c
  <1>6. LoopInv(c) => LoopInv(n)
    BY Zenon, <1>2, <1>3, <1>4, LoopNotices
  <1>7. LoopInv(c) /\ StreamInv(c, unapplied) => StreamInv(n, unapplied)
    BY Zenon, <1>2, <1>3, <1>4, StreamNotices
  <1>8. Timely(u)' => Timely(u)
    BY Zenon, <1>3 DEF Timely
  <1>9. n.current = conn[u].current /\ n.queue = conn[u].queue /\ n.op = conn[u].op
    BY Zenon, <1>5 DEF c
  <1>10. u = Partner /\ u \notin late' => StreamInv(n, unapplied')
    BY Zenon, <1>2, <1>3, <1>7
  <1>11. late \subseteq late' /\ late' \subseteq Peers /\ unapplied' \subseteq unapplied
    BY Zenon, <1>2, <1>3
  <1> QED BY Zenon, <1>2, <1>3, <1>5, <1>6, <1>8, <1>9, <1>10, <1>11, SilentStep

LEMMA ServeKeeps ==
  ASSUME IInv, NEW u \in Peers, Serve(u)
  PROVE  IInv'
  <1> DEFINE c == conn[u]
             h == Head(c.server)
             rest == IF h[2] = Parts THEN Tail(c.server) ELSE <<<<h[1], h[2] + 1>>>> \o Tail(c.server)
  <1>1. /\ conn \in [Peers -> Connection] /\ c \in Connection /\ late \subseteq Peers
        /\ Timely(u) => LoopInv(c)
        /\ u \notin late => Timely(u) /\ (u = Partner => StreamInv(c, unapplied))
    BY Zenon, ConnIs
  <1>2. c.server # <<>> /\ UNCHANGED <<received, pending, lot, answered, failed, late>>
    BY Zenon DEF Serve
  <1>3. PICK result \in {"ok", "error"} :
           /\ conn' = [conn EXCEPT ![u].server = rest, ![u].input = Append(@, PieceOf(c, result))]
           /\ unapplied' = IF h[2] = Parts /\ result = "ok" THEN unapplied \ {h[1]} ELSE unapplied
    BY Zenon DEF Serve, PieceOf
  <1> DEFINE input == Append(c.input, PieceOf(c, result))
             n == [c EXCEPT !.server = rest, !.input = input]
             less == IF h[2] = Parts /\ result = "ok" THEN unapplied \ {h[1]} ELSE unapplied
  <1>4. input \in Pieces /\ rest \in Tosend
    BY Zenon, <1>1, <1>2, ServeTypes
  <1>5. conn' = [conn EXCEPT ![u] = n]
    BY Zenon, <1>1, <1>3
  <1>6. Served(c, n, result)
    <2> HIDE DEF rest, input
    <2>1. n \in Connection
      BY Zenon, <1>1, <1>4, ConnectionFields
    <2>2. /\ n.server = rest /\ n.input = input /\ n.socket = c.socket /\ n.current = c.current
          /\ n.queue = c.queue /\ n.op = c.op /\ n.done = c.done /\ n.timer = c.timer
          /\ n.parsed = c.parsed
      BY Zenon, <1>1, ConnectionFields
    <2> QED BY Zenon, <2>1, <2>2 DEF Served, rest, input
  <1>7. unapplied' = less
    BY Zenon, <1>3
  <1> HIDE DEF n
  <1>8. /\ n \in Connection /\ n.current = c.current /\ n.queue = c.queue /\ n.op = c.op
        /\ n.done = c.done /\ n.timer = c.timer /\ n.socket = c.socket
    BY Zenon, <1>6 DEF Served
  <1>9. LoopInv(c) => LoopInv(n)
    <2>1. LoopInv(c) => n.socket = "connected"
      BY Zenon, <1>2, <1>8 DEF LoopInv
    <2> QED BY Zenon, <1>8, <2>1, LoopSame
  <1>10. StreamInv(c, unapplied) => StreamInv(n, less)
    BY Zenon, <1>1, <1>2, <1>6, StreamServes
  <1> HIDE DEF less
  <1>11. Timely(u)' => Timely(u)
    BY Zenon, <1>2 DEF Timely
  <1>12. u = Partner /\ u \notin late' => StreamInv(n, unapplied')
    BY Zenon, <1>1, <1>2, <1>7, <1>10
  <1>13. late \subseteq late' /\ late' \subseteq Peers /\ unapplied' \subseteq unapplied
    BY Zenon, <1>1, <1>2, <1>7 DEF less
  <1> QED BY Zenon, <1>1, <1>2, <1>5, <1>8, <1>9, <1>11, <1>12, <1>13, SilentStep

LEMMA CloseKeeps ==
  ASSUME IInv, NEW u \in Peers, PeerCloses(u)
  PROVE  IInv'
  <1> DEFINE c == conn[u]
             n == [c EXCEPT !.socket = "broken", !.server = <<>>, !.input = <<>>]
  <1>1. /\ conn \in [Peers -> Connection] /\ c \in Connection /\ late \subseteq Peers
        /\ Timely(u) => LoopInv(c)
        /\ u \notin late => Timely(u) /\ (u = Partner => StreamInv(c, unapplied))
    BY Zenon, ConnIs
  <1>2. /\ c.socket = "connected"
        /\ UNCHANGED <<received, pending, lot, answered, failed, unapplied, late>>
    BY Zenon DEF PeerCloses, isUsable
  <1>3. conn' = [conn EXCEPT ![u] = n]
    BY Zenon, <1>1 DEF PeerCloses
  <1>4. n \in Connection
    BY Zenon, <1>1, ConnectionFields, EmptyFields
  <1>5. /\ n.server = <<>> /\ n.input = <<>> /\ n.socket = "broken" /\ n.current = c.current
        /\ n.queue = c.queue /\ n.op = c.op /\ n.done = c.done /\ n.timer = c.timer
        /\ n.parsed = c.parsed
    BY Zenon, <1>1, ConnectionFields
  <1> HIDE DEF n
  <1>6. LoopInv(c) => LoopInv(n)
    BY Zenon, <1>2, <1>5, LoopCloses
  <1>7. StreamInv(c, unapplied) => StreamInv(n, unapplied)
    BY Zenon, <1>1, <1>5, StreamCloses
  <1>8. Timely(u)' => Timely(u)
    BY Zenon, <1>2 DEF Timely
  <1>9. u = Partner /\ u \notin late' => StreamInv(n, unapplied')
    BY Zenon, <1>1, <1>2, <1>7
  <1>10. late \subseteq late' /\ late' \subseteq Peers /\ unapplied' \subseteq unapplied
    BY Zenon, <1>1, <1>2
  <1> QED BY Zenon, <1>1, <1>2, <1>3, <1>4, <1>5, <1>6, <1>8, <1>9, <1>10, SilentStep

\* More packets have been received.
LEMMA QueueOfMore ==
  ASSUME NEW u, NEW c, NEW queries, NEW more, queries \subseteq more, QueueInv(u, c, queries)
  PROVE  QueueInv(u, c, more)
  BY Zenon DEF QueueInv

LEMMA DropKeeps ==
  ASSUME IInv, NEW q \in Queries, dropPacket(q)
  PROVE  IInv'
  <1>1. /\ received' = received \cup {q}
        /\ UNCHANGED <<conn, pending, lot, answered, failed, unapplied, late>>
    BY Zenon DEF dropPacket
  <1>2. ServerTyped'
    BY Zenon, <1>1 DEF IInv, ServerTyped
  <1>3. ASSUME NEW u \in Peers PROVE ConnInv(u)'
    <2>1. /\ QueueInv(u, conn[u], received) /\ (Timely(u) => LoopInv(conn[u]))
          /\ u = Partner /\ u \notin late => StreamInv(conn[u], unapplied)
      BY Zenon DEF IInv, ConnInv
    <2>2. QueueInv(u, conn[u], received')
      BY Zenon, <1>1, <2>1, QueueOfMore
    <2>3. Timely(u)' <=> Timely(u)
      BY Zenon, <1>1 DEF Timely
    <2> QED BY Zenon, <1>1, <2>1, <2>2, <2>3 DEF ConnInv
  <1>4. \A p : Outstanding(p)' = Outstanding(p)
    BY Zenon, <1>1 DEF Outstanding
  <1>5. PacketsInv'
    BY ZenonT(30), <1>1, <1>4, DropPackets DEF IInv
  <1> QED BY Zenon, <1>2, <1>3, <1>5 DEF IInv

\* The service switch is of no concern to the packets that have been received.
LEMMA SwitchKeeps ==
  ASSUME IInv, UNCHANGED updateVars
  PROVE  IInv'
  BY DEF updateVars, IInv, ServerTyped, ConnInv, Timely, PacketsInv, PacketInv, UnappliedInv,
         PendingIsOutstanding, ParkedIsPending, FailedIsDropped, Outstanding

\* The connection to a peer when a packet's updates are sent.
\* What a connection n is like after the updates of a packet have been queued at the peers.
Grown(u, n, q, k, peers, new) ==
    /\ n \in Connection /\ QueueInv(u, n, received \cup {q}) /\ (Timely(u) => LoopInv(n))
    /\ u = Partner /\ u \notin late => StreamInv(n, unapplied \cup new)
    /\ \A r \in Updates :
          Has(n, r) <=> Has(conn[u], r) \/ (u \in peers /\ r \in Range(UpdatesFor(q, k, u)))
    /\ \A r \in Updates : r[1] = q => ~Has(conn[u], r)

NewUpdates(q, new) == \A r \in new : r[1] = q /\ r \in Updates

LEMMA ConnGrows ==
  ASSUME IInv, NEW q \in Queries, q \notin received, NEW k \in Kinds, NEW u \in Peers, NEW n,
         NEW new, NEW peers,
         n = IF u \in peers THEN queueRequests(conn[u], UpdatesFor(q, k, u)) ELSE conn[u],
         NewUpdates(q, new)
  PROVE  Grown(u, n, q, k, peers, new)
  <1> DEFINE c == conn[u]
             requests == UpdatesFor(q, k, u)
             lacking == unapplied \cup new
             more == received \cup {q}
             sent == u \in peers
  <1>0. \A r \in new : r[1] = q /\ r \in Updates
    BY Zenon DEF NewUpdates
  <1>1. /\ c \in Connection /\ QueueInv(u, c, received) /\ (Timely(u) => LoopInv(c))
        /\ u \notin late => Timely(u) /\ (u = Partner => StreamInv(c, unapplied))
    BY Zenon, ConnIs
  <1>2. requests \in Seq(Request) /\ IsInjective(requests)
        /\ Range(requests) = {<<q, u, change>> : change \in Range(Changes(k))}
    BY ZenonT(30), UpdatesForAre
  <1>3. ASSUME NEW r \in Range(requests) PROVE r[1] = q /\ r[2] = u
    <2>1. PICK change : r = <<q, u, change>>
      BY Zenon, <1>2
    <2> QED BY Zenon, <2>1
  <1>4. sent => n = queueRequests(c, requests)
    BY Zenon
  <1>5. ~sent => n = c
    BY Zenon
  <1> HIDE DEF c, requests
  <1>6. sent => Enqueued(c, requests, n)
    BY Zenon, <1>1, <1>2, <1>4, QueueFields
  <1>7. c.current \notin new
    BY Zenon, <1>0, <1>1, RequestIsSome, UpdatesAssumption DEF QueueInv
  <1>8. StreamInv(c, unapplied) => StreamInv(c, lacking)
    BY Zenon, <1>7, StreamGrows
  <1>9. QueueInv(u, c, more)
    BY Zenon, <1>1, QueueOfMore
  <1>10. ~sent => n \in Connection /\ QueueInv(u, n, more) /\ (Timely(u) => LoopInv(n))
                  /\ (u = Partner /\ u \notin late => StreamInv(n, lacking))
                  /\ \A r \in Updates : Has(n, r) <=> Has(c, r)
    BY Zenon, <1>1, <1>5, <1>8, <1>9
  <1>11. ASSUME sent
         PROVE  /\ n \in Connection /\ QueueInv(u, n, more) /\ (Timely(u) => LoopInv(n))
                /\ u = Partner /\ u \notin late => StreamInv(n, lacking)
                /\ \A r \in Updates : Has(n, r) <=> Has(c, r) \/ r \in Range(requests)
    <2> HIDE DEF lacking
    <2>1. n \in Connection
      BY ZenonT(30), <1>6, <1>11 DEF Enqueued
    <2>2. QueueInv(u, n, more) /\ \A r \in Request : Has(n, r) <=> Has(c, r) \/ r \in Range(requests)
      BY SMTT(30), <1>1, <1>2, <1>3, <1>6, <1>11, QueueGrows
    <2>3. LoopInv(c) => LoopInv(n)
      BY Zenon, <1>1, <1>2, <1>6, <1>11, LoopQueues
    <2>4. LoopInv(c) /\ StreamInv(c, lacking) => StreamInv(n, lacking)
      BY Zenon, <1>1, <1>2, <1>6, <1>11, StreamQueues
    <2>5. u = Partner /\ u \notin late => StreamInv(n, lacking)
      BY Zenon, <1>1, <1>8, <2>4
    <2> QED BY Zenon, <1>1, <2>1, <2>2, <2>3, <2>5, UpdatesAssumption
  <1>12. \A r \in Updates : r[1] = q => ~Has(c, r)
    BY Zenon, <1>1, RequestIsSome, UpdatesAssumption DEF QueueInv, Has
  <1> QED BY Zenon, <1>10, <1>11, <1>12 DEF Grown, c, requests

LEMMA ProcessKeeps ==
  ASSUME IInv, NEW q \in Queries, NEW k \in Kinds, NEW state \in HaStates, processPacket(q, k, state)
  PROVE  IInv'
  <1> DEFINE peers == {u \in Peers : shouldSendLeaseUpdates(u, state) /\ Changes(k) # <<>>}
             changes == Range(Changes(k))
             new == {<<q, u, change>> : u \in peers \cap {Partner}, change \in changes}
  <1>1. /\ q \notin received /\ received' = received \cup {q} /\ unapplied' = unapplied \cup new
        /\ conn' = [u \in Peers |-> IF u \in peers
                                    THEN queueRequests(conn[u], UpdatesFor(q, k, u)) ELSE conn[u]]
        /\ pending' = [pending EXCEPT
              ![q] = IF peers = {} THEN -1 ELSE Cardinality(peers) * Len(Changes(k))]
        /\ \/ peers = {} /\ answered' = answered \cup {r \in {q} : Responds(k)} /\ lot' = lot
           \/ /\ peers # {} /\ answered' = answered
              /\ lot' = [lot EXCEPT ![q] = IF Responds(k) THEN "parked" ELSE "referenced"]
        /\ UNCHANGED <<failed, late>>
    BY SMTT(30) DEF processPacket, asyncSendLeaseUpdates
  <1>2. peers \in SUBSET Peers /\ (peers # {} => Changes(k) # <<>>)
    BY Zenon
  <1> HIDE DEF peers
  <1>3. changes \subseteq {"delete", "update"}
    <2>1. Changes(k) \in Seq({"delete", "update"})
      BY Zenon, ChangesAre
    <2>2. \A r \in changes : r \in {"delete", "update"}
      BY <2>1 DEF Range
    <2> QED BY Zenon, <2>2
  <1> HIDE DEF changes
  <1>4. \A r \in new : r[1] = q /\ r \in Updates
    BY <1>2, <1>3 DEF Updates
  <1> HIDE DEF new
  <1>5. ASSUME NEW u \in Peers
        PROVE  /\ conn'[u] \in Connection /\ QueueInv(u, conn'[u], received \cup {q})
               /\ Timely(u) => LoopInv(conn'[u])
               /\ u = Partner /\ u \notin late => StreamInv(conn'[u], unapplied \cup new)
               /\ \A r \in Updates :
                     Has(conn'[u], r) <=> Has(conn[u], r) \/ (u \in peers /\ r \in Range(UpdatesFor(q, k, u)))
               /\ \A r \in Updates : r[1] = q => ~Has(conn[u], r)
    <2> DEFINE n == conn'[u]
    <2>1. n = IF u \in peers THEN queueRequests(conn[u], UpdatesFor(q, k, u)) ELSE conn[u]
      BY Zenon, <1>1
    <2> HIDE DEF n
    <2>2. NewUpdates(q, new)
      BY Zenon, <1>4 DEF NewUpdates
    <2>3. q \notin received
      BY Zenon, <1>1
    <2>4. Grown(u, n, q, k, peers, new)
      BY Zenon, <2>1, <2>2, <2>3, ConnGrows
    <2> QED BY Zenon, <2>4 DEF n, Grown
  <1>6. conn' \in [Peers -> Connection]
    BY Zenon, <1>1, <1>5
  <1>7. \A u \in Peers : ConnInv(u)'
    <2> TAKE u \in Peers
    <2>1. Timely(u)' => Timely(u)
      BY Zenon, <1>1 DEF Timely
    <2>2. QueueInv(u, conn'[u], received')
      BY Zenon, <1>1, <1>5
    <2>3. u = Partner /\ u \notin late' => StreamInv(conn'[u], unapplied')
      BY Zenon, <1>1, <1>5
    <2> QED BY Zenon, <1>5, <2>1, <2>2, <2>3 DEF ConnInv
  <1>8. \A r \in Updates : r[2] \in Peers
    BY Zenon, UpdateIs
  <1>9. Outstanding(q)' = UpdatesOf(q, peers, changes)
    <2>1. ASSUME NEW r \in Updates, r[1] = q, Has(conn'[r[2]], r) PROVE r \in UpdatesOf(q, peers, changes)
      <3>1. r[2] \in Peers
        BY Zenon, <1>8
      <3>2. r[2] \in peers /\ r \in Range(UpdatesFor(q, k, r[2]))
        BY Zenon, <1>5, <2>1, <3>1
      <3>3. Range(UpdatesFor(q, k, r[2])) = {<<q, r[2], change>> : change \in changes}
        BY Zenon, <3>1, UpdatesForAre DEF changes
      <3> QED BY <3>2, <3>3 DEF UpdatesOf
    <2>2. ASSUME NEW u \in peers, NEW change \in changes
          PROVE  /\ <<q, u, change>> \in Updates
                 /\ Has(conn'[u], <<q, u, change>>)
      <3>1. u \in Peers
        BY Zenon, <1>2
      <3>2. Range(UpdatesFor(q, k, u)) = {<<q, u, x>> : x \in changes}
        BY Zenon, <3>1, UpdatesForAre DEF changes
      <3>3. <<q, u, change>> \in Updates
        BY Zenon, <1>3, <3>1 DEF Updates
      <3>4. <<q, u, change>> \in Range(UpdatesFor(q, k, u))
        BY ZenonT(30), <3>2
      <3> QED BY Zenon, <1>5, <3>1, <3>3, <3>4
    <2>3. \A r \in UpdatesOf(q, peers, changes) : r \in Updates /\ r[1] = q /\ Has(conn'[r[2]], r)
      BY <2>2 DEF UpdatesOf
    <2>4. Outstanding(q)' = {r \in Updates : r[1] = q /\ Has(conn'[r[2]], r)}
      BY Zenon, OutstandingIs
    <2> QED BY ZenonT(30), <2>1, <2>3, <2>4
  <1>10. ASSUME NEW p, p # q PROVE Outstanding(p)' = Outstanding(p)
    <2>1. \A r \in Updates : r[1] = p => (Has(conn'[r[2]], r) <=> Has(conn[r[2]], r))
      <3> SUFFICES ASSUME NEW r \in Updates, r[1] = p
                   PROVE  Has(conn'[r[2]], r) <=> Has(conn[r[2]], r)
        BY Zenon
      <3>1. Range(UpdatesFor(q, k, r[2])) = {<<q, r[2], x>> : x \in changes}
        BY Zenon, <1>8, UpdatesForAre DEF changes
      <3>2. r \notin Range(UpdatesFor(q, k, r[2]))
        BY <1>10, <3>1
      <3> QED BY Zenon, <1>5, <1>8, <3>2
    <2> QED BY Zenon, <2>1, OutstandingIs
  <1>11. PacketsInv' /\ (conn' \in [Peers -> Connection] => ServerTyped')
    <2>1. Admitted(q, k, peers)
      BY <1>1 DEF Admitted, new, changes
    <2> QED BY Zenon, <1>1, <1>2, <1>9, <1>10, <2>1, NewPackets DEF IInv, changes
  <1> QED BY Zenon, <1>6, <1>7, <1>11 DEF IInv

LEMMA InitInv == ServerInit => IInv
  <1> SUFFICES ASSUME ServerInit PROVE IInv
    BY Zenon
  <1>1. Idle \in Connection
    BY Zenon, ConnectionFields, EmptyFields DEF Idle
  <1>2. /\ Idle.current = <<>> /\ Idle.queue = <<>> /\ Idle.op = "none" /\ Idle.done = <<>>
        /\ Idle.timer = "off" /\ Idle.socket = "closed" /\ Idle.server = <<>> /\ Idle.input = <<>>
        /\ Idle.parsed = 0
    BY Zenon DEF Idle, NoRequest
  <1>3. ServerTyped
    BY <1>1 DEF ServerInit, ServerTyped
  <1> HIDE DEF Idle
  <1>4. ASSUME NEW u \in Peers PROVE ConnInv(u)
    <2>1. conn[u] = Idle
      BY Zenon DEF ServerInit
    <2>2. QueueInv(u, Idle, received)
      BY Zenon, <1>2, EmptyIs DEF QueueInv, NoRequest
    <2>3. LoopInv(Idle)
      BY <1>2 DEF LoopInv, NoRequest
    <2>4. StreamInv(Idle, unapplied)
      BY <1>2 DEF StreamInv, Flow, Arriving, LastStep
    <2> QED BY Zenon, <2>1, <2>2, <2>3, <2>4 DEF ConnInv
  <1>5. \A q : Outstanding(q) = {}
    <2> TAKE q
    <2>1. ASSUME NEW r \in Updates PROVE ~Has(conn[r[2]], r)
      <3>1. conn[r[2]] = Idle
        BY Zenon, UpdateIs DEF ServerInit
      <3> QED BY Zenon, <1>2, <3>1, EmptyIs, RequestIsSome, UpdatesAssumption DEF Has, NoRequest
    <2> QED BY Zenon, <2>1, OutstandingIs
  <1>6. PacketsInv
    BY Zenon, <1>5, FS_EmptySet DEF ServerInit, PacketsInv, PacketInv, PendingIsOutstanding,
       ParkedIsPending, FailedIsDropped, UnappliedInv
  <1> QED BY Zenon, <1>3, <1>4, <1>6 DEF IInv

LEMMA StepInv == IInv /\ [ServerNext]_serverVars => IInv'
  <1> SUFFICES ASSUME IInv, [ServerNext]_serverVars PROVE IInv'
    BY Zenon
  <1>1. ASSUME NEW q \in Queries, dropPacket(q) PROVE IInv'
    BY Zenon, <1>1, DropKeeps
  <1>2. ASSUME NEW q \in Queries, NEW k \in Kinds, NEW state \in HaStates, processPacket(q, k, state)
        PROVE  IInv'
    BY Zenon, <1>2, ProcessKeeps
  <1>3. ASSUME NEW u \in Peers, EventLoop(u) PROVE IInv'
    BY Zenon, <1>3, RunKeeps, ReadyKeeps, ExpireKeeps, ConnectKeeps DEF EventLoop
  <1>4. ASSUME NEW u \in Peers, Serve(u) PROVE IInv'
    BY Zenon, <1>4, ServeKeeps
  <1>5. ASSUME NEW u \in Peers, PeerCloses(u) PROVE IInv'
    BY Zenon, <1>5, CloseKeeps
  <1>6. CASE UNCHANGED updateVars
    BY Zenon, <1>6, SwitchKeeps
  <1>7. CASE UNCHANGED serverVars
    <2>1. UNCHANGED updateVars
      BY Zenon, <1>7 DEF serverVars, updateVars
    <2> QED BY Zenon, <2>1, SwitchKeeps
  <1> QED BY Zenon, <1>1, <1>2, <1>3, <1>4, <1>5, <1>6, <1>7 DEF ServerNext

-----------------------------------------------------------------------------
(* What follows from the invariant. *)

\* pending_requests_ counts exactly the updates of a packet that are queued or under way:
\* each is called back once, through failures, timeouts, reconnections and late answers.
THEOREM UpdatesAreCounted == ServerSpec => []PendingIsOutstanding
  <1>1. IInv => PendingIsOutstanding
    BY Zenon DEF IInv, PacketsInv
  <1> QED BY <1>1, InitInv, StepInv, PTL DEF ServerSpec

\* The last update that is called back takes the packet out of the parking lot.
THEOREM ParkedPacketsWait == ServerSpec => []ParkedIsPending
  <1>1. IInv => ParkedIsPending
    BY Zenon DEF IInv, PacketsInv
  <1> QED BY <1>1, InitInv, StepInv, PTL DEF ServerSpec

\* A packet with an update that failed at the partner is dropped, and never answered,
\* whichever update is called back last.
THEOREM FailuresDrop == ServerSpec => []FailedIsDropped
  <1>1. IInv => FailedIsDropped
    BY Zenon DEF IInv, PacketsInv
  <1> QED BY <1>1, InitInv, StepInv, PTL DEF ServerSpec

\* A client is answered only when the partner has applied the updates it was sent for the
\* packet, as long as no request to the partner has timed out.
THEOREM AnswersAreApplied == ServerSpec => []AnsweredIsApplied
  <1>1. IInv => AnsweredIsApplied
    <2> SUFFICES ASSUME IInv, Partner \notin late, NEW r \in unapplied, r[1] \in answered
                 PROVE  FALSE
      BY Zenon DEF AnsweredIsApplied
    <2>1. r[1] \in Queries /\ (r \in Outstanding(r[1]) \/ r[1] \in failed)
      BY Zenon, UpdateIs DEF IInv, PacketsInv, UnappliedInv
    <2>2. Outstanding(r[1]) = {} /\ r[1] \notin failed
      BY Zenon, <2>1 DEF IInv, PacketsInv, PacketInv, FailedIsDropped
    <2> QED BY Zenon, <2>1, <2>2
  <1> QED BY <1>1, InitInv, StepInv, PTL DEF ServerSpec

\* No completion of one transaction runs in another, and no callback finds its transaction
\* gone, as long as the event loop is never blocked for as long as a timeout.
THEOREM CompletionsStayTogether ==
  ASSUME \A u \in Peers : "blocked" \notin Faults[u]
  PROVE  ServerSpec => []CompletionsAreCurrent
  <1>1. IInv => CompletionsAreCurrent
    <2> SUFFICES ASSUME IInv, NEW u \in Peers, NEW i \in DOMAIN conn[u].done
                 PROVE  \/ conn[u].done[i].of = conn[u].current
                        \/ conn[u].done[i].what = "ready"
                        \/ conn[u].done[i].what = "timer" /\ conn[u].timer = "off"
      BY Zenon DEF CompletionsAreCurrent
    <2> DEFINE c == conn[u]
    <2>1. c \in Connection /\ LoopInv(c)
      BY Zenon, ConnIs DEF Timely
    <2>2. c.done \in Seq(Completion)
      BY Zenon, <2>1 DEF Connection
    <2>3. i \in 1..Len(c.done) /\ c.done[i] \in Completion
      BY <2>2
    <2>4. c.done[i].what \in {"ready", "timer"} \cup Steps
      BY Zenon, <2>3 DEF Completion, Steps
    <2> HIDE DEF c
    <2>5. c.done[i].of = c.current \/ c.done[i].what = "ready"
          \/ (c.done[i].what = "timer" /\ c.timer = "off")
      BY Zenon, <2>1, <2>3, <2>4 DEF LoopInv
    <2> QED BY Zenon, <2>5 DEF c
  <1> QED BY <1>1, InitInv, StepInv, PTL DEF ServerSpec

\* A request in progress is about to be connected, has a callback queued, or has the timer
\* set, and queued requests have one in progress before them, as long as the event loop is
\* never blocked for as long as a timeout.
THEOREM RequestsAreNotStuck ==
  ASSUME \A u \in Peers : "blocked" \notin Faults[u]
  PROVE  ServerSpec => []TransactionsGoOn
  <1>1. IInv => TransactionsGoOn
    <2> SUFFICES ASSUME IInv, NEW u \in Peers
                 PROVE  /\ conn[u].current # NoRequest =>
                              \/ conn[u].op = "connect"
                              \/ conn[u].done # <<>>
                              \/ conn[u].op = "receive" /\ conn[u].timer = "on"
                        /\ conn[u].queue # <<>> => conn[u].current # NoRequest
      BY Zenon DEF TransactionsGoOn
    <2> DEFINE c == conn[u]
    <2>1. c \in Connection /\ LoopInv(c) /\ QueueInv(u, c, received)
      BY Zenon, ConnIs DEF Timely
    <2>2. c.op \in {"none", "connect", "receive"} /\ c.timer \in {"off", "on", "expired"}
      BY Zenon, <2>1 DEF Connection
    <2> HIDE DEF c
    <2>3. c.done = <<>> => Len(c.done) = 0
      BY SMTT(30)
    <2>4. c.current # NoRequest => c.op = "connect" \/ c.done # <<>> \/ (c.op = "receive" /\ c.timer = "on")
      BY <2>1, <2>2, <2>3 DEF LoopInv
    <2>5. c.queue # <<>> => c.current # NoRequest
      BY Zenon, <2>1 DEF QueueInv
    <2> QED BY Zenon, <2>4, <2>5 DEF c
  <1> QED BY <1>1, InitInv, StepInv, PTL DEF ServerSpec

-----------------------------------------------------------------------------
(* The service switch. *)

\* The interval of the timer is the period, when it can be counted at all.
LEMMA IntervalOf ==
  ASSUME NEW period \in Int, Valid(period)
  PROVE  /\ period * Millis \in Nat \ {0}
         /\ ((period % UintRange) * Millis) % UintRange = period * Millis
  <1>1. period \in Nat \ {0} /\ period * Millis \in Int /\ period * Millis < UintRange
    BY UintAssumption DEF Valid
  <1>2. period <= period * Millis
    BY <1>1, UintAssumption
  <1>3. period % UintRange = period
    BY <1>1, <1>2, UintAssumption
  <1>4. (period * Millis) % UintRange = period * Millis
    BY <1>1, <1>2, UintAssumption
  <1> QED BY <1>1, <1>2, <1>3, <1>4

\* As long as only valid periods are sent, a timed dhcp-disable is always undone in
\* time, whichever commands follow it and whatever the server processes meanwhile.
THEOREM ResumesInTime ==
  ASSUME \A period \in Periods : Valid(period)
  PROVE  ServerSpec => []ResumesWithinMaxPeriod
  <1> DEFINE Inv == TypeOK /\ ResumesWithinMaxPeriod
  <1>1. ServerInit => Inv
    BY DEF ServerInit, Init, TypeOK, ResumesWithinMaxPeriod, None
  <1>2. Inv /\ [ServerNext]_serverVars => Inv'
    <2> SUFFICES ASSUME Inv, [ServerNext]_serverVars PROVE Inv'
      BY Zenon
    <2>0. [Next]_vars
      <3>1. ASSUME NEW u \in Peers, EventLoop(u) PROVE UNCHANGED vars
        <4>1. CASE RunCompletion(u)
          BY Zenon, <4>1 DEF RunCompletion, Runs, updateVars, vars
        <4>2. CASE ~RunCompletion(u)
          BY Zenon, <3>1, <4>2 DEF EventLoop, SocketReady, Expire, Connected, ConnectFails
        <4> QED BY Zenon, <4>1, <4>2
      <3>2. ASSUME NEW u \in Peers, Serve(u) \/ PeerCloses(u) PROVE UNCHANGED vars
        BY Zenon, <3>2 DEF Serve, PeerCloses
      <3>3. ASSUME NEW q, dropPacket(q) PROVE UNCHANGED vars
        BY Zenon, <3>3 DEF dropPacket
      <3>4. ASSUME NEW q, NEW k, NEW state, processPacket(q, k, state) PROVE UNCHANGED vars
        BY Zenon, <3>4 DEF processPacket
      <3>5. serverVars' = serverVars => UNCHANGED vars
        BY Zenon DEF serverVars
      <3> QED BY Zenon, <3>1, <3>2, <3>3, <3>4, <3>5 DEF ServerNext
    <2>1. ASSUME NEW period \in Periods, dhcpDisableFor(period) PROVE Inv'
      <3>1. Valid(period) /\ period \in Int
        BY Zenon, UintAssumption
      <3>2. timer' = period * Millis /\ due' = period * Millis /\ period * Millis \in Nat \ {0}
        BY Zenon, <2>1, <3>1, IntervalOf DEF dhcpDisableFor, createTimer, Valid
      <3> QED BY <2>1, <3>1, <3>2
              DEF dhcpDisableFor, disableService, TypeOK, ResumesWithinMaxPeriod, Valid
    <2>2. CASE dhcpDisable
      BY Zenon, <2>2 DEF dhcpDisable, disableService, TypeOK, ResumesWithinMaxPeriod
    <2>3. CASE dhcpEnable
      BY <2>3 DEF dhcpEnable, enableService, TypeOK, ResumesWithinMaxPeriod, None
    <2>4. CASE Tick
      BY <2>4 DEF Tick, TypeOK, ResumesWithinMaxPeriod, None
    <2>5. CASE enableAll
      BY <2>5 DEF enableAll, enableService, TypeOK, ResumesWithinMaxPeriod, None
    <2>6. CASE UNCHANGED vars
      BY Zenon, <2>6 DEF vars, TypeOK, ResumesWithinMaxPeriod
    <2> QED BY Zenon, <2>1, <2>2, <2>3, <2>4, <2>5, <2>6, <2>0 DEF Next
  <1> QED BY <1>1, <1>2, PTL DEF ServerSpec
=============================================================================
