--------------------------- MODULE MCLeaseUpdates ---------------------------
(* Instances of LeaseUpdates for TLC. *)
EXTENDS LeaseUpdates, TLC

CONSTANTS q1, q2, p, b

AllUpdates == Updates

\* The backup servers are slow, and nothing worse: how an update to one ends makes no difference.
PartnerFaults == [u \in Peers |-> IF u = Partner THEN {"timeout", "reset"} ELSE {}]

\* The packets are interchangeable.
Symmetry == Permutations(Queries)
=============================================================================
