---------------------------- MODULE MCLeaseFiles ----------------------------
(* Instances of LeaseFiles for TLC. *)
EXTENDS LeaseFiles

CONSTANTS a1, a2, l1, l2, p1, p2
=============================================================================
