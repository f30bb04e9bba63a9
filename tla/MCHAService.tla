---------------------------- MODULE MCHAService ----------------------------
(* Instances of HAService for TLC. *)
EXTENDS HAService, TLC

CONSTANTS p, q, b, c1, c2

Both == {p, q}
AllToPrimary == [c \in Clients |-> p]
Balanced == [c \in Clients |-> IF c = c1 THEN p ELSE q]
=============================================================================
