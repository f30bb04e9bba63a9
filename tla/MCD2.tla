-------------------------------- MODULE MCD2 --------------------------------
(* An instance of D2 for TLC: a client that gets and gives up an address, and *)
(* another one that claims the same name.                                   *)
EXTENDS D2

Ncr(chg, c, n, a, dirs) ==
    [chg |-> chg, client |-> c, fqdn |-> n, addr |-> a, dirs |-> dirs]

TwoClients == {Ncr("add", "c1", "n1", "a1", {"fwd", "rev"}),
               Ncr("remove", "c1", "n1", "a1", {"fwd", "rev"}),
               Ncr("add", "c2", "n1", "a2", {"fwd"})}
=============================================================================
