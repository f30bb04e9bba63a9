------------------------------- MODULE MCDdns -------------------------------
(* Instances of Ddns for TLC. *)
EXTENDS Ddns

Ncr(chg, c, n, a, dirs) ==
    [chg |-> chg, client |-> c, fqdn |-> n, addr |-> a, dirs |-> dirs]

\* A client that gets an address and gives it up, as often as MaxRequests allows.
LeaseLife == {Ncr("add", "c1", "n1", "a1", {"fwd"}),
              Ncr("remove", "c1", "n1", "a1", {"fwd"})}

SmallQueues == {[enable |-> "on", max |-> 1], [enable |-> "on", max |-> 2],
                [enable |-> "off", max |-> 2]}
=============================================================================
