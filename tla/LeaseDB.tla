------------------------------- MODULE LeaseDB -------------------------------
(***************************************************************************)
(* What the lease database of a server promises: every change that the     *)
(* server has made is there when it starts again, and nothing else is.     *)
(* A server that cannot write its lease file any more goes on in memory.   *)
(***************************************************************************)
CONSTANTS Addrs, Leases, Nothing

VARIABLES
    durable,        \* the leases that a restart would find
    leases,         \* the leases that the server works with
    service         \* "down", "up", or "unsaved": up, but without persistence

vars == <<durable, leases, service>>

NoLeases == [a \in Addrs |-> Nothing]

Init == durable = NoLeases /\ leases = NoLeases /\ service = "down"

\* The server sets the leases of the addresses in S to one value, or removes them.
Change(S, value) ==
    LET Changed(db) == [a \in Addrs |-> IF a \in S THEN value ELSE db[a]]
    IN  /\ service \in {"up", "unsaved"}
        /\ leases' = Changed(leases)
        /\ durable' = IF service = "up" THEN Changed(durable) ELSE durable
        /\ UNCHANGED service

Start ==
    /\ service = "down"
    /\ service' = "up"
    /\ leases' = durable
    /\ UNCHANGED durable

Stop ==
    /\ service # "down"
    /\ service' = "down"
    /\ leases' = NoLeases
    /\ UNCHANGED durable

LosePersistence ==
    /\ service = "up"
    /\ service' = "unsaved"
    /\ UNCHANGED <<durable, leases>>

Next ==
    \/ \E S \in SUBSET Addrs, value \in Leases \union {Nothing} : Change(S, value)
    \/ Start
    \/ Stop
    \/ LosePersistence

Spec == Init /\ [][Next]_vars
=============================================================================
