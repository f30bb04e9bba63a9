---------------------------- MODULE MCAllocEngine4 ----------------------------
(* An instance of AllocEngine4: two machines, one that sends no client       *)
(* identifier and one that does, and two pools, of two addresses and of one. *)
EXTENDS AllocEngine4

Client(m, hw, id) ==
    [machine |-> m, hw |-> hw, id |-> id, pools |-> DOMAIN Pools]

TwoMachines == {Client("m1", "h1", "none"), Client("m2", "h2", "i2")}

TwoPools == <<[lo |-> 1, hi |-> 2], [lo |-> 3, hi |-> 3]>>

\* The second machine gets no address of its own, or one that may be in use.
Reserve(a) == [hw \in HwAddrs |-> IF hw = "h2" THEN a ELSE Zero]

Reserved == {Reserve(a) : a \in {Zero, 1}}
=============================================================================
