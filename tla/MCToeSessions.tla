---------------------------- MODULE MCToeSessions ----------------------------
(* Two tables of two slots, and keys that compete for all of them.          *)
EXTENDS ToeSessions

OneServer == {"s"}

MCKey == Server \X Port

PortAndHigh == {<<0, 1>>, <<1, 0>>}

TwoPorts == {<<0, 1>>, <<1, 1>>}

(* All keys meet in the second table and all but one in the first.         *)
MCHashValue == [k \in MCKey |-> [i \in 0..1 |-> IF i = 0 /\ k[2] = <<0, 1>> THEN 1 ELSE 0]]
==============================================================================
