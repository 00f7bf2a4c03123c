----------------------------- MODULE MCIcapPath -----------------------------
(***************************************************************************)
(* Instances of IcapPath for TLC: loads that end within a beat, at its end *)
(* and in the next one, of two slots, one after the other.                 *)
(***************************************************************************)
EXTENDS IcapPath

Load(slot, addr, size) ==
  [op |-> "RECONF_ICAP", slot |-> slot, addr |-> addr, size |-> size]

LoadCommands ==
  {Load(0, 0, 2), Load(0, 0, 4), Load(1, 4, 6),
   [op |-> "QUERY_STATUS", slot |-> 0, addr |-> 0, size |-> 0]}

MCLines == {[i \in 1 .. LineBytes |-> i]}
MCHbm   == {[a \in Addr |-> 40 + a]}
=============================================================================
