---------------------------- MODULE MCReconfCtrl ----------------------------
(***************************************************************************)
(* Instances of ReconfCtrl for TLC.  Words of two bytes, beats of two      *)
(* words, lines of two beats and four beats of memory keep every boundary  *)
(* of the code (word, beat, line, end of the address range) in reach.      *)
(***************************************************************************)
EXTENDS ReconfCtrl

Command(op, slot, addr, size) ==
  [op |-> op, slot |-> slot, addr |-> addr, size |-> size]

(* Every byte of the two lines, and of the memory, is different, so that a *)
(* misplaced byte cannot go unnoticed.                                     *)
MCLines == {[i \in 1 .. LineBytes |-> i], [i \in 1 .. LineBytes |-> 20 + i]}
MCHbm   == {[a \in Addr |-> 40 + a]}

(* Transfers below, at and above one beat and one line, past the end of    *)
(* the address range and round it, and for every check a command it        *)
(* refuses.                                                                *)
DataCommands ==
  {Command("WRITE_HBM", 0, 4, n) : n \in {1, 4, 5, 8, 9}}
    \union {Command("WRITE_HBM", 0, 12, 6), Command("WRITE_HBM", 0, 12, 17)}
    \union {Command("READ_HBM", 0, 4, n) : n \in {1, 4, 5, 8}}
    \union {Command("READ_HBM", 0, 12, 7)}
    \union {Command("RECONF_ICAP", 1, 4, n) : n \in {2, 4, 6, 10}}
    \union {Command("QUERY_STATUS", 9, 99, 0), Command("OTHER", 0, 0, 4),
            Command("READ_HBM", 0, 16, 4), Command("READ_HBM", 0, 2, 4),
            Command("WRITE_HBM", 0, 0, 0), Command("READ_HBM", 0, 0, 9),
            Command("RECONF_ICAP", 0, 0, 3), Command("RECONF_ICAP", 2, 0, 4)}

(* With these, loads of both slots follow each other and are followed by   *)
(* transfers, queries and refused commands.                                *)
AllCommands == DataCommands \union {Command("RECONF_ICAP", 0, 0, 4)}
=============================================================================
