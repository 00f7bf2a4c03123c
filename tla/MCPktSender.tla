---------------------------- MODULE MCPktSender -----------------------------
(***************************************************************************)
(* Instances of PktSender for TLC.                                         *)
(***************************************************************************)
EXTENDS PktSender

(* Only responses of one beat meet a closed connection.                    *)
ShortMayClose ==
  [n \in 1 .. MaxBeats |-> IF n = 1 THEN {"ok", "closed"} ELSE {"ok"}]
=============================================================================
