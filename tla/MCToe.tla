-------------------------------- MODULE MCToe --------------------------------
(* Two engines, a opening the connection and b listening, with first         *)
(* sequence numbers such that a's wrap around with its second byte.          *)
EXTENDS Toe

CONSTANTS a, b

Hosts == {a, b}
FirstNumbers == [h \in Hosts |-> IF h = a THEN SeqSpace - 2 ELSE 3]
OneByte == [h \in Hosts |-> IF h = a THEN 1 ELSE 0]
TwoBytes == [h \in Hosts |-> IF h = a THEN 2 ELSE 0]
==============================================================================
