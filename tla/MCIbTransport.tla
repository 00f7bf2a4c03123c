--------------------------- MODULE MCIbTransport ----------------------------
(* Requests of one to three packets of two words: writes from memory and   *)
(* from the stream back to back, and reads of every shape between writes.  *)
EXTENDS IbTransport

WritesOnly == <<Request("WRITE", 10, 50, 5), Request("WRITE", 0, 60, 1)>>
ReadsBetween == <<Request("READ", 10, 50, 5), Request("WRITE", 20, 70, 3), Request("READ", 30, 60, 1)>>
ReadTwoFull == <<Request("READ", 10, 50, 4)>>

AllPlans == {WritesOnly, ReadsBetween, ReadTwoFull}
=============================================================================
