---------------------------- MODULE MCRequestPath ---------------------------
(***************************************************************************)
(* Instances of RequestPath for TLC.                                       *)
(***************************************************************************)
EXTENDS RequestPath

Rq(conn, work, beats, cuts) ==
  [conn |-> conn, work |-> work, size |-> beats, beats |-> beats, cuts |-> cuts]

(* Announces less than it has.                                             *)
Longer(conn, work, size, beats, cuts) ==
  [conn |-> conn, work |-> work, size |-> size, beats |-> beats, cuts |-> cuts]

(* Requests of different shapes, each sent when the one before has left;   *)
(* data lines may look like headers.                                       *)
InTurn(requests) ==
  [requests |-> requests, interleave |-> FALSE, spaced |-> FALSE, eager |-> FALSE,
   flags |-> BOOLEAN]

(* Two connections whose packets alternate.                                *)
Alternating(requests) ==
  [requests |-> requests, interleave |-> TRUE, spaced |-> TRUE, eager |-> FALSE,
   flags |-> {FALSE}]

(* Packets with an idle edge in between.                                   *)
Spaced(requests) ==
  [requests |-> requests, interleave |-> FALSE, spaced |-> TRUE, eager |-> FALSE,
   flags |-> {FALSE}]

(* One request follows the other without waiting.                          *)
Pipelined(requests) ==
  [requests |-> requests, interleave |-> FALSE, spaced |-> FALSE, eager |-> TRUE,
   flags |-> {FALSE}]

SafePlans ==
  { InTurn(<< Rq(1, "echo", 2, {2}), Rq(1, "norm", 3, {1, 3}), Rq(2, "echo", 4, {1, 3, 4}) >>),
    InTurn(<< Rq(1, "norm", 2, {1, 2}), Rq(2, "reconf", 3, {1, 3}), Rq(1, "echo", 3, {2, 3}) >>),
    InTurn(<< Rq(1, "echo", 1, {1}), Rq(2, "norm", 3, {2, 3}), Rq(1, "norm", 1, {1}) >>),
    Pipelined(<< Rq(1, "echo", 1, {1}), Rq(2, "norm", 1, {1}), Rq(1, "norm", 1, {1}) >>),
    Spaced(<< Longer(1, "echo", 2, 5, {3, 5}), Rq(2, "norm", 2, {1, 2}) >>),
    Alternating(<< Rq(1, "echo", 3, {1, 3}), Rq(2, "echo", 3, {1, 2, 3}), Rq(1, "echo", 3, {1, 3}) >>) }

=============================================================================
