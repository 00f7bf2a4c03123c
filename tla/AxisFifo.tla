------------------------------ MODULE AxisFifo ------------------------------
(***************************************************************************)
(* The AXI stream FIFO that axis_data_fifo_replacements.sv puts between    *)
(* the blocks: axis_fifo_taxi with RAM_PIPELINE = 1 and no output FIFO.    *)
(* A word written at an edge is read from the memory into the first pipe   *)
(* stage at the next one and moved to the output stage at the one after;   *)
(* bubbles close by themselves, so a word is at the output exactly when it *)
(* is the oldest one and two edges old.  A FIFO is the sequence of its     *)
(* words, oldest first, each with the edges it has been inside (at most    *)
(* PipeStages are counted).                                                *)
(***************************************************************************)
EXTENDS Integers, Sequences, FiniteSets

(* RAM_PIPELINE + 1 *)
PipeStages == 2

Fifos(words) == Seq([word : words, age : 0 .. PipeStages])

(* m_axis_tvalid and m_axis_tdata *)
OutputValid(fifo) == fifo # << >> /\ fifo[1].age = PipeStages
OutputWord(fifo) == fifo[1].word

(* The words that have not been read from the memory into the pipe.        *)
InMemory(fifo) ==
  Len(fifo) - Cardinality({i \in 1 .. PipeStages : i <= Len(fifo) /\ fifo[i].age > 0})

(* s_axis_tready: the memory is not full *)
InputReady(fifo, depth) == InMemory(fifo) < depth

(* One clock edge; `written' is the sequence of at most one word under     *)
(* s_axis_tvalid, ready is m_axis_tready.                                  *)
FifoEdge(fifo, depth, written, ready) ==
  LET kept == IF ready /\ OutputValid(fifo) THEN Tail(fifo) ELSE fifo
      older(age) == IF age < PipeStages THEN age + 1 ELSE age
  IN  [i \in DOMAIN kept |-> [kept[i] EXCEPT !.age = older(@)]]
        \o IF written # << >> /\ InputReady(fifo, depth)
           THEN << [word |-> written[1], age |-> 0] >>
           ELSE << >>
=============================================================================
