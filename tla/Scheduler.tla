----------------------------- MODULE Scheduler ------------------------------
(***************************************************************************)
(* scheduler.v, one clock edge at a time: the input block that sorts the   *)
(* beats into one queue per open request and gives a credit for every      *)
(* request that is complete, and the arbiter that empties a queue with     *)
(* credit, request by request.  Requests of a single beat have a queue of  *)
(* their own that goes first.                                              *)
(*                                                                         *)
(* input_META_single is all ones at every edge and no connection has that  *)
(* number, so the branch that compares them is left out.  The registers    *)
(* input_tdata are only meaningful under input_tvalid and are emptied with *)
(* it here.  The output goes into a pipe and a FIFO whose ready is not     *)
(* connected, so that nothing holds the arbiter back.                      *)
(***************************************************************************)
EXTENDS AxisFifo, FiniteSetsExt

CONSTANTS
  QUEUE_NUM,      \* number of queues
  Conns,          \* connections
  Free,           \* input_META of a queue without a request (all ones)
  QueueDepth      \* depth of every queue's FIFO

ASSUME SchedulerAssumption ==
  /\ QUEUE_NUM \in Nat \ {0}
  /\ QueueDepth \in Nat \ {0}
  /\ Free \notin Conns

VARIABLES
  rx_tready,
  input_tdata,              \* per queue, the word under input_tvalid, as a
                            \* sequence of at most one
  input_single,             \* input_tdata_single under input_tvalid_single
  input_META,               \* per queue, connection and workload of its request
  counter,
  counter_inst,
  credits,
  queue_fifo,
  single_fifo,
  output_deduct_credits,
  output_queue_number,      \* QUEUE_NUM: the single-packet queue
  output_tready_sel,        \* the queues whose bit is set
  output_tready_single

inputVars == << input_tdata, input_META, counter, counter_inst >>
schedVars == << rx_tready, inputVars, input_single, credits, queue_fifo,
                single_fifo, output_deduct_credits, output_queue_number,
                output_tready_sel, output_tready_single >>

Queues == 0 .. QUEUE_NUM - 1

(* Credits are 8-bit registers.                                            *)
CreditRange == 256

(* output_queue_number after reset *)
NoQueueNumber == 255

FreeMeta == [conn |-> Free, work |-> Free]

SchedInit ==
  /\ rx_tready = TRUE
  /\ input_tdata = [q \in Queues |-> << >>]
  /\ input_single = << >>
  /\ input_META = [q \in Queues |-> FreeMeta]
  /\ counter = [q \in Queues |-> 0]
  /\ counter_inst = [q \in Queues |-> 0]
  /\ credits = [q \in Queues |-> 0]
  /\ queue_fifo = [q \in Queues |-> << >>]
  /\ single_fifo = << >>
  /\ output_deduct_credits = [q \in Queues |-> 0]
  /\ output_queue_number = NoQueueNumber
  /\ output_tready_sel = {}
  /\ output_tready_single = FALSE

-----------------------------------------------------------------------------
(* The input block.                                                        *)

(* Equal counts of given and deducted credits are both cleared, each by    *)
(* its own block.  Each block reads the other's count as it was before the *)
(* edge: they are registers, though written with blocking assignments.     *)
ClearedCredits ==
  [q \in Queues |-> IF credits[q] = output_deduct_credits[q] THEN 0 ELSE credits[q]]

WithCredit(q) == [ClearedCredits EXCEPT ![q] = (@ + 1) % CreditRange]

MutantCreditPerBeat(m, end) == credits' = WithCredit(m)

(* A complete request gives its queue a credit.                            *)
GiveCredit(m, end) == credits' = IF end THEN WithCredit(m) ELSE ClearedCredits

(* {message_end, workload, request size} and the beat; tlast is message_end *)
QueueWord(w, work, size, end) ==
  [req |-> w.req, n |-> w.n, work |-> work, size |-> size, end |-> end]

Matching(w) ==
  {m \in Queues : /\ input_META[m].conn = w.conn
                  /\ InputReady(queue_fifo[m], QueueDepth)}

(* input_tvalid of the other queues stays as it is.                        *)
WriteQueue(m, word) == input_tdata' = [input_tdata EXCEPT ![m] = << word >>]

Count(m, count, size, end) ==
  /\ counter_inst' = [counter_inst EXCEPT ![m] = IF end THEN 0 ELSE count]
  /\ counter' = [counter EXCEPT ![m] = IF end THEN 0 ELSE size]

(* A further beat of an open request.  Bytes are counted at the end of     *)
(* each packet; the request is complete when its size is reached.          *)
MatchExisting(w) ==
  /\ Matching(w) # {}
  /\ LET m == Min(Matching(w))
         count == counter_inst[m] + IF w.last THEN w.len ELSE 0
         end == w.last /\ count >= counter[m]
     IN  /\ WriteQueue(m, QueueWord(w, input_META[m].work, counter[m], end))
         /\ Count(m, count, counter[m], end)
         /\ input_META' = [input_META EXCEPT ![m] = IF end THEN FreeMeta ELSE @]
         /\ GiveCredit(m, end)
  /\ rx_tready' = TRUE
  /\ UNCHANGED input_single

IsSingle(w) ==
  /\ w.first /\ w.last
  /\ w.size = w.len
  /\ InputReady(single_fifo, QueueDepth)

(* A request of one beat.                                                  *)
SinglePacket(w) ==
  /\ Matching(w) = {}
  /\ IsSingle(w)
  /\ input_single' = << QueueWord(w, w.work, w.size, TRUE) >>
  /\ rx_tready' = TRUE
  /\ credits' = ClearedCredits
  /\ UNCHANGED inputVars

FreeQueues == {q \in Queues : input_META[q] = FreeMeta}

(* The header of another request takes the lowest free queue.              *)
Allocate(w) ==
  /\ Matching(w) = {}
  /\ ~ IsSingle(w)
  /\ w.first
  /\ FreeQueues # {}
  /\ LET m == Min(FreeQueues)
         end == w.last /\ w.len >= w.size
     IN  /\ WriteQueue(m, QueueWord(w, w.work, w.size, end))
         /\ input_META' = [input_META EXCEPT ![m] =
                             IF end THEN FreeMeta ELSE [conn |-> w.conn, work |-> w.work]]
         /\ Count(m, IF w.last THEN w.len ELSE 0, w.size, end)
         /\ GiveCredit(m, end)
  /\ rx_tready' = TRUE
  /\ UNCHANGED input_single

(* No queue for the beat: ready is lowered, for the next edge.             *)
NoQueue(w) ==
  /\ Matching(w) = {}
  /\ ~ IsSingle(w)
  /\ ~ (w.first /\ FreeQueues # {})
  /\ rx_tready' = FALSE
  /\ credits' = ClearedCredits
  /\ UNCHANGED << inputVars, input_single >>

MutantStrobesKept ==
  /\ rx_tready' = TRUE
  /\ input_single' = << >>
  /\ credits' = ClearedCredits
  /\ UNCHANGED inputVars

(* No beat is taken: every input_tvalid is lowered.                        *)
NoInput ==
  /\ rx_tready' = TRUE
  /\ input_single' = << >>
  /\ input_tdata' = [q \in Queues |-> << >>]
  /\ credits' = ClearedCredits
  /\ UNCHANGED << input_META, counter, counter_inst >>

(* rx is the sequence of at most one beat under rx_tvalid.                 *)
InputBlock(rx) ==
  \/ /\ rx # << >> /\ rx_tready
     /\ \/ MatchExisting(rx[1])
        \/ SinglePacket(rx[1])
        \/ Allocate(rx[1])
        \/ NoQueue(rx[1])
  \/ /\ rx = << >> \/ ~ rx_tready
     /\ NoInput

-----------------------------------------------------------------------------
(* The output multiplexer: the beat forwarded is the beat popped.          *)

output_tready(q) == q \in output_tready_sel /\ output_queue_number = q

output_tready_single_FIFO == output_tready_single /\ output_queue_number = QUEUE_NUM

(* output_queue_tdata, as a sequence of at most one word                   *)
Output ==
  LET popped == {q \in Queues : output_tready(q) /\ OutputValid(queue_fifo[q])}
  IN  IF output_tready_single_FIFO /\ OutputValid(single_fifo)
      THEN << OutputWord(single_fifo) >>
      ELSE IF popped # {} THEN << OutputWord(queue_fifo[Min(popped)]) >> ELSE << >>

QueueFifosEdge ==
  /\ queue_fifo' = [q \in Queues |->
                      FifoEdge(queue_fifo[q], QueueDepth, input_tdata[q], output_tready(q))]
  /\ single_fifo' = FifoEdge(single_fifo, QueueDepth, input_single, output_tready_single_FIFO)

-----------------------------------------------------------------------------
(* The arbiter.                                                            *)

MutantNeverCleared == output_deduct_credits

ClearedDeductions ==
  [q \in Queues |-> IF credits[q] = output_deduct_credits[q]
                    THEN 0 ELSE output_deduct_credits[q]]

InCredit(deducted) == {q \in Queues : credits[q] > deducted[q]}

(* The selected queue, while it has credit.                                *)
Active == output_tready_sel \cap InCredit(ClearedDeductions)

SingleFirst ==
  /\ OutputValid(single_fifo)
  /\ output_queue_number' = QUEUE_NUM
  /\ output_tready_sel' = {}
  /\ output_tready_single' = TRUE
  /\ output_deduct_credits' = ClearedDeductions

(* The next queue after a with a beat and credit, a itself last.           *)
RoundRobin(a, ready) ==
  LET distance(q) == IF q > a THEN q - a ELSE q + QUEUE_NUM - a
  IN  {q \in ready : \A p \in ready : distance(q) <= distance(p)}

(* The last beat of a request is at the output of the active queue.        *)
EndOfRequest(a) ==
  LET deducted == [ClearedDeductions EXCEPT ![a] = (@ + 1) % CreditRange]
      ready == {q \in InCredit(deducted) : OutputValid(queue_fifo[q])}
  IN  /\ OutputValid(queue_fifo[a])
      /\ OutputWord(queue_fifo[a]).end
      /\ output_queue_number' = a
      /\ output_deduct_credits' = deducted
      /\ output_tready_sel' = (output_tready_sel \ {a}) \cup RoundRobin(a, ready)

MutantNumberAtEndOnly(a) ==
  /\ ~ (OutputValid(queue_fifo[a]) /\ OutputWord(queue_fifo[a]).end)
  /\ output_tready_sel' = {a}
  /\ output_deduct_credits' = ClearedDeductions
  /\ UNCHANGED output_queue_number

KeepPulling(a) ==
  /\ ~ (OutputValid(queue_fifo[a]) /\ OutputWord(queue_fifo[a]).end)
  /\ output_queue_number' = IF OutputValid(queue_fifo[a]) THEN a ELSE output_queue_number
  /\ output_tready_sel' = {a}
  /\ output_deduct_credits' = ClearedDeductions

Choose ==
  /\ output_tready_sel' = {q \in InCredit(ClearedDeductions) :
                             \A p \in InCredit(ClearedDeductions) : q <= p}
  /\ output_deduct_credits' = ClearedDeductions
  /\ UNCHANGED output_queue_number

Arbiter ==
  \/ SingleFirst
  \/ /\ ~ OutputValid(single_fifo)
     /\ output_tready_single' = FALSE
     /\ \/ Active # {} /\ EndOfRequest(Max(Active))
        \/ Active # {} /\ KeepPulling(Max(Active))
        \/ Active = {} /\ Choose

SchedulerEdge(rx) ==
  /\ InputBlock(rx)
  /\ Arbiter
  /\ QueueFifosEdge
=============================================================================
