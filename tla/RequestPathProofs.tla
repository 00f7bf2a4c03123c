------------------------- MODULE RequestPathProofs --------------------------
(***************************************************************************)
(* What TLAPS proves about RequestPath: the invariants of its run, for any *)
(* number of requests of any shape that are sent in turn.                  *)
(***************************************************************************)
EXTENDS RequestPath, SequenceTheorems, FiniteSetTheorems,
        WellFoundedInduction, TLAPS

-----------------------------------------------------------------------------
(* The plans of the theorems.                                              *)

(* A request ends with the packet that completes it, and fits a queue if   *)
(* it is for a slot: the scheduler stores all of it before it forwards the *)
(* first line.                                                             *)
WholeRequest(q) ==
  /\ q.conn \in Conns
  /\ q.beats \in Nat /\ q.size \in 1 .. q.beats
  /\ q.cuts \subseteq 1 .. q.beats /\ q.beats \in q.cuts
  /\ \A c \in q.cuts : c >= q.size => c = q.beats
  /\ q.work # RECONF_APP => q.beats <= QueueDepth

(* A request begins when the one before has been received and, if it is    *)
(* for a slot, has left.                                                   *)
SentInTurn ==
  /\ ~ plan.interleave /\ ~ plan.eager
  /\ \A r \in Requests : WholeRequest(Request(r))

(* No beat meets a full FIFO behind the dispatcher.                        *)
DispRoom == rx_tdata_combined # << >> => InputReady(disp_fifo, DispDepth)

-----------------------------------------------------------------------------
(* The inductive invariant.                                                *)

Beats(r) == Request(r).beats

(* The lines of r before line n that are in earlier packets.               *)
PrevCut(r, n) == Max({0} \cup {c \in Request(r).cuts : c < n})

(* A request for a slot that has begun and not left.                       *)
Live(r) == ForSlots(r) /\ 0 < sent[r] /\ delivered[r] < Beats(r)

NoneLive == \A r \in Requests : ~ Live(r)

(* The words in each register and FIFO.                                    *)
RxLen == Len(rx_tdata_combined)
DispLen == Len(disp_fifo)
InputLen == Len(input_tdata[0])
QueueLen == Len(queue_fifo[0])
SingleInputLen == Len(input_single)
SingleLen == Len(single_fifo)

(* The beats of r that the scheduler has taken.                            *)
Entered(r) == delivered[r] + QueueLen + InputLen + SingleLen + SingleInputLen

(* The words between the tagging and the scheduler, oldest first.          *)
PipeLen == DispLen + RxLen
PipeWord(j) == IF j <= DispLen THEN disp_fifo[j].word ELSE rx_tdata_combined[1]

(* The beats of r that are among them.                                     *)
Late(r) == sent[r] - Entered(r)

IsFifo(f) == \E S : f \in Fifos(S)
IsWord(s) == (\E S : s \in Seq(S)) /\ Len(s) <= 1

PathTypes ==
  /\ sent \in [Requests -> Nat] /\ delivered \in [Requests -> Nat]
  /\ \A r \in Requests :
       /\ sent[r] <= Beats(r) /\ delivered[r] <= sent[r]
  /\ IsWord(rx_tdata_combined) /\ IsFifo(disp_fifo)
  /\ rx_tready = TRUE
  /\ DOMAIN input_tdata = Queues /\ (\A q \in Queues : IsWord(input_tdata[q]))
  /\ DOMAIN queue_fifo = Queues /\ (\A q \in Queues : IsFifo(queue_fifo[q]))
  /\ IsWord(input_single) /\ IsFifo(single_fifo)
  /\ DOMAIN input_META = Queues
  /\ DOMAIN counter = Queues /\ DOMAIN counter_inst = Queues
  /\ credits \in [Queues -> 0 .. 1] /\ output_deduct_credits \in [Queues -> 0 .. 1]

(* Requests come one after the other.                                      *)
TurnInv ==
  /\ \A p, r \in Requests : Open(p) /\ Open(r) => p = r
  /\ \A p, r \in Requests : Live(p) /\ (Open(r) \/ Live(r)) => p = r

(* The dispatcher's registers are about the request that is open.          *)
DispInv ==
  /\ (\A r \in Requests : ~ Open(r)) => expecting_header = TRUE
  /\ \A r \in Requests : Open(r) =>
       /\ expecting_header = FALSE
       /\ workload_selection = Request(r).work /\ packet_size = Size(r)
       /\ request_bytes_remaining = Request(r).size - PrevCut(r, sent[r] + 1)

(* A word has the tags of its own request.                                 *)
RightWord(w) ==
  /\ w.req \in Requests /\ w.n \in 1 .. sent[w.req]
  /\ w.conn = Request(w.req).conn /\ w.len = PacketLength(w.req, w.n)
  /\ w.last = (w.n \in Request(w.req).cuts) /\ (w.n = 1 => w.first = TRUE)
  /\ w.work = Request(w.req).work /\ w.size = Size(w.req)

(* The words of the live request are the last ones, in order.              *)
PipeInv ==
  /\ \A j \in 1 .. PipeLen : RightWord(PipeWord(j))
  /\ NoneLive => \A j \in 1 .. PipeLen : ~ ForSlots(PipeWord(j).req)
  /\ \A c \in Requests : Live(c) =>
       /\ Late(c) \in 0 .. PipeLen
       /\ \A j \in 1 .. PipeLen :
            /\ j <= PipeLen - Late(c) => ~ ForSlots(PipeWord(j).req)
            /\ j > PipeLen - Late(c) =>
                 PipeWord(j).req = c /\ PipeWord(j).n = sent[c] - (PipeLen - j)

(* Word n of request c as the scheduler stores it.                         *)
Stored(w, c, n) ==
  /\ w.req = c /\ w.n = n /\ w.work = Request(c).work /\ w.size = Size(c)
  /\ w.end = (n = Beats(c))

(* Queue 0 is free or counts the lines of c, n of which it has taken.      *)
Counted(c, n) ==
  \/ n \in {0, Beats(c)} /\ input_META[0] = FreeMeta
  \/ /\ n \in 1 .. Beats(c) - 1
     /\ input_META[0] = [conn |-> Request(c).conn, work |-> Request(c).work]
     /\ counter[0] = Size(c) /\ counter_inst[0] = PrevCut(c, n + 1)

(* A request of one beat is in the queue for those, any other in queue 0,  *)
(* which is the lowest free one whenever a request begins.                 *)
QueueInv ==
  /\ \A q \in Queues \ {0} :
       /\ queue_fifo[q] = << >> /\ input_tdata[q] = << >>
       /\ input_META[q] = FreeMeta
       /\ credits[q] = 0 /\ output_deduct_credits[q] = 0
  /\ NoneLive =>
       /\ queue_fifo[0] = << >> /\ input_tdata[0] = << >>
       /\ single_fifo = << >> /\ input_single = << >>
       /\ input_META[0] = FreeMeta
       /\ credits[0] = output_deduct_credits[0]
       /\ leaving = 0
  /\ \A c \in Requests : Live(c) =>
       /\ output_deduct_credits[0] = 0
       /\ leaving = IF delivered[c] > 0 THEN c ELSE 0
       /\ \A i \in 1 .. SingleLen : Stored(single_fifo[i].word, c, i)
       /\ \A i \in 1 .. SingleInputLen : Stored(input_single[i], c, 1)
       /\ \A i \in 1 .. QueueLen : Stored(queue_fifo[0][i].word, c, delivered[c] + i)
       /\ \A i \in 1 .. InputLen : Stored(input_tdata[0][i], c, Entered(c))
       /\ Beats(c) = 1 => queue_fifo[0] = << >> /\ input_tdata[0] = << >>
       /\ Beats(c) > 1 => single_fifo = << >> /\ input_single = << >>
       /\ credits[0] = IF Beats(c) > 1 /\ Entered(c) = Beats(c) THEN 1 ELSE 0
       /\ Beats(c) = 1 => input_META[0] = FreeMeta
       /\ Beats(c) > 1 => Counted(c, Entered(c))

(* A queue is selected only while it holds a whole request, or holds       *)
(* nothing: when the counts of credits have just been cleared.             *)
ArbInv ==
  /\ output_tready_sel \subseteq {0}
  /\ output_deduct_credits[0] = 1 => credits[0] = 1 /\ output_tready_sel = {}
  /\ \A c \in Requests : Live(c) =>
       /\ output_tready_sel # {} /\ credits[0] = 0 =>
            Entered(c) = 0 /\ Late(c) <= RxLen
       /\ delivered[c] > 0 =>
            /\ output_tready_sel = {0} /\ output_queue_number = 0
            /\ Entered(c) = Beats(c)

PathInv == PathTypes /\ TurnInv /\ DispInv /\ PipeInv /\ QueueInv /\ ArbInv

-----------------------------------------------------------------------------
(* Lines and packets.                                                      *)

LEMMA GreatestExists ==
  ASSUME NEW N \in Nat, NEW S, S \subseteq 0 .. N, S # {}
  PROVE  Max(S) \in S /\ \A y \in S : Max(S) >= y
<1>. DEFINE T == {N - x : x \in S}
            R == OpToRel(<, Nat)
<1>0. \A x \in S : x \in Nat /\ N - x \in Nat
  OBVIOUS
<1>1. T \subseteq Nat /\ T # {}
  BY <1>0
<1>2. PICK t \in T : \A y \in T : ~ (<<y, t>> \in R)
  <2>. HIDE DEF T, R
  <2>1. IsWellFoundedOn(R, Nat)
    BY NatLessThanWellFounded DEF R
  <2>. QED
    BY <1>1, <2>1, WFMin
<1>3. \A y \in T : ~ (y < t)
  BY <1>1, <1>2 DEF OpToRel
<1>4. PICK x \in S : t = N - x
  OBVIOUS
<1>5. \A y \in S : x >= y
  <2>. SUFFICES ASSUME NEW y \in S
                PROVE  x >= y
    OBVIOUS
  <2>1. N - y \in T
    OBVIOUS
  <2>2. ~ (N - y < N - x)
    <3>. HIDE DEF T
    <3>. QED
      BY <1>3, <1>4, <2>1
  <2>3. x \in Nat /\ y \in Nat
    BY <1>0
  <2>. HIDE DEF T, R
  <2>. QED
    BY <2>2, <2>3
<1>. QED
  BY <1>5 DEF Max

LEMMA UniqueMax ==
  ASSUME NEW S, S \subseteq Int, NEW m \in S, \A y \in S : m >= y
  PROVE  Max(S) = m
<1>1. \A x \in S : (\A y \in S : x >= y) => x = m
  OBVIOUS
<1>. QED
  BY <1>1 DEF Max

LEMMA UniqueMin ==
  ASSUME NEW S, S \subseteq Int, NEW m \in S, \A y \in S : m <= y
  PROVE  Min(S) = m
<1>1. \A x \in S : (\A y \in S : x <= y) => x = m
  OBVIOUS
<1>. QED
  BY <1>1 DEF Min

(* The lines of a request that are in earlier packets.                     *)
LEMMA PrevCutFacts ==
  ASSUME SentInTurn, NEW r \in Requests, NEW n \in Nat \ {0}
  PROVE  /\ PrevCut(r, n) \in 0 .. n - 1
         /\ n \in Request(r).cuts => PrevCut(r, n + 1) = n
         /\ n \notin Request(r).cuts => PrevCut(r, n + 1) = PrevCut(r, n)
         /\ PrevCut(r, 1) = 0
         /\ PrevCut(r, n) # 0 => PrevCut(r, n) \in Request(r).cuts
<1>. DEFINE cuts == Request(r).cuts
            S(k) == {0} \cup {c \in cuts : c < k}
<1>1. cuts \subseteq 1 .. Request(r).beats /\ Request(r).beats \in Nat
  BY DEF SentInTurn, WholeRequest
<1>. HIDE DEF cuts
<1>2. \A k : PrevCut(r, k) = Max(S(k))
  BY DEF PrevCut, cuts
<1>0. \A c \in cuts : c \in Nat \ {0}
  BY <1>1
<1>3. S(n) \subseteq 0 .. n - 1 /\ S(n) # {}
  <2>1. \A c \in cuts : c < n => c \in 0 .. n - 1
    BY <1>0
  <2>2. 0 \in 0 .. n - 1
    OBVIOUS
  <2>. QED
    BY <2>1, <2>2
<1>4. Max(S(n)) \in S(n)
  <2>1. n - 1 \in Nat
    OBVIOUS
  <2>. HIDE DEF S
  <2>. QED
    BY <1>3, <2>1, GreatestExists
<1>5. ASSUME n \in cuts
      PROVE  Max(S(n + 1)) = n
  <2>1. n \in S(n + 1) /\ S(n + 1) \subseteq Int /\ \A y \in S(n + 1) : n >= y
    <3>1. n < n + 1 /\ 0 \in Int /\ n >= 0
      OBVIOUS
    <3>2. \A c \in cuts : c \in Int /\ (c < n + 1 => n >= c)
      BY <1>0
    <3>. QED
      BY <1>5, <3>1, <3>2
  <2>. HIDE DEF S
  <2>. QED
    BY <2>1, UniqueMax
<1>6. ASSUME n \notin cuts
      PROVE  S(n + 1) = S(n)
  <2>1. \A c \in cuts : c < n + 1 <=> c < n
    BY <1>1, <1>6
  <2>. QED
    BY <2>1
<1>7. Max(S(1)) = 0
  <2>1. 0 \in S(1) /\ S(1) \subseteq Int /\ \A y \in S(1) : 0 >= y
    <3>1. \A c \in cuts : c \in Int /\ ~ (c < 1)
      BY <1>0
    <3>. QED
      BY <3>1
  <2>. HIDE DEF S
  <2>. QED
    BY <2>1, UniqueMax
<1>8. Max(S(n)) # 0 => Max(S(n)) \in cuts
  BY <1>4
<1>. HIDE DEF S
<1>9. Max(S(n)) \in 0 .. n - 1
  BY <1>3, <1>4
<1>. QED
  BY <1>2, <1>5, <1>6, <1>7, <1>8, <1>9 DEF cuts

(* The length of a packet, at its last line.                               *)
LEMMA PacketLengthAtEnd ==
  ASSUME SentInTurn, NEW r \in Requests, NEW n \in Request(r).cuts
  PROVE  PacketLength(r, n) = n - PrevCut(r, n)
<1>. DEFINE S == {c \in Request(r).cuts : c >= n}
<1>1. Request(r).cuts \subseteq 1 .. Request(r).beats /\ Request(r).beats \in Nat
  BY DEF SentInTurn, WholeRequest
<1>2. n \in S /\ S \subseteq Int /\ \A y \in S : n <= y
  BY <1>1
<1>. HIDE DEF S
<1>3. Min(S) = n
  BY <1>2, UniqueMin
<1>. QED
  BY <1>3 DEF PacketLength, PrevCut, S

(* A request is all of its lines.                                          *)
LEMMA ExtentIsBeats ==
  ASSUME SentInTurn, NEW r \in Requests
  PROVE  Extent(r) = Beats(r)
<1>. DEFINE S == {c \in Request(r).cuts : c >= Request(r).size}
<1>1. /\ Request(r).cuts \subseteq 1 .. Beats(r) /\ Beats(r) \in Nat
      /\ Beats(r) \in Request(r).cuts /\ Request(r).size \in 1 .. Beats(r)
      /\ \A c \in Request(r).cuts : c >= Request(r).size => c = Beats(r)
  BY DEF SentInTurn, WholeRequest, Beats
<1>2. Beats(r) \in S /\ S \subseteq Int /\ \A y \in S : Beats(r) <= y
  BY <1>1
<1>. HIDE DEF S
<1>3. Min(S) = Beats(r)
  BY <1>2, UniqueMin
<1>. QED
  BY <1>3 DEF Extent, S

-----------------------------------------------------------------------------
(* FIFOs.                                                                  *)

LEMMA MemoryBound ==
  ASSUME NEW S, NEW f \in Fifos(S)
  PROVE  InMemory(f) \in Int /\ InMemory(f) <= Len(f)
<1>. DEFINE T == {i \in 1 .. PipeStages : i <= Len(f) /\ f[i].age > 0}
<1>1. IsFiniteSet(1 .. PipeStages)
  <2>1. 1 \in Int /\ PipeStages \in Int
    BY DEF PipeStages
  <2>. QED
    BY <2>1, FS_Interval
<1>2. T \in SUBSET (1 .. PipeStages)
  OBVIOUS
<1>. HIDE DEF T
<1>3. IsFiniteSet(T)
  BY <1>1, <1>2, FS_Subset
<1>4. Cardinality(T) \in Nat
  BY <1>3, FS_CardinalityType
<1>5. Len(f) \in Nat
  BY DEF Fifos
<1>6. InMemory(f) = Len(f) - Cardinality(T)
  BY DEF InMemory, T
<1>. QED
  BY <1>4, <1>5, <1>6

Popped(f, ready) == IF ready /\ OutputValid(f) THEN 1 ELSE 0

(* g is what f becomes at an edge at which it takes what it is offered.    *)
FifoMoved(f, written, ready, g) ==
  LET k == Popped(f, ready)
  IN  /\ IsFifo(g)
      /\ k \in 0 .. Len(f)
      /\ Len(g) = Len(f) - k + Len(written)
      /\ \A i \in 1 .. Len(f) - k : g[i].word = f[i + k].word
      /\ Len(written) = 1 => g[Len(f) - k + 1].word = written[1]

(* An edge of a FIFO that takes what it is offered.                        *)
LEMMA FifoEdgeFacts ==
  ASSUME NEW f, IsFifo(f), NEW written, IsWord(written),
         NEW depth, written # << >> => InputReady(f, depth),
         NEW ready \in BOOLEAN
  PROVE  FifoMoved(f, written, ready, FifoEdge(f, depth, written, ready))
<1>. DEFINE g == FifoEdge(f, depth, written, ready)
            k == Popped(f, ready)
<1>s1. PICK A : f \in Fifos(A)
  BY DEF IsFifo
<1>s2. PICK B : written \in Seq(B)
  BY DEF IsWord
<1>. DEFINE S == A \cup B
<1>s3. f \in Fifos(S)
  <2>. DEFINE CA == [word : A, age : 0 .. PipeStages]
              CS == [word : S, age : 0 .. PipeStages]
  <2>1. CA \subseteq CS
    OBVIOUS
  <2>2. f \in Seq(CA)
    BY <1>s1 DEF Fifos
  <2>. HIDE DEF CA, CS
  <2>3. f \in Seq(CS)
    BY <2>1, <2>2
  <2>. QED
    BY <2>3 DEF Fifos, CS
<1>s4. written \in Seq(S)
  BY <1>s2
<1>. HIDE DEF S
<1>s5. Len(written) <= 1
  BY DEF IsWord
<1>. DEFINE Cell == [word : S, age : 0 .. PipeStages]
            kept == IF ready /\ OutputValid(f) THEN Tail(f) ELSE f
            older(age) == IF age < PipeStages THEN age + 1 ELSE age
            aged == [i \in DOMAIN kept |-> [kept[i] EXCEPT !.age = older(@)]]
            new == IF written # << >> THEN << [word |-> written[1], age |-> 0] >> ELSE << >>
<1>1. f \in Seq(Cell) /\ Len(f) \in Nat
  BY <1>s3 DEF Fifos
<1>k. k = IF ready /\ OutputValid(f) THEN 1 ELSE 0
  BY DEF Popped
<1>2. g = aged \o new
  BY DEF FifoEdge
<1>. HIDE DEF k, g
<1>3. OutputValid(f) => Len(f) > 0
  BY <1>1 DEF OutputValid
<1>4. /\ k \in 0 .. Len(f) /\ kept \in Seq(Cell) /\ Len(kept) = Len(f) - k
      /\ \A i \in 1 .. Len(f) - k : kept[i] = f[i + k]
  <2>1. CASE ready /\ OutputValid(f)
    <3>1. kept = Tail(f) /\ k = 1 /\ f # << >>
      BY <1>k, <2>1 DEF OutputValid
    <3>2. /\ Tail(f) \in Seq(Cell) /\ Len(Tail(f)) = Len(f) - 1
          /\ \A i \in 1 .. Len(f) - 1 : Tail(f)[i] = f[i + 1]
      BY <1>1, <3>1
    <3>. QED
      BY <1>1, <1>3, <2>1, <3>1, <3>2
  <2>2. CASE ~ (ready /\ OutputValid(f))
    BY <1>1, <1>k, <2>2
  <2>. QED
    BY <2>1, <2>2
<1>. HIDE DEF kept
<1>5. /\ aged \in Seq(Cell) /\ Len(aged) = Len(f) - k
      /\ \A i \in 1 .. Len(f) - k : aged[i].word = f[i + k].word
  <2>1. \A i \in 1 .. Len(kept) : kept[i] \in Cell
    <3>. HIDE DEF Cell
    <3>. QED
      BY <1>4
  <2>2. DOMAIN kept = 1 .. Len(kept) /\ Len(kept) \in Nat
    <3>. HIDE DEF Cell
    <3>. QED
      BY <1>4
  <2>3. \A i \in 1 .. Len(kept) :
          /\ [kept[i] EXCEPT !.age = older(@)] \in Cell
          /\ [kept[i] EXCEPT !.age = older(@)].word = kept[i].word
    BY <2>1 DEF PipeStages
  <2>4. \A i \in 1 .. Len(kept) : aged[i] \in Cell /\ aged[i].word = kept[i].word
    BY <2>2, <2>3
  <2>5. aged \in [1 .. Len(kept) -> Cell]
    BY <2>2, <2>4
  <2>6. aged \in Seq(Cell) /\ Len(aged) = Len(kept)
    BY <2>2, <2>5
  <2>. HIDE DEF aged, Cell
  <2>. QED
    BY <1>4, <2>4, <2>6
<1>. HIDE DEF aged
<1>6. Len(written) \in {0, 1} /\ (written = << >> <=> Len(written) = 0)
  <2>1. Len(written) \in Nat
    BY <1>s4
  <2>2. Len(<< >>) = 0 /\ (written # << >> => Len(written) \in Nat \ {0})
    BY <1>s4, EmptySeq
  <2>3. Len(written) \in {0, 1}
    <3>1. \A n \in Nat : n <= 1 => n \in {0, 1}
      OBVIOUS
    <3>. QED
      BY <1>s5, <2>1, <3>1, Zenon
  <2>4. Len(written) \in Nat \ {0} => Len(written) # 0
    OBVIOUS
  <2>. QED
    BY <2>2, <2>3, <2>4, Zenon
<1>7. /\ new \in Seq(Cell) /\ Len(new) = Len(written)
      /\ Len(written) = 1 => new[1].word = written[1]
  <2>1. CASE written = << >>
    BY <1>6, <2>1
  <2>2. CASE written # << >>
    <3>1. Len(written) = 1 /\ written[1] \in S
      BY <1>s4, <1>6, <2>2
    <3>2. [word |-> written[1], age |-> 0] \in Cell
      BY <3>1 DEF PipeStages
    <3>. QED
      BY <2>2, <3>1, <3>2
  <2>. QED
    BY <2>1, <2>2
<1>. HIDE DEF new
<1>8. /\ aged \o new \in Seq(Cell)
      /\ Len(aged \o new) = Len(aged) + Len(new)
      /\ \A i \in 1 .. Len(aged) + Len(new) :
           (aged \o new)[i] = IF i <= Len(aged) THEN aged[i] ELSE new[i - Len(aged)]
  <2>. HIDE DEF Cell
  <2>1. aged \in Seq(Cell) /\ new \in Seq(Cell)
    BY <1>5, <1>7
  <2>. QED
    BY <2>1, ConcatProperties
<1>9. g \in Fifos(S)
  BY <1>2, <1>8 DEF Fifos
<1>. DEFINE m == Len(f) - k
<1>10. m \in Nat /\ Len(aged) = m
  BY <1>1, <1>4, <1>5
<1>11. Len(g) = m + Len(written)
  BY <1>2, <1>7, <1>8, <1>10
<1>. HIDE DEF m, Cell
<1>12. \A i \in 1 .. m : g[i] = aged[i]
  BY <1>2, <1>6, <1>7, <1>8, <1>10
<1>13. Len(written) = 1 => g[m + 1] = new[1]
  <2>. SUFFICES ASSUME Len(written) = 1
                PROVE  g[m + 1] = new[1]
    OBVIOUS
  <2>1. m + 1 \in 1 .. m + 1 /\ ~ (m + 1 <= m) /\ (m + 1) - m = 1
    BY <1>10
  <2>. QED
    BY <1>2, <1>7, <1>8, <1>10, <2>1
<1>14. \A i \in 1 .. m : g[i].word = f[i + k].word
  BY <1>5, <1>12 DEF m
<1>15. IsFifo(g)
  BY <1>9 DEF IsFifo
<1>. QED
  <2>1. /\ IsFifo(g) /\ k \in 0 .. Len(f) /\ Len(g) = Len(f) - k + Len(written)
        /\ \A i \in 1 .. Len(f) - k : g[i].word = f[i + k].word
        /\ Len(written) = 1 => g[Len(f) - k + 1].word = written[1]
    BY <1>4, <1>7, <1>15, <1>11, <1>13, <1>14 DEF m
  <2>. QED
    BY <2>1, Zenon DEF FifoMoved, k, g

LEMMA FifoIsSeq ==
  ASSUME NEW f, IsFifo(f)
  PROVE  /\ Len(f) \in Nat /\ (f = << >> <=> Len(f) = 0)
         /\ InMemory(f) \in Int /\ InMemory(f) <= Len(f)
         /\ OutputValid(f) \in BOOLEAN /\ (OutputValid(f) => Len(f) > 0)
         /\ DOMAIN f = 1 .. Len(f)
<1>1. PICK S : f \in Fifos(S)
  BY DEF IsFifo
<1>. DEFINE C == [word : S, age : 0 .. PipeStages]
<1>2. f \in Seq(C)
  BY <1>1 DEF Fifos
<1>. HIDE DEF C
<1>3. Len(f) \in Nat /\ DOMAIN f = 1 .. Len(f)
  BY <1>2
<1>4. Len(<< >>) = 0 /\ (f # << >> => Len(f) \in Nat \ {0})
  BY <1>2, EmptySeq
<1>5. OutputValid(f) \in BOOLEAN /\ (OutputValid(f) => f # << >>)
  BY DEF OutputValid
<1>6. f = << >> <=> Len(f) = 0
  BY <1>4
<1>7. InMemory(f) \in Int /\ InMemory(f) <= Len(f)
  BY <1>1, MemoryBound
<1>8. f # << >> => Len(f) > 0
  BY <1>4
<1>. QED
  BY <1>3, <1>5, <1>6, <1>7, <1>8

LEMMA WordIsSeq ==
  ASSUME NEW s, IsWord(s)
  PROVE  /\ Len(s) \in {0, 1} /\ (s = << >> <=> Len(s) = 0)
         /\ DOMAIN s = 1 .. Len(s)
<1>1. PICK S : s \in Seq(S)
  BY DEF IsWord
<1>2. Len(s) \in Nat /\ DOMAIN s = 1 .. Len(s)
  BY <1>1
<1>3. Len(<< >>) = 0 /\ (s # << >> => Len(s) \in Nat \ {0})
  BY <1>1, EmptySeq
<1>4. Len(s) <= 1
  BY DEF IsWord
<1>. QED
  BY <1>2, <1>3, <1>4

LEMMA IsWordMade ==
  /\ IsWord(<< >>) /\ Len(<< >>) = 0
  /\ \A w : IsWord(<< w >>) /\ Len(<< w >>) = 1 /\ << w >>[1] = w
<1>1. << >> \in Seq({}) /\ Len(<< >>) = 0
  OBVIOUS
<1>2. \A w : << w >> \in Seq({w}) /\ Len(<< w >>) = 1 /\ << w >>[1] = w
  OBVIOUS
<1>3. 0 <= 1 /\ 1 <= 1
  OBVIOUS
<1>. QED
  BY <1>1, <1>2, <1>3 DEF IsWord

-----------------------------------------------------------------------------
(* What every step relies on.                                              *)

LEMMA PlanKept ==
  ASSUME UNCHANGED plan
  PROVE  /\ SentInTurn' <=> SentInTurn
         /\ Requests' = Requests
         /\ \A r : /\ Request(r)' = Request(r) /\ Size(r)' = Size(r)
                   /\ ForSlots(r)' <=> ForSlots(r)
                   /\ Beats(r)' = Beats(r) /\ Extent(r)' = Extent(r)
                   /\ \A n : /\ PacketLength(r, n)' = PacketLength(r, n)
                             /\ PrevCut(r, n)' = PrevCut(r, n)
BY DEF SentInTurn, Requests, Request, Size, ForSlots, Beats, Extent, PacketLength,
       PrevCut

LEMMA RequestFacts ==
  ASSUME SentInTurn, NEW r \in Requests
  PROVE  /\ Beats(r) \in Nat \ {0} /\ Request(r).size \in 1 .. Beats(r)
         /\ Request(r).cuts \subseteq 1 .. Beats(r) /\ Beats(r) \in Request(r).cuts
         /\ \A c \in Request(r).cuts : c >= Request(r).size => c = Beats(r)
         /\ Request(r).conn \in Conns
         /\ ForSlots(r) => Size(r) = Request(r).size /\ Beats(r) <= QueueDepth
<1>1. WholeRequest(Request(r))
  BY DEF SentInTurn
<1>. QED
  BY <1>1 DEF WholeRequest, Beats, ForSlots, Size

LEMMA ZeroIsQueue == 0 \in Queues
BY SchedulerAssumption DEF Queues

(* The numbers of the invariant are numbers.                               *)
LEMMA InvTypes ==
  ASSUME PathTypes
  PROVE  /\ DispLen \in Nat /\ RxLen \in {0, 1} /\ PipeLen \in Nat
         /\ QueueLen \in Nat /\ InputLen \in {0, 1}
         /\ SingleLen \in Nat /\ SingleInputLen \in {0, 1}
         /\ \A r \in Requests :
              /\ sent[r] \in Nat /\ delivered[r] \in Nat /\ delivered[r] <= sent[r]
              /\ sent[r] <= Beats(r)
              /\ Entered(r) \in Nat /\ delivered[r] <= Entered(r)
<1>1. /\ IsFifo(disp_fifo) /\ IsWord(rx_tdata_combined)
      /\ IsFifo(queue_fifo[0]) /\ IsWord(input_tdata[0])
      /\ IsFifo(single_fifo) /\ IsWord(input_single)
  BY ZeroIsQueue DEF PathTypes
<1>2. /\ DispLen \in Nat /\ RxLen \in {0, 1}
      /\ QueueLen \in Nat /\ InputLen \in {0, 1}
      /\ SingleLen \in Nat /\ SingleInputLen \in {0, 1}
  BY <1>1, FifoIsSeq, WordIsSeq
     DEF DispLen, RxLen, QueueLen, InputLen, SingleLen, SingleInputLen
<1>3. PipeLen \in Nat
  BY <1>2 DEF PipeLen
<1>4. \A r \in Requests :
        /\ sent[r] \in Nat /\ delivered[r] \in Nat /\ delivered[r] <= sent[r]
        /\ sent[r] <= Beats(r)
  BY DEF PathTypes
<1>5. \A r \in Requests : Entered(r) \in Nat /\ delivered[r] <= Entered(r)
  BY <1>2, <1>4 DEF Entered
<1>. QED
  BY <1>2, <1>3, <1>4, <1>5

(* Who may send.                                                           *)
LEMMA Sender ==
  ASSUME SentInTurn, PathTypes, TurnInv, NEW r \in Requests, MaySend(r)
  PROVE  /\ sent[r] < Beats(r)
         /\ \A p \in Requests \ {r} : ~ Open(p) /\ ~ Live(p)
         /\ sent[r] = 0 \/ Open(r)
<1>1. sent[r] \in Nat /\ sent[r] < Beats(r)
  BY InvTypes DEF MaySend, Beats
<1>2. sent[r] = 0 \/ Open(r)
  BY <1>1 DEF Open, Beats
<1>3. ASSUME NEW p \in Requests \ {r}
      PROVE  ~ Open(p)
  BY <1>3 DEF MaySend, SentInTurn
<1>4. ASSUME NEW p \in Requests \ {r}, Live(p)
      PROVE  FALSE
  <2>1. CASE Open(r)
    BY <1>4, <2>1 DEF TurnInv
  <2>2. CASE sent[r] = 0
    <3>1. ~ WaitsToLeave(p)
      BY <2>2 DEF MaySend, SentInTurn
    <3>2. Extent(p) = Beats(p) /\ Beats(p) \in Nat
      BY ExtentIsBeats, RequestFacts
    <3>3. sent[p] = Beats(p)
      <4>1. sent[p] \in Nat /\ sent[p] <= Beats(p) /\ 0 < sent[p]
        BY <1>4, InvTypes DEF Live
      <4>2. ~ (sent[p] < Beats(p))
        BY <1>3, <4>1 DEF Open, Beats
      <4>. QED
        BY <3>2, <4>1, <4>2
    <3>. QED
      BY <1>4, <3>1, <3>2, <3>3 DEF WaitsToLeave, Live
  <2>. QED
    BY <1>2, <2>1, <2>2
<1>. QED
  BY <1>1, <1>2, <1>3, <1>4

(* An edge of the dispatcher's FIFO: k words leave it.                     *)
LEMMA PipeStep ==
  ASSUME PathTypes, DispRoom, NEW controller \in BOOLEAN,
         DispFifoEdge(dispatcher_tready(controller)), IsWord(rx_tdata_combined')
  PROVE  /\ IsFifo(disp_fifo') /\ RxLen' \in {0, 1}
         /\ \E k \in {0, 1} :
              /\ k = IF dispatcher_tready(controller) /\ OutputValid(disp_fifo) THEN 1 ELSE 0
              /\ k <= PipeLen
              /\ PipeLen' = PipeLen - k + RxLen'
              /\ \A j \in 1 .. PipeLen - k : PipeWord(j)' = PipeWord(j + k)
              /\ RxLen' = 1 => \A j \in Nat : j > PipeLen - k => PipeWord(j)' = rx_tdata_combined'[1]
<1>. DEFINE ready == dispatcher_tready(controller)
<1>1. IsFifo(disp_fifo) /\ IsWord(rx_tdata_combined)
  BY DEF PathTypes
<1>2. ready \in BOOLEAN
  <2>1. rx_tready \in BOOLEAN
    BY DEF PathTypes
  <2>. QED
    BY <2>1 DEF dispatcher_tready
<1>3. disp_fifo' = FifoEdge(disp_fifo, DispDepth, rx_tdata_combined, ready)
  BY DEF DispFifoEdge
<1>4. rx_tdata_combined # << >> => InputReady(disp_fifo, DispDepth)
  BY DEF DispRoom
<1>. HIDE DEF ready
<1>5. PICK k \in {0, 1} : k = IF ready /\ OutputValid(disp_fifo) THEN 1 ELSE 0
  OBVIOUS
<1>6. /\ IsFifo(disp_fifo') /\ k \in 0 .. DispLen
      /\ DispLen' = DispLen - k + RxLen
      /\ \A i \in 1 .. DispLen - k : disp_fifo'[i].word = disp_fifo[i + k].word
      /\ RxLen = 1 => disp_fifo'[DispLen - k + 1].word = rx_tdata_combined[1]
  <2>1. /\ IsFifo(disp_fifo') /\ k \in 0 .. Len(disp_fifo)
        /\ Len(disp_fifo') = Len(disp_fifo) - k + Len(rx_tdata_combined)
        /\ \A i \in 1 .. Len(disp_fifo) - k : disp_fifo'[i].word = disp_fifo[i + k].word
        /\ Len(rx_tdata_combined) = 1 =>
             disp_fifo'[Len(disp_fifo) - k + 1].word = rx_tdata_combined[1]
    <3>1. FifoMoved(disp_fifo, rx_tdata_combined, ready, disp_fifo')
      BY <1>1, <1>2, <1>3, <1>4, FifoEdgeFacts
    <3>2. k = Popped(disp_fifo, ready)
      BY <1>5 DEF Popped
    <3>. QED
      BY <3>1, <3>2 DEF FifoMoved
  <2>. QED
    BY <2>1 DEF DispLen, RxLen
<1>7. DispLen \in Nat /\ RxLen \in {0, 1}
  BY InvTypes
<1>8. RxLen' \in {0, 1}
  BY WordIsSeq DEF RxLen
<1>9. PipeLen = DispLen + RxLen /\ PipeLen' = DispLen' + RxLen'
  BY DEF PipeLen
<1>10. DispLen' = PipeLen - k /\ k <= PipeLen
  BY <1>6, <1>7, <1>9
<1>11. ASSUME NEW j \in 1 .. PipeLen - k
       PROVE  PipeWord(j)' = PipeWord(j + k)
  <2>1. j \in Nat /\ 1 <= j /\ j <= DispLen'
    BY <1>7, <1>9, <1>10
  <2>2. PipeWord(j)' = disp_fifo'[j].word
    BY <2>1 DEF PipeWord
  <2>3. CASE j <= DispLen - k
    <3>1. j + k <= DispLen /\ j \in 1 .. DispLen - k
      BY <1>7, <2>1, <2>3
    <3>. QED
      BY <1>6, <2>2, <3>1 DEF PipeWord
  <2>4. CASE ~ (j <= DispLen - k)
    <3>1. RxLen = 1 /\ j = DispLen - k + 1 /\ ~ (j + k <= DispLen)
      BY <1>6, <1>7, <1>9, <2>1, <2>4
    <3>. QED
      BY <1>6, <2>2, <3>1 DEF PipeWord
  <2>. QED
    BY <2>3, <2>4
<1>12. ASSUME NEW j \in Nat, j > PipeLen - k
       PROVE  PipeWord(j)' = rx_tdata_combined'[1]
  <2>1. ~ (j <= DispLen')
    BY <1>7, <1>9, <1>10, <1>12
  <2>. QED
    BY <2>1 DEF PipeWord
<1>13. PipeLen' = PipeLen - k + RxLen'
  BY <1>9, <1>10
<1>. QED
  BY <1>5, <1>6, <1>8, <1>10, <1>11, <1>12, <1>13 DEF ready

-----------------------------------------------------------------------------
(* The dispatcher.                                                         *)

(* A beat is tagged with its own request, whatever bit 480 of a data line  *)
(* says, and the next line is taken for a header after the last one only.  *)
LEMMA DispatcherBeat ==
  ASSUME SentInTurn, PathTypes, TurnInv, DispInv, NEW r \in Requests, NEW bit,
         MaySend(r), DispBeat(Beat(r, sent[r] + 1, bit)),
         sent' = [sent EXCEPT ![r] = @ + 1], UNCHANGED plan
  PROVE  /\ DispInv'
         /\ IsWord(rx_tdata_combined') /\ RxLen' = 1
         /\ rx_tdata_combined'[1].req = r /\ rx_tdata_combined'[1].n = sent[r] + 1
         /\ RightWord(rx_tdata_combined[1])'
<1>. DEFINE n == sent[r] + 1
            b == Beat(r, n, bit)
            q == Request(r)
<1>1. /\ n \in Nat \ {0} /\ n <= Beats(r) /\ sent'[r] = n
      /\ sent' \in [Requests -> Nat]
  BY Sender, InvTypes, RequestFacts DEF PathTypes
<1>2. /\ Beats(r) \in Nat \ {0} /\ q.size \in 1 .. Beats(r) /\ q.cuts \subseteq 1 .. Beats(r)
      /\ Beats(r) \in q.cuts /\ \A c \in q.cuts : c >= q.size => c = Beats(r)
  BY RequestFacts
<1>3. /\ PrevCut(r, n) \in 0 .. n - 1 /\ PrevCut(r, 1) = 0
      /\ n \in q.cuts => PrevCut(r, n + 1) = n
      /\ n \notin q.cuts => PrevCut(r, n + 1) = PrevCut(r, n)
  BY <1>1, PrevCutFacts
<1>4. n \in q.cuts => PacketLength(r, n) = n - PrevCut(r, n)
  BY PacketLengthAtEnd
<1>5. /\ b.req = r /\ b.n = n /\ b.conn = q.conn /\ b.len = PacketLength(r, n)
      /\ b.last = (n \in q.cuts) /\ b.first = (n = 1 \/ bit)
      /\ b.final = (n = 1 /\ Beats(r) = 1)
      /\ n = 1 => b.work = q.work /\ b.size = Size(r)
  BY DEF Beat, Beats
<1>. HIDE DEF b
<1>6. (n = 1) => expecting_header = TRUE
  <2>. SUFFICES ASSUME n = 1
                PROVE  expecting_header = TRUE
    OBVIOUS
  <2>1. ~ Open(r)
    BY <1>1, InvTypes DEF Open
  <2>. QED
    BY <2>1, Sender DEF DispInv
<1>7. (n # 1) => /\ expecting_header = FALSE
                 /\ workload_selection = q.work /\ packet_size = Size(r)
                 /\ request_bytes_remaining = q.size - PrevCut(r, n)
  <2>. SUFFICES ASSUME n # 1
                PROVE  Open(r)
    BY DEF DispInv
  <2>. QED
    BY <1>1, InvTypes, Sender
<1>8. config_header_line(b) <=> n = 1
  BY <1>5, <1>6, <1>7 DEF config_header_line
<1>9. workload_selection' = q.work /\ packet_size' = Size(r)
  BY <1>5, <1>7, <1>8 DEF DispBeat, b
<1>10. active_request_bytes(b) = q.size - PrevCut(r, n)
  <2>1. CASE n = 1
    <3>1. header_request_bytes(b) = q.size
      BY <1>2, <1>5, <2>1 DEF header_request_bytes, Size, ForSlots
    <3>. QED
      BY <1>2, <1>3, <1>8, <2>1, <3>1 DEF active_request_bytes
  <2>2. CASE n # 1
    BY <1>7, <1>8, <2>2 DEF active_request_bytes
  <2>. QED
    BY <2>1, <2>2
<1>. DEFINE done == \/ config_header_line(b) /\ b.final
                    \/ active_request_bytes(b) <= b.len
<1>11. ASSUME n \in q.cuts
       PROVE  done <=> n = Beats(r)
  <2>1. active_request_bytes(b) <= b.len <=> q.size <= n
    BY <1>1, <1>2, <1>3, <1>4, <1>5, <1>10, <1>11
  <2>2. q.size <= n <=> n = Beats(r)
    BY <1>1, <1>2, <1>11
  <2>3. config_header_line(b) /\ b.final => n = Beats(r)
    BY <1>5
  <2>. QED
    BY <2>1, <2>2, <2>3
<1>12. CountBytes(b)
  BY DEF DispBeat, b
<1>13. /\ n = Beats(r) => expecting_header' = TRUE
       /\ n < Beats(r) =>
            expecting_header' = FALSE
            /\ request_bytes_remaining' = q.size - PrevCut(r, n + 1)
  <2>1. CASE n \in q.cuts
    <3>1. /\ expecting_header' = done
          /\ request_bytes_remaining' =
               IF done THEN 0 ELSE active_request_bytes(b) - b.len
      BY <1>5, <1>12, <2>1 DEF CountBytes
    <3>2. done <=> n = Beats(r)
      BY <1>11, <2>1
    <3>. HIDE DEF done
    <3>3. active_request_bytes(b) - b.len = q.size - n
      BY <1>1, <1>2, <1>3, <1>4, <1>5, <1>10, <2>1
    <3>4. done \in BOOLEAN
      BY DEF done
    <3>5. n < Beats(r) => n # Beats(r)
      BY <1>1, <1>2
    <3>. QED
      BY <1>3, <2>1, <3>1, <3>2, <3>3, <3>4, <3>5
  <2>2. CASE n \notin q.cuts
    <3>1. n # Beats(r) /\ ~ b.last
      BY <1>2, <1>5, <2>2
    <3>2. CASE n = 1
      <4>1. expecting_header' = FALSE /\ request_bytes_remaining' = active_request_bytes(b)
        BY <1>8, <1>12, <3>1, <3>2 DEF CountBytes
      <4>. QED
        BY <1>3, <1>10, <2>2, <3>1, <4>1
    <3>3. CASE n # 1
      <4>1. UNCHANGED << expecting_header, request_bytes_remaining >>
        BY <1>8, <1>12, <3>1, <3>3 DEF CountBytes
      <4>. QED
        BY <1>3, <1>7, <2>2, <3>1, <3>3, <4>1
    <3>. QED
      BY <3>2, <3>3
  <2>. QED
    BY <2>1, <2>2
<1>14. Requests' = Requests /\ \A p : /\ Request(p)' = Request(p) /\ Size(p)' = Size(p)
                                      /\ Beats(p)' = Beats(p)
                                      /\ \A m : /\ PrevCut(p, m)' = PrevCut(p, m)
                                                /\ PacketLength(p, m)' = PacketLength(p, m)
  BY PlanKept
<1>15. \A p \in Requests \ {r} : ~ Open(p)'
  <2>1. \A p \in Requests \ {r} : sent'[p] = sent[p] /\ ~ Open(p)
    BY Sender DEF PathTypes
  <2>. QED
    BY <1>14, <2>1 DEF Open
<1>16. Open(r)' <=> n < Beats(r)
  <2>1. 0 < n
    BY <1>1
  <2>. QED
    BY <1>1, <1>14, <2>1 DEF Open, Beats
<1>17. DispInv'
  <2>1. (\A p \in Requests : ~ Open(p)') => expecting_header' = TRUE
    BY <1>1, <1>2, <1>13, <1>16
  <2>2. ASSUME NEW p \in Requests, Open(p)'
        PROVE  /\ expecting_header' = FALSE
               /\ workload_selection' = Request(p).work /\ packet_size' = Size(p)
               /\ request_bytes_remaining' = Request(p).size - PrevCut(p, sent'[p] + 1)
    <3>1. p = r
      BY <1>15, <2>2
    <3>. QED
      BY <1>1, <1>9, <1>13, <1>16, <2>2, <3>1
  <2>3. \A p, m : PrevCut(p, m)' = PrevCut(p, m)
    BY <1>14
  <2>4. \A p : (PrevCut(p, sent[p] + 1))' = PrevCut(p, sent'[p] + 1)
    BY <1>14 DEF PrevCut
  <2>. QED
    BY <1>14, <2>1, <2>2, <2>4 DEF DispInv
<1>. DEFINE w == Tagged(b, workload_selection', packet_size')
<1>18. rx_tdata_combined' = << w >>
  BY DEF DispBeat, b
<1>19. /\ w.req = r /\ w.n = n /\ w.conn = q.conn /\ w.len = PacketLength(r, n)
       /\ w.last = (n \in q.cuts) /\ w.first = (n = 1 \/ bit)
       /\ w.work = q.work /\ w.size = Size(r)
  BY <1>5, <1>9 DEF Tagged
<1>. HIDE DEF w
<1>20. IsWord(rx_tdata_combined') /\ RxLen' = 1 /\ rx_tdata_combined'[1] = w
  BY <1>18, IsWordMade DEF RxLen
<1>21. n \in 1 .. n
  BY <1>1
<1>22. RightWord(rx_tdata_combined[1])'
  <2>. DEFINE v == rx_tdata_combined[1]
  <2>1. v' = w
    BY <1>20
  <2>. SUFFICES RightWord(v)'
    OBVIOUS
  <2>. HIDE DEF v
  <2>. QED
    BY <1>1, <1>14, <1>19, <1>21, <2>1 DEF RightWord
<1>. QED
  BY <1>17, <1>19, <1>20, <1>22

(* Request r, and no other, has sent a beat.                               *)
SentBy(r) ==
  /\ RxLen' = 1 /\ rx_tdata_combined'[1].req = r /\ rx_tdata_combined'[1].n = sent[r] + 1
  /\ RightWord(rx_tdata_combined[1])'
  /\ sent'[r] = sent[r] + 1 /\ sent[r] < Beats(r) /\ (sent[r] = 0 \/ Open(r))
  /\ \A p \in Requests \ {r} : sent'[p] = sent[p] /\ ~ Open(p) /\ ~ Live(p)

(* What an edge does up to the dispatcher's register.                      *)
LEMMA FrontStep ==
  ASSUME SentInTurn, PathTypes, TurnInv, DispInv, PathNext
  PROVE  /\ UNCHANGED plan /\ (\E controller \in BOOLEAN : RestOfPath(controller))
         /\ DispInv' /\ IsWord(rx_tdata_combined') /\ sent' \in [Requests -> Nat]
         /\ \A p \in Requests : sent'[p] <= Beats(p) /\ sent[p] <= sent'[p]
         /\ (sent' = sent /\ RxLen' = 0) \/ (\E r \in Requests : SentBy(r))
<1>1. PICK controller \in BOOLEAN : PathEdge(controller)
  BY DEF PathNext
<1>2. sent \in [Requests -> Nat] /\ \A p \in Requests : sent[p] \in Nat /\ sent[p] <= Beats(p)
  BY InvTypes DEF PathTypes
<1>3. CASE IdleEdge(controller)
  <2>1. /\ UNCHANGED << plan, sent, expecting_header, workload_selection, packet_size,
                        request_bytes_remaining >>
        /\ rx_tdata_combined' = << >> /\ RestOfPath(controller)
    BY <1>3 DEF IdleEdge, DispIdle
  <2>2. IsWord(rx_tdata_combined') /\ RxLen' = 0
    BY <2>1, IsWordMade DEF RxLen
  <2>3. DispInv'
    BY <2>1 DEF DispInv, Requests, Open, Request, Size, ForSlots, PrevCut
  <2>4. \A p \in Requests : sent[p] <= sent[p]
    BY <1>2
  <2>. QED
    BY <1>2, <2>1, <2>2, <2>3, <2>4
<1>4. ASSUME NEW r \in Requests, NEW bit, BeatEdge(r, bit, controller)
      PROVE  /\ UNCHANGED plan /\ RestOfPath(controller)
             /\ DispInv' /\ IsWord(rx_tdata_combined') /\ sent' \in [Requests -> Nat]
             /\ (\A p \in Requests : sent'[p] <= Beats(p) /\ sent[p] <= sent'[p])
             /\ SentBy(r)
  <2>1. /\ MaySend(r) /\ DispBeat(Beat(r, sent[r] + 1, bit))
        /\ sent' = [sent EXCEPT ![r] = @ + 1]
        /\ RestOfPath(controller) /\ UNCHANGED plan
    BY <1>4 DEF BeatEdge
  <2>2. /\ DispInv' /\ IsWord(rx_tdata_combined') /\ RxLen' = 1
        /\ rx_tdata_combined'[1].req = r /\ rx_tdata_combined'[1].n = sent[r] + 1
        /\ RightWord(rx_tdata_combined[1])'
    BY <2>1, DispatcherBeat
  <2>3. /\ sent[r] < Beats(r) /\ (sent[r] = 0 \/ Open(r))
        /\ \A p \in Requests \ {r} : ~ Open(p) /\ ~ Live(p)
    BY <2>1, Sender
  <2>4. /\ sent'[r] = sent[r] + 1 /\ sent' \in [Requests -> Nat]
        /\ \A p \in Requests \ {r} : sent'[p] = sent[p]
    BY <1>2, <2>1
  <2>5. \A p \in Requests : sent'[p] <= Beats(p) /\ sent[p] <= sent'[p]
    <3>1. sent[r] + 1 <= Beats(r) /\ sent[r] <= sent[r] + 1
      BY <1>2, <2>3, RequestFacts
    <3>. QED
      BY <1>2, <2>4, <3>1
  <2>. QED
    BY <2>1, <2>2, <2>3, <2>4, <2>5 DEF SentBy
<1>. QED
  BY <1>1, <1>3, <1>4 DEF PathEdge

-----------------------------------------------------------------------------
(* The input block.                                                        *)

(* The beat that the scheduler is offered is the next one of the live      *)
(* request.                                                                *)
LEMMA OfferedWord ==
  ASSUME PathTypes, PipeInv, scheduler_rx # << >>
  PROVE  /\ scheduler_rx = << PipeWord(1) >> /\ PipeLen > 0
         /\ RightWord(PipeWord(1)) /\ ForSlots(PipeWord(1).req)
         /\ ~ NoneLive
         /\ \A c \in Requests : Live(c) =>
              /\ PipeWord(1).req = c /\ PipeWord(1).n = Entered(c) + 1
              /\ Late(c) = PipeLen
<1>1. OutputValid(disp_fifo) /\ disp_fifo[1].word.work # RECONF_APP
      /\ scheduler_rx = << disp_fifo[1].word >>
  BY DEF scheduler_rx, reconf_selected, disp_tvalid, disp_tdata, OutputWord
<1>2. DispLen \in Nat /\ DispLen > 0 /\ RxLen \in {0, 1}
  BY <1>1, InvTypes, FifoIsSeq DEF PathTypes, DispLen
<1>3. PipeLen \in Nat /\ PipeLen > 0 /\ 1 <= DispLen /\ 1 \in 1 .. PipeLen
  BY <1>2 DEF PipeLen
<1>4. PipeWord(1) = disp_fifo[1].word
  BY <1>3 DEF PipeWord
<1>5. RightWord(PipeWord(1))
  BY <1>3 DEF PipeInv
<1>6. ForSlots(PipeWord(1).req)
  BY <1>1, <1>4, <1>5 DEF RightWord, ForSlots
<1>7. ~ NoneLive
  BY <1>3, <1>6 DEF PipeInv
<1>8. ASSUME NEW c \in Requests, Live(c)
      PROVE  /\ PipeWord(1).req = c /\ PipeWord(1).n = Entered(c) + 1
             /\ Late(c) = PipeLen
  <2>1. /\ Late(c) \in 0 .. PipeLen
        /\ 1 <= PipeLen - Late(c) => ~ ForSlots(PipeWord(1).req)
        /\ 1 > PipeLen - Late(c) =>
             PipeWord(1).req = c /\ PipeWord(1).n = sent[c] - (PipeLen - 1)
    BY <1>3, <1>8 DEF PipeInv
  <2>2. Late(c) = PipeLen
    BY <1>3, <1>6, <2>1
  <2>3. 1 > PipeLen - Late(c)
    BY <1>3, <2>2
  <2>4. sent[c] \in Nat /\ Entered(c) \in Nat /\ Late(c) = sent[c] - Entered(c)
    BY InvTypes DEF Late
  <2>5. sent[c] - (PipeLen - 1) = Entered(c) + 1
    BY <1>3, <2>2, <2>4
  <2>. QED
    BY <2>1, <2>2, <2>3, <2>5
<1>. QED
  BY <1>1, <1>3, <1>4, <1>5, <1>6, <1>7, <1>8

(* Equal counts of credits.                                                *)
LEMMA Cleared ==
  ASSUME PathTypes, QueueInv
  PROVE  /\ \A c \in Requests : Live(c) => /\ ClearedCredits = credits
                                           /\ ClearedDeductions = [q \in Queues |-> 0]
         /\ NoneLive => /\ ClearedCredits = [q \in Queues |-> 0]
                        /\ ClearedDeductions = [q \in Queues |-> 0]
<1>1. /\ credits \in [Queues -> 0 .. 1] /\ output_deduct_credits \in [Queues -> 0 .. 1]
      /\ \A q \in Queues \ {0} : credits[q] = 0 /\ output_deduct_credits[q] = 0
  BY DEF PathTypes, QueueInv
<1>2. ASSUME NEW c \in Requests, Live(c)
      PROVE  ClearedCredits = credits /\ ClearedDeductions = [q \in Queues |-> 0]
  <2>1. output_deduct_credits[0] = 0
    BY <1>2 DEF QueueInv
  <2>. QED
    BY <1>1, <2>1 DEF ClearedCredits, ClearedDeductions
<1>3. ASSUME NoneLive
      PROVE  /\ ClearedCredits = [q \in Queues |-> 0]
             /\ ClearedDeductions = [q \in Queues |-> 0]
  <2>1. credits[0] = output_deduct_credits[0]
    BY <1>3 DEF QueueInv
  <2>. QED
    BY <1>1, <2>1 DEF ClearedCredits, ClearedDeductions
<1>. QED
  BY <1>2, <1>3

(* The next beat of the live request c.                                    *)
NextWord(w, c) == RightWord(w) /\ w.req = c /\ w.n = Entered(c) + 1

LEMMA NextWordFacts ==
  ASSUME SentInTurn, PathTypes, QueueInv, NEW c \in Requests, Live(c),
         NEW w, NextWord(w, c)
  PROVE  /\ w.n \in 1 .. Beats(c) /\ Entered(c) = w.n - 1 /\ Beats(c) \in Nat
         /\ w.conn = Request(c).conn /\ w.conn # Free
         /\ w.last = (w.n \in Request(c).cuts)
         /\ w.last => w.len = w.n - PrevCut(c, w.n) /\ PrevCut(c, w.n + 1) = w.n
         /\ ~ w.last => PrevCut(c, w.n + 1) = PrevCut(c, w.n)
         /\ PrevCut(c, 1) = 0 /\ PrevCut(c, w.n) \in Nat
         /\ (w.last /\ w.n >= Size(c)) <=> w.n = Beats(c)
         /\ w.work = Request(c).work /\ w.size = Size(c) /\ Size(c) \in 1 .. Beats(c)
         /\ w.n = 1 => w.first = TRUE
<1>. DEFINE n == w.n
<1>0. n = w.n
  OBVIOUS
<1>. HIDE DEF n
<1>1. Entered(c) \in Nat /\ sent[c] \in Nat /\ sent[c] <= Beats(c) /\ n = Entered(c) + 1
  BY <1>0, InvTypes DEF NextWord
<1>2. /\ n \in 1 .. sent[c] /\ w.conn = Request(c).conn /\ w.len = PacketLength(c, n)
      /\ w.last = (n \in Request(c).cuts) /\ (n = 1 => w.first = TRUE)
      /\ w.work = Request(c).work /\ w.size = Size(c)
  BY <1>0 DEF NextWord, RightWord
<1>3. /\ Beats(c) \in Nat \ {0} /\ Request(c).size \in 1 .. Beats(c)
      /\ Request(c).cuts \subseteq 1 .. Beats(c) /\ Beats(c) \in Request(c).cuts
      /\ \A k \in Request(c).cuts : k >= Request(c).size => k = Beats(c)
      /\ Request(c).conn \in Conns /\ Size(c) = Request(c).size
  BY RequestFacts DEF Live
<1>4. n \in Nat \ {0} /\ n \in 1 .. Beats(c) /\ Entered(c) = n - 1
  BY <1>1, <1>2, <1>3
<1>5. /\ PrevCut(c, n) \in 0 .. n - 1 /\ PrevCut(c, 1) = 0
      /\ n \in Request(c).cuts => PrevCut(c, n + 1) = n
      /\ n \notin Request(c).cuts => PrevCut(c, n + 1) = PrevCut(c, n)
  BY <1>4, PrevCutFacts
<1>6. n \in Request(c).cuts => PacketLength(c, n) = n - PrevCut(c, n)
  BY PacketLengthAtEnd
<1>7. (n \in Request(c).cuts /\ n >= Size(c)) <=> n = Beats(c)
  BY <1>3, <1>4
<1>8. w.conn # Free
  BY <1>2, <1>3, SchedulerAssumption
<1>9. PrevCut(c, n) \in Nat
  BY <1>4, <1>5
<1>. QED
  BY <1>0, <1>2, <1>3, <1>4, <1>5, <1>6, <1>7, <1>8, <1>9

(* Only queue 0 is ever taken for a beat's own queue.                      *)
LEMMA NoOtherMatch ==
  ASSUME QueueInv, NEW w, w.conn # Free
  PROVE  /\ Matching(w) \subseteq {0}
         /\ input_META[0] = FreeMeta => Matching(w) = {} /\ FreeQueues = Queues
<1>1. FreeMeta.conn = Free
  BY DEF FreeMeta
<1>2. \A q \in Queues \ {0} : input_META[q] = FreeMeta
  BY DEF QueueInv
<1>. QED
  BY <1>1, <1>2 DEF Matching, FreeQueues

(* The scheduler takes e beats of the live request c: into the queue for   *)
(* single ones or into queue 0, which gets its credit with the last one.   *)
Takes(c, e) ==
  /\ rx_tready' = TRUE
  /\ DOMAIN input_tdata' = Queues /\ DOMAIN input_META' = Queues
  /\ DOMAIN counter' = Queues /\ DOMAIN counter_inst' = Queues
  /\ credits' \in [Queues -> 0 .. 1]
  /\ \A q \in Queues \ {0} :
       input_tdata'[q] = << >> /\ input_META'[q] = FreeMeta /\ credits'[q] = 0
  /\ IsWord(input_single') /\ IsWord(input_tdata'[0])
  /\ Beats(c) = 1 =>
       /\ input_tdata'[0] = << >> /\ Len(input_single') = e
       /\ e = 1 => Entered(c) = 0 /\ Stored(input_single'[1], c, 1)
       /\ input_META'[0] = FreeMeta /\ credits'[0] = 0
  /\ Beats(c) > 1 =>
       /\ input_single' = << >> /\ Len(input_tdata'[0]) = e
       /\ e = 1 => Stored(input_tdata'[0][1], c, Entered(c) + 1)
       /\ \A n \in Nat : n = Entered(c) + e => Counted(c, n)'
       /\ credits'[0] = IF Entered(c) + e = Beats(c) THEN 1 ELSE 0

(* What Takes needs of the state before.                                   *)
LEMMA LiveQueue ==
  ASSUME SentInTurn, PathTypes, QueueInv, NEW c \in Requests, Live(c)
  PROVE  /\ Beats(c) \in Nat \ {0} /\ Entered(c) \in Nat /\ ClearedCredits = credits
         /\ credits \in [Queues -> 0 .. 1]
         /\ \A q \in Queues \ {0} :
              input_tdata[q] = << >> /\ input_META[q] = FreeMeta /\ credits[q] = 0
         /\ Beats(c) = 1 => /\ input_tdata[0] = << >> /\ input_META[0] = FreeMeta
                            /\ credits[0] = 0
         /\ Beats(c) > 1 => /\ input_single = << >> /\ Counted(c, Entered(c))
                            /\ credits[0] = IF Entered(c) = Beats(c) THEN 1 ELSE 0
<1>1. Beats(c) \in Nat \ {0} /\ Entered(c) \in Nat
  BY RequestFacts, InvTypes
<1>2. Beats(c) = 1 => ~ (Beats(c) > 1)
  OBVIOUS
<1>. QED
  BY <1>1, <1>2, Cleared DEF QueueInv, PathTypes

LEMMA TakesNothing ==
  ASSUME SentInTurn, PathTypes, QueueInv, NEW c \in Requests, Live(c), UNCHANGED plan,
         NoInput
  PROVE  Takes(c, 0)
<1>1. /\ rx_tready' = TRUE /\ input_single' = << >>
      /\ input_tdata' = [q \in Queues |-> << >>]
      /\ credits' = credits
      /\ UNCHANGED << input_META, counter, counter_inst >>
  BY LiveQueue DEF NoInput
<1>2. 0 \in Queues
  BY ZeroIsQueue
<1>3. /\ DOMAIN input_META = Queues /\ DOMAIN counter = Queues /\ DOMAIN counter_inst = Queues
      /\ credits \in [Queues -> 0 .. 1]
  BY DEF PathTypes
<1>4. IsWord(input_single') /\ IsWord(input_tdata'[0])
      /\ Len(input_single') = 0 /\ Len(input_tdata'[0]) = 0
  BY <1>1, <1>2, IsWordMade
<1>5. Entered(c) + 0 = Entered(c)
  BY InvTypes
<1>6. Counted(c, Entered(c)) => \A n \in Nat : n = Entered(c) => Counted(c, n)'
  <2>1. /\ Request(c)' = Request(c) /\ Size(c)' = Size(c) /\ Beats(c)' = Beats(c)
        /\ \A n : PrevCut(c, n)' = PrevCut(c, n)
    BY PlanKept
  <2>. QED
    BY <1>1, <2>1 DEF Counted
<1>7. \A q \in Queues : input_tdata'[q] = << >>
  BY <1>1
<1>. QED
  BY <1>1, <1>2, <1>3, <1>4, <1>5, <1>6, <1>7, LiveQueue DEF Takes

LEMMA TakesSingle ==
  ASSUME SentInTurn, PathTypes, QueueInv, NEW c \in Requests, Live(c), UNCHANGED plan,
         Beats(c) = 1, NEW w, NextWord(w, c),
         MatchExisting(w) \/ SinglePacket(w) \/ Allocate(w) \/ NoQueue(w)
  PROVE  Takes(c, 1)
<1>1. w.n = 1 /\ Entered(c) = 0
  <2>1. w.n \in 1 .. Beats(c) /\ Entered(c) = w.n - 1
    BY NextWordFacts
  <2>. QED
    BY <2>1
<1>2. Matching(w) = {}
  BY NextWordFacts, NoOtherMatch, LiveQueue
<1>3. InputReady(single_fifo, QueueDepth)
  <2>1. SingleLen = 0
    BY <1>1, InvTypes DEF Entered
  <2>2. InMemory(single_fifo) \in Int /\ InMemory(single_fifo) <= SingleLen
    BY FifoIsSeq DEF PathTypes, SingleLen
  <2>. QED
    BY <2>1, <2>2, SchedulerAssumption DEF InputReady
<1>4. IsSingle(w)
  <2>1. w.first = TRUE /\ w.size = Size(c) /\ Size(c) \in 1 .. 1
    BY <1>1, NextWordFacts
  <2>2. w.last /\ w.len = 1 - PrevCut(c, 1) /\ PrevCut(c, 1) = 0
    <3>1. /\ w.last => w.len = w.n - PrevCut(c, w.n)
          /\ PrevCut(c, 1) = 0
          /\ (w.last /\ w.n >= Size(c)) <=> w.n = Beats(c)
      BY NextWordFacts
    <3>. QED
      BY <1>1, <3>1
  <2>. QED
    BY <1>3, <2>1, <2>2 DEF IsSingle
<1>5. SinglePacket(w)
  BY <1>2, <1>4 DEF MatchExisting, Allocate, NoQueue
<1>6. /\ input_single' = << QueueWord(w, w.work, w.size, TRUE) >> /\ rx_tready' = TRUE
      /\ credits' = credits /\ UNCHANGED inputVars
  BY <1>5, LiveQueue DEF SinglePacket
<1>7. Stored(QueueWord(w, w.work, w.size, TRUE), c, 1)
  BY <1>1, NextWordFacts DEF Stored, QueueWord, NextWord
<1>8. /\ IsWord(input_single') /\ Len(input_single') = 1
      /\ Stored(input_single'[1], c, 1)
  BY <1>6, <1>7, IsWordMade
<1>9. /\ DOMAIN input_tdata = Queues /\ DOMAIN input_META = Queues
      /\ DOMAIN counter = Queues /\ DOMAIN counter_inst = Queues /\ IsWord(input_tdata[0])
  BY ZeroIsQueue DEF PathTypes
<1>10. UNCHANGED << input_tdata, input_META, counter, counter_inst >>
  BY <1>6 DEF inputVars
<1>11. ~ (Beats(c) > 1)
  OBVIOUS
<1>. QED
  BY <1>1, <1>6, <1>8, <1>9, <1>10, <1>11, LiveQueue DEF Takes

(* What the branches for longer requests write.                            *)
LEMMA TakesQueued ==
  ASSUME SentInTurn, PathTypes, QueueInv, NEW c \in Requests, Live(c), UNCHANGED plan,
         Beats(c) > 1, NEW n \in 1 .. Beats(c), n = Entered(c) + 1,
         NEW word, Stored(word, c, n),
         WriteQueue(0, word), GiveCredit(0, n = Beats(c)),
         rx_tready' = TRUE, UNCHANGED input_single,
         DOMAIN input_META' = Queues,
         \A q \in Queues \ {0} : input_META'[q] = input_META[q],
         DOMAIN counter' = Queues, DOMAIN counter_inst' = Queues,
         n = Beats(c) => input_META'[0] = FreeMeta,
         n # Beats(c) =>
           /\ input_META'[0] = [conn |-> Request(c).conn, work |-> Request(c).work]
           /\ counter'[0] = Size(c) /\ counter_inst'[0] = PrevCut(c, n + 1)
  PROVE  Takes(c, 1)
<1>1. Beats(c) \in Nat /\ Entered(c) \in Nat /\ 0 \in Queues
  BY LiveQueue, ZeroIsQueue
<1>2. Entered(c) # Beats(c) /\ credits[0] = 0
  <2>1. Entered(c) # Beats(c)
    BY <1>1
  <2>. QED
    BY <2>1, LiveQueue
<1>3. /\ credits' \in [Queues -> 0 .. 1] /\ \A q \in Queues \ {0} : credits'[q] = 0
      /\ credits'[0] = IF n = Beats(c) THEN 1 ELSE 0
  <2>1. credits' = IF n = Beats(c) THEN [credits EXCEPT ![0] = (@ + 1) % CreditRange]
                   ELSE credits
    BY LiveQueue DEF GiveCredit, WithCredit
  <2>2. (0 + 1) % CreditRange = 1
    BY DEF CreditRange
  <2>3. credits \in [Queues -> 0 .. 1] /\ \A q \in Queues \ {0} : credits[q] = 0
    BY LiveQueue
  <2>4. credits' = IF n = Beats(c) THEN [credits EXCEPT ![0] = 1] ELSE credits
    BY <1>2, <2>1, <2>2
  <2>. QED
    BY <1>1, <1>2, <2>3, <2>4
<1>4. /\ DOMAIN input_tdata' = Queues /\ input_tdata'[0] = << word >>
      /\ \A q \in Queues \ {0} : input_tdata'[q] = << >>
  BY <1>1, LiveQueue DEF WriteQueue, PathTypes
<1>5. IsWord(input_tdata'[0]) /\ Len(input_tdata'[0]) = 1 /\ input_tdata'[0][1] = word
  BY <1>4, IsWordMade
<1>6. input_single' = << >> /\ IsWord(input_single')
  BY LiveQueue, IsWordMade
<1>7. Counted(c, n)'
  <2>1. /\ Request(c)' = Request(c) /\ Size(c)' = Size(c) /\ Beats(c)' = Beats(c)
        /\ \A m : PrevCut(c, m)' = PrevCut(c, m)
    BY PlanKept
  <2>2. n # Beats(c) => n \in 1 .. Beats(c) - 1
    BY <1>1
  <2>. QED
    BY <2>1, <2>2 DEF Counted, FreeMeta
<1>8. Beats(c) # 1
  BY <1>1
<1>9. \A q \in Queues \ {0} : input_META'[q] = FreeMeta
  BY LiveQueue
<1>. QED
  BY <1>3, <1>4, <1>5, <1>6, <1>7, <1>8, <1>9 DEF Takes

LEMMA TakesFirst ==
  ASSUME SentInTurn, PathTypes, QueueInv, NEW c \in Requests, Live(c), UNCHANGED plan,
         Beats(c) > 1, NEW w, NextWord(w, c), w.n = 1,
         MatchExisting(w) \/ SinglePacket(w) \/ Allocate(w) \/ NoQueue(w)
  PROVE  Takes(c, 1)
<1>1. /\ Entered(c) = w.n - 1 /\ w.conn = Request(c).conn
      /\ w.last = (w.n \in Request(c).cuts)
      /\ w.last => w.len = w.n - PrevCut(c, w.n) /\ PrevCut(c, w.n + 1) = w.n
      /\ ~ w.last => PrevCut(c, w.n + 1) = PrevCut(c, w.n)
      /\ PrevCut(c, 1) = 0
      /\ (w.last /\ w.n >= Size(c)) <=> w.n = Beats(c)
      /\ w.work = Request(c).work /\ w.size = Size(c) /\ Size(c) \in 1 .. Beats(c)
      /\ w.n = 1 => w.first = TRUE
  BY NextWordFacts
<1>2. Beats(c) \in Nat /\ Entered(c) = 0 /\ w.n # Beats(c) /\ 0 \in Queues
  BY <1>1, LiveQueue, ZeroIsQueue
<1>3. input_META[0] = FreeMeta
  <2>1. Counted(c, Entered(c)) /\ ~ (0 \in 1 .. Beats(c) - 1)
    BY LiveQueue
  <2>. QED
    BY <1>2, <2>1 DEF Counted
<1>4. Matching(w) = {} /\ FreeQueues = Queues
  BY <1>3, NextWordFacts, NoOtherMatch
<1>5. w.last => w.len = 1 /\ ~ (1 >= w.size)
  BY <1>1, <1>2
<1>6. ~ IsSingle(w) /\ ~ (w.last /\ w.len >= w.size)
  <2>1. w.last => w.len # w.size /\ ~ (w.len >= w.size)
    BY <1>1, <1>5
  <2>. QED
    BY <2>1 DEF IsSingle
<1>7. Allocate(w)
  BY <1>1, <1>2, <1>4, <1>6 DEF MatchExisting, SinglePacket, NoQueue
<1>8. Min(Queues) = 0
  <2>1. Queues \subseteq Int /\ \A y \in Queues : 0 <= y
    BY DEF Queues
  <2>. HIDE DEF Queues
  <2>. QED
    BY <1>2, <2>1, UniqueMin
<1>9. /\ WriteQueue(0, QueueWord(w, w.work, w.size, FALSE))
      /\ input_META' = [input_META EXCEPT ![0] = [conn |-> w.conn, work |-> w.work]]
      /\ Count(0, IF w.last THEN w.len ELSE 0, w.size, FALSE)
      /\ GiveCredit(0, FALSE) /\ rx_tready' = TRUE /\ UNCHANGED input_single
  BY <1>4, <1>6, <1>7, <1>8 DEF Allocate
<1>10. Stored(QueueWord(w, w.work, w.size, FALSE), c, 1)
  BY <1>1, <1>2 DEF Stored, QueueWord, NextWord
<1>11. GiveCredit(0, 1 = Beats(c))
  BY <1>2, <1>9
<1>12. DOMAIN counter = Queues /\ DOMAIN counter_inst = Queues /\ DOMAIN input_META = Queues
  BY DEF PathTypes
<1>13. /\ DOMAIN counter' = Queues /\ DOMAIN counter_inst' = Queues
       /\ counter'[0] = Size(c) /\ counter_inst'[0] = PrevCut(c, 1 + 1)
  BY <1>1, <1>2, <1>5, <1>9, <1>12 DEF Count
<1>14. /\ DOMAIN input_META' = Queues
       /\ \A q \in Queues \ {0} : input_META'[q] = input_META[q]
       /\ input_META'[0] = [conn |-> Request(c).conn, work |-> Request(c).work]
  BY <1>1, <1>2, <1>9, <1>12
<1>15. 1 \in 1 .. Beats(c) /\ 1 = Entered(c) + 1 /\ 1 # Beats(c)
  BY <1>2
<1>. QED
  BY <1>9, <1>10, <1>11, <1>13, <1>14, <1>15, TakesQueued

LEMMA TakesNext ==
  ASSUME SentInTurn, PathTypes, QueueInv, NEW c \in Requests, Live(c), UNCHANGED plan,
         Beats(c) > 1, NEW w, NextWord(w, c), w.n # 1,
         MatchExisting(w) \/ SinglePacket(w) \/ Allocate(w) \/ NoQueue(w)
  PROVE  Takes(c, 1)
<1>. DEFINE n == w.n
<1>1. /\ n \in 1 .. Beats(c) /\ Entered(c) = n - 1 /\ w.conn = Request(c).conn
      /\ w.conn # Free
      /\ w.last => w.len = n - PrevCut(c, n) /\ PrevCut(c, n + 1) = n
      /\ ~ w.last => PrevCut(c, n + 1) = PrevCut(c, n)
      /\ PrevCut(c, n) \in Nat
      /\ (w.last /\ n >= Size(c)) <=> n = Beats(c)
      /\ w.last = (n \in Request(c).cuts)
      /\ w.req = c /\ n # 1
  BY NextWordFacts DEF NextWord
<1>. HIDE DEF n
<1>2. Beats(c) \in Nat /\ n \in Nat /\ n - 1 \in 1 .. Beats(c) - 1 /\ 0 \in Queues
  BY <1>1, LiveQueue, ZeroIsQueue
<1>3. /\ input_META[0] = [conn |-> Request(c).conn, work |-> Request(c).work]
      /\ counter[0] = Size(c) /\ counter_inst[0] = PrevCut(c, n)
  <2>1. Counted(c, Entered(c)) /\ (n - 1) + 1 = n /\ n - 1 # 0 /\ n - 1 # Beats(c)
    BY <1>2, LiveQueue
  <2>. QED
    BY <1>1, <1>2, <2>1 DEF Counted
<1>4. Matching(w) = {0}
  <2>1. QueueLen <= Entered(c) /\ QueueLen \in Nat
    BY InvTypes DEF Entered
  <2>2. InMemory(queue_fifo[0]) \in Int /\ InMemory(queue_fifo[0]) <= QueueLen
    BY <1>2, FifoIsSeq DEF PathTypes, QueueLen
  <2>3. Beats(c) <= QueueDepth /\ QueueDepth \in Nat
    BY RequestFacts, SchedulerAssumption DEF Live
  <2>4. InputReady(queue_fifo[0], QueueDepth)
    BY <1>1, <1>2, <2>1, <2>2, <2>3 DEF InputReady
  <2>5. 0 \in Matching(w)
    BY <1>1, <1>2, <1>3, <2>4 DEF Matching
  <2>. QED
    BY <1>1, <2>5, NoOtherMatch
<1>5. Min({0}) = 0
  BY UniqueMin
<1>6. MatchExisting(w)
  BY <1>4 DEF SinglePacket, Allocate, NoQueue
<1>. DEFINE count == counter_inst[0] + IF w.last THEN w.len ELSE 0
            end == w.last /\ count >= counter[0]
<1>7. /\ WriteQueue(0, QueueWord(w, input_META[0].work, counter[0], end))
      /\ Count(0, count, counter[0], end)
      /\ input_META' = [input_META EXCEPT ![0] = IF end THEN FreeMeta ELSE @]
      /\ GiveCredit(0, end) /\ rx_tready' = TRUE /\ UNCHANGED input_single
  BY <1>4, <1>5, <1>6 DEF MatchExisting
<1>8. count = PrevCut(c, n + 1) /\ (w.last => count = n)
  BY <1>1, <1>2, <1>3
<1>9. end \in BOOLEAN /\ (end <=> n = Beats(c))
  <2>1. w.last \in BOOLEAN
    BY <1>1
  <2>. QED
    BY <1>1, <1>3, <1>8, <2>1
<1>. HIDE DEF count, end
<1>10. end = (n = Beats(c))
  BY <1>9
<1>11. Stored(QueueWord(w, input_META[0].work, counter[0], end), c, n)
  BY <1>1, <1>3, <1>10 DEF Stored, QueueWord, n
<1>12. DOMAIN counter = Queues /\ DOMAIN counter_inst = Queues /\ DOMAIN input_META = Queues
  BY DEF PathTypes
<1>13. /\ DOMAIN counter' = Queues /\ DOMAIN counter_inst' = Queues
       /\ n # Beats(c) => counter'[0] = Size(c) /\ counter_inst'[0] = PrevCut(c, n + 1)
  BY <1>2, <1>3, <1>7, <1>8, <1>9, <1>12 DEF Count
<1>14. /\ DOMAIN input_META' = Queues
       /\ \A q \in Queues \ {0} : input_META'[q] = input_META[q]
       /\ n = Beats(c) => input_META'[0] = FreeMeta
       /\ n # Beats(c) => input_META'[0] = input_META[0]
  BY <1>2, <1>7, <1>9, <1>12
<1>15. GiveCredit(0, n = Beats(c)) /\ n = Entered(c) + 1
  BY <1>1, <1>2, <1>7, <1>10
<1>. QED
  BY <1>1, <1>3, <1>7, <1>11, <1>13, <1>14, <1>15, TakesQueued

(* The input block, while a request is on its way.                         *)
LEMMA InputLive ==
  ASSUME SentInTurn, PathTypes, PipeInv, QueueInv, NEW c \in Requests, Live(c),
         UNCHANGED plan, InputBlock(scheduler_rx)
  PROVE  \/ scheduler_rx = << >> /\ Takes(c, 0)
         \/ /\ scheduler_rx # << >> /\ Takes(c, 1)
            /\ Late(c) = PipeLen /\ PipeLen > 0 /\ Entered(c) < sent[c]
<1>1. rx_tready = TRUE
  BY DEF PathTypes
<1>2. CASE scheduler_rx = << >>
  <2>1. NoInput
    BY <1>2 DEF InputBlock
  <2>. QED
    BY <1>2, <2>1, TakesNothing
<1>3. CASE scheduler_rx # << >>
  <2>. DEFINE w == PipeWord(1)
  <2>1. /\ scheduler_rx = << w >> /\ PipeLen > 0 /\ RightWord(w) /\ ForSlots(w.req)
        /\ w.req = c /\ w.n = Entered(c) + 1 /\ Late(c) = PipeLen
    BY <1>3, OfferedWord
  <2>. HIDE DEF w
  <2>2. NextWord(w, c)
    BY <2>1 DEF NextWord
  <2>3. scheduler_rx[1] = w
    BY <2>1
  <2>4. MatchExisting(w) \/ SinglePacket(w) \/ Allocate(w) \/ NoQueue(w)
    BY <1>1, <1>3, <2>3 DEF InputBlock
  <2>5. Beats(c) = 1 \/ Beats(c) > 1
    BY LiveQueue
  <2>6. Takes(c, 1)
    BY <2>2, <2>4, <2>5, TakesSingle, TakesFirst, TakesNext
  <2>7. Entered(c) < sent[c]
    <3>1. w.n \in 1 .. sent[c]
      BY <2>1 DEF RightWord
    <3>. QED
      BY <2>1, <3>1, InvTypes
  <2>. QED
    BY <1>3, <2>1, <2>6, <2>7
<1>. QED
  BY <1>2, <1>3

(* The input block, while there is none.                                   *)
LEMMA InputNone ==
  ASSUME PathTypes, PipeInv, QueueInv, NoneLive, InputBlock(scheduler_rx)
  PROVE  /\ scheduler_rx = << >> /\ rx_tready' = TRUE /\ input_single' = << >>
         /\ input_tdata' = [q \in Queues |-> << >>] /\ credits' = [q \in Queues |-> 0]
         /\ UNCHANGED << input_META, counter, counter_inst >>
<1>1. scheduler_rx = << >>
  BY OfferedWord
<1>2. NoInput
  BY <1>1 DEF InputBlock
<1>. QED
  BY <1>1, <1>2, Cleared DEF NoInput

-----------------------------------------------------------------------------
(* The output.                                                             *)

LEMMA EmptyFifoStays ==
  ASSUME NEW depth, NEW ready \in BOOLEAN
  PROVE  FifoEdge(<< >>, depth, << >>, ready) = << >> /\ ~ OutputValid(<< >>)
<1>1. ~ OutputValid(<< >>)
  BY DEF OutputValid
<1>. QED
  BY <1>1 DEF FifoEdge

(* d beats of c leave, in order.                                           *)
Leaves(c, d) ==
  /\ delivered' = [delivered EXCEPT ![c] = @ + d]
  /\ delivered[c] + d <= Entered(c)
  /\ leaving' = IF d = 0 THEN leaving ELSE IF delivered[c] + 1 = Beats(c) THEN 0 ELSE c
  /\ d = 1 => Stored(Output[1], c, delivered[c] + 1)
  /\ DOMAIN queue_fifo' = Queues
  /\ \A q \in Queues \ {0} : queue_fifo'[q] = << >>
  /\ IsFifo(queue_fifo'[0]) /\ IsFifo(single_fifo')
  /\ Beats(c) = 1 =>
       /\ queue_fifo'[0] = << >> /\ Len(single_fifo') = SingleLen - d + SingleInputLen
       /\ d = 0 => \A i \in 1 .. Len(single_fifo') : Stored(single_fifo'[i].word, c, i)
  /\ Beats(c) > 1 =>
       /\ single_fifo' = << >> /\ Len(queue_fifo'[0]) = QueueLen - d + InputLen
       /\ \A i \in 1 .. Len(queue_fifo'[0]) :
            Stored(queue_fifo'[0][i].word, c, delivered[c] + d + i)

(* The queues that are not in use.                                         *)
LEMMA OtherQueues ==
  ASSUME PathTypes, QueueInv, QueueFifosEdge
  PROVE  /\ DOMAIN queue_fifo' = Queues
         /\ \A q \in Queues \ {0} : queue_fifo'[q] = << >> /\ ~ OutputValid(queue_fifo[q])
<1>1. \A q \in Queues \ {0} : queue_fifo[q] = << >> /\ input_tdata[q] = << >>
  BY DEF QueueInv
<1>2. \A q : output_tready(q) \in BOOLEAN
  BY DEF output_tready
<1>3. \A q \in Queues \ {0} :
        /\ FifoEdge(queue_fifo[q], QueueDepth, input_tdata[q], output_tready(q)) = << >>
        /\ ~ OutputValid(queue_fifo[q])
  BY <1>1, <1>2, EmptyFifoStays
<1>. QED
  BY <1>3 DEF QueueFifosEdge

(* The step of RestOfPath that notes what has left.                        *)
Noted ==
  \/ Output # << >> /\ Deliver(Output[1])
  \/ Output = << >> /\ UNCHANGED << delivered, leaving >>

LEMMA NotedBeat ==
  ASSUME SentInTurn, PathTypes, NEW c \in Requests, Noted, NEW d \in {0, 1},
         d = 0 => Output = << >>,
         d = 1 => Output # << >> /\ Stored(Output[1], c, delivered[c] + 1)
  PROVE  /\ delivered' = [delivered EXCEPT ![c] = @ + d]
         /\ leaving' = IF d = 0 THEN leaving ELSE IF delivered[c] + 1 = Beats(c) THEN 0 ELSE c
<1>1. delivered \in [Requests -> Nat]
  BY DEF PathTypes
<1>2. CASE d = 0
  <2>1. UNCHANGED << delivered, leaving >>
    BY <1>2 DEF Noted
  <2>2. delivered[c] + 0 = delivered[c]
    BY <1>1
  <2>3. delivered = [delivered EXCEPT ![c] = delivered[c]]
    BY <1>1
  <2>. QED
    BY <1>2, <2>1, <2>2, <2>3
<1>3. CASE d = 1
  <2>1. Output[1].req = c /\ Output[1].n = delivered[c] + 1 /\ Deliver(Output[1])
    BY <1>3 DEF Noted, Stored
  <2>2. Extent(c) = Beats(c)
    BY ExtentIsBeats
  <2>. QED
    BY <1>3, <2>1, <2>2 DEF Deliver
<1>. QED
  BY <1>2, <1>3

LEMMA EnteredBound ==
  ASSUME SentInTurn, PathTypes, PipeInv, NEW c \in Requests, Live(c)
  PROVE  Entered(c) <= sent[c] /\ Entered(c) <= Beats(c)
<1>1. Late(c) \in 0 .. PipeLen /\ Late(c) = sent[c] - Entered(c)
  BY DEF PipeInv, Late
<1>2. PipeLen \in Nat /\ sent[c] \in Nat /\ Entered(c) \in Nat /\ sent[c] <= Beats(c)
  BY InvTypes
<1>. QED
  BY <1>1, <1>2, RequestFacts

LEMMA LeavesSingle ==
  ASSUME SentInTurn, PathTypes, PipeInv, QueueInv, NEW c \in Requests, Live(c),
         Beats(c) = 1, QueueFifosEdge, Noted
  PROVE  \E d \in {0, 1} :
           /\ Leaves(c, d)
           /\ d = 1 => OutputValid(single_fifo)
           /\ d = Len(Output)
<1>. DEFINE ready == output_tready_single_FIFO
<1>1. /\ queue_fifo[0] = << >> /\ input_tdata[0] = << >> /\ 0 \in Queues
      /\ \A i \in 1 .. SingleLen : Stored(single_fifo[i].word, c, i)
      /\ \A i \in 1 .. SingleInputLen : Stored(input_single[i], c, 1)
  BY ZeroIsQueue DEF QueueInv
<1>2. /\ queue_fifo'[0] = << >> /\ ~ OutputValid(queue_fifo[0])
      /\ single_fifo' = FifoEdge(single_fifo, QueueDepth, input_single, ready)
      /\ ready \in BOOLEAN
  <2>1. output_tready(0) \in BOOLEAN /\ ready \in BOOLEAN
    BY DEF output_tready, output_tready_single_FIFO
  <2>2. queue_fifo'[0] = FifoEdge(queue_fifo[0], QueueDepth, input_tdata[0], output_tready(0))
    BY <1>1 DEF QueueFifosEdge
  <2>. QED
    BY <1>1, <2>1, <2>2, EmptyFifoStays DEF QueueFifosEdge
<1>3. /\ SingleLen \in Nat /\ SingleInputLen \in {0, 1} /\ SingleLen + SingleInputLen <= 1
      /\ delivered[c] = 0 /\ Entered(c) = SingleLen + SingleInputLen
  <2>1. QueueLen = 0 /\ InputLen = 0
    BY <1>1 DEF QueueLen, InputLen
  <2>2. delivered[c] = 0
    BY InvTypes DEF Live
  <2>. QED
    BY <2>1, <2>2, InvTypes, EnteredBound DEF Entered
<1>4. /\ IsFifo(single_fifo) /\ IsWord(input_single)
      /\ input_single # << >> => InputReady(single_fifo, QueueDepth)
  <2>1. IsFifo(single_fifo) /\ IsWord(input_single)
    BY DEF PathTypes
  <2>2. ASSUME input_single # << >>
        PROVE  InputReady(single_fifo, QueueDepth)
    <3>1. SingleInputLen = 1
      BY <2>1, <2>2, WordIsSeq DEF SingleInputLen
    <3>2. InMemory(single_fifo) \in Int /\ InMemory(single_fifo) <= SingleLen
      BY <2>1, FifoIsSeq DEF SingleLen
    <3>. QED
      BY <1>3, <3>1, <3>2, SchedulerAssumption DEF InputReady
  <2>. QED
    BY <2>1, <2>2
<1>. HIDE DEF ready
<1>5. FifoMoved(single_fifo, input_single, ready, single_fifo')
  BY <1>2, <1>4, FifoEdgeFacts
<1>6. PICK d \in {0, 1} : d = Popped(single_fifo, ready)
  BY DEF Popped
<1>7. /\ IsFifo(single_fifo') /\ d <= SingleLen
      /\ Len(single_fifo') = SingleLen - d + SingleInputLen
      /\ \A i \in 1 .. SingleLen - d : single_fifo'[i].word = single_fifo[i + d].word
      /\ SingleInputLen = 1 => single_fifo'[SingleLen - d + 1].word = input_single[1]
  <2>1. /\ IsFifo(single_fifo') /\ d \in 0 .. SingleLen
        /\ Len(single_fifo') = SingleLen - d + SingleInputLen
        /\ \A i \in 1 .. SingleLen - d : single_fifo'[i].word = single_fifo[i + d].word
        /\ SingleInputLen = 1 => single_fifo'[SingleLen - d + 1].word = input_single[1]
    BY <1>5, <1>6 DEF FifoMoved, SingleLen, SingleInputLen
  <2>2. d <= SingleLen
    BY <1>3, <2>1
  <2>. QED
    BY <2>1, <2>2
<1>8. /\ d = 0 => Output = << >>
      /\ d = 1 => Output = << single_fifo[1].word >> /\ OutputValid(single_fifo)
  <2>1. d = 1 <=> (ready /\ OutputValid(single_fifo))
    BY <1>6 DEF Popped
  <2>2. {q \in Queues : output_tready(q) /\ OutputValid(queue_fifo[q])} = {}
    BY <1>2, OtherQueues
  <2>. QED
    BY <2>1, <2>2 DEF Output, OutputWord, ready
<1>9. d = 1 => Stored(single_fifo[1].word, c, 1)
  <2>1. d = 1 => 1 \in 1 .. SingleLen
    BY <1>3, <1>7
  <2>. QED
    BY <1>1, <2>1
<1>10. /\ d = Len(Output)
       /\ d = 0 => Output = << >>
       /\ d = 1 => Output # << >> /\ Stored(Output[1], c, delivered[c] + 1)
       /\ d = 1 => Stored(Output[1], c, delivered[c] + 1)
  <2>1. d = 0 => Len(Output) = 0
    BY <1>8
  <2>2. d = 1 => Len(Output) = 1 /\ Output # << >> /\ Output[1] = single_fifo[1].word
    BY <1>8, IsWordMade
  <2>3. delivered[c] + 1 = 1
    BY <1>3
  <2>. QED
    BY <1>8, <1>9, <2>1, <2>2, <2>3
<1>11. /\ delivered' = [delivered EXCEPT ![c] = @ + d]
       /\ leaving' = IF d = 0 THEN leaving ELSE IF delivered[c] + 1 = Beats(c) THEN 0 ELSE c
  BY <1>10, NotedBeat
<1>12. ASSUME d = 0, NEW i \in 1 .. Len(single_fifo')
       PROVE  Stored(single_fifo'[i].word, c, i)
  <2>1. i = 1 /\ (SingleLen = 0 => SingleInputLen = 1)
    BY <1>3, <1>7, <1>12
  <2>2. CASE SingleLen = 0
    BY <1>1, <1>7, <1>12, <2>1, <2>2
  <2>3. CASE SingleLen # 0
    <3>1. i \in 1 .. SingleLen - d /\ i + d = i /\ i \in 1 .. SingleLen
      BY <1>3, <1>12, <2>1, <2>3
    <3>. QED
      BY <1>1, <1>7, <3>1
  <2>. QED
    BY <2>2, <2>3
<1>13. delivered[c] + d <= Entered(c) /\ ~ (Beats(c) > 1)
  BY <1>3, <1>7
<1>14. IsFifo(queue_fifo'[0])
  BY <1>1, <1>2 DEF PathTypes
<1>15. Leaves(c, d)
  BY <1>2, <1>7, <1>10, <1>11, <1>12, <1>13, <1>14, OtherQueues DEF Leaves
<1>. QED
  BY <1>8, <1>10, <1>15

LEMMA LeavesQueued ==
  ASSUME SentInTurn, PathTypes, PipeInv, QueueInv, NEW c \in Requests, Live(c),
         Beats(c) > 1, QueueFifosEdge, Noted
  PROVE  \E d \in {0, 1} :
           /\ Leaves(c, d)
           /\ d = 1 <=> (output_tready(0) /\ OutputValid(queue_fifo[0]))
           /\ d = Len(Output)
<1>. DEFINE ready == output_tready(0)
            fifo == queue_fifo[0]
            word == input_tdata[0]
<1>1. /\ single_fifo = << >> /\ input_single = << >> /\ 0 \in Queues
      /\ \A i \in 1 .. QueueLen : Stored(fifo[i].word, c, delivered[c] + i)
      /\ \A i \in 1 .. InputLen : Stored(word[i], c, Entered(c))
  BY ZeroIsQueue DEF QueueInv
<1>2. /\ single_fifo' = << >> /\ ~ OutputValid(single_fifo)
      /\ fifo' = FifoEdge(fifo, QueueDepth, word, ready)
      /\ ready \in BOOLEAN
  <2>1. output_tready_single_FIFO \in BOOLEAN /\ ready \in BOOLEAN
    BY DEF output_tready, output_tready_single_FIFO
  <2>. QED
    BY <1>1, <2>1, EmptyFifoStays DEF QueueFifosEdge
<1>3. /\ QueueLen \in Nat /\ InputLen \in {0, 1} /\ delivered[c] \in Nat
      /\ Entered(c) = delivered[c] + QueueLen + InputLen
      /\ Entered(c) <= Beats(c) /\ Beats(c) <= QueueDepth /\ Beats(c) \in Nat
      /\ QueueDepth \in Nat
  <2>1. SingleLen = 0 /\ SingleInputLen = 0
    BY <1>1 DEF SingleLen, SingleInputLen
  <2>. QED
    BY <2>1, InvTypes, EnteredBound, RequestFacts, SchedulerAssumption DEF Entered, Live
<1>4. /\ IsFifo(fifo) /\ IsWord(word)
      /\ word # << >> => InputReady(fifo, QueueDepth)
  <2>1. IsFifo(fifo) /\ IsWord(word)
    BY <1>1 DEF PathTypes
  <2>2. ASSUME word # << >>
        PROVE  InputReady(fifo, QueueDepth)
    <3>1. InputLen = 1
      BY <2>1, <2>2, WordIsSeq DEF InputLen
    <3>2. InMemory(fifo) \in Int /\ InMemory(fifo) <= QueueLen
      BY <2>1, FifoIsSeq DEF QueueLen
    <3>. QED
      BY <1>3, <3>1, <3>2 DEF InputReady
  <2>. QED
    BY <2>1, <2>2
<1>. HIDE DEF ready
<1>5. FifoMoved(fifo, word, ready, fifo')
  BY <1>2, <1>4, FifoEdgeFacts
<1>6. PICK d \in {0, 1} : d = Popped(fifo, ready)
  BY DEF Popped
<1>7. /\ IsFifo(fifo') /\ d <= QueueLen
      /\ Len(fifo') = QueueLen - d + InputLen
      /\ \A i \in 1 .. QueueLen - d : fifo'[i].word = fifo[i + d].word
      /\ InputLen = 1 => fifo'[QueueLen - d + 1].word = word[1]
  <2>1. /\ IsFifo(fifo') /\ d \in 0 .. QueueLen
        /\ Len(fifo') = QueueLen - d + InputLen
        /\ \A i \in 1 .. QueueLen - d : fifo'[i].word = fifo[i + d].word
        /\ InputLen = 1 => fifo'[QueueLen - d + 1].word = word[1]
    BY <1>5, <1>6 DEF FifoMoved, QueueLen, InputLen
  <2>2. d <= QueueLen
    BY <1>3, <2>1
  <2>. QED
    BY <2>1, <2>2
<1>8. /\ d = 0 => Output = << >>
      /\ d = 1 => Output = << fifo[1].word >>
      /\ d = 1 <=> (ready /\ OutputValid(fifo))
  <2>1. d = 1 <=> (ready /\ OutputValid(fifo))
    BY <1>6 DEF Popped
  <2>. DEFINE popped == {q \in Queues : output_tready(q) /\ OutputValid(queue_fifo[q])}
  <2>2. popped = IF d = 1 THEN {0} ELSE {}
    BY <1>1, <2>1, OtherQueues DEF ready
  <2>3. Min({0}) = 0
    BY UniqueMin
  <2>. HIDE DEF popped
  <2>4. Output = IF popped # {} THEN << OutputWord(queue_fifo[Min(popped)]) >> ELSE << >>
    BY <1>2 DEF Output, popped
  <2>. QED
    BY <2>1, <2>2, <2>3, <2>4 DEF OutputWord
<1>9. d = 1 => Stored(fifo[1].word, c, delivered[c] + 1)
  <2>1. d = 1 => 1 \in 1 .. QueueLen
    BY <1>3, <1>7
  <2>. QED
    BY <1>1, <2>1
<1>10. /\ d = Len(Output)
       /\ d = 0 => Output = << >>
       /\ d = 1 => Output # << >> /\ Stored(Output[1], c, delivered[c] + 1)
       /\ d = 1 => Stored(Output[1], c, delivered[c] + 1)
  <2>1. d = 0 => Len(Output) = 0
    BY <1>8
  <2>2. d = 1 => Len(Output) = 1 /\ Output # << >> /\ Output[1] = fifo[1].word
    BY <1>8, IsWordMade
  <2>. QED
    BY <1>8, <1>9, <2>1, <2>2
<1>11. /\ delivered' = [delivered EXCEPT ![c] = @ + d]
       /\ leaving' = IF d = 0 THEN leaving ELSE IF delivered[c] + 1 = Beats(c) THEN 0 ELSE c
  BY <1>10, NotedBeat
<1>12. ASSUME NEW i \in 1 .. Len(fifo')
       PROVE  Stored(fifo'[i].word, c, delivered[c] + d + i)
  <2>1. i \in 1 .. QueueLen - d + InputLen
    BY <1>7
  <2>2. CASE i \in 1 .. QueueLen - d
    <3>1. i + d \in 1 .. QueueLen /\ delivered[c] + (i + d) = delivered[c] + d + i
      BY <1>3, <2>2
    <3>2. Stored(fifo[i + d].word, c, delivered[c] + (i + d))
      BY <1>1, <3>1
    <3>. QED
      BY <1>7, <2>2, <3>1, <3>2
  <2>3. CASE i \notin 1 .. QueueLen - d
    <3>1. InputLen = 1 /\ i = QueueLen - d + 1 /\ Entered(c) = delivered[c] + d + i
      <4>1. d \in {0, 1} /\ d <= QueueLen /\ QueueLen \in Nat /\ InputLen \in {0, 1}
        BY <1>3, <1>7
      <4>2. InputLen = 1 /\ i = QueueLen - d + 1
        BY <2>1, <2>3, <4>1
      <4>. QED
        BY <1>3, <4>1, <4>2
    <3>2. Stored(word[1], c, Entered(c))
      BY <1>1, <3>1
    <3>. QED
      BY <1>7, <3>1, <3>2
  <2>. QED
    BY <2>2, <2>3
<1>13. delivered[c] + d <= Entered(c) /\ Beats(c) # 1
  BY <1>3, <1>7
<1>14. IsFifo(single_fifo')
  BY <1>1, <1>2 DEF PathTypes
<1>15. Leaves(c, d)
  BY <1>2, <1>7, <1>10, <1>11, <1>12, <1>13, <1>14, OtherQueues DEF Leaves
<1>. QED
  BY <1>8, <1>10, <1>15 DEF ready

-----------------------------------------------------------------------------
(* The arbiter.                                                            *)

LEMMA WhoHasCredit ==
  ASSUME PathTypes, QueueInv
  PROVE  /\ InCredit([q \in Queues |-> 0]) = IF credits[0] = 1 THEN {0} ELSE {}
         /\ credits[0] \in {0, 1} /\ 0 \in Queues
<1>1. /\ 0 \in Queues /\ credits \in [Queues -> 0 .. 1]
      /\ \A q \in Queues \ {0} : credits[q] = 0
  BY ZeroIsQueue DEF PathTypes, QueueInv
<1>2. credits[0] \in {0, 1}
  BY <1>1
<1>3. \A q \in Queues : credits[q] > 0 <=> (q = 0 /\ credits[0] = 1)
  BY <1>1, <1>2
<1>4. InCredit([q \in Queues |-> 0]) = {q \in Queues : credits[q] > 0}
  BY DEF InCredit
<1>. QED
  BY <1>1, <1>2, <1>3, <1>4

LEMMA ZeroDeductions ==
  /\ [q \in Queues |-> 0] \in [Queues -> 0 .. 1]
  /\ \A q \in Queues : [p \in Queues |-> 0][q] = 0
OBVIOUS

(* What Choose selects.                                                    *)
LEMMA ChooseLowest ==
  ASSUME PathTypes, QueueInv, ClearedDeductions = [q \in Queues |-> 0], Choose
  PROVE  /\ output_deduct_credits' = [q \in Queues |-> 0]
         /\ output_tready_sel' = IF credits[0] = 1 THEN {0} ELSE {}
         /\ UNCHANGED output_queue_number
<1>. DEFINE S == InCredit([q \in Queues |-> 0])
<1>1. /\ output_deduct_credits' = [q \in Queues |-> 0] /\ UNCHANGED output_queue_number
      /\ output_tready_sel' = {q \in S : \A p \in S : q <= p}
  BY DEF Choose
<1>2. S = IF credits[0] = 1 THEN {0} ELSE {}
  BY WhoHasCredit
<1>. HIDE DEF S
<1>. QED
  BY <1>1, <1>2

(* While no request is on its way, the arbiter may select queue 0 once     *)
(* more, for a credit that is cleared at the same edge.                    *)
LEMMA ArbiterNone ==
  ASSUME PathTypes, QueueInv, ArbInv, NoneLive, Arbiter
  PROVE  /\ output_deduct_credits' = [q \in Queues |-> 0]
         /\ output_tready_sel' \subseteq {0}
<1>1. ClearedDeductions = [q \in Queues |-> 0] /\ single_fifo = << >>
      /\ credits[0] = output_deduct_credits[0]
  BY Cleared DEF QueueInv
<1>2. ~ OutputValid(single_fifo)
  BY <1>1 DEF OutputValid
<1>3. Active = {}
  BY <1>1, WhoHasCredit DEF Active, ArbInv
<1>4. Choose
  BY <1>2, <1>3 DEF Arbiter, SingleFirst
<1>. QED
  BY <1>1, <1>4, ChooseLowest

(* The arbiter's registers after d beats of c have left.                   *)
Arbitrates(c, d) ==
  /\ output_deduct_credits' \in [Queues -> 0 .. 1]
  /\ \A q \in Queues \ {0} : output_deduct_credits'[q] = 0
  /\ output_tready_sel' \subseteq {0}
  /\ output_tready_sel' # {} => credits[0] = 1
  /\ output_deduct_credits'[0] = 1 => credits[0] = 1 /\ output_tready_sel' = {}
  /\ delivered[c] + d < Beats(c) => output_deduct_credits'[0] = 0
  /\ delivered[c] + d = Beats(c) => output_deduct_credits'[0] = credits[0]
  /\ delivered[c] + d \in 1 .. Beats(c) - 1 =>
       output_tready_sel' = {0} /\ output_queue_number' = 0

LEMMA ArbiterSingle ==
  ASSUME SentInTurn, PathTypes, QueueInv, ArbInv, NEW c \in Requests, Live(c), Arbiter,
         Beats(c) = 1, NEW d \in {0, 1}
  PROVE  Arbitrates(c, d)
<1>1. /\ ClearedDeductions = [q \in Queues |-> 0] /\ credits[0] = 0 /\ 0 \in Queues
  BY Cleared, LiveQueue, ZeroIsQueue
<1>2. Active = {}
  BY <1>1, WhoHasCredit DEF Active
<1>3. SingleFirst \/ Choose
  BY <1>2 DEF Arbiter
<1>4. output_tready_sel' = {} /\ output_deduct_credits' = [q \in Queues |-> 0]
  BY <1>1, <1>3, ChooseLowest DEF SingleFirst
<1>5. delivered[c] + d \notin 1 .. Beats(c) - 1
  OBVIOUS
<1>. QED
  BY <1>1, <1>4, <1>5, ZeroDeductions DEF Arbitrates

LEMMA ArbiterQueued ==
  ASSUME SentInTurn, PathTypes, QueueInv, ArbInv, NEW c \in Requests, Live(c), Arbiter,
         Beats(c) > 1, NEW d \in {0, 1},
         d = 1 <=> (output_tready(0) /\ OutputValid(queue_fifo[0])),
         delivered[c] + d <= Entered(c)
  PROVE  Arbitrates(c, d)
<1>1. /\ ClearedDeductions = [q \in Queues |-> 0] /\ 0 \in Queues /\ credits[0] \in {0, 1}
      /\ Beats(c) \in Nat /\ delivered[c] \in Nat /\ delivered[c] < Beats(c)
      /\ Entered(c) \in Nat
  BY Cleared, LiveQueue, ZeroIsQueue, WhoHasCredit, InvTypes DEF Live
<1>2. /\ ~ OutputValid(single_fifo)
      /\ credits[0] = IF Entered(c) = Beats(c) THEN 1 ELSE 0
      /\ \A i \in 1 .. QueueLen : Stored(queue_fifo[0][i].word, c, delivered[c] + i)
  BY LiveQueue DEF QueueInv, OutputValid
<1>3. /\ output_tready_sel \subseteq {0}
      /\ output_tready_sel # {} /\ credits[0] = 0 => Entered(c) = 0
      /\ delivered[c] > 0 => /\ output_tready_sel = {0} /\ output_queue_number = 0
                             /\ Entered(c) = Beats(c)
  BY DEF ArbInv
<1>4. d = 1 => output_tready_sel = {0} /\ output_queue_number = 0 /\ OutputValid(queue_fifo[0])
  BY <1>3 DEF output_tready
<1>5. InCredit([q \in Queues |-> 0]) = IF credits[0] = 1 THEN {0} ELSE {}
  BY WhoHasCredit
<1>6. CASE credits[0] = 0
  <2>1. Active = {}
    BY <1>1, <1>5, <1>6 DEF Active
  <2>2. Choose
    BY <1>2, <2>1 DEF Arbiter, SingleFirst
  <2>3. output_tready_sel' = {} /\ output_deduct_credits' = [q \in Queues |-> 0]
    BY <1>1, <1>6, <2>2, ChooseLowest
  <2>4. delivered[c] = 0 /\ d = 0
    <3>1. Entered(c) # Beats(c)
      BY <1>2, <1>6
    <3>2. delivered[c] = 0
      BY <1>1, <1>3, <3>1
    <3>3. d = 1 => Entered(c) = 0
      BY <1>3, <1>4, <1>6
    <3>. QED
      BY <1>1, <3>2, <3>3
  <2>5. delivered[c] + d = 0 /\ 0 \notin 1 .. Beats(c) - 1 /\ 0 # Beats(c)
    BY <1>1, <2>4
  <2>. QED
    BY <1>1, <1>6, <2>3, <2>5, ZeroDeductions DEF Arbitrates
<1>7. CASE credits[0] = 1 /\ output_tready_sel = {}
  <2>1. Active = {}
    BY <1>7 DEF Active
  <2>2. Choose
    BY <1>2, <2>1 DEF Arbiter, SingleFirst
  <2>3. output_tready_sel' = {0} /\ output_deduct_credits' = [q \in Queues |-> 0]
    BY <1>1, <1>7, <2>2, ChooseLowest
  <2>4. delivered[c] = 0 /\ d = 0
    BY <1>1, <1>3, <1>4, <1>7
  <2>5. delivered[c] + d = 0 /\ 0 \notin 1 .. Beats(c) - 1 /\ 0 # Beats(c)
    BY <1>1, <2>4
  <2>. QED
    BY <1>1, <1>7, <2>3, <2>5, ZeroDeductions DEF Arbitrates
<1>8. CASE credits[0] = 1 /\ output_tready_sel = {0}
  <2>. DEFINE valid == OutputValid(queue_fifo[0])
              last == OutputWord(queue_fifo[0]).end
  <2>1. Active = {0}
    BY <1>1, <1>5, <1>8 DEF Active
  <2>2. Max({0}) = 0
    BY UniqueMax
  <2>3. EndOfRequest(0) \/ KeepPulling(0)
    BY <1>2, <2>1, <2>2 DEF Arbiter, SingleFirst
  <2>4. valid => last = (delivered[c] + 1 = Beats(c))
    <3>1. valid => 1 \in 1 .. QueueLen
      <4>1. valid => QueueLen > 0
        BY <1>1, FifoIsSeq DEF QueueLen, PathTypes
      <4>. QED
        BY <4>1, InvTypes
    <3>. QED
      BY <1>2, <3>1 DEF Stored, OutputWord
  <2>5. CASE EndOfRequest(0)
    <3>. DEFINE deducted == [ClearedDeductions EXCEPT ![0] = (@ + 1) % CreditRange]
                ready == {q \in InCredit(deducted) : OutputValid(queue_fifo[q])}
    <3>1. valid /\ delivered[c] + 1 = Beats(c)
      BY <2>4, <2>5 DEF EndOfRequest
    <3>2. d = 1
      <4>1. delivered[c] > 0
        BY <1>1, <3>1
      <4>. QED
        BY <1>3, <3>1, <4>1 DEF output_tready
    <3>3. (0 + 1) % CreditRange = 1
      BY DEF CreditRange
    <3>4. deducted = [[q \in Queues |-> 0] EXCEPT ![0] = 1]
      BY <1>1, <3>3
    <3>5. /\ deducted \in [Queues -> 0 .. 1] /\ deducted[0] = 1
          /\ \A q \in Queues \ {0} : deducted[q] = 0
      BY <1>1, <3>4
    <3>6. /\ output_deduct_credits' = deducted
          /\ output_tready_sel' = (output_tready_sel \ {0}) \cup RoundRobin(0, ready)
      BY <2>5 DEF EndOfRequest
    <3>. HIDE DEF deducted
    <3>7. InCredit(deducted) = {}
      <4>1. \A q \in Queues \ {0} : credits[q] = 0
        BY DEF QueueInv
      <4>. QED
        BY <1>8, <3>5, <4>1 DEF InCredit
    <3>8. output_tready_sel' = {}
      BY <1>8, <3>6, <3>7 DEF RoundRobin
    <3>9. ~ (delivered[c] + d < Beats(c)) /\ delivered[c] + d \notin 1 .. Beats(c) - 1
      BY <1>1, <3>1, <3>2
    <3>. QED
      BY <1>8, <3>5, <3>6, <3>8, <3>9 DEF Arbitrates
  <2>6. CASE KeepPulling(0)
    <3>1. /\ ~ (valid /\ last)
          /\ output_queue_number' = IF valid THEN 0 ELSE output_queue_number
          /\ output_tready_sel' = {0}
          /\ output_deduct_credits' = [q \in Queues |-> 0]
      BY <1>1, <2>6 DEF KeepPulling
    <3>2. delivered[c] + d # Beats(c)
      <4>1. d = 1 => delivered[c] + 1 # Beats(c)
        BY <1>4, <2>4, <3>1
      <4>. QED
        BY <1>1, <4>1
    <3>3. delivered[c] + d \in 1 .. Beats(c) - 1 => output_queue_number' = 0
      <4>1. delivered[c] + d \in 1 .. Beats(c) - 1 => delivered[c] > 0 \/ d = 1
        BY <1>1
      <4>. QED
        BY <1>3, <1>4, <3>1, <4>1
    <3>. QED
      BY <1>1, <1>8, <3>1, <3>2, <3>3, ZeroDeductions DEF Arbitrates
  <2>. QED
    BY <2>3, <2>5, <2>6
<1>. QED
  BY <1>1, <1>3, <1>6, <1>7, <1>8

-----------------------------------------------------------------------------
(* An edge while request c is on its way.                                  *)

(* Where the word that leaves the dispatcher's FIFO goes.                  *)
LEMMA PipeOut ==
  ASSUME PathTypes, PipeInv, NEW controller \in BOOLEAN, NEW k,
         k = IF dispatcher_tready(controller) /\ OutputValid(disp_fifo) THEN 1 ELSE 0
  PROVE  /\ scheduler_rx # << >> => k = 1
         /\ scheduler_rx = << >> /\ k = 1 => PipeLen > 0 /\ ~ ForSlots(PipeWord(1).req)
<1>1. ASSUME scheduler_rx # << >>
      PROVE  k = 1
  BY <1>1 DEF scheduler_rx, disp_tvalid, dispatcher_tready, PathTypes
<1>2. ASSUME scheduler_rx = << >>, k = 1
      PROVE  PipeLen > 0 /\ ~ ForSlots(PipeWord(1).req)
  <2>1. OutputValid(disp_fifo)
    BY <1>2
  <2>2. disp_fifo[1].word.work = RECONF_APP
    <3>1. << disp_tdata >> # << >>
      BY IsWordMade
    <3>. QED
      BY <1>2, <2>1, <3>1 DEF scheduler_rx, reconf_selected, disp_tvalid, disp_tdata, OutputWord
  <2>3. DispLen \in Nat /\ DispLen > 0 /\ RxLen \in {0, 1}
    BY <2>1, InvTypes, FifoIsSeq DEF PathTypes, DispLen
  <2>4. PipeLen > 0 /\ 1 <= DispLen /\ 1 \in 1 .. PipeLen
    BY <2>3 DEF PipeLen
  <2>5. PipeWord(1) = disp_fifo[1].word
    BY <2>4 DEF PipeWord
  <2>6. RightWord(PipeWord(1))
    BY <2>4 DEF PipeInv
  <2>. QED
    BY <2>2, <2>4, <2>5, <2>6 DEF RightWord, ForSlots
<1>. QED
  BY <1>1, <1>2

(* t beats of c are tagged, k words leave the dispatcher's FIFO.           *)
PipeMoves(t, k) ==
  /\ t \in {0, 1} /\ k \in {0, 1}
  /\ IsWord(rx_tdata_combined') /\ IsFifo(disp_fifo') /\ RxLen' = t
  /\ k <= PipeLen /\ PipeLen' = PipeLen - k + t
  /\ \A j \in 1 .. PipeLen - k : PipeWord(j)' = PipeWord(j + k)
  /\ t = 1 => /\ \A j \in Nat : j > PipeLen - k => PipeWord(j)' = rx_tdata_combined'[1]
              /\ RightWord(rx_tdata_combined[1])'

LiveEdge(c, t, k, e, d) ==
  /\ UNCHANGED plan /\ e \in {0, 1} /\ d \in {0, 1}
  /\ sent' \in [Requests -> Nat] /\ sent'[c] = sent[c] + t /\ sent'[c] <= Beats(c)
  /\ \A p \in Requests \ {c} : /\ sent'[p] = sent[p] /\ ~ Live(p)
                               /\ Open(p) => t = 0
  /\ PipeMoves(t, k)
  /\ t = 1 => rx_tdata_combined'[1].req = c /\ rx_tdata_combined'[1].n = sent'[c]
  /\ e = 1 => k = 1 /\ Late(c) = PipeLen
  /\ e = 0 /\ k = 1 => ~ ForSlots(PipeWord(1).req)
  /\ Takes(c, e) /\ Leaves(c, d) /\ Arbitrates(c, d)
  /\ DispInv'

LEMMA LiveEdgeMade ==
  ASSUME SentInTurn, PathInv, DispRoom, PathNext, NEW c \in Requests, Live(c)
  PROVE  \E t, k, e, d \in {0, 1} : LiveEdge(c, t, k, e, d)
<1>1. PathTypes /\ TurnInv /\ DispInv /\ PipeInv /\ QueueInv /\ ArbInv
  BY DEF PathInv
<1>2. /\ UNCHANGED plan
      /\ DispInv' /\ IsWord(rx_tdata_combined') /\ sent' \in [Requests -> Nat]
      /\ \A p \in Requests : sent'[p] <= Beats(p)
      /\ (sent' = sent /\ RxLen' = 0) \/ (\E r \in Requests : SentBy(r))
  BY <1>1, FrontStep
<1>3. PICK controller \in BOOLEAN : RestOfPath(controller)
  BY <1>1, FrontStep
<1>4. /\ DispFifoEdge(dispatcher_tready(controller)) /\ InputBlock(scheduler_rx)
      /\ Arbiter /\ QueueFifosEdge /\ Noted
  BY <1>3 DEF RestOfPath, SchedulerEdge, Noted
<1>5. PICK t \in {0, 1} : RxLen' = t
  BY <1>2, WordIsSeq DEF RxLen
<1>6. /\ sent'[c] = sent[c] + t
      /\ \A p \in Requests \ {c} : /\ sent'[p] = sent[p] /\ ~ Live(p) /\ (Open(p) => t = 0)
      /\ t = 1 => /\ rx_tdata_combined'[1].req = c /\ rx_tdata_combined'[1].n = sent'[c]
                  /\ RightWord(rx_tdata_combined[1])'
  <2>1. \A p \in Requests \ {c} : ~ Live(p)
    BY <1>1 DEF TurnInv
  <2>2. CASE sent' = sent /\ RxLen' = 0
    <3>1. t = 0 /\ sent[c] + 0 = sent[c]
      BY <1>1, <1>5, <2>2, InvTypes
    <3>. QED
      BY <2>1, <2>2, <3>1
  <2>3. CASE \E r \in Requests : SentBy(r)
    <3>1. PICK r \in Requests : SentBy(r)
      BY <2>3
    <3>2. r = c
      BY <3>1 DEF SentBy
    <3>. QED
      BY <1>5, <2>1, <3>1, <3>2 DEF SentBy
  <2>. QED
    BY <1>2, <2>2, <2>3
<1>7. PICK k \in {0, 1} :
        /\ k = IF dispatcher_tready(controller) /\ OutputValid(disp_fifo) THEN 1 ELSE 0
        /\ k <= PipeLen
        /\ PipeLen' = PipeLen - k + RxLen'
        /\ \A j \in 1 .. PipeLen - k : PipeWord(j)' = PipeWord(j + k)
        /\ RxLen' = 1 => \A j \in Nat : j > PipeLen - k => PipeWord(j)' = rx_tdata_combined'[1]
  BY <1>1, <1>2, <1>4, PipeStep
<1>8. IsFifo(disp_fifo')
  BY <1>1, <1>2, <1>4, PipeStep
<1>9. PipeMoves(t, k)
  BY <1>2, <1>5, <1>6, <1>7, <1>8 DEF PipeMoves
<1>10. PICK e \in {0, 1} :
         /\ Takes(c, e) /\ (e = 1 => k = 1 /\ Late(c) = PipeLen)
         /\ e = 0 /\ k = 1 => ~ ForSlots(PipeWord(1).req)
  <2>1. /\ scheduler_rx # << >> => k = 1
        /\ scheduler_rx = << >> /\ k = 1 => ~ ForSlots(PipeWord(1).req)
    BY <1>1, <1>7, PipeOut
  <2>2. \/ scheduler_rx = << >> /\ Takes(c, 0)
        \/ scheduler_rx # << >> /\ Takes(c, 1) /\ Late(c) = PipeLen
    BY <1>1, <1>2, <1>4, InputLive
  <2>3. CASE scheduler_rx = << >> /\ Takes(c, 0)
    BY <2>1, <2>3
  <2>4. CASE scheduler_rx # << >> /\ Takes(c, 1) /\ Late(c) = PipeLen
    BY <2>1, <2>4
  <2>. QED
    BY <2>2, <2>3, <2>4
<1>11. PICK d \in {0, 1} : Leaves(c, d) /\ Arbitrates(c, d)
  <2>1. Beats(c) = 1 \/ Beats(c) > 1
    BY RequestFacts
  <2>2. CASE Beats(c) = 1
    <3>1. PICK d \in {0, 1} : Leaves(c, d)
      BY <1>1, <1>4, <2>2, LeavesSingle
    <3>. QED
      BY <1>1, <1>4, <2>2, <3>1, ArbiterSingle
  <2>3. CASE Beats(c) > 1
    <3>1. PICK d \in {0, 1} : /\ Leaves(c, d)
                              /\ d = 1 <=> (output_tready(0) /\ OutputValid(queue_fifo[0]))
      BY <1>1, <1>4, <2>3, LeavesQueued
    <3>2. delivered[c] + d <= Entered(c)
      BY <3>1 DEF Leaves
    <3>. QED
      BY <1>1, <1>4, <2>3, <3>1, <3>2, ArbiterQueued
  <2>. QED
    BY <2>1, <2>2, <2>3
<1>12. LiveEdge(c, t, k, e, d)
  BY <1>2, <1>6, <1>9, <1>10, <1>11 DEF LiveEdge
<1>. QED
  BY <1>12

(* The numbers after such an edge.                                         *)
LEMMA LiveNext ==
  ASSUME SentInTurn, PathInv, NEW c \in Requests, Live(c),
         NEW t, NEW k, NEW e, NEW d, LiveEdge(c, t, k, e, d)
  PROVE  /\ delivered' \in [Requests -> Nat] /\ delivered'[c] = delivered[c] + d
         /\ \A p \in Requests \ {c} : delivered'[p] = delivered[p]
         /\ Entered(c)' = Entered(c) + e /\ Late(c)' = Late(c) + t - e
         /\ delivered'[c] <= Entered(c) /\ delivered'[c] <= sent'[c]
         /\ \A p \in Requests \ {c} : ~ Live(p)'
         /\ Live(c)' <=> delivered'[c] < Beats(c)
         /\ NoneLive' <=> ~ Live(c)'
<1>1. PathTypes /\ TurnInv /\ DispInv /\ PipeInv /\ QueueInv /\ ArbInv
  BY DEF PathInv
<1>2. /\ UNCHANGED plan /\ e \in {0, 1} /\ d \in {0, 1} /\ t \in {0, 1}
      /\ sent'[c] = sent[c] + t /\ \A p \in Requests \ {c} : sent'[p] = sent[p] /\ ~ Live(p)
      /\ Takes(c, e) /\ Leaves(c, d)
  BY DEF LiveEdge, PipeMoves
<1>3. /\ delivered \in [Requests -> Nat] /\ delivered[c] \in Nat /\ sent[c] \in Nat
      /\ Entered(c) \in Nat /\ Entered(c) <= sent[c]
      /\ QueueLen \in Nat /\ InputLen \in {0, 1} /\ SingleLen \in Nat /\ SingleInputLen \in {0, 1}
      /\ Beats(c) \in Nat \ {0}
  BY <1>1, InvTypes, EnteredBound, RequestFacts DEF PathTypes
<1>4. /\ delivered' = [delivered EXCEPT ![c] = @ + d] /\ delivered[c] + d <= Entered(c)
  BY <1>2 DEF Leaves
<1>5. /\ delivered' \in [Requests -> Nat] /\ delivered'[c] = delivered[c] + d
      /\ \A p \in Requests \ {c} : delivered'[p] = delivered[p]
  <2>1. delivered[c] + d \in Nat
    BY <1>2, <1>3
  <2>. QED
    BY <1>3, <1>4, <2>1
<1>6. /\ delivered'[c] <= Entered(c) /\ delivered'[c] <= sent'[c]
  BY <1>2, <1>3, <1>4, <1>5
<1>7. Entered(c)' = delivered'[c] + QueueLen' + InputLen' + SingleLen' + SingleInputLen'
  BY DEF Entered
<1>8. Entered(c) = delivered[c] + QueueLen + InputLen + SingleLen + SingleInputLen
  BY DEF Entered
<1>9. Entered(c)' = Entered(c) + e
  <2>1. CASE Beats(c) = 1
    <3>1. queue_fifo[0] = << >> /\ input_tdata[0] = << >>
      BY <1>1, <2>1 DEF QueueInv
    <3>2. QueueLen = 0 /\ InputLen = 0
      BY <3>1 DEF QueueLen, InputLen
    <3>3. /\ queue_fifo'[0] = << >> /\ input_tdata'[0] = << >>
          /\ SingleLen' = SingleLen - d + SingleInputLen /\ SingleInputLen' = e
      BY <1>2, <2>1 DEF Takes, Leaves, SingleLen, SingleInputLen
    <3>4. QueueLen' = 0 /\ InputLen' = 0
      BY <3>3 DEF QueueLen, InputLen
    <3>5. /\ Entered(c)' = (delivered[c] + d) + 0 + 0 + (SingleLen - d + SingleInputLen) + e
          /\ Entered(c) = delivered[c] + 0 + 0 + SingleLen + SingleInputLen
      BY <1>5, <1>7, <1>8, <3>2, <3>3, <3>4, Zenon
    <3>. QED
      BY <1>2, <1>3, <3>5
  <2>2. CASE Beats(c) > 1
    <3>1. single_fifo = << >> /\ input_single = << >>
      BY <1>1, <2>2 DEF QueueInv
    <3>2. SingleLen = 0 /\ SingleInputLen = 0
      BY <3>1 DEF SingleLen, SingleInputLen
    <3>3. /\ single_fifo' = << >> /\ input_single' = << >>
          /\ QueueLen' = QueueLen - d + InputLen /\ InputLen' = e
      BY <1>2, <2>2 DEF Takes, Leaves, QueueLen, InputLen
    <3>4. SingleLen' = 0 /\ SingleInputLen' = 0
      BY <3>3 DEF SingleLen, SingleInputLen
    <3>5. /\ Entered(c)' = (delivered[c] + d) + (QueueLen - d + InputLen) + e + 0 + 0
          /\ Entered(c) = delivered[c] + QueueLen + InputLen + 0 + 0
      BY <1>5, <1>7, <1>8, <3>2, <3>3, <3>4, Zenon
    <3>. QED
      BY <1>2, <1>3, <3>5
  <2>. QED
    BY <1>3, <2>1, <2>2
<1>10. Late(c)' = Late(c) + t - e
  <2>1. Late(c)' = sent'[c] - Entered(c)' /\ Late(c) = sent[c] - Entered(c)
    BY DEF Late
  <2>. QED
    BY <1>2, <1>3, <1>9, <2>1
<1>11. /\ Requests' = Requests
       /\ \A p : (ForSlots(p)' <=> ForSlots(p)) /\ Beats(p)' = Beats(p)
  BY <1>2, PlanKept
<1>12. \A p \in Requests \ {c} : ~ Live(p)'
  BY <1>2, <1>5, <1>11 DEF Live
<1>13. Live(c)' <=> delivered'[c] < Beats(c)
  <2>1. 0 < sent'[c] /\ ForSlots(c)
    BY <1>2, <1>3 DEF Live
  <2>. QED
    BY <1>11, <2>1 DEF Live
<1>14. NoneLive' <=> ~ Live(c)'
  BY <1>11, <1>12 DEF NoneLive
<1>. QED
  BY <1>5, <1>6, <1>9, <1>10, <1>12, <1>13, <1>14

LEMMA TypesLive ==
  ASSUME SentInTurn, PathInv, NEW c \in Requests, Live(c),
         NEW t, NEW k, NEW e, NEW d, LiveEdge(c, t, k, e, d)
  PROVE  PathTypes' /\ TurnInv'
<1>1. PathTypes /\ TurnInv
  BY DEF PathInv
<1>2. /\ UNCHANGED plan /\ sent' \in [Requests -> Nat] /\ sent'[c] <= Beats(c)
      /\ \A p \in Requests \ {c} : sent'[p] = sent[p] /\ (Open(p) => t = 0)
      /\ PipeMoves(t, k) /\ Takes(c, e) /\ Leaves(c, d) /\ Arbitrates(c, d)
      /\ sent'[c] = sent[c] + t
  BY DEF LiveEdge
<1>3. Requests' = Requests /\ \A p : Beats(p)' = Beats(p) /\ Request(p)' = Request(p)
  BY <1>2, PlanKept
<1>4. /\ delivered' \in [Requests -> Nat]
      /\ \A p \in Requests \ {c} : delivered'[p] = delivered[p]
      /\ delivered'[c] <= sent'[c]
      /\ \A p \in Requests \ {c} : ~ Live(p)'
  BY LiveNext
<1>5. \A p \in Requests : sent'[p] <= Beats(p) /\ delivered'[p] <= sent'[p]
  BY <1>1, <1>2, <1>4 DEF PathTypes
<1>6. /\ IsWord(rx_tdata_combined') /\ IsFifo(disp_fifo')
  BY <1>2 DEF PipeMoves
<1>7. /\ rx_tready' = TRUE
      /\ DOMAIN input_tdata' = Queues /\ DOMAIN input_META' = Queues
      /\ DOMAIN counter' = Queues /\ DOMAIN counter_inst' = Queues
      /\ credits' \in [Queues -> 0 .. 1] /\ IsWord(input_single')
      /\ \A q \in Queues : IsWord(input_tdata'[q])
  BY <1>2, IsWordMade DEF Takes
<1>8. /\ DOMAIN queue_fifo' = Queues /\ IsFifo(single_fifo')
      /\ \A q \in Queues : IsFifo(queue_fifo'[q])
  <2>1. \A q \in Queues \ {0} : queue_fifo[q] = << >> /\ IsFifo(queue_fifo[q])
    BY <1>1 DEF PathInv, QueueInv, PathTypes
  <2>. QED
    BY <1>2, <2>1 DEF Leaves
<1>9. output_deduct_credits' \in [Queues -> 0 .. 1]
  BY <1>2 DEF Arbitrates
<1>10. PathTypes'
  BY <1>2, <1>3, <1>4, <1>5, <1>6, <1>7, <1>8, <1>9 DEF PathTypes
<1>11. ASSUME NEW p \in Requests \ {c}, Open(p)'
       PROVE  FALSE
  <2>1. Open(p)
    BY <1>2, <1>3, <1>11 DEF Open
  <2>. QED
    BY <1>1, <2>1 DEF TurnInv
<1>12. TurnInv'
  BY <1>3, <1>4, <1>11 DEF TurnInv
<1>. QED
  BY <1>10, <1>12

(* A word that moves on keeps its tags.                                    *)
LEMMA RightWordKept ==
  ASSUME UNCHANGED plan, sent \in [Requests -> Nat], sent' \in [Requests -> Nat],
         \A p \in Requests : sent[p] <= sent'[p],
         NEW j \in Nat, NEW i \in Nat, PipeWord(j)' = PipeWord(i), RightWord(PipeWord(i))
  PROVE  RightWord(PipeWord(j))'
<1>. DEFINE w == PipeWord(i)
<1>1. RightWord(w) /\ PipeWord(j)' = w
  OBVIOUS
<1>. HIDE DEF w
<1>2. w.req \in Requests /\ w.n \in 1 .. sent[w.req]
  BY <1>1 DEF RightWord
<1>3. w.n \in 1 .. sent'[w.req]
  BY <1>2
<1>4. /\ Requests' = Requests
      /\ \A r, n : /\ Request(r)' = Request(r) /\ Size(r)' = Size(r)
                   /\ PacketLength(r, n)' = PacketLength(r, n)
  BY PlanKept
<1>5. /\ w.conn = Request(w.req).conn /\ w.len = PacketLength(w.req, w.n)
      /\ w.last = (w.n \in Request(w.req).cuts) /\ (w.n = 1 => w.first = TRUE)
      /\ w.work = Request(w.req).work /\ w.size = Size(w.req)
  BY <1>1 DEF RightWord
<1>6. /\ Request(PipeWord(j).req)' = Request(w.req) /\ Size(PipeWord(j).req)' = Size(w.req)
      /\ PacketLength(PipeWord(j).req, PipeWord(j).n)' = PacketLength(w.req, w.n)
  BY <1>1 DEF Request, Size, ForSlots, PacketLength
<1>. QED
  BY <1>1, <1>2, <1>3, <1>4, <1>5, <1>6 DEF RightWord

LEMMA PipeLive ==
  ASSUME SentInTurn, PathInv, NEW c \in Requests, Live(c),
         NEW t, NEW k, NEW e, NEW d, LiveEdge(c, t, k, e, d)
  PROVE  PipeInv'
<1>1. PathTypes /\ PipeInv /\ ForSlots(c)
  BY DEF PathInv, Live
<1>2. /\ UNCHANGED plan /\ e \in {0, 1} /\ d \in {0, 1} /\ t \in {0, 1} /\ k \in {0, 1}
      /\ sent' \in [Requests -> Nat] /\ sent'[c] = sent[c] + t
      /\ \A p \in Requests \ {c} : sent'[p] = sent[p]
      /\ k <= PipeLen /\ PipeLen' = PipeLen - k + t
      /\ \A j \in 1 .. PipeLen - k : PipeWord(j)' = PipeWord(j + k)
      /\ t = 1 => /\ \A j \in Nat : j > PipeLen - k => PipeWord(j)' = rx_tdata_combined'[1]
                  /\ RightWord(rx_tdata_combined[1])'
                  /\ rx_tdata_combined'[1].req = c /\ rx_tdata_combined'[1].n = sent'[c]
      /\ e = 1 => k = 1 /\ Late(c) = PipeLen
      /\ e = 0 /\ k = 1 => ~ ForSlots(PipeWord(1).req)
  BY DEF LiveEdge, PipeMoves
<1>3. Requests' = Requests /\ \A p : ForSlots(p)' <=> ForSlots(p)
  BY <1>2, PlanKept
<1>4. /\ Late(c) \in 0 .. PipeLen /\ PipeLen \in Nat
      /\ \A j \in 1 .. PipeLen :
           /\ RightWord(PipeWord(j))
           /\ j <= PipeLen - Late(c) => ~ ForSlots(PipeWord(j).req)
           /\ j > PipeLen - Late(c) =>
                PipeWord(j).req = c /\ PipeWord(j).n = sent[c] - (PipeLen - j)
  BY <1>1, InvTypes DEF PipeInv
<1>5. sent[c] \in Nat /\ sent \in [Requests -> Nat] /\ \A p \in Requests : sent[p] <= sent'[p]
  <2>1. sent \in [Requests -> Nat]
    BY <1>1 DEF PathTypes
  <2>. QED
    BY <1>2, <2>1
<1>6. /\ Late(c)' = Late(c) + t - e
      /\ delivered'[c] <= Entered(c) /\ Entered(c) \in Nat /\ delivered'[c] \in Nat
      /\ \A p \in Requests \ {c} : ~ Live(p)'
      /\ Live(c)' <=> delivered'[c] < Beats(c)
      /\ NoneLive' <=> ~ Live(c)'
  BY <1>1, LiveNext, InvTypes
<1>7. Late(c) - e >= 0 /\ Late(c) - e <= PipeLen - k
  <2>1. e = 0 /\ k = 1 => 1 <= PipeLen - Late(c)
    <3>. SUFFICES ASSUME e = 0, k = 1, ~ (1 <= PipeLen - Late(c))
                  PROVE  FALSE
      OBVIOUS
    <3>1. 1 > PipeLen - Late(c) /\ 1 \in 1 .. PipeLen
      BY <1>2, <1>4
    <3>. QED
      BY <1>1, <1>2, <1>4, <3>1
  <2>. QED
    BY <1>2, <1>4, <2>1
<1>8. ASSUME NEW j \in 1 .. PipeLen - k
      PROVE  /\ j \in Nat /\ j + k \in Nat /\ j + k \in 1 .. PipeLen
             /\ PipeWord(j)' = PipeWord(j + k)
             /\ RightWord(PipeWord(j))'
  <2>1. j \in Nat /\ j + k \in Nat /\ j + k \in 1 .. PipeLen
    BY <1>2, <1>4
  <2>2. PipeWord(j)' = PipeWord(j + k)
    BY <1>2
  <2>3. RightWord(PipeWord(j + k))
    BY <1>4, <2>1
  <2>. QED
    BY <1>2, <1>5, <2>1, <2>2, <2>3, RightWordKept
<1>9. ASSUME NEW j \in 1 .. PipeLen', j \notin 1 .. PipeLen - k
      PROVE  /\ t = 1 /\ j = PipeLen - k + 1 /\ j = PipeLen'
             /\ PipeWord(j)' = rx_tdata_combined'[1]
             /\ PipeWord(j).req' = c /\ PipeWord(j).n' = sent'[c]
             /\ RightWord(PipeWord(j))'
  <2>1. t = 1 /\ j = PipeLen - k + 1 /\ j \in Nat /\ j > PipeLen - k /\ j = PipeLen'
    BY <1>2, <1>4, <1>9
  <2>2. PipeWord(j)' = rx_tdata_combined'[1]
    BY <1>2, <2>1
  <2>3. RightWord(rx_tdata_combined[1])'
    BY <1>2, <2>1
  <2>. DEFINE v == rx_tdata_combined[1]
  <2>4. RightWord(v)' /\ PipeWord(j)' = v'
    BY <2>2, <2>3
  <2>. HIDE DEF v
  <2>5. RightWord(PipeWord(j))'
    BY <2>4 DEF RightWord, Request, Size, ForSlots, PacketLength, Requests
  <2>. QED
    BY <1>2, <2>1, <2>2, <2>5
<1>10. \A j \in 1 .. PipeLen' : RightWord(PipeWord(j))'
  BY <1>8, <1>9
<1>11. ASSUME ~ Live(c)'
       PROVE  \A j \in 1 .. PipeLen' : ~ ForSlots(PipeWord(j)'.req)
  <2>1. sent[c] <= Beats(c) /\ Beats(c) \in Nat /\ Late(c) = sent[c] - Entered(c)
        /\ sent'[c] <= Beats(c)
    BY <1>1, InvTypes, RequestFacts DEF Late, LiveEdge
  <2>2. Late(c) = 0 /\ t = 0
    BY <1>2, <1>4, <1>5, <1>6, <1>11, <2>1
  <2>3. PipeLen' = PipeLen - k
    BY <1>2, <1>4, <2>2
  <2>4. ASSUME NEW j \in 1 .. PipeLen - k
        PROVE  ~ ForSlots(PipeWord(j)'.req)
    <3>1. j + k <= PipeLen - Late(c)
      BY <1>2, <1>4, <2>2
    <3>. QED
      BY <1>4, <1>8, <3>1
  <2>. QED
    BY <2>3, <2>4
<1>12. ASSUME Live(c)'
       PROVE  /\ Late(c)' \in 0 .. PipeLen'
              /\ \A j \in 1 .. PipeLen' :
                   /\ j <= PipeLen' - Late(c)' => ~ ForSlots(PipeWord(j)'.req)
                   /\ j > PipeLen' - Late(c)' =>
                        PipeWord(j)'.req = c /\ PipeWord(j)'.n = sent'[c] - (PipeLen' - j)
  <2>1. Late(c)' \in 0 .. PipeLen'
    BY <1>2, <1>4, <1>6, <1>7
  <2>2. PipeLen' - Late(c)' = PipeLen - k - (Late(c) - e)
    BY <1>2, <1>4, <1>6
  <2>3. ASSUME NEW j \in 1 .. PipeLen - k
        PROVE  /\ j <= PipeLen' - Late(c)' => ~ ForSlots(PipeWord(j)'.req)
               /\ j > PipeLen' - Late(c)' =>
                    PipeWord(j)'.req = c /\ PipeWord(j)'.n = sent'[c] - (PipeLen' - j)
    <3>1. j <= PipeLen' - Late(c)' => j + k <= PipeLen - Late(c)
      BY <1>2, <1>4, <2>2
    <3>2. j > PipeLen' - Late(c)' => j + k > PipeLen - Late(c)
      BY <1>2, <1>4, <2>2
    <3>3. sent'[c] - (PipeLen' - j) = sent[c] - (PipeLen - (j + k))
      BY <1>2, <1>4, <1>5
    <3>. QED
      BY <1>4, <1>8, <3>1, <3>2, <3>3
  <2>4. ASSUME NEW j \in 1 .. PipeLen', j \notin 1 .. PipeLen - k
        PROVE  /\ ~ (j <= PipeLen' - Late(c)')
               /\ PipeWord(j)'.req = c /\ PipeWord(j)'.n = sent'[c] - (PipeLen' - j)
    <3>1. t = 1 /\ j = PipeLen' /\ PipeWord(j)'.req = c /\ PipeWord(j)'.n = sent'[c]
      BY <1>9, <2>4
    <3>2. sent'[c] - (PipeLen' - j) = sent'[c]
      BY <1>2, <1>4, <1>5, <3>1
    <3>3. ~ (j <= PipeLen' - Late(c)')
      BY <1>2, <1>4, <1>6, <1>7, <3>1
    <3>. QED
      BY <3>1, <3>2, <3>3
  <2>. QED
    BY <2>1, <2>3, <2>4
<1>13. NoneLive' => \A j \in 1 .. PipeLen' : ~ ForSlots(PipeWord(j).req)'
  <2>1. \A j : ForSlots(PipeWord(j).req)' <=> ForSlots(PipeWord(j)'.req)
    BY <1>2 DEF ForSlots, Request
  <2>. QED
    BY <1>6, <1>11, <2>1
<1>14. ASSUME NEW p \in Requests, Live(p)'
       PROVE  /\ Late(p)' \in 0 .. PipeLen'
              /\ \A j \in 1 .. PipeLen' :
                   /\ j <= PipeLen' - Late(p)' => ~ ForSlots(PipeWord(j).req)'
                   /\ j > PipeLen' - Late(p)' =>
                        PipeWord(j)'.req = p /\ PipeWord(j)'.n = sent'[p] - (PipeLen' - j)
  <2>1. \A j : ForSlots(PipeWord(j).req)' <=> ForSlots(PipeWord(j)'.req)
    BY <1>2 DEF ForSlots, Request
  <2>2. p = c
    BY <1>6, <1>14
  <2>. QED
    BY <1>12, <1>14, <2>1, <2>2
<1>. QED
  BY <1>3, <1>10, <1>13, <1>14 DEF PipeInv

(* A request is complete in the scheduler when its credit has been given,  *)
(* and takes nothing more.                                                 *)
LEMMA CreditWhole ==
  ASSUME SentInTurn, PathInv, NEW c \in Requests, Live(c),
         NEW t, NEW k, NEW e, NEW d, LiveEdge(c, t, k, e, d)
  PROVE  /\ Entered(c) = Beats(c) => e = 0
         /\ credits[0] = 1 => /\ Beats(c) > 1 /\ Entered(c) = Beats(c)
                              /\ e = 0 /\ credits'[0] = 1
         /\ Entered(c) = Beats(c) => credits'[0] = credits[0]
         /\ Entered(c) + e <= Beats(c)
<1>1. PathTypes /\ PipeInv /\ QueueInv
  BY DEF PathInv
<1>2. /\ e \in {0, 1} /\ k \in {0, 1} /\ k <= PipeLen /\ Takes(c, e)
      /\ e = 1 => k = 1 /\ Late(c) = PipeLen
  BY DEF LiveEdge, PipeMoves
<1>3. /\ sent[c] \in Nat /\ Entered(c) \in Nat /\ sent[c] <= Beats(c) /\ Beats(c) \in Nat \ {0}
      /\ Late(c) = sent[c] - Entered(c) /\ PipeLen \in Nat /\ Entered(c) <= Beats(c)
  BY <1>1, InvTypes, RequestFacts, EnteredBound DEF Late
<1>4. Entered(c) + e <= Beats(c) /\ (Entered(c) = Beats(c) => e = 0)
  BY <1>2, <1>3
<1>5. /\ Beats(c) = 1 => credits[0] = 0 /\ credits'[0] = 0
      /\ Beats(c) > 1 => /\ credits[0] = IF Entered(c) = Beats(c) THEN 1 ELSE 0
                         /\ credits'[0] = IF Entered(c) + e = Beats(c) THEN 1 ELSE 0
  BY <1>1, <1>2, LiveQueue DEF Takes
<1>6. Entered(c) = Beats(c) => Entered(c) + e = Beats(c)
  BY <1>3, <1>4
<1>7. Beats(c) = 1 \/ Beats(c) > 1
  BY <1>3
<1>. QED
  BY <1>4, <1>5, <1>6, <1>7

LEMMA QueueLive ==
  ASSUME SentInTurn, PathInv, NEW c \in Requests, Live(c),
         NEW t, NEW k, NEW e, NEW d, LiveEdge(c, t, k, e, d)
  PROVE  QueueInv'
<1>1. PathTypes /\ QueueInv /\ PathTypes' /\ PipeInv
  BY TypesLive DEF PathInv
<1>2. /\ UNCHANGED plan /\ e \in {0, 1} /\ d \in {0, 1}
      /\ Takes(c, e) /\ Leaves(c, d) /\ Arbitrates(c, d)
      /\ sent'[c] <= Beats(c)
  BY DEF LiveEdge
<1>3. /\ delivered'[c] = delivered[c] + d /\ Entered(c)' = Entered(c) + e
      /\ delivered'[c] <= Entered(c)
      /\ \A p \in Requests \ {c} : ~ Live(p)'
      /\ Live(c)' <=> delivered'[c] < Beats(c)
      /\ NoneLive' <=> ~ Live(c)'
  BY LiveNext
<1>4. /\ Requests' = Requests
      /\ Request(c)' = Request(c) /\ Size(c)' = Size(c) /\ Beats(c)' = Beats(c)
      /\ \A n : PrevCut(c, n)' = PrevCut(c, n)
  BY <1>2, PlanKept
<1>5. /\ delivered[c] \in Nat /\ Entered(c) \in Nat /\ Beats(c) \in Nat \ {0}
      /\ delivered[c] < Beats(c) /\ Entered(c) <= Beats(c)
  BY <1>1, InvTypes, RequestFacts, EnteredBound DEF Live
<1>6. /\ QueueLen' \in Nat /\ InputLen' \in {0, 1}
      /\ SingleLen' \in Nat /\ SingleInputLen' \in {0, 1}
  <2>1. /\ IsFifo(queue_fifo'[0]) /\ IsWord(input_tdata'[0])
        /\ IsFifo(single_fifo') /\ IsWord(input_single')
    BY <1>1, ZeroIsQueue DEF PathTypes
  <2>. QED
    BY <2>1, FifoIsSeq, WordIsSeq DEF QueueLen, InputLen, SingleLen, SingleInputLen
<1>7. ASSUME NEW q \in Queues \ {0}
      PROVE  /\ queue_fifo'[q] = << >> /\ input_tdata'[q] = << >>
             /\ input_META'[q] = FreeMeta
             /\ credits'[q] = 0 /\ output_deduct_credits'[q] = 0
  BY <1>2 DEF Takes, Leaves, Arbitrates
<1>8. Beats(c) > 1 => Counted(c, Entered(c))'
  <2>1. PICK n \in Nat : n = Entered(c) + e
    BY <1>2, <1>5
  <2>2. Beats(c) > 1 => Counted(c, n)'
    BY <1>2, <2>1 DEF Takes
  <2>3. Entered(c)' = n
    BY <1>3, <2>1
  <2>4. PrevCut(c, Entered(c) + 1)' = PrevCut(c, n + 1)
    BY <1>2, <2>3 DEF PrevCut, Request
  <2>. QED
    BY <1>4, <2>2, <2>3, <2>4 DEF Counted
<1>9. ASSUME ~ Live(c)'
      PROVE  /\ queue_fifo'[0] = << >> /\ input_tdata'[0] = << >>
             /\ single_fifo' = << >> /\ input_single' = << >>
             /\ input_META'[0] = FreeMeta
             /\ credits'[0] = output_deduct_credits'[0]
             /\ leaving' = 0
  <2>1. delivered'[c] = Beats(c) /\ Entered(c) = Beats(c) /\ d = 1
    BY <1>2, <1>3, <1>5, <1>9
  <2>2. e = 0 /\ credits'[0] = credits[0]
    BY <2>1, CreditWhole
  <2>3. Entered(c)' = Beats(c)
    BY <1>3, <1>5, <2>1, <2>2
  <2>4. Entered(c)' = delivered'[c] + QueueLen' + InputLen' + SingleLen' + SingleInputLen'
    BY DEF Entered
  <2>5. QueueLen' = 0 /\ InputLen' = 0 /\ SingleLen' = 0 /\ SingleInputLen' = 0
    BY <1>5, <1>6, <2>1, <2>3, <2>4
  <2>6. /\ queue_fifo'[0] = << >> /\ input_tdata'[0] = << >>
        /\ single_fifo' = << >> /\ input_single' = << >>
    <3>1. /\ IsFifo(queue_fifo'[0]) /\ IsWord(input_tdata'[0])
          /\ IsFifo(single_fifo') /\ IsWord(input_single')
      BY <1>1, ZeroIsQueue DEF PathTypes
    <3>. QED
      BY <2>5, <3>1, FifoIsSeq, WordIsSeq DEF QueueLen, InputLen, SingleLen, SingleInputLen
  <2>7. input_META'[0] = FreeMeta
    <3>1. CASE Beats(c) = 1
      BY <1>2, <3>1 DEF Takes
    <3>2. CASE Beats(c) > 1
      <4>1. Beats(c) \notin 1 .. Beats(c) - 1
        BY <1>5
      <4>. QED
        BY <1>4, <1>8, <2>3, <3>2, <4>1 DEF Counted, FreeMeta
    <3>. QED
      BY <1>5, <3>1, <3>2
  <2>8. delivered[c] + d = Beats(c) /\ delivered[c] + 1 = Beats(c)
    BY <1>3, <2>1
  <2>9. output_deduct_credits'[0] = credits[0]
    BY <1>2, <2>8 DEF Arbitrates
  <2>10. leaving' = 0
    BY <1>2, <2>1, <2>8 DEF Leaves
  <2>. QED
    BY <2>2, <2>6, <2>7, <2>9, <2>10
<1>10. ASSUME Live(c)'
       PROVE  /\ output_deduct_credits'[0] = 0
              /\ leaving' = IF delivered'[c] > 0 THEN c ELSE 0
  <2>1. delivered[c] + d < Beats(c)
    BY <1>3, <1>10
  <2>2. output_deduct_credits'[0] = 0
    BY <1>2, <2>1 DEF Arbitrates
  <2>3. leaving = IF delivered[c] > 0 THEN c ELSE 0
    BY <1>1 DEF QueueInv
  <2>4. leaving' = IF d = 0 THEN leaving ELSE IF delivered[c] + 1 = Beats(c) THEN 0 ELSE c
    BY <1>2 DEF Leaves
  <2>5. CASE d = 0
    BY <1>3, <1>5, <2>2, <2>3, <2>4, <2>5
  <2>6. CASE d = 1
    BY <1>3, <1>5, <2>1, <2>2, <2>4, <2>6
  <2>. QED
    BY <1>2, <2>2, <2>5, <2>6
<1>11. ASSUME Live(c)'
       PROVE  /\ \A i \in 1 .. SingleLen' : Stored(single_fifo'[i].word, c, i)
              /\ \A i \in 1 .. SingleInputLen' : Stored(input_single'[i], c, 1)
              /\ \A i \in 1 .. QueueLen' : Stored(queue_fifo'[0][i].word, c, delivered'[c] + i)
              /\ \A i \in 1 .. InputLen' : Stored(input_tdata'[0][i], c, Entered(c)')
              /\ Beats(c) = 1 => queue_fifo'[0] = << >> /\ input_tdata'[0] = << >>
              /\ Beats(c) > 1 => single_fifo' = << >> /\ input_single' = << >>
  <2>1. CASE Beats(c) = 1
    <3>1. /\ queue_fifo'[0] = << >> /\ input_tdata'[0] = << >>
          /\ SingleInputLen' = e /\ (e = 1 => Stored(input_single'[1], c, 1))
      BY <1>2, <2>1 DEF Takes, Leaves, SingleInputLen
    <3>2. QueueLen' = 0 /\ InputLen' = 0 /\ d = 0
      BY <1>2, <1>3, <1>5, <1>11, <2>1, <3>1 DEF QueueLen, InputLen
    <3>3. \A i \in 1 .. SingleLen' : Stored(single_fifo'[i].word, c, i)
      BY <1>2, <2>1, <3>2 DEF Leaves, SingleLen
    <3>4. \A i \in 1 .. SingleInputLen' : i = 1 /\ e = 1
      BY <1>2, <3>1
    <3>5. ~ (Beats(c) > 1) /\ 1 .. 0 = {}
      BY <2>1
    <3>. QED
      BY <3>1, <3>2, <3>3, <3>4, <3>5
  <2>2. CASE Beats(c) > 1
    <3>1. /\ single_fifo' = << >> /\ input_single' = << >>
          /\ InputLen' = e /\ (e = 1 => Stored(input_tdata'[0][1], c, Entered(c) + 1))
      BY <1>2, <2>2 DEF Takes, Leaves, InputLen
    <3>2. SingleLen' = 0 /\ SingleInputLen' = 0
      BY <3>1 DEF SingleLen, SingleInputLen
    <3>3. \A i \in 1 .. QueueLen' : Stored(queue_fifo'[0][i].word, c, delivered'[c] + i)
      BY <1>2, <1>3, <2>2 DEF Leaves, QueueLen
    <3>4. \A i \in 1 .. InputLen' : i = 1 /\ e = 1
      BY <1>2, <3>1
    <3>5. Beats(c) # 1 /\ 1 .. 0 = {}
      BY <1>5, <2>2
    <3>. QED
      BY <1>3, <3>1, <3>2, <3>3, <3>4, <3>5
  <2>. QED
    BY <1>5, <2>1, <2>2
<1>12. /\ credits'[0] = IF Beats(c) > 1 /\ Entered(c)' = Beats(c) THEN 1 ELSE 0
       /\ Beats(c) = 1 => input_META'[0] = FreeMeta
  <2>1. Beats(c) = 1 => ~ (Beats(c) > 1)
    OBVIOUS
  <2>2. Beats(c) = 1 \/ Beats(c) > 1
    BY <1>5
  <2>. QED
    BY <1>2, <1>3, <2>1, <2>2 DEF Takes
<1>13. /\ \A i : Stored(single_fifo[i].word, c, i)' <=> Stored(single_fifo'[i].word, c, i)
       /\ \A i : Stored(input_single[i], c, 1)' <=> Stored(input_single'[i], c, 1)
       /\ \A i : Stored(queue_fifo[0][i].word, c, delivered[c] + i)'
                   <=> Stored(queue_fifo'[0][i].word, c, delivered'[c] + i)
       /\ \A i : Stored(input_tdata[0][i], c, Entered(c))'
                   <=> Stored(input_tdata'[0][i], c, Entered(c)')
  BY <1>4 DEF Stored
<1>14. QueueInv'
  BY <1>3, <1>4, <1>7, <1>8, <1>9, <1>10, <1>11, <1>12, <1>13 DEF QueueInv, FreeMeta
<1>. QED
  BY <1>14

LEMMA ArbLive ==
  ASSUME SentInTurn, PathInv, NEW c \in Requests, Live(c),
         NEW t, NEW k, NEW e, NEW d, LiveEdge(c, t, k, e, d)
  PROVE  ArbInv'
<1>1. Arbitrates(c, d) /\ d \in {0, 1} /\ e \in {0, 1} /\ UNCHANGED plan
  BY DEF LiveEdge
<1>2. /\ delivered'[c] = delivered[c] + d /\ Entered(c)' = Entered(c) + e
      /\ \A p \in Requests \ {c} : ~ Live(p)'
      /\ Live(c)' <=> delivered'[c] < Beats(c)
  BY LiveNext
<1>3. Requests' = Requests /\ Beats(c)' = Beats(c)
  BY <1>1, PlanKept
<1>4. delivered[c] \in Nat /\ Entered(c) \in Nat /\ Beats(c) \in Nat \ {0}
  BY InvTypes, RequestFacts DEF PathInv
<1>5. credits[0] = 1 => Entered(c) = Beats(c) /\ e = 0 /\ credits'[0] = 1
  BY CreditWhole
<1>6. /\ output_tready_sel' \subseteq {0}
      /\ output_tready_sel' # {} => credits[0] = 1
      /\ output_deduct_credits'[0] = 1 => credits[0] = 1 /\ output_tready_sel' = {}
      /\ delivered[c] + d \in 1 .. Beats(c) - 1 =>
           output_tready_sel' = {0} /\ output_queue_number' = 0
  BY <1>1 DEF Arbitrates
<1>7. ASSUME Live(c)', delivered'[c] > 0
      PROVE  /\ output_tready_sel' = {0} /\ output_queue_number' = 0
             /\ Entered(c)' = Beats(c)
  <2>1. delivered[c] + d \in 1 .. Beats(c) - 1
    BY <1>1, <1>2, <1>4, <1>7
  <2>2. output_tready_sel' = {0} /\ output_queue_number' = 0 /\ credits[0] = 1
    BY <1>6, <2>1
  <2>. QED
    BY <1>2, <1>4, <1>5, <2>2
<1>8. output_tready_sel' # {} => credits'[0] # 0
  BY <1>5, <1>6
<1>. QED
  BY <1>2, <1>3, <1>5, <1>6, <1>7, <1>8 DEF ArbInv

-----------------------------------------------------------------------------
(* An edge while no request is on its way; one may begin.                  *)

NoneEdge(t, k) ==
  /\ UNCHANGED << plan, delivered, leaving, input_META, counter, counter_inst >>
  /\ sent' \in [Requests -> Nat]
  /\ \A p \in Requests : sent'[p] <= Beats(p) /\ sent[p] <= sent'[p]
  /\ (t = 0 /\ sent' = sent) \/ (t = 1 /\ \E r \in Requests : SentBy(r))
  /\ PipeMoves(t, k)
  /\ rx_tready' = TRUE /\ input_single' = << >> /\ single_fifo' = << >>
  /\ input_tdata' = [q \in Queues |-> << >>] /\ queue_fifo' = [q \in Queues |-> << >>]
  /\ credits' = [q \in Queues |-> 0] /\ output_deduct_credits' = [q \in Queues |-> 0]
  /\ output_tready_sel' \subseteq {0}
  /\ DispInv'

LEMMA NoneEdgeMade ==
  ASSUME SentInTurn, PathInv, DispRoom, PathNext, NoneLive
  PROVE  \E t, k \in {0, 1} : NoneEdge(t, k)
<1>1. PathTypes /\ TurnInv /\ DispInv /\ PipeInv /\ QueueInv /\ ArbInv
  BY DEF PathInv
<1>2. /\ UNCHANGED plan
      /\ DispInv' /\ IsWord(rx_tdata_combined') /\ sent' \in [Requests -> Nat]
      /\ \A p \in Requests : sent'[p] <= Beats(p) /\ sent[p] <= sent'[p]
      /\ (sent' = sent /\ RxLen' = 0) \/ (\E r \in Requests : SentBy(r))
  BY <1>1, FrontStep
<1>3. PICK controller \in BOOLEAN : RestOfPath(controller)
  BY <1>1, FrontStep
<1>4. /\ DispFifoEdge(dispatcher_tready(controller)) /\ InputBlock(scheduler_rx)
      /\ Arbiter /\ QueueFifosEdge /\ Noted
  BY <1>3 DEF RestOfPath, SchedulerEdge, Noted
<1>5. PICK t \in {0, 1} : /\ RxLen' = t
                          /\ \/ t = 0 /\ sent' = sent
                             \/ t = 1 /\ \E r \in Requests : SentBy(r)
  <2>1. CASE sent' = sent /\ RxLen' = 0
    BY <2>1
  <2>2. CASE \E r \in Requests : SentBy(r)
    BY <2>2 DEF SentBy
  <2>. QED
    BY <1>2, <2>1, <2>2
<1>6. PICK k \in {0, 1} :
        /\ k <= PipeLen
        /\ PipeLen' = PipeLen - k + RxLen'
        /\ \A j \in 1 .. PipeLen - k : PipeWord(j)' = PipeWord(j + k)
        /\ RxLen' = 1 => \A j \in Nat : j > PipeLen - k => PipeWord(j)' = rx_tdata_combined'[1]
  BY <1>1, <1>2, <1>4, PipeStep
<1>7. IsFifo(disp_fifo')
  BY <1>1, <1>2, <1>4, PipeStep
<1>8. t = 1 => RightWord(rx_tdata_combined[1])'
  BY <1>5 DEF SentBy
<1>9. PipeMoves(t, k)
  BY <1>2, <1>5, <1>6, <1>7, <1>8 DEF PipeMoves
<1>10. /\ rx_tready' = TRUE /\ input_single' = << >>
       /\ input_tdata' = [q \in Queues |-> << >>] /\ credits' = [q \in Queues |-> 0]
       /\ UNCHANGED << input_META, counter, counter_inst >>
  BY <1>1, <1>4, InputNone
<1>11. /\ output_deduct_credits' = [q \in Queues |-> 0] /\ output_tready_sel' \subseteq {0}
  BY <1>1, <1>4, ArbiterNone
<1>12. /\ \A q \in Queues : queue_fifo[q] = << >> /\ input_tdata[q] = << >>
       /\ single_fifo = << >> /\ input_single = << >>
  BY <1>1 DEF QueueInv
<1>13. \A q : output_tready(q) \in BOOLEAN
  BY DEF output_tready
<1>14. output_tready_single_FIFO \in BOOLEAN
  BY DEF output_tready_single_FIFO
<1>15. \A q \in Queues :
         /\ FifoEdge(queue_fifo[q], QueueDepth, input_tdata[q], output_tready(q)) = << >>
         /\ ~ OutputValid(queue_fifo[q])
  BY <1>12, <1>13, EmptyFifoStays
<1>16. queue_fifo' = [q \in Queues |-> << >>]
  BY <1>4, <1>15 DEF QueueFifosEdge
<1>17. single_fifo' = << >> /\ ~ OutputValid(single_fifo)
  BY <1>4, <1>12, <1>14, EmptyFifoStays DEF QueueFifosEdge
<1>18. Output = << >>
  BY <1>15, <1>17 DEF Output
<1>19. UNCHANGED << delivered, leaving >>
  BY <1>4, <1>18 DEF Noted
<1>20. NoneEdge(t, k)
  BY <1>2, <1>5, <1>9, <1>10, <1>11, <1>16, <1>17, <1>19 DEF NoneEdge
<1>. QED
  BY <1>20

LEMMA NoneNext ==
  ASSUME SentInTurn, PathInv, NoneLive, NEW t, NEW k, NoneEdge(t, k)
  PROVE  /\ \A p \in Requests : Live(p)' =>
              /\ t = 1 /\ SentBy(p) /\ sent[p] = 0 /\ sent'[p] = 1 /\ delivered'[p] = 0
              /\ Entered(p)' = 0 /\ Late(p)' = 1
         /\ QueueLen' = 0 /\ InputLen' = 0 /\ SingleLen' = 0 /\ SingleInputLen' = 0
         /\ Requests' = Requests
<1>1. PathTypes
  BY DEF PathInv
<1>2. /\ UNCHANGED << plan, delivered >>
      /\ (t = 0 /\ sent' = sent) \/ (t = 1 /\ \E r \in Requests : SentBy(r))
      /\ queue_fifo' = [q \in Queues |-> << >>] /\ input_tdata' = [q \in Queues |-> << >>]
      /\ single_fifo' = << >> /\ input_single' = << >>
  BY DEF NoneEdge
<1>3. QueueLen' = 0 /\ InputLen' = 0 /\ SingleLen' = 0 /\ SingleInputLen' = 0
  <2>1. queue_fifo'[0] = << >> /\ input_tdata'[0] = << >>
    BY <1>2, ZeroIsQueue
  <2>. QED
    BY <1>2, <2>1 DEF QueueLen, InputLen, SingleLen, SingleInputLen
<1>4. /\ Requests' = Requests
      /\ \A p : (ForSlots(p)' <=> ForSlots(p)) /\ Beats(p)' = Beats(p)
  BY <1>2, PlanKept
<1>5. ASSUME NEW p \in Requests, Live(p)'
      PROVE  /\ t = 1 /\ SentBy(p) /\ sent[p] = 0 /\ sent'[p] = 1 /\ delivered'[p] = 0
             /\ Entered(p)' = 0 /\ Late(p)' = 1
  <2>1. /\ sent[p] \in Nat /\ delivered[p] \in Nat /\ delivered[p] <= sent[p]
    BY <1>1, InvTypes
  <2>2. ForSlots(p) /\ 0 < sent'[p] /\ delivered[p] < Beats(p)
    BY <1>2, <1>4, <1>5 DEF Live
  <2>3. sent[p] = 0 /\ delivered[p] = 0
    <3>1. ~ (0 < sent[p])
      BY <2>2 DEF NoneLive, Live
    <3>. QED
      BY <2>1, <3>1
  <2>4. ~ (0 < 0)
    OBVIOUS
  <2>5. PICK r \in Requests : SentBy(r) /\ t = 1
    BY <1>2, <2>2, <2>3, <2>4
  <2>6. r = p
    BY <2>2, <2>3, <2>4, <2>5 DEF SentBy
  <2>7. sent'[p] = 1 /\ delivered'[p] = 0
    BY <1>2, <2>3, <2>5, <2>6 DEF SentBy
  <2>8. Entered(p)' = 0
    BY <1>3, <2>7 DEF Entered
  <2>9. Late(p)' = 1
    <3>1. Late(p)' = sent'[p] - Entered(p)'
      BY DEF Late
    <3>. QED
      BY <2>7, <2>8, <3>1
  <2>. QED
    BY <2>3, <2>5, <2>6, <2>7, <2>8, <2>9
<1>. QED
  BY <1>3, <1>4, <1>5

LEMMA TypesNone ==
  ASSUME SentInTurn, PathInv, NoneLive, NEW t, NEW k, NoneEdge(t, k)
  PROVE  PathTypes' /\ TurnInv'
<1>1. PathTypes /\ TurnInv /\ QueueInv
  BY DEF PathInv
<1>2. /\ UNCHANGED << plan, delivered, input_META, counter, counter_inst >>
      /\ sent' \in [Requests -> Nat]
      /\ \A p \in Requests : sent'[p] <= Beats(p) /\ sent[p] <= sent'[p]
      /\ (t = 0 /\ sent' = sent) \/ (t = 1 /\ \E r \in Requests : SentBy(r))
      /\ rx_tready' = TRUE /\ input_single' = << >> /\ single_fifo' = << >>
      /\ input_tdata' = [q \in Queues |-> << >>] /\ queue_fifo' = [q \in Queues |-> << >>]
      /\ credits' = [q \in Queues |-> 0] /\ output_deduct_credits' = [q \in Queues |-> 0]
      /\ IsWord(rx_tdata_combined') /\ IsFifo(disp_fifo')
  BY DEF NoneEdge, PipeMoves
<1>3. Requests' = Requests /\ \A p : Beats(p)' = Beats(p) /\ Request(p)' = Request(p)
  BY <1>2, PlanKept
<1>4. \A p \in Requests : delivered[p] <= sent'[p]
  BY <1>1, <1>2, InvTypes
<1>5. IsWord(<< >>) /\ IsFifo(<< >>)
  <2>1. single_fifo = << >> /\ IsFifo(single_fifo)
    BY <1>1 DEF QueueInv, PathTypes
  <2>. QED
    BY <2>1, IsWordMade
<1>6. /\ DOMAIN input_tdata' = Queues /\ (\A q \in Queues : IsWord(input_tdata'[q]))
      /\ DOMAIN queue_fifo' = Queues /\ (\A q \in Queues : IsFifo(queue_fifo'[q]))
  BY <1>2, <1>5
<1>7. PathTypes'
  BY <1>1, <1>2, <1>3, <1>4, <1>5, <1>6, ZeroDeductions DEF PathTypes
<1>8. \A p, r \in Requests : Open(p)' /\ Open(r)' => p = r
  <2>1. CASE sent' = sent
    <3>1. \A p : Open(p)' <=> Open(p)
      BY <1>2, <2>1 DEF Open, Request
    <3>. QED
      BY <1>1, <3>1 DEF TurnInv
  <2>2. CASE \E r \in Requests : SentBy(r)
    <3>1. PICK r \in Requests : SentBy(r)
      BY <2>2
    <3>2. \A p \in Requests \ {r} : ~ Open(p)'
      BY <1>3, <3>1 DEF SentBy, Open
    <3>. QED
      BY <3>2
  <2>. QED
    BY <1>2, <2>1, <2>2
<1>9. ASSUME NEW p \in Requests, NEW r \in Requests, Live(p)', Open(r)' \/ Live(r)', p # r
      PROVE  FALSE
  <2>1. SentBy(p)
    BY <1>9, NoneNext
  <2>2. ~ Open(r)'
    BY <1>3, <1>9, <2>1 DEF SentBy, Open
  <2>3. SentBy(r) /\ sent[r] = 0 /\ sent'[r] = 1
    BY <1>9, <2>2, NoneNext
  <2>4. sent'[r] = sent[r]
    BY <1>9, <2>1 DEF SentBy
  <2>. QED
    BY <2>3, <2>4
<1>10. TurnInv'
  BY <1>3, <1>8, <1>9 DEF TurnInv
<1>. QED
  BY <1>7, <1>10

LEMMA PipeNone ==
  ASSUME SentInTurn, PathInv, NoneLive, NEW t, NEW k, NoneEdge(t, k)
  PROVE  PipeInv'
<1>1. PathTypes /\ PipeInv
  BY DEF PathInv
<1>2. /\ UNCHANGED << plan, delivered >> /\ t \in {0, 1} /\ k \in {0, 1}
      /\ sent' \in [Requests -> Nat] /\ \A p \in Requests : sent[p] <= sent'[p]
      /\ k <= PipeLen /\ PipeLen' = PipeLen - k + t
      /\ \A j \in 1 .. PipeLen - k : PipeWord(j)' = PipeWord(j + k)
      /\ t = 1 => /\ \A j \in Nat : j > PipeLen - k => PipeWord(j)' = rx_tdata_combined'[1]
                  /\ RightWord(rx_tdata_combined[1])'
      /\ (t = 0 /\ sent' = sent) \/ (t = 1 /\ \E r \in Requests : SentBy(r))
  BY DEF NoneEdge, PipeMoves
<1>3. Requests' = Requests /\ \A p : (ForSlots(p)' <=> ForSlots(p)) /\ Beats(p)' = Beats(p)
  BY <1>2, PlanKept
<1>4. /\ PipeLen \in Nat
      /\ \A j \in 1 .. PipeLen : RightWord(PipeWord(j)) /\ ~ ForSlots(PipeWord(j).req)
  BY <1>1, InvTypes DEF PipeInv
<1>5. sent \in [Requests -> Nat]
  BY <1>1 DEF PathTypes
<1>6. ASSUME NEW j \in 1 .. PipeLen - k
      PROVE  RightWord(PipeWord(j))' /\ ~ ForSlots(PipeWord(j)'.req)
  <2>1. j \in Nat /\ j + k \in Nat /\ j + k \in 1 .. PipeLen
    BY <1>2, <1>4
  <2>2. PipeWord(j)' = PipeWord(j + k)
    BY <1>2
  <2>3. RightWord(PipeWord(j + k)) /\ ~ ForSlots(PipeWord(j + k).req)
    BY <1>4, <2>1
  <2>4. RightWord(PipeWord(j))'
    BY <1>2, <1>5, <2>1, <2>2, <2>3, RightWordKept
  <2>. QED
    BY <2>2, <2>3, <2>4
<1>7. ASSUME NEW j \in 1 .. PipeLen', j \notin 1 .. PipeLen - k
      PROVE  /\ t = 1 /\ j = PipeLen' /\ PipeWord(j)' = rx_tdata_combined'[1]
             /\ RightWord(PipeWord(j))'
  <2>1. t = 1 /\ j = PipeLen - k + 1 /\ j \in Nat /\ j > PipeLen - k /\ j = PipeLen'
    BY <1>2, <1>4, <1>7
  <2>2. PipeWord(j)' = rx_tdata_combined'[1] /\ RightWord(rx_tdata_combined[1])'
    BY <1>2, <2>1
  <2>. DEFINE v == rx_tdata_combined[1]
  <2>3. RightWord(v)' /\ PipeWord(j)' = v'
    BY <2>2
  <2>. HIDE DEF v
  <2>4. RightWord(PipeWord(j))'
    BY <2>3 DEF RightWord, Request, Size, ForSlots, PacketLength, Requests
  <2>. QED
    BY <2>1, <2>2, <2>4
<1>8. \A j : ForSlots(PipeWord(j).req)' <=> ForSlots(PipeWord(j)'.req)
  BY <1>2 DEF ForSlots, Request
<1>9. ASSUME NoneLive', NEW j \in 1 .. PipeLen'
      PROVE  ~ ForSlots(PipeWord(j)'.req)
  <2>1. CASE j \in 1 .. PipeLen - k
    BY <1>6, <2>1
  <2>2. CASE j \notin 1 .. PipeLen - k
    <3>1. t = 1 /\ PipeWord(j)' = rx_tdata_combined'[1]
      BY <1>7, <2>2
    <3>2. PICK r \in Requests : SentBy(r)
      BY <1>2, <3>1
    <3>3. PipeWord(j)'.req = r /\ sent'[r] = sent[r] + 1 /\ sent[r] < Beats(r)
      BY <3>1, <3>2 DEF SentBy
    <3>4. /\ sent[r] \in Nat /\ delivered[r] \in Nat /\ delivered[r] <= sent[r]
          /\ Beats(r) \in Nat
      BY <1>1, InvTypes, RequestFacts
    <3>5. 0 < sent'[r] /\ delivered'[r] < Beats(r)
      BY <1>2, <3>3, <3>4
    <3>6. ~ Live(r)'
      BY <1>3, <1>9 DEF NoneLive
    <3>. QED
      BY <1>3, <3>3, <3>5, <3>6 DEF Live
  <2>. QED
    BY <2>1, <2>2
<1>10. ASSUME NEW c \in Requests, Live(c)'
       PROVE  /\ Late(c)' \in 0 .. PipeLen'
              /\ \A j \in 1 .. PipeLen' :
                   /\ j <= PipeLen' - Late(c)' => ~ ForSlots(PipeWord(j)'.req)
                   /\ j > PipeLen' - Late(c)' =>
                        PipeWord(j)'.req = c /\ PipeWord(j)'.n = sent'[c] - (PipeLen' - j)
  <2>1. t = 1 /\ SentBy(c) /\ sent[c] = 0 /\ sent'[c] = 1 /\ Late(c)' = 1
    BY <1>10, NoneNext
  <2>2. /\ rx_tdata_combined'[1].req = c /\ rx_tdata_combined'[1].n = sent[c] + 1
    BY <2>1 DEF SentBy
  <2>3. PipeLen' = PipeLen - k + 1 /\ Late(c)' \in 0 .. PipeLen' /\ PipeLen' \in Nat
    BY <1>2, <1>4, <2>1
  <2>4. ASSUME NEW j \in 1 .. PipeLen - k
        PROVE  ~ ForSlots(PipeWord(j)'.req) /\ ~ (j > PipeLen' - Late(c)')
    BY <1>2, <1>4, <1>6, <2>1, <2>3
  <2>5. ASSUME NEW j \in 1 .. PipeLen', j \notin 1 .. PipeLen - k
        PROVE  /\ ~ (j <= PipeLen' - Late(c)')
               /\ PipeWord(j)'.req = c /\ PipeWord(j)'.n = sent'[c] - (PipeLen' - j)
    <3>1. j = PipeLen' /\ PipeWord(j)' = rx_tdata_combined'[1]
      BY <1>7, <2>5
    <3>2. ~ (j <= PipeLen' - Late(c)') /\ sent'[c] - (PipeLen' - j) = sent[c] + 1
      BY <2>1, <2>3, <3>1
    <3>. QED
      BY <2>2, <3>1, <3>2
  <2>. QED
    BY <2>3, <2>4, <2>5
<1>. QED
  BY <1>3, <1>6, <1>7, <1>8, <1>9, <1>10 DEF PipeInv

LEMMA QueueNone ==
  ASSUME SentInTurn, PathInv, NoneLive, NEW t, NEW k, NoneEdge(t, k)
  PROVE  QueueInv' /\ ArbInv'
<1>1. PathTypes /\ QueueInv
  BY DEF PathInv
<1>2. /\ UNCHANGED << plan, delivered, leaving, input_META, counter, counter_inst >>
      /\ input_single' = << >> /\ single_fifo' = << >>
      /\ input_tdata' = [q \in Queues |-> << >>] /\ queue_fifo' = [q \in Queues |-> << >>]
      /\ credits' = [q \in Queues |-> 0] /\ output_deduct_credits' = [q \in Queues |-> 0]
      /\ output_tready_sel' \subseteq {0} /\ RxLen' = t
  BY DEF NoneEdge, PipeMoves
<1>3. \A q \in Queues : /\ input_tdata'[q] = << >> /\ queue_fifo'[q] = << >>
                        /\ credits'[q] = 0 /\ output_deduct_credits'[q] = 0
                        /\ input_META'[q] = FreeMeta
  BY <1>1, <1>2 DEF QueueInv
<1>4. 0 \in Queues /\ leaving' = 0
  BY <1>1, <1>2, ZeroIsQueue DEF QueueInv
<1>5. Requests' = Requests /\ \A p : Beats(p)' = Beats(p)
  BY <1>2, PlanKept
<1>6. QueueLen' = 0 /\ InputLen' = 0 /\ SingleLen' = 0 /\ SingleInputLen' = 0 /\ 1 .. 0 = {}
  BY NoneNext
<1>7. ASSUME NEW c \in Requests, Live(c)'
      PROVE  /\ delivered'[c] = 0 /\ Entered(c)' = 0 /\ ~ (delivered'[c] > 0)
             /\ ~ (Beats(c) > 1 /\ Entered(c)' = Beats(c))
             /\ Counted(c, Entered(c))'
             /\ Late(c)' <= RxLen'
  <2>1. t = 1 /\ delivered'[c] = 0 /\ Entered(c)' = 0 /\ Late(c)' = 1
    BY <1>7, NoneNext
  <2>2. Beats(c) > 1 => Beats(c) # 0
    BY RequestFacts
  <2>3. Counted(c, Entered(c))'
    BY <1>3, <1>4, <2>1 DEF Counted, FreeMeta
  <2>4. Late(c)' <= RxLen' /\ ~ (delivered'[c] > 0)
    BY <1>2, <2>1
  <2>. QED
    BY <2>1, <2>2, <2>3, <2>4
<1>8. QueueInv'
  BY <1>2, <1>3, <1>4, <1>5, <1>6, <1>7 DEF QueueInv, FreeMeta
<1>9. ArbInv'
  <2>1. output_deduct_credits'[0] # 1
    BY <1>3, <1>4
  <2>. QED
    BY <1>2, <1>5, <1>7, <2>1 DEF ArbInv
<1>. QED
  BY <1>8, <1>9

-----------------------------------------------------------------------------
(* The invariant.                                                          *)

LEMMA PathInvStep ==
  ASSUME SentInTurn, PathInv, DispRoom, [PathNext]_pathVars
  PROVE  SentInTurn' /\ PathInv'
<1>1. CASE UNCHANGED pathVars
  <2>1. UNCHANGED << plan, sent, delivered, leaving, rx_tdata_combined, disp_fifo,
                     workload_selection, packet_size, expecting_header,
                     request_bytes_remaining, rx_tready, input_tdata, input_single, input_META,
                     counter, counter_inst, credits, queue_fifo, single_fifo,
                     output_deduct_credits, output_queue_number, output_tready_sel >>
    BY <1>1 DEF pathVars, dispVars, schedVars, inputVars, envVars
  <2>2. SentInTurn'
    BY <2>1, PlanKept
  <2>3. /\ Requests' = Requests
        /\ \A r : /\ Request(r)' = Request(r) /\ Size(r)' = Size(r)
                  /\ Beats(r)' = Beats(r) /\ (ForSlots(r)' <=> ForSlots(r))
                  /\ \A n : /\ PacketLength(r, n)' = PacketLength(r, n)
                            /\ PrevCut(r, n)' = PrevCut(r, n)
    BY <2>1, PlanKept
  <2>a. /\ DispLen' = DispLen /\ RxLen' = RxLen /\ PipeLen' = PipeLen
        /\ QueueLen' = QueueLen /\ InputLen' = InputLen /\ SingleLen' = SingleLen
        /\ SingleInputLen' = SingleInputLen /\ \A j : PipeWord(j)' = PipeWord(j)
    BY <2>1 DEF DispLen, RxLen, PipeLen, QueueLen, InputLen, SingleLen, SingleInputLen, PipeWord
  <2>b. /\ \A r : /\ Entered(r)' = Entered(r) /\ Late(r)' = Late(r)
                  /\ (Open(r)' <=> Open(r)) /\ (Live(r)' <=> Live(r))
        /\ NoneLive' <=> NoneLive
    BY <2>1, <2>3, <2>a DEF Entered, Late, Open, Live, NoneLive
  <2>d. \A j : RightWord(PipeWord(j))' <=> RightWord(PipeWord(j))
    BY <2>1 DEF RightWord, PipeWord, DispLen, Requests, Request, Size, ForSlots, PacketLength
  <2>e. \A j : ForSlots(PipeWord(j).req)' <=> ForSlots(PipeWord(j).req)
    BY <2>1 DEF PipeWord, DispLen, ForSlots, Request
  <2>f. /\ \A c, i : /\ Stored(single_fifo[i].word, c, i)' <=> Stored(single_fifo[i].word, c, i)
                     /\ Stored(input_single[i], c, 1)' <=> Stored(input_single[i], c, 1)
                     /\ Stored(queue_fifo[0][i].word, c, delivered[c] + i)'
                          <=> Stored(queue_fifo[0][i].word, c, delivered[c] + i)
    BY <2>1, <2>3 DEF Stored
  <2>g. \A c, i : Stored(input_tdata[0][i], c, Entered(c))' <=> Stored(input_tdata[0][i], c, Entered(c))
    BY <2>1, <2>3, <2>b DEF Stored
  <2>h. \A c : Counted(c, Entered(c))' <=> Counted(c, Entered(c))
    <3>1. \A c : PrevCut(c, Entered(c) + 1)' = PrevCut(c, Entered(c) + 1)
      BY <2>1, <2>b DEF PrevCut, Request
    <3>. QED
      BY <2>1, <2>3, <2>b, <3>1 DEF Counted, FreeMeta
  <2>4. PathTypes'
    <3>1. PathTypes
      BY DEF PathInv
    <3>2. /\ sent' \in [Requests' -> Nat] /\ delivered' \in [Requests' -> Nat]
          /\ \A r \in Requests' : sent'[r] <= Beats(r)' /\ delivered'[r] <= sent'[r]
      BY <2>1, <2>3, <3>1 DEF PathTypes
    <3>3. /\ IsWord(rx_tdata_combined)' /\ IsFifo(disp_fifo)' /\ rx_tready' = TRUE
          /\ DOMAIN input_tdata' = Queues /\ (\A q \in Queues : IsWord(input_tdata[q])')
          /\ DOMAIN queue_fifo' = Queues /\ (\A q \in Queues : IsFifo(queue_fifo[q])')
          /\ IsWord(input_single)' /\ IsFifo(single_fifo)'
          /\ DOMAIN input_META' = Queues
          /\ DOMAIN counter' = Queues /\ DOMAIN counter_inst' = Queues
          /\ credits' \in [Queues -> 0 .. 1]
          /\ output_deduct_credits' \in [Queues -> 0 .. 1]
      BY <2>1, <3>1 DEF PathTypes
    <3>. QED
      BY <3>2, <3>3 DEF PathTypes
  <2>5. TurnInv' /\ DispInv'
    BY <2>1 DEF PathInv, TurnInv, DispInv, Live, Open, Requests, Request, Size, ForSlots,
                Beats, PrevCut
  <2>6. PipeInv'
    <3>1. PipeInv
      BY DEF PathInv
    <3>. QED
      BY <2>1, <2>3, <2>a, <2>b, <2>d, <2>e, <3>1 DEF PipeInv
  <2>7. QueueInv'
    <3>1. QueueInv
      BY DEF PathInv
    <3>. QED
      BY <2>1, <2>3, <2>a, <2>b, <2>f, <2>g, <2>h, <3>1 DEF QueueInv, FreeMeta
  <2>8. ArbInv'
    BY <2>1 DEF PathInv, ArbInv, Late, Entered, RxLen, QueueLen, InputLen, SingleLen,
                SingleInputLen, Live, Requests, Request, ForSlots, Beats
  <2>. QED
    BY <2>2, <2>4, <2>5, <2>6, <2>7, <2>8 DEF PathInv
<1>2. CASE PathNext /\ NoneLive
  <2>1. PICK t, k \in {0, 1} : NoneEdge(t, k)
    BY <1>2, NoneEdgeMade
  <2>2. PathTypes' /\ TurnInv' /\ PipeInv' /\ QueueInv' /\ ArbInv'
    BY <1>2, <2>1, TypesNone, PipeNone, QueueNone
  <2>3. DispInv' /\ UNCHANGED plan
    BY <2>1 DEF NoneEdge
  <2>. QED
    BY <2>2, <2>3, PlanKept DEF PathInv
<1>3. CASE PathNext /\ ~ NoneLive
  <2>1. PICK c \in Requests : Live(c)
    BY <1>3 DEF NoneLive
  <2>2. PICK t, k, e, d \in {0, 1} : LiveEdge(c, t, k, e, d)
    BY <1>3, <2>1, LiveEdgeMade
  <2>3. PathTypes' /\ TurnInv' /\ PipeInv' /\ QueueInv' /\ ArbInv'
    BY <2>1, <2>2, TypesLive, PipeLive, QueueLive, ArbLive
  <2>4. DispInv' /\ UNCHANGED plan
    BY <2>2 DEF LiveEdge
  <2>. QED
    BY <2>3, <2>4, PlanKept DEF PathInv
<1>. QED
  BY <1>1, <1>2, <1>3

LEMMA PathInvInit ==
  ASSUME PathInit, SentInTurn
  PROVE  PathInv
<1>1. /\ sent = [r \in Requests |-> 0] /\ delivered = [r \in Requests |-> 0] /\ leaving = 0
      /\ rx_tdata_combined = << >> /\ disp_fifo = << >> /\ expecting_header = TRUE
  BY DEF PathInit, DispInit
<1>2. /\ rx_tready = TRUE /\ input_single = << >> /\ single_fifo = << >>
      /\ input_tdata = [q \in Queues |-> << >>] /\ queue_fifo = [q \in Queues |-> << >>]
      /\ input_META = [q \in Queues |-> FreeMeta]
      /\ counter = [q \in Queues |-> 0] /\ counter_inst = [q \in Queues |-> 0]
      /\ credits = [q \in Queues |-> 0] /\ output_deduct_credits = [q \in Queues |-> 0]
      /\ output_tready_sel = {}
  BY DEF PathInit, SchedInit
<1>3. \A r \in Requests : /\ sent[r] = 0 /\ delivered[r] = 0
                          /\ Beats(r) \in Nat \ {0} /\ ~ Open(r) /\ ~ Live(r)
  <2>1. \A r \in Requests : sent[r] = 0 /\ delivered[r] = 0 /\ Beats(r) \in Nat \ {0}
    BY <1>1, RequestFacts
  <2>2. ~ (0 < 0)
    OBVIOUS
  <2>. QED
    BY <2>1, <2>2 DEF Open, Live
<1>4. NoneLive
  BY <1>3 DEF NoneLive
<1>5. IsWord(<< >>) /\ IsFifo(<< >>)
  <2>1. \A C : << >> \in Seq(C)
    OBVIOUS
  <2>2. << >> \in Fifos({})
    BY <2>1 DEF Fifos
  <2>. QED
    BY <2>2, IsWordMade DEF IsFifo
<1>6. /\ DOMAIN input_tdata = Queues /\ (\A q \in Queues : IsWord(input_tdata[q]))
      /\ DOMAIN queue_fifo = Queues /\ (\A q \in Queues : IsFifo(queue_fifo[q]))
      /\ DOMAIN input_META = Queues
      /\ DOMAIN counter = Queues /\ DOMAIN counter_inst = Queues
  BY <1>2, <1>5
<1>7. /\ sent \in [Requests -> Nat] /\ delivered \in [Requests -> Nat]
      /\ \A r \in Requests : sent[r] <= Beats(r) /\ delivered[r] <= sent[r]
  BY <1>1, <1>3
<1>8. PathTypes
  BY <1>1, <1>2, <1>5, <1>6, <1>7, ZeroDeductions DEF PathTypes
<1>9. TurnInv /\ DispInv
  BY <1>1, <1>3 DEF TurnInv, DispInv
<1>10. PipeLen = 0 /\ 1 .. 0 = {}
  BY <1>1 DEF PipeLen, DispLen, RxLen
<1>11. PipeInv
  BY <1>3, <1>10 DEF PipeInv
<1>12. QueueInv
  BY <1>1, <1>2, <1>3, ZeroIsQueue DEF QueueInv
<1>13. ArbInv
  <2>1. output_deduct_credits[0] # 1
    BY <1>2, ZeroIsQueue
  <2>. QED
    BY <1>2, <1>3, <2>1 DEF ArbInv
<1>. QED
  BY <1>8, <1>9, <1>11, <1>12, <1>13 DEF PathInv

-----------------------------------------------------------------------------
(* What leaves for the slots.                                              *)

(* The beat that leaves is the next one of the live request, all of which  *)
(* has been taken.                                                         *)
LEMMA OutputFacts ==
  ASSUME SentInTurn, PathInv, Output # << >>
  PROVE  \E c \in Requests :
           /\ Live(c) /\ Output = << Output[1] >>
           /\ Stored(Output[1], c, delivered[c] + 1)
           /\ Entered(c) = Beats(c)
<1>1. PathTypes /\ PipeInv /\ QueueInv /\ ArbInv
  BY DEF PathInv
<1>. DEFINE popped == {q \in Queues : output_tready(q) /\ OutputValid(queue_fifo[q])}
<1>2. ~ OutputValid(<< >>)
  BY DEF OutputValid
<1>3. popped \subseteq {0}
  <2>1. \A q \in Queues \ {0} : queue_fifo[q] = << >>
    BY <1>1 DEF QueueInv
  <2>. QED
    BY <1>2, <2>1
<1>4. PICK c \in Requests : Live(c)
  <2>1. ASSUME NoneLive
        PROVE  FALSE
    <3>1. queue_fifo[0] = << >> /\ single_fifo = << >>
      BY <1>1, <2>1 DEF QueueInv
    <3>2. popped = {}
      BY <1>2, <1>3, <3>1
    <3>. QED
      BY <1>2, <3>1, <3>2 DEF Output
  <2>. QED
    BY <2>1 DEF NoneLive
<1>5. /\ Beats(c) \in Nat \ {0} /\ Entered(c) \in Nat /\ Entered(c) <= Beats(c)
      /\ delivered[c] \in Nat /\ delivered[c] < Beats(c)
      /\ QueueLen \in Nat /\ InputLen \in {0, 1} /\ SingleLen \in Nat /\ SingleInputLen \in {0, 1}
      /\ Entered(c) = delivered[c] + QueueLen + InputLen + SingleLen + SingleInputLen
  BY <1>1, <1>4, InvTypes, RequestFacts, EnteredBound DEF Live, Entered
<1>6. CASE Beats(c) = 1
  <2>1. /\ queue_fifo[0] = << >>
        /\ \A i \in 1 .. SingleLen : Stored(single_fifo[i].word, c, i)
    BY <1>1, <1>4, <1>6 DEF QueueInv
  <2>2. popped = {}
    BY <1>2, <1>3, <2>1
  <2>3. OutputValid(single_fifo) /\ Output = << single_fifo[1].word >>
    BY <2>2 DEF Output, OutputWord
  <2>4. SingleLen > 0
    BY <1>1, <2>3, FifoIsSeq DEF PathTypes, SingleLen
  <2>5. 1 \in 1 .. SingleLen /\ delivered[c] + 1 = 1 /\ Entered(c) = Beats(c)
    <3>1. delivered[c] = 0 /\ 1 \in 1 .. SingleLen
      BY <1>5, <1>6, <2>4
    <3>2. Entered(c) >= SingleLen
      BY <1>5
    <3>3. Entered(c) = 1
      BY <1>5, <1>6, <2>4, <3>2
    <3>. QED
      BY <1>6, <3>1, <3>3
  <2>6. Output[1] = single_fifo[1].word
    BY <2>3, IsWordMade
  <2>. QED
    BY <1>4, <2>1, <2>3, <2>5, <2>6
<1>7. CASE Beats(c) > 1
  <2>1. /\ single_fifo = << >>
        /\ \A i \in 1 .. QueueLen : Stored(queue_fifo[0][i].word, c, delivered[c] + i)
        /\ credits[0] = IF Entered(c) = Beats(c) THEN 1 ELSE 0
    BY <1>1, <1>4, <1>7 DEF QueueInv
  <2>2. Output = IF popped # {} THEN << OutputWord(queue_fifo[Min(popped)]) >> ELSE << >>
    BY <1>2, <2>1 DEF Output
  <2>3. popped = {0} /\ Min({0}) = 0
    BY <1>3, <2>2, UniqueMin
  <2>4. OutputValid(queue_fifo[0]) /\ 0 \in output_tready_sel
    BY <2>3 DEF output_tready
  <2>. HIDE DEF popped
  <2>5. Output = << queue_fifo[0][1].word >>
    BY <2>2, <2>3 DEF OutputWord
  <2>6. QueueLen > 0
    BY <1>1, <2>4, FifoIsSeq, ZeroIsQueue DEF PathTypes, QueueLen
  <2>7. 1 \in 1 .. QueueLen /\ Entered(c) # 0
    BY <1>5, <2>6
  <2>8. credits[0] # 0
    BY <1>1, <1>4, <2>4, <2>7 DEF ArbInv
  <2>9. Output[1] = queue_fifo[0][1].word
    BY <2>5, IsWordMade
  <2>. QED
    BY <1>4, <2>1, <2>5, <2>7, <2>8, <2>9
<1>. QED
  BY <1>5, <1>6, <1>7

LEMMA BeatsFromInv ==
  ASSUME SentInTurn, PathInv
  PROVE  BeatsExact
<1>. SUFFICES ASSUME NEW i \in DOMAIN Output
              PROVE  /\ Output[i].n = delivered[Output[i].req] + 1
                     /\ Output[i].work = Request(Output[i].req).work
                     /\ Output[i].size = Size(Output[i].req)
                     /\ Output[i].end <=> Output[i].n = Extent(Output[i].req)
                     /\ leaving \in {0, Output[i].req}
  BY DEF BeatsExact
<1>1. Output # << >>
  OBVIOUS
<1>2. PICK c \in Requests : /\ Live(c) /\ Output = << Output[1] >>
                            /\ Stored(Output[1], c, delivered[c] + 1)
  BY <1>1, OutputFacts
<1>. DEFINE w == Output[1]
<1>3. Output = << w >> /\ Stored(w, c, delivered[c] + 1)
  BY <1>2
<1>4. i = 1
  <2>. HIDE DEF w
  <2>. QED
    BY <1>3
<1>5. leaving \in {0, c}
  BY <1>2 DEF PathInv, QueueInv
<1>6. Extent(c) = Beats(c)
  BY ExtentIsBeats
<1>. HIDE DEF w
<1>7. Output[i] = w
  BY <1>4 DEF w
<1>. QED
  BY <1>3, <1>5, <1>6, <1>7 DEF Stored

LEMMA WholeFromInv ==
  ASSUME SentInTurn, PathInv
  PROVE  WholeBeforeLeaving
<1>. SUFFICES ASSUME NEW i \in DOMAIN Output
              PROVE  sent[Output[i].req] >= Extent(Output[i].req) /\ ~ InDispatcher(Output[i].req)
  BY DEF WholeBeforeLeaving
<1>1. Output # << >>
  OBVIOUS
<1>2. PICK c \in Requests : /\ Live(c) /\ Output = << Output[1] >>
                            /\ Stored(Output[1], c, delivered[c] + 1)
                            /\ Entered(c) = Beats(c)
  BY <1>1, OutputFacts
<1>. DEFINE w == Output[1]
<1>3. Output = << w >> /\ w.req = c
  BY <1>2 DEF Stored
<1>4. i = 1
  <2>. HIDE DEF w
  <2>. QED
    BY <1>3
<1>5. Output[i].req = c
  BY <1>3, <1>4
<1>6. /\ sent[c] \in Nat /\ sent[c] <= Beats(c) /\ Beats(c) \in Nat /\ Extent(c) = Beats(c)
      /\ Entered(c) <= sent[c] /\ Late(c) = sent[c] - Entered(c) /\ PipeLen \in Nat
      /\ DispLen \in Nat /\ RxLen \in {0, 1} /\ PipeLen = DispLen + RxLen
  BY <1>2, ExtentIsBeats, RequestFacts, InvTypes, EnteredBound DEF PathInv, Late, PipeLen
<1>7. Late(c) = 0 /\ sent[c] >= Extent(c)
  BY <1>2, <1>6
<1>8. \A j \in 1 .. PipeLen : PipeWord(j).req # c
  <2>1. \A j \in 1 .. PipeLen : j <= PipeLen - Late(c)
    BY <1>6, <1>7
  <2>2. \A j \in 1 .. PipeLen : ~ ForSlots(PipeWord(j).req)
    BY <1>2, <2>1 DEF PathInv, PipeInv
  <2>. QED
    BY <1>2, <2>2 DEF Live
<1>9. \A j \in DOMAIN rx_tdata_combined : rx_tdata_combined[j].req # c
  <2>. SUFFICES ASSUME NEW j \in DOMAIN rx_tdata_combined
                PROVE  rx_tdata_combined[j].req # c
    OBVIOUS
  <2>1. DOMAIN rx_tdata_combined = 1 .. RxLen
    BY WordIsSeq DEF PathInv, PathTypes, RxLen
  <2>2. j = 1 /\ PipeLen = DispLen + 1 /\ PipeLen \in 1 .. PipeLen /\ ~ (PipeLen <= DispLen)
    BY <1>6, <2>1
  <2>3. PipeWord(PipeLen) = rx_tdata_combined[1]
    BY <2>2 DEF PipeWord
  <2>. QED
    BY <1>8, <2>2, <2>3
<1>10. \A j \in DOMAIN disp_fifo : disp_fifo[j].word.req # c
  <2>. SUFFICES ASSUME NEW j \in DOMAIN disp_fifo
                PROVE  disp_fifo[j].word.req # c
    OBVIOUS
  <2>1. DOMAIN disp_fifo = 1 .. DispLen
    BY FifoIsSeq DEF PathInv, PathTypes, DispLen
  <2>2. j <= DispLen /\ j \in 1 .. PipeLen
    BY <1>6, <2>1
  <2>3. PipeWord(j) = disp_fifo[j].word
    BY <2>2 DEF PipeWord
  <2>. QED
    BY <1>8, <2>2, <2>3
<1>11. ~ InDispatcher(c)
  BY <1>9, <1>10 DEF InDispatcher
<1>. QED
  BY <1>5, <1>7, <1>11

LEMMA CreditsFromInv ==
  ASSUME SentInTurn, PathInv
  PROVE  CreditsAreRequests
<1>. DEFINE Ends(q) == {i \in DOMAIN queue_fifo[q] : queue_fifo[q][i].word.end}
            NewEnds(q) == {i \in DOMAIN input_tdata[q] : input_tdata[q][i].end}
<1>. SUFFICES ASSUME NEW q \in Queues
              PROVE  credits[q] - output_deduct_credits[q]
                       = Cardinality(Ends(q)) + Cardinality(NewEnds(q))
  BY DEF CreditsAreRequests
<1>1. PathTypes /\ QueueInv /\ PipeInv
  BY DEF PathInv
<1>2. Cardinality({}) = 0 /\ \A x : Cardinality({x}) = 1
  BY FS_EmptySet, FS_Singleton
<1>3. ASSUME queue_fifo[q] = << >>, input_tdata[q] = << >>
      PROVE  Cardinality(Ends(q)) = 0 /\ Cardinality(NewEnds(q)) = 0
  <2>1. DOMAIN queue_fifo[q] = {} /\ DOMAIN input_tdata[q] = {}
    BY <1>3
  <2>2. Ends(q) = {} /\ NewEnds(q) = {}
    BY <2>1
  <2>. HIDE DEF Ends, NewEnds
  <2>. QED
    BY <1>2, <2>2
<1>. HIDE DEF Ends, NewEnds
<1>4. /\ credits[q] \in 0 .. 1 /\ output_deduct_credits[q] \in 0 .. 1
  BY <1>1 DEF PathTypes
<1>5. CASE q # 0
  <2>1. /\ queue_fifo[q] = << >> /\ input_tdata[q] = << >>
        /\ credits[q] = 0 /\ output_deduct_credits[q] = 0
    BY <1>1, <1>5 DEF QueueInv
  <2>. QED
    BY <1>3, <2>1
<1>6. CASE q = 0 /\ NoneLive
  <2>1. /\ queue_fifo[q] = << >> /\ input_tdata[q] = << >>
        /\ credits[q] = output_deduct_credits[q]
    BY <1>1, <1>6 DEF QueueInv
  <2>. QED
    BY <1>3, <1>4, <2>1
<1>7. ASSUME NEW c \in Requests, Live(c), q = 0
      PROVE  credits[q] - output_deduct_credits[q]
               = Cardinality(Ends(q)) + Cardinality(NewEnds(q))
  <2>1. /\ output_deduct_credits[q] = 0
        /\ \A i \in 1 .. QueueLen : Stored(queue_fifo[q][i].word, c, delivered[c] + i)
        /\ \A i \in 1 .. InputLen : Stored(input_tdata[q][i], c, Entered(c))
        /\ Beats(c) = 1 => queue_fifo[q] = << >> /\ input_tdata[q] = << >>
        /\ Beats(c) > 1 => single_fifo = << >> /\ input_single = << >>
        /\ credits[q] = IF Beats(c) > 1 /\ Entered(c) = Beats(c) THEN 1 ELSE 0
    BY <1>1, <1>7 DEF QueueInv
  <2>2. /\ Beats(c) \in Nat \ {0} /\ Entered(c) \in Nat /\ Entered(c) <= Beats(c)
        /\ delivered[c] \in Nat /\ delivered[c] < Beats(c)
        /\ QueueLen \in Nat /\ InputLen \in {0, 1}
    BY <1>1, <1>7, InvTypes, RequestFacts, EnteredBound DEF Live
  <2>3. CASE Beats(c) = 1
    <3>1. credits[q] = 0
      BY <2>1, <2>3
    <3>. QED
      BY <1>3, <2>1, <2>3, <3>1
  <2>4. CASE Beats(c) > 1
    <3>1. SingleLen = 0 /\ SingleInputLen = 0
      BY <2>1, <2>4 DEF SingleLen, SingleInputLen
    <3>2. Entered(c) = delivered[c] + QueueLen + InputLen
      BY <2>2, <3>1 DEF Entered
    <3>3. DOMAIN queue_fifo[q] = 1 .. QueueLen /\ DOMAIN input_tdata[q] = 1 .. InputLen
      BY <1>1, <1>7, FifoIsSeq, WordIsSeq DEF PathTypes, QueueLen, InputLen
    <3>4. Ends(q) = {i \in 1 .. QueueLen : delivered[c] + i = Beats(c)}
      BY <2>1, <3>3 DEF Ends, Stored
    <3>5. NewEnds(q) = {i \in 1 .. InputLen : Entered(c) = Beats(c)}
      BY <2>1, <3>3 DEF NewEnds, Stored
    <3>6. CASE Entered(c) # Beats(c)
      <4>1. Ends(q) = {} /\ NewEnds(q) = {}
        BY <2>2, <3>2, <3>4, <3>5, <3>6
      <4>. QED
        BY <1>2, <2>1, <3>6, <4>1
    <3>7. CASE Entered(c) = Beats(c) /\ InputLen = 1
      <4>1. Ends(q) = {}
        BY <2>2, <3>2, <3>4, <3>7
      <4>2. NewEnds(q) = {1}
        BY <3>5, <3>7
      <4>3. credits[q] = 1 /\ Cardinality(Ends(q)) = 0 /\ Cardinality(NewEnds(q)) = 1
        BY <1>2, <2>1, <2>4, <3>7, <4>1, <4>2
      <4>. QED
        BY <2>1, <4>3
    <3>8. CASE Entered(c) = Beats(c) /\ InputLen = 0
      <4>1. QueueLen \in 1 .. QueueLen /\ delivered[c] + QueueLen = Beats(c)
        BY <2>2, <3>2, <3>8
      <4>2. Ends(q) = {QueueLen}
        BY <2>2, <3>4, <4>1
      <4>3. NewEnds(q) = {}
        BY <3>5, <3>8
      <4>4. credits[q] = 1 /\ Cardinality(Ends(q)) = 1 /\ Cardinality(NewEnds(q)) = 0
        BY <1>2, <2>1, <2>4, <3>8, <4>2, <4>3
      <4>. QED
        BY <2>1, <4>4
    <3>. QED
      BY <2>2, <3>6, <3>7, <3>8
  <2>. QED
    BY <2>2, <2>3, <2>4
<1>. QED
  BY <1>5, <1>6, <1>7 DEF NoneLive

-----------------------------------------------------------------------------
(* The invariant holds while requests are sent in turn and the FIFO behind *)
(* the dispatcher, whose ready is not connected, is never full when a beat *)
(* comes.                                                                  *)
LEMMA PathInvariant ==
  PathSpec /\ SentInTurn /\ []DispRoom => [](SentInTurn /\ PathInv)
<1>1. PathInit /\ SentInTurn => SentInTurn /\ PathInv
  BY PathInvInit
<1>2. (SentInTurn /\ PathInv) /\ DispRoom /\ [PathNext]_pathVars => (SentInTurn /\ PathInv)'
  BY PathInvStep
<1>. QED
  BY <1>1, <1>2, PTL DEF PathSpec

(* The slots get every beat of every request once and in order, with the   *)
(* workload and the size of its header and message_end on the last beat    *)
(* only (dispatcher.v's tags, scheduler.v's input block, queues and        *)
(* output multiplexer), for any number and any shape of requests that are  *)
(* sent in turn.                                                           *)
THEOREM RequestBeatsCorrect ==
  PathSpec /\ SentInTurn /\ []DispRoom => []BeatsExact
<1>1. SentInTurn /\ PathInv => BeatsExact
  BY BeatsFromInv
<1>. QED
  BY <1>1, PathInvariant, PTL

(* The arbiter forwards no beat of a request before the scheduler has      *)
(* stored all of it and nothing of it is left in the dispatcher.           *)
THEOREM RequestWholeCorrect ==
  PathSpec /\ SentInTurn /\ []DispRoom => []WholeBeforeLeaving
<1>1. SentInTurn /\ PathInv => WholeBeforeLeaving
  BY WholeFromInv
<1>. QED
  BY <1>1, PathInvariant, PTL

(* The credits that the input block gives and the arbiter deducts, each in *)
(* a register of its own that both blocks clear, always differ by the      *)
(* complete requests in the queue.                                         *)
THEOREM RequestCreditsCorrect ==
  PathSpec /\ SentInTurn /\ []DispRoom => []CreditsAreRequests
<1>1. SentInTurn /\ PathInv => CreditsAreRequests
  BY CreditsFromInv
<1>. QED
  BY <1>1, PathInvariant, PTL

-----------------------------------------------------------------------------
(* The FIFO behind the dispatcher, when nobody holds it back.              *)

(* No two words of f entered at the same edge, as far as ages tell.        *)
Drains(f) == \A i, j \in 1 .. Len(f) : i < j => f[i].age > f[j].age

LEMMA FifoAges ==
  ASSUME NEW f, IsFifo(f)
  PROVE  \A i \in 1 .. Len(f) : f[i].age \in 0 .. 2
<1>1. PICK S : f \in Fifos(S)
  BY DEF IsFifo
<1>. DEFINE C == [word : S, age : 0 .. PipeStages]
<1>2. f \in Seq(C)
  BY <1>1 DEF Fifos
<1>3. \A x \in C : x.age \in 0 .. 2
  BY DEF PipeStages
<1>. HIDE DEF C
<1>4. \A i \in 1 .. Len(f) : f[i] \in C
  BY <1>2
<1>. QED
  BY <1>3, <1>4

(* Such a FIFO has at most one word that is not yet in the pipe.           *)
LEMMA RoomWhileDraining ==
  ASSUME NEW f, IsFifo(f), Drains(f), NEW depth \in Nat, depth >= 2
  PROVE  InputReady(f, depth)
<1>. DEFINE L == Len(f)
            T == {i \in 1 .. PipeStages : i <= L /\ f[i].age > 0}
<1>1. L \in Nat
  BY FifoIsSeq
<1>2. InMemory(f) = L - Cardinality(T)
  BY DEF InMemory
<1>3. \A i \in 1 .. L : f[i].age \in 0 .. 2
  BY FifoAges
<1>4. \A i, j \in 1 .. L : i < j => f[i].age > f[j].age
  BY DEF Drains
<1>. HIDE DEF L
<1>5. L <= 3
  <2>. SUFFICES ASSUME L > 3
                PROVE  FALSE
    BY <1>1
  <2>1. 1 \in 1 .. L /\ 2 \in 1 .. L /\ 3 \in 1 .. L /\ 4 \in 1 .. L
    BY <1>1
  <2>2. f[1].age > f[2].age /\ f[2].age > f[3].age /\ f[3].age > f[4].age
    BY <1>4, <2>1
  <2>3. f[1].age \in 0 .. 2 /\ f[2].age \in 0 .. 2 /\ f[3].age \in 0 .. 2 /\ f[4].age \in 0 .. 2
    BY <1>3, <2>1
  <2>. QED
    BY <2>2, <2>3
<1>6. IsFiniteSet({1, 2}) /\ T \in SUBSET {1, 2} /\ Cardinality({1, 2}) = 2
  <2>1. {1} \cup {2} = {1, 2} /\ 2 \notin {1}
    OBVIOUS
  <2>2. IsFiniteSet({1}) /\ Cardinality({1}) = 1
    BY FS_Singleton
  <2>3. IsFiniteSet({1} \cup {2}) /\ Cardinality({1} \cup {2}) = Cardinality({1}) + 1
    BY <2>1, <2>2, FS_AddElement
  <2>4. T \in SUBSET {1, 2}
    BY DEF PipeStages
  <2>. QED
    BY <2>1, <2>2, <2>3, <2>4
<1>7. IsFiniteSet(T)
  <2>. HIDE DEF T
  <2>. QED
    BY <1>6, FS_Subset
<1>8. Cardinality(T) \in Nat
  <2>. HIDE DEF T
  <2>. QED
    BY <1>7, FS_CardinalityType
<1>9. CASE L <= 1
  <2>. HIDE DEF T
  <2>. QED
    BY <1>1, <1>2, <1>8, <1>9 DEF InputReady
<1>10. CASE L = 2
  <2>1. f[1].age > f[2].age /\ f[1].age \in 0 .. 2 /\ f[2].age \in 0 .. 2
    BY <1>3, <1>4, <1>10
  <2>2. 1 \in T
    BY <1>10, <2>1 DEF PipeStages
  <2>. HIDE DEF T
  <2>3. Cardinality(T) # 0
    BY <1>7, <2>2, FS_EmptySet
  <2>. QED
    BY <1>2, <1>8, <1>10, <2>3 DEF InputReady
<1>11. CASE L = 3
  <2>1. /\ f[1].age > f[2].age /\ f[2].age > f[3].age
        /\ f[1].age \in 0 .. 2 /\ f[2].age \in 0 .. 2 /\ f[3].age \in 0 .. 2
    BY <1>3, <1>4, <1>11
  <2>2. 1 \in T /\ 2 \in T
    BY <1>11, <2>1 DEF PipeStages
  <2>3. T = {1, 2}
    BY <1>6, <2>2
  <2>. HIDE DEF T
  <2>. QED
    BY <1>2, <1>6, <1>11, <2>3 DEF InputReady
<1>. QED
  BY <1>1, <1>5, <1>9, <1>10, <1>11

LEMMA DrainsOn ==
  ASSUME NEW f, IsFifo(f), Drains(f), NEW depth, NEW written, IsWord(written),
         written # << >> => InputReady(f, depth)
  PROVE  Drains(FifoEdge(f, depth, written, TRUE))
<1>. DEFINE kept == IF TRUE /\ OutputValid(f) THEN Tail(f) ELSE f
            older(age) == IF age < PipeStages THEN age + 1 ELSE age
            aged == [i \in DOMAIN kept |-> [kept[i] EXCEPT !.age = older(@)]]
            new == IF written # << >> THEN << [word |-> written[1], age |-> 0] >> ELSE << >>
            g == FifoEdge(f, depth, written, TRUE)
<1>1. PICK A : f \in Fifos(A)
  BY DEF IsFifo
<1>. DEFINE C == [word : A, age : 0 .. PipeStages]
<1>2. f \in Seq(C)
  BY <1>1 DEF Fifos
<1>3. \A i \in 1 .. Len(f) : f[i].age \in 0 .. 2 /\ f[i] \in C
  <2>. HIDE DEF C
  <2>. QED
    BY <1>2, FifoAges
<1>4. g = aged \o new
  BY DEF FifoEdge
<1>5. Len(f) \in Nat /\ DOMAIN f = 1 .. Len(f) /\ (OutputValid(f) => f # << >>)
      /\ (f # << >> => Len(f) > 0)
  <2>. HIDE DEF C
  <2>. QED
    BY <1>2, FifoIsSeq DEF OutputValid
<1>6. PICK k \in {0, 1} : k = IF OutputValid(f) THEN 1 ELSE 0
  OBVIOUS
<1>7. /\ kept \in Seq(C) /\ Len(kept) = Len(f) - k /\ k <= Len(f)
      /\ \A i \in 1 .. Len(f) - k : kept[i] = f[i + k]
  <2>. HIDE DEF C
  <2>1. CASE OutputValid(f)
    <3>1. kept = Tail(f) /\ k = 1 /\ f # << >>
      BY <1>5, <1>6, <2>1
    <3>2. /\ Tail(f) \in Seq(C) /\ Len(Tail(f)) = Len(f) - 1
          /\ \A i \in 1 .. Len(f) - 1 : Tail(f)[i] = f[i + 1]
      BY <1>2, <3>1
    <3>. HIDE DEF kept
    <3>3. k <= Len(f)
      <4>1. \A n \in Nat : n > 0 => 1 <= n
        OBVIOUS
      <4>2. Len(f) \in Nat /\ Len(f) > 0
        BY <1>5, <3>1
      <4>3. 1 <= Len(f)
        BY <4>1, <4>2, Zenon
      <4>. QED
        BY <3>1, <4>3
    <3>. QED
      BY <3>1, <3>2, <3>3
  <2>2. CASE ~ OutputValid(f)
    BY <1>2, <1>5, <1>6, <2>2
  <2>. QED
    BY <2>1, <2>2
<1>. HIDE DEF kept
<1>. DEFINE m == Len(f) - k
<1>8. m \in Nat /\ Len(kept) = m /\ DOMAIN kept = 1 .. m
  <2>. HIDE DEF C
  <2>. QED
    BY <1>5, <1>7
<1>. HIDE DEF m
(* Only the word at the output can have its full age.                      *)
<1>9. \A i \in 1 .. m : /\ kept[i].age \in 0 .. 1
                        /\ \A j \in 1 .. m : i < j => kept[i].age > kept[j].age
  <2>. SUFFICES ASSUME NEW i \in 1 .. m
                PROVE  /\ kept[i].age \in 0 .. 1
                       /\ \A j \in 1 .. m : i < j => kept[i].age > kept[j].age
    OBVIOUS
  <2>1. \A j \in 1 .. m : /\ kept[j] = f[j + k] /\ j + k \in 1 .. Len(f)
                          /\ i < j => i + k < j + k
    BY <1>5, <1>7 DEF m
  <2>2. kept[i].age \in 0 .. 2
    BY <1>3, <2>1
  <2>3. kept[i].age # 2
    <3>1. CASE k = 1
      <4>1. 1 \in 1 .. Len(f) /\ 1 < i + k
        BY <1>5, <2>1, <3>1
      <4>2. f[1].age > kept[i].age /\ f[1].age \in 0 .. 2
        BY <1>3, <2>1, <4>1 DEF Drains
      <4>. QED
        BY <2>2, <4>2
    <3>2. CASE k = 0
      <4>1. f[1].age # 2
        <5>1. f # << >> /\ ~ OutputValid(f)
          BY <1>5, <1>6, <2>1, <3>2
        <5>. QED
          BY <5>1 DEF OutputValid, PipeStages
      <4>2. i + k = i /\ kept[i] = f[i]
        BY <2>1, <3>2
      <4>3. CASE i = 1
        BY <4>1, <4>2, <4>3
      <4>4. CASE i # 1
        <5>1. 1 \in 1 .. Len(f) /\ 1 < i /\ i \in 1 .. Len(f)
          BY <1>5, <2>1, <4>2, <4>4
        <5>2. f[1].age > f[i].age /\ f[1].age \in 0 .. 2
          BY <1>3, <5>1 DEF Drains
        <5>. QED
          BY <2>2, <4>2, <5>2
      <4>. QED
        BY <4>3, <4>4
    <3>. QED
      BY <3>1, <3>2
  <2>4. \A j \in 1 .. m : i < j => kept[i].age > kept[j].age
    BY <2>1 DEF Drains
  <2>. QED
    BY <2>2, <2>3, <2>4
<1>10. \A i \in 1 .. m : aged[i].age = kept[i].age + 1
  <2>1. \A i \in 1 .. m : kept[i] \in C
    <3>. HIDE DEF C
    <3>. QED
      BY <1>7, <1>8
  <2>2. \A i \in 1 .. m : [kept[i] EXCEPT !.age = older(@)].age = older(kept[i].age)
    BY <2>1
  <2>3. \A i \in 1 .. m : older(kept[i].age) = kept[i].age + 1
    BY <1>9 DEF PipeStages
  <2>. QED
    BY <1>8, <2>2, <2>3
<1>11. /\ \A i \in 1 .. m : g[i].age = kept[i].age + 1
       /\ Len(g) \in {m, m + 1}
       /\ Len(g) = m + 1 => g[m + 1].age = 0
  <2>1. aged \in Seq(C) /\ Len(aged) = m
    <3>1. \A i \in 1 .. m : kept[i] \in C
      <4>. HIDE DEF C
      <4>. QED
        BY <1>7, <1>8
    <3>2. \A i \in 1 .. m : [kept[i] EXCEPT !.age = older(@)] \in C
      BY <1>9, <3>1 DEF PipeStages
    <3>3. aged \in [1 .. m -> C]
      BY <1>8, <3>2
    <3>. HIDE DEF aged, C
    <3>. QED
      BY <1>8, <3>3
  <2>. DEFINE D == C \cup {[word |-> written[1], age |-> 0]}
  <2>2. new \in Seq(D) /\ Len(new) \in {0, 1} /\ (Len(new) = 1 => new[1].age = 0)
    <3>. HIDE DEF C
    <3>1. CASE written = << >>
      BY <3>1
    <3>2. CASE written # << >>
      BY <3>2
    <3>. QED
      BY <3>1, <3>2
  <2>. HIDE DEF aged, new, C
  <2>3. aged \in Seq(D)
    BY <2>1
  <2>. HIDE DEF D
  <2>4. /\ Len(aged \o new) = Len(aged) + Len(new)
        /\ \A i \in 1 .. Len(aged) + Len(new) :
             (aged \o new)[i] = IF i <= Len(aged) THEN aged[i] ELSE new[i - Len(aged)]
    BY <2>2, <2>3, ConcatProperties
  <2>. HIDE DEF g
  <2>5. \A i \in 1 .. m : g[i] = aged[i]
    BY <1>4, <1>8, <2>1, <2>2, <2>4
  <2>6. Len(g) = m + Len(new)
    BY <1>4, <2>1, <2>4
  <2>7. Len(g) \in {m, m + 1} /\ (Len(g) = m + 1 => Len(new) = 1)
    <3>1. CASE Len(new) = 0
      BY <1>8, <2>6, <3>1
    <3>2. CASE Len(new) = 1
      BY <1>8, <2>6, <3>2
    <3>. QED
      BY <2>2, <3>1, <3>2
  <2>8. Len(new) = 1 => g[m + 1] = new[1]
    <3>1. m + 1 \in 1 .. m + 1 /\ ~ (m + 1 <= m) /\ (m + 1) - m = 1
      BY <1>8
    <3>. QED
      BY <1>4, <2>1, <2>4, <3>1
  <2>. QED
    BY <1>10, <2>2, <2>5, <2>7, <2>8
<1>. HIDE DEF g, aged, new, C
<1>12. ASSUME NEW i \in 1 .. Len(g), NEW j \in 1 .. Len(g), i < j
       PROVE  g[i].age > g[j].age
  <2>1. i \in 1 .. m
    BY <1>8, <1>11, <1>12
  <2>2. CASE j \in 1 .. m
    <3>1. /\ kept[i].age \in 0 .. 1 /\ kept[j].age \in 0 .. 1 /\ kept[i].age > kept[j].age
      BY <1>9, <1>12, <2>1, <2>2
    <3>. QED
      BY <1>11, <2>1, <2>2, <3>1
  <2>3. CASE j \notin 1 .. m
    <3>1. j = m + 1 /\ Len(g) = m + 1
      BY <1>8, <1>11, <2>3
    <3>2. g[j].age = 0 /\ g[i].age = kept[i].age + 1 /\ kept[i].age \in 0 .. 1
      BY <1>9, <1>11, <2>1, <3>1
    <3>. QED
      BY <3>2
  <2>. QED
    BY <2>2, <2>3
<1>13. Drains(g)
  BY <1>12 DEF Drains
<1>. QED
  BY <1>13 DEF g

(* No request is for the reconfiguration controller, which alone can hold  *)
(* the FIFO back.                                                          *)
SlotsOnly == \A r \in Requests : ForSlots(r)

DrainInv == SentInTurn /\ PathInv /\ SlotsOnly /\ Drains(disp_fifo)

LEMMA DrainRoom ==
  ASSUME DispDepth >= 2, PathTypes, Drains(disp_fifo)
  PROVE  DispRoom
<1>1. IsFifo(disp_fifo) /\ DispDepth \in Nat
  BY DispDepthAssumption DEF PathTypes
<1>. QED
  BY <1>1, RoomWhileDraining DEF DispRoom

LEMMA DrainInvStep ==
  ASSUME DispDepth >= 2, DrainInv, [PathNext]_pathVars
  PROVE  DrainInv'
<1>1. /\ SentInTurn /\ PathInv /\ SlotsOnly /\ Drains(disp_fifo) /\ PathTypes /\ PipeInv
      /\ TurnInv /\ DispInv
  BY DEF DrainInv, PathInv
<1>2. DispRoom
  BY <1>1, DrainRoom
<1>3. SentInTurn' /\ PathInv'
  BY <1>1, <1>2, PathInvStep
<1>4. CASE UNCHANGED pathVars
  <2>1. UNCHANGED << plan, disp_fifo >>
    BY <1>4 DEF pathVars, dispVars, envVars
  <2>2. SlotsOnly'
    BY <1>1, <2>1, PlanKept DEF SlotsOnly
  <2>3. Drains(disp_fifo)'
    BY <1>1, <2>1 DEF Drains
  <2>. QED
    BY <1>3, <2>2, <2>3 DEF DrainInv
<1>5. CASE PathNext
  <2>1. UNCHANGED plan /\ \E controller \in BOOLEAN : RestOfPath(controller)
    BY <1>1, <1>5, FrontStep
  <2>2. PICK controller \in BOOLEAN : RestOfPath(controller)
    BY <2>1
  <2>3. SlotsOnly'
    BY <1>1, <2>1, PlanKept DEF SlotsOnly
  <2>4. ~ reconf_selected
    <3>. SUFFICES ASSUME OutputValid(disp_fifo)
                  PROVE  disp_fifo[1].word.work # RECONF_APP
      BY DEF reconf_selected, disp_tvalid, disp_tdata, OutputWord
    <3>1. DispLen \in Nat /\ DispLen > 0 /\ RxLen \in {0, 1}
      BY <1>1, InvTypes, FifoIsSeq DEF PathTypes, DispLen
    <3>2. 1 <= DispLen /\ 1 \in 1 .. PipeLen
      BY <3>1 DEF PipeLen
    <3>3. PipeWord(1) = disp_fifo[1].word /\ RightWord(PipeWord(1))
      BY <1>1, <3>2 DEF PipeWord, PipeInv
    <3>. QED
      BY <1>1, <3>3 DEF RightWord, SlotsOnly, ForSlots
  <2>5. dispatcher_tready(controller) = TRUE
    BY <1>1, <2>4 DEF dispatcher_tready, PathTypes
  <2>6. disp_fifo' = FifoEdge(disp_fifo, DispDepth, rx_tdata_combined, TRUE)
    BY <2>2, <2>5 DEF RestOfPath, DispFifoEdge
  <2>7. /\ IsFifo(disp_fifo) /\ IsWord(rx_tdata_combined)
        /\ rx_tdata_combined # << >> => InputReady(disp_fifo, DispDepth)
    BY <1>1, <1>2 DEF PathTypes, DispRoom
  <2>8. Drains(disp_fifo')
    BY <1>1, <2>6, <2>7, DrainsOn
  <2>. QED
    BY <1>3, <2>3, <2>8 DEF DrainInv, Drains
<1>. QED
  BY <1>4, <1>5

(* The ready of the dispatcher's FIFO is left open (dispatcher.v:104).     *)
(* Requests for slots that are sent in turn never need it: the scheduler   *)
(* is ready at every edge, so the FIFO never holds more than its pipe and  *)
(* one word, and what the theorems above say holds of them without a       *)
(* hypothesis on the FIFO.                                                 *)
THEOREM SlotRequestsCorrect ==
  ASSUME DispDepth >= 2
  PROVE  PathSpec /\ SentInTurn /\ SlotsOnly
           => [](DispRoom /\ BeatsExact /\ WholeBeforeLeaving /\ CreditsAreRequests)
<1>1. PathInit /\ SentInTurn /\ SlotsOnly => DrainInv
  <2>. SUFFICES ASSUME PathInit, SentInTurn, SlotsOnly
                PROVE  DrainInv
    OBVIOUS
  <2>1. disp_fifo = << >>
    BY DEF PathInit, DispInit
  <2>2. Drains(<< >>)
    BY DEF Drains
  <2>. QED
    BY <2>1, <2>2, PathInvInit DEF DrainInv
<1>2. DrainInv /\ [PathNext]_pathVars => DrainInv'
  BY DrainInvStep
<1>3. DrainInv => DispRoom /\ BeatsExact /\ WholeBeforeLeaving /\ CreditsAreRequests
  BY DrainRoom, BeatsFromInv, WholeFromInv, CreditsFromInv DEF DrainInv, PathInv
<1>. QED
  BY <1>1, <1>2, <1>3, PTL DEF PathSpec

=============================================================================
