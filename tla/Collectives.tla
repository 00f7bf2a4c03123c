---------------------------- MODULE Collectives -----------------------------
(***************************************************************************)
(* The collective operations of kernels/common/include/communication.hpp:  *)
(* node 0 runs allReduce_sum (gather, split_stream, sum_from_streams,      *)
(* duplicate_stream, broadcast) or scatter, and nodes 1 .. useConn are its *)
(* peers, which open a connection to it, send with sendDataPtr and receive *)
(* with recvDataPtr.  Between them stands the TCP stack of each node, as   *)
(* the library uses it: metadata, status, data, notifications and reads.   *)
(*                                                                         *)
(* Lengths are counted in words of 64 bytes; a word is one lane of WIDTH   *)
(* bits.                                                                   *)
(***************************************************************************)
EXTENDS Integers, Sequences, SequencesExt, FiniteSetsExt, Folds

CONSTANTS useConn,         \* number of peers
          pkgWordCount,    \* words of a package
          expWords,        \* words each peer sends and receives
          Depth,           \* depth of the streams between the processes of node 0
          WIDTH,           \* bits of a lane
          MaxCut,          \* most words of a TCP segment
          Refusals         \* how often a stack may lack buffer space

ASSUME CollectivesAssumption ==
  /\ {useConn, pkgWordCount, expWords, Depth, WIDTH, MaxCut} \subseteq Nat \ {0}
  /\ Refusals \in Nat

Peers == 1 .. useConn
Nodes == 0 .. useConn

VARIABLES job,       \* what node 0 runs: "allReduce_sum" or "scatter"
          session,   \* node 0's session of each peer, 0 before it is open
          listens,   \* whether node 0's ports are open
          snd,       \* registers of each node's sender
          stack,     \* each node's stack: metadata, answers, grants, data, notifications
          wire,      \* words on their way, by sender and receiver
          rcv,       \* registers of each node's receiver
          root,      \* streams and registers inside node 0's dataflow
          refusals   \* refusals left

vars == <<job, session, listens, snd, stack, wire, rcv, root, refusals>>

-----------------------------------------------------------------------------
(* The data.                                                               *)

(* What peer p contributes to the sum as its i-th word.                    *)
Contribution(p, i) == (i + 5 * p) % 2^WIDTH

(* The i-th word of the data node 0 scatters.                              *)
Scattered(i) == i % 2^WIDTH

Total == useConn * expWords

NewSender(words) ==
  [first_round |-> TRUE, sent |-> 0, words |-> 0, index |-> 0, in |-> words]

NewStack == [meta |-> <<>>, status |-> <<>>, granted |-> <<>>, data |-> <<>>,
             notes |-> <<>>, buf |-> [s \in Peers |-> <<>>], rx |-> <<>>]

NewReceiver == [asked |-> 0, out |-> <<>>]

NewRoot ==
  [available |-> [i \in Peers |-> 0], read |-> [i \in Peers |-> 0],
   table |-> [i \in Peers |-> 0], index |-> 1,
   gathered |-> <<>>, split |-> 0, buffer |-> [i \in Peers |-> <<>>],
   reduced |-> <<>>, sums |-> 0, data_out |-> <<>>, broadCastBuffer |-> <<>>]

Init ==
  /\ job \in {"allReduce_sum", "scatter"}
  /\ session = [p \in Peers |-> 0]
  /\ listens = FALSE
  /\ snd = [n \in Nodes |->
              NewSender(IF n > 0 THEN [i \in 1 .. expWords |-> Contribution(n, i)]
                        ELSE IF job = "scatter" THEN [i \in 1 .. Total |-> Scattered(i)]
                             ELSE <<>>)]
  /\ stack = [n \in Nodes |-> NewStack]
  /\ wire = [e \in {<<0, p>> : p \in Peers} \cup {<<p, 0>> : p \in Peers} |-> <<>>]
  /\ rcv = [n \in Nodes |-> NewReceiver]
  /\ root = NewRoot
  /\ refusals = Refusals

-----------------------------------------------------------------------------
(* Connections: node 0 knows a session by the number it got when it opened, *)
(* a peer has one session.                                                 *)

SessionTo(n, other) == IF n = 0 THEN session[other] ELSE 1
PeerOf(n, s) == IF n = 0 THEN CHOOSE p \in Peers : session[p] = s ELSE 0

AllOpen == \A p \in Peers : session[p] # 0

(* Every port of node 0 is asked for and answered.                         *)
listenPorts ==
  /\ ~listens
  /\ listens' = TRUE
  /\ UNCHANGED <<job, session, snd, stack, wire, rcv, root, refusals>>

(* A peer opens its connection; the number it gets at node 0 depends on    *)
(* who came before.                                                        *)
openConnections(p) ==
  /\ listens
  /\ session[p] = 0
  /\ session' = [session EXCEPT ![p] = 1 + Cardinality({r \in Peers : session[r] # 0})]
  /\ UNCHANGED <<job, listens, snd, stack, wire, rcv, root, refusals>>

-----------------------------------------------------------------------------
(* Sending.                                                                *)

Meta(id, len) == [id |-> id, len |-> len]

(* The length announced after sent of total words are granted.             *)
NextLen(sent, total) ==
  IF sent + pkgWordCount < total THEN pkgWordCount ELSE total - sent

(* The sender's registers after a grant: the next package is announced     *)
(* before the data of the granted one is written, and its size is the one  *)
(* that is written.                                                        *)
Granted(s, sent, conns, total) ==
  [s EXCEPT !.sent = sent,
            !.index = (s.index + 1) % conns,
            !.words = IF sent < total THEN NextLen(sent, total) ELSE s.words]

(* The metadata of the package that follows, if there is one.              *)
Following(s, sessions, total) ==
  IF s.sent < total THEN <<Meta(sessions[s.index + 1], NextLen(s.sent, total))>> ELSE <<>>

FirstRound(n, sessions) ==
  /\ snd[n].first_round
  /\ snd' = [snd EXCEPT ![n].first_round = FALSE]
  /\ stack' = [stack EXCEPT ![n].meta = Append(@, Meta(sessions[1], pkgWordCount))]
  /\ UNCHANGED <<job, session, listens, wire, rcv, root, refusals>>

(* A refused package is announced again as it was.                         *)
Retry(n) ==
  /\ ~snd[n].first_round
  /\ stack[n].status # <<>>
  /\ Head(stack[n].status).error
  /\ LET st == Head(stack[n].status)
     IN  stack' = [stack EXCEPT ![n].status = Tail(@), ![n].meta = Append(@, Meta(st.id, st.len))]
  /\ UNCHANGED <<job, session, listens, snd, wire, rcv, root, refusals>>

(* scatter and sendData: the words of the granted package are taken from   *)
(* the input.                                                              *)
SendPackage(n, sessions, conns, total) ==
  LET st  == Head(stack[n].status)
      s   == Granted(snd[n], snd[n].sent + st.len, conns, total)
  IN  /\ ~snd[n].first_round
      /\ snd[n].sent < total
      /\ stack[n].status # <<>>
      /\ ~st.error
      /\ Len(snd[n].in) >= s.words
      /\ snd' = [snd EXCEPT ![n] = [s EXCEPT !.in = SubSeq(@, s.words + 1, Len(@))]]
      /\ stack' = [stack EXCEPT ![n].status = Tail(@),
                                ![n].meta = @ \o Following(s, sessions, total),
                                ![n].data = @ \o SubSeq(snd[n].in, 1, s.words)]
      /\ UNCHANGED <<job, session, listens, wire, rcv, root, refusals>>

(* openConnections stores the sessions in the order of the answers.        *)
sessionID == [i \in Peers |-> i]

scatter ==
  /\ job = "scatter"
  /\ AllOpen
  /\ \/ FirstRound(0, sessionID)
     \/ Retry(0)
     \/ SendPackage(0, sessionID, useConn, Total)

(* A peer's whole input is in its stream from the start.                   *)
sendData(p) ==
  /\ job = "allReduce_sum"
  /\ session[p] # 0
  /\ \/ FirstRound(p, <<1>>)
     \/ Retry(p)
     \/ SendPackage(p, <<1>>, 1, expWords)

(* Only the grant of the last session counts, and only the first session   *)
(* reads new words; the others repeat the buffer.                          *)
MutantBroadcastSent(s, len) == s.sent + len
BroadcastSent(s, len) == IF s.index + 1 = useConn THEN s.sent + len ELSE s.sent

BroadcastPackage ==
  LET st    == Head(stack[0].status)
      s     == Granted(snd[0], BroadcastSent(snd[0], st.len), useConn, expWords)
      fresh == s.index = 1
      data  == SubSeq(IF fresh THEN snd[0].in ELSE root.broadCastBuffer, 1, s.words)
  IN  /\ ~snd[0].first_round
      /\ snd[0].sent < expWords
      /\ stack[0].status # <<>>
      /\ ~st.error
      /\ fresh => Len(snd[0].in) >= s.words
      /\ snd' = [snd EXCEPT ![0] = [s EXCEPT !.in = IF fresh THEN SubSeq(@, s.words + 1, Len(@)) ELSE @]]
      /\ root' = [root EXCEPT !.broadCastBuffer = data]
      /\ stack' = [stack EXCEPT ![0].status = Tail(@),
                                ![0].meta = @ \o Following(s, root.table, expWords),
                                ![0].data = @ \o data]
      /\ UNCHANGED <<job, session, listens, wire, rcv, refusals>>

(* The session table is a memory that reduce_sum fills: the processes of   *)
(* the region pass it on when reduce_sum has returned.                     *)
broadcast ==
  /\ job = "allReduce_sum"
  /\ root.sums = expWords
  /\ \/ FirstRound(0, root.table)
     \/ Retry(0)
     \/ BroadcastPackage

-----------------------------------------------------------------------------
(* The stack of a node, as the library uses it.                            *)

(* An announced package is granted, or refused for lack of space.          *)
Answer(n) ==
  /\ stack[n].meta # <<>>
  /\ \E error \in BOOLEAN :
       /\ error => refusals > 0
       /\ refusals' = IF error THEN refusals - 1 ELSE refusals
       /\ LET mt == Head(stack[n].meta)
          IN  stack' = [stack EXCEPT
                ![n].meta = Tail(@),
                ![n].status = Append(@, [id |-> mt.id, len |-> mt.len, error |-> error]),
                ![n].granted = IF error THEN @ ELSE Append(@, mt)]
  /\ UNCHANGED <<job, session, listens, snd, wire, rcv, root>>

(* The words of the oldest granted package are taken to its session.       *)
Take(n) ==
  /\ stack[n].granted # <<>>
  /\ LET mt == Head(stack[n].granted)
     IN  /\ Len(stack[n].data) >= mt.len
         /\ wire' = [wire EXCEPT ![<<n, PeerOf(n, mt.id)>>] = @ \o SubSeq(stack[n].data, 1, mt.len)]
         /\ stack' = [stack EXCEPT ![n].granted = Tail(@),
                                   ![n].data = SubSeq(@, mt.len + 1, Len(@))]
  /\ UNCHANGED <<job, session, listens, snd, rcv, root, refusals>>

(* A segment of at most MaxCut words arrives and is notified; node 0 is    *)
(* told the port as well, one for each peer.                               *)
Arrive(from, to) ==
  LET s == SessionTo(to, from)
  IN  /\ \E k \in 1 .. MaxCut :
           /\ k <= Len(wire[<<from, to>>])
           /\ wire' = [wire EXCEPT ![<<from, to>>] = SubSeq(@, k + 1, Len(@))]
           /\ stack' = [stack EXCEPT
                 ![to].notes = Append(@, [id |-> s, len |-> k, dstPort |-> from]),
                 ![to].buf[s] = @ \o SubSeq(wire[<<from, to>>], 1, k)]
      /\ UNCHANGED <<job, session, listens, snd, rcv, root, refusals>>

(* A read request of k words of session s: they come as one packet.        *)
ReadPacket(st, s, k) ==
  [st EXCEPT !.buf[s] = SubSeq(@, k + 1, Len(@)),
             !.rx = Append(@, SubSeq(st.buf[s], 1, k))]

Stack ==
  \/ \E n \in Nodes : Answer(n) \/ Take(n)
  \/ \E p \in Peers : Arrive(p, 0) \/ Arrive(0, p)

-----------------------------------------------------------------------------
(* Receiving at a peer: what a notification says is read.                  *)

recvData_handshake(p) ==
  /\ session[p] # 0
  /\ rcv[p].asked < expWords
  /\ stack[p].notes # <<>>
  /\ LET note == Head(stack[p].notes)
     IN  /\ stack' = [stack EXCEPT ![p] = ReadPacket([@ EXCEPT !.notes = Tail(@)], note.id, note.len)]
         /\ rcv' = [rcv EXCEPT ![p].asked = @ + note.len]
  /\ UNCHANGED <<job, session, listens, snd, wire, root, refusals>>

recvData_consumeData(p) ==
  /\ Len(rcv[p].out) < expWords
  /\ stack[p].rx # <<>>
  /\ stack' = [stack EXCEPT ![p].rx = Tail(@)]
  /\ rcv' = [rcv EXCEPT ![p].out = @ \o Head(stack[p].rx)]
  /\ UNCHANGED <<job, session, listens, snd, wire, root, refusals>>

-----------------------------------------------------------------------------
(* allReduce_sum at node 0.                                                *)

Gathering ==
  /\ job = "allReduce_sum"
  /\ MapThenSumSet(LAMBDA i : root.read[i], Peers) < Total

GatherNote ==
  /\ stack[0].notes # <<>>
  /\ LET note == Head(stack[0].notes)
     IN  root' = [root EXCEPT !.available[note.dstPort] = @ + note.len,
                              !.table[note.dstPort] = note.id]
  /\ stack' = [stack EXCEPT ![0].notes = Tail(@)]

(* Only a whole package is read, or what is missing of a session: the      *)
(* session whose turn it is waits for it, and the others with it.          *)
MutantReadLength(i) == root.available[i]
ReadLength(i) ==
  IF root.available[i] >= pkgWordCount THEN pkgWordCount
  ELSE IF root.read[i] + pkgWordCount > expWords THEN expWords - root.read[i]
       ELSE 0

GatherRead ==
  LET i == root.index
      k == ReadLength(i)
  IN  /\ stack[0].notes = <<>>
      /\ root.available[i] > 0
      /\ k > 0
      /\ root' = [root EXCEPT !.available[i] = @ - k, !.read[i] = @ + k,
                              !.index = (@ % useConn) + 1]
      /\ stack' = [stack EXCEPT ![0] = ReadPacket(@, root.table[i], k)]

gather_handshake ==
  /\ Gathering
  /\ GatherNote \/ GatherRead
  /\ UNCHANGED <<job, session, listens, snd, wire, rcv, refusals>>

(* The stream is as deep as a packet: a longer one would be written word   *)
(* by word.                                                                *)
gather_consumeData ==
  /\ stack[0].rx # <<>>
  /\ Len(root.gathered) + Len(Head(stack[0].rx)) <= Depth
  /\ root' = [root EXCEPT !.gathered = @ \o Head(stack[0].rx)]
  /\ stack' = [stack EXCEPT ![0].rx = Tail(@)]
  /\ UNCHANGED <<job, session, listens, snd, wire, rcv, refusals>>

(* The stream the word goes to, after split words.                         *)
SplitIndex(split) == ((split \div pkgWordCount) % useConn) + 1

split_stream ==
  LET i == SplitIndex(root.split)
  IN  /\ root.gathered # <<>>
      /\ Len(root.buffer[i]) < Depth
      /\ root' = [root EXCEPT !.gathered = Tail(@), !.split = @ + 1,
                              !.buffer[i] = Append(@, Head(root.gathered))]
      /\ UNCHANGED <<job, session, listens, snd, stack, wire, rcv, refusals>>

(* One word of every stream, lane by lane.                                 *)
sum_from_streams ==
  /\ \A i \in Peers : root.buffer[i] # <<>>
  /\ Len(root.reduced) < Depth
  /\ root' = [root EXCEPT
       !.reduced = Append(@, MapThenSumSet(LAMBDA i : Head(root.buffer[i]), Peers) % 2^WIDTH),
       !.sums = @ + 1,
       !.buffer = [i \in Peers |-> Tail(@[i])]]
  /\ UNCHANGED <<job, session, listens, snd, stack, wire, rcv, refusals>>

duplicate_stream ==
  /\ root.reduced # <<>>
  /\ Len(snd[0].in) < Depth
  /\ snd' = [snd EXCEPT ![0].in = Append(@, Head(root.reduced))]
  /\ root' = [root EXCEPT !.reduced = Tail(@), !.data_out = Append(@, Head(root.reduced))]
  /\ UNCHANGED <<job, session, listens, stack, wire, rcv, refusals>>

allReduce_sum ==
  /\ job = "allReduce_sum"
  /\ \/ gather_handshake
     \/ gather_consumeData
     \/ split_stream
     \/ sum_from_streams
     \/ duplicate_stream
     \/ broadcast

-----------------------------------------------------------------------------
Progress ==
  \/ listenPorts
  \/ scatter
  \/ allReduce_sum
  \/ \E p \in Peers : \/ openConnections(p)
                      \/ sendData(p)
                      \/ recvData_handshake(p)
                      \/ recvData_consumeData(p)
  \/ Stack

Next == Progress

(* Every process of the dataflow regions and the stack keep running.       *)
Spec == Init /\ [][Next]_vars /\ WF_vars(Progress)

-----------------------------------------------------------------------------
Sum(i) == MapThenSumSet(LAMBDA p : Contribution(p, i), Peers) % 2^WIDTH

(* The i-th word peer p is to receive: a sum, or a word of the packages    *)
(* dealt to its session in turn.                                           *)
Expected(p, i) ==
  IF job = "allReduce_sum" THEN Sum(i)
  ELSE Scattered(((((i - 1) \div pkgWordCount) * useConn + session[p] - 1) * pkgWordCount)
                 + ((i - 1) % pkgWordCount) + 1)

(* However the segments are cut, interleaved and refused, every peer and   *)
(* node 0 itself hold a prefix of the right result: the sum over all peers *)
(* of the word of the same index, or the packages of the peer's own        *)
(* session.                                                                *)
CollectiveExact ==
  /\ \A p \in Peers : \A i \in 1 .. Len(rcv[p].out) : rcv[p].out[i] = Expected(p, i)
  /\ \A i \in 1 .. Len(root.data_out) : root.data_out[i] = Sum(i)

(* The collective completes at every peer, although a session that is not  *)
(* ready stalls all others and every stream has a bounded depth.           *)
CollectiveCompletes == <>(\A p \in Peers : Len(rcv[p].out) = expWords)

=============================================================================
