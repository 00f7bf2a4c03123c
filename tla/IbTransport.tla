---------------------------- MODULE IbTransport -----------------------------
(***************************************************************************)
(* The transport layer of the RoCE v2 stack (hls/ib_transport_protocol) as *)
(* it is configured: no retransmission, no pointer chasing.  Two hosts     *)
(* share one queue pair; host 1 posts WRITE and READ requests, host 2      *)
(* executes them.  Between the processes of a host stand FIFOs; between    *)
(* the hosts a network that may lose and repeat packets.                   *)
(*                                                                         *)
(* Addresses and lengths are counted in words.  A word of memory is named  *)
(* by its host and address, a word of the application's stream by its      *)
(* place in it.  The message numbers, keys and the read request table are  *)
(* left out: nothing in this configuration reads them.                     *)
(***************************************************************************)
EXTENDS Integers, Sequences, SequencesExt, FiniteSetsExt, Folds

CONSTANTS PMTU_WORDS,    \* words of a full packet
          PSNS,          \* number of packet sequence numbers
          FirstPsn,      \* host 1's first sequence number
          Depth,         \* depth of the FIFO behind meta_merger
          Plans,         \* the sequences of requests host 1 may post
          Faults         \* packets the network may lose or repeat

Hosts == {1, 2}
Other(h) == 3 - h

(* A request: laddr 0 takes the words of a WRITE from the application's    *)
(* stream.                                                                 *)
Request(op, laddr, raddr, len) == [op |-> op, laddr |-> laddr, raddr |-> raddr, len |-> len]

(* Writes of exactly one full packet, and streamed ones longer than that,  *)
(* leave tx_pkg_arbiter out of step and are not posted.                    *)
ASSUME IbAssumption ==
  /\ {PMTU_WORDS, PSNS, Depth} \subseteq Nat \ {0}
  /\ FirstPsn \in 0 .. PSNS - 1
  /\ Faults \in Nat
  /\ \A plan \in Plans : \A r \in Range(plan) :
       r.op = "WRITE" => r.len # PMTU_WORDS /\ (r.laddr = 0 => r.len < PMTU_WORDS)

VARIABLES qp,        \* state_table
          msn,       \* msn_table: the address the next packet continues at
          readAddr,  \* multi_queue: local addresses of outstanding READs
          tx,        \* registers and FIFOs of a host's sending side
          rx,        \* registers and FIFOs of a host's receiving side
          net,       \* packets on their way to a host
          written,   \* the words written to a host's memory, with their addresses
          plan,      \* requests not posted yet
          posted,    \* requests posted
          faults     \* faults left

vars == <<qp, msn, readAddr, tx, rx, net, written, plan, posted, faults>>

-----------------------------------------------------------------------------
NewTx == [app |-> <<>>, localCmd |-> <<>>, appMeta |-> <<>>, meta |-> <<>>,
          AETH |-> <<>>, RETH |-> <<>>, RAW |-> <<>>, streamed |-> 0]

NewRx == [drop |-> <<>>, exhData |-> <<>>, meta |-> <<>>, exhAck |-> <<>>, ibhAck |-> <<>>,
          request |-> <<>>, remoteCmd |-> <<>>, readEvent |-> <<>>, writeCmd |-> <<>>]

NoState == [valid |-> FALSE]

Init ==
  /\ qp = [h \in Hosts |-> NoState]
  /\ msn = [h \in Hosts |-> 0]
  /\ readAddr = [h \in Hosts |-> <<>>]
  /\ tx = [h \in Hosts |-> NewTx]
  /\ rx = [h \in Hosts |-> NewRx]
  /\ net = [h \in Hosts |-> <<>>]
  /\ written = [h \in Hosts |-> <<>>]
  /\ plan \in Plans
  /\ posted = <<>>
  /\ faults = Faults

Psn(n) == n % PSNS
Packets(len) == (len + PMTU_WORDS - 1) \div PMTU_WORDS

(* Both sides agree on the first number of either direction.               *)
qp_interface(h) ==
  LET remote_psn == IF h = 1 THEN FirstPsn ELSE 0
      local_psn  == IF h = 1 THEN 0 ELSE FirstPsn
  IN  /\ ~qp[h].valid
      /\ qp' = [qp EXCEPT ![h] =
           [valid |-> TRUE, resp_epsn |-> local_psn, resp_old_outstanding |-> local_psn,
            req_next_psn |-> remote_psn, req_old_unack |-> remote_psn,
            req_old_valid |-> remote_psn, retryCounter |-> 7]]
      /\ msn' = [msn EXCEPT ![h] = 0]
      /\ UNCHANGED <<readAddr, tx, rx, net, written, plan, posted, faults>>

-----------------------------------------------------------------------------
(* Posting and cutting requests.                                           *)

Event(op, addr, len) ==
  [op |-> op, addr |-> addr, len |-> len, psn |-> 0, validPsn |-> FALSE, isNak |-> FALSE]
ReadEvent(op, len, psn) ==
  [op |-> op, addr |-> 0, len |-> len, psn |-> psn, validPsn |-> TRUE, isNak |-> FALSE]
AckEvent == Event("ACK", 0, 0)
NakEvent(psn) == [AckEvent EXCEPT !.psn = psn, !.validPsn = TRUE, !.isNak = TRUE]

(* Everything posted has been sent and acknowledged or answered.           *)
Settled ==
  /\ tx[1].app = <<>> /\ tx[1].appMeta = <<>> /\ tx[1].meta = <<>>
  /\ qp[1].req_old_unack = qp[1].req_next_psn

(* No packet or acknowledgement is on its way or still to be sent.         *)
Drained ==
  \A h \in Hosts : /\ net[h] = <<>> /\ tx[h].meta = <<>>
                   /\ rx[h].meta = <<>> /\ rx[h].exhAck = <<>> /\ rx[h].ibhAck = <<>>

(* Between a READ and other requests both hosts come to rest: an           *)
(* acknowledgement carries the number of the last request accepted, so one *)
(* that is still to be sent for a WRITE would settle a READ.               *)
Fenced(r) ==
  (r.op = "READ" \/ (posted # <<>> /\ Last(posted).op = "READ")) => Settled /\ Drained

Post ==
  /\ \A h \in Hosts : qp[h].valid
  /\ plan # <<>>
  /\ Fenced(Head(plan))
  /\ tx' = [tx EXCEPT ![1].app = Append(@, Head(plan))]
  /\ plan' = Tail(plan)
  /\ posted' = Append(posted, Head(plan))
  /\ UNCHANGED <<qp, msn, readAddr, rx, net, written, faults>>

(* The packets a message of len words is sent in, by their place in it.    *)
Place(k, len) ==
  CASE len <= PMTU_WORDS              -> "ONLY"
    [] len > PMTU_WORDS /\ k = 1      -> "FIRST"
    [] len > PMTU_WORDS /\ k > 1 /\ k = Packets(len) -> "LAST"
    [] OTHER                          -> "MIDDLE"

PacketLen(k, len) == IF k = Packets(len) THEN len - (k - 1) * PMTU_WORDS ELSE PMTU_WORDS

WriteOp == [ONLY |-> "WRITE_ONLY", FIRST |-> "WRITE_FIRST", MIDDLE |-> "WRITE_MIDDLE", LAST |-> "WRITE_LAST"]

(* A READ is one packet.  A WRITE reads all its words with one command,    *)
(* and its first packet announces the whole length.                        *)
local_req_handler(h) ==
  LET r == Head(tx[h].app)
      t == [tx[h] EXCEPT !.app = Tail(@)]
      WriteEvent(k) == Event(WriteOp[Place(k, r.len)], r.raddr + (k - 1) * PMTU_WORDS,
                             IF k = 1 THEN r.len ELSE PacketLen(k, r.len))
  IN  /\ tx[h].app # <<>>
      /\ \/ /\ r.op = "READ"
            /\ tx' = [tx EXCEPT ![h] =
                 [t EXCEPT !.appMeta = Append(@, Event("READ_REQUEST", r.raddr, r.len))]]
            /\ readAddr' = [readAddr EXCEPT ![h] = Append(@, r.laddr)]
         \/ /\ r.op = "WRITE"
            /\ tx' = [tx EXCEPT ![h] =
                 [t EXCEPT !.localCmd = Append(@, [addr |-> r.laddr, len |-> r.len]),
                           !.appMeta = @ \o [k \in 1 .. Packets(r.len) |-> WriteEvent(k)]]]
            /\ UNCHANGED readAddr
      /\ UNCHANGED <<qp, msn, rx, net, written, plan, posted, faults>>

-----------------------------------------------------------------------------
(* The words to send: read from memory or taken from the stream, and cut   *)
(* into packets for the header that will precede them.                     *)

WordsOf(h, cmd) ==
  [i \in 1 .. cmd.len |-> IF cmd.addr = 0 THEN <<"stream", tx[h].streamed + i>>
                          ELSE <<h, cmd.addr + i - 1>>]

(* tx_pkg_arbiter after the word at the end of a full packet: where the    *)
(* words of the next packet go.                                            *)
MutantAfterPacket(state, words, last) ==
  CASE state = "RETH"                       -> "RAW"
    [] state = "AETH" /\ words >= PMTU_WORDS -> "RAW"
    [] state = "RAW" /\ words <= PMTU_WORDS -> last
    [] OTHER                                -> state
AfterPacket(state, words, last) ==
  CASE state = "RETH"                       -> "RAW"
    [] state = "AETH" /\ words > PMTU_WORDS -> "RAW"
    [] state = "RAW" /\ words <= PMTU_WORDS -> last
    [] OTHER                                -> state

(* The packets of a command of the given type, each under the FIFO it is   *)
(* written to.  Only a response has a header again on its last packet.     *)
Cut(words, type) ==
  LET n        == Packets(Len(words))
      Chunk(k) == SubSeq(words, (k - 1) * PMTU_WORDS + 1,
                         IF k = n THEN Len(words) ELSE k * PMTU_WORDS)
      to[k \in 1 .. n] ==
        IF k = 1 THEN type
        ELSE AfterPacket(to[k - 1], Len(words) - (k - 1) * PMTU_WORDS,
                         IF type = "AETH" THEN "AETH" ELSE "RAW")
  IN  [k \in 1 .. n |-> [fifo |-> to[k], words |-> Chunk(k)]]

(* tx_pkg_arbiter forwards the words of one command before the next.       *)
Forward(t, type, words) ==
  LET pkgs   == Cut(words, type)
      For(f) == LET mine == SelectSeq(pkgs, LAMBDA p : p.fifo = f)
                IN  [i \in 1 .. Len(mine) |-> mine[i].words]
  IN  [t EXCEPT !.AETH = @ \o For("AETH"), !.RETH = @ \o For("RETH"), !.RAW = @ \o For("RAW")]

(* Commands of remote READs come first.                                    *)
mem_cmd_merger(h) ==
  /\ \/ /\ rx[h].remoteCmd # <<>>
        /\ rx' = [rx EXCEPT ![h].remoteCmd = Tail(@)]
        /\ tx' = [tx EXCEPT ![h] = Forward(@, "AETH", WordsOf(h, Head(rx[h].remoteCmd)))]
     \/ /\ rx[h].remoteCmd = <<>>
        /\ tx[h].localCmd # <<>>
        /\ LET cmd == Head(tx[h].localCmd)
           IN  tx' = [tx EXCEPT ![h] =
                 Forward([@ EXCEPT !.localCmd = Tail(@),
                                   !.streamed = IF cmd.addr = 0 THEN @ + cmd.len ELSE @],
                         "RETH", WordsOf(h, cmd))]
        /\ UNCHANGED rx
  /\ UNCHANGED <<qp, msn, readAddr, net, written, plan, posted, faults>>

-----------------------------------------------------------------------------
(* Sending: acknowledgements before responses before requests.             *)

NoAcks(h) == rx[h].exhAck = <<>> /\ rx[h].ibhAck = <<>>

(* The acknowledgements of the two receiving processes come in any order.  *)
meta_merger(h) ==
  /\ Len(tx[h].meta) < Depth
  /\ \/ \E from \in {"exhAck", "ibhAck"} :
          /\ rx[h][from] # <<>>
          /\ tx' = [tx EXCEPT ![h].meta = Append(@, Head(rx[h][from]))]
          /\ rx' = [rx EXCEPT ![h][from] = Tail(@)]
     \/ /\ NoAcks(h)
        /\ rx[h].readEvent # <<>>
        /\ tx' = [tx EXCEPT ![h].meta = Append(@, Head(rx[h].readEvent))]
        /\ rx' = [rx EXCEPT ![h].readEvent = Tail(@)]
     \/ /\ NoAcks(h)
        /\ rx[h].readEvent = <<>>
        /\ tx[h].appMeta # <<>>
        /\ tx' = [tx EXCEPT ![h].meta = Append(@, Head(tx[h].appMeta)), ![h].appMeta = Tail(@)]
        /\ UNCHANGED rx
  /\ UNCHANGED <<qp, msn, readAddr, net, written, plan, posted, faults>>

(* The FIFO append_payload takes the payload of a packet from.             *)
PayloadFifo(op) ==
  CASE op \in {"WRITE_ONLY", "WRITE_FIRST"}                           -> "RETH"
    [] op \in {"READ_RESP_ONLY", "READ_RESP_FIRST", "READ_RESP_LAST"} -> "AETH"
    [] op \in {"WRITE_MIDDLE", "WRITE_LAST", "READ_RESP_MIDDLE"}      -> "RAW"
    [] OTHER                                                          -> "NONE"

(* generate_ibh: only responses and NAKs bring their number along; an      *)
(* acknowledgement takes the last one accepted, a request the next one.    *)
generate_ibh(h, ev) ==
  CASE ev.validPsn                      -> ev.psn
    [] ~ev.validPsn /\ ev.op = "ACK"    -> Psn(qp[h].resp_epsn - 1)
    [] OTHER                            -> qp[h].req_next_psn

NumPkg(op, len) == IF op = "READ_REQUEST" THEN Packets(len) ELSE 1

Transmit(h) ==
  LET ev   == Head(tx[h].meta)
      fifo == PayloadFifo(ev.op)
      pkt  == [op |-> ev.op, psn |-> generate_ibh(h, ev), addr |-> ev.addr, len |-> ev.len,
               isNak |-> ev.isNak, data |-> IF fifo = "NONE" THEN <<>> ELSE Head(tx[h][fifo])]
  IN  /\ tx[h].meta # <<>>
      /\ fifo # "NONE" => tx[h][fifo] # <<>>
      /\ tx' = [tx EXCEPT ![h] =
           LET t == [@ EXCEPT !.meta = Tail(@)]
           IN  IF fifo = "NONE" THEN t ELSE [t EXCEPT ![fifo] = Tail(@)]]
      /\ qp' = IF ev.validPsn \/ ev.op = "ACK" THEN qp
               ELSE [qp EXCEPT ![h].req_next_psn = Psn(@ + NumPkg(ev.op, ev.len))]
      /\ net' = [net EXCEPT ![Other(h)] = Append(@, pkt)]
      /\ UNCHANGED <<msn, readAddr, rx, written, plan, posted, faults>>

-----------------------------------------------------------------------------
(* Receiving: rx_ibh_fsm decides by the sequence number.                   *)

checkIfResponse(op) ==
  op \in {"READ_RESP_FIRST", "READ_RESP_MIDDLE", "READ_RESP_LAST", "READ_RESP_ONLY", "ACK"}
checkIfWriteOrPartReq(op) == op \in {"WRITE_FIRST", "WRITE_MIDDLE", "WRITE_LAST", "WRITE_ONLY"}

(* What state_table answers to the receiver.                               *)
RxState(h, op) ==
  IF checkIfResponse(op)
  THEN [epsn |-> qp[h].req_old_unack, oldest |-> qp[h].req_old_valid,
        max_forward |-> Psn(qp[h].req_next_psn - 1), retryCounter |-> 0]
  ELSE [epsn |-> qp[h].resp_epsn, oldest |-> qp[h].resp_old_outstanding,
        max_forward |-> qp[h].resp_epsn, retryCounter |-> qp[h].retryCounter]

(* Requests and responses are in order only with the expected number; an   *)
(* acknowledgement may be ahead of it.                                     *)
MutantInOrder(p, s) == p.psn = s.epsn \/ p.psn = Psn(s.epsn + 1)
InOrder(p, s) ==
  \/ p.psn = s.epsn
  \/ /\ p.op = "ACK"
     /\ \/ s.epsn <= p.psn /\ p.psn <= s.max_forward
        \/ (s.epsn <= p.psn \/ p.psn <= s.max_forward) /\ s.max_forward < s.epsn

Duplicate(p, s) ==
  \/ s.oldest < s.epsn /\ p.psn < s.epsn /\ p.psn >= s.oldest
  \/ s.oldest > s.epsn /\ (p.psn < s.epsn \/ p.psn >= s.oldest)

(* The expected number after a packet in order: a NAK leaves it alone.     *)
MutantExpected(h, p) ==
  IF checkIfResponse(p.op) THEN [qp[h] EXCEPT !.req_old_unack = Psn(p.psn + 1)]
  ELSE [qp[h] EXCEPT !.resp_epsn = Psn(p.psn + NumPkg(p.op, p.len)), !.retryCounter = 7]
Expected(h, p) ==
  CASE p.isNak                              -> qp[h]
    [] ~p.isNak /\ checkIfResponse(p.op)    -> [qp[h] EXCEPT !.req_old_unack = Psn(p.psn + 1)]
    [] OTHER -> [qp[h] EXCEPT !.resp_epsn = Psn(p.psn + NumPkg(p.op, p.len)), !.retryCounter = 7]

(* The decision on a packet: drop is what drop_ooo_ibh is told about its   *)
(* payload, meta what goes on to rx_exh_fsm, ack what is to be sent.       *)
Verdict(h, p) ==
  LET s == RxState(h, p.op)
  IN  CASE InOrder(p, s) ->
             [qp |-> Expected(h, p), meta |-> <<p>>, ack |-> <<>>,
              drop |-> IF p.op \in {"ACK", "READ_REQUEST"} THEN <<>> ELSE <<FALSE>>]
        [] ~InOrder(p, s) /\ Duplicate(p, s) ->
             [qp |-> qp[h],
              meta |-> IF p.op = "READ_REQUEST" THEN <<p>> ELSE <<>>,
              ack  |-> IF checkIfWriteOrPartReq(p.op) THEN <<AckEvent>> ELSE <<>>,
              drop |-> IF p.op = "ACK" THEN <<>> ELSE <<p.op # "READ_REQUEST">>]
        [] OTHER ->
             [qp |-> IF p.op = "ACK" \/ checkIfResponse(p.op) \/ s.retryCounter # 7 THEN qp[h]
                     ELSE [qp[h] EXCEPT !.retryCounter = 6],
              meta |-> <<>>,
              ack  |-> IF p.op # "ACK" /\ s.retryCounter = 7 THEN <<NakEvent(s.epsn)>> ELSE <<>>,
              drop |-> IF p.op = "ACK" THEN <<>> ELSE <<TRUE>>]

rx_ibh_fsm(h) ==
  /\ qp[h].valid
  /\ net[h] # <<>>
  /\ LET p == Head(net[h])
         v == Verdict(h, p)
     IN  /\ qp' = [qp EXCEPT ![h] = v.qp]
         /\ rx' = [rx EXCEPT ![h].drop = @ \o v.drop, ![h].meta = @ \o v.meta, ![h].ibhAck = @ \o v.ack,
                             ![h].exhData = IF p.data = <<>> THEN @ ELSE Append(@, p.data)]
  /\ net' = [net EXCEPT ![h] = Tail(@)]
  /\ UNCHANGED <<msn, readAddr, tx, written, plan, posted, faults>>

(* rx_exh_fsm: the address of a packet in order is in its header, in the   *)
(* queue of outstanding READs, or where the packet before it ended.        *)
FirstOfRead(op) == op \in {"READ_RESP_ONLY", "READ_RESP_FIRST"}

WriteAddress(h, p) ==
  CASE p.op \in {"WRITE_ONLY", "WRITE_FIRST"} -> p.addr
    [] FirstOfRead(p.op)                      -> Head(readAddr[h])
    [] OTHER                                  -> msn[h]

rx_exh_fsm(h) ==
  /\ rx[h].meta # <<>>
  /\ LET p    == Head(rx[h].meta)
         r    == [rx[h] EXCEPT !.meta = Tail(@)]
         addr == WriteAddress(h, p)
         cmd  == [addr |-> addr, len |-> Len(p.data)]
     IN  \/ /\ checkIfWriteOrPartReq(p.op)
            /\ rx' = [rx EXCEPT ![h] = [r EXCEPT !.writeCmd = Append(@, cmd), !.exhAck = Append(@, AckEvent)]]
            /\ msn' = [msn EXCEPT ![h] = addr + cmd.len]
            /\ UNCHANGED readAddr
         \/ /\ p.op = "READ_REQUEST"
            /\ rx' = [rx EXCEPT ![h] =
                 [r EXCEPT !.request = Append(@, [addr |-> p.addr, len |-> p.len, psn |-> p.psn])]]
            /\ msn' = [msn EXCEPT ![h] = 0]
            /\ UNCHANGED readAddr
         \/ /\ checkIfResponse(p.op) /\ p.op # "ACK"
            /\ FirstOfRead(p.op) => readAddr[h] # <<>>
            /\ rx' = [rx EXCEPT ![h] = [r EXCEPT !.writeCmd = Append(@, cmd)]]
            /\ msn' = [msn EXCEPT ![h] = IF p.op = "READ_RESP_LAST" THEN @ ELSE addr + cmd.len]
            /\ readAddr' = [readAddr EXCEPT ![h] = IF FirstOfRead(p.op) THEN Tail(@) ELSE @]
         \/ /\ p.op = "ACK"
            /\ rx' = [rx EXCEPT ![h] = r]
            /\ UNCHANGED <<msn, readAddr>>
  /\ UNCHANGED <<qp, tx, net, written, plan, posted, faults>>

ResponseOp == [ONLY |-> "READ_RESP_ONLY", FIRST |-> "READ_RESP_FIRST",
               MIDDLE |-> "READ_RESP_MIDDLE", LAST |-> "READ_RESP_LAST"]

(* A READ is one memory command and an event for each packet of the        *)
(* response, numbered from the request's own.                              *)
handle_read_requests(h) ==
  LET q == Head(rx[h].request)
      Response(k) == ReadEvent(ResponseOp[Place(k, q.len)], PacketLen(k, q.len), Psn(q.psn + k - 1))
  IN  /\ rx[h].request # <<>>
      /\ rx' = [rx EXCEPT
           ![h].request = Tail(@),
           ![h].remoteCmd = Append(@, [addr |-> q.addr, len |-> q.len]),
           ![h].readEvent = @ \o [k \in 1 .. Packets(q.len) |-> Response(k)]]
      /\ UNCHANGED <<qp, msn, readAddr, tx, net, written, plan, posted, faults>>

(* drop_ooo_ibh discards a payload, or rx_exh_payload and merge_rx_pkgs    *)
(* bring it to the memory, in the order of the write commands.             *)
drop_ooo_ibh(h) ==
  /\ rx[h].drop # <<>>
  /\ rx[h].exhData # <<>>
  /\ LET r == [rx[h] EXCEPT !.drop = Tail(@), !.exhData = Tail(@)]
     IN  \/ /\ Head(rx[h].drop)
            /\ rx' = [rx EXCEPT ![h] = r]
            /\ UNCHANGED written
         \/ /\ ~Head(rx[h].drop)
            /\ rx[h].writeCmd # <<>>
            /\ rx' = [rx EXCEPT ![h] = [r EXCEPT !.writeCmd = Tail(@)]]
            /\ LET data == Head(rx[h].exhData)
               IN  written' = [written EXCEPT ![h] =
                     @ \o [i \in 1 .. Len(data) |-> <<Head(rx[h].writeCmd).addr + i - 1, data[i]>>]]
  /\ UNCHANGED <<qp, msn, readAddr, tx, net, plan, posted, faults>>

-----------------------------------------------------------------------------
(* The network loses a packet, delivers it late, or delivers it twice.     *)
(* Packets of a plan with a READ are not repeated: an acknowledgement of a *)
(* repeated WRITE would settle the READ.                                   *)
NoReads == \A r \in Range(posted \o plan) : r.op # "READ"

Network(h) ==
  /\ faults > 0
  /\ net[h] # <<>>
  /\ \E late \in {<<>>, <<Head(net[h])>>} :
       net' = [net EXCEPT ![h] = Tail(@) \o late]
  /\ faults' = faults - 1
  /\ UNCHANGED <<qp, msn, readAddr, tx, rx, written, plan, posted>>

Repeat(h) ==
  /\ faults > 0
  /\ NoReads
  /\ net[h] # <<>>
  /\ net' = [net EXCEPT ![h] = Append(@, Head(@))]
  /\ faults' = faults - 1
  /\ UNCHANGED <<qp, msn, readAddr, tx, rx, written, plan, posted>>

-----------------------------------------------------------------------------
Progress ==
  \/ Post
  \/ \E h \in Hosts :
       \/ qp_interface(h)
       \/ local_req_handler(h)
       \/ mem_cmd_merger(h)
       \/ meta_merger(h)
       \/ Transmit(h)
       \/ rx_ibh_fsm(h)
       \/ drop_ooo_ibh(h)
       \/ rx_exh_fsm(h)
       \/ handle_read_requests(h)

Next == Progress \/ \E h \in Hosts : Network(h) \/ Repeat(h)

(* The processes of the dataflow region never stop.                        *)
Spec == Init /\ [][Next]_vars /\ WF_vars(Progress)

-----------------------------------------------------------------------------
(* The words the posted requests are to write at either host, in order.    *)
Wanted(requests) ==
  FoldSeq(LAMBDA r, acc :
    IF r.op = "READ"
    THEN [acc EXCEPT ![1] = [i \in 1 .. r.len |-> <<r.laddr + i - 1, <<2, r.raddr + i - 1>> >>] \o @]
    ELSE [acc EXCEPT
           ![2] = [i \in 1 .. r.len |->
                     <<r.raddr + i - 1, IF r.laddr = 0 THEN <<"stream", i>> ELSE <<1, r.laddr + i - 1>> >>] \o @],
    [h \in Hosts |-> <<>>], requests)

(* Under loss, delay and repetition, across packets and across the wrap of *)
(* the sequence numbers, the memories only ever receive what the posted    *)
(* requests say: every word once, in order, at its address.                *)
MemoryExact == \A h \in Hosts : IsPrefix(written[h], Wanted(posted)[h])

(* A host never takes a request for acknowledged that the other host has   *)
(* not accepted, although acknowledgements are coalesced and NAKs carry a  *)
(* sequence number as well.                                                *)
AcknowledgedAccepted ==
  (\A h \in Hosts : qp[h].valid) =>
    Psn(qp[1].req_old_unack - FirstPsn) <= Psn(qp[2].resp_epsn - FirstPsn)

(* Without a fault every posted request is carried out and settled.        *)
RequestsSettle ==
  <>(faults < Faults \/ (plan = <<>> /\ Settled /\ written = Wanted(posted)))

=============================================================================
