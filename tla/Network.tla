------------------------------ MODULE Network -------------------------------
(***************************************************************************)
(* Two hosts with the whole stack on one Ethernet segment, and a gateway:  *)
(* segments and datagrams from the transmit engines of host 1 through      *)
(* mac_ip_encode, ARP and the wire to the receive engines of host 2, and   *)
(* echo requests with their replies.                                       *)
(*                                                                         *)
(* The application's packet of the moment is job; it is sent again until   *)
(* its next hop is known (retransmission by the TCP engine, or by the      *)
(* user of UDP).  The stages of a pipeline hold what they keep between     *)
(* packets in pipe[h]; a packet moves through one pipeline in one step.    *)
(***************************************************************************)
EXTENDS ToeWords, IcmpWords, ArpServer

CONSTANTS Jobs,     \* the packets the applications may send
          Strays,   \* frames other stations may send to host 2
          Faults,   \* frames the wire may damage or lose
          WireDepth \* frames on the wire when a request for an address is added

VARIABLES pipe,     \* the state of every stage of every host
          ipOut,    \* the IP packets of a host in front of mac_ip_encode
          wire,     \* frames on their way: [to, words]
          job,      \* the packet that is being sent
          phase,    \* how far it has come
          got,      \* what host 2's applications have received of it
          faults,   \* frames damaged or lost so far
          hurt,     \* the packet was damaged or lost
          missed    \* the host and the address of the last lookup that missed

vars == <<pipe, ipOut, wire, job, phase, got, faults, hurt, missed, arpVars>>

GATEWAY == 3
LISTEN_PORT == 7

\* Station h has the link address h and the IP address h.
Stations == Hosts \cup {GATEWAY}
Addresses == 0..BROADCAST

RxStages == IpHandlerStages \o RxEngineStages \o UdpRxStages
Stages == Range(RxStages \o TxEngineStages \o UdpTxStages \o EncodeStages)

\* What is left of the processes of a host once their outputs are taken.
AtRest(q) == [n \in Stages |-> Rest(q[n])]

Nothing == [meta |-> <<>>, data |-> <<>>, udpMeta |-> <<>>, udpData |-> <<>>]

Init ==
    /\ pipe = [h \in Hosts |-> [s \in Stages |-> Idle]]
    /\ ipOut = [h \in Hosts |-> <<>>]
    /\ wire = <<>>
    /\ job = <<>>
    /\ phase = "idle"
    /\ got = Nothing
    /\ faults = 0
    /\ hurt = FALSE
    /\ missed = <<>>
    /\ ArpInit

-----------------------------------------------------------------------------
(* The applications                                                        *)

Payload(j) == [i \in 1..j.len |-> [k |-> "p", v |-> i % (LANE - 1)]]

Tuple(j) == [src |-> 1, dst |-> j.to, sp |-> 5, dp |-> j.port]

\* The data of a segment goes past the buffer, or is written to it and
\* read back.
Stale == [a \in (0..1) \X (0..(BUFFER_SIZE - 1)) |-> [k |-> "p", v |-> LANE - 2]]

SegmentData(j) ==
    LET cmd == [session |-> j.session, addr |-> j.addr, len |-> j.len]
        ws  == Words(Payload(j))
    IN  IF j.len = 0 THEN <<>>
        ELSE read_data_arbiter(j.bypass,
                 ReadSegment(FoldLeft(WriteMem, Stale, tasi_pkg_pusher(cmd, ws)), cmd), ws)

SegmentMeta(j) ==
    [len |-> IF ~j.syn THEN j.len ELSE IF j.winShift # 0 THEN 2 ELSE 1,
     seq |-> 3, syn |-> j.syn, winShift |-> j.winShift]

\* An echo request of host 1's ping, as its IP packet.
Ping(j) ==
    LET body == icmpHeader(ECHO_REQUEST, 0) \o Payload(j)
        ip   == ipv4Header(1, j.to, ICMP, IPV4_HEADER_SIZE + Len(body))
        us   == ip \o body
    IN  Words([us EXCEPT ![4].v = LANE - 1 - IcmpSum(us)])

Quiet == wire = <<>> /\ \A h \in Hosts :
             arpInsert[h] = <<>> /\ arpReplyMeta[h] = <<>> /\ arpRequestMeta[h] = <<>>

\* A new packet comes while no ARP exchange is under way; the exchange of
\* its own misses runs along with it.
Begin ==
    /\ phase = "idle" /\ Quiet
    /\ \E j \in Jobs : job' = j
    /\ phase' = "ready"
    /\ UNCHANGED <<pipe, ipOut, wire, got, faults, hurt, missed, arpVars>>

\* The processes of the transmit engine, of udp, or none for a ping, and
\* the packet that leaves them.
SendTcp ==
    LET q == RunStages(LAMBDA a, n : tx_engine(a, n, SegmentMeta(job), tupleSplitter(TRUE, Tuple(job), <<>>),
                                               SegmentData(job)), pipe[1], TxEngineStages)
    IN  /\ job.kind = "tcp"
        /\ pipe' = [pipe EXCEPT ![1] = AtRest(q)]
        /\ ipOut' = [ipOut EXCEPT ![1] = q.txIp.out]

SendUdp ==
    LET m == [dst |-> job.to, sp |-> 5, dp |-> job.port, len |-> job.len]
        q == RunStages(LAMBDA a, n : udp_tx(a, n, m, Words(Payload(job)), 1), pipe[1], UdpTxStages)
    IN  /\ job.kind = "udp"
        /\ pipe' = [pipe EXCEPT ![1] = AtRest(q)]
        /\ ipOut' = [ipOut EXCEPT ![1] = q.ipOut.out]

SendPing ==
    /\ job.kind = "ping"
    /\ pipe' = pipe
    /\ ipOut' = [ipOut EXCEPT ![1] = Ping(job)]

Send ==
    /\ phase \in {"ready", "dropped"}
    /\ SendTcp \/ SendUdp \/ SendPing
    /\ phase' = "queued"
    /\ UNCHANGED <<wire, job, got, faults, hurt, missed, arpVars>>

\* A frame of some other station, that host 2 should ignore.
Stray ==
    /\ phase = "idle" /\ Quiet
    /\ \E ws \in Strays : wire' = Append(wire, [to |-> 2, words |-> ws])
    /\ job' = [kind |-> "stray", to |-> 2, len |-> 0]
    /\ phase' = "wire"
    /\ UNCHANGED <<pipe, ipOut, got, faults, hurt, missed, arpVars>>

\* The packet has arrived or is lost: the next one.
Finish ==
    /\ phase = "done"
    /\ phase' = "idle"
    /\ job' = <<>>
    /\ got' = Nothing
    /\ hurt' = FALSE
    /\ missed' = <<>>
    /\ UNCHANGED <<pipe, ipOut, wire, faults, arpVars>>

-----------------------------------------------------------------------------
(* Frames                                                                  *)

Receivers(from, to) ==
    IF to = BROADCAST_MAC THEN SetToSeq(Stations \ {from})
    ELSE IF to \in Stations THEN <<to>> ELSE <<>>

OnWire(from, ws) ==
    IF ws = <<>> THEN wire
    ELSE wire \o Each(LAMBDA r : [to |-> r, words |-> ws], Receivers(from, ws[1].data[1].to))

\* An IP packet becomes a frame, or is dropped because its next hop is not
\* known; the table has asked for it.
Encode(h) ==
    /\ ipOut[h] # <<>>
    /\ LET hop == NextHop(ipOut[h][1].data[1].dst, GATEWAY)
           q   == RunStages(LAMBDA a, n : mac_ip_encode(a, n, ipOut[h], [ip \in Addresses |-> arpTableReply(h, ip)], GATEWAY),
                            pipe[h], EncodeStages)
       IN  /\ arp_table_lookup(h, hop)
           /\ pipe' = [pipe EXCEPT ![h] = AtRest(q)]
           /\ wire' = OnWire(h, q.pad.out)
           /\ phase' = IF q.pad.out = <<>> THEN "dropped" ELSE "wire"
           /\ missed' = IF q.pad.out = <<>> THEN <<h, hop>> ELSE <<>>
    /\ ipOut' = [ipOut EXCEPT ![h] = <<>>]
    /\ UNCHANGED <<job, got, faults, hurt>>

SendArp(h) ==
    /\ arpReplyMeta[h] # <<>> \/ Len(wire) < WireDepth
    /\ generate_arp_pkg(h)
    /\ wire' = OnWire(h, ethernet_frame_padding_512(Idle, Words(ArpFrame(h, h))).out)
    /\ UNCHANGED <<pipe, ipOut, job, phase, got, faults, hurt, missed>>

InsertArp(h) ==
    /\ arp_table_insert(h)
    /\ UNCHANGED <<pipe, ipOut, wire, job, phase, got, faults, hurt, missed>>

\* The host looks an address up before it is needed.
HostLookup(h, ip) ==
    /\ phase = "idle" /\ Quiet
    /\ arp_table_lookup(h, ip)
    /\ UNCHANGED <<pipe, ipOut, wire, job, phase, got, faults, hurt, missed>>

IsArp(f) == f.words[1].data[1].type = "ARP"

\* A frame reaches a host: ip_handler and what is behind it.
ReceiveStage(h, ws, q, n) ==
    CASE n \in Range(IpHandlerStages) -> ip_handler(q, n, ws, h)
      [] n \in Range(RxEngineStages) -> rx_engine(q, n, q.tcp.out, [handler |-> FALSE, fsm |-> ~job.accept])
      [] n \in Range(UdpRxStages)    -> udp_rx(q, n, q.udp.out, LISTEN_PORT)

Receive(h) ==
    /\ wire # <<>> /\ Head(wire).to = h
    /\ LET f == Head(wire)
           q == RunStages(LAMBDA a, n : ReceiveStage(h, f.words, a, n), pipe[h], RxStages)
           reply == icmp_server(q.icmp.out)
       IN  /\ pipe' = [pipe EXCEPT ![h] = AtRest(q)]
           /\ process_arp_pkg(h, Units(q.arp.out), h)
           /\ ipOut' = [ipOut EXCEPT ![h] = @ \o reply]
           /\ got' = IF IsArp(f) THEN got
                     ELSE [meta |-> RxMetas(q), data |-> q.rxKeep.out,
                           udpMeta |-> merge_rx_meta(q.ipIn.meta, q.udpIn.meta), udpData |-> q.udpShift.out]
           /\ phase' = IF IsArp(f) THEN phase ELSE IF reply # <<>> THEN "queued" ELSE "done"
    /\ wire' = Tail(wire)
    /\ UNCHANGED <<job, faults, hurt, missed, arpTable, arpRequestMeta>>

\* The gateway answers requests for its address and takes what is sent to
\* it.
Gateway ==
    /\ wire # <<>> /\ Head(wire).to = GATEWAY
    /\ LET f == Head(wire)
           a == f.words[1].data[2]
       IN  /\ wire' = Tail(wire) \o
                      (IF IsArp(f) /\ a.op = "request" /\ a.target = GATEWAY
                       THEN <<[to |-> a.hw, words |-> Words(arpHeader("reply", a.hw, GATEWAY, GATEWAY, a.hw, a.proto))]>>
                       ELSE <<>>)
           /\ phase' = IF IsArp(f) THEN phase ELSE "done"
    /\ UNCHANGED <<pipe, ipOut, job, got, faults, hurt, missed, arpVars>>

\* The wire loses a frame.
Lose ==
    /\ wire # <<>> /\ faults < Faults
    /\ faults' = faults + 1
    /\ phase' = IF IsArp(Head(wire)) THEN phase ELSE "done"
    /\ hurt' = (hurt \/ ~IsArp(Head(wire)))
    /\ wire' = Tail(wire)
    /\ UNCHANGED <<pipe, ipOut, job, got, missed, arpVars>>

\* The wire changes a unit of an IP packet.  Nothing checks the checksum of
\* a datagram, so that there only the IP header counts.
Covered(us, i) == i <= 1 + IPV4_HEADER_SIZE \/ us[2].proto # UDP

Damaged(u) ==
    CASE u.k \in {"p", "sum"} -> [u EXCEPT !.v = (@ + 1) % (LANE - 1)]
      [] u.k = "ip" -> [u EXCEPT !.dst = @ + 1]
      [] u.k = "tcp" -> [u EXCEPT !.seq = @ + 1]
      [] u.k = "icmp" -> [u EXCEPT !.type = @ + 1]
      [] OTHER -> u

Damage ==
    /\ wire # <<>> /\ faults < Faults /\ ~IsArp(Head(wire)) /\ job.kind # "stray"
    /\ LET f == Head(wire) IN
       \E n \in 1..Len(f.words) : \E i \in 1..Len(f.words[n].data) :
          /\ Covered(Units(f.words), (n - 1) * W + i)
          /\ Damaged(f.words[n].data[i]) # f.words[n].data[i]
          /\ wire' = <<[f EXCEPT !.words[n].data[i] = Damaged(@)]>> \o Tail(wire)
    /\ faults' = faults + 1
    /\ hurt' = TRUE
    /\ UNCHANGED <<pipe, ipOut, job, phase, got, missed, arpVars>>

Next ==
    \/ Begin
    \/ Stray
    \/ Send
    \/ Finish
    \/ \E h \in Hosts : Encode(h)
    \/ \E h \in Hosts : SendArp(h)
    \/ \E h \in Hosts : InsertArp(h)
    \/ \E h \in Hosts : Receive(h)
    \/ Gateway
    \/ HostLookup(1, GATEWAY)
    \/ Lose
    \/ Damage

Spec == Init /\ [][Next]_vars

-----------------------------------------------------------------------------
(* Properties                                                              *)

\* A segment that wraps around the end of the buffer of a session other than
\* 0 is read back with a second access into session 0's buffer.
ReadsSessionZero(j) == j.session # 0 /\ ~j.bypass /\ j.addr + j.len > BUFFER_SIZE

Expected ==
    CASE job.kind = "tcp" ->
           [Nothing EXCEPT
              !.meta = <<[len |-> job.len, syn |-> job.syn, seq |-> 3, t |-> Tuple(job), winScale |-> job.winShift]>>,
              !.data = IF ~job.accept THEN <<>> ELSE IF ReadsSessionZero(job) THEN got.data ELSE Words(Payload(job))]
      [] job.kind = "udp" /\ job.port = LISTEN_PORT ->
           [Nothing EXCEPT
              !.udpMeta = <<[src |-> 1, sp |-> 5, dp |-> job.port, len |-> job.len + UDP_HEADER_SIZE]>>,
              !.udpData = Words(Payload(job))]
      [] OTHER -> Nothing

\* What the applications of host 2 receive is what host 1 sent, the whole of
\* it in order and with the metadata that belongs to it (the window scale of
\* a SYN included), whatever the alignment of the headers, the length and
\* the place in the transmit buffer; nothing at all is received of a packet
\* that was damaged, that is for another address, port or protocol, or that
\* the state machine turned down (rxPackageDropper, ip_invalid_dropper,
\* merge_rx_meta, read_data_stitching, tasi_pkg_pusher).
DeliveredExactly ==
    phase = "done" => got = IF hurt \/ job.to # 2 THEN Nothing ELSE Expected

\* A pipeline keeps nothing of a packet that has passed: no word, flag or
\* metadata is left over in any of its stages that would be applied to the
\* next packet, also where a packet was dropped half way.
Drained == \A h \in Hosts : \A s \in Stages : pipe[h][s] = Idle

\* A frame with a packet goes to the station that is the next hop of its
\* destination: the station itself in the subnet, otherwise the gateway,
\* although the table knows addresses by their last octet only.
FrameToNextHop ==
    \A i \in 1..Len(wire) :
        ~IsArp(wire[i]) /\ job.kind # "stray" /\ ~hurt =>
            LET dst == wire[i].words[1].data[2].dst
            IN  wire[i].to = IF dst \in Stations THEN dst ELSE GATEWAY

\* The reply to an echo request is intact: both checksums are right, though
\* the ICMP one is patched and not computed, and it returns the data of the
\* request to its sender.
EchoIntact ==
    \A i \in 1..Len(wire) :
        wire[i].to = 1 /\ ~IsArp(wire[i]) /\ ~hurt =>
            LET us == SubSeq(Units(wire[i].words), 2, 1 + IPV4_HEADER_SIZE + 2 + job.len)
            IN  /\ us[1].src = 2 /\ us[1].dst = 1 /\ us[3].type = ECHO_REPLY
                /\ IcmpSum(us) = LANE - 1
                /\ SubSeq(us, 5, Len(us)) = Payload(job)

\* Both together, for every frame a host sends.
FramesRight == FrameToNextHop /\ EchoIntact

\* A packet whose next hop is not known is dropped, and the question for
\* it is on its way until its answer is in the table: as a request in the
\* queue or on the wire, as a reply in the queue or on the wire, or as an
\* entry about to be inserted.  Sent again, the packet leaves in the end,
\* and no miss is forgotten.
AskedFor(h, ip) ==
    \/ arpTable[h][Octet(ip)] # NoMac
    \/ ip \in Range(arpRequestMeta[h])
    \/ \E i \in 1..Len(wire) :
          /\ IsArp(wire[i])
          /\ LET a == wire[i].words[1].data[2]
             IN  \/ wire[i].to = ip /\ a.op = "request" /\ a.target = ip /\ a.proto = h
                 \/ wire[i].to = h /\ a.op = "reply" /\ a.proto = ip /\ a.target = h
    \/ ip \in Hosts /\ \E m \in Range(arpReplyMeta[ip]) : m.proto = h
    \/ \E e \in Range(arpInsert[h]) : e.ip = ip

MissesAskedFor == phase = "dropped" /\ faults = 0 => AskedFor(missed[1], missed[2])
=============================================================================
