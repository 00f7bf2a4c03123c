------------------------------ MODULE IpWords -------------------------------
(***************************************************************************)
(* The word pipelines around the transport engines: ip_handler (frames to  *)
(* the protocols), ipv4 and udp (datagrams), mac_ip_encode and             *)
(* ethernet_frame_padding_512 (packets to frames).                         *)
(*                                                                         *)
(* A header is as many units long as it takes to keep the alignments of    *)
(* the code apart: the Ethernet, IP and TCP headers together end inside    *)
(* the first word, the UDP header is shorter than the TCP header.          *)
(***************************************************************************)
EXTENDS AxiWords

ETH_HEADER_SIZE  == 1
IPV4_HEADER_SIZE == 2
UDP_HEADER_SIZE  == 1

ICMP == 1
TCP  == 6
UDP  == 17

BROADCAST == 15

\* The masks of the subnet leave the last octet.
SameSubnet(a, b) == a \div 4 = b \div 4

ethHeader(mac, type) == <<[k |-> "eth", to |-> mac, type |-> type]>>

ipv4Header(src, dst, proto, length) ==
    <<[k |-> "ip", ihl |-> IPV4_HEADER_SIZE, len |-> length, proto |-> proto, src |-> src, dst |-> dst],
      [k |-> "sum", v |-> 0]>>

udpHeader(sp, dp, length) == <<[k |-> "udp", sp |-> sp, dp |-> dp, len |-> length]>>

-----------------------------------------------------------------------------
(* ip_handler                                                              *)

detect_eth_protocol(s, ws) == Parse(LAMBDA data : data[1].type, s, ws)

route_by_eth_protocol(type, s, types, ws) ==
    Decide(LAMBDA t, w : w, LAMBDA t : t = type, s, types, ws)

\* The protocol of a packet, and whether it is addressed to this host.
extract_ip_meta(s, ws, myIpAddress) ==
    Parse(LAMBDA data : [proto |-> data[1].proto,
                         mine |-> data[1].dst \in {myIpAddress, BROADCAST}], s, ws)

DropFlags(sums, metas) ==
    [i \in 1..Len(sums) |-> ip_handler_check_ipv4_checksum(sums[i]) /\ metas[i].mine]

ip_invalid_dropper(s, flags, ws) == pass_valid_pkg(s, flags, ws)

\* Only a packet of one word can carry padding: it ends where its IP length
\* says.
CutWord(w) == [w EXCEPT !.data = Upto(@ \o Zeros(W), lenToKeep(@[1].len))]

cut_length(s, ws) ==
    Feed(LAMBDA a, w : [a EXCEPT !.on = ~w.last,
                                 !.out = Append(@, IF ~a.on /\ w.last THEN CutWord(w) ELSE w)],
         s, <<>>, ws)

\* The protocol of a dropped packet is discarded with its flag.
MutantValidProtocols(metas, flags) == Each(LAMBDA m : m.proto, metas)
ValidProtocols(metas, flags) ==
    Each(LAMBDA i : metas[i].proto,
         SelectSeq([i \in 1..Len(metas) |-> i], LAMBDA i : flags[i]))

detect_ipv4_protocol(proto, s, protos, ws) ==
    Decide(LAMBDA p, w : w, LAMBDA p : p = proto, s, protos, ws)

detect_ipv6_protocol(next, s, ws) ==
    Decide(LAMBDA n, w : w, LAMBDA n : n = next, s,
           Each(LAMBDA w : w.data[1].next, SelectSeq(ws, LAMBDA w : w.data[1].k = "ip6")), ws)

IpHandlerStages == <<"eth", "arp", "ipv4", "ipv6", "shift", "shift6", "meta", "sums", "drop", "cut",
                     "icmp", "udp", "tcp", "icmp6", "udp6">>

\* The processes of ip_handler for a frame ws.  A splitter is one process
\* per output here.  The UDP packets are duplicated for the RoCE stack,
\* which has no reader.
ip_handler(q, n, ws, myIpAddress) ==
    LET flags == DropFlags(q.sums.meta, q.meta.meta)
        Route(type) == route_by_eth_protocol(type, q[n], q.eth.meta, q.eth.out)
        Proto(proto) == detect_ipv4_protocol(proto, q[n], ValidProtocols(q.meta.meta, flags), q.cut.out)
    IN  CASE n = "eth"    -> detect_eth_protocol(q.eth, ws)
          [] n = "arp"    -> Route("ARP")
          [] n = "ipv4"   -> Route("IPv4")
          [] n = "ipv6"   -> Route("IPv6")
          [] n = "shift"  -> ip_handler_rshiftWordByOctet(ETH_HEADER_SIZE, q.shift, q.ipv4.out)
          [] n = "shift6" -> ip_handler_rshiftWordByOctet(ETH_HEADER_SIZE, q.shift6, q.ipv6.out)
          [] n = "meta"   -> extract_ip_meta(q.meta, q.shift.out, myIpAddress)
          [] n = "sums"   -> ip_handler_compute_ipv4_checksum(q.sums, q.meta.out)
          [] n = "drop"   -> ip_invalid_dropper(q.drop, flags, q.sums.out)
          [] n = "cut"    -> cut_length(q.cut, q.drop.out)
          [] n = "icmp"   -> Proto(ICMP)
          [] n = "udp"    -> Proto(UDP)
          [] n = "tcp"    -> Proto(TCP)
          [] n = "icmp6"  -> detect_ipv6_protocol(ICMP, q.icmp6, q.shift6.out)
          [] n = "udp6"   -> detect_ipv6_protocol(UDP, q.udp6, q.shift6.out)

-----------------------------------------------------------------------------
(* ipv4 and udp                                                            *)

\* The length of the header goes to the process that takes it off, the
\* addresses and the length to the protocol.
process_ipv4(s, ws) ==
    Parse(LAMBDA data : [ihl |-> data[1].ihl, src |-> data[1].src, dst |-> data[1].dst,
                         len |-> data[1].len], s, ws)

\* The header is taken off when it has no options.  The length of one with
\* options is read and its words are not: they wait for the next length.
\* The code assumes that no packet has any.
DropHeaderWord(s, w) ==
    IF s.on THEN rshiftWord(IPV4_HEADER_SIZE, s, w)
    ELSE LET n == SelectInSeq(s.dec, LAMBDA ihl : ihl = IPV4_HEADER_SIZE)
         IN  IF n = 0 THEN [s EXCEPT !.dec = <<>>, !.held = Append(@, w)]
             ELSE rshiftWord(IPV4_HEADER_SIZE, [s EXCEPT !.dec = After(@, n)], w)

drop_optional_ip_header(s, ihls, ws) == Feed(DropHeaderWord, s, ihls, ws)
ipv4_drop_optional_ip_header(s, ihls, ws) == drop_optional_ip_header(s, ihls, ws)

ipv4_generate_ipv4(s, metas, ws, myIpAddress, protocol) ==
    Insert(s, Each(LAMBDA m : ipv4Header(myIpAddress, m.dst, protocol, m.len + IPV4_HEADER_SIZE), metas), ws)

\* Words of a datagram for another port are not written; its metadata is
\* marked, so that merge_rx_meta drops it together with the IP metadata.
ProcessUdpWord(regListenPort, s, w) ==
    LET Meta(data) == [sp |-> data[1].sp, dp |-> data[1].dp, len |-> data[1].len,
                       valid |-> data[1].dp = regListenPort]
        valid == IF s.on THEN s.cur[1] ELSE Meta(w.data).valid
    IN  [parseWord(Meta(w.data), s, w) EXCEPT !.cur = IF w.last THEN <<>> ELSE <<valid>>,
                                              !.out = IF valid THEN @ ELSE s.out]

process_udp(s, ws, regListenPort) ==
    Feed(LAMBDA a, w : ProcessUdpWord(regListenPort, a, w), s, <<>>, ws)

merge_rx_meta(ipMetas, udpMetas) ==
    Each(LAMBDA i : [src |-> ipMetas[i].src, sp |-> udpMetas[i].sp, dp |-> udpMetas[i].dp,
                     len |-> udpMetas[i].len],
         SelectSeq([i \in 1..Len(udpMetas) |-> i], LAMBDA i : udpMetas[i].valid))

split_tx_meta(m) ==
    LET tempLen == m.len + UDP_HEADER_SIZE
    IN  [ip |-> [dst |-> m.dst, len |-> tempLen], udp |-> [sp |-> m.sp, dp |-> m.dp, len |-> tempLen]]

generate_udp(s, metas, ws) ==
    Insert(s, Each(LAMBDA m : udpHeader(m.sp, m.dp, m.len), metas), ws)

UdpRxStages == <<"ipIn", "ipDrop", "udpIn", "udpShift">>
UdpTxStages == <<"udpOutShift", "udpOut", "ipOutShift", "ipOut">>

\* Receiving the IP packets ws of the handler.
udp_rx(q, n, ws, regListenPort) ==
    CASE n = "ipIn"     -> process_ipv4(q.ipIn, ws)
      [] n = "ipDrop"   -> ipv4_drop_optional_ip_header(q.ipDrop, Each(LAMBDA m : m.ihl, q.ipIn.meta), q.ipIn.out)
      [] n = "udpIn"    -> process_udp(q.udpIn, q.ipDrop.out, regListenPort)
      [] n = "udpShift" -> udp_rshiftWordByOctet(UDP_HEADER_SIZE, q.udpShift, q.udpIn.out)

\* Sending the data words ws with the metadata m.
udp_tx(q, n, m, ws, myIpAddress) ==
    CASE n = "udpOutShift" -> udp_lshiftWordByOctet(UDP_HEADER_SIZE, q.udpOutShift, ws)
      [] n = "udpOut"      -> generate_udp(q.udpOut, <<split_tx_meta(m).udp>>, q.udpOutShift.out)
      [] n = "ipOutShift"  -> ipv4_lshiftWordByOctet(IPV4_HEADER_SIZE, q.ipOutShift, q.udpOut.out)
      [] n = "ipOut"       -> ipv4_generate_ipv4(q.ipOut, <<split_tx_meta(m).ip>>, q.ipOutShift.out, myIpAddress, UDP)

-----------------------------------------------------------------------------
(* mac_ip_encode and the padding                                           *)

MutantNextHop(dst, regDefaultGateway) == dst
NextHop(dst, regDefaultGateway) ==
    IF SameSubnet(dst, regDefaultGateway) THEN dst ELSE regDefaultGateway

extract_ip_address(s, ws, regDefaultGateway) ==
    Parse(LAMBDA data : NextHop(data[1].dst, regDefaultGateway), s, ws)

insert_ip_checksum(s, checksums, ws) ==
    Decide(LAMBDA c, w : [w EXCEPT !.data[2] = [k |-> "sum", v |-> c]], LAMBDA c : TRUE, s, checksums, ws)

\* A packet whose next hop is not in the ARP table is dropped whole; the
\* lookup has asked for the address.
handle_arp_reply(s, replies, ws) ==
    [Decide(LAMBDA r, w : w, LAMBDA r : r.hit, s, replies, ws)
        EXCEPT !.meta = Each(LAMBDA r : ethHeader(r.mac, "IPv4"), SelectSeq(replies, LAMBDA r : r.hit))]

insert_ethernet_header(s, headers, ws) == Insert(s, headers, ws)

\* A frame of one word is filled up with zeros.
ethernet_frame_padding_512(s, ws) ==
    Feed(LAMBDA a, w : [a EXCEPT !.on = ~w.last,
            !.out = Append(@, IF ~a.on /\ w.last THEN [w EXCEPT !.data = @ \o Zeros(W - Len(@))] ELSE w)],
         s, <<>>, ws)
EncodeStages == <<"arpAsk", "sumOut", "sumIn", "arpReply", "ethShift", "ethOut", "pad">>

\* Packets to frames; arpReply is what the ARP table answers for each address.
mac_ip_encode(q, n, ws, arpReply, regDefaultGateway) ==
    CASE n = "arpAsk"   -> extract_ip_address(q.arpAsk, ws, regDefaultGateway)
      [] n = "sumOut"   -> mac_compute_ipv4_checksum(q.sumOut, q.arpAsk.out)
      [] n = "sumIn"    -> insert_ip_checksum(q.sumIn, Each(mac_finalize_ipv4_checksum, q.sumOut.meta), q.sumOut.out)
      [] n = "arpReply" -> handle_arp_reply(q.arpReply, Each(LAMBDA ip : arpReply[ip], q.arpAsk.meta), q.sumIn.out)
      [] n = "ethShift" -> mac_lshiftWordByOctet(ETH_HEADER_SIZE, q.ethShift, q.arpReply.out)
      [] n = "ethOut"   -> insert_ethernet_header(q.ethOut, q.arpReply.meta, q.ethShift.out)
      [] n = "pad"      -> ethernet_frame_padding_512(q.pad, q.ethOut.out)
=============================================================================
