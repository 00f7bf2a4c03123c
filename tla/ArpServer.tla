----------------------------- MODULE ArpServer ------------------------------
(***************************************************************************)
(* arp_server_subnet.cpp, one instance per host: process_arp_pkg takes ARP *)
(* frames apart, arp_table answers lookups and asks for what it misses,    *)
(* generate_arp_pkg builds frames.  Between them are FIFOs.                *)
(***************************************************************************)
EXTENDS Integers, Sequences

CONSTANTS Hosts,        \* the hosts that run the stack
          FifoDepth     \* depth of the FIFOs between the processes

VARIABLES arpTable,     \* the entry of each octet, the station or NoMac
          arpInsert,    \* arpTableInsertFifo
          arpReplyMeta, \* arpReplyMetaFifo
          arpRequestMeta \* arpRequestMetaFifo

arpVars == <<arpTable, arpInsert, arpReplyMeta, arpRequestMeta>>

NoMac == 0
BROADCAST_MAC == 99

\* arp_table keeps one entry per last octet of an address.
Octet(addr) == addr % 4

ArpInit ==
    /\ arpTable = [h \in Hosts |-> [o \in 0..3 |-> NoMac]]
    /\ arpInsert = [h \in Hosts |-> <<>>]
    /\ arpReplyMeta = [h \in Hosts |-> <<>>]
    /\ arpRequestMeta = [h \in Hosts |-> <<>>]

\* One header, Ethernet and ARP together, in one word.
arpHeader(op, to, hw, proto, targetHw, target) ==
    <<[k |-> "eth", to |-> to, from |-> hw, type |-> "ARP"],
      [k |-> "arp", op |-> op, hw |-> hw, proto |-> proto, targetHw |-> targetHw, target |-> target]>>

\* What is queued for the frame us: a reply to a request for this host, an
\* entry from a reply to this host.
ForMe(arp, myIpAddress) == arp.target = myIpAddress

process_arp_pkg(h, us, myIpAddress) ==
    LET forMe == us # <<>> /\ ForMe(us[2], myIpAddress)
    IN  /\ us # <<>> => Len(arpReplyMeta[h]) < FifoDepth /\ Len(arpInsert[h]) < FifoDepth
        /\ arpReplyMeta' = IF forMe /\ us[2].op = "request"
                           THEN [arpReplyMeta EXCEPT ![h] =
                                    Append(@, [srcMac |-> us[1].from, hw |-> us[2].hw, proto |-> us[2].proto])]
                           ELSE arpReplyMeta
        /\ arpInsert' = IF forMe /\ us[2].op = "reply"
                        THEN [arpInsert EXCEPT ![h] = Append(@, [ip |-> us[2].proto, mac |-> us[2].hw])]
                        ELSE arpInsert

\* Entries are inserted before lookups are answered.
arp_table_insert(h) ==
    /\ arpInsert[h] # <<>>
    /\ LET e == Head(arpInsert[h])
       IN  arpTable' = [arpTable EXCEPT ![h][Octet(e.ip)] = e.mac]
    /\ arpInsert' = [arpInsert EXCEPT ![h] = Tail(@)]
    /\ UNCHANGED <<arpReplyMeta, arpRequestMeta>>

arpTableReply(h, ip) ==
    [hit |-> arpTable[h][Octet(ip)] # NoMac, mac |-> arpTable[h][Octet(ip)]]

\* A lookup by mac_ip_encode or by the host asks for an address it misses.
MutantAsk(h, ip) == arpRequestMeta
Ask(h, ip) == [arpRequestMeta EXCEPT ![h] = Append(@, ip)]

arp_table_lookup(h, ip) ==
    /\ arpInsert[h] = <<>>
    /\ Len(arpRequestMeta[h]) < FifoDepth
    /\ arpRequestMeta' = IF arpTableReply(h, ip).hit THEN arpRequestMeta ELSE Ask(h, ip)
    /\ UNCHANGED <<arpTable, arpInsert, arpReplyMeta>>

\* The header to send next: replies go before requests.
ArpFrame(h, myIpAddress) ==
    IF arpReplyMeta[h] # <<>>
    THEN LET m == Head(arpReplyMeta[h]) IN arpHeader("reply", m.srcMac, h, myIpAddress, m.hw, m.proto)
    ELSE arpHeader("request", BROADCAST_MAC, h, myIpAddress, NoMac, Head(arpRequestMeta[h]))

generate_arp_pkg(h) ==
    /\ arpReplyMeta[h] # <<>> \/ arpRequestMeta[h] # <<>>
    /\ IF arpReplyMeta[h] # <<>>
       THEN arpReplyMeta' = [arpReplyMeta EXCEPT ![h] = Tail(@)] /\ UNCHANGED arpRequestMeta
       ELSE arpRequestMeta' = [arpRequestMeta EXCEPT ![h] = Tail(@)] /\ UNCHANGED arpReplyMeta
    /\ UNCHANGED <<arpTable, arpInsert>>
=============================================================================
