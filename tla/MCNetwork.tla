----------------------------- MODULE MCNetwork ------------------------------
(***************************************************************************)
(* Words of eight units, so that the Ethernet, IP and TCP headers leave    *)
(* three units of the first word; lengths on both sides of every boundary; *)
(* buffer addresses that end inside a word, at its end and at the end of   *)
(* the buffer.                                                             *)
(***************************************************************************)
EXTENDS Network

Segment == [kind |-> "tcp", to |-> 2, len |-> 0, session |-> 0, addr |-> 0, bypass |-> TRUE,
            syn |-> FALSE, winShift |-> 0, port |-> 9, accept |-> TRUE]

Lengths == {1, 3, 4, 5, 8, 11, 12}

MCJobs ==
    {[Segment EXCEPT !.len = n, !.accept = a] : n \in Lengths \cup {0}, a \in BOOLEAN}
    \cup {[Segment EXCEPT !.len = n, !.addr = a, !.bypass = FALSE] : n \in Lengths, a \in {5, 8, 13}}
    \cup {[Segment EXCEPT !.len = 4, !.addr = a, !.session = 1, !.bypass = FALSE] : a \in {0, 13}}
    \cup {[Segment EXCEPT !.syn = TRUE, !.winShift = w] : w \in {0, 2}}
    \cup {[Segment EXCEPT !.len = n, !.to = 6] : n \in {0, 4}}
    \cup {[kind |-> "udp", to |-> 2, len |-> n, port |-> p, accept |-> TRUE] :
             n \in {1, 4, 5, 12, 13}, p \in {LISTEN_PORT, 8}}
    \cup {[kind |-> "udp", to |-> 6, len |-> 4, port |-> LISTEN_PORT, accept |-> TRUE]}
    \cup {[kind |-> "ping", to |-> 2, len |-> n, accept |-> TRUE] : n \in {0, 1, 7}}

StrayPacket(dst, proto) ==
    LET us == ethHeader(2, "IPv4") \o ipv4Header(1, dst, proto, 6)
              \o udpHeader(5, LISTEN_PORT, 4) \o Payload([len |-> 3])
        sum == LANE - 1 - FoldLeft(LAMBDA c, u : Add(c, Value(u)), 0, SubSeq(us, 2, 2))
    IN  Words([us EXCEPT ![3].v = sum] \o Zeros(1))

MCStrays ==
    {StrayPacket(2, 2), StrayPacket(3, UDP), StrayPacket(7, UDP)}
    \cup {Words(ethHeader(2, "IPv6") \o <<[k |-> "ip6", next |-> n]>> \o Payload([len |-> 9])) : n \in {ICMP, UDP, 3}}
    \cup {Words(ethHeader(2, "other") \o Payload([len |-> n])) : n \in {3, 12}}
=============================================================================
