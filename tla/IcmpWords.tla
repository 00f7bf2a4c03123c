----------------------------- MODULE IcmpWords ------------------------------
(***************************************************************************)
(* icmp_server.cpp: echo requests are turned into replies in place.  The   *)
(* server holds a whole packet back until its checksum is known, so that a *)
(* packet is treated here in one piece, as the units us behind the         *)
(* Ethernet header: IP header, ICMP type, checksum, data.                  *)
(***************************************************************************)
EXTENDS IpWords

ECHO_REQUEST == 8
ECHO_REPLY   == 0

icmpHeader(type, checksum) == <<[k |-> "icmp", type |-> type], [k |-> "sum", v |-> checksum]>>

IcmpSum(us) ==
    FoldLeft(LAMBDA c, u : Add(c, IF u.k = "icmp" THEN u.type ELSE Value(u)), 0, After(us, IPV4_HEADER_SIZE))

\* A register of one bit more than the checksum, the bit set: the type is
\* taken out of the complement with its borrow.
MutantEchoChecksum(checksum) == LANE - 1 - ((LANE - 1 - checksum - ECHO_REQUEST) % LANE)
EchoChecksum(checksum) ==
    LET minus == (LANE - 1 - checksum - ECHO_REQUEST) % (2 * LANE)
    IN  LANE - 1 - ((minus - minus \div LANE) % LANE)

\* The packet with its addresses swapped and its type changed, whether it
\* is valid, and its new checksum.
check_icmp_checksum(us) ==
    [out |-> [us EXCEPT ![1].src = us[1].dst, ![1].dst = us[1].src, ![3].type = ECHO_REPLY],
     valid |-> LANE - 1 - IcmpSum(us) = 0 /\ us[3].type = ECHO_REQUEST,
     checksum |-> EchoChecksum(us[4].v)]

dropper(us, valid) == IF valid THEN us ELSE <<>>

insertChecksum(us, checksum) == IF us = <<>> THEN us ELSE [us EXCEPT ![4].v = checksum]

icmp_server(ws) ==
    IF ws = <<>> THEN <<>>
    ELSE LET c == check_icmp_checksum(Units(ws))
         IN  Words(insertChecksum(dropper(c.out, c.valid), c.checksum))
=============================================================================
