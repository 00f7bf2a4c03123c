----------------------------- MODULE MetaLoader -----------------------------
(***************************************************************************)
(* The TX engine's metaLoader: what one event makes the engine send.  rx   *)
(* and tx are the replies of the SAR tables, isn the sequence number a     *)
(* fresh SYN or SYN_ACK takes.  The result is the sequence of segments,    *)
(* each with the place its payload comes from (the bypass stream of the     *)
(* application or the TX buffer at an address), the writes to the TX SAR   *)
(* table, the type the retransmit timer is set with, if it is, and whether *)
(* the probe timer is set.                                                 *)
(***************************************************************************)
EXTENDS ToeTables

segment(seqNumb, ackNumb, winSize, flags) ==
    [seqNumb |-> S(seqNumb), ackNumb |-> ackNumb, winSize |-> winSize, winScale |-> 0,
     ack |-> "ack" \in flags, syn |-> "syn" \in flags, fin |-> "fin" \in flags,
     rst |-> "rst" \in flags, length |-> 0, from |-> "none", addr |-> 0]

NoSend == [segs |-> <<>>, writes |-> <<>>, rt |-> <<>>, probe |-> FALSE]

MutantTxNotCounted(ev, rx, tx) ==
    [NoSend EXCEPT
       !.segs = <<[segment(tx.not_ackd, rx.recvd, rx.windowSize, {"ack"})
                      EXCEPT !.length = ev.length, !.from = "bypass"]>>,
       !.rt   = <<"RT">>]

MutantTxUntimed(ev, rx, tx) ==
    [NoSend EXCEPT
       !.segs   = <<[segment(tx.not_ackd, rx.recvd, rx.windowSize, {"ack"})
                        EXCEPT !.length = ev.length, !.from = "bypass"]>>,
       !.writes = <<txTxSarQuery(tx.not_ackd + ev.length, FALSE, FALSE)>>,
       !.probe  = ProbeLength < ev.length]

(* New data goes out whole, however long, straight from the application. *)
SendTx(ev, rx, tx) ==
    [NoSend EXCEPT
       !.segs   = IF ev.length # 0
                  THEN <<[segment(tx.not_ackd, rx.recvd, rx.windowSize, {"ack"})
                             EXCEPT !.length = ev.length, !.from = "bypass"]>>
                  ELSE <<>>,
       !.writes = <<txTxSarQuery(tx.not_ackd + ev.length, FALSE, FALSE)>>,
       !.rt     = IF ev.length # 0 THEN <<"RT">> ELSE <<>>,
       !.probe  = ProbeLength < ev.length]

(* FIN, or a FIN again: a fresh one takes the next sequence number and      *)
(* notes that it was sent, a retransmitted one the number before.          *)
SendFin(ev, rx, tx) ==
    [NoSend EXCEPT
       !.segs   = <<segment(IF ev.rt_count # 0 THEN tx.not_ackd - 1 ELSE tx.not_ackd,
                            rx.recvd, rx.windowSize, {"ack", "fin"})>>,
       !.writes = IF ev.rt_count # 0 THEN <<>>
                  ELSE <<txTxSarQuery(tx.not_ackd + 1, FALSE, TRUE)>>,
       !.rt     = <<"RT">>]

(* Retransmission from ackd on, at most four segments of MSS or, when fewer *)
(* are left, all of them and the FIN if one was sent.                      *)
FullSegments(length) == IF length = 0 THEN 0 ELSE (length - 1) \div MSS

Retransmitted(rx, tx, skip, length) ==
    [segment(tx.ackd + skip, rx.recvd, rx.windowSize, {"ack"})
        EXCEPT !.length = length, !.from = "memory", !.addr = W(tx.ackd + skip)]

RetransmitSegments(rx, tx) ==
    LET full == FullSegments(tx.usedLength)
        tail == tx.usedLength - full * MSS
        Seg(i) == Retransmitted(rx, tx, (i - 1) * MSS, MSS)
    IN  [i \in 1..Smaller(full, 4) |-> Seg(i)]
        \o (IF full < 4 /\ tail # 0 THEN <<Retransmitted(rx, tx, full * MSS, tail)>> ELSE <<>>)

SlowstartThreshold(usedLength) ==
    IF usedLength > 4 * MSS THEN usedLength \div 2 ELSE 2 * MSS

SendRt(ev, rx, tx) ==
    LET segs == RetransmitSegments(rx, tx)
        fin  == IF FullSegments(tx.usedLength) < 4 /\ tx.finSent
                THEN SendFin(ev, rx, tx) ELSE NoSend
    IN  [NoSend EXCEPT
           !.segs   = segs \o fin.segs,
           !.writes = (IF ev.rt_count = 1
                       THEN <<txTxSarRtQuery(SlowstartThreshold(tx.usedLength))>>
                       ELSE <<>>) \o fin.writes,
           !.rt     = IF segs # <<>> \/ fin.segs # <<>> THEN <<"RT">> ELSE <<>>]

SendAck(rx, tx) ==
    [NoSend EXCEPT !.segs = <<segment(tx.not_ackd, rx.recvd, rx.windowSize, {"ack"})>>]

MutantSynUntimed(ev, tx, isn) ==
    [NoSend EXCEPT
       !.segs   = <<[segment(isn, 0, AdvertMod - 1, {"syn"})
                        EXCEPT !.winScale = WINDOW_SCALE_BITS]>>,
       !.writes = <<txTxSarQuery(isn + 1, TRUE, FALSE)>>]

(* A fresh SYN initialises the TX SAR entry with isn + 1; a repeated one    *)
(* takes its number from ackd.                                             *)
SendSyn(ev, tx, isn) ==
    [NoSend EXCEPT
       !.segs   = <<[segment(IF ev.rt_count # 0 THEN tx.ackd ELSE isn, 0, AdvertMod - 1, {"syn"})
                        EXCEPT !.winScale = WINDOW_SCALE_BITS]>>,
       !.writes = IF ev.rt_count # 0 THEN <<>> ELSE <<txTxSarQuery(isn + 1, TRUE, FALSE)>>,
       !.rt     = <<"SYN">>]

SendSynAck(ev, rx, tx, isn) ==
    [NoSend EXCEPT
       !.segs   = <<[segment(IF ev.rt_count # 0 THEN tx.ackd ELSE isn, rx.recvd,
                             AdvertMod - 1, {"syn", "ack"})
                        EXCEPT !.winScale = rx.win_shift]>>,
       !.writes = IF ev.rt_count # 0 THEN <<>> ELSE <<txTxSarQuery(isn + 1, TRUE, FALSE)>>,
       !.rt     = <<"SYN_ACK">>]

(* A reset without a session has sequence number 0. *)
SendRst(ev, tx) ==
    [NoSend EXCEPT !.segs = <<segment(IF ev.rt_count # 0 THEN tx.not_ackd ELSE 0,
                                      ev.ackNumb, 0, {"ack", "rst"})>>]

Send(ev, rx, tx, isn) ==
    CASE ev.type = "TX"                      -> SendTx(ev, rx, tx)
      [] ev.type = "RT"                      -> SendRt(ev, rx, tx)
      [] ev.type \in {"ACK", "ACK_NODELAY"}  -> SendAck(rx, tx)
      [] ev.type = "SYN"                     -> SendSyn(ev, tx, isn)
      [] ev.type = "SYN_ACK"                 -> SendSynAck(ev, rx, tx, isn)
      [] ev.type = "FIN"                     -> SendFin(ev, rx, tx)
      [] ev.type = "RST"                     -> SendRst(ev, tx)
=============================================================================
