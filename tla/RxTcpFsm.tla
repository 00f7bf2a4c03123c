------------------------------ MODULE RxTcpFsm ------------------------------
(***************************************************************************)
(* The state machine of the RX engine (rxTcpFSM): what one received segment *)
(* does to a session.  A segment m carries its flags, seqNumb, ackNumb,     *)
(* winSize, winScale and the length of its payload; tcpState, rxSar and     *)
(* txSar are what the machine loaded for the session.  The result is the    *)
(* set of writes the machine issues: the new state (which also releases the *)
(* lock on the state table), table writes, timer commands, events for the   *)
(* TX engine, the answer to an open request, the notification of the        *)
(* application and the decision on the payload.                             *)
(***************************************************************************)
EXTENDS ToeTables

Meta == [ack : BOOLEAN, syn : BOOLEAN, fin : BOOLEAN, rst : BOOLEAN, seqNumb : SeqNumb,
         ackNumb : SeqNumb, winSize : Advert, winScale : Shift, length : Window]

(* Writes that only release the lock.  Optional writes are sequences of at *)
(* most one element.                                                       *)
Release(tcpState) ==
    [state |-> tcpState, rxSar |-> <<>>, txSar |-> <<>>, rt |-> <<>>, probe |-> FALSE,
     close |-> FALSE, open |-> <<>>, event |-> <<>>, notify |-> <<>>, drop |-> <<>>]

(* appNotification: bytes to read, and whether the connection is closed. *)
notification(length, closed) == [length |-> length, closed |-> closed]

DropPayload(m) == IF m.length # 0 THEN <<TRUE>> ELSE <<>>

-----------------------------------------------------------------------------
(* ACK. *)

(* Nothing new is acknowledged although something is outstanding. *)
DuplicateAck(m, txSar) == m.ackNumb = txSar.prevAck /\ txSar.prevAck # txSar.nextByte

(* Congestion control: slow start by MSS, then by CongStep up to the limit. *)
CongestionWindow(txSar) ==
    CASE txSar.cong_window <= txSar.slowstart_threshold - MSS -> W(txSar.cong_window + MSS)
      [] ~(txSar.cong_window <= txSar.slowstart_threshold - MSS)
         /\ txSar.cong_window <= CONGESTION_WINDOW_MAX -> W(txSar.cong_window + CongStep)
      [] OTHER -> txSar.cong_window

AckCounted(m, txSar) ==
    IF DuplicateAck(m, txSar)
    THEN [txSar EXCEPT !.count = IF m.length = 0 THEN (@ + 1) % 4 ELSE @]
    ELSE [txSar EXCEPT !.cong_window = CongestionWindow(txSar),
                       !.count = 0, !.fastRetransmitted = FALSE]

(* The acknowledged number lies between the last one and the next byte to  *)
(* send, in a comparison that allows for the wrap of sequence numbers.     *)
AckInRange(m, txSar) ==
    \/ txSar.prevAck <= m.ackNumb /\ m.ackNumb <= txSar.nextByte
    \/ /\ txSar.prevAck <= m.ackNumb \/ m.ackNumb <= txSar.nextByte
       /\ txSar.nextByte < txSar.prevAck

AckTxSar(m, txSar) ==
    LET t == AckCounted(m, txSar)
    IN  IF AckInRange(m, txSar)
        THEN <<rxTxSarQuery(m.ackNumb, m.winSize, t.cong_window, t.count,
                            t.count = 3 \/ t.fastRetransmitted)>>
        ELSE <<>>

MutantAnyOrder(m, rxSar, room) == m.length # 0 /\ room

(* Payload is taken only in order and while the RX buffer has room for it. *)
Accepts(m, rxSar, room) == m.length # 0 /\ m.seqNumb = rxSar.recvd /\ room

(* A third duplicate asks for a fast retransmission, payload for an         *)
(* acknowledgement: delayed when it was taken, at once when it was not.    *)
AckEvent(m, rxSar, txSar, room) ==
    LET t == AckCounted(m, txSar)
    IN  CASE t.count = 3 /\ ~t.fastRetransmitted -> <<event("RT", 0)>>
          [] ~(t.count = 3 /\ ~t.fastRetransmitted) /\ m.length # 0 ->
               <<event(IF Accepts(m, rxSar, room) THEN "ACK" ELSE "ACK_NODELAY", 0)>>
          [] OTHER -> <<>>

MutantLastAckStays(tcpState) ==
    CASE tcpState = "SYN_RECEIVED" -> "ESTABLISHED"
      [] tcpState = "CLOSING"      -> "TIME_WAIT"
      [] OTHER                     -> tcpState

(* The state after an acknowledgement of everything sent. *)
AckedState(tcpState) ==
    CASE tcpState = "SYN_RECEIVED" -> "ESTABLISHED"
      [] tcpState = "CLOSING"      -> "TIME_WAIT"
      [] tcpState = "LAST_ACK"     -> "CLOSED"
      [] OTHER                     -> tcpState

AckWrites(m, tcpState, rxSar, txSar, room) ==
    LET all   == m.ackNumb = txSar.nextByte
        next  == S(m.seqNumb + m.length)
        taken == Accepts(m, rxSar, room)
    IN  IF tcpState \in {"ESTABLISHED", "SYN_RECEIVED", "FIN_WAIT_1", "CLOSING", "LAST_ACK"}
        THEN [Release(IF all THEN AckedState(tcpState) ELSE tcpState) EXCEPT
                !.rt     = <<all>>,
                !.probe  = ~DuplicateAck(m, txSar),
                !.txSar  = AckTxSar(m, txSar),
                !.rxSar  = IF taken THEN <<rxSarRecvd(next, next, rxSar.offset, rxSar.gap)>>
                                    ELSE <<>>,
                !.notify = IF taken THEN <<notification(m.length, FALSE)>> ELSE <<>>,
                !.drop   = IF m.length # 0 THEN <<~taken>> ELSE <<>>,
                !.event  = AckEvent(m, rxSar, txSar, room),
                !.close  = all /\ tcpState = "CLOSING"]
        ELSE [Release(tcpState) EXCEPT
                !.rt = <<all>>, !.event = <<rstEvent(next, TRUE)>>, !.drop = DropPayload(m)]

-----------------------------------------------------------------------------
(* SYN. *)

RxWinShift(m) == IF m.winScale = 0 THEN 0 ELSE WINDOW_SCALE_BITS

(* txSar was not loaded: its cong_window is whatever the register held. *)
SynWrites(m, tcpState, rxSar, txSar) ==
    CASE tcpState \in {"CLOSED", "SYN_SENT"} ->
           [Release("SYN_RECEIVED") EXCEPT
              !.rxSar = <<rxSarInit(m.seqNumb + 1, RxWinShift(m))>>,
              !.txSar = <<rxTxSarInit(0, m.winSize, txSar.cong_window, m.winScale)>>,
              !.event = <<event("SYN_ACK", 0)>>]
      [] tcpState = "SYN_RECEIVED" /\ S(m.seqNumb + 1) = rxSar.recvd ->
           [Release(tcpState) EXCEPT !.event = <<event("SYN_ACK", 1)>>]
      [] tcpState = "SYN_RECEIVED" /\ S(m.seqNumb + 1) # rxSar.recvd ->
           [Release("CLOSED") EXCEPT !.event = <<rstEvent(S(m.seqNumb + 1), TRUE)>>]
      [] OTHER ->
           [Release(tcpState) EXCEPT !.event = <<event("ACK_NODELAY", 0)>>]

MutantOpenUnanswered(m, tcpState, txSar) ==
    IF tcpState = "SYN_SENT"
    THEN [Release("ESTABLISHED") EXCEPT
            !.rt    = <<TRUE>>,
            !.rxSar = <<rxSarInit(m.seqNumb + 1, RxWinShift(m))>>,
            !.txSar = <<rxTxSarInit(m.ackNumb, m.winSize, txSar.cong_window, m.winScale)>>,
            !.event = <<event("ACK_NODELAY", 0)>>]
    ELSE [Release(tcpState) EXCEPT !.event = <<event("ACK_NODELAY", 0)>>]

(* SYN+ACK. *)
SynAckWrites(m, tcpState, txSar) ==
    LET all == m.ackNumb = txSar.nextByte
    IN  CASE tcpState = "SYN_SENT" /\ all ->
               [Release("ESTABLISHED") EXCEPT
                  !.rt    = <<all>>,
                  !.rxSar = <<rxSarInit(m.seqNumb + 1, RxWinShift(m))>>,
                  !.txSar = <<rxTxSarInit(m.ackNumb, m.winSize, txSar.cong_window, m.winScale)>>,
                  !.event = <<event("ACK_NODELAY", 0)>>,
                  !.open  = <<TRUE>>]
          [] tcpState = "SYN_SENT" /\ ~all ->
               [Release("CLOSED") EXCEPT
                  !.rt    = <<all>>,
                  !.event = <<rstEvent(S(m.seqNumb + m.length + 1), TRUE)>>]
          [] OTHER ->
               [Release(tcpState) EXCEPT !.rt = <<all>>, !.event = <<event("ACK_NODELAY", 0)>>]

-----------------------------------------------------------------------------
(* FIN+ACK: taken only in order, and then whatever its ackNumb. *)

FinInOrder(m, tcpState, rxSar) ==
    tcpState \in {"ESTABLISHED", "FIN_WAIT_1", "FIN_WAIT_2"} /\ rxSar.recvd = m.seqNumb

FinWrites(m, tcpState, rxSar, txSar) ==
    LET all  == m.ackNumb = txSar.nextByte
        next == S(m.seqNumb + m.length + 1)
    IN  IF FinInOrder(m, tcpState, rxSar)
        THEN [Release(CASE tcpState = "ESTABLISHED"         -> "LAST_ACK"
                        [] tcpState # "ESTABLISHED" /\ all  -> "TIME_WAIT"
                        [] tcpState # "ESTABLISHED" /\ ~all -> "CLOSING") EXCEPT
                !.rt     = <<all>>,
                !.txSar  = <<rxTxSarQuery(m.ackNumb, m.winSize, txSar.cong_window, txSar.count,
                                          txSar.fastRetransmitted)>>,
                !.rxSar  = <<rxSarRecvd(next, next, rxSar.offset, rxSar.gap)>>,
                !.probe  = TRUE,
                !.notify = IF m.length # 0 \/ tcpState = "ESTABLISHED"
                           THEN <<notification(m.length, TRUE)>> ELSE <<>>,
                !.drop   = IF m.length # 0 THEN <<FALSE>> ELSE <<>>,
                !.event  = <<event(IF tcpState = "ESTABLISHED" THEN "FIN" ELSE "ACK", 0)>>,
                !.close  = all /\ tcpState # "ESTABLISHED"]
        ELSE [Release(tcpState) EXCEPT
                !.rt = <<all>>, !.event = <<event("ACK", 0)>>, !.drop = DropPayload(m)]

-----------------------------------------------------------------------------
(* RST and every other combination of flags.  Without ACK, txSar was not   *)
(* loaded and nextByte is whatever the register held.                      *)

RstWrites(m, tcpState, rxSar, txSar) ==
    CASE m.rst /\ tcpState = "SYN_SENT" /\ m.ackNumb = txSar.nextByte ->
           [Release("CLOSED") EXCEPT !.open = <<FALSE>>, !.rt = <<TRUE>>]
      [] m.rst /\ tcpState # "SYN_SENT" /\ m.seqNumb = rxSar.recvd ->
           [Release("CLOSED") EXCEPT !.notify = <<notification(0, TRUE)>>, !.rt = <<TRUE>>]
      [] OTHER -> Release(tcpState)

(* The switch on the four control bits. *)
Transition(m, tcpState, rxSar, txSar, room) ==
    LET flags == <<m.ack, m.syn, m.fin, m.rst>>
    IN  CASE flags = <<TRUE, FALSE, FALSE, FALSE>> -> AckWrites(m, tcpState, rxSar, txSar, room)
          [] flags = <<FALSE, TRUE, FALSE, FALSE>> -> SynWrites(m, tcpState, rxSar, txSar)
          [] flags = <<TRUE, TRUE, FALSE, FALSE>>  -> SynAckWrites(m, tcpState, txSar)
          [] flags = <<TRUE, FALSE, TRUE, FALSE>>  -> FinWrites(m, tcpState, rxSar, txSar)
          [] OTHER                                 -> RstWrites(m, tcpState, rxSar, txSar)
=============================================================================
