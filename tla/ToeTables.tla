----------------------------- MODULE ToeTables -----------------------------
(***************************************************************************)
(* The records the TCP offload engine keeps per session and what each of   *)
(* its tables answers and stores: rx_sar_table, tx_sar_table, tx_app_table, *)
(* the retransmit timer's table and the events (toe_internals.hpp).        *)
(* One entry stands for the entry of one session.  Sequence numbers are    *)
(* 32 bits wide in the code and taken modulo SeqSpace here, buffer pointers   *)
(* are WINDOW_BITS wide (modulo BUFFER_SIZE) and advertised windows 16 bits *)
(* (modulo AdvertMod).                                                     *)
(***************************************************************************)
EXTENDS Integers, Sequences, FiniteSets

CONSTANTS
    SeqSpace,                 \* 2^32
    BUFFER_SIZE,            \* 2^WINDOW_BITS, the bytes of a session's TX buffer
    AdvertMod,              \* 2^16, an advertised window is below it
    WINDOW_SCALE_BITS,      \* the shift this engine offers
    MSS,
    CongInit,               \* 0x3908
    CongStep,               \* 365
    CONGESTION_WINDOW_MAX,
    SsthreshInit,           \* 0xFFFF
    MaxRetries,             \* 4
    ProbeLength             \* 0x7FFF

ASSUME ToeConstants ==
    /\ BUFFER_SIZE \in Nat \ {0} /\ SeqSpace \in Nat \ {0}
    /\ SeqSpace % BUFFER_SIZE = 0
    /\ {MSS, AdvertMod, CongInit, CongStep} \subseteq Nat \ {0}
    /\ {WINDOW_SCALE_BITS, MaxRetries, ProbeLength} \subseteq Nat
    /\ CONGESTION_WINDOW_MAX \in 0..BUFFER_SIZE-1
    /\ SsthreshInit \in 0..BUFFER_SIZE-1

SeqNumb == 0..SeqSpace-1
Window  == 0..BUFFER_SIZE-1
Advert  == 0..AdvertMod-1
Shift   == 0..WINDOW_SCALE_BITS

S(x) == x % SeqSpace              \* ap_uint<32>
W(x) == x % BUFFER_SIZE         \* ap_uint<WINDOW_BITS>
Smaller(a, b) == IF a < b THEN a ELSE b

eventType == {"TX", "RT", "ACK", "SYN", "SYN_ACK", "FIN", "RST", "ACK_NODELAY"}

sessionState == {"CLOSED", "SYN_SENT", "SYN_RECEIVED", "ESTABLISHED", "FIN_WAIT_1",
                 "FIN_WAIT_2", "CLOSING", "TIME_WAIT", "LAST_ACK"}

-----------------------------------------------------------------------------
(* Events.  rt_count is 0 for a fresh one; a RST carries in its address and *)
(* length fields the number it acknowledges, here in ackNumb, and in        *)
(* rt_count whether it belongs to a session.                               *)

event(type, rt_count) ==
    [type |-> type, length |-> 0, rt_count |-> rt_count, ackNumb |-> 0]

txEvent(length) == [event("TX", 0) EXCEPT !.length = length]

rstEvent(ackNumb, hasSessionID) ==
    [event("RST", IF hasSessionID THEN 1 ELSE 0) EXCEPT !.ackNumb = ackNumb]

Event == [type : eventType, length : Window, rt_count : 0..MaxRetries, ackNumb : SeqNumb]

-----------------------------------------------------------------------------
(* rx_sar_table: what has been received (recvd), what the application has  *)
(* read (appd) and, while there is a gap, where it ends.                   *)

rxSarEntry == [recvd : SeqNumb, appd : Window, win_shift : Shift,
               head : SeqNumb, offset : SeqNumb, gap : BOOLEAN]

RxSarEmpty == [recvd |-> 0, appd |-> 0, win_shift |-> 0, head |-> 0, offset |-> 0, gap |-> FALSE]

(* A write of the RX engine that does not initialise the entry. *)
rxSarRecvd(recvd, head, offset, gap) ==
    [recvd |-> S(recvd), head |-> S(head), offset |-> offset, gap |-> gap,
     init |-> FALSE, win_shift |-> 0]

(* The one that does. *)
rxSarInit(recvd, shift) ==
    [rxSarRecvd(recvd, recvd, 0, FALSE) EXCEPT !.init = TRUE, !.win_shift = shift]

RxSarWrite(entry, w) ==
    [entry EXCEPT !.recvd = w.recvd, !.head = w.head, !.offset = w.offset, !.gap = w.gap,
                  !.appd = IF w.init THEN W(w.recvd) ELSE @,
                  !.win_shift = IF w.init THEN w.win_shift ELSE @]

(* The answer to the TX engine: the window to advertise is the space up to  *)
(* the application's pointer, shifted and cut to 16 bits.                  *)
RxSarReply(entry) ==
    [recvd |-> entry.recvd, win_shift |-> entry.win_shift,
     windowSize |-> (W(entry.appd - entry.recvd - 1) \div 2^entry.win_shift) % AdvertMod]

-----------------------------------------------------------------------------
(* tx_sar_table: acknowledged and sent (ackd, not_ackd), the peer's window *)
(* and the congestion control.  The fields app and usableWindow are read   *)
(* only without TCP_NODELAY, which the build sets, and are left out.       *)

txSarEntry == [ackd : SeqNumb, not_ackd : SeqNumb, recv_window : Advert, win_shift : Shift,
               cong_window : Window, slowstart_threshold : Window, count : 0..3,
               fastRetransmitted : BOOLEAN, finReady : BOOLEAN, finSent : BOOLEAN]

TxSarEmpty == [ackd |-> 0, not_ackd |-> 0, recv_window |-> 0, win_shift |-> 0,
               cong_window |-> 0, slowstart_threshold |-> 0, count |-> 0,
               fastRetransmitted |-> FALSE, finReady |-> FALSE, finSent |-> FALSE]

rxTxSarReply(entry) ==
    [prevAck |-> entry.ackd, nextByte |-> entry.not_ackd, cong_window |-> entry.cong_window,
     slowstart_threshold |-> entry.slowstart_threshold, count |-> entry.count,
     fastRetransmitted |-> entry.fastRetransmitted]

rxTxSarQuery(ackd, recv_window, cong_window, count, fast) ==
    [ackd |-> ackd, recv_window |-> recv_window, cong_window |-> cong_window,
     count |-> count, fastRetransmitted |-> fast, init |-> FALSE, win_shift |-> 0]

rxTxSarInit(ackd, recv_window, cong_window, shift) ==
    [rxTxSarQuery(ackd, recv_window, cong_window, 0, FALSE)
        EXCEPT !.init = TRUE, !.win_shift = shift]

TxSarRxWrite(entry, q) ==
    [entry EXCEPT !.ackd = q.ackd, !.recv_window = q.recv_window,
                  !.cong_window = q.cong_window, !.count = q.count,
                  !.fastRetransmitted = q.fastRetransmitted,
                  !.win_shift = IF q.init THEN q.win_shift ELSE @]

(* The TX engine writes not_ackd, initialises the entry or notes its FIN. *)
txTxSarQuery(not_ackd, init, fin) ==
    [not_ackd |-> S(not_ackd), init |-> init, fin |-> fin, isRtQuery |-> FALSE]

txTxSarRtQuery(ssthresh) == [txTxSarQuery(ssthresh, FALSE, FALSE) EXCEPT !.isRtQuery = TRUE]

TxSarTxWrite(entry, q) ==
    CASE q.isRtQuery ->
           [entry EXCEPT !.slowstart_threshold = W(q.not_ackd), !.cong_window = CongInit]
      [] ~q.isRtQuery /\ q.init ->
           [entry EXCEPT !.not_ackd = q.not_ackd, !.ackd = S(q.not_ackd - 1),
                         !.cong_window = CongInit, !.slowstart_threshold = SsthreshInit,
                         !.finReady = q.fin, !.finSent = q.fin]
      [] OTHER ->
           [entry EXCEPT !.not_ackd = q.not_ackd,
                         !.finReady = @ \/ q.fin, !.finSent = @ \/ q.fin]

(* The answer to the TX engine.  usedLength counts the FIN's sequence      *)
(* number too: usedLengthWithFIN is computed and not returned.             *)
txTxSarReply(entry) ==
    [ackd |-> entry.ackd, not_ackd |-> entry.not_ackd,
     usedLength |-> W(entry.not_ackd - entry.ackd), finSent |-> entry.finSent]

-----------------------------------------------------------------------------
(* tx_app_table: the application side's copy of ackd, its write pointer    *)
(* mempt and the window it may fill.                                       *)

txAppTableEntry == [ackd : Window, mempt : Window, min_window : Window]

(* The window pushed with an acknowledgement.  scaled_recv_window is       *)
(* declared without a value and only 16 of its bits are assigned, so that  *)
(* the bits below win_shift and those above are whatever the build left.   *)
MinWindows(cong_window, recv_window, shift) ==
    {cong_window} \cup
    {Smaller(cong_window, recv_window * 2^shift + low) : low \in 0..(2^shift - 1)}

AckPush(app, ackd, min_window) == [app EXCEPT !.ackd = W(ackd), !.min_window = min_window]

MutantBufferOffByOne(not_ackd) ==
    [ackd |-> W(not_ackd - 1), mempt |-> W(not_ackd + 1), min_window |-> CongInit]

AckPushInit(not_ackd) ==
    [ackd |-> W(not_ackd - 1), mempt |-> W(not_ackd), min_window |-> CongInit]

-----------------------------------------------------------------------------
(* The retransmit timer's table. *)

retransmitTimerEntry == [active : BOOLEAN, retries : 0..MaxRetries, type : eventType]

RtIdle == [active |-> FALSE, retries |-> 0, type |-> "RT"]

RtSet(entry, type) == [entry EXCEPT !.type = type, !.active = TRUE]

(* rxRetransmitTimerUpdate: an acknowledgement of everything stops the     *)
(* timer, any other restarts its interval; both forget the retries.        *)
RtClear(entry, stop) == [entry EXCEPT !.active = @ /\ ~stop, !.retries = 0]
=============================================================================
