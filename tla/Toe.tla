--------------------------------- MODULE Toe ---------------------------------
(***************************************************************************)
(* Two TCP offload engines joined by a network that may lose, repeat and    *)
(* reorder segments, with one connection between them.  Each engine runs   *)
(* its processes concurrently: the RX engine loads a session and later      *)
(* applies the segment, the TX engine loads an event and later sends, the   *)
(* timers expire, the event engine and the delay of acknowledgements decide *)
(* on the order of the events, and the application opens, closes, writes    *)
(* and reads.  A timer may expire whenever it is active.                   *)
(***************************************************************************)
EXTENDS RxTcpFsm, MetaLoader, SequencesExt

CONSTANTS
    Host,           \* the two engines
    ISN,            \* ISN[h]: the sequence number of h's first SYN
    Listening,      \* the hosts whose application listens on the port
    Opener,         \* the hosts whose application opens the connection
    Closer,         \* the hosts whose application closes it
    TotalBytes,     \* TotalBytes[h]: what h's application has to send
    WriteLength,    \* the lengths of its writes
    RxRoom,         \* packets the RX buffer holds beyond its safety margin
    MaxNet,         \* segments in flight to one host
    MaxEvents,      \* events waiting in one FIFO
    MaxOpens,       \* open requests of one application
    Faults,         \* how often the network loses, repeats or delays a segment
    Reorder,        \* whether segments overtake each other
    CalmClose       \* whether the network is reliable once an application closes

ASSUME ToeInstance ==
    /\ Cardinality(Host) = 2
    /\ ISN \in [Host -> SeqNumb] /\ TotalBytes \in [Host -> Nat]
    /\ Listening \subseteq Host /\ Opener \subseteq Host /\ Closer \subseteq Host
    /\ WriteLength \subseteq 1..BUFFER_SIZE-1
    /\ {RxRoom, MaxNet, MaxEvents, MaxOpens, Faults} \subseteq Nat
    /\ {Reorder, CalmClose} \subseteq BOOLEAN

VARIABLES
    sessions,       \* the session has an entry in the lookup table
    state_table,    \* its state
    locked,         \* who holds the lock on it: "none", "rx" or "tx"
    rx_table, tx_table, app_table,
    retransmitTimer, probeTimer, closeTimer,
    released,       \* releases waiting for the state table
    fsm,            \* what the RX engine loaded, or << >>
    rxEvents, timerEvents, appEvents,   \* FIFOs into the event engine
    ackDelayed,     \* an acknowledgement is waiting in ack_table
    closing,        \* the state tx_app_if read for a close request, or << >>
    closed,         \* the application has asked to close
    bypass,         \* application data on its way to the TX engine
    txBuffer,       \* the session's TX buffer
    rxBuffer,       \* packets in the RX buffer, in the order notified
    net,            \* segments on their way to each host
    written,        \* bytes the application was granted
    delivered,      \* bytes the application has read
    opens, answers, \* open requests made, and the answers to them
    told,           \* the application was told that the connection is closed
    faults,         \* how often the network has done so
    blindStop,      \* a retransmit timer was stopped with bytes outstanding
    finAsData       \* h has retransmitted the number of its FIN as payload

tables == <<rx_table, tx_table, app_table>>
timers == <<retransmitTimer, probeTimer, closeTimer>>
events == <<rxEvents, timerEvents, appEvents, ackDelayed>>
session == <<sessions, state_table, locked, released>>
app == <<closing, closed, written, delivered, opens, answers, told>>
data == <<bypass, txBuffer, rxBuffer>>
ghost == <<faults, blindStop, finAsData>>
vars == <<tables, timers, events, session, app, data, ghost, fsm, net>>

Peer(h) == CHOOSE g \in Host : g # h
Garbage == 0        \* a buffer cell no byte of the application was written to

Init ==
    /\ sessions = [h \in Host |-> FALSE]
    /\ state_table = [h \in Host |-> "CLOSED"]
    /\ locked = [h \in Host |-> "none"]
    /\ rx_table = [h \in Host |-> RxSarEmpty]
    /\ tx_table = [h \in Host |-> TxSarEmpty]
    /\ app_table = [h \in Host |-> [ackd |-> 0, mempt |-> 0, min_window |-> 0]]
    /\ retransmitTimer = [h \in Host |-> RtIdle]
    /\ probeTimer = [h \in Host |-> FALSE]
    /\ closeTimer = [h \in Host |-> FALSE]
    /\ released = [h \in Host |-> 0]
    /\ fsm = [h \in Host |-> <<>>]
    /\ rxEvents = [h \in Host |-> <<>>] /\ timerEvents = [h \in Host |-> <<>>]
    /\ appEvents = [h \in Host |-> <<>>]
    /\ ackDelayed = [h \in Host |-> FALSE]
    /\ closed = [h \in Host |-> FALSE]
    /\ closing = [h \in Host |-> <<>>]
    /\ bypass = [h \in Host |-> <<>>] /\ rxBuffer = [h \in Host |-> <<>>]
    /\ txBuffer = [h \in Host |-> [a \in Window |-> Garbage]]
    /\ net = [h \in Host |-> <<>>]
    /\ written = [h \in Host |-> 0] /\ delivered = [h \in Host |-> <<>>]
    /\ opens = [h \in Host |-> 0] /\ answers = [h \in Host |-> <<>>]
    /\ told = [h \in Host |-> FALSE]
    /\ faults = 0 /\ blindStop = FALSE
    /\ finAsData = [h \in Host |-> FALSE]

-----------------------------------------------------------------------------
(* The RX engine. *)

Arrivals(h) == IF Reorder /\ \A i \in DOMAIN net[h] : ~net[h][i].fin THEN DOMAIN net[h] ELSE {1} \cap DOMAIN net[h]

(* A port is open when the application listens on it or, for an ephemeral  *)
(* one, while this host's own connection uses it.                          *)
PortOpen(h) == h \in Listening \/ (h \in Opener /\ sessions[h])

MayCreate(m) == m.syn /\ ~m.rst /\ ~m.fin

(* rxMetadataHandler, port closed: everything but a RST is answered by a   *)
(* RST that belongs to no session.                                         *)
RxRefuse(h, i) ==
    /\ i \in Arrivals(h) /\ fsm[h] = <<>> /\ ~PortOpen(h)
    /\ Len(rxEvents[h]) < MaxEvents
    /\ LET m == net[h][i]
       IN  rxEvents' = IF m.rst THEN rxEvents
                       ELSE [rxEvents EXCEPT ![h] = Append(@, rstEvent(
                                S(m.seqNumb + m.length + IF m.syn \/ m.fin THEN 1 ELSE 0), FALSE))]
    /\ net' = [net EXCEPT ![h] = RemoveAt(@, i)]
    /\ UNCHANGED <<tables, timers, timerEvents, appEvents, ackDelayed, session, app,
                   data, ghost, fsm>>

(* No session and none may be created: the segment disappears. *)
RxMiss(h, i) ==
    /\ i \in Arrivals(h) /\ fsm[h] = <<>> /\ PortOpen(h)
    /\ ~sessions[h] /\ ~MayCreate(net[h][i])
    /\ net' = [net EXCEPT ![h] = RemoveAt(@, i)]
    /\ UNCHANGED <<tables, timers, events, session, app, data, ghost, fsm>>

(* The state table serves the RX engine and the close requests one at a     *)
(* time: whoever reads a session's state locks it until it writes it back.  *)
RxMayLock(h) == locked[h] # "tx"
CloseMayLock(h) == locked[h] = "none"

(* LOAD: look the session up or create it, lock its state and read the      *)
(* tables.                                                                 *)
RxLoad(h, i) ==
    /\ i \in Arrivals(h) /\ fsm[h] = <<>> /\ PortOpen(h)
    /\ sessions[h] \/ MayCreate(net[h][i])
    /\ RxMayLock(h)
    /\ sessions' = [sessions EXCEPT ![h] = TRUE]
    /\ locked' = [locked EXCEPT ![h] = "rx"]
    /\ fsm' = [fsm EXCEPT ![h] = [m |-> net[h][i], tcpState |-> state_table[h],
                                  rxSar |-> rx_table[h], txSar |-> rxTxSarReply(tx_table[h])]]
    /\ net' = [net EXCEPT ![h] = RemoveAt(@, i)]
    /\ UNCHANGED <<tables, timers, events, state_table, released, app, data, ghost>>

(* txSar is not read for a segment without ACK: the register's cong_window *)
(* and nextByte are then arbitrary.                                        *)
RegisterTxSar(f) ==
    IF f.m.ack THEN {f.txSar}
    ELSE {[f.txSar EXCEPT !.cong_window = c, !.nextByte = n] :
            c \in IF f.m.syn THEN {0, CongInit} ELSE {0},
            n \in IF f.m.rst THEN {f.m.ackNumb, S(f.m.ackNumb + 1)} ELSE {f.m.ackNumb}}

(* A probe timer that is cleared while active asks for a retransmission of  *)
(* what is left, as one that expires does.                                 *)
ClearProbe(h) ==
    IF probeTimer[h] /\ Len(timerEvents[h]) < MaxEvents
    THEN /\ probeTimer' = [probeTimer EXCEPT ![h] = FALSE]
         /\ timerEvents' = [timerEvents EXCEPT ![h] = Append(@, event("RT", 0))]
    ELSE UNCHANGED <<probeTimer, timerEvents>>

(* TRANSITION: every write of the state machine, and the release of the    *)
(* lock.  The payload enters the RX buffer unless it is dropped.           *)
RxTransition(h) ==
    /\ fsm[h] # <<>> /\ Len(rxEvents[h]) < MaxEvents
    /\ \E txSar \in RegisterTxSar(fsm[h]) :
         LET f == fsm[h]
             e == Transition(f.m, f.tcpState, f.rxSar, txSar, Len(rxBuffer[h]) < RxRoom)
         IN  /\ state_table' = [state_table EXCEPT ![h] = e.state]
             /\ sessions' = [sessions EXCEPT ![h] = @ /\ e.state # "CLOSED"]
             /\ rx_table' = [rx_table EXCEPT ![h] = FoldLeft(RxSarWrite, @, e.rxSar)]
             /\ tx_table' = [tx_table EXCEPT ![h] = FoldLeft(TxSarRxWrite, @, e.txSar)]
             /\ IF e.txSar = <<>> THEN UNCHANGED app_table
                ELSE LET q == e.txSar[1]
                         shift == IF q.init THEN q.win_shift ELSE tx_table[h].win_shift
                     IN  \E w \in MinWindows(q.cong_window, q.recv_window, shift) :
                           app_table' = [app_table EXCEPT ![h] = AckPush(@, q.ackd, w)]
             /\ retransmitTimer' = [retransmitTimer EXCEPT ![h] = FoldLeft(RtClear, @, e.rt)]
             /\ blindStop' = (blindStop \/ (e.rt = <<TRUE>> /\ ~f.m.rst
                                            /\ tx_table'[h].ackd # tx_table[h].not_ackd))
             /\ IF e.probe THEN ClearProbe(h) ELSE UNCHANGED <<probeTimer, timerEvents>>
             /\ closeTimer' = [closeTimer EXCEPT ![h] = @ \/ e.close]
             /\ answers' = [answers EXCEPT ![h] = @ \o e.open]
             /\ rxEvents' = [rxEvents EXCEPT ![h] = @ \o e.event]
             /\ told' = [told EXCEPT ![h] = @ \/ \E n \in ToSet(e.notify) : n.closed]
             /\ rxBuffer' = [rxBuffer EXCEPT ![h] =
                               IF e.drop = <<FALSE>> THEN Append(@, f.m.data) ELSE @]
    /\ locked' = [locked EXCEPT ![h] = "none"]
    /\ fsm' = [fsm EXCEPT ![h] = <<>>]
    /\ UNCHANGED <<released, appEvents, ackDelayed, closing, closed, written,
                   delivered, opens, bypass, txBuffer, faults, finAsData, net>>

-----------------------------------------------------------------------------
(* The TX engine.  The payload of a segment: the next bytes of the bypass  *)
(* stream, or what the TX buffer holds now.                                *)
Payload(h, seg) ==
    CASE seg.from = "bypass" -> SubSeq(bypass[h], 1, seg.length)
      [] seg.from = "memory" -> [i \in 1..seg.length |-> txBuffer[h][W(seg.addr + i - 1)]]
      [] seg.from = "none"   -> <<>>

OnTheWire(h, seg) ==
    [ack |-> seg.ack, syn |-> seg.syn, fin |-> seg.fin, rst |-> seg.rst,
     seqNumb |-> seg.seqNumb, ackNumb |-> seg.ackNumb, winSize |-> seg.winSize,
     winScale |-> seg.winScale, length |-> seg.length, data |-> Payload(h, seg)]

(* metaLoader takes an event, reads the tables for it and sends.  Nobody   *)
(* else writes not_ackd, so that load and send are one step.               *)
MetaLoad(h, ev) ==
    LET e == Send(ev, RxSarReply(rx_table[h]), txTxSarReply(tx_table[h]), ISN[h])
        inits == SelectSeq(e.writes, LAMBDA q : q.init)
    IN  /\ Len(net[Peer(h)]) + Len(e.segs) <= MaxNet
        /\ net' = [net EXCEPT ![Peer(h)] =
                     @ \o [i \in DOMAIN e.segs |-> OnTheWire(h, e.segs[i])]]
        /\ bypass' = [bypass EXCEPT ![h] =
                        IF ev.type = "TX" THEN SubSeq(@, ev.length + 1, Len(@)) ELSE @]
        /\ tx_table' = [tx_table EXCEPT ![h] = FoldLeft(TxSarTxWrite, @, e.writes)]
        /\ app_table' = [app_table EXCEPT ![h] =
                           IF inits # <<>> THEN AckPushInit(inits[1].not_ackd) ELSE @]
        /\ retransmitTimer' = [retransmitTimer EXCEPT ![h] = FoldLeft(RtSet, @, e.rt)]
        /\ probeTimer' = [probeTimer EXCEPT ![h] = @ \/ e.probe]
        /\ finAsData' = [finAsData EXCEPT ![h] =
                           @ \/ (ev.type = "RT" /\ tx_table[h].finSent /\ e.segs # <<>>)]

(* ack_delay, in front of the TX engine: the first ACK waits, every other  *)
(* event goes out and takes a waiting acknowledgement with it.             *)
AckDelay(h, ev) ==
    IF ev.type = "ACK" /\ ~ackDelayed[h]
    THEN /\ ackDelayed' = [ackDelayed EXCEPT ![h] = TRUE]
         /\ UNCHANGED <<net, bypass, tx_table, app_table, retransmitTimer, probeTimer, finAsData>>
    ELSE /\ ackDelayed' = [ackDelayed EXCEPT ![h] = FALSE]
         /\ MetaLoad(h, ev)

(* The event engine: events of the RX engine first, then those of the      *)
(* timers and of the application, which wait until everything before them  *)
(* has been taken.                                                         *)
EventEngine(h) ==
    /\ CASE rxEvents[h] # <<>> ->
              /\ AckDelay(h, Head(rxEvents[h]))
              /\ rxEvents' = [rxEvents EXCEPT ![h] = Tail(@)]
              /\ UNCHANGED <<timerEvents, appEvents>>
         [] rxEvents[h] = <<>> /\ timerEvents[h] # <<>> ->
              /\ AckDelay(h, Head(timerEvents[h]))
              /\ timerEvents' = [timerEvents EXCEPT ![h] = Tail(@)]
              /\ UNCHANGED <<rxEvents, appEvents>>
         [] rxEvents[h] = <<>> /\ timerEvents[h] = <<>> /\ appEvents[h] # <<>> ->
              /\ AckDelay(h, Head(appEvents[h]))
              /\ appEvents' = [appEvents EXCEPT ![h] = Tail(@)]
              /\ UNCHANGED <<rxEvents, timerEvents>>
         [] OTHER -> FALSE
    /\ UNCHANGED <<rx_table, closeTimer, session, app, txBuffer, rxBuffer, faults,
                   blindStop, fsm>>

(* The engine's own FIFOs have drained: intervals are longer than that.    *)
Idle(h) ==
    /\ fsm[h] = <<>> /\ closing[h] = <<>> /\ released[h] = 0
    /\ \A queue \in {rxEvents, timerEvents, appEvents} : queue[h] = <<>>

AckDelayExpires(h) ==
    /\ ackDelayed[h] /\ Idle(h)
    /\ ackDelayed' = [ackDelayed EXCEPT ![h] = FALSE]
    /\ MetaLoad(h, event("ACK", 0))
    /\ UNCHANGED <<rx_table, closeTimer, rxEvents, timerEvents, appEvents, session, app, txBuffer,
                   rxBuffer, faults, blindStop, fsm>>

-----------------------------------------------------------------------------
(* The timers.  The state table applies a release once nobody holds the    *)
(* lock, and the session lookup forgets the session.                       *)

(* Intervals are also longer than a round trip, except that the network    *)
(* may delay segments of an established connection.                        *)
Quiet == \A h \in Host : Idle(h) /\ net[h] = <<>> /\ ~ackDelayed[h]

Expires(h) ==
    /\ Idle(h) /\ (Quiet \/ (faults < Faults /\ \A g \in Host : state_table[g] = "ESTABLISHED"))
    /\ faults' = IF Quiet THEN faults ELSE faults + 1

RetransmitExpires(h) ==
    /\ retransmitTimer[h].active /\ Expires(h)
    /\ IF retransmitTimer[h].retries < MaxRetries
       THEN LET n == retransmitTimer[h].retries + 1
            IN  /\ retransmitTimer' = [retransmitTimer EXCEPT ![h].active = FALSE, ![h].retries = n]
                /\ timerEvents' = [timerEvents EXCEPT ![h] =
                                     Append(@, event(retransmitTimer[h].type, n))]
                /\ UNCHANGED <<released, answers, told>>
       ELSE /\ retransmitTimer' = [retransmitTimer EXCEPT ![h].active = FALSE, ![h].retries = 0]
            /\ released' = [released EXCEPT ![h] = @ + 1]
            /\ IF retransmitTimer[h].type = "SYN"
               THEN answers' = [answers EXCEPT ![h] = Append(@, FALSE)] /\ UNCHANGED told
               ELSE told' = [told EXCEPT ![h] = TRUE] /\ UNCHANGED answers
            /\ UNCHANGED timerEvents
    /\ UNCHANGED <<tables, probeTimer, closeTimer, rxEvents, appEvents, ackDelayed,
                   sessions, state_table, locked, closing, closed, written, delivered,
                   opens, data, blindStop, finAsData, fsm, net>>

ProbeExpires(h) ==
    /\ probeTimer[h] /\ Expires(h)
    /\ probeTimer' = [probeTimer EXCEPT ![h] = FALSE]
    /\ timerEvents' = [timerEvents EXCEPT ![h] = Append(@, event("RT", 0))]
    /\ UNCHANGED <<tables, retransmitTimer, closeTimer, rxEvents, appEvents, ackDelayed,
                   session, app, data, blindStop, finAsData, fsm, net>>

CloseExpires(h) ==
    /\ closeTimer[h] /\ Expires(h)
    /\ closeTimer' = [closeTimer EXCEPT ![h] = FALSE]
    /\ released' = [released EXCEPT ![h] = @ + 1]
    /\ UNCHANGED <<tables, retransmitTimer, probeTimer, events, sessions, state_table, locked, app, data, blindStop, finAsData, fsm, net>>

ReleaseState(h) ==
    /\ released[h] > 0 /\ locked[h] = "none"
    /\ released' = [released EXCEPT ![h] = @ - 1]
    /\ state_table' = [state_table EXCEPT ![h] = "CLOSED"]
    /\ sessions' = [sessions EXCEPT ![h] = FALSE]
    /\ UNCHANGED <<tables, timers, events, locked, app, data, ghost, fsm, net>>

-----------------------------------------------------------------------------
(* The application. *)

(* An open request: a session is created for the tuple and the SYN sent. *)
AppOpen(h) ==
    /\ h \in Opener /\ opens[h] < MaxOpens /\ Len(answers[h]) = opens[h]
    /\ ~sessions[h] /\ locked[h] # "rx" /\ Len(appEvents[h]) < MaxEvents
    /\ opens' = [opens EXCEPT ![h] = @ + 1]
    /\ sessions' = [sessions EXCEPT ![h] = TRUE]
    /\ state_table' = [state_table EXCEPT ![h] = "SYN_SENT"]
    /\ appEvents' = [appEvents EXCEPT ![h] = Append(@, event("SYN", 0))]
    /\ UNCHANGED <<tables, timers, rxEvents, timerEvents, ackDelayed, locked, released, closing, closed, written, delivered, answers, told, data, ghost, fsm, net>>

(* A close request, once the application knows the session from an answer   *)
(* or a notification: read the state under the lock, then write it back.   *)
KnowsSession(h) == TRUE \in ToSet(answers[h]) \/ delivered[h] # <<>> \/ told[h]

AppClose(h) ==
    /\ h \in Closer /\ ~closed[h] /\ KnowsSession(h) /\ CloseMayLock(h)
    /\ written[h] = TotalBytes[h]
    /\ closed' = [closed EXCEPT ![h] = TRUE]
    /\ closing' = [closing EXCEPT ![h] = <<state_table[h]>>]
    /\ locked' = [locked EXCEPT ![h] = "tx"]
    /\ UNCHANGED <<tables, timers, events, sessions, state_table, released,
                   written, delivered, opens, answers, told, data, ghost, fsm, net>>

CloseConn(h) ==
    /\ closing[h] # <<>> /\ Len(appEvents[h]) < MaxEvents
    /\ IF closing[h][1] \in {"ESTABLISHED", "FIN_WAIT_2", "FIN_WAIT_1"}
       THEN /\ state_table' = [state_table EXCEPT ![h] = "FIN_WAIT_1"]
            /\ appEvents' = [appEvents EXCEPT ![h] = Append(@, event("FIN", 0))]
       ELSE /\ state_table' = [state_table EXCEPT ![h] = closing[h][1]]
            /\ UNCHANGED appEvents
    /\ closing' = [closing EXCEPT ![h] = <<>>]
    /\ locked' = [locked EXCEPT ![h] = "none"]
    /\ UNCHANGED <<tables, timers, rxEvents, timerEvents, ackDelayed, sessions, released, closed, written, delivered, opens, answers, told, data, ghost, fsm, net>>

MaxWriteLength(sar) == W(sar.ackd - sar.mempt - 1)

UsableWindow(sar) ==
    LET used == W(sar.mempt - sar.ackd)
    IN  IF sar.min_window > used THEN sar.min_window - used ELSE 0

Granted(h, length) ==
    /\ state_table[h] = "ESTABLISHED"
    /\ ~(length > MaxWriteLength(app_table[h]) \/ UsableWindow(app_table[h]) < length)

(* A write that is granted takes the application's bytes into the TX       *)
(* buffer and the bypass stream and asks for their transmission; one that  *)
(* is refused changes nothing.                                             *)
AppWrite(h, length) ==
    /\ written[h] + length <= TotalBytes[h] /\ Granted(h, length)
    /\ Len(appEvents[h]) < MaxEvents
    /\ LET mempt == app_table[h].mempt
           new == [i \in 1..length |-> written[h] + i]
       IN  /\ written' = [written EXCEPT ![h] = @ + length]
           /\ bypass' = [bypass EXCEPT ![h] = @ \o new]
           /\ txBuffer' = [txBuffer EXCEPT ![h] =
                [a \in Window |-> LET i == W(a - mempt) + 1
                                  IN  IF i <= length THEN new[i] ELSE @[a]]]
           /\ app_table' = [app_table EXCEPT ![h].mempt = W(mempt + length)]
           /\ appEvents' = [appEvents EXCEPT ![h] = Append(@, txEvent(length))]
    /\ UNCHANGED <<rx_table, tx_table, timers, rxEvents, timerEvents, ackDelayed,
                   session, closing, closed, delivered, opens, answers, told, rxBuffer, ghost, fsm,
                   net>>

(* The application reads what it was notified of, packet by packet, and    *)
(* its pointer moves.                                                      *)
AppRead(h) ==
    /\ rxBuffer[h] # <<>>
    /\ delivered' = [delivered EXCEPT ![h] = @ \o Head(rxBuffer[h])]
    /\ rx_table' = [rx_table EXCEPT ![h].appd = W(@ + Len(Head(rxBuffer[h])))]
    /\ rxBuffer' = [rxBuffer EXCEPT ![h] = Tail(@)]
    /\ UNCHANGED <<tx_table, app_table, timers, events, session, closing, closed, written, opens,
                   answers, told, bypass, txBuffer, ghost, fsm, net>>

-----------------------------------------------------------------------------
(* The network. *)

Unreliable == CalmClose => \A g \in Host : ~closed[g]

Lose(h, i) ==
    /\ i \in DOMAIN net[h] /\ faults < Faults /\ Unreliable
    /\ faults' = faults + 1
    /\ net' = [net EXCEPT ![h] = RemoveAt(@, i)]
    /\ UNCHANGED <<tables, timers, events, session, app, data, blindStop, finAsData, fsm>>

Repeat(h, i) ==
    /\ i \in DOMAIN net[h] /\ faults < Faults /\ Len(net[h]) < MaxNet /\ Unreliable
    /\ faults' = faults + 1
    /\ net' = [net EXCEPT ![h] = Append(@, @[i])]
    /\ UNCHANGED <<tables, timers, events, session, app, data, blindStop, finAsData, fsm>>

-----------------------------------------------------------------------------
RxEngine(h) ==
    \/ \E i \in 1..MaxNet : RxRefuse(h, i) \/ RxMiss(h, i) \/ RxLoad(h, i)
    \/ RxTransition(h)

TxEngine(h) == EventEngine(h) \/ AckDelayExpires(h)

Timers(h) == RetransmitExpires(h) \/ ProbeExpires(h) \/ CloseExpires(h)

Engine(h) == RxEngine(h) \/ TxEngine(h) \/ Timers(h) \/ ReleaseState(h) \/ CloseConn(h)

Application(h) ==
    \/ AppOpen(h) \/ AppClose(h) \/ AppRead(h)
    \/ \E length \in WriteLength : AppWrite(h, length)

Network == \E h \in Host, i \in 1..MaxNet : Lose(h, i) \/ Repeat(h, i)

Next == Network \/ \E h \in Host : Engine(h) \/ Application(h)
-----------------------------------------------------------------------------
(* Every process of an engine runs in every cycle and the application      *)
(* reads what it is notified of, so that something happens as long as an   *)
(* engine or a reader can go on.  The network need not lose or repeat       *)
(* anything, and the applications need not open, write or close.           *)
Progress == \E h \in Host : Engine(h) \/ AppRead(h)

Spec == Init /\ [][Next]_vars /\ WF_vars(Progress)

-----------------------------------------------------------------------------
(* What an application reads is what the other one was granted, in order   *)
(* and from the first byte on, whatever the network did to the segments     *)
(* (rxTcpFSM takes payload only at recvd); only the retransmission of a FIN *)
(* adds to it.                                                             *)
DeliveredInOrder ==
    \A h \in Host : \A i \in DOMAIN delivered[h] :
        IF i <= written[Peer(h)] THEN delivered[h][i] = i ELSE finAsData[Peer(h)]

(* Nothing is delivered that was not written: a FIN takes a sequence number *)
(* and is not payload.                                                     *)
NothingInvented == \A h \in Host : Len(delivered[h]) <= written[Peer(h)]

Synchronized(h) == state_table[h] \in {"ESTABLISHED", "FIN_WAIT_1", "FIN_WAIT_2", "CLOSING",
                                       "LAST_ACK"}

(* The application's byte that has sequence number seq: the first one has   *)
(* ISN + 1.                                                                *)
ByteAt(h, seq) == S(seq - ISN[h] - 1) + 1

Unacknowledged(h) ==
    {S(tx_table[h].ackd + k) : k \in 0..W(tx_table[h].not_ackd - tx_table[h].ackd) - 1}

(* What has been sent and not acknowledged is in the TX buffer at the       *)
(* address a retransmission reads (the low bits of its number): the write   *)
(* pointer of tx_app_table and the numbers of tx_sar_table, which advance in *)
(* different processes, stay in step, and no write overwrites such a byte.  *)
UnacknowledgedKept ==
    \A h \in Host : Synchronized(h) =>
        \A seq \in Unacknowledged(h) :
            ByteAt(h, seq) <= written[h] => txBuffer[h][W(seq)] = ByteAt(h, seq)

Counted(h, seq) == S(seq - ISN[h])

(* One engine's ackd, the other's recvd and the first one's not_ackd, counted *)
(* from the SYN on, are in that order: nothing counts as acknowledged that  *)
(* was not received, nor as received that was not sent.                    *)
AcknowledgedReceivedSent ==
    \A h \in Host : Synchronized(h) /\ Synchronized(Peer(h)) =>
        LET received == Counted(h, rx_table[Peer(h)].recvd)
        IN  /\ Counted(h, tx_table[h].ackd) <= received
            /\ received <= Counted(h, tx_table[h].not_ackd)

(* The two ways in which this engine is known to lose track: see README. *)
Disturbed == blindStop \/ \E h \in Host : finAsData[h]

Outstanding(h) == tx_table[h].ackd # tx_table[h].not_ackd

(* Whenever the engines have come to rest with bytes of an established      *)
(* connection unacknowledged, the retransmit timer is running: set, cleared *)
(* and expiry never leave a lost segment without anybody to repeat it.      *)
OutstandingIsTimed ==
    Quiet => \A h \in Host : state_table[h] = "ESTABLISHED" /\ Outstanding(h) =>
                retransmitTimer[h].active \/ Disturbed

(* Nothing is under way, waits in a FIFO or will expire. *)
AtRest ==
    /\ Quiet
    /\ \A h \in Host : /\ rxBuffer[h] = <<>>
                       /\ ~retransmitTimer[h].active /\ ~probeTimer[h] /\ ~closeTimer[h]

(* When everything is at rest, every open request has been answered, every  *)
(* granted byte has been delivered or an application was told that the      *)
(* connection is gone, and a closed session has been released.             *)
NothingForgotten ==
    AtRest => \A h \in Host :
        /\ opens[h] > 0 => answers[h] # <<>>
        /\ \/ Len(delivered[Peer(h)]) >= written[h]
           \/ told[h] \/ told[Peer(h)] \/ Disturbed
        /\ closed[h] => ~sessions[h] \/ Disturbed

(* Every open request is answered in the end: by the SYN_ACK, by a RST or   *)
(* by the retransmit timer when the SYN has been repeated often enough.     *)
EveryOpenAnswered == \A h \in Host : opens[h] = 1 ~> answers[h] # <<>>

(* A session its application closes is released in the end, whichever side  *)
(* closes first and also when both do.                                     *)
ClosedReleased == \A h \in Host : closed[h] ~> ~sessions[h] \/ Disturbed
=============================================================================
