------------------------------ MODULE ToeWords ------------------------------
(***************************************************************************)
(* The word pipelines of the TCP offload engine: the segments the transmit *)
(* engine builds (tx_engine.cpp), the segments the receive engine takes    *)
(* apart (rx_engine.cpp), and the transmit buffer between the application  *)
(* and the transmit engine, where a write or a read that crosses the end   *)
(* of a session's buffer is broken in two (tx_app_stream_if.cpp,           *)
(* tx_engine.cpp).                                                         *)
(***************************************************************************)
EXTENDS IpWords

CONSTANT BUFFER_SIZE    \* units of a session's buffer

TCP_HEADER_SIZE == 2
TCP_PSEUDO_HEADER_SIZE == 1
TCP_FULL_PSEUDO_HEADER_SIZE == TCP_PSEUDO_HEADER_SIZE + TCP_HEADER_SIZE

tcpPseudoHeader(src, dst, length) == <<[k |-> "pseudo", src |-> src, dst |-> dst, len |-> length]>>

\* off counts the units of options behind the header.
tcpHeader(m, t) ==
    <<[k |-> "tcp", sp |-> t.sp, dp |-> t.dp, seq |-> m.seq, syn |-> m.syn,
       off |-> IF ~m.syn THEN 0 ELSE IF m.winShift # 0 THEN 2 ELSE 1],
      [k |-> "sum", v |-> 0]>>

\* A unit of options holds the maximum segment size, or the window scale
\* and the end of the list; a segment of options counts as data in length.
MssOption == [k |-> "opt", v |-> 2, opts |-> <<[kind |-> "mss", len |-> 4]>>]
ScaleOption(n) == [k |-> "opt", v |-> n,
                   opts |-> <<[kind |-> "ws", len |-> 3, shift |-> n], [kind |-> "eol", len |-> 1]>>]

-----------------------------------------------------------------------------
(* The transmit engine: a segment is described by m = [len, seq, syn,      *)
(* winShift] and the tuple t = [src, dst, sp, dp].                         *)

\* A looked-up tuple or, for a reset without a session, the one that came
\* with the event.
tupleSplitter(isLookUp, looked, shortCut) == IF isLookUp THEN looked ELSE shortCut

\* The data comes from the application directly or from the buffer.
read_data_arbiter(isBypass, buffered, direct) == IF isBypass THEN direct ELSE buffered

HasBody(m) == m.len # 0 /\ ~m.syn

pseudoHeaderConstructionNew(s, m, t, ws) ==
    LET header == tcpPseudoHeader(t.src, t.dst, m.len + TCP_HEADER_SIZE) \o tcpHeader(m, t)
        options == IF ~m.syn THEN <<>>
                   ELSE IF m.winShift # 0 THEN <<MssOption, ScaleOption(m.winShift)>> ELSE <<MssOption>>
    IN  IF HasBody(m) THEN Insert(s, <<header>>, ws)
        ELSE [s EXCEPT !.out = <<[data |-> header \o options, last |-> TRUE]>>]

\* Takes a whole word off only where the pseudo header fills one.
remove_pseudo_header(ws) == ws

ChecksumUnit == 2
insert_checksum(s, checksums, ws) ==
    Decide(LAMBDA c, w : [w EXCEPT !.data[ChecksumUnit] = [k |-> "sum", v |-> c]], LAMBDA c : TRUE,
           s, checksums, ws)

generate_ipv4(s, metas, tuples, ws) ==
    Insert(s, [i \in 1..Len(metas) |-> ipv4Header(tuples[i].src, tuples[i].dst, TCP,
                                                  metas[i].len + IPV4_HEADER_SIZE + TCP_HEADER_SIZE)], ws)

TxEngineStages == <<"txShift", "txPseudo", "txSums", "txCut", "txSum", "txIpShift", "txIp">>

\* The words of one segment, with the data words ws.
tx_engine(q, n, m, t, ws) ==
    CASE n = "txShift"   -> lshiftWordByOctet(TCP_FULL_PSEUDO_HEADER_SIZE, q.txShift, ws)
      [] n = "txPseudo"  -> pseudoHeaderConstructionNew(q.txPseudo, m, t, q.txShift.out)
      [] n = "txSums"    -> two_complement_subchecksums(q.txSums, q.txPseudo.out)
      [] n = "txCut"     -> rshiftWordByOctet(TCP_PSEUDO_HEADER_SIZE, q.txCut, remove_pseudo_header(q.txSums.out))
      [] n = "txSum"     -> insert_checksum(q.txSum, Each(finalize_ipv4_checksum, q.txSums.meta), q.txCut.out)
      [] n = "txIpShift" -> lshiftWordByOctet(IPV4_HEADER_SIZE, q.txIpShift, q.txSum.out)
      [] n = "txIp"      -> generate_ipv4(q.txIp, <<m>>, <<t>>, q.txIpShift.out)

-----------------------------------------------------------------------------
(* The receive engine                                                      *)

toe_process_ipv4(s, ws) ==
    Parse(LAMBDA data : [ihl |-> data[1].ihl, src |-> data[1].src, dst |-> data[1].dst,
                         len |-> data[1].len - data[1].ihl], s, ws)

constructPseudoHeader(meta) == tcpPseudoHeader(meta.src, meta.dst, meta.len)

prependPseudoHeader(s, headers, ws) == Insert(s, headers, ws)

\* What the engine learns of an intact segment; nothing is written of one
\* whose checksum is wrong.  The words go on if options or data are in them.
HeaderMeta(data) ==
    [len |-> data[1].len - TCP_HEADER_SIZE - data[2].off, off |-> data[2].off, syn |-> data[2].syn,
     seq |-> data[2].seq,
     t |-> [src |-> data[1].src, dst |-> data[1].dst, sp |-> data[2].sp, dp |-> data[2].dp]]

HasMore(meta) == meta.len # 0 \/ meta.off > 0

PseudoHeaderWord(s, w) ==
    IF ~s.on /\ s.dec = <<>> THEN [s EXCEPT !.held = Append(@, w)]
    ELSE LET valid == Head(s.dec)
             meta  == HeaderMeta(w.data)
             fwd   == IF s.on THEN s.cur[1] ELSE valid /\ HasMore(meta)
         IN  [s EXCEPT !.on = ~w.last,
                       !.cur = IF w.last THEN <<>> ELSE <<fwd>>,
                       !.dec = IF s.on THEN @ ELSE Tail(@),
                       !.meta = IF ~s.on /\ valid THEN Append(@, meta) ELSE @,
                       !.out = IF fwd THEN Append(@, w) ELSE @]

processPseudoHeader(s, flags, ws) == Feed(PseudoHeaderWord, s, flags, ws)

\* Takes the options off in front of the data; those of a SYN are parsed.
\* cur holds the length of the options and the previous word.
DropOptionsWord(s, w) ==
    IF ~s.on /\ s.dec = <<>> THEN [s EXCEPT !.held = Append(@, w)]
    ELSE LET off  == IF s.on THEN s.cur[1] ELSE Head(s.dec).off
             send == [data |-> alignWords(off, s.cur[2], w.data), last |-> LastFits(Len(w.data), off)]
             rest == [data |-> After(w.data, off), last |-> TRUE]
         IN  [s EXCEPT !.on = ~w.last,
                       !.cur = IF w.last THEN <<>> ELSE <<off, w.data>>,
                       !.dec = IF s.on THEN @ ELSE Tail(@),
                       !.meta = IF ~s.on /\ off # 0 /\ Head(s.dec).syn
                                THEN Append(@, [off |-> off, fields |-> Upto(w.data, off)]) ELSE @,
                       !.out = IF off = 0 THEN Append(@, w)
                               ELSE @ \o (IF s.on THEN <<send>> ELSE <<>>)
                                      \o (IF w.last /\ Len(w.data) > off THEN <<rest>> ELSE <<>>)]

drop_optional_header_fields(s, metas, ws) == Feed(DropOptionsWord, s, metas, ws)

\* One option at a time.  dataOffset counts words of four bytes and an
\* option's length counts bytes; they are compared and subtracted all the
\* same, modulo the four bits of dataOffset.
ParseOption(a, o) ==
    CASE a.done -> a
      [] o.kind = "eol" -> [a EXCEPT !.done = TRUE]
      [] o.kind = "ws" -> [a EXCEPT !.done = TRUE, !.scale = o.shift]
      [] o.kind = "nop" -> [a EXCEPT !.dataOffset = (@ - 1) % 16]
      [] OTHER -> [a EXCEPT !.done = a.dataOffset = o.len, !.dataOffset = (@ - o.len) % 16]

parse_optional_header_fields(dataOffset, fields) ==
    FoldLeft(ParseOption, [dataOffset |-> dataOffset, done |-> FALSE, scale |-> 0],
             FoldLeft(LAMBDA s, u : s \o u.opts, <<>>, fields)).scale

\* The metadata of a SYN with options waits for its window scale.
merge_header_meta(scales, meta) ==
    [len |-> meta.len, syn |-> meta.syn, seq |-> meta.seq, t |-> meta.t,
     winScale |-> IF meta.syn /\ meta.off > 0 THEN scales[1] ELSE 0]

\* Data the metadata handler or the state machine turned down is dropped.
rxPackageDropper(s, drops, ws) == pass_valid_pkg(s, Each(LAMBDA d : ~(d.handler \/ d.fsm), drops), ws)

RxEngineStages == <<"rxIp", "rxDrop", "rxShift", "rxPrepend", "rxSums", "rxPseudo", "rxCut", "rxOpts", "rxKeep">>

RxMetas(q) ==
    LET scales == Each(LAMBDA o : parse_optional_header_fields(o.off, o.fields), q.rxOpts.meta)
    IN  Each(LAMBDA m : merge_header_meta(scales, m), q.rxPseudo.meta)

\* The IP packets ws to metadata and data.  decision is how the metadata
\* handler and the state machine decide about a segment with data.
rx_engine(q, n, ws, decision) ==
    CASE n = "rxIp"      -> toe_process_ipv4(q.rxIp, ws)
      [] n = "rxDrop"    -> drop_optional_ip_header(q.rxDrop, Each(LAMBDA m : m.ihl, q.rxIp.meta), q.rxIp.out)
      [] n = "rxShift"   -> lshiftWordByOctet(TCP_PSEUDO_HEADER_SIZE, q.rxShift, q.rxDrop.out)
      [] n = "rxPrepend" -> prependPseudoHeader(q.rxPrepend, Each(constructPseudoHeader, q.rxIp.meta), q.rxShift.out)
      [] n = "rxSums"    -> two_complement_subchecksums(q.rxSums, q.rxPrepend.out)
      [] n = "rxPseudo"  -> processPseudoHeader(q.rxPseudo, Each(toe_check_ipv4_checksum, q.rxSums.meta), q.rxSums.out)
      [] n = "rxCut"     -> rshiftWordByOctet(TCP_FULL_PSEUDO_HEADER_SIZE, q.rxCut, q.rxPseudo.out)
      [] n = "rxOpts"    -> drop_optional_header_fields(q.rxOpts, SelectSeq(q.rxPseudo.meta, HasMore), q.rxCut.out)
      [] n = "rxKeep"    -> rxPackageDropper(q.rxKeep,
                                Each(LAMBDA m : decision, SelectSeq(RxMetas(q), LAMBDA m : m.len # 0)), q.rxOpts.out)

-----------------------------------------------------------------------------
(* The transmit buffer.  A command is [session, addr, len]; memory is a    *)
(* function of <<session, addr>>.                                          *)

Crosses(cmd) == cmd.addr + cmd.len > BUFFER_SIZE

\* The words the application wrote, cut and realigned at the end of the
\* buffer; each write is a command with its words.  The data mover writes
\* as many units as the command says.
tasi_pkg_pusher(cmd, ws) ==
    LET first == BUFFER_SIZE - cmd.addr
        offset == first % W
        n     == (first + W - 1) \div W
        cutWord == [data |-> Upto(ws[n].data, lenToKeep(first)), last |-> TRUE]
        aligned == rshiftWordByOctet(offset, Idle, After(ws, n - 1)).out
    IN  IF ~Crosses(cmd) THEN <<[cmd |-> cmd, words |-> ws]>>
        ELSE <<[cmd |-> [cmd EXCEPT !.len = first], words |-> Append(Upto(ws, n - 1), cutWord)],
               [cmd |-> [cmd EXCEPT !.addr = 0, !.len = @ - first],
                words |-> IF offset = 0 THEN After(ws, n) ELSE aligned]>>

WriteMem(mem, write) ==
    LET us == Upto(Units(write.words), write.cmd.len)
    IN  [a \in DOMAIN mem |->
            IF a[1] = write.cmd.session /\ a[2] - write.cmd.addr \in 0..(Len(us) - 1)
            THEN us[a[2] - write.cmd.addr + 1] ELSE mem[a]]

ReadMem(mem, cmd) == Words([i \in 1..cmd.len |-> mem[<<cmd.session, cmd.addr + i - 1>>]])

\* The second access starts at address 0 of the whole memory, which is in
\* the buffer of session 0.
txEngMemAccessBreakdown(cmd) ==
    LET first == BUFFER_SIZE - cmd.addr
    IN  IF Crosses(cmd)
        THEN <<[cmd EXCEPT !.len = first], [session |-> 0, addr |-> 0, len |-> cmd.len - first]>>
        ELSE <<cmd>>

\* cur holds the units of the last word of the first access.
StitchWord(s, w) ==
    LET room == W - Len(s.cur)
        send == [data |-> s.cur \o Upto(w.data, room), last |-> LastFits(Len(w.data), room)]
        rest == [data |-> After(w.data, room), last |-> TRUE]
    IN  [s EXCEPT !.cur = IF w.last THEN <<>> ELSE After(w.data, room),
                  !.out = @ \o (IF w.last /\ ~send.last THEN <<send, rest>> ELSE <<send>>)]

\* Two accesses are put together; the second one follows aligned when the
\* first one ends with a full word.
read_data_stitching(first, second) ==
    LET l == first[Len(first)]
    IN  IF second = <<>> THEN first
        ELSE IF keepToLen(Len(l.data)) = W
             THEN Upto(first, Len(first) - 1) \o <<[l EXCEPT !.last = FALSE]>> \o second
             ELSE Upto(first, Len(first) - 1)
                  \o Feed(StitchWord, [Idle EXCEPT !.cur = l.data], <<>>, second).out

ReadSegment(mem, cmd) ==
    LET accesses == txEngMemAccessBreakdown(cmd)
    IN  read_data_stitching(ReadMem(mem, accesses[1]),
                            IF Len(accesses) = 2 THEN ReadMem(mem, accesses[2]) ELSE <<>>)
=============================================================================
