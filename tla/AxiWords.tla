------------------------------ MODULE AxiWords ------------------------------
(***************************************************************************)
(* The stream vocabulary of the HLS network stack (axi_utils.hpp,          *)
(* axi_utils.cpp, packet.hpp, ipv4.hpp, two_complement_subchecksums.hpp).  *)
(*                                                                         *)
(* A word of a stream is [data, last]: data is the sequence of the valid   *)
(* units of the word, at most W of them (the keep bits of the code always  *)
(* select a prefix), and last ends a packet.  A unit is a record with a    *)
(* tag k: a payload unit, a unit of a header, or a zero.                   *)
(*                                                                         *)
(* An HLS process reads its streams with a test for emptiness and keeps    *)
(* its state in statics.  The processes of a pipeline are connected by     *)
(* FIFOs with one writer and one reader each, so what a process has        *)
(* written after reading given inputs does not depend on when it was       *)
(* scheduled: a process is a Mealy machine, folded over the words fed to   *)
(* it.  Its state has one shape for all of them:                           *)
(*   on    in the middle of a packet                                       *)
(*   cur   the register it keeps between words (the previous word, or the  *)
(*         decision in force for the packet)                               *)
(*   dec   the per-packet inputs (flags, headers, lengths) not yet read    *)
(*   held  the words not yet read                                          *)
(*   meta  the per-packet outputs written                                  *)
(*   out   the words written                                               *)
(***************************************************************************)
EXTENDS Integers, Sequences, SequencesExt

CONSTANTS W,      \* units of a word
          LANE    \* a checksum lane counts modulo LANE

ASSUME WordAssumption == W \in {4, 8, 16} /\ LANE \in Nat \ {0, 1}

Zero == [k |-> "0"]
Zeros(n) == [i \in 1..n |-> Zero]

\* The first n units of s, and what is behind them.
Upto(s, n)  == SubSeq(s, 1, IF n < Len(s) THEN n ELSE Len(s))
After(s, n) == SubSeq(s, n + 1, Len(s))

\* The words in which the units s travel.
Words(s) ==
    LET n == (Len(s) + W - 1) \div W
    IN  [i \in 1..n |-> [data |-> Upto(After(s, (i - 1) * W), W), last |-> i = n]]

\* The units that the words ws carry.
Units(ws) == FoldLeft(LAMBDA s, w : s \o w.data, <<>>, ws)

-----------------------------------------------------------------------------
(* Valid bytes and their number: a length has as many bits as it takes to  *)
(* count to W - 1, so that a full word has the length 0.                   *)

lenToKeep(length) == IF length % W = 0 THEN W ELSE length % W

keepToLen(keep) == keep

\* Two words with the first offset units of the earlier one cut off.
alignWords(offset, prevWord, currWord) == After(prevWord, offset) \o Upto(currWord, offset)

-----------------------------------------------------------------------------
(* The shapes of a process.                                                *)

Idle == [on |-> FALSE, cur |-> <<>>, dec |-> <<>>, held |-> <<>>, meta |-> <<>>, out |-> <<>>]

\* The state that is left once the outputs are taken.
Rest(s) == [s EXCEPT !.meta = <<>>, !.out = <<>>]

Feed(Step(_, _), s, ds, ws) ==
    FoldLeft(Step, [Rest(s) EXCEPT !.dec = @ \o ds, !.held = <<>>], s.held \o ws)

\* A core is its processes in the order of the streams between them: each
\* one works on what those before it have written.
RunStages(Process(_, _), q, stages) == FoldLeft(LAMBDA a, n : [a EXCEPT ![n] = Process(a, n)], q, stages)

\* packetHeader: the header is in the first word of a packet (every header
\* is shorter than a word), is parsed once and cleared with the last word.
parseWord(header, s, w) ==
    [s EXCEPT !.on = ~w.last,
              !.meta = IF s.on THEN @ ELSE Append(@, header),
              !.out = Append(@, w)]

Parse(Meta(_), s, ws) == Feed(LAMBDA a, w : parseWord(Meta(w.data), a, w), s, <<>>, ws)

\* One decision is read with the first word of a packet and holds for all
\* of its words: the first one leaves as First(d, w), the others as they are.
DecideWord(First(_, _), Pass(_), s, w) ==
    IF ~s.on /\ s.dec = <<>>
    THEN [s EXCEPT !.held = Append(@, w)]
    ELSE LET d == IF s.on THEN s.cur[1] ELSE Head(s.dec)
         IN  [s EXCEPT !.on = ~w.last,
                       !.cur = IF w.last THEN <<>> ELSE <<d>>,
                       !.dec = IF s.on THEN @ ELSE Tail(@),
                       !.out = IF ~Pass(d) THEN @
                               ELSE Append(@, IF s.on THEN w ELSE First(d, w))]

Decide(First(_, _), Pass(_), s, ds, ws) ==
    Feed(LAMBDA a, w : DecideWord(First, Pass, a, w), s, ds, ws)

\* consumeWord: a header takes the place of the first units of a word.
consumeWord(header, w) == [w EXCEPT !.data = header \o After(@, Len(header))]

Insert(s, headers, ws) == Decide(consumeWord, LAMBDA h : TRUE, s, headers, ws)

\* Packets are passed or dropped whole, each with its own flag.
pass_valid_pkg(s, flags, ws) == Decide(LAMBDA f, w : w, LAMBDA f : f, s, flags, ws)

\* Packets of one stream leave through the output their flag names.
stream_pkg_splitter(port, s, dests, ws) ==
    Decide(LAMBDA d, w : w, LAMBDA d : d = port, s, dests, ws)

-----------------------------------------------------------------------------
(* Realignment.  Where the code writes a remainder in a cycle of its own   *)
(* before it reads again, the remainder leaves with the last word.         *)

MutantLastOnEqual(n, offset) == n < offset
LastFits(n, offset) == n <= offset

lshiftWord(offset, s, w) ==
    LET head == IF s.on THEN After(s.cur, W - offset) ELSE Zeros(offset)
        send == [data |-> head \o Upto(w.data, W - offset), last |-> LastFits(Len(w.data), W - offset)]
        rest == [data |-> After(w.data, W - offset), last |-> TRUE]
    IN  [s EXCEPT !.on = ~w.last,
                  !.cur = IF w.last THEN <<>> ELSE w.data,
                  !.out = @ \o (IF w.last /\ ~send.last THEN <<send, rest>> ELSE <<send>>)]

\* Makes room for offset units in front of every packet.
lshiftWordByOctet(offset, s, ws) ==
    IF offset = 0 THEN [Rest(s) EXCEPT !.out = ws]
    ELSE Feed(LAMBDA a, w : lshiftWord(offset, a, w), s, <<>>, ws)

rshiftWord(offset, s, w) ==
    LET send == [data |-> alignWords(offset, s.cur, w.data), last |-> LastFits(Len(w.data), offset)]
        rest == [data |-> After(w.data, offset), last |-> TRUE]
        sent == IF s.on THEN <<send>> ELSE <<>>
    IN  [s EXCEPT !.on = ~w.last,
                  !.cur = IF w.last THEN <<>> ELSE w.data,
                  !.out = @ \o sent \o (IF w.last /\ ~(s.on /\ send.last) THEN <<rest>> ELSE <<>>)]

\* Takes the first offset units off every packet.
rshiftWordByOctet(offset, s, ws) ==
    IF offset = 0 THEN [Rest(s) EXCEPT !.out = ws]
    ELSE Feed(LAMBDA a, w : rshiftWord(offset, a, w), s, <<>>, ws)

\* The copies of the two that other cores instantiate under other names.
udp_lshiftWordByOctet(offset, s, ws) == lshiftWordByOctet(offset, s, ws)
mac_lshiftWordByOctet(offset, s, ws) == lshiftWordByOctet(offset, s, ws)
ipv4_lshiftWordByOctet(offset, s, ws) == lshiftWordByOctet(offset, s, ws)
ip_handler_rshiftWordByOctet(offset, s, ws) == rshiftWordByOctet(offset, s, ws)
udp_rshiftWordByOctet(offset, s, ws) == rshiftWordByOctet(offset, s, ws)

-----------------------------------------------------------------------------
(* The one's complement checksum.  Each lane of a word has an adder of its *)
(* own with one bit to spare; a carry is added back at once.  The lanes    *)
(* are added up by a tree at the end of what is summed.                    *)

Add(a, b) == LET s == a + b IN (s + s \div LANE) % LANE

NoSums == [i \in 1..W |-> 0]

\* What a unit adds to its lane; a header unit counts its fields together.
Value(u) ==
    CASE u.k \in {"p", "sum"} -> u.v
      [] u.k = "ip" -> (u.ihl + u.len + u.proto + u.src + u.dst) % LANE
      [] u.k = "pseudo" -> (u.src + u.dst + u.len) % LANE
      [] u.k = "tcp" -> (u.sp + u.dp + u.seq + u.off + (IF u.syn THEN 1 ELSE 0)) % LANE
      [] u.k = "opt" -> u.v
      [] OTHER -> 0

AddWord(sums, data) ==
    [i \in 1..W |-> IF i <= Len(data) THEN Add(sums[i], Value(data[i])) ELSE sums[i]]

\* Sums whole packets: the sums leave with the last word, and start again.
SubchecksumWord(s, w) ==
    LET sums == AddWord(IF s.cur = <<>> THEN NoSums ELSE s.cur, w.data)
    IN  [s EXCEPT !.cur = IF w.last THEN <<>> ELSE sums,
                  !.meta = IF w.last THEN Append(@, sums) ELSE @,
                  !.out = Append(@, w)]

two_complement_subchecksums(s, ws) == Feed(SubchecksumWord, s, <<>>, ws)

\* Sums the IP header, ihl units of the first word, without its checksum
\* when that is still to be computed.
compute_ipv4_checksum(s, ws, skipChecksum) ==
    LET Counted(data) == [i \in 1..Len(data) |->
            IF i <= data[1].ihl /\ ~(skipChecksum /\ data[i].k = "sum") THEN data[i] ELSE Zero]
    IN  Parse(LAMBDA data : AddWord(NoSums, Counted(data)), s, ws)

mac_compute_ipv4_checksum(s, ws) == compute_ipv4_checksum(s, ws, TRUE)
ip_handler_compute_ipv4_checksum(s, ws) == compute_ipv4_checksum(s, ws, FALSE)

Halves == SelectSeq(<<16, 8, 4, 2, 1>>, LAMBDA h : h < W)

AddUp(sums) ==
    FoldLeft(LAMBDA l, h : [i \in 1..h |-> Add(l[i], l[i + h])], sums, Halves)[1]

\* The checksum to insert, and whether a packet that carries one is intact.
finalize_ipv4_checksum(sums) == LANE - 1 - AddUp(sums)
mac_finalize_ipv4_checksum(sums) == finalize_ipv4_checksum(sums)

toe_check_ipv4_checksum(sums) == LANE - 1 - AddUp(sums) = 0
ip_handler_check_ipv4_checksum(sums) == toe_check_ipv4_checksum(sums)

Each(f(_), s) == [i \in 1..Len(s) |-> f(s[i])]
=============================================================================
