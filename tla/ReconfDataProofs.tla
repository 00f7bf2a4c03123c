-------------------------- MODULE ReconfDataProofs --------------------------
(***************************************************************************)
(* The bytes that the reconfiguration controller moves, for all widths,    *)
(* commands, payloads and memory contents: what it streams to ICAP, writes *)
(* to HBM and reads from it, and where it writes.                          *)
(***************************************************************************)
EXTENDS ReconfCtrlProofs, SequenceTheorems

(***************************************************************************)
(* Addresses wrap at the end of the address range                          *)
(***************************************************************************)
(* Quotient and remainder, and that they are the only ones.                *)
LEMMA DivMod ==
  ASSUME NEW n \in Nat \ {0}, NEW x \in Int
  PROVE  /\ x = n * (x \div n) + (x % n)
         /\ x % n \in 0 .. n - 1 /\ x \div n \in Int
  OBVIOUS

LEMMA DivModUnique ==
  ASSUME NEW n \in Nat \ {0}, NEW x \in Int, NEW q \in Int, NEW r \in 0 .. n - 1,
         x = n * q + r
  PROVE  x % n = r /\ x \div n = q
  OBVIOUS

(* A sum may be reduced before the last term is added.                     *)
LEMMA ModSum ==
  ASSUME NEW n \in Nat \ {0}, NEW a \in Int, NEW b \in Int
  PROVE  ((a % n) + b) % n = (a + b) % n
<1>. DEFINE q1 == a \div n
            r1 == a % n
            q2 == (r1 + b) \div n
            r2 == (r1 + b) % n
            sum == a + b
            q == q1 + q2
<1>1. a = n * q1 + r1 /\ q1 \in Int /\ r1 \in 0 .. n - 1
  BY DivMod
<1>. HIDE DEF q1, r1
<1>2. r1 + b = n * q2 + r2 /\ q2 \in Int /\ r2 \in 0 .. n - 1
  <2>. DEFINE x == r1 + b
  <2>1. x \in Int
    BY <1>1
  <2>. HIDE DEF x
  <2>2. x = n * (x \div n) + (x % n) /\ x % n \in 0 .. n - 1 /\ x \div n \in Int
    BY <2>1, DivMod
  <2>. QED
    BY <2>2 DEF x
<1>. HIDE DEF q2, r2
<1>3. sum \in Int /\ q \in Int /\ sum = n * q + r2
  BY <1>1, <1>2
<1>4. sum % n = r2
  <2>. HIDE DEF sum, q
  <2>. QED
    BY <1>2, <1>3, DivModUnique
<1>. QED
  BY <1>4 DEF r2, r1

(* Numbers less than n apart have different remainders.                    *)
LEMMA ModDistinct ==
  ASSUME NEW n \in Nat \ {0}, NEW x \in Int, NEW y \in Int, x < y, y - x < n
  PROVE  x % n # y % n
<1>. DEFINE q1 == x \div n
            q2 == y \div n
            r == x % n
<1>. SUFFICES ASSUME r = y % n
              PROVE  FALSE
  OBVIOUS
<1>1. x = n * q1 + r /\ y = n * q2 + r /\ q1 \in Int /\ q2 \in Int /\ r \in Int
  BY DivMod
<1>. HIDE DEF q1, q2, r
<1>2. n * (q2 - q1) = y - x /\ q2 - q1 \in Int
  BY <1>1
<1>3. \A d \in Int : n * d > 0 => n * d >= n
  OBVIOUS
<1>. QED
  BY <1>2, <1>3

LEMMA AddAddrSum ==
  ASSUME NEW a \in Nat, NEW m \in Nat, NEW n \in Nat
  PROVE  AddAddr(AddAddr(a, m), n) = AddAddr(a, m + n)
<1>. DEFINE s == a + m
<1>1. /\ s \in Int /\ n \in Int /\ AddrSpace \in Nat \ {0}
      /\ s + n = a + (m + n)
  BY Widths
<1>2. ((s % AddrSpace) + n) % AddrSpace = (s + n) % AddrSpace
  <2>. HIDE DEF s
  <2>. QED
    BY <1>1, ModSum
<1>. QED
  BY <1>1, <1>2 DEF AddAddr

LEMMA AddAddrZero ==
  ASSUME NEW a \in Addr
  PROVE  AddAddr(a, 0) = a
<1>1. a \in Int /\ a + 0 = AddrSpace * 0 + a /\ a \in 0 .. AddrSpace - 1
  BY Widths DEF Addr
<1>. QED
  BY <1>1, DivModUnique, Widths DEF AddAddr

LEMMA AddAddrDistinct ==
  ASSUME NEW a \in Nat, NEW m \in Nat, NEW n \in Nat, m < n, n - m < AddrSpace
  PROVE  AddAddr(a, m) # AddAddr(a, n)
<1>1. a + m \in Int /\ a + n \in Int /\ a + m < a + n
      /\ (a + n) - (a + m) < AddrSpace
  BY Widths
<1>. QED
  BY <1>1, ModDistinct, Widths DEF AddAddr

(* The place of an address in a range is less than its distance from the   *)
(* start of the range.                                                     *)
LEMMA AddAddrPlace ==
  ASSUME NEW a \in Nat, NEW m \in Nat
  PROVE  (AddAddr(a, m) - a) % AddrSpace <= m
<1>. DEFINE s == a + m
            y == s % AddrSpace
            d == -a
<1>1. s \in Int /\ y \in Int /\ d \in Int /\ AddrSpace \in Nat \ {0}
  BY Widths
<1>2. (y + d) % AddrSpace = (s + d) % AddrSpace
  <2>. HIDE DEF s, d
  <2>. QED
    BY <1>1, ModSum
<1>3. y + d = y - a /\ s + d = m
  <2>. HIDE DEF y
  <2>. QED
    BY <1>1
<1>4. m % AddrSpace <= m
  BY <1>1, DivMod
<1>. QED
  BY <1>2, <1>3, <1>4 DEF AddAddr

LEMMA BeatFits == BeatBytes <= AddrSpace
<1>1. \A a, b \in Nat \ {0} : b <= a * b
  OBVIOUS
<1>. QED
  BY <1>1, Widths, WidthAssumption DEF AddrSpace

(***************************************************************************)
(* A beat written to HBM                                                   *)
(***************************************************************************)
(* Its bytes are where the strobes put them, and all others as they were.  *)
LEMMA BeatWritten ==
  ASSUME hbm \in [Addr -> Byte], NEW addr \in Addr, NEW data,
         NEW strb \in 0 .. BeatBytes
  PROVE  /\ \A k \in 1 .. strb :
              HbmWritten(addr, data, strb)[AddAddr(addr, k - 1)] = data[k]
         /\ \A a \in Addr :
              HbmWritten(addr, data, strb)[a] # hbm[a] =>
                \E k \in 1 .. strb : a = AddAddr(addr, k - 1)
<1>0. addr \in Nat /\ BeatBytes \in Nat /\ strb \in Nat /\ AddrSpace \in Nat
  BY Widths, AddrNat
<1>1. ASSUME NEW k \in 1 .. strb
      PROVE  HbmWritten(addr, data, strb)[AddAddr(addr, k - 1)] = data[k]
  <2>1. k - 1 \in Nat /\ AddAddr(addr, k - 1) \in Addr
    BY <1>0, AddAddrType
  <2>. DEFINE j == CHOOSE i \in 1 .. strb : AddAddr(addr, k - 1) = AddAddr(addr, i - 1)
  <2>2. j \in 1 .. strb /\ AddAddr(addr, k - 1) = AddAddr(addr, j - 1)
    OBVIOUS
  <2>3. HbmWritten(addr, data, strb)[AddAddr(addr, k - 1)] = data[j]
    BY <2>1 DEF HbmWritten
  <2>. HIDE DEF j
  <2>4. ~(j < k)
    <3>. SUFFICES ASSUME j < k
                  PROVE  FALSE
      OBVIOUS
    <3>1. j - 1 \in Nat /\ j - 1 < k - 1 /\ (k - 1) - (j - 1) < AddrSpace
      BY <1>0, <2>2, BeatFits
    <3>. QED
      BY <1>0, <2>1, <2>2, <3>1, AddAddrDistinct
  <2>5. ~(k < j)
    <3>. SUFFICES ASSUME k < j
                  PROVE  FALSE
      OBVIOUS
    <3>1. j - 1 \in Nat /\ k - 1 < j - 1 /\ (j - 1) - (k - 1) < AddrSpace
      BY <1>0, <2>2, BeatFits
    <3>. QED
      BY <1>0, <2>1, <2>2, <3>1, AddAddrDistinct
  <2>6. j = k
    BY <1>0, <2>2, <2>4, <2>5
  <2>. QED
    BY <2>3, <2>6
<1>2. ASSUME NEW a \in Addr, HbmWritten(addr, data, strb)[a] # hbm[a]
      PROVE  \E k \in 1 .. strb : a = AddAddr(addr, k - 1)
  BY <1>2 DEF HbmWritten
<1>. QED
  BY <1>1, <1>2

(* A beat written behind n stored bytes: the bytes p[1], p[2], ... of a    *)
(* range are stored up to the end of the beat, save those overwritten.     *)
LEMMA BeatExtends ==
  ASSUME hbm \in [Addr -> Byte], NEW base \in Addr, NEW n \in Nat, NEW p,
         NEW data, NEW strb \in 0 .. BeatBytes,
         \A i \in 1 .. n : n - i < AddrSpace => hbm[AddAddr(base, i - 1)] = p[i],
         \A k \in 1 .. strb : data[k] = p[n + k]
  PROVE  \A i \in 1 .. n + strb : (n + strb) - i < AddrSpace =>
           HbmWritten(AddAddr(base, n), data, strb)[AddAddr(base, i - 1)] = p[i]
<1>. SUFFICES ASSUME NEW i \in 1 .. n + strb, (n + strb) - i < AddrSpace
              PROVE  HbmWritten(AddAddr(base, n), data, strb)[AddAddr(base, i - 1)] = p[i]
  OBVIOUS
<1>. DEFINE addr == AddAddr(base, n)
<1>0. base \in Nat /\ strb \in Nat /\ BeatBytes \in Nat /\ AddrSpace \in Nat
      /\ i \in Nat /\ i - 1 \in Nat
  BY Widths, AddrNat
<1>1. addr \in Addr /\ AddAddr(base, i - 1) \in Addr
  BY <1>0, AddAddrType
<1>2. CASE i > n
  <2>1. i - n \in 1 .. strb /\ (i - n) - 1 \in Nat /\ n + ((i - n) - 1) = i - 1
        /\ n + (i - n) = i
    BY <1>0, <1>2
  <2>2. AddAddr(addr, (i - n) - 1) = AddAddr(base, i - 1)
    BY <1>0, <2>1, AddAddrSum
  <2>3. HbmWritten(addr, data, strb)[AddAddr(addr, (i - n) - 1)] = data[i - n]
    BY <1>1, <2>1, BeatWritten
  <2>. QED
    BY <2>1, <2>2, <2>3
<1>3. CASE i <= n
  <2>1. hbm[AddAddr(base, i - 1)] = p[i]
    BY <1>0, <1>3
  <2>2. ASSUME NEW k \in 1 .. strb
        PROVE  AddAddr(base, i - 1) # AddAddr(addr, k - 1)
    <3>1. k - 1 \in Nat /\ AddAddr(addr, k - 1) = AddAddr(base, n + (k - 1))
      BY <1>0, AddAddrSum
    <3>2. n + (k - 1) \in Nat /\ i - 1 < n + (k - 1)
          /\ (n + (k - 1)) - (i - 1) < AddrSpace
      BY <1>0, <1>3
    <3>. QED
      BY <1>0, <3>1, <3>2, AddAddrDistinct
  <2>. QED
    BY <1>1, <2>1, <2>2, BeatWritten
<1>. QED
  BY <1>0, <1>2, <1>3

(***************************************************************************)
(* The inductive invariant                                                 *)
(***************************************************************************)
(* The address of the beat that a half of the line at current_addr makes.  *)
HalfAddr == AddAddr(current_addr, IF half_select THEN BeatBytes ELSE 0)

(* The payload bytes of complete lines, and of complete beats.             *)
LinesStored == cmd.size - remaining_bytes
BeatsStored == LinesStored + (IF half_select THEN BeatBytes ELSE 0)

LineStates == {"WRITE_ADDR", "WRITE_DATA", "WRITE_RESP"}

(* A write has its command, the address of its next line and as many bytes *)
(* to go as are missing.                                                   *)
WriteBegun ==
  state \in LineStates \union {"WRITE_WAIT_DATA"} =>
    /\ cmd.op = "WRITE_HBM" /\ cmd.addr \in Addr
    /\ remaining_bytes \in 1 .. cmd.size
    /\ current_addr = AddAddr(cmd.addr, LinesStored)

(* Between lines, everything taken is stored.                              *)
WriteBetweenLines ==
  state = "WRITE_WAIT_DATA" =>
    Len(payload) = LinesStored /\ PayloadStored(LinesStored)

(* The line in hand is the end of the payload, and its first half is       *)
(* stored before the second is written.                                    *)
WriteInLine ==
  state \in LineStates =>
    /\ line_bytes = NextLineBytes(remaining_bytes)
    /\ half_select => line_bytes > BeatBytes
    /\ Len(payload) = LinesStored + LineBytes
    /\ \A i \in 1 .. LineBytes : data_line[i] = payload[LinesStored + i]
    /\ PayloadStored(BeatsStored)

(* What the write channels offer is the half in hand.                      *)
WriteChannels ==
  /\ aw.valid => state = "WRITE_ADDR"
  /\ aw.valid \/ state \in {"WRITE_DATA", "WRITE_RESP"} => aw.addr = HalfAddr
  /\ state \in {"WRITE_DATA", "WRITE_RESP"} =>
       /\ w.data = HalfLine(data_line, half_select)
       /\ w.strb = WriteBytesForHalf(line_bytes, half_select)

WriteInv ==
  /\ WriteBegun /\ WriteBetweenLines /\ WriteInLine /\ WriteChannels
  /\ WriteComplete

AddressStates == {"READ_ADDR_0", "READ_ADDR_1", "RECONF_ADDR"}
SecondStates  == {"READ_ADDR_1", "READ_DATA_1"}
ReadingStates == SecondStates \union {"READ_ADDR_0", "READ_DATA_0"}

(* The read channel offers, and then waits for, the address of the beat.   *)
ReadChannel ==
  /\ ar.valid => state \in AddressStates /\ ar.addr = ReadAddress
  /\ state \in {"READ_DATA_0", "RECONF_DATA"} => ar.addr = current_addr
  /\ state = "READ_DATA_1" => ar.addr = AddAddr(current_addr, BeatBytes)

(* A read has its command, and the first beat before it asks for a second. *)
ReadBegun ==
  /\ state \in ReadingStates =>
       /\ cmd.op = "READ_HBM" /\ cmd.addr \in Addr /\ cmd.size \in 1 .. LineBytes
       /\ current_addr = cmd.addr /\ remaining_bytes = cmd.size
  /\ state \in SecondStates =>
       /\ cmd.size > BeatBytes
       /\ \A i \in 1 .. BeatBytes : read_response[i] = CommandByte(i - 1)

ReadInv == ReadChannel /\ ReadBegun /\ ReadExact

(* The beat being streamed begins icap_word_index words back.              *)
BeatStart ==
  IF state = "RECONF_STREAM" THEN Len(icap_log) - icap_word_index
  ELSE Len(icap_log)

(* A load has its command and the address of the beat being streamed, or   *)
(* of the next one.                                                        *)
StreamPlace ==
  /\ state \in ReconfStates => cmd.addr \in Addr
  /\ state \in ReconfStates \ {"RECONF_WAIT_DONE"} =>
       /\ BeatStart \in Nat
       /\ current_addr = AddAddr(cmd.addr, BeatStart * WordBytes)

(* The beat is what HBM holds at that address, and the word offered is the *)
(* one that icap_word_index selects.                                       *)
StreamBeat ==
  state = "RECONF_STREAM" =>
    /\ read_data = HbmBeat(current_addr)
    /\ m_axis_icap.word = SelectIcapWord(read_data, icap_word_index)
    /\ m_axis_icap.last <=> icap_words_remaining = 1

StreamInv == StreamPlace /\ StreamBeat /\ IcapStreamExact

DataInv == WriteInv /\ ReadInv /\ StreamInv

(***************************************************************************)
(* Writes                                                                  *)
(***************************************************************************)
writeState == <<state, m_axis, aw, w, data_line, line_bytes, half_select,
                current_addr, remaining_bytes, cmd, payload, hbm>>

LEMMA WriteFrame == WriteInv /\ UNCHANGED writeState => WriteInv'
  BY DEF writeState, WriteInv, WriteBegun, WriteBetweenLines, WriteInLine,
     WriteChannels, WriteComplete, PayloadStored, CommandByte, LinesStored,
     BeatsStored, HalfAddr, LineStates

(* Outside a write the write channel is silent, and so it stays.           *)
LEMMA NotWriting ==
  ASSUME TypeOK, WriteInv, state # "WRITE_ADDR",
         UNCHANGED aw \/ aw' = [aw EXCEPT !.valid = FALSE],
         state' \notin LineStates \union {"WRITE_WAIT_DATA"},
         WriteComplete'
  PROVE  WriteInv'
<1>1. ~aw.valid
  BY DEF WriteInv, WriteChannels
<1>2. ~aw'.valid
  BY <1>1 DEF TypeOK, AxiTypes
<1>. QED
  BY <1>2 DEF WriteInv, WriteBegun, WriteBetweenLines, WriteInLine,
     WriteChannels, LineStates

LEMMA AcceptKeepsWrites ==
  ASSUME TypeOK, WriteInv,
         IdleWait \/ \E c \in Commands : AcceptAnswered(c) \/ AcceptReconf(c)
  PROVE  WriteInv'
<1>1. state = "IDLE" /\ aw' = [aw EXCEPT !.valid = FALSE]
  BY DEF IdleWait, AcceptAnswered, AcceptReconf, AcceptInto, IdleOutputs
<1>2. CASE IdleWait
  <2>1. state' = "IDLE"
    BY <1>1, <1>2 DEF IdleWait
  <2>. QED
    BY <1>1, <2>1, NotWriting DEF LineStates, WriteComplete
<1>3. CASE \E c \in Commands : AcceptReconf(c)
  <2>1. state' = "RECONF_ADDR"
    BY <1>3 DEF AcceptReconf
  <2>. QED
    BY <1>1, <2>1, NotWriting DEF LineStates, WriteComplete
<1>4. CASE \E c \in Commands : AcceptAnswered(c)
  <2>. PICK c \in Commands : AcceptAnswered(c)
    BY <1>4
  <2>1. state' = "SEND_STATUS" /\ cmd' = c
    BY DEF AcceptAnswered, AcceptInto, NewCommand, StartStatus, StartQueryStatus
  <2>2. c.op = "WRITE_HBM" => m_axis'.data # StatusLine("OK")
    BY DEF AcceptAnswered, StartStatus, Respond, StatusLine
  <2>. QED
    BY <1>1, <2>1, <2>2, NotWriting DEF LineStates, WriteComplete
<1>. QED
  BY <1>2, <1>3, <1>4

LEMMA TransferKeepsWrites ==
  ASSUME TypeOK, WriteInv, NEW c \in Commands, AcceptTransfer(c)
  PROVE  WriteInv'
<1>1. /\ state = "IDLE" /\ aw' = [aw EXCEPT !.valid = FALSE]
      /\ cmd' = c /\ current_addr' = c.addr /\ remaining_bytes' = c.size
      /\ payload' = <<>>
  BY DEF AcceptTransfer, AcceptInto, IdleOutputs, NewCommand
<1>2. CASE c.op = "READ_HBM"
  <2>1. state' = "READ_ADDR_0"
    BY <1>2 DEF AcceptTransfer
  <2>. QED
    BY <1>1, <2>1, NotWriting DEF LineStates, WriteComplete
<1>3. CASE c.op = "WRITE_HBM"
  <2>1. state' = "WRITE_WAIT_DATA"
    BY <1>3 DEF AcceptTransfer
  <2>2. c.addr \in Addr /\ c.size \in Nat \ {0}
    BY <1>3, AcceptedAddr, InputAssumption DEF AcceptTransfer, Validate, CommandLine
  <2>3. LinesStored' = 0
    BY <1>1, <2>2 DEF LinesStored
  <2>4. ~aw'.valid
    BY <1>1 DEF TypeOK, AxiTypes
  <2>5. WriteBegun'
    BY <1>1, <1>3, <2>1, <2>2, <2>3, AddAddrZero DEF WriteBegun
  <2>6. WriteBetweenLines'
    BY <1>1, <2>3 DEF WriteBetweenLines, PayloadStored
  <2>. QED
    BY <2>1, <2>4, <2>5, <2>6 DEF WriteInv, WriteInLine, WriteChannels,
       WriteComplete, LineStates
<1>. QED
  BY <1>2, <1>3 DEF AcceptTransfer

(* A payload line is taken: it is the end of the payload from then on.     *)
LEMMA TakeLineKeepsWrites ==
  ASSUME TypeOK, WriteInv, NEW line \in Lines, WriteTakeLine(line)
  PROVE  WriteInv'
<1>1. /\ state = "WRITE_WAIT_DATA" /\ state' = "WRITE_ADDR"
      /\ data_line' = line /\ line_bytes' = NextLineBytes(remaining_bytes)
      /\ half_select' = FALSE /\ payload' = payload \o line
      /\ UNCHANGED <<aw, w, current_addr, remaining_bytes, hbm, cmd>>
  BY DEF WriteTakeLine
<1>2. /\ cmd.op = "WRITE_HBM" /\ cmd.addr \in Addr
      /\ remaining_bytes \in 1 .. cmd.size
      /\ current_addr = AddAddr(cmd.addr, LinesStored)
      /\ Len(payload) = LinesStored /\ PayloadStored(LinesStored)
      /\ ~aw.valid
  BY <1>1 DEF WriteInv, WriteBegun, WriteBetweenLines, WriteChannels
<1>3. payload \in Seq(Byte) /\ cmd.size \in Nat
  BY DEF TypeOK, HistoryTypes, CommandLine
<1>4. line \in Line /\ line \in Seq(Byte) /\ Len(line) = LineBytes
  BY InputAssumption, Widths DEF Line
<1>5. LinesStored \in Nat /\ LinesStored' = LinesStored
      /\ BeatsStored' = LinesStored
  BY <1>1, <1>2, <1>3 DEF LinesStored, BeatsStored
<1>6. /\ Len(payload') = LinesStored + LineBytes
      /\ \A i \in 1 .. LinesStored : payload'[i] = payload[i]
      /\ \A i \in 1 .. LineBytes : payload'[LinesStored + i] = line[i]
  <2>. DEFINE n == LinesStored
              m == LineBytes
  <2>1. n \in Nat /\ m \in Nat /\ Len(payload) = n /\ Len(line) = m
        /\ payload' = payload \o line
    BY <1>1, <1>2, <1>4, <1>5, Widths
  <2>. HIDE DEF n, m
  <2>2. /\ Len(payload') = n + m
        /\ \A i \in 1 .. n + m : payload'[i] =
             IF i <= n THEN payload[i] ELSE line[i - n]
    BY <1>3, <1>4, <2>1, ConcatProperties
  <2>3. \A i \in 1 .. n : payload'[i] = payload[i]
    BY <2>1, <2>2
  <2>4. \A i \in 1 .. m : payload'[n + i] = line[i]
    <3>. SUFFICES ASSUME NEW i \in 1 .. m
                  PROVE  payload'[n + i] = line[i]
      OBVIOUS
    <3>1. n + i \in 1 .. n + m /\ ~(n + i <= n) /\ (n + i) - n = i
      BY <2>1
    <3>. QED
      BY <2>2, <3>1
  <2>. QED
    BY <2>2, <2>3, <2>4 DEF n, m
<1>7. PayloadStored(LinesStored)'
  BY <1>1, <1>2, <1>5, <1>6 DEF PayloadStored, CommandByte
<1>8. PayloadStored(BeatsStored)'
  BY <1>5, <1>7 DEF PayloadStored
<1>9. WriteInLine'
  BY <1>1, <1>5, <1>6, <1>8 DEF WriteInLine
<1>10. WriteBegun'
  BY <1>1, <1>2, <1>5 DEF WriteBegun
<1>. QED
  BY <1>1, <1>2, <1>9, <1>10 DEF WriteInv, WriteBetweenLines, WriteChannels,
     WriteComplete

(* The address of the half is presented, its data is, and both are taken.  *)
LEMMA ChannelsKeepWrites ==
  ASSUME TypeOK, WriteInv, WriteAddrPresent \/ WriteAddrTaken \/ WriteDataTaken
  PROVE  WriteInv'
<1>1. /\ UNCHANGED <<data_line, line_bytes, half_select, current_addr,
                     remaining_bytes, hbm, cmd, payload>>
      /\ state \in LineStates /\ state' \in LineStates
  BY DEF WriteAddrPresent, WriteAddrTaken, WriteDataTaken, history, LineStates
<1>2. WriteBegun' /\ WriteInLine' /\ WriteBetweenLines' /\ WriteComplete'
  BY <1>1 DEF WriteInv, WriteBegun, WriteInLine, WriteBetweenLines,
     WriteComplete, PayloadStored, CommandByte, LinesStored, BeatsStored,
     LineStates
<1>3. HalfAddr' = HalfAddr
  BY <1>1 DEF HalfAddr
<1>4. WriteChannels'
  <2>1. CASE WriteAddrPresent
    <3>1. AddAddr(current_addr, 0) = current_addr
      BY AddAddrZero DEF TypeOK, AxiTypes
    <3>2. aw'.addr = HalfAddr /\ state = "WRITE_ADDR" /\ state' = state
      BY <2>1, <3>1 DEF WriteAddrPresent, HalfAddr
    <3>. QED
      BY <1>3, <3>2 DEF WriteChannels
  <2>2. CASE WriteAddrTaken
    <3>1. /\ aw.addr = HalfAddr
          /\ aw' = [aw EXCEPT !.valid = FALSE]
          /\ state' = "WRITE_DATA"
          /\ w'.data = HalfLine(data_line, half_select)
          /\ w'.strb = WriteBytesForHalf(line_bytes, half_select)
      BY <2>2 DEF WriteAddrTaken, WriteInv, WriteChannels
    <3>2. ~aw'.valid /\ aw'.addr = HalfAddr
      BY <3>1 DEF TypeOK, AxiTypes
    <3>. QED
      BY <1>1, <1>3, <3>1, <3>2 DEF WriteChannels
  <2>3. CASE WriteDataTaken
    <3>1. /\ aw.addr = HalfAddr /\ ~aw.valid /\ aw' = aw
          /\ w.data = HalfLine(data_line, half_select)
          /\ w.strb = WriteBytesForHalf(line_bytes, half_select)
          /\ w' = [w EXCEPT !.valid = FALSE] /\ state' = "WRITE_RESP"
      BY <2>3 DEF WriteDataTaken, WriteInv, WriteChannels
    <3>2. w'.data = w.data /\ w'.strb = w.strb
      BY <3>1 DEF TypeOK, AxiTypes
    <3>. QED
      BY <1>1, <1>3, <3>1, <3>2 DEF WriteChannels
  <2>. QED
    BY <2>1, <2>2, <2>3
<1>. QED
  BY <1>2, <1>4 DEF WriteInv


(* What a write has done, and what the beat in flight is.                  *)
LEMMA BeatInFlight ==
  ASSUME TypeOK, WriteInv, state = "WRITE_RESP"
  PROVE  /\ cmd.op = "WRITE_HBM" /\ cmd.addr \in Addr
         /\ cmd.size \in Nat /\ remaining_bytes \in 1 .. cmd.size
         /\ LinesStored \in Nat /\ BeatsStored \in Nat
         /\ current_addr = AddAddr(cmd.addr, LinesStored)
         /\ line_bytes = NextLineBytes(remaining_bytes)
         /\ half_select => line_bytes > BeatBytes
         /\ Len(payload) = LinesStored + LineBytes
         /\ PayloadStored(BeatsStored)
         /\ aw.addr = AddAddr(cmd.addr, BeatsStored)
         /\ w.strb = WriteBytesForHalf(line_bytes, half_select)
         /\ w.strb \in 0 .. BeatBytes
         /\ \A k \in 1 .. w.strb : w.data[k] = payload[BeatsStored + k]
         /\ ~aw.valid
<1>. DEFINE h == IF half_select THEN BeatBytes ELSE 0
<1>1. /\ cmd.op = "WRITE_HBM" /\ cmd.addr \in Addr
      /\ remaining_bytes \in 1 .. cmd.size
      /\ current_addr = AddAddr(cmd.addr, LinesStored)
      /\ line_bytes = NextLineBytes(remaining_bytes)
      /\ half_select => line_bytes > BeatBytes
      /\ Len(payload) = LinesStored + LineBytes
      /\ \A i \in 1 .. LineBytes : data_line[i] = payload[LinesStored + i]
      /\ PayloadStored(BeatsStored)
      /\ ~aw.valid
  BY DEF WriteInv, WriteBegun, WriteInLine, WriteChannels, LineStates
<1>2. /\ aw.addr = AddAddr(current_addr, h)
      /\ w.data = HalfLine(data_line, half_select)
      /\ w.strb = WriteBytesForHalf(line_bytes, half_select)
  BY DEF WriteInv, WriteChannels, HalfAddr
<1>3. cmd.size \in Nat /\ w.strb \in 0 .. BeatBytes
  BY DEF TypeOK, HistoryTypes, AxiTypes, CommandLine
<1>4. LinesStored \in Nat /\ h \in Nat /\ BeatsStored = LinesStored + h
  BY <1>1, <1>3, Widths DEF LinesStored, BeatsStored
<1>5. cmd.addr \in Nat
  BY <1>1, AddrNat
<1>6. aw.addr = AddAddr(cmd.addr, BeatsStored)
  <2>. HIDE DEF h
  <2>. QED
    BY <1>1, <1>2, <1>4, <1>5, AddAddrSum
<1>7. ASSUME NEW k \in 1 .. w.strb
      PROVE  w.data[k] = payload[BeatsStored + k]
  <2>1. k \in 1 .. BeatBytes /\ k \in Nat
    BY <1>3, Widths
  <2>2. w.data[k] = data_line[h + k]
    BY <1>2, <2>1 DEF HalfLine
  <2>3. h + k \in 1 .. LineBytes
    BY <2>1, Widths DEF LineBytes
  <2>4. LinesStored + (h + k) = BeatsStored + k
    BY <1>4, <2>1
  <2>. HIDE DEF h
  <2>. QED
    BY <1>1, <2>2, <2>3, <2>4
<1>8. BeatsStored \in Nat
  BY <1>4
<1>. QED
  BY <1>1, <1>2, <1>3, <1>4, <1>6, <1>7, <1>8

(* A beat that fails ends the write with the status it has.                *)
LEMMA FailureKeepsWrites ==
  ASSUME TypeOK, WriteInv, WriteFailed
  PROVE  WriteInv'
<1>1. /\ state = "WRITE_RESP" /\ state' = "SEND_STATUS" /\ UNCHANGED aw
      /\ m_axis'.data = StatusLine("AXI_BRESP")
  BY DEF WriteFailed, StartStatus, Respond
<1>2. m_axis'.data # StatusLine("OK")
  BY <1>1 DEF StatusLine
<1>. QED
  BY <1>1, <1>2, NotWriting DEF WriteComplete, LineStates

(* A beat that is stored: the payload is in HBM up to its end.             *)
LEMMA StoredKeepsWrites ==
  ASSUME TypeOK, WriteInv, WriteStored
  PROVE  WriteInv'
<1>1. /\ state = "WRITE_RESP" /\ hbm' = HbmWritten(aw.addr, w.data, w.strb)
      /\ UNCHANGED <<aw, w, data_line, line_bytes, cmd, payload>>
  BY DEF WriteStored, history
<1>. DEFINE n == BeatsStored
            s == w.strb
            Stored(m) == \A i \in 1 .. m :
                           m - i < AddrSpace => hbm'[AddAddr(cmd.addr, i - 1)] = payload[i]
<1>2. Stored(n + s)
  <2>1. /\ cmd.addr \in Addr /\ n \in Nat /\ s \in 0 .. BeatBytes
        /\ hbm' = HbmWritten(AddAddr(cmd.addr, n), w.data, s)
        /\ hbm \in [Addr -> Byte]
        /\ \A k \in 1 .. s : w.data[k] = payload[n + k]
    BY <1>1, BeatInFlight DEF TypeOK, AxiTypes
  <2>2. \A i \in 1 .. n : n - i < AddrSpace =>
          hbm[AddAddr(cmd.addr, i - 1)] = payload[i]
    BY <1>1, BeatInFlight DEF PayloadStored, CommandByte
  <2>. HIDE DEF n, s
  <2>. QED
    BY <2>1, <2>2, BeatExtends
<1>3. \A m \in Nat : m = n + s => Stored(m)
  <2>. HIDE DEF n, s, Stored
  <2>. QED
    BY <1>2
<1>. HIDE DEF Stored
<1>4. /\ cmd.op = "WRITE_HBM" /\ cmd.addr \in Addr
      /\ cmd.size \in Nat /\ remaining_bytes \in 1 .. cmd.size
      /\ LinesStored \in Nat
      /\ current_addr = AddAddr(cmd.addr, LinesStored)
      /\ half_select => line_bytes > BeatBytes
      /\ Len(payload) = LinesStored + LineBytes
      /\ ~aw.valid
      /\ s = WriteBytesForHalf(line_bytes, half_select)
  BY <1>1, BeatInFlight
<1>5. /\ line_bytes \in 1 .. LineBytes /\ line_bytes <= remaining_bytes
      /\ remaining_bytes > line_bytes => line_bytes = LineBytes
      /\ line_bytes = NextLineBytes(remaining_bytes)
  BY <1>1, <1>4, BeatInFlight, Widths DEF NextLineBytes, Lesser
<1>6. CASE ~half_select /\ line_bytes > BeatBytes
  <2>1. /\ half_select' = TRUE /\ state' = "WRITE_ADDR"
        /\ UNCHANGED <<current_addr, remaining_bytes>>
    BY <1>6, <1>5, Widths DEF WriteStored
  <2>2. LinesStored' = LinesStored /\ BeatsStored' = LinesStored + BeatBytes
    BY <1>1, <2>1 DEF LinesStored, BeatsStored
  <2>3. n + s = LinesStored + BeatBytes /\ LinesStored + BeatBytes \in Nat
    BY <1>4, <1>5, <1>6, Widths DEF BeatsStored, WriteBytesForHalf, Lesser
  <2>4. Stored(LinesStored + BeatBytes)
    BY <1>3, <2>3
  <2>5. PayloadStored(BeatsStored)'
    BY <1>1, <2>2, <2>4 DEF PayloadStored, CommandByte, Stored
  <2>6. WriteInLine'
    BY <1>1, <1>4, <1>5, <1>6, <2>1, <2>2, <2>5 DEF WriteInLine, WriteInv, LineStates
  <2>7. WriteBegun'
    BY <1>1, <1>4, <2>1, <2>2 DEF WriteBegun
  <2>. QED
    BY <1>1, <1>4, <2>1, <2>6, <2>7 DEF WriteInv, WriteBetweenLines,
       WriteChannels, WriteComplete
<1>7. CASE half_select \/ line_bytes <= BeatBytes
  <2>1. n + s = LinesStored + line_bytes /\ LinesStored + line_bytes \in Nat
    BY <1>4, <1>5, <1>7, Widths DEF BeatsStored, WriteBytesForHalf, Lesser
  <2>2. Stored(LinesStored + line_bytes)
    BY <1>3, <2>1
  <2>a. ~(~half_select /\ line_bytes > BeatBytes)
    BY <1>5, <1>7, Widths
  <2>b. /\ current_addr' = AddAddr(current_addr, line_bytes)
        /\ \/ /\ remaining_bytes <= line_bytes
              /\ remaining_bytes' = 0
              /\ StartStatus("OK")
           \/ /\ remaining_bytes > line_bytes
              /\ remaining_bytes' = remaining_bytes - line_bytes
              /\ state' = "WRITE_WAIT_DATA"
    BY <2>a DEF WriteStored
  <2>3. CASE remaining_bytes <= line_bytes
    <3>0. ~(remaining_bytes > line_bytes)
      BY <1>4, <1>5, <2>3
    <3>1. state' = "SEND_STATUS"
      BY <2>b, <3>0 DEF StartStatus
    <3>2. LinesStored + line_bytes = cmd.size
      BY <1>4, <1>5, <2>3 DEF LinesStored
    <3>3. PayloadStored(cmd.size)'
      BY <1>1, <2>2, <3>2 DEF PayloadStored, CommandByte, Stored
    <3>. QED
      BY <1>1, <3>1, <3>3, NotWriting DEF WriteComplete, LineStates
  <2>4. CASE remaining_bytes > line_bytes
    <3>0. ~(remaining_bytes <= line_bytes)
      BY <1>4, <1>5, <2>4
    <3>1. /\ state' = "WRITE_WAIT_DATA"
          /\ remaining_bytes' = remaining_bytes - line_bytes
          /\ current_addr' = AddAddr(current_addr, line_bytes)
      BY <2>b, <3>0
    <3>2. LinesStored' = LinesStored + line_bytes
      BY <1>1, <1>4, <1>5, <3>1 DEF LinesStored
    <3>3. current_addr' = AddAddr(cmd.addr, LinesStored + line_bytes)
      <4>. DEFINE n1 == LinesStored
      <4>0. cmd.addr \in Nat /\ n1 \in Nat /\ line_bytes \in Nat
        <5>1. cmd.addr \in Nat
          BY <1>4, AddrNat
        <5>2. n1 \in Nat
          BY <1>4
        <5>3. line_bytes \in Nat
          BY <1>5, Widths
        <5>. QED
          BY <5>1, <5>2, <5>3
      <4>1. current_addr' = AddAddr(AddAddr(cmd.addr, n1), line_bytes)
        BY <1>4, <3>1
      <4>. HIDE DEF n1
      <4>2. current_addr' = AddAddr(cmd.addr, n1 + line_bytes)
        BY <4>0, <4>1, AddAddrSum
      <4>. QED
        BY <4>2 DEF n1
    <3>4. WriteBegun'
      BY <1>1, <1>4, <1>5, <2>4, <3>1, <3>2, <3>3 DEF WriteBegun
    <3>5. PayloadStored(LinesStored)'
      BY <1>1, <2>2, <3>2 DEF PayloadStored, CommandByte, Stored
    <3>6. Len(payload') = LinesStored'
      BY <1>1, <1>4, <1>5, <2>4, <3>2
    <3>. QED
      BY <1>1, <1>4, <3>1, <3>4, <3>5, <3>6 DEF WriteInv, WriteBetweenLines,
         WriteInLine, WriteChannels, WriteComplete, LineStates
  <2>. QED
    BY <1>4, <1>5, <2>3, <2>4
<1>. QED
  BY <1>5, <1>6, <1>7, Widths

(* The steps of reads and loads, and responses taken, write nothing.       *)
LEMMA OthersKeepWrites ==
  ASSUME TypeOK, LoadInv, WriteInv, ReadBegun,
         \/ ReadAddrPresent
         \/ ReadAddrTaken
         \/ \E status \in {"AXI_RRESP", "RLAST"} : ReadFailed(status)
         \/ ReadFirst
         \/ ReadSecond
         \/ ReconfBeat
         \/ ReconfWord
         \/ \E done, err \in BOOLEAN : ReconfDone(done, err)
         \/ ResponseTaken
  PROVE  WriteInv'
<1>1. /\ UNCHANGED <<aw, cmd>> /\ state # "WRITE_ADDR"
      /\ state' \notin LineStates \union {"WRITE_WAIT_DATA"}
  BY DEF ReadAddrPresent, ReadAddrTaken, ReadFailed, ReadFirst, ReadSecond,
     ReconfBeat, ReconfWord, ReconfDone, FinishReconf, ResponseTaken,
     StartStatus, writeRegs, history, LineStates
<1>2. \/ state \in ReadingStates \union ReconfStates
      \/ state' # "SEND_STATUS"
  BY DEF ReadAddrPresent, ReadAddrTaken, ReadFailed, ReadFirst, ReadSecond,
     ReconfBeat, ReconfWord, ReconfDone, FinishReconf, ResponseTaken,
     StartStatus, ReadingStates, SecondStates, ReconfStates
<1>3. state' = "SEND_STATUS" => cmd'.op # "WRITE_HBM"
  BY <1>1, <1>2 DEF ReadBegun, LoadInv
<1>. QED
  BY <1>1, <1>3, NotWriting DEF WriteComplete

LEMMA WriteStep ==
  ASSUME TypeOK, LoadInv, WriteInv, ReadBegun, [Next]_vars
  PROVE  WriteInv'
<1>1. CASE UNCHANGED vars
  BY <1>1, WriteFrame DEF vars, writeRegs, history, writeState
<1>2. CASE WriteWaitData \/ \E done, err \in BOOLEAN : Wait(done, err)
  BY <1>2, WriteFrame DEF WriteWaitData, Wait, writeRegs, history, writeState
<1>3. CASE Next
  BY <1>2, <1>3, NextStep, AcceptKeepsWrites, TransferKeepsWrites,
     TakeLineKeepsWrites, ChannelsKeepWrites, FailureKeepsWrites,
     StoredKeepsWrites, OthersKeepWrites DEF Step
<1>. QED
  BY <1>1, <1>3

(***************************************************************************)
(* Reads                                                                   *)
(***************************************************************************)
readState == <<state, m_axis, ar, current_addr, remaining_bytes,
               read_response, cmd, hbm>>

LEMMA ReadFrame == ReadInv /\ UNCHANGED readState => ReadInv'
  BY DEF readState, ReadInv, ReadChannel, ReadBegun, ReadExact, ReadAddress,
     CommandByte, AddressStates, SecondStates, ReadingStates

(* Outside the address states the read channel is silent, and so it stays. *)
LEMMA NotReading ==
  ASSUME TypeOK, ReadInv, state \notin AddressStates,
         UNCHANGED ar \/ ar' = [ar EXCEPT !.valid = FALSE],
         state' \notin ReadingStates \union {"RECONF_DATA", "READ_SEND"}
  PROVE  ReadInv'
<1>1. ~ar.valid
  BY DEF ReadInv, ReadChannel
<1>2. ~ar'.valid
  BY <1>1 DEF TypeOK, AxiTypes
<1>. QED
  BY <1>2 DEF ReadInv, ReadChannel, ReadBegun, ReadExact, ReadingStates,
     SecondStates

LEMMA WritesKeepReads ==
  ASSUME TypeOK, ReadInv,
         \/ IdleWait
         \/ \E c \in Commands : AcceptAnswered(c)
         \/ \E c \in Commands : AcceptReconf(c)
         \/ \E line \in Lines : WriteTakeLine(line)
         \/ WriteAddrPresent
         \/ WriteAddrTaken
         \/ WriteDataTaken
         \/ WriteFailed
         \/ WriteStored
         \/ \E status \in {"AXI_RRESP", "RLAST"} : ReadFailed(status)
         \/ ReconfBeat
         \/ ReconfWord
         \/ \E done, err \in BOOLEAN : ReconfDone(done, err)
         \/ ResponseTaken
  PROVE  ReadInv'
<1>1. CASE \/ IdleWait
           \/ \E c \in Commands : AcceptAnswered(c)
           \/ \E c \in Commands : AcceptReconf(c)
  <2>1. /\ state = "IDLE" /\ ar' = [ar EXCEPT !.valid = FALSE]
        /\ state' \in {"IDLE", "SEND_STATUS", "RECONF_ADDR"}
    BY <1>1 DEF IdleWait, AcceptAnswered, AcceptReconf, AcceptInto,
       IdleOutputs, StartStatus, StartQueryStatus
  <2>. QED
    BY <2>1, NotReading DEF AddressStates, ReadingStates, SecondStates
<1>2. CASE \/ \E line \in Lines : WriteTakeLine(line)
           \/ WriteAddrPresent
           \/ WriteAddrTaken
           \/ WriteDataTaken
           \/ WriteFailed
           \/ WriteStored
  <2>1. /\ state \notin AddressStates /\ UNCHANGED ar
        /\ state' \in LineStates \union {"WRITE_WAIT_DATA", "SEND_STATUS"}
    BY <1>2 DEF WriteTakeLine, WriteAddrPresent, WriteAddrTaken,
       WriteDataTaken, WriteFailed, WriteStored, StartStatus, readRegs,
       LineStates, AddressStates
  <2>. QED
    BY <2>1, NotReading DEF LineStates, ReadingStates, SecondStates
<1>3. CASE \/ \E status \in {"AXI_RRESP", "RLAST"} : ReadFailed(status)
           \/ ReconfBeat
           \/ ReconfWord
           \/ \E done, err \in BOOLEAN : ReconfDone(done, err)
           \/ ResponseTaken
  <2>1. /\ state \notin AddressStates /\ UNCHANGED ar
        /\ state' \in {"SEND_STATUS", "IDLE", "RECONF_ADDR", "RECONF_STREAM",
                       "RECONF_WAIT_DONE"}
    BY <1>3 DEF ReadFailed, ReconfBeat, ReconfWord, ReconfDone, FinishReconf,
       ResponseTaken, StartStatus, readRegs, AddressStates
  <2>. QED
    BY <2>1, NotReading DEF ReadingStates, SecondStates
<1>. QED
  BY <1>1, <1>2, <1>3

LEMMA TransferKeepsReads ==
  ASSUME TypeOK, ReadInv, NEW c \in Commands, AcceptTransfer(c)
  PROVE  ReadInv'
<1>1. /\ state = "IDLE" /\ ar' = [ar EXCEPT !.valid = FALSE]
      /\ cmd' = c /\ current_addr' = c.addr /\ remaining_bytes' = c.size
  BY DEF AcceptTransfer, AcceptInto, IdleOutputs, NewCommand
<1>2. CASE c.op = "WRITE_HBM"
  <2>1. state' = "WRITE_WAIT_DATA"
    BY <1>2 DEF AcceptTransfer
  <2>. QED
    BY <1>1, <2>1, NotReading DEF AddressStates, ReadingStates, SecondStates
<1>3. CASE c.op = "READ_HBM"
  <2>1. state' = "READ_ADDR_0"
    BY <1>3 DEF AcceptTransfer
  <2>2. c.addr \in Addr /\ c.size \in 1 .. LineBytes
    <3>1. c.addr \in Addr
      BY <1>3, AcceptedAddr DEF AcceptTransfer
    <3>2. c.size \in Nat /\ c.size # 0 /\ ~(c.size > LineBytes)
      BY <1>3, InputAssumption DEF AcceptTransfer, Validate, CommandLine
    <3>. QED
      BY <3>1, <3>2, Widths
  <2>3. ~ar'.valid
    BY <1>1 DEF TypeOK, AxiTypes
  <2>. QED
    BY <1>1, <1>3, <2>1, <2>2, <2>3 DEF ReadInv, ReadChannel, ReadBegun,
       ReadExact, ReadingStates, SecondStates
<1>. QED
  BY <1>2, <1>3 DEF AcceptTransfer

LEMMA ChannelKeepsReads ==
  ASSUME TypeOK, ReadInv, ReadAddrPresent \/ ReadAddrTaken
  PROVE  ReadInv'
<1>1. UNCHANGED <<current_addr, remaining_bytes, read_response, cmd, hbm>>
      /\ state \in AddressStates
  BY DEF ReadAddrPresent, ReadAddrTaken, history, AddressStates
<1>2. CASE ReadAddrPresent
  <2>1. state' = state /\ ar'.addr = ReadAddress /\ ReadAddress' = ReadAddress
    BY <1>1, <1>2 DEF ReadAddrPresent, ReadAddress
  <2>2. ReadChannel'
    BY <1>1, <2>1 DEF ReadChannel, AddressStates
  <2>. QED
    BY <1>1, <2>1, <2>2 DEF ReadInv, ReadBegun, ReadExact, CommandByte,
       ReadingStates, SecondStates, AddressStates
<1>3. CASE ReadAddrTaken
  <2>1. /\ ar.addr = ReadAddress /\ ar' = [ar EXCEPT !.valid = FALSE]
        /\ \/ state = "READ_ADDR_0" /\ state' = "READ_DATA_0"
           \/ state = "READ_ADDR_1" /\ state' = "READ_DATA_1"
           \/ state = "RECONF_ADDR" /\ state' = "RECONF_DATA"
    BY <1>3 DEF ReadAddrTaken, ReadInv, ReadChannel
  <2>2. ar'.addr = ReadAddress /\ ~ar'.valid
    BY <2>1 DEF TypeOK, AxiTypes
  <2>3. ReadChannel'
    BY <1>1, <2>1, <2>2 DEF ReadChannel, ReadAddress
  <2>. QED
    BY <1>1, <2>1, <2>3 DEF ReadInv, ReadBegun, ReadExact, CommandByte,
       ReadingStates, SecondStates
<1>. QED
  BY <1>2, <1>3

(* The bytes of a beat that are not masked.                                *)
LEMMA MaskedByte ==
  ASSUME NEW addr, NEW n, NEW i \in 1 .. BeatBytes
  PROVE  MaskData(HbmBeat(addr), n)[i] =
           IF i <= n THEN hbm[AddAddr(addr, i - 1)] ELSE 0
  BY DEF MaskData, HbmBeat

LEMMA FirstKeepsReads ==
  ASSUME TypeOK, ReadInv, ReadFirst
  PROVE  ReadInv'
<1>1. /\ state = "READ_DATA_0"
      /\ read_response' = MaskData(HbmBeat(ar.addr),
                                   ReadFirstByteCount(remaining_bytes))
      /\ UNCHANGED <<ar, current_addr, remaining_bytes, cmd, hbm>>
  BY DEF ReadFirst, history
<1>2. /\ cmd.op = "READ_HBM" /\ cmd.addr \in Addr /\ cmd.size \in 1 .. LineBytes
      /\ current_addr = cmd.addr /\ remaining_bytes = cmd.size
      /\ ar.addr = cmd.addr /\ ~ar.valid
  BY <1>1 DEF ReadInv, ReadChannel, ReadBegun, AddressStates, ReadingStates,
     SecondStates
<1>3. cmd.size \in Nat /\ BeatBytes \in Nat /\ LineBytes = BeatBytes + BeatBytes
  BY <1>2, Widths DEF LineBytes
<1>4. \A i \in 1 .. BeatBytes :
        read_response'[i] = IF i <= cmd.size THEN CommandByte(i - 1) ELSE 0
  <2>. SUFFICES ASSUME NEW i \in 1 .. BeatBytes
                PROVE  read_response'[i] =
                         IF i <= cmd.size THEN CommandByte(i - 1) ELSE 0
    OBVIOUS
  <2>1. i <= ReadFirstByteCount(cmd.size) <=> i <= cmd.size
    BY <1>3 DEF ReadFirstByteCount, Lesser
  <2>2. read_response'[i] = IF i <= ReadFirstByteCount(cmd.size)
                            THEN hbm[AddAddr(cmd.addr, i - 1)] ELSE 0
    BY <1>1, <1>2, MaskedByte
  <2>. QED
    BY <2>1, <2>2 DEF CommandByte
<1>5. CASE remaining_bytes > BeatBytes
  <2>1. state' = "READ_ADDR_1"
    BY <1>2, <1>3, <1>5 DEF ReadFirst
  <2>2. \A i \in 1 .. BeatBytes : read_response'[i] = CommandByte(i - 1)'
    BY <1>1, <1>2, <1>3, <1>4, <1>5 DEF CommandByte
  <2>. QED
    BY <1>1, <1>2, <1>5, <2>1, <2>2 DEF ReadInv, ReadChannel, ReadBegun,
       ReadExact, ReadingStates, SecondStates
<1>6. CASE remaining_bytes <= BeatBytes
  <2>1. /\ state' = "READ_SEND"
        /\ m_axis'.data = DataLine(JoinBeats(read_response', ZeroBeat))
    BY <1>2, <1>3, <1>6 DEF ReadFirst, Respond
  <2>2. \A i \in 1 .. LineBytes :
          (IF i <= BeatBytes THEN read_response'[i] ELSE ZeroBeat[i - BeatBytes])
            = (IF i <= cmd.size THEN CommandByte(i - 1) ELSE 0)
    BY <1>2, <1>3, <1>4, <1>6 DEF ZeroBeat
  <2>3. JoinBeats(read_response', ZeroBeat) =
          [i \in 1 .. LineBytes |->
             IF i <= cmd.size THEN CommandByte(i - 1) ELSE 0]
    BY <2>2 DEF JoinBeats
  <2>4. ReadExact'
    BY <1>1, <2>1, <2>3 DEF ReadExact, CommandByte
  <2>. QED
    BY <1>1, <1>2, <2>1, <2>4 DEF ReadInv, ReadChannel, ReadBegun,
       ReadingStates, SecondStates
<1>. QED
  BY <1>2, <1>3, <1>5, <1>6

LEMMA SecondKeepsReads ==
  ASSUME TypeOK, ReadInv, ReadSecond
  PROVE  ReadInv'
<1>. DEFINE n == ReadSecondByteCount(remaining_bytes)
            high == MaskData(HbmBeat(ar.addr), n)
<1>1. /\ state = "READ_DATA_1" /\ state' = "READ_SEND"
      /\ m_axis'.data = DataLine(JoinBeats(read_response, high))
      /\ UNCHANGED <<ar, current_addr, remaining_bytes, cmd, hbm>>
  BY DEF ReadSecond, Respond, history
<1>2. /\ cmd.addr \in Addr /\ cmd.size \in 1 .. LineBytes
      /\ current_addr = cmd.addr /\ remaining_bytes = cmd.size
      /\ cmd.size > BeatBytes
      /\ \A i \in 1 .. BeatBytes : read_response[i] = CommandByte(i - 1)
      /\ ar.addr = AddAddr(cmd.addr, BeatBytes) /\ ~ar.valid
  BY <1>1 DEF ReadInv, ReadChannel, ReadBegun, AddressStates, ReadingStates,
     SecondStates
<1>3. cmd.size \in Nat /\ BeatBytes \in Nat /\ LineBytes = BeatBytes + BeatBytes
      /\ cmd.addr \in Nat
  <2>1. cmd.addr \in Nat
    BY <1>2, AddrNat
  <2>2. cmd.size \in Nat /\ BeatBytes \in Nat /\ LineBytes = BeatBytes + BeatBytes
    BY <1>2, Widths DEF LineBytes
  <2>. QED
    BY <2>1, <2>2
<1>4. ASSUME NEW i \in 1 .. LineBytes
      PROVE  (IF i <= BeatBytes THEN read_response[i] ELSE high[i - BeatBytes])
               = (IF i <= cmd.size THEN CommandByte(i - 1) ELSE 0)
  <2>1. CASE i <= BeatBytes
    BY <1>2, <1>3, <2>1
  <2>2. CASE ~(i <= BeatBytes)
    <3>. DEFINE j == i - BeatBytes
    <3>1. j \in 1 .. BeatBytes /\ j - 1 \in Nat /\ BeatBytes + (j - 1) = i - 1
          /\ (j <= n <=> i <= cmd.size)
      BY <1>2, <1>3, <2>2 DEF ReadSecondByteCount, Lesser
    <3>2. high[j] = IF j <= n THEN hbm[AddAddr(ar.addr, j - 1)] ELSE 0
      <4>. HIDE DEF j, n
      <4>. QED
        BY <3>1, MaskedByte
    <3>3. AddAddr(ar.addr, j - 1) = AddAddr(cmd.addr, i - 1)
      <4>. HIDE DEF j
      <4>1. AddAddr(AddAddr(cmd.addr, BeatBytes), j - 1)
              = AddAddr(cmd.addr, BeatBytes + (j - 1))
        BY <1>3, <3>1, AddAddrSum
      <4>. QED
        BY <1>2, <3>1, <4>1
    <3>. QED
      BY <2>2, <3>1, <3>2, <3>3 DEF CommandByte
  <2>. QED
    BY <2>1, <2>2
<1>. HIDE DEF high
<1>5. JoinBeats(read_response, high) =
        [i \in 1 .. LineBytes |->
           IF i <= cmd.size THEN CommandByte(i - 1) ELSE 0]
  BY <1>4 DEF JoinBeats
<1>6. ReadExact'
  BY <1>1, <1>5 DEF ReadExact, CommandByte
<1>. QED
  BY <1>1, <1>2, <1>6 DEF ReadInv, ReadChannel, ReadBegun, ReadingStates,
     SecondStates

LEMMA ReadStep ==
  ASSUME TypeOK, ReadInv, [Next]_vars
  PROVE  ReadInv'
<1>1. CASE UNCHANGED vars
  BY <1>1, ReadFrame DEF vars, readRegs, history, readState
<1>2. CASE WriteWaitData \/ \E done, err \in BOOLEAN : Wait(done, err)
  BY <1>2, ReadFrame DEF WriteWaitData, Wait, readRegs, history, readState
<1>3. CASE Next
  BY <1>2, <1>3, NextStep, WritesKeepReads, TransferKeepsReads,
     ChannelKeepsReads, FirstKeepsReads, SecondKeepsReads DEF Step
<1>. QED
  BY <1>1, <1>3

(***************************************************************************)
(* Loads                                                                   *)
(***************************************************************************)
(* Word x of the beat that begins with word j of a range is word j + x.    *)
LEMMA StreamWord ==
  ASSUME cmd.addr \in Addr, NEW j \in Nat, NEW x \in 0 .. WordsPerBeat - 1
  PROVE  SelectIcapWord(HbmBeat(AddAddr(cmd.addr, j * WordBytes)), x)
           = CommandWord(j + x)
<1>. DEFINE base == j * WordBytes
            beat == HbmBeat(AddAddr(cmd.addr, base))
<1>1. x \in Nat /\ WordBytes \in Nat /\ WordsPerBeat \in Nat /\ base \in Nat
      /\ x * WordBytes \in Nat
  BY WidthAssumption
<1>2. cmd.addr \in Nat
  BY AddrNat
<1>3. ASSUME NEW i \in 1 .. WordBytes
      PROVE  beat[x * WordBytes + i] = CommandByte((j + x) * WordBytes + i - 1)
  <2>. DEFINE k == x * WordBytes + i
  <2>1. k \in 1 .. BeatBytes
    <3>1. (x + 1) * WordBytes <= WordsPerBeat * WordBytes
      BY <1>1
    <3>2. (x + 1) * WordBytes = x * WordBytes + WordBytes
      BY <1>1
    <3>. QED
      BY <1>1, <3>1, <3>2 DEF BeatBytes
  <2>2. base + (k - 1) = (j + x) * WordBytes + i - 1
    <3>1. (j + x) * WordBytes = j * WordBytes + x * WordBytes
      BY <1>1
    <3>. QED
      BY <1>1, <3>1
  <2>. HIDE DEF k, base
  <2>3. beat[k] = hbm[AddAddr(AddAddr(cmd.addr, base), k - 1)]
    BY <2>1 DEF HbmBeat
  <2>4. k - 1 \in Nat
    BY <2>1
  <2>5. AddAddr(AddAddr(cmd.addr, base), k - 1) = AddAddr(cmd.addr, base + (k - 1))
    <3>. DEFINE b == cmd.addr
                l == k - 1
    <3>1. b \in Nat /\ base \in Nat /\ l \in Nat
      BY <1>1, <1>2, <2>4
    <3>. HIDE DEF b, l
    <3>2. AddAddr(AddAddr(b, base), l) = AddAddr(b, base + l)
      BY <3>1, AddAddrSum
    <3>. QED
      BY <3>2 DEF b, l
  <2>. QED
    BY <2>2, <2>3, <2>5 DEF CommandByte, k
<1>. QED
  BY <1>3 DEF SelectIcapWord, CommandWord

(* The steps that leave what a load keeps alone, and those that end it.    *)
streamState == <<icap_log, icap_word_index, icap_words_remaining, m_axis_icap,
                 read_data, current_addr, cmd, hbm>>

LEMMA StreamFrame ==
  ASSUME StreamInv, UNCHANGED streamState,
         \/ state' = state
         \/ state \in ReconfStates \ {"RECONF_STREAM"}
            /\ state' \in ReconfStates \ {"RECONF_STREAM", "RECONF_WAIT_DONE"}
            /\ state # "RECONF_WAIT_DONE"
  PROVE  StreamInv'
<1>1. CommandWord(Len(icap_log))' = CommandWord(Len(icap_log))
      /\ \A k : CommandWord(k)' = CommandWord(k)
  BY DEF streamState, CommandWord, CommandByte
<1>2. IcapStreamExact'
  BY <1>1 DEF StreamInv, IcapStreamExact, streamState, ReconfStates
<1>3. StreamPlace'
  BY DEF StreamInv, StreamPlace, BeatStart, streamState, ReconfStates
<1>4. StreamBeat'
  BY DEF StreamInv, StreamBeat, HbmBeat, streamState, ReconfStates
<1>. QED
  BY <1>2, <1>3, <1>4 DEF StreamInv

LEMMA NotLoading ==
  ASSUME state' \notin ReconfStates
  PROVE  StreamInv'
  BY DEF StreamInv, StreamPlace, StreamBeat, IcapStreamExact, ReconfStates

LEMMA ReconfKeepsStream ==
  ASSUME TypeOK, LoadInv, LoadInv', NEW c \in Commands, AcceptReconf(c)
  PROVE  StreamInv'
<1>1. /\ cmd' = c /\ icap_log' = <<>> /\ state' = "RECONF_ADDR"
      /\ current_addr' = c.addr
  BY DEF AcceptReconf, AcceptInto, NewCommand
<1>2. c.addr \in Addr
  BY AcceptedAddr DEF AcceptReconf
<1>3. ~m_axis_icap'.valid
  BY <1>1 DEF LoadInv
<1>4. BeatStart' = 0
  BY <1>1 DEF BeatStart
<1>5. 0 * WordBytes = 0
  BY WidthAssumption
<1>6. StreamPlace'
  BY <1>1, <1>2, <1>4, <1>5, AddAddrZero DEF StreamPlace
<1>7. IcapStreamExact'
  BY <1>1, <1>3 DEF IcapStreamExact, LoadInv
<1>. QED
  BY <1>1, <1>6, <1>7 DEF StreamInv, StreamBeat

LEMMA BeatKeepsStream ==
  ASSUME TypeOK, LoadInv, LoadInv', ReadInv, StreamInv, ReconfBeat
  PROVE  StreamInv'
<1>1. /\ state = "RECONF_DATA" /\ state' = "RECONF_STREAM"
      /\ read_data' = HbmBeat(ar.addr) /\ icap_word_index' = 0
      /\ m_axis_icap'.word = SelectIcapWord(HbmBeat(ar.addr), 0)
      /\ m_axis_icap'.last = (icap_words_remaining = 1)
      /\ UNCHANGED <<icap_words_remaining, current_addr, hbm, cmd, icap_log>>
  BY DEF ReconfBeat, history
<1>2. ar.addr = current_addr
  BY <1>1 DEF ReadInv, ReadChannel
<1>3. /\ cmd.addr \in Addr /\ Len(icap_log) \in Nat
      /\ current_addr = AddAddr(cmd.addr, Len(icap_log) * WordBytes)
  BY <1>1 DEF StreamInv, StreamPlace, BeatStart, ReconfStates, TypeOK, HistoryTypes
<1>4. BeatStart' = Len(icap_log)
  BY <1>1, <1>3 DEF BeatStart
<1>5. SelectIcapWord(HbmBeat(current_addr), 0) = CommandWord(Len(icap_log))
  <2>. DEFINE j == Len(icap_log)
  <2>1. j \in Nat /\ 0 \in 0 .. WordsPerBeat - 1 /\ j + 0 = j
        /\ current_addr = AddAddr(cmd.addr, j * WordBytes)
    BY <1>3, WidthAssumption
  <2>. HIDE DEF j
  <2>2. SelectIcapWord(HbmBeat(current_addr), 0) = CommandWord(j + 0)
    BY <1>3, <2>1, StreamWord
  <2>. QED
    BY <2>1, <2>2 DEF j
<1>6. \A k : CommandWord(k)' = CommandWord(k)
  BY <1>1 DEF CommandWord, CommandByte
<1>7. CommandWord(Len(icap_log))' = CommandWord(Len(icap_log))
  BY <1>1 DEF CommandWord, CommandByte
<1>8. HbmBeat(current_addr)' = HbmBeat(current_addr)
  BY <1>1 DEF HbmBeat
<1>9. StreamPlace'
  BY <1>1, <1>3, <1>4 DEF StreamPlace
<1>10. StreamBeat'
  BY <1>1, <1>2, <1>8 DEF StreamBeat
<1>11. IcapStreamExact'
  BY <1>1, <1>2, <1>5, <1>6, <1>7 DEF StreamInv, IcapStreamExact, ReconfStates
<1>. QED
  BY <1>9, <1>10, <1>11 DEF StreamInv

LEMMA WordKeepsStream ==
  ASSUME TypeOK, LoadInv, LoadInv', StreamInv, ReconfWord
  PROVE  StreamInv'
<1>. DEFINE n == Len(icap_log)
            x == icap_word_index
            start == n - x
<1>1. /\ state = "RECONF_STREAM" /\ m_axis_icap.valid
      /\ icap_words_remaining' = icap_words_remaining - 1
      /\ icap_log' = Append(icap_log, m_axis_icap.word)
      /\ UNCHANGED <<hbm, cmd, read_data>>
  BY DEF ReconfWord
<1>2. /\ n \in Nat /\ x \in 0 .. WordsPerBeat - 1 /\ icap_log \in Seq(Word)
      /\ m_axis_icap.word \in Word /\ icap_words_remaining \in Nat
      /\ WordsPerBeat \in Nat /\ WordBytes \in Nat
  BY WidthAssumption DEF TypeOK, HistoryTypes, IcapTypes
<1>3. /\ cmd.addr \in Addr /\ start \in Nat /\ BeatStart = start
      /\ current_addr = AddAddr(cmd.addr, start * WordBytes)
      /\ read_data = HbmBeat(current_addr)
  BY <1>1 DEF StreamInv, StreamPlace, StreamBeat, BeatStart, ReconfStates
<1>4. /\ n + icap_words_remaining = cmd.size \div WordBytes
      /\ \A k \in 1 .. n : icap_log[k] = CommandWord(k - 1)
      /\ m_axis_icap.word = CommandWord(n)
  BY <1>1 DEF StreamInv, IcapStreamExact, ReconfStates
<1>5. /\ Len(icap_log') = n + 1
      /\ \A k \in 1 .. n : icap_log'[k] = icap_log[k]
      /\ icap_log'[n + 1] = m_axis_icap.word
  BY <1>1, <1>2, AppendProperties
<1>6. \A k : CommandWord(k)' = CommandWord(k)
  BY <1>1 DEF CommandWord, CommandByte
<1>7. \A k \in 1 .. Len(icap_log') : icap_log'[k] = CommandWord(k - 1)'
  <2>. SUFFICES ASSUME NEW k \in 1 .. n + 1
                PROVE  icap_log'[k] = CommandWord(k - 1)
    BY <1>5, <1>6
  <2>1. CASE k \in 1 .. n
    BY <1>4, <1>5, <2>1
  <2>2. CASE k = n + 1
    <3>1. k - 1 = n
      BY <1>2, <2>2
    <3>. QED
      BY <1>4, <1>5, <2>2, <3>1
  <2>. QED
    BY <1>2, <2>1, <2>2
<1>8. state' \in ReconfStates =>
        Len(icap_log') + icap_words_remaining' = cmd'.size \div WordBytes
  BY DEF LoadInv
<1>9. CASE icap_words_remaining = 1
  <2>1. state' = "RECONF_WAIT_DONE"
    BY <1>9 DEF ReconfWord
  <2>2. ~m_axis_icap'.valid
    BY <2>1 DEF LoadInv
  <2>. QED
    BY <1>1, <1>3, <1>7, <1>8, <2>1, <2>2 DEF StreamInv, StreamPlace,
       StreamBeat, IcapStreamExact
<1>10. CASE icap_words_remaining # 1 /\ x = WordsPerBeat - 1
  <2>1. state' = "RECONF_ADDR" /\ current_addr' = AddAddr(current_addr, BeatBytes)
    BY <1>10 DEF ReconfWord
  <2>2. ~m_axis_icap'.valid
    BY <2>1 DEF LoadInv
  <2>3. BeatStart' = start + WordsPerBeat /\ BeatStart' \in Nat
    BY <1>2, <1>3, <1>5, <1>10, <2>1 DEF BeatStart
  <2>4. current_addr' = AddAddr(cmd.addr, (start + WordsPerBeat) * WordBytes)
    <3>. HIDE DEF start
    <3>. DEFINE m == start * WordBytes
    <3>1. cmd.addr \in Nat
      BY <1>3, AddrNat
    <3>2. m \in Nat /\ m + BeatBytes = (start + WordsPerBeat) * WordBytes
      BY <1>2, <1>3 DEF BeatBytes
    <3>3. BeatBytes \in Nat
      BY Widths
    <3>4. current_addr' = AddAddr(AddAddr(cmd.addr, m), BeatBytes)
      BY <1>3, <2>1
    <3>. HIDE DEF m
    <3>5. current_addr' = AddAddr(cmd.addr, m + BeatBytes)
      BY <3>1, <3>2, <3>3, <3>4, AddAddrSum
    <3>. QED
      BY <3>2, <3>5
  <2>5. StreamPlace'
    BY <1>1, <1>3, <2>1, <2>3, <2>4 DEF StreamPlace
  <2>. QED
    BY <1>1, <1>7, <1>8, <2>1, <2>2, <2>5 DEF StreamInv, StreamBeat,
       IcapStreamExact, ReconfStates
<1>11. CASE icap_words_remaining # 1 /\ x # WordsPerBeat - 1
  <2>1. /\ icap_word_index' = x + 1
        /\ m_axis_icap'.word = SelectIcapWord(read_data, x + 1)
        /\ m_axis_icap'.last = (icap_words_remaining = 2)
        /\ UNCHANGED <<state, current_addr>>
    BY <1>11 DEF ReconfWord
  <2>2. BeatStart' = start
    BY <1>1, <1>2, <1>5, <2>1 DEF BeatStart
  <2>3. SelectIcapWord(read_data, x + 1) = CommandWord(n + 1)
    <3>. DEFINE y == x + 1
    <3>1. y \in 0 .. WordsPerBeat - 1 /\ start + y = n + 1
      BY <1>2, <1>11
    <3>. HIDE DEF y, start
    <3>2. SelectIcapWord(HbmBeat(AddAddr(cmd.addr, start * WordBytes)), y)
            = CommandWord(start + y)
      BY <1>3, <3>1, StreamWord
    <3>. QED
      BY <1>3, <3>1, <3>2 DEF y
  <2>4. m_axis_icap'.last <=> icap_words_remaining' = 1
    <3>1. icap_words_remaining = 2 <=> icap_words_remaining' = 1
      BY <1>1, <1>2
    <3>. QED
      BY <2>1, <3>1, Zenon
  <2>5. CommandWord(Len(icap_log))' = CommandWord(n + 1)
    BY <1>1, <1>5 DEF CommandWord, CommandByte
  <2>6. StreamPlace'
    BY <1>1, <1>3, <2>1, <2>2 DEF StreamPlace, ReconfStates
  <2>7. HbmBeat(current_addr)' = HbmBeat(current_addr)
    BY <1>1, <2>1 DEF HbmBeat
  <2>8. StreamBeat'
    BY <1>1, <1>3, <2>1, <2>4, <2>7 DEF StreamBeat
  <2>9. IcapStreamExact'
    BY <1>7, <1>8, <2>1, <2>3, <2>4, <2>5 DEF IcapStreamExact
  <2>. QED
    BY <2>6, <2>8, <2>9 DEF StreamInv
<1>. QED
  BY <1>9, <1>10, <1>11

LEMMA LoadDataStep ==
  ASSUME TypeOK, LoadInv, LoadInv', ReadInv, StreamInv, [Next]_vars
  PROVE  StreamInv'
<1>1. CASE UNCHANGED vars
  BY <1>1, StreamFrame DEF vars, icapRegs, history, streamState
<1>2. CASE \E done, err \in BOOLEAN : Wait(done, err)
  BY <1>2, StreamFrame DEF Wait, icapRegs, history, streamState
<1>3. CASE ReadAddrPresent \/ ReadAddrTaken
  <2>1. UNCHANGED streamState
    BY <1>3 DEF ReadAddrPresent, ReadAddrTaken, icapRegs, history, streamState
  <2>2. \/ state' = state
        \/ state = "RECONF_ADDR" /\ state' = "RECONF_DATA"
        \/ state' \notin ReconfStates
    BY <1>3 DEF ReadAddrPresent, ReadAddrTaken, ReconfStates
  <2>. QED
    BY <2>1, <2>2, StreamFrame, NotLoading DEF ReconfStates
<1>4. CASE \/ OtherStep
           \/ \E status \in {"AXI_RRESP", "RLAST"} : ReadFailed(status)
           \/ \E done, err \in BOOLEAN : ReconfDone(done, err)
  <2>1. state' \notin ReconfStates
    BY <1>4, OtherStepFrame DEF ReadFailed, ReconfDone, FinishReconf,
       StartStatus, ReconfStates
  <2>. QED
    BY <2>1, NotLoading
<1>. QED
  BY <1>1, <1>2, <1>3, <1>4, LoadCases, ReconfKeepsStream, BeatKeepsStream,
     WordKeepsStream

(***************************************************************************)
(* What follows                                                            *)
(***************************************************************************)
LEMMA DataInit == Init => DataInv
<1>. SUFFICES ASSUME Init
              PROVE  DataInv
  OBVIOUS
<1>1. WriteInv
  BY DEF Init, WriteInv, WriteBegun, WriteBetweenLines, WriteInLine,
     WriteChannels, WriteComplete, LineStates
<1>2. ReadInv
  BY DEF Init, ReadInv, ReadChannel, ReadBegun, ReadExact, ReadingStates,
     SecondStates
<1>3. StreamInv
  BY DEF Init, StreamInv, StreamPlace, StreamBeat, IcapStreamExact, ReconfStates
<1>. QED
  BY <1>1, <1>2, <1>3 DEF DataInv

LEMMA DataInvariant == Spec => [](CtrlInv /\ DataInv)
<1>1. CtrlInv /\ DataInv /\ [Next]_vars => DataInv'
  <2>. SUFFICES ASSUME CtrlInv, DataInv, [Next]_vars
                PROVE  DataInv'
    OBVIOUS
  <2>1. TypeOK /\ LoadInv /\ WriteInv /\ ReadInv /\ StreamInv
    BY DEF CtrlInv, DataInv
  <2>2. LoadInv'
    BY <2>1, LoadStep
  <2>3. ReadBegun
    BY <2>1 DEF ReadInv
  <2>4. WriteInv' /\ ReadInv' /\ StreamInv'
    BY <2>1, <2>2, <2>3, WriteStep, ReadStep, LoadDataStep
  <2>. QED
    BY <2>4 DEF DataInv
<1>. QED
  BY <1>1, DataInit, CtrlInvariant, PTL DEF Spec

(* All three data paths are exact, whatever the widths, the alignment of   *)
(* the end of the transfer, the contents of HBM and the commands before:   *)
(* ICAP takes the words of the staged range in order and once each, a      *)
(* write that is answered OK has its payload in HBM, and a read returns    *)
(* the bytes of its range, zero-filled.                                    *)
THEOREM BytesCorrect == Spec => []BytesExact
<1>1. DataInv => BytesExact
  BY DEF DataInv, WriteInv, ReadInv, StreamInv, BytesExact
<1>. QED
  BY <1>1, DataInvariant, PTL

(* The beat in flight lies in the range that the command names.            *)
LEMMA BeatInRange ==
  ASSUME TypeOK, WriteInv, state = "WRITE_RESP", NEW k \in 1 .. w.strb
  PROVE  (AddAddr(aw.addr, k - 1) - cmd.addr) % AddrSpace < cmd.size
<1>. DEFINE n == BeatsStored
            m == n + (k - 1)
<1>1. /\ cmd.addr \in Addr /\ cmd.size \in Nat
      /\ remaining_bytes \in 1 .. cmd.size /\ n \in Nat
      /\ line_bytes = NextLineBytes(remaining_bytes)
      /\ half_select => line_bytes > BeatBytes
      /\ aw.addr = AddAddr(cmd.addr, n)
      /\ w.strb = WriteBytesForHalf(line_bytes, half_select)
      /\ w.strb \in 0 .. BeatBytes
  BY BeatInFlight
<1>2. k \in Nat /\ k - 1 \in Nat /\ k <= w.strb /\ w.strb \in Nat
  BY <1>1, Widths
<1>3. n + w.strb <= cmd.size
  <2>1. line_bytes \in Nat /\ line_bytes <= remaining_bytes /\ line_bytes <= LineBytes
    BY <1>1, Widths DEF NextLineBytes, Lesser
  <2>. QED
    BY <1>1, <2>1, Widths DEF BeatsStored, LinesStored, WriteBytesForHalf, Lesser
<1>4. m \in Nat /\ m < cmd.size
  BY <1>1, <1>2, <1>3
<1>5. cmd.addr \in Nat
  BY <1>1, AddrNat
<1>6. AddAddr(aw.addr, k - 1) = AddAddr(cmd.addr, m)
  <2>. HIDE DEF n
  <2>1. AddAddr(AddAddr(cmd.addr, n), k - 1) = AddAddr(cmd.addr, n + (k - 1))
    <3>1. n \in Nat
      BY <1>1
    <3>. QED
      BY <1>2, <1>5, <3>1, AddAddrSum
  <2>. QED
    BY <1>1, <2>1
<1>. HIDE DEF m
<1>. DEFINE place == (AddAddr(cmd.addr, m) - cmd.addr) % AddrSpace
<1>7. place <= m
  BY <1>4, <1>5, AddAddrPlace
<1>8. place \in Int
  <2>1. AddAddr(cmd.addr, m) \in Nat
    BY <1>4, <1>5, AddAddrType, AddrNat
  <2>2. AddAddr(cmd.addr, m) - cmd.addr \in Int
    BY <1>5, <2>1
  <2>. QED
    BY <2>2, Widths
<1>9. place < cmd.size
  <2>. HIDE DEF place
  <2>. QED
    BY <1>1, <1>4, <1>7, <1>8
<1>. QED
  BY <1>6, <1>9

(* HBM changes at the address of the beat in flight, or not at all.        *)
LEMMA MemoryStep ==
  ASSUME Next
  PROVE  \/ UNCHANGED hbm
         \/ state = "WRITE_RESP" /\ hbm' = HbmWritten(aw.addr, w.data, w.strb)
<1>1. CASE WriteFailed \/ WriteStored
  BY <1>1 DEF WriteFailed, WriteStored
<1>2. CASE \/ IdleWait
           \/ \E c \in Commands : AcceptAnswered(c)
           \/ \E c \in Commands : AcceptTransfer(c)
           \/ \E c \in Commands : AcceptReconf(c)
  BY <1>2 DEF IdleWait, AcceptAnswered, AcceptTransfer, AcceptReconf,
     AcceptInto, IdleOutputs
<1>3. CASE \/ WriteWaitData
           \/ \E line \in Lines : WriteTakeLine(line)
           \/ WriteAddrPresent
           \/ WriteAddrTaken
           \/ WriteDataTaken
           \/ ReadAddrPresent
           \/ ReadAddrTaken
           \/ \E status \in {"AXI_RRESP", "RLAST"} : ReadFailed(status)
           \/ ReadFirst
           \/ ReadSecond
  BY <1>3 DEF WriteWaitData, WriteTakeLine, WriteAddrPresent, WriteAddrTaken,
     WriteDataTaken, ReadAddrPresent, ReadAddrTaken, ReadFailed, ReadFirst,
     ReadSecond
<1>4. CASE \/ ReconfBeat
           \/ ReconfWord
           \/ \E done, err \in BOOLEAN : ReconfDone(done, err)
           \/ ResponseTaken
           \/ \E done, err \in BOOLEAN : Wait(done, err)
  BY <1>4 DEF ReconfBeat, ReconfWord, ReconfDone, ResponseTaken, Wait
<1>. QED
  BY <1>1, <1>2, <1>3, <1>4, NextStep DEF Step

(* Whatever the command, its alignment and its length, and however its     *)
(* beats fail, no byte outside the range of a WRITE_HBM changes: padding   *)
(* of the last line is strobed off, and the range wraps with the address.  *)
THEOREM WriteConfinedCorrect == Spec => WriteConfined
<1>. DEFINE Confined == \A a \in Addr : hbm'[a] # hbm[a] =>
                          /\ cmd.op = "WRITE_HBM"
                          /\ (a - cmd.addr) % AddrSpace < cmd.size
<1>1. CtrlInv /\ DataInv /\ [Next]_vars => [Confined]_vars
  <2>. SUFFICES ASSUME CtrlInv, DataInv, Next, NEW a \in Addr, hbm'[a] # hbm[a]
                PROVE  /\ cmd.op = "WRITE_HBM"
                       /\ (a - cmd.addr) % AddrSpace < cmd.size
    OBVIOUS
  <2>1. TypeOK /\ WriteInv
    BY DEF CtrlInv, DataInv
  <2>2. state = "WRITE_RESP" /\ hbm' = HbmWritten(aw.addr, w.data, w.strb)
    BY MemoryStep
  <2>3. /\ hbm \in [Addr -> Byte] /\ aw.addr \in Addr
        /\ w.strb \in 0 .. BeatBytes
    BY <2>1 DEF TypeOK, AxiTypes
  <2>4. PICK k \in 1 .. w.strb : a = AddAddr(aw.addr, k - 1)
    BY <2>2, <2>3, BeatWritten
  <2>5. cmd.op = "WRITE_HBM"
    BY <2>1, <2>2 DEF WriteInv, WriteBegun, LineStates
  <2>. QED
    BY <2>1, <2>2, <2>4, <2>5, BeatInRange
<1>. QED
  BY <1>1, DataInvariant, PTL DEF Spec, WriteConfined
=============================================================================
