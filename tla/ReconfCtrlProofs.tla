-------------------------- MODULE ReconfCtrlProofs --------------------------
(***************************************************************************)
(* What holds of the reconfiguration controller for all widths, slot       *)
(* counts, commands, payloads and memory contents.                         *)
(***************************************************************************)
EXTENDS ReconfCtrl, TLAPS

(* The derived widths are positive.                                        *)
LEMMA Widths ==
  /\ BeatBytes \in Nat \ {0}
  /\ LineBytes \in Nat \ {0}
  /\ AddrSpace \in Nat \ {0}
<1>1. \A a, b \in Nat \ {0} : a * b \in Nat \ {0}
  OBVIOUS
<1>2. BeatBytes \in Nat \ {0}
  BY <1>1, WidthAssumption DEF BeatBytes
<1>3. AddrSpace \in Nat \ {0}
  BY <1>1, <1>2, WidthAssumption DEF AddrSpace
<1>. QED
  BY <1>2, <1>3 DEF LineBytes

(* Address arithmetic stays inside ADDR_WIDTH bits.                        *)
LEMMA AddAddrType ==
  ASSUME NEW a \in Nat, NEW n \in Nat
  PROVE  AddAddr(a, n) \in Addr
<1>1. a + n \in Int
  OBVIOUS
<1>. QED
  BY <1>1, Widths DEF AddAddr, Addr

(* A word selected from a beat lies inside the beat.                       *)
LEMMA SelectType ==
  ASSUME NEW data \in Beat, NEW index \in 0 .. WordsPerBeat - 1
  PROVE  SelectIcapWord(data, index) \in Word
<1>1. \A i \in 1 .. WordBytes : index * WordBytes + i \in 1 .. BeatBytes
  <2>. SUFFICES ASSUME NEW i \in 1 .. WordBytes
                PROVE  index * WordBytes + i \in 1 .. BeatBytes
    OBVIOUS
  <2>1. index \in Nat /\ WordBytes \in Nat /\ WordsPerBeat \in Nat /\ i \in Nat
    BY WidthAssumption
  <2>2. (index + 1) * WordBytes <= WordsPerBeat * WordBytes
    BY <2>1
  <2>3. (index + 1) * WordBytes = index * WordBytes + WordBytes
    BY <2>1
  <2>4. index * WordBytes \in Nat
    BY <2>1
  <2>. QED
    BY <2>1, <2>2, <2>3, <2>4, Widths DEF BeatBytes
<1>. QED
  BY <1>1 DEF SelectIcapWord, Word, Beat

(* The slices of lines and beats have their width.                         *)
LEMMA SliceType ==
  /\ ZeroBeat \in Beat
  /\ ZeroLine \in Line
  /\ \A line \in Line, half \in BOOLEAN : HalfLine(line, half) \in Beat
  /\ \A low, high \in Beat : JoinBeats(low, high) \in Line
  /\ \A data \in Beat, n \in Nat : MaskData(data, n) \in Beat
<1>1. ZeroBeat \in Beat /\ ZeroLine \in Line
  BY DEF ZeroBeat, ZeroLine, Beat, Line, Byte
<1>2. \A line \in Line, half \in BOOLEAN : HalfLine(line, half) \in Beat
  BY Widths DEF HalfLine, Beat, Line, LineBytes
<1>3. \A low, high \in Beat : JoinBeats(low, high) \in Line
  BY Widths DEF JoinBeats, Beat, Line, LineBytes
<1>4. \A data \in Beat, n \in Nat : MaskData(data, n) \in Beat
  BY DEF MaskData, Beat, Byte
<1>. QED
  BY <1>1, <1>2, <1>3, <1>4

(* What HBM returns and what a beat leaves behind are memory contents.     *)
LEMMA HbmType ==
  ASSUME hbm \in [Addr -> Byte], NEW addr \in Addr
  PROVE  /\ HbmBeat(addr) \in Beat
         /\ \A data \in Beat, n \in 0 .. BeatBytes :
              HbmWritten(addr, data, n) \in [Addr -> Byte]
<1>0. addr \in Nat
  BY Widths DEF Addr
<1>1. \A i \in 1 .. BeatBytes : AddAddr(addr, i - 1) \in Addr
  BY <1>0, AddAddrType
<1>2. HbmBeat(addr) \in Beat
  BY <1>1 DEF HbmBeat, Beat
<1>3. ASSUME NEW data \in Beat, NEW n \in 0 .. BeatBytes
      PROVE  HbmWritten(addr, data, n) \in [Addr -> Byte]
  <2>1. \A a \in Addr : (\E i \in 1 .. n : a = AddAddr(addr, i - 1)) =>
          data[CHOOSE i \in 1 .. n : a = AddAddr(addr, i - 1)] \in Byte
    <3>. SUFFICES ASSUME NEW a \in Addr,
                         \E i \in 1 .. n : a = AddAddr(addr, i - 1)
                  PROVE  data[CHOOSE i \in 1 .. n : a = AddAddr(addr, i - 1)] \in Byte
      OBVIOUS
    <3>1. (CHOOSE i \in 1 .. n : a = AddAddr(addr, i - 1)) \in 1 .. n
      OBVIOUS
    <3>2. 1 .. n \subseteq 1 .. BeatBytes
      BY Widths
    <3>. QED
      BY <3>1, <3>2 DEF Beat
  <2>. QED
    BY <2>1 DEF HbmWritten
<1>. QED
  BY <1>2, <1>3

(* Every edge, whatever else it does, keeps the latches in their range.    *)
LEMMA LatchStep ==
  ASSUME LatchTypes, SlotTypes, NEW done \in BOOLEAN, NEW err \in BOOLEAN,
         Latch(done, err)
  PROVE  LatchTypes'
  BY WidthAssumption DEF LatchTypes, SlotTypes, Latch, Lesser

(* The response lines are well formed.                                     *)
LEMMA ResponseType ==
  /\ \A e \in Errors : StatusLine(e) \in ResponseLine
  /\ \A line \in Line : DataLine(line) \in ResponseLine
  /\ TypeOK => QueryLine \in ResponseLine
<1>1. \A e \in Errors : StatusLine(e) \in ResponseLine
  BY DEF StatusLine, ResponseLine
<1>2. \A line \in Line : DataLine(line) \in ResponseLine
  BY DEF DataLine, ResponseLine
<1>3. TypeOK => QueryLine \in ResponseLine
  BY WidthAssumption DEF QueryLine, ResponseLine, TypeOK, StreamTypes,
     SlotTypes, LatchTypes
<1>. QED
  BY <1>1, <1>2, <1>3

LEMMA RespondType ==
  ASSUME NEW r \in ResponseLine, Respond(r)
  PROVE  m_axis' \in [valid : BOOLEAN, data : ResponseLine]
  BY DEF Respond

(* The payload of a write is a sequence of bytes.                          *)
LEMMA PayloadType ==
  ASSUME NEW p \in Seq(Byte), NEW line \in Line
  PROVE  p \o line \in Seq(Byte)
<1>1. line \in Seq(Byte)
  BY Widths DEF Line
<1>. QED
  BY <1>1

(* The counts of bytes in a line and in its halves.                        *)
LEMMA CountType ==
  /\ \A n \in Nat : NextLineBytes(n) \in 0 .. LineBytes
  /\ \A n \in 0 .. LineBytes, half \in BOOLEAN :
       WriteBytesForHalf(n, half) \in 0 .. BeatBytes
  BY Widths DEF NextLineBytes, WriteBytesForHalf, Lesser, LineBytes

(* A command that passes the checks has an address, a slot and a size the  *)
(* controller can handle.                                                  *)
LEMMA AcceptedAddr ==
  ASSUME NEW c \in Commands, Validate(c) = "OK", c.op # "QUERY_STATUS"
  PROVE  c.addr \in Addr
  BY InputAssumption, Widths DEF Validate, CommandLine, Addr

LEMMA AcceptedSlot ==
  ASSUME NEW c \in Commands, Validate(c) = "OK", c.op = "RECONF_ICAP"
  PROVE  c.slot \in Slots
  BY InputAssumption, WidthAssumption DEF Validate, CommandLine, Slots

LEMMA AcceptedSize ==
  ASSUME NEW c \in Commands, Validate(c) = "OK", c.op = "RECONF_ICAP"
  PROVE  c.size \div WordBytes \in Nat \ {0}
<1>1. c.size \in Nat \ {0} /\ c.size % WordBytes = 0
  BY InputAssumption DEF Validate, CommandLine
<1>2. WordBytes \in Nat \ {0}
  BY WidthAssumption
<1>3. \A n, d \in Nat \ {0} : n % d = 0 => n \div d \in Nat \ {0}
  OBVIOUS
<1>. QED
  BY <1>1, <1>2, <1>3

LEMMA AddrNat == Addr \subseteq Nat
  BY Widths DEF Addr

(* The actions of Next, without what the edge latches.                     *)
Step ==
  \/ IdleWait
  \/ \E c \in Commands : AcceptAnswered(c)
  \/ \E c \in Commands : AcceptTransfer(c)
  \/ \E c \in Commands : AcceptReconf(c)
  \/ WriteWaitData
  \/ \E line \in Lines : WriteTakeLine(line)
  \/ WriteAddrPresent
  \/ WriteAddrTaken
  \/ WriteDataTaken
  \/ WriteFailed
  \/ WriteStored
  \/ ReadAddrPresent
  \/ ReadAddrTaken
  \/ \E status \in {"AXI_RRESP", "RLAST"} : ReadFailed(status)
  \/ ReadFirst
  \/ ReadSecond
  \/ ReconfBeat
  \/ ReconfWord
  \/ \E done, err \in BOOLEAN : ReconfDone(done, err)
  \/ ResponseTaken
  \/ \E done, err \in BOOLEAN : Wait(done, err)

LEMMA NextStep == Next => Step
  BY DEF Next, Edge, Step

(* The state and the response stream.                                      *)
LEMMA StreamStep == TypeOK /\ LoadInv /\ Step => StreamTypes'
<1>. SUFFICES ASSUME TypeOK, LoadInv, Step
              PROVE  StreamTypes'
  OBVIOUS
<1>0. StreamTypes /\ AxiTypes /\ IcapTypes /\ SlotTypes /\ LatchTypes
      /\ HistoryTypes
  BY DEF TypeOK
<1>1. CASE IdleWait
  BY <1>0, <1>1 DEF IdleWait, IdleOutputs, history, slotRegs, StreamTypes,
     States
<1>2. CASE \E c \in Commands : AcceptAnswered(c)
  <2>. PICK c \in Commands : AcceptAnswered(c)
    BY <1>2
  <2>1. Validate(c) \in Errors
    BY DEF Validate, Errors
  <2>2. (\E r \in ResponseLine : Respond(r)) /\ last_error' \in Errors
    <3>1. CASE c.op = "QUERY_STATUS"
      BY <1>0, <3>1, ResponseType DEF AcceptAnswered, StartQueryStatus,
         StreamTypes
    <3>2. CASE c.op # "QUERY_STATUS"
      BY <2>1, <3>2, ResponseType DEF AcceptAnswered, StartStatus
    <3>. QED
      BY <3>1, <3>2
  <2>3. state' = "SEND_STATUS" /\ s_axis_tready' = FALSE
    BY DEF AcceptAnswered, AcceptInto, StartStatus, StartQueryStatus
  <2>4. m_axis' \in [valid : BOOLEAN, data : ResponseLine]
    BY <2>2, RespondType
  <2>5. state' \in States /\ s_axis_tready' \in BOOLEAN
    BY <2>3 DEF States
  <2>. QED
    BY <2>2, <2>4, <2>5 DEF StreamTypes
<1>3. CASE \E c \in Commands : AcceptTransfer(c)
  BY <1>0, <1>3 DEF AcceptTransfer, AcceptInto, slotRegs, IdleOutputs,
     NewCommand, StreamTypes, States
<1>4. CASE \E c \in Commands : AcceptReconf(c)
  BY <1>0, <1>4 DEF AcceptReconf, AcceptInto, IdleOutputs, NewCommand,
     StreamTypes, States
<1>5. CASE WriteWaitData
  BY <1>0, <1>5 DEF WriteWaitData, readRegs, history, icapRegs, writeRegs,
     slotRegs, StreamTypes, States
<1>6. CASE \E line \in Lines : WriteTakeLine(line)
  BY <1>0, <1>6 DEF WriteTakeLine, readRegs, icapRegs, slotRegs, StreamTypes,
     States
<1>7. CASE WriteAddrPresent
  BY <1>0, <1>7 DEF WriteAddrPresent, readRegs, history, icapRegs, slotRegs,
     StreamTypes, States
<1>8. CASE WriteAddrTaken
  BY <1>0, <1>8 DEF WriteAddrTaken, readRegs, history, icapRegs, slotRegs,
     StreamTypes, States
<1>9. CASE WriteDataTaken
  BY <1>0, <1>9 DEF WriteDataTaken, readRegs, history, icapRegs, slotRegs,
     StreamTypes, States
<1>10. CASE WriteFailed
  BY <1>0, <1>10, ResponseType DEF WriteFailed, StartStatus, readRegs,
     history, icapRegs, slotRegs, Respond, StreamTypes, Errors, States
<1>11. CASE WriteStored
  <2>1. StatusLine("OK") \in ResponseLine /\ "OK" \in Errors
    BY ResponseType DEF Errors
  <2>2. CASE StartStatus("OK")
    BY <1>0, <1>11, <2>1, <2>2 DEF WriteStored, StreamTypes, StartStatus,
       Respond, States
  <2>3. CASE ~StartStatus("OK")
    BY <1>0, <1>11, <2>3 DEF WriteStored, StreamTypes, States
  <2>. QED
    BY <2>2, <2>3
<1>12. CASE ReadAddrPresent
  BY <1>0, <1>12 DEF ReadAddrPresent, history, icapRegs, writeRegs, slotRegs,
     StreamTypes, States
<1>13. CASE ReadAddrTaken
  BY <1>0, <1>13 DEF ReadAddrTaken, history, icapRegs, writeRegs, slotRegs,
     StreamTypes, States
<1>14. CASE \E status \in {"AXI_RRESP", "RLAST"} : ReadFailed(status)
  BY <1>0, <1>14, ResponseType DEF ReadFailed, StartStatus, icapRegs,
     writeRegs, slotRegs, Respond, StreamTypes, Errors, States
<1>15. CASE ReadFirst
  <2>1. HbmBeat(ar.addr) \in Beat
    BY <1>0, HbmType DEF AxiTypes
  <2>2. ReadFirstByteCount(remaining_bytes) \in Nat
    BY <1>0, Widths DEF AxiTypes, ReadFirstByteCount, Lesser
  <2>3. read_response' \in Beat
    BY <1>15, <2>1, <2>2, SliceType DEF ReadFirst
  <2>4. DataLine(JoinBeats(read_response', ZeroBeat)) \in ResponseLine
    BY <2>3, SliceType, ResponseType
  <2>. QED
    <3>1. m_axis' \in [valid : BOOLEAN, data : ResponseLine]
      <4>1. CASE remaining_bytes > BeatBytes
        BY <1>0, <1>15, <4>1, Widths DEF ReadFirst, StreamTypes, AxiTypes
      <4>2. CASE remaining_bytes <= BeatBytes
        <5>1. Respond(DataLine(JoinBeats(read_response', ZeroBeat)))
          BY <1>0, <1>15, <4>2, Widths DEF ReadFirst, AxiTypes
        <5>. QED
          BY <2>4, <5>1, RespondType
      <4>. QED
        BY <1>0, <4>1, <4>2, Widths DEF AxiTypes
    <3>2. state' \in States /\ UNCHANGED <<s_axis_tready, last_error>>
      BY <1>15 DEF ReadFirst, States
    <3>. QED
      BY <1>0, <3>1, <3>2 DEF StreamTypes
<1>16. CASE ReadSecond
  <2>1. HbmBeat(ar.addr) \in Beat /\ read_response \in Beat
    BY <1>0, HbmType DEF AxiTypes
  <2>. DEFINE n == ReadSecondByteCount(remaining_bytes)
              high == MaskData(HbmBeat(ar.addr), n)
  <2>2. high \in Beat
    BY <2>1 DEF MaskData, Beat, Byte
  <2>3. DataLine(JoinBeats(read_response, high)) \in ResponseLine
    BY <2>1, <2>2, SliceType, ResponseType
  <2>. QED
    BY <1>0, <1>16, <2>3 DEF ReadSecond, Respond, StreamTypes, States
<1>17. CASE ReconfBeat
  BY <1>0, <1>17 DEF ReconfBeat, history, writeRegs, slotRegs, StreamTypes,
     States
<1>18. CASE ReconfWord
  BY <1>0, <1>18 DEF ReconfWord, readRegs, writeRegs, slotRegs, StreamTypes,
     States
<1>19. CASE \E done, err \in BOOLEAN : ReconfDone(done, err)
  <2>1. \A e \in {"OK", "ICAP"} : StatusLine(e) \in ResponseLine /\ e \in Errors
    BY ResponseType DEF Errors
  <2>2. \E e \in {"OK", "ICAP"} : StartStatus(e)
    BY <1>19 DEF ReconfDone, FinishReconf
  <2>3. UNCHANGED s_axis_tready
    BY <1>19 DEF ReconfDone
  <2>. QED
    BY <1>0, <2>1, <2>2, <2>3 DEF StreamTypes, StartStatus, Respond, States
<1>20. CASE ResponseTaken
  BY <1>0, <1>20 DEF ResponseTaken, readRegs, icapRegs, writeRegs, slotRegs,
     StreamTypes, States
<1>21. CASE \E done, err \in BOOLEAN : Wait(done, err)
  BY <1>0, <1>21 DEF Wait, readRegs, history, icapRegs, writeRegs, slotRegs,
     StreamTypes, States
<1>. QED
  BY <1>1, <1>2, <1>3, <1>4, <1>5, <1>6, <1>7, <1>8, <1>9, <1>10, <1>11,
     <1>12, <1>13, <1>14, <1>15, <1>16, <1>17, <1>18, <1>19, <1>20, <1>21 DEF Step

(* The AXI channels, the line being written and the memory.                *)
LEMMA AxiStep == TypeOK /\ LoadInv /\ Step => AxiTypes'
<1>. SUFFICES ASSUME TypeOK, LoadInv, Step
              PROVE  AxiTypes'
  OBVIOUS
<1>0. StreamTypes /\ AxiTypes /\ IcapTypes /\ SlotTypes /\ LatchTypes
      /\ HistoryTypes
  BY DEF TypeOK
<1>1. CASE IdleWait
  BY <1>0, <1>1 DEF IdleWait, IdleOutputs, history, slotRegs, AxiTypes
<1>2. CASE \E c \in Commands : AcceptAnswered(c)
  BY <1>0, <1>2 DEF AcceptAnswered, AcceptInto, StartStatus, StartQueryStatus,
     slotRegs, Respond, IdleOutputs, NewCommand, AxiTypes
<1>3. CASE \E c \in Commands : AcceptTransfer(c)
  <2>. PICK c \in Commands : AcceptTransfer(c)
    BY <1>3
  <2>1. c.addr \in Addr /\ c.size \in Nat
    BY AcceptedAddr, InputAssumption DEF AcceptTransfer, CommandLine
  <2>2. read_response' \in Beat
    BY <1>0, SliceType DEF AcceptTransfer, AxiTypes
  <2>3. IdleOutputs /\ current_addr' = c.addr /\ remaining_bytes' = c.size
    BY DEF AcceptTransfer, AcceptInto
  <2>. QED
    BY <1>0, <2>1, <2>2, <2>3 DEF IdleOutputs, AxiTypes
<1>4. CASE \E c \in Commands : AcceptReconf(c)
  <2>. PICK c \in Commands : AcceptReconf(c)
    BY <1>4
  <2>1. c.addr \in Addr
    BY AcceptedAddr DEF AcceptReconf
  <2>2. IdleOutputs /\ current_addr' = c.addr
        /\ UNCHANGED <<read_response, remaining_bytes>>
    BY DEF AcceptReconf, AcceptInto
  <2>. QED
    BY <1>0, <2>1, <2>2 DEF IdleOutputs, AxiTypes
<1>5. CASE \E line \in Lines : WriteTakeLine(line)
  BY <1>0, <1>5, CountType, InputAssumption DEF WriteTakeLine, readRegs,
     icapRegs, slotRegs, AxiTypes
<1>6. CASE WriteAddrPresent
  BY <1>0, <1>6, AddAddrType, Widths, AddrNat DEF WriteAddrPresent, readRegs,
     history, icapRegs, slotRegs, AxiTypes
<1>7. CASE WriteAddrTaken
  BY <1>0, <1>7, CountType, SliceType DEF WriteAddrTaken, readRegs, history,
     icapRegs, slotRegs, AxiTypes
<1>8. CASE WriteDataTaken
  BY <1>0, <1>8 DEF WriteDataTaken, readRegs, history, icapRegs, slotRegs,
     AxiTypes
<1>9. CASE WriteFailed
  <2>1. HbmWritten(aw.addr, w.data, w.strb) \in [Addr -> Byte]
    BY <1>0, HbmType DEF AxiTypes
  <2>2. hbm' \in [Addr -> Byte]
    BY <1>0, <1>9, <2>1 DEF WriteFailed, AxiTypes
  <2>. QED
    BY <1>0, <1>9, <2>2 DEF WriteFailed, readRegs, AxiTypes
<1>10. CASE WriteStored
  <2>1. HbmWritten(aw.addr, w.data, w.strb) \in [Addr -> Byte]
    BY <1>0, HbmType DEF AxiTypes
  <2>2. AddAddr(current_addr, line_bytes) \in Addr
    BY <1>0, AddAddrType, AddrNat, Widths DEF AxiTypes
  <2>3. current_addr' \in Addr /\ remaining_bytes' \in Nat
        /\ half_select' \in BOOLEAN
    <3>1. current_addr' \in Addr
      BY <1>0, <1>10, <2>2 DEF WriteStored, AxiTypes
    <3>2. remaining_bytes' \in Nat
      BY <1>0, <1>10, Widths DEF WriteStored, AxiTypes
    <3>3. half_select' \in BOOLEAN
      BY <1>0, <1>10 DEF WriteStored, AxiTypes
    <3>. QED
      BY <3>1, <3>2, <3>3
  <2>4. hbm' \in [Addr -> Byte] /\ bready' \in BOOLEAN
    BY <1>10, <2>1 DEF WriteStored
  <2>5. UNCHANGED <<aw, w, data_line, line_bytes, readRegs>>
    BY <1>10 DEF WriteStored
  <2>. QED
    BY <1>0, <2>3, <2>4, <2>5 DEF AxiTypes, readRegs
<1>11. CASE ReadAddrPresent
  BY <1>0, <1>11, AddAddrType, Widths, AddrNat DEF ReadAddrPresent, history,
     icapRegs, writeRegs, slotRegs, AxiTypes, ReadAddress
<1>12. CASE ReadAddrTaken
  BY <1>0, <1>12 DEF ReadAddrTaken, history, icapRegs, writeRegs, slotRegs,
     AxiTypes
<1>13. CASE \E status \in {"AXI_RRESP", "RLAST"} : ReadFailed(status)
  BY <1>0, <1>13 DEF ReadFailed, StartStatus, icapRegs, writeRegs, slotRegs,
     Respond, AxiTypes
<1>14. CASE ReadFirst
  <2>1. HbmBeat(ar.addr) \in Beat
    BY <1>0, HbmType DEF AxiTypes
  <2>2. MaskData(HbmBeat(ar.addr), ReadFirstByteCount(remaining_bytes)) \in Beat
    BY <2>1 DEF MaskData, Beat, Byte
  <2>. QED
    BY <1>0, <1>14, <2>2 DEF ReadFirst, writeRegs, AxiTypes
<1>15. CASE ReadSecond
  BY <1>0, <1>15 DEF ReadSecond, Respond, history, icapRegs, writeRegs,
     slotRegs, AxiTypes
<1>16. CASE ReconfBeat
  BY <1>0, <1>16 DEF ReconfBeat, history, writeRegs, slotRegs, AxiTypes
<1>17. CASE ReconfWord
  <2>1. AddAddr(current_addr, BeatBytes) \in Addr
    BY <1>0, AddAddrType, AddrNat, Widths DEF AxiTypes
  <2>2. current_addr' \in Addr
    BY <1>0, <1>17, <2>1 DEF ReconfWord, AxiTypes
  <2>3. UNCHANGED <<writeRegs, readRegs, remaining_bytes, hbm>>
    BY <1>17 DEF ReconfWord
  <2>. QED
    BY <1>0, <2>2, <2>3 DEF writeRegs, readRegs, AxiTypes
<1>18. CASE \/ WriteWaitData
            \/ \E done, err \in BOOLEAN : ReconfDone(done, err)
            \/ ResponseTaken
            \/ \E done, err \in BOOLEAN : Wait(done, err)
  BY <1>0, <1>18 DEF WriteWaitData, readRegs, history, icapRegs, writeRegs,
     slotRegs, ReconfDone, FinishReconf, StartStatus, Respond, ResponseTaken,
     Wait, AxiTypes
<1>. QED
  BY <1>1, <1>2, <1>3, <1>4, <1>5, <1>6, <1>7, <1>8, <1>9, <1>10, <1>11,
     <1>12, <1>13, <1>14, <1>15, <1>16, <1>17, <1>18 DEF Step

(* The ICAP stream: the word index stays in the beat, the count above zero. *)
LEMMA IcapStep == TypeOK /\ LoadInv /\ Step => IcapTypes'
<1>. SUFFICES ASSUME TypeOK, LoadInv, Step
              PROVE  IcapTypes'
  OBVIOUS
<1>0. StreamTypes /\ AxiTypes /\ IcapTypes /\ SlotTypes /\ LatchTypes
      /\ HistoryTypes
  BY DEF TypeOK
<1>1. CASE IdleWait
  BY <1>0, <1>1 DEF IdleWait, IdleOutputs, history, slotRegs, IcapTypes
<1>2. CASE \E c \in Commands : AcceptAnswered(c)
  BY <1>0, <1>2 DEF AcceptAnswered, AcceptInto, StartStatus, StartQueryStatus,
     slotRegs, Respond, IdleOutputs, NewCommand, IcapTypes
<1>3. CASE \E c \in Commands : AcceptTransfer(c)
  BY <1>0, <1>3 DEF AcceptTransfer, AcceptInto, slotRegs, IdleOutputs,
     NewCommand, IcapTypes
<1>4. CASE \E c \in Commands : AcceptReconf(c)
  <2>. PICK c \in Commands : AcceptReconf(c)
    BY <1>4
  <2>1. c.size \div WordBytes \in Nat
    BY AcceptedSize DEF AcceptReconf
  <2>2. IdleOutputs /\ icap_words_remaining' = c.size \div WordBytes
        /\ icap_word_index' = 0
    BY DEF AcceptReconf, AcceptInto
  <2>. QED
    <3>1. icap_word_index' \in 0 .. WordsPerBeat - 1
      BY <2>2, WidthAssumption
    <3>2. m_axis_icap' \in [valid : BOOLEAN, word : Word, last : BOOLEAN]
      BY <1>0, <2>2 DEF IdleOutputs, IcapTypes
    <3>. QED
      BY <1>0, <2>1, <2>2, <3>1, <3>2 DEF IdleOutputs, IcapTypes
<1>5. CASE ReconfBeat
  BY <1>0, <1>5, HbmType, SelectType, WidthAssumption DEF ReconfBeat, history,
     writeRegs, slotRegs, IcapTypes, AxiTypes
<1>6. CASE ReconfWord
  <2>1. icap_words_remaining # 0
    BY <1>6 DEF ReconfWord, LoadInv, ReconfStates
  <2>2. icap_words_remaining' \in Nat /\ read_data' \in Beat
    BY <1>0, <1>6, <2>1 DEF ReconfWord, IcapTypes
  <2>3. CASE icap_words_remaining = 1 \/ icap_word_index = WordsPerBeat - 1
    <3>1. m_axis_icap' = [m_axis_icap EXCEPT !.valid = FALSE, !.last = FALSE]
          /\ icap_word_index' \in {0, icap_word_index}
      BY <1>6, <2>3 DEF ReconfWord
    <3>2. icap_word_index' \in 0 .. WordsPerBeat - 1
      BY <1>0, <3>1, WidthAssumption DEF IcapTypes
    <3>3. m_axis_icap' \in [valid : BOOLEAN, word : Word, last : BOOLEAN]
      BY <1>0, <3>1 DEF IcapTypes
    <3>. QED
      BY <2>2, <3>2, <3>3 DEF IcapTypes
  <2>4. CASE icap_words_remaining # 1 /\ icap_word_index # WordsPerBeat - 1
    <3>1. icap_word_index' = icap_word_index + 1
          /\ m_axis_icap' = [valid |-> TRUE,
               word |-> SelectIcapWord(read_data, icap_word_index + 1),
               last |-> icap_words_remaining = 2]
      BY <1>6, <2>4 DEF ReconfWord
    <3>2. icap_word_index + 1 \in 0 .. WordsPerBeat - 1
      BY <1>0, <2>4, WidthAssumption DEF IcapTypes
    <3>3. SelectIcapWord(read_data, icap_word_index + 1) \in Word
      BY <1>0, <3>2, SelectType DEF IcapTypes
    <3>. QED
      BY <2>2, <3>1, <3>2, <3>3 DEF IcapTypes
  <2>. QED
    BY <2>3, <2>4
<1>7. CASE \/ WriteWaitData
           \/ \E line \in Lines : WriteTakeLine(line)
           \/ WriteAddrPresent
           \/ WriteAddrTaken
           \/ WriteDataTaken
           \/ WriteFailed
           \/ WriteStored
           \/ ReadAddrPresent
           \/ ReadAddrTaken
           \/ \E status \in {"AXI_RRESP", "RLAST"} : ReadFailed(status)
           \/ ReadFirst
           \/ ReadSecond
           \/ \E done, err \in BOOLEAN : ReconfDone(done, err)
           \/ ResponseTaken
           \/ \E done, err \in BOOLEAN : Wait(done, err)
  BY <1>0, <1>7 DEF WriteWaitData, readRegs, history, icapRegs, writeRegs,
     slotRegs, WriteTakeLine, WriteAddrPresent, WriteAddrTaken,
     WriteDataTaken, WriteFailed, StartStatus, Respond, WriteStored,
     ReadAddrPresent, ReadAddrTaken, ReadFailed, ReadFirst, ReadSecond,
     ReconfDone, FinishReconf, ResponseTaken, Wait, IcapTypes
<1>. QED
  BY <1>1, <1>2, <1>3, <1>4, <1>5, <1>6, <1>7 DEF Step

(* The isolation of the slots.                                             *)
LEMMA SlotStep == TypeOK /\ LoadInv /\ Step => SlotTypes'
<1>. SUFFICES ASSUME TypeOK, LoadInv, Step
              PROVE  SlotTypes'
  OBVIOUS
<1>0. StreamTypes /\ AxiTypes /\ IcapTypes /\ SlotTypes /\ LatchTypes
      /\ HistoryTypes
  BY DEF TypeOK
<1>1. CASE \E c \in Commands : AcceptReconf(c)
  BY <1>0, <1>1, AcceptedSlot DEF AcceptReconf, AcceptInto, IdleOutputs,
     NewCommand, SlotTypes
<1>2. CASE \E done, err \in BOOLEAN : ReconfDone(done, err)
  BY <1>0, <1>2 DEF ReconfDone, FinishReconf, readRegs, history, icapRegs,
     writeRegs, StartStatus, Respond, SlotTypes, LatchTypes
<1>3. CASE \/ IdleWait
           \/ \E c \in Commands : AcceptAnswered(c)
           \/ \E c \in Commands : AcceptTransfer(c)
           \/ WriteWaitData
           \/ \E line \in Lines : WriteTakeLine(line)
           \/ WriteAddrPresent
           \/ WriteAddrTaken
           \/ WriteDataTaken
           \/ WriteFailed
           \/ WriteStored
           \/ ReadAddrPresent
           \/ ReadAddrTaken
           \/ \E status \in {"AXI_RRESP", "RLAST"} : ReadFailed(status)
           \/ ReadFirst
           \/ ReadSecond
           \/ ReconfBeat
           \/ ReconfWord
           \/ ResponseTaken
           \/ \E done, err \in BOOLEAN : Wait(done, err)
  BY <1>0, <1>3 DEF IdleWait, IdleOutputs, history, slotRegs, AcceptAnswered,
     AcceptInto, StartStatus, StartQueryStatus, Respond, NewCommand,
     AcceptTransfer, WriteWaitData, readRegs, icapRegs, writeRegs,
     WriteTakeLine, WriteAddrPresent, WriteAddrTaken, WriteDataTaken,
     WriteFailed, WriteStored, ReadAddrPresent, ReadAddrTaken, ReadFailed,
     ReadFirst, ReadSecond, ReconfBeat, ReconfWord, ResponseTaken, Wait,
     SlotTypes
<1>. QED
  BY <1>1, <1>2, <1>3 DEF Step

(* The history variables.                                                  *)
LEMMA HistoryStep == TypeOK /\ LoadInv /\ Step => HistoryTypes'
<1>. SUFFICES ASSUME TypeOK, LoadInv, Step
              PROVE  HistoryTypes'
  OBVIOUS
<1>0. StreamTypes /\ AxiTypes /\ IcapTypes /\ SlotTypes /\ LatchTypes
      /\ HistoryTypes
  BY DEF TypeOK
<1>1. CASE \E c \in Commands : AcceptAnswered(c)
  BY <1>0, <1>1, InputAssumption DEF AcceptAnswered, AcceptInto, StartStatus,
     StartQueryStatus, slotRegs, Respond, IdleOutputs, NewCommand,
     HistoryTypes
<1>2. CASE \E c \in Commands : AcceptTransfer(c)
  BY <1>0, <1>2, InputAssumption DEF AcceptTransfer, AcceptInto, slotRegs,
     IdleOutputs, NewCommand, HistoryTypes
<1>3. CASE \E c \in Commands : AcceptReconf(c)
  BY <1>0, <1>3, InputAssumption DEF AcceptReconf, AcceptInto, IdleOutputs,
     NewCommand, HistoryTypes
<1>4. CASE \E line \in Lines : WriteTakeLine(line)
  BY <1>0, <1>4, PayloadType, InputAssumption DEF WriteTakeLine, readRegs,
     icapRegs, slotRegs, HistoryTypes
<1>5. CASE \E status \in {"AXI_RRESP", "RLAST"} : ReadFailed(status)
  BY <1>0, <1>5 DEF ReadFailed, StartStatus, icapRegs, writeRegs, slotRegs,
     Respond, HistoryTypes, SlotTypes
<1>6. CASE ReconfWord
  BY <1>0, <1>6 DEF ReconfWord, readRegs, writeRegs, slotRegs, HistoryTypes,
     IcapTypes
<1>7. CASE ResponseTaken
  BY <1>0, <1>7 DEF ResponseTaken, readRegs, icapRegs, writeRegs, slotRegs,
     HistoryTypes
<1>8. CASE \/ IdleWait
           \/ WriteWaitData
           \/ WriteAddrPresent
           \/ WriteAddrTaken
           \/ WriteDataTaken
           \/ WriteFailed
           \/ WriteStored
           \/ ReadAddrPresent
           \/ ReadAddrTaken
           \/ ReadFirst
           \/ ReadSecond
           \/ ReconfBeat
           \/ \E done, err \in BOOLEAN : ReconfDone(done, err)
           \/ \E done, err \in BOOLEAN : Wait(done, err)
  BY <1>0, <1>8 DEF IdleWait, IdleOutputs, history, slotRegs, WriteWaitData,
     readRegs, icapRegs, writeRegs, WriteAddrPresent, WriteAddrTaken,
     WriteDataTaken, WriteFailed, StartStatus, Respond, WriteStored,
     ReadAddrPresent, ReadAddrTaken, ReadFirst, ReadSecond, ReconfBeat,
     ReconfDone, FinishReconf, Wait, HistoryTypes
<1>. QED
  BY <1>1, <1>2, <1>3, <1>4, <1>5, <1>6, <1>7, <1>8 DEF Step

(* The widths of the registers survive every edge.                         *)
LEMMA TypeStep == TypeOK /\ LoadInv /\ [Next]_vars => TypeOK'
<1>. SUFFICES ASSUME TypeOK, LoadInv, [Next]_vars
              PROVE  TypeOK'
  OBVIOUS
<1>1. CASE UNCHANGED vars
  BY <1>1 DEF TypeOK, StreamTypes, AxiTypes, IcapTypes, SlotTypes, LatchTypes,
     HistoryTypes, vars, writeRegs, readRegs, icapRegs, slotRegs, latchRegs,
     history
<1>2. CASE Next
  <2>1. LatchTypes'
    <3>1. (\E done, err \in BOOLEAN : Latch(done, err))
            \/ \E c \in Commands : AcceptReconf(c)
      BY <1>2 DEF Next, Edge, ReconfDone, Wait
    <3>2. CASE \E done, err \in BOOLEAN : Latch(done, err)
      BY <3>2, LatchStep DEF TypeOK
    <3>3. CASE \E c \in Commands : AcceptReconf(c)
      <4>1. reconf_cycles' = 0 /\ icap_pr_done_seen' = FALSE
            /\ icap_pr_err_seen' = FALSE
        BY <3>3 DEF AcceptReconf
      <4>. QED
        <5>1. reconf_cycles' \in 0 .. CycleCap
          BY <4>1, WidthAssumption
        <5>2. icap_pr_done_seen' \in BOOLEAN /\ icap_pr_err_seen' \in BOOLEAN
          BY <4>1
        <5>. QED
          BY <5>1, <5>2 DEF LatchTypes
    <3>. QED
      BY <3>1, <3>2, <3>3
  <2>. QED
    BY <1>2, <2>1, NextStep, StreamStep, AxiStep, IcapStep, SlotStep,
       HistoryStep DEF TypeOK
<1>. QED
  BY <1>1, <1>2

(* The steps that are no part of a load.                                   *)
OtherStep ==
  \/ IdleWait
  \/ \E c \in Commands : AcceptAnswered(c)
  \/ \E c \in Commands : AcceptTransfer(c)
  \/ WriteWaitData
  \/ \E line \in Lines : WriteTakeLine(line)
  \/ WriteAddrPresent
  \/ WriteAddrTaken
  \/ WriteDataTaken
  \/ WriteFailed
  \/ WriteStored
  \/ ReadFirst
  \/ ReadSecond
  \/ ResponseTaken

(* They leave the isolation alone, and begin and end outside a load.       *)
LEMMA OtherStepFrame ==
  OtherStep => /\ state \notin ReconfStates /\ state' \notin ReconfStates
               /\ UNCHANGED <<slot_decouple, aborted, read_data>>
               /\ \/ UNCHANGED m_axis_icap
                  \/ m_axis_icap' =
                       [m_axis_icap EXCEPT !.valid = FALSE, !.last = FALSE]
<1>1. CASE \/ IdleWait
           \/ \E c \in Commands : AcceptAnswered(c)
           \/ \E c \in Commands : AcceptTransfer(c)
  BY <1>1 DEF IdleWait, AcceptAnswered, AcceptTransfer, AcceptInto,
     IdleOutputs, StartStatus, StartQueryStatus, slotRegs, history,
     ReconfStates
<1>2. CASE \/ WriteWaitData
           \/ \E line \in Lines : WriteTakeLine(line)
           \/ WriteAddrPresent
           \/ WriteAddrTaken
           \/ WriteDataTaken
  BY <1>2 DEF WriteWaitData, WriteTakeLine, WriteAddrPresent, WriteAddrTaken,
     WriteDataTaken, icapRegs, slotRegs, history, ReconfStates
<1>3. CASE WriteFailed \/ WriteStored
  BY <1>3 DEF WriteFailed, WriteStored, StartStatus, icapRegs, slotRegs,
     history, ReconfStates
<1>4. CASE ReadFirst \/ ReadSecond \/ ResponseTaken
  BY <1>4 DEF ReadFirst, ReadSecond, ResponseTaken, icapRegs, slotRegs,
     history, ReconfStates
<1>. QED
  BY <1>1, <1>2, <1>3, <1>4 DEF OtherStep

(* Every step is one of those, or a step that a load can take.             *)
LEMMA LoadCases ==
  ASSUME Next
  PROVE  \/ OtherStep
         \/ \E c \in Commands : AcceptReconf(c)
         \/ ReadAddrPresent
         \/ ReadAddrTaken
         \/ \E status \in {"AXI_RRESP", "RLAST"} : ReadFailed(status)
         \/ ReconfBeat
         \/ ReconfWord
         \/ \E done, err \in BOOLEAN : ReconfDone(done, err)
         \/ \E done, err \in BOOLEAN : Wait(done, err)
  BY NextStep DEF Step, OtherStep

(* What a load has behind it and before it stays in balance.               *)
LEMMA LoadStep == TypeOK /\ LoadInv /\ [Next]_vars => LoadInv'
<1>. SUFFICES ASSUME TypeOK, LoadInv, [Next]_vars
              PROVE  LoadInv'
  OBVIOUS
<1>0. IcapTypes /\ SlotTypes /\ HistoryTypes
  BY DEF TypeOK
<1>1. CASE UNCHANGED vars
  BY <1>1 DEF vars, icapRegs, slotRegs, history, LoadInv
<1>2. CASE OtherStep
  BY <1>0, <1>2, OtherStepFrame DEF LoadInv, IcapTypes, ReconfStates
<1>3. CASE \E c \in Commands : AcceptReconf(c)
  <2>. PICK c \in Commands : AcceptReconf(c)
    BY <1>3
  <2>1. c.size \div WordBytes \in Nat \ {0}
    BY AcceptedSize DEF AcceptReconf
  <2>2. /\ cmd' = c /\ icap_log' = <<>> /\ state' = "RECONF_ADDR"
        /\ icap_words_remaining' = c.size \div WordBytes
        /\ active_slot_id' = c.slot /\ reconf_active' /\ c.op = "RECONF_ICAP"
        /\ aborted' = aborted \ {c.slot}
    BY DEF AcceptReconf, AcceptInto, NewCommand
  <2>3. ~m_axis_icap'.valid
    BY <1>0 DEF AcceptReconf, AcceptInto, IdleOutputs, IcapTypes
  <2>. QED
    BY <2>1, <2>2, <2>3 DEF LoadInv, ReconfStates
<1>4. CASE ReadAddrPresent \/ ReadAddrTaken
  BY <1>4 DEF ReadAddrPresent, ReadAddrTaken, icapRegs, slotRegs, history,
     LoadInv, ReconfStates
<1>5. CASE \E status \in {"AXI_RRESP", "RLAST"} : ReadFailed(status)
  BY <1>5 DEF ReadFailed, StartStatus, icapRegs, LoadInv, ReconfStates
<1>6. CASE ReconfBeat
  BY <1>6 DEF ReconfBeat, slotRegs, history, LoadInv, ReconfStates
<1>7. CASE ReconfWord
  <2>1. /\ state = "RECONF_STREAM" /\ m_axis_icap.valid
        /\ icap_words_remaining' = icap_words_remaining - 1
        /\ icap_log' = Append(icap_log, m_axis_icap.word)
        /\ UNCHANGED <<cmd, active_slot_id, reconf_active, aborted>>
    BY <1>7 DEF ReconfWord, slotRegs
  <2>2. /\ icap_words_remaining \in Nat \ {0}
        /\ Len(icap_log) \in Nat /\ Len(icap_log') = Len(icap_log) + 1
    BY <1>0, <2>1 DEF IcapTypes, HistoryTypes, LoadInv, ReconfStates
  <2>3. Len(icap_log') + icap_words_remaining' = cmd.size \div WordBytes
    BY <2>1, <2>2 DEF LoadInv, ReconfStates
  <2>4. /\ state' \in ReconfStates
        /\ state' = "RECONF_WAIT_DONE" <=> icap_words_remaining' = 0
        /\ m_axis_icap'.valid => state' = "RECONF_STREAM"
    <3>. DEFINE off == [m_axis_icap EXCEPT !.valid = FALSE, !.last = FALSE]
    <3>0. ~off.valid
      BY <1>0 DEF IcapTypes
    <3>. HIDE DEF off
    <3>1. CASE icap_words_remaining = 1
      <4>1. state' = "RECONF_WAIT_DONE" /\ m_axis_icap' = off
        BY <1>7, <3>1 DEF ReconfWord, off
      <4>. QED
        BY <2>1, <3>0, <3>1, <4>1 DEF ReconfStates
    <3>2. CASE icap_words_remaining # 1
      <4>1. icap_words_remaining' # 0
        BY <2>1, <2>2, <3>2
      <4>2. \/ state' = "RECONF_ADDR" /\ m_axis_icap' = off
            \/ state' = "RECONF_STREAM"
        BY <1>7, <2>1, <3>2 DEF ReconfWord, off
      <4>. QED
        BY <3>0, <4>1, <4>2 DEF ReconfStates
    <3>. QED
      BY <3>1, <3>2
  <2>. QED
    BY <2>1, <2>3, <2>4 DEF LoadInv, ReconfStates
<1>8. CASE \E done, err \in BOOLEAN : ReconfDone(done, err)
  BY <1>8 DEF ReconfDone, FinishReconf, StartStatus, icapRegs, LoadInv,
     ReconfStates
<1>9. CASE \E done, err \in BOOLEAN : Wait(done, err)
  BY <1>9 DEF Wait, icapRegs, slotRegs, history, LoadInv
<1>. QED
  BY <1>1, <1>2, <1>3, <1>4, <1>5, <1>6, <1>7, <1>8, <1>9, LoadCases

(* Out of reset every register has its width and no load runs.             *)
LEMMA InitTypes == Init => TypeOK /\ LoadInv
<1>. SUFFICES ASSUME Init
              PROVE  TypeOK /\ LoadInv
  OBVIOUS
<1>1. StreamTypes
  <2>1. m_axis = [valid |-> FALSE, data |-> StatusLine("OK")]
    BY DEF Init
  <2>2. StatusLine("OK") \in ResponseLine
    BY ResponseType DEF Errors
  <2>3. m_axis \in [valid : BOOLEAN, data : ResponseLine]
    BY <2>1, <2>2
  <2>. QED
    BY <2>3 DEF Init, StreamTypes, States, Errors
<1>2. AxiTypes
  <2>1. 0 \in Addr /\ 0 \in 0 .. BeatBytes /\ 0 \in 0 .. LineBytes
    BY Widths DEF Addr
  <2>. QED
    BY <2>1, SliceType, InputAssumption DEF Init, AxiTypes
<1>3. IcapTypes
  <2>1. 0 \in 0 .. WordsPerBeat - 1
    BY WidthAssumption
  <2>. QED
    BY <2>1, SliceType, SelectType DEF Init, IcapTypes
<1>4. SlotTypes /\ LatchTypes
  <2>1. 0 \in Slots /\ 0 \in 0 .. CycleCap
    BY WidthAssumption DEF Slots
  <2>. QED
    BY <2>1 DEF Init, SlotTypes, LatchTypes
<1>5. HistoryTypes
  BY DEF Init, HistoryTypes, CommandLine, Opcodes
<1>6. LoadInv
  BY DEF Init, LoadInv, ReconfStates
<1>. QED
  BY <1>1, <1>2, <1>3, <1>4, <1>5, <1>6 DEF TypeOK

(* Every register of the controller keeps to its width: the AXI addresses  *)
(* to ADDR_WIDTH bits, line_bytes to a line, the strobes to a beat, the    *)
(* word index to the words of a beat, and icap_words_remaining never       *)
(* falls below zero.                                                       *)
THEOREM TypeCorrect == Spec => []TypeOK
<1>1. Init => TypeOK /\ LoadInv
  BY InitTypes
<1>2. TypeOK /\ LoadInv /\ [Next]_vars => TypeOK' /\ LoadInv'
  BY TypeStep, LoadStep
<1>. QED
  BY <1>1, <1>2, PTL DEF Spec

(* The balance of a load is an invariant of the controller.                *)
THEOREM LoadCorrect == Spec => []LoadInv
<1>1. Init => TypeOK /\ LoadInv
  BY InitTypes
<1>2. TypeOK /\ LoadInv /\ [Next]_vars => TypeOK' /\ LoadInv'
  BY TypeStep, LoadStep
<1>. QED
  BY <1>1, <1>2, PTL DEF Spec

(* The isolation of a slot has a cause: accepting its load sets the bit,   *)
(* finish_reconf clears it, and a read error turns the one cause into the  *)
(* other.                                                                  *)
LEMMA IsolationStep ==
  TypeOK /\ LoadInv /\ IsolationExplained /\ [Next]_vars => IsolationExplained'
<1>. SUFFICES ASSUME TypeOK, LoadInv, IsolationExplained, [Next]_vars
              PROVE  IsolationExplained'
  OBVIOUS
<1>. DEFINE Cause(s) == s \in aborted \/ (state \in ReconfStates /\ s = active_slot_id)
            P == \A s \in Slots : slot_decouple[s] <=> Cause(s)
<1>a. SlotTypes /\ aborted \subseteq Slots
  BY DEF TypeOK, HistoryTypes
<1>b. SlotTypes' /\ aborted' \subseteq Slots
  BY TypeStep DEF TypeOK, HistoryTypes
<1>c. P
  BY DEF IsolationExplained
<1>. SUFFICES P'
  BY <1>b DEF IsolationExplained, SlotTypes
<1>1. CASE UNCHANGED vars
  BY <1>c, <1>1 DEF vars, slotRegs, history
<1>2. CASE OtherStep
  BY <1>c, <1>2, OtherStepFrame
<1>3. CASE \E c \in Commands : AcceptReconf(c)
  <2>. PICK c \in Commands : AcceptReconf(c)
    BY <1>3
  <2>1. /\ slot_decouple' = [slot_decouple EXCEPT ![c.slot] = TRUE]
        /\ active_slot_id' = c.slot /\ aborted' = aborted \ {c.slot}
        /\ state = "IDLE" /\ state' = "RECONF_ADDR"
    BY DEF AcceptReconf, AcceptInto
  <2>. QED
    BY <1>a, <1>c, <2>1 DEF SlotTypes, ReconfStates
<1>4. CASE ReadAddrPresent \/ ReadAddrTaken \/ ReconfBeat
  BY <1>c, <1>4 DEF ReadAddrPresent, ReadAddrTaken, ReconfBeat, slotRegs,
     history, ReconfStates
<1>5. CASE \E status \in {"AXI_RRESP", "RLAST"} : ReadFailed(status)
  BY <1>c, <1>5 DEF ReadFailed, StartStatus, slotRegs, ReconfStates
<1>6. CASE ReconfWord
  <2>1. UNCHANGED <<slot_decouple, active_slot_id, aborted>>
    BY <1>6 DEF ReconfWord, slotRegs
  <2>2. state \in ReconfStates /\ state' \in ReconfStates
    BY <1>6 DEF ReconfWord, ReconfStates
  <2>. QED
    BY <1>c, <2>1, <2>2
<1>7. CASE \E done, err \in BOOLEAN : ReconfDone(done, err)
  <2>1. /\ slot_decouple' = [slot_decouple EXCEPT ![active_slot_id] = FALSE]
        /\ UNCHANGED aborted
        /\ state = "RECONF_WAIT_DONE" /\ state' = "SEND_STATUS"
    BY <1>7 DEF ReconfDone, FinishReconf, StartStatus, history
  <2>2. active_slot_id \notin aborted
    BY <2>1 DEF LoadInv, ReconfStates
  <2>. QED
    BY <1>a, <1>c, <2>1, <2>2 DEF SlotTypes, ReconfStates
<1>8. CASE \E done, err \in BOOLEAN : Wait(done, err)
  BY <1>c, <1>8 DEF Wait, slotRegs, history
<1>. QED
  BY <1>1, <1>2, <1>3, <1>4, <1>5, <1>6, <1>7, <1>8, LoadCases

(* The registers, the balance and the isolation together are inductive.    *)
CtrlInv == TypeOK /\ LoadInv /\ IsolationExplained

LEMMA CtrlInvariant == Spec => []CtrlInv
<1>1. Init => CtrlInv
  <2>1. Init => IsolationExplained
    BY DEF Init, IsolationExplained, ReconfStates
  <2>. QED
    BY <2>1, InitTypes DEF CtrlInv
<1>2. CtrlInv /\ [Next]_vars => CtrlInv'
  BY TypeStep, LoadStep, IsolationStep DEF CtrlInv
<1>. QED
  BY <1>1, <1>2, PTL DEF Spec

(* A slot is cut off from traffic exactly while its own load runs, or      *)
(* after a load of it that ended in an HBM read error: for any number of   *)
(* slots and any sequence of commands, a load never isolates, keeps        *)
(* isolated or releases another slot.                                      *)
THEOREM IsolationCorrect == Spec => []IsolationExplained
<1>1. CtrlInv => IsolationExplained
  BY DEF CtrlInv
<1>. QED
  BY <1>1, CtrlInvariant, PTL

(* No configuration word is offered to ICAP unless the slot named by the   *)
(* command being served is isolated.                                       *)
THEOREM StreamIsolated == Spec => []StreamIntoIsolatedSlot
<1>1. CtrlInv => StreamIntoIsolatedSlot
  <2>. SUFFICES ASSUME CtrlInv, m_axis_icap.valid
                PROVE  cmd.op = "RECONF_ICAP" /\ slot_decouple[cmd.slot]
    BY DEF StreamIntoIsolatedSlot
  <2>1. state \in ReconfStates
    BY DEF CtrlInv, LoadInv, ReconfStates
  <2>2. cmd.op = "RECONF_ICAP" /\ cmd.slot = active_slot_id
    BY <2>1 DEF CtrlInv, LoadInv
  <2>. QED
    BY <2>1, <2>2 DEF CtrlInv, IsolationExplained
<1>. QED
  BY <1>1, CtrlInvariant, PTL

(* At every moment of a load, the slot named by the command and only that  *)
(* slot is cut off, and ICAP is short of exactly the words still to come,  *)
(* for any number of slots, any sizes and any widths.                      *)
THEOREM LoadsCorrect == Spec => []LoadsSafe
<1>1. LoadInv /\ IsolationExplained /\ StreamIntoIsolatedSlot => LoadsSafe
  BY DEF LoadsSafe
<1>. QED
  BY <1>1, LoadCorrect, IsolationCorrect, StreamIsolated, PTL

(* A slot is reconnected only by the command that names it, and only when  *)
(* ICAP has taken the whole of that command's bitstream.                   *)
THEOREM ReconnectCorrect == Spec => ReconnectAfterWholeStream
<1>. DEFINE Released(s) == slot_decouple[s] /\ ~slot_decouple'[s]
            Whole(s) == /\ cmd.op = "RECONF_ICAP" /\ s = cmd.slot
                        /\ Len(icap_log) = cmd.size \div WordBytes
<1>1. CtrlInv /\ [Next]_vars => [\A s \in Slots : Released(s) => Whole(s)]_vars
  <2>. SUFFICES ASSUME CtrlInv, Next, NEW s \in Slots, Released(s)
                PROVE  Whole(s)
    OBVIOUS
  <2>0. TypeOK /\ LoadInv
    BY DEF CtrlInv
  <2>1. \E done, err \in BOOLEAN : ReconfDone(done, err)
    <3>1. ~OtherStep
      BY OtherStepFrame
    <3>2. ~\E c \in Commands : AcceptReconf(c)
      BY <2>0 DEF TypeOK, SlotTypes, AcceptReconf
    <3>3. ~(ReadAddrPresent \/ ReadAddrTaken \/ ReconfBeat \/ ReconfWord)
      BY DEF ReadAddrPresent, ReadAddrTaken, ReconfBeat, ReconfWord, slotRegs
    <3>4. /\ ~\E status \in {"AXI_RRESP", "RLAST"} : ReadFailed(status)
          /\ ~\E done, err \in BOOLEAN : Wait(done, err)
      BY DEF ReadFailed, Wait, slotRegs
    <3>. QED
      BY <3>1, <3>2, <3>3, <3>4, LoadCases
  <2>2. /\ state = "RECONF_WAIT_DONE"
        /\ slot_decouple' = [slot_decouple EXCEPT ![active_slot_id] = FALSE]
    BY <2>1 DEF ReconfDone, FinishReconf
  <2>3. s = active_slot_id
    BY <2>0, <2>2 DEF TypeOK, SlotTypes
  <2>4. /\ cmd.op = "RECONF_ICAP" /\ cmd.slot = active_slot_id
        /\ icap_words_remaining = 0
        /\ Len(icap_log) + icap_words_remaining = cmd.size \div WordBytes
    BY <2>0, <2>2 DEF LoadInv, ReconfStates
  <2>5. Len(icap_log) \in Nat
    BY <2>0 DEF TypeOK, HistoryTypes
  <2>. QED
    BY <2>3, <2>4, <2>5
<1>. QED
  BY <1>1, CtrlInvariant, PTL DEF Spec, ReconnectAfterWholeStream

(* The controller answers each command exactly once and takes no other     *)
(* command before it has.                                                  *)
THEOREM OneResponse == Spec => []OneResponsePerCommand
<1>1. Init => OneResponsePerCommand
  BY DEF Init, OneResponsePerCommand
<1>2. CtrlInv /\ OneResponsePerCommand /\ [Next]_vars => OneResponsePerCommand'
  <2>. SUFFICES ASSUME CtrlInv, OneResponsePerCommand, [Next]_vars
                PROVE  OneResponsePerCommand'
    OBVIOUS
  <2>0. accepted \in Nat /\ answered \in Nat
    BY DEF CtrlInv, TypeOK, HistoryTypes
  <2>1. CASE UNCHANGED vars
    BY <2>1 DEF vars, history, OneResponsePerCommand
  <2>2. CASE \/ \E c \in Commands : AcceptAnswered(c)
             \/ \E c \in Commands : AcceptTransfer(c)
             \/ \E c \in Commands : AcceptReconf(c)
    <3>1. /\ state = "IDLE" /\ state' # "IDLE"
          /\ accepted' = accepted + 1 /\ answered' = answered
      BY <2>2 DEF AcceptAnswered, AcceptTransfer, AcceptReconf, AcceptInto,
         NewCommand, StartStatus, StartQueryStatus
    <3>. QED
      BY <2>0, <3>1 DEF OneResponsePerCommand
  <2>3. CASE ResponseTaken
    <3>1. /\ state # "IDLE" /\ state' = "IDLE"
          /\ accepted' = accepted /\ answered' = answered + 1
      BY <2>3 DEF ResponseTaken
    <3>. QED
      BY <2>0, <3>1 DEF OneResponsePerCommand
  <2>4. CASE IdleWait
    BY <2>4 DEF IdleWait, history, OneResponsePerCommand
  <2>5. CASE \/ WriteWaitData
             \/ \E line \in Lines : WriteTakeLine(line)
             \/ WriteAddrPresent
             \/ WriteAddrTaken
             \/ WriteDataTaken
             \/ WriteFailed
             \/ WriteStored
             \/ ReadAddrPresent
             \/ ReadAddrTaken
             \/ \E status \in {"AXI_RRESP", "RLAST"} : ReadFailed(status)
             \/ ReadFirst
             \/ ReadSecond
             \/ ReconfBeat
             \/ ReconfWord
             \/ \E done, err \in BOOLEAN : ReconfDone(done, err)
             \/ \E done, err \in BOOLEAN : Wait(done, err)
    <3>1. /\ state # "IDLE" /\ state' # "IDLE"
          /\ UNCHANGED <<accepted, answered>>
      BY <2>5 DEF WriteWaitData, WriteTakeLine, WriteAddrPresent,
         WriteAddrTaken, WriteDataTaken, WriteFailed, WriteStored,
         ReadAddrPresent, ReadAddrTaken, ReadFailed, ReadFirst, ReadSecond,
         ReconfBeat, ReconfWord, ReconfDone, FinishReconf, StartStatus, Wait,
         history
    <3>. QED
      BY <3>1 DEF OneResponsePerCommand
  <2>. QED
    BY <2>1, <2>2, <2>3, <2>4, <2>5, NextStep DEF Step
<1>. QED
  BY <1>1, <1>2, CtrlInvariant, PTL DEF Spec
=============================================================================
