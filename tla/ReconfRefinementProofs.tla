----------------------- MODULE ReconfRefinementProofs -----------------------
(***************************************************************************)
(* The controller implements its service, step by step: every edge of the  *)
(* state machine is an action of ReconfService or changes nothing that the *)
(* service shows.                                                          *)
(***************************************************************************)
EXTENDS ReconfRefinement, ReconfDataProofs

(***************************************************************************)
(* Lines                                                                   *)
(***************************************************************************)
LEMMA LastLine ==
  ASSUME NEW n \in 1 .. LineBytes
  PROVE  LinesFor(n) = 1
<1>. DEFINE r == n - 1
            s == n + LineBytes - 1
<1>1. LineBytes \in Nat \ {0} /\ r \in 0 .. LineBytes - 1 /\ s \in Int
      /\ s = LineBytes * 1 + r
  BY Widths
<1>. HIDE DEF r, s
<1>2. s \div LineBytes = 1
  BY <1>1, DivModUnique
<1>. QED
  BY <1>2 DEF LinesFor, s

(* A line less of bytes is one line less.                                  *)
LEMMA OneLineLess ==
  ASSUME NEW n \in Nat, n > LineBytes
  PROVE  /\ LinesFor(n - LineBytes) = LinesFor(n) - 1
         /\ LinesFor(n) \in Int /\ LinesFor(n) - 1 > 0
<1>. DEFINE m == n - 1
            q == m \div LineBytes
            r == m % LineBytes
            s == n + LineBytes - 1
            q1 == q + 1
<1>1. LineBytes \in Nat \ {0} /\ m \in Int /\ s \in Int
      /\ m >= LineBytes /\ s = m + LineBytes
      /\ (n - LineBytes) + LineBytes - 1 = m
  BY Widths
<1>2. m = LineBytes * q + r /\ r \in 0 .. LineBytes - 1 /\ q \in Int
  <2>. HIDE DEF m
  <2>. QED
    BY <1>1, DivMod
<1>. HIDE DEF m, q, r, s
<1>3. s = LineBytes * q1 + r /\ q1 \in Int
  <2>1. LineBytes * (q + 1) = LineBytes * q + LineBytes
    BY <1>1, <1>2
  <2>. QED
    BY <1>1, <1>2, <2>1
<1>4. s \div LineBytes = q1
  <2>. HIDE DEF q1
  <2>. QED
    BY <1>1, <1>2, <1>3, DivModUnique
<1>5. q > 0
  <2>1. \A a \in Nat \ {0}, b \in Int : b <= 0 => a * b <= 0
    OBVIOUS
  <2>2. LineBytes * q > 0
    BY <1>1, <1>2
  <2>. QED
    BY <1>1, <1>2, <2>1, <2>2
<1>6. LinesFor(n) = q1
  BY <1>4 DEF LinesFor, s
<1>7. LinesFor(n - LineBytes) = q
  BY <1>1 DEF LinesFor, q
<1>. QED
  BY <1>2, <1>5, <1>6, <1>7

LEMMA SomeLine ==
  ASSUME NEW n \in Nat \ {0}
  PROVE  LinesFor(n) \in Nat \ {0}
<1>1. CASE n \in 1 .. LineBytes
  BY <1>1, LastLine
<1>2. CASE n > LineBytes
  BY <1>2, OneLineLess
<1>. QED
  BY <1>1, <1>2, Widths

(***************************************************************************)
(* The mapping, by the state of the controller                             *)
(***************************************************************************)
Shows(p, n, s) ==
  /\ servicePhase = p /\ serviceLines = n /\ serviceLoading = s
  /\ p # "respond" => serviceAnswer = "none"

Mapping ==
  /\ state = "IDLE" => Shows("idle", 0, SlotCount)
  /\ state = "WRITE_WAIT_DATA" =>
       Shows("payload", LinesFor(remaining_bytes), SlotCount)
  /\ state \in LineStates =>
       Shows("busy", LinesFor(remaining_bytes) - 1, SlotCount)
  /\ state \in ReadingStates => Shows("busy", 0, SlotCount)
  /\ state \in ReconfStates => Shows("busy", 0, active_slot_id)
  /\ state \in {"SEND_STATUS", "READ_SEND"} => Shows("respond", 0, SlotCount)

LEMMA MappingHolds == Mapping /\ Mapping'
<1>1. Mapping
  BY DEF Mapping, Shows, servicePhase, serviceLines, serviceLoading,
     serviceAnswer, LineStates, WriteStates, ReadingStates, SecondStates,
     ReconfStates
<1>. QED
  BY <1>1, PTL

(* Nothing that the service shows changes.                                 *)
LEMMA Stutter ==
  ASSUME \/ WriteAddrPresent
         \/ WriteAddrTaken
         \/ WriteDataTaken
         \/ ReadAddrPresent
         \/ ReadAddrTaken
         \/ ReconfBeat
         \/ ReconfWord
         \/ \E done, err \in BOOLEAN : Wait(done, err)
         \/ UNCHANGED vars
  PROVE  UNCHANGED Service!serviceVars
<1>1. UNCHANGED <<s_axis_tready, m_axis, remaining_bytes, slot_decouple,
                  active_slot_id>>
  BY DEF WriteAddrPresent, WriteAddrTaken, WriteDataTaken, ReadAddrPresent,
     ReadAddrTaken, ReconfBeat, ReconfWord, Wait, vars, slotRegs
<1>2. \/ state' = state
      \/ state \in LineStates /\ state' \in LineStates
      \/ state \in ReadingStates /\ state' \in ReadingStates
      \/ state \in ReconfStates /\ state' \in ReconfStates
  BY DEF WriteAddrPresent, WriteAddrTaken, WriteDataTaken, ReadAddrPresent,
     ReadAddrTaken, ReconfBeat, ReconfWord, Wait, vars, LineStates,
     ReadingStates, SecondStates, ReconfStates
<1>3. serviceIsolated' = serviceIsolated
  BY <1>1 DEF serviceIsolated
<1>4. UNCHANGED <<servicePhase, serviceLines, serviceLoading, serviceAnswer>>
  <2>1. CASE state' = state
    BY <1>1, <2>1 DEF servicePhase, serviceLines, serviceLoading, serviceAnswer
  <2>2. CASE state' # state
    BY <1>1, <1>2, <2>2, MappingHolds DEF Mapping, Shows
  <2>. QED
    BY <2>1, <2>2
<1>. QED
  BY <1>1, <1>3, <1>4 DEF Service!serviceVars

LEMMA ListenStep ==
  ASSUME IdleWait \/ WriteWaitData
  PROVE  Service!Listen
<1>1. /\ state' = state /\ state \in {"IDLE", "WRITE_WAIT_DATA"}
      /\ s_axis_tready' = TRUE /\ UNCHANGED <<slot_decouple, remaining_bytes>>
  BY DEF IdleWait, WriteWaitData, slotRegs
<1>2. serviceIsolated' = serviceIsolated
  BY <1>1 DEF serviceIsolated
<1>. QED
  BY <1>1, <1>2, MappingHolds DEF Service!Listen, Mapping, Shows

LEMMA AnsweredAtOnce ==
  ASSUME NEW c \in Commands, AcceptAnswered(c)
  PROVE  \E a \in {"ok", "error"} : Service!AcceptAnswered(a)
<1>1. /\ state = "IDLE" /\ state' = "SEND_STATUS"
      /\ s_axis_tready /\ s_axis_tready' = FALSE /\ UNCHANGED slot_decouple
  BY DEF AcceptAnswered, AcceptInto, StartStatus, StartQueryStatus, slotRegs
<1>2. serviceIsolated' = serviceIsolated
  BY <1>1 DEF serviceIsolated
<1>3. servicePhase' = "respond"
  BY <1>1, MappingHolds DEF Mapping, Shows
<1>4. serviceAnswer' \in {"ok", "error"}
  BY <1>3 DEF serviceAnswer
<1>5. Service!AcceptAnswered(serviceAnswer')
  BY <1>1, <1>2, MappingHolds DEF Service!AcceptAnswered, Service!TakeCommand,
     Mapping, Shows
<1>. QED
  BY <1>4, <1>5

LEMMA TransferBegun ==
  ASSUME NEW c \in Commands, AcceptTransfer(c)
  PROVE  Service!AcceptWrite \/ Service!AcceptRead
<1>1. /\ state = "IDLE" /\ s_axis_tready /\ s_axis_tready' = FALSE
      /\ UNCHANGED slot_decouple /\ remaining_bytes' = c.size
  BY DEF AcceptTransfer, AcceptInto, slotRegs
<1>2. serviceIsolated' = serviceIsolated
  BY <1>1 DEF serviceIsolated
<1>3. CASE state' = "WRITE_WAIT_DATA"
  <2>1. c.size \in Nat \ {0}
    BY InputAssumption DEF AcceptTransfer, Validate, CommandLine
  <2>2. LinesFor(remaining_bytes)' \in Nat \ {0}
    <3>1. LinesFor(remaining_bytes') \in Nat \ {0}
      BY <1>1, <2>1, SomeLine
    <3>. QED
      BY <3>1 DEF LinesFor
  <2>. QED
    BY <1>1, <1>2, <1>3, <2>2, MappingHolds DEF Service!AcceptWrite,
       Service!TakeCommand, Mapping, Shows
<1>4. CASE state' = "READ_ADDR_0"
  BY <1>1, <1>2, <1>4, MappingHolds DEF Service!AcceptRead,
     Service!TakeCommand, Mapping, Shows, ReadingStates
<1>. QED
  BY <1>3, <1>4 DEF AcceptTransfer

LEMMA LoadBegun ==
  ASSUME TypeOK, NEW c \in Commands, AcceptReconf(c)
  PROVE  \E s \in Slots : Service!AcceptLoad(s)
<1>1. /\ state = "IDLE" /\ s_axis_tready /\ s_axis_tready' = FALSE
      /\ state' = "RECONF_ADDR" /\ active_slot_id' = c.slot
      /\ slot_decouple' = [slot_decouple EXCEPT ![c.slot] = TRUE]
  BY DEF AcceptReconf, AcceptInto
<1>2. c.slot \in Slots
  BY AcceptedSlot DEF AcceptReconf
<1>3. serviceIsolated' = serviceIsolated \union {c.slot}
  BY <1>1, <1>2 DEF serviceIsolated, TypeOK, SlotTypes
<1>4. Service!AcceptLoad(c.slot)
  BY <1>1, <1>3, MappingHolds DEF Service!AcceptLoad, Service!TakeCommand,
     Mapping, Shows, ReconfStates
<1>. QED
  BY <1>2, <1>4

LEMMA LineTaken ==
  ASSUME NEW line \in Lines, WriteTakeLine(line)
  PROVE  Service!TakeLine
<1>1. /\ state = "WRITE_WAIT_DATA" /\ s_axis_tready /\ s_axis_tready' = FALSE
      /\ state' = "WRITE_ADDR" /\ UNCHANGED <<slot_decouple, remaining_bytes>>
  BY DEF WriteTakeLine, slotRegs
<1>2. serviceIsolated' = serviceIsolated
  BY <1>1 DEF serviceIsolated
<1>3. LinesFor(remaining_bytes)' = LinesFor(remaining_bytes)
  BY <1>1 DEF LinesFor
<1>. QED
  BY <1>1, <1>2, <1>3, MappingHolds DEF Service!TakeLine, Mapping, Shows,
     LineStates

(* A transfer ends with its answer, and no slot was loading.               *)
LEMMA TransferEnded ==
  ASSUME TypeOK, state \in LineStates \union ReadingStates,
         state' \in {"SEND_STATUS", "READ_SEND"},
         UNCHANGED <<s_axis_tready, slot_decouple>>,
         serviceAnswer' = "ok" => serviceLines = 0
  PROVE  Service!Finish(serviceAnswer') /\ serviceAnswer' \in {"ok", "error"}
<1>1. serviceIsolated' = serviceIsolated
  BY DEF serviceIsolated
<1>2. servicePhase' = "respond" /\ servicePhase = "busy"
      /\ serviceLoading = SlotCount /\ serviceLoading' = SlotCount
      /\ serviceLines' = 0
  BY MappingHolds DEF Mapping, Shows
<1>3. serviceAnswer' \in {"ok", "error"}
  BY <1>2 DEF serviceAnswer
<1>4. SlotCount \notin serviceIsolated
  BY WidthAssumption DEF serviceIsolated, Slots
<1>5. serviceIsolated' = serviceIsolated \ {serviceLoading}
  BY <1>1, <1>2, <1>4
<1>. QED
  BY <1>2, <1>3, <1>5 DEF Service!Finish

LEMMA WriteEnded ==
  ASSUME TypeOK, WriteInv, WriteFailed \/ WriteStored
  PROVE  \/ \E a \in {"ok", "error"} : Service!Finish(a)
         \/ Service!NextLine
         \/ UNCHANGED Service!serviceVars
<1>1. /\ state = "WRITE_RESP" /\ state \in LineStates
      /\ UNCHANGED <<s_axis_tready, slot_decouple>>
  BY DEF WriteFailed, WriteStored, slotRegs, LineStates
<1>2. serviceIsolated' = serviceIsolated
  BY <1>1 DEF serviceIsolated
<1>3. /\ remaining_bytes \in 1 .. cmd.size /\ cmd.size \in Nat
      /\ line_bytes = NextLineBytes(remaining_bytes)
  BY <1>1, BeatInFlight
<1>4. CASE WriteFailed
  <2>1. state' = "SEND_STATUS" /\ m_axis'.data = StatusLine("AXI_BRESP")
    BY <1>4 DEF WriteFailed, StartStatus, Respond
  <2>2. servicePhase' = "respond"
    BY <2>1, MappingHolds DEF Mapping, Shows
  <2>3. serviceAnswer' = "error"
    BY <2>1, <2>2 DEF serviceAnswer, StatusLine
  <2>. QED
    BY <1>1, <2>1, <2>3, TransferEnded
<1>5. CASE WriteStored /\ ~half_select /\ line_bytes > BeatBytes
  <2>0. ~(half_select \/ line_bytes <= BeatBytes)
    BY <1>3, <1>5, Widths DEF NextLineBytes, Lesser
  <2>1. state' = "WRITE_ADDR" /\ UNCHANGED <<remaining_bytes, m_axis>>
    BY <1>5, <2>0 DEF WriteStored
  <2>2. LinesFor(remaining_bytes)' = LinesFor(remaining_bytes)
    BY <2>1 DEF LinesFor
  <2>3. UNCHANGED <<servicePhase, serviceLines, serviceLoading, serviceAnswer>>
    BY <1>1, <2>1, <2>2, MappingHolds DEF Mapping, Shows, LineStates
  <2>. QED
    BY <1>1, <1>2, <2>3 DEF Service!serviceVars
<1>6. CASE WriteStored /\ ~(~half_select /\ line_bytes > BeatBytes)
  <2>1. \/ remaining_bytes <= line_bytes /\ StartStatus("OK")
        \/ /\ remaining_bytes > line_bytes
           /\ remaining_bytes' = remaining_bytes - line_bytes
           /\ state' = "WRITE_WAIT_DATA"
    BY <1>6 DEF WriteStored
  <2>2. CASE remaining_bytes <= line_bytes /\ StartStatus("OK")
    <3>1. state' = "SEND_STATUS"
      BY <2>2 DEF StartStatus
    <3>2. remaining_bytes \in 1 .. LineBytes
      BY <1>3, <2>2, Widths DEF NextLineBytes, Lesser
    <3>3. serviceLines = 0
      <4>1. serviceLines = LinesFor(remaining_bytes) - 1
        BY <1>1, MappingHolds DEF Mapping, Shows
      <4>2. LinesFor(remaining_bytes) = 1
        BY <3>2, LastLine
      <4>. QED
        BY <4>1, <4>2
    <3>. QED
      BY <1>1, <3>1, <3>3, TransferEnded
  <2>3. CASE /\ remaining_bytes > line_bytes
             /\ remaining_bytes' = remaining_bytes - line_bytes
             /\ state' = "WRITE_WAIT_DATA"
    <3>1. /\ remaining_bytes \in Nat /\ remaining_bytes > LineBytes
          /\ line_bytes = LineBytes
      BY <1>3, <2>3, Widths DEF NextLineBytes, Lesser
    <3>2. /\ LinesFor(remaining_bytes') = LinesFor(remaining_bytes) - 1
          /\ LinesFor(remaining_bytes) - 1 > 0
      BY <2>3, <3>1, OneLineLess
    <3>3. LinesFor(remaining_bytes)' = LinesFor(remaining_bytes')
      BY DEF LinesFor
    <3>. QED
      BY <1>1, <1>2, <2>3, <3>2, <3>3, MappingHolds DEF Service!NextLine,
         Mapping, Shows
  <2>. QED
    BY <2>1, <2>2, <2>3
<1>. QED
  BY <1>4, <1>5, <1>6

LEMMA ReadEnded ==
  ASSUME TypeOK, ReadFirst \/ ReadSecond
  PROVE  \/ \E a \in {"ok", "error"} : Service!Finish(a)
         \/ UNCHANGED Service!serviceVars
<1>1. /\ state \in ReadingStates /\ UNCHANGED <<s_axis_tready, slot_decouple>>
      /\ state' \in {"READ_ADDR_1", "READ_SEND"}
  BY DEF ReadFirst, ReadSecond, slotRegs, ReadingStates, SecondStates
<1>2. serviceLines = 0
  BY <1>1, MappingHolds DEF Mapping, Shows
<1>3. CASE state' = "READ_SEND"
  BY <1>1, <1>2, <1>3, TransferEnded
<1>4. CASE state' = "READ_ADDR_1"
  <2>1. state' \in ReadingStates
    BY <1>4 DEF ReadingStates, SecondStates
  <2>2. UNCHANGED <<servicePhase, serviceLines, serviceLoading, serviceAnswer>>
    BY <1>1, <2>1, MappingHolds DEF Mapping, Shows
  <2>3. serviceIsolated' = serviceIsolated
    BY <1>1 DEF serviceIsolated
  <2>. QED
    BY <1>1, <2>2, <2>3 DEF Service!serviceVars
<1>. QED
  BY <1>1, <1>3, <1>4

LEMMA ReadCutShort ==
  ASSUME TypeOK, NEW status \in {"AXI_RRESP", "RLAST"}, ReadFailed(status)
  PROVE  Service!Finish("error")
<1>1. /\ state \in {"READ_DATA_0", "READ_DATA_1", "RECONF_DATA"}
      /\ state' = "SEND_STATUS" /\ m_axis'.data = StatusLine(status)
      /\ UNCHANGED <<s_axis_tready, slot_decouple>>
  BY DEF ReadFailed, StartStatus, Respond, slotRegs
<1>2. serviceIsolated' = serviceIsolated
  BY <1>1 DEF serviceIsolated
<1>3. servicePhase = "busy" /\ servicePhase' = "respond"
      /\ serviceLoading' = SlotCount /\ serviceLines' = 0
  BY <1>1, MappingHolds DEF Mapping, Shows, ReadingStates, SecondStates,
     ReconfStates
<1>4. serviceAnswer' = "error"
  BY <1>1, <1>3 DEF serviceAnswer, StatusLine
<1>. QED
  BY <1>1, <1>2, <1>3, <1>4 DEF Service!Finish

LEMMA LoadEnded ==
  ASSUME TypeOK, NEW done \in BOOLEAN, NEW err \in BOOLEAN, ReconfDone(done, err)
  PROVE  \E a \in {"ok", "error"} : Service!Finish(a)
<1>1. /\ state = "RECONF_WAIT_DONE" /\ state' = "SEND_STATUS"
      /\ slot_decouple' = [slot_decouple EXCEPT ![active_slot_id] = FALSE]
      /\ UNCHANGED s_axis_tready
  BY DEF ReconfDone, FinishReconf, StartStatus
<1>2. /\ servicePhase = "busy" /\ servicePhase' = "respond"
      /\ serviceLines = 0 /\ serviceLines' = 0
      /\ serviceLoading = active_slot_id /\ serviceLoading' = SlotCount
  BY <1>1, MappingHolds DEF Mapping, Shows, ReconfStates
<1>3. serviceIsolated' = serviceIsolated \ {active_slot_id}
  BY <1>1 DEF serviceIsolated, TypeOK, SlotTypes
<1>4. serviceAnswer' \in {"ok", "error"}
  BY <1>2 DEF serviceAnswer
<1>5. Service!Finish(serviceAnswer')
  BY <1>1, <1>2, <1>3 DEF Service!Finish
<1>. QED
  BY <1>4, <1>5

LEMMA ResponseGone ==
  ASSUME ResponseTaken
  PROVE  Service!Answered
<1>1. /\ state \in {"SEND_STATUS", "READ_SEND"} /\ state' = "IDLE"
      /\ UNCHANGED <<s_axis_tready, slot_decouple>>
  BY DEF ResponseTaken, slotRegs
<1>2. serviceIsolated' = serviceIsolated
  BY <1>1 DEF serviceIsolated
<1>. QED
  BY <1>1, <1>2, MappingHolds DEF Service!Answered, Mapping, Shows

LEMMA ServiceStep ==
  ASSUME CtrlInv, DataInv, [Next]_vars
  PROVE  Service!ServiceNext \/ UNCHANGED Service!serviceVars
<1>1. TypeOK /\ WriteInv
  BY DEF CtrlInv, DataInv
<1>2. CASE UNCHANGED vars
  BY <1>2, Stutter
<1>3. CASE Next
  <2>1. CASE \E line \in Lines : WriteTakeLine(line)
    BY <2>1, LineTaken DEF Service!ServiceNext
  <2>2. CASE \E c \in Commands : AcceptAnswered(c)
    BY <2>2, AnsweredAtOnce DEF Service!ServiceNext
  <2>3. CASE \E c \in Commands : AcceptTransfer(c)
    BY <2>3, TransferBegun DEF Service!ServiceNext
  <2>4. CASE \E c \in Commands : AcceptReconf(c)
    BY <1>1, <2>4, LoadBegun DEF Service!ServiceNext
  <2>5. CASE WriteFailed \/ WriteStored
    BY <1>1, <2>5, WriteEnded DEF Service!ServiceNext
  <2>6. CASE ReadFirst \/ ReadSecond
    BY <1>1, <2>6, ReadEnded DEF Service!ServiceNext
  <2>7. CASE \E status \in {"AXI_RRESP", "RLAST"} : ReadFailed(status)
    BY <1>1, <2>7, ReadCutShort DEF Service!ServiceNext
  <2>8. CASE \E done, err \in BOOLEAN : ReconfDone(done, err)
    BY <1>1, <2>8, LoadEnded DEF Service!ServiceNext
  <2>9. CASE ResponseTaken \/ IdleWait \/ WriteWaitData
    BY <2>9, ResponseGone, ListenStep DEF Service!ServiceNext
  <2>. QED
    BY <1>3, <2>1, <2>2, <2>3, <2>4, <2>5, <2>6, <2>7, <2>8, <2>9, NextStep,
       Stutter DEF Step
<1>. QED
  BY <1>2, <1>3

(* The state machine of reconfctrl.v keeps the promise that the packet     *)
(* logic is built on: a write takes exactly the lines that its size        *)
(* announces, every command gets one answer, OK only when all lines are    *)
(* in, and the slot of a load is isolated from the acceptance of the       *)
(* command on, whatever the widths, commands and failures.                 *)
THEOREM ServiceImplemented == Spec => ImplementsService
<1>1. Init => Service!ServiceInit
  <2>. SUFFICES ASSUME Init
                PROVE  Service!ServiceInit
    OBVIOUS
  <2>1. state = "IDLE" /\ s_axis_tready = FALSE
        /\ slot_decouple = [s \in Slots |-> FALSE]
    BY DEF Init
  <2>2. serviceIsolated = {}
    BY <2>1 DEF serviceIsolated
  <2>. QED
    BY <2>1, <2>2, MappingHolds DEF Service!ServiceInit, Mapping, Shows
<1>2. CtrlInv /\ DataInv /\ [Next]_vars =>
        [Service!ServiceNext]_(Service!serviceVars)
  BY ServiceStep
<1>. QED
  BY <1>1, <1>2, DataInvariant, PTL DEF Spec, ImplementsService,
     Service!ServiceSpec
=============================================================================
