--------------------------- MODULE IcapPathProofs ---------------------------
(***************************************************************************)
(* The controller with the engine behind it, for any number of registers   *)
(* on the way back: it still is the controller of ReconfCtrl, and with an  *)
(* engine whose PRDONE rests low the answer to a load is that load's.      *)
(***************************************************************************)
EXTENDS IcapPath, ReconfDataProofs

Reports == [done : BOOLEAN, err : BOOLEAN]

LineTypes ==
  /\ build \in Builds
  /\ icap_pr \in Reports
  /\ icap_pr_reg \in [1 .. PipeDepth -> Reports]

(* The way of a report: out of icap_ctrl (0), then register by register.   *)
Stage(i) == IF i = 0 THEN icap_pr ELSE icap_pr_reg[i]
Loud(i)  == Stage(i).done \/ Stage(i).err

(* A report under way is on the load that waits for it, and true.          *)
ReportsTrue ==
  \A i \in 0 .. PipeDepth : Loud(i) =>
    /\ state = "RECONF_WAIT_DONE" /\ engine # "complete"
    /\ Stage(i).done => outcome = "loaded"
    /\ Stage(i).err => outcome = "failed"

OneReport == \A i, j \in 0 .. PipeDepth : Loud(i) /\ Loud(j) => i = j

(* The engine has a bitstream to report on only while the controller waits *)
(* for the report.                                                         *)
EngineInTime == engine = "complete" => state = "RECONF_WAIT_DONE"

(* No latch is set in a load before its own report is.                     *)
NothingSeen ==
  state \in ReconfStates => ~icap_pr_done_seen /\ ~icap_pr_err_seen

ReportInv ==
  ReportsTrue /\ OneReport /\ EngineInTime /\ NothingSeen /\ AnswerIsEngines

(***************************************************************************)
(* The controller behind the registers is the controller                   *)
(***************************************************************************)
LEMMA LastStage == PipeDepth \in 1 .. PipeDepth /\ PipeDepth \in 0 .. PipeDepth
  BY PathAssumption

LEMMA LinesInit == PathInit => LineTypes
  BY DEF PathInit, LineTypes, Reports, Report

(* What icap_ctrl may put on the lines in one edge.                        *)
LEMMA LinesOut ==
  ASSUME PathNext
  PROVE  icap_pr' \in Reports
<1>1. CASE LoadBegins
  BY <1>1 DEF LoadBegins, Report, Reports
<1>2. CASE SimulatedEngine
  <2>1. PICK b \in BOOLEAN : icap_pr' = Report(b, FALSE)
    BY <1>2 DEF SimulatedEngine
  <2>. QED
    BY <2>1 DEF Report, Reports
<1>3. CASE HardwareEngine
  <2>1. PICK b, c \in BOOLEAN : icap_pr' = Report(b, c)
    BY <1>3 DEF HardwareEngine, EngineWord, EngineQuiet, EngineReports
  <2>. QED
    BY <2>1 DEF Report, Reports
<1>. QED
  BY <1>1, <1>2, <1>3 DEF PathNext

(* Each report moves on by one register.                                   *)
LEMMA Shifted ==
  ASSUME LineTypes, PathNext
  PROVE  /\ LineTypes'
         /\ \A i \in 1 .. PipeDepth : icap_pr_reg'[i] = Stage(i - 1)
<1>1. icap_pr_reg' = [i \in 1 .. PipeDepth |->
                        IF i = 1 THEN icap_pr ELSE icap_pr_reg[i - 1]]
  BY DEF PathNext, ShiftReports
<1>2. \A i \in 1 .. PipeDepth : icap_pr_reg'[i] = Stage(i - 1)
  BY <1>1, PathAssumption DEF Stage
<1>3. \A i \in 1 .. PipeDepth : icap_pr_reg'[i] \in Reports
  BY <1>1, PathAssumption DEF LineTypes
<1>4. icap_pr_reg' \in [1 .. PipeDepth -> Reports]
  BY <1>1, <1>3
<1>. QED
  BY <1>2, <1>4, LinesOut DEF LineTypes, PathNext

LEMMA EdgeOf ==
  ASSUME LineTypes, PathNext
  PROVE  Next
<1>1. icap_pr_reg[PipeDepth] \in Reports
  BY LastStage DEF LineTypes
<1>2. icap_pr_reg[PipeDepth].done \in BOOLEAN
      /\ icap_pr_reg[PipeDepth].err \in BOOLEAN
  BY <1>1 DEF Reports
<1>. QED
  BY <1>2 DEF PathNext, Next

LEMMA LinesInvariant == PathSpec => []LineTypes
<1>1. LineTypes /\ [PathNext]_pathVars => LineTypes'
  <2>1. LineTypes /\ UNCHANGED pathVars => LineTypes'
    BY DEF pathVars, LineTypes
  <2>. QED
    BY <2>1, Shifted
<1>. QED
  BY <1>1, LinesInit, PTL DEF PathSpec

(* Behind the registers, fed by either build of icap_ctrl, the controller  *)
(* behaves as it does by itself: all that is proved of Spec holds here.    *)
THEOREM PathIsController == PathSpec => Spec
<1>1. PathInit => Init
  BY DEF PathInit
<1>2. LineTypes /\ [PathNext]_pathVars => [Next]_vars
  BY EdgeOf DEF pathVars
<1>. QED
  BY <1>1, <1>2, LinesInvariant, PTL DEF PathSpec, Spec

(***************************************************************************)
(* What an edge does to a load                                             *)
(***************************************************************************)
(* In the wait for the engine, a report that arrives ends the load in that *)
(* very edge, and nothing else does.                                       *)
LEMMA WaitEdge ==
  ASSUME NEW done \in BOOLEAN, NEW err \in BOOLEAN, Edge(done, err),
         state = "RECONF_WAIT_DONE", ~icap_pr_done_seen, ~icap_pr_err_seen
  PROVE  IF done \/ err THEN ReconfDone(done, err) ELSE Wait(done, err)
<1>1. ReconfDone(done, err) \/ Wait(done, err)
  BY DEF Edge, IdleWait, AcceptAnswered, AcceptTransfer, AcceptReconf,
     AcceptInto, WriteWaitData, WriteTakeLine, WriteAddrPresent,
     WriteAddrTaken, WriteDataTaken, WriteFailed, WriteStored,
     ReadAddrPresent, ReadAddrTaken, ReadFailed, ReadFirst, ReadSecond,
     ReconfBeat, ReconfWord, ResponseTaken
<1>2. ReconfDone(done, err) => done \/ err
  BY DEF ReconfDone
<1>3. Wait(done, err) => ~(done \/ err)
  BY DEF Wait
<1>. QED
  BY <1>1, <1>2, <1>3

(* The wait begins with the last word, and with no other.                  *)
LEMMA WaitBegins ==
  ASSUME CtrlInv, DataInv, Next, state # "RECONF_WAIT_DONE"
  PROVE  /\ state' = "RECONF_WAIT_DONE" =>
              /\ m_axis_icap.valid /\ m_axis_icap.last
              /\ accepted' = accepted
         /\ m_axis_icap.valid /\ m_axis_icap.last /\ icap_log' # icap_log =>
              state' = "RECONF_WAIT_DONE"
<1>0. LoadInv /\ IcapStreamExact
  BY DEF CtrlInv, DataInv, StreamInv
<1>1. CASE ReconfWord
  <2>1. state = "RECONF_STREAM" /\ m_axis_icap.valid /\ accepted' = accepted
    BY <1>1 DEF ReconfWord
  <2>2. m_axis_icap.last <=> icap_words_remaining = 1
    BY <1>0, <2>1 DEF IcapStreamExact, ReconfStates
  <2>3. state' = "RECONF_WAIT_DONE" <=> icap_words_remaining = 1
    BY <1>1, <2>1 DEF ReconfWord
  <2>. QED
    BY <2>1, <2>2, <2>3
<1>2. CASE OtherStep
  <2>1. state \notin ReconfStates /\ state' \notin ReconfStates
    BY <1>2, OtherStepFrame
  <2>. QED
    BY <1>0, <2>1 DEF LoadInv, ReconfStates
<1>3. CASE \/ ReadAddrPresent
           \/ ReadAddrTaken
           \/ \E status \in {"AXI_RRESP", "RLAST"} : ReadFailed(status)
           \/ ReconfBeat
           \/ \E done, err \in BOOLEAN : Wait(done, err)
  BY <1>3 DEF ReadAddrPresent, ReadAddrTaken, ReadFailed, StartStatus,
     ReconfBeat, Wait, history
<1>4. CASE \E c \in Commands : AcceptReconf(c)
  <2>1. state = "IDLE" /\ state' = "RECONF_ADDR"
    BY <1>4 DEF AcceptReconf, AcceptInto
  <2>. QED
    BY <1>0, <2>1 DEF LoadInv
<1>5. ~\E done, err \in BOOLEAN : ReconfDone(done, err)
  BY DEF ReconfDone
<1>. QED
  BY <1>1, <1>2, <1>3, <1>4, <1>5, LoadCases

(* Besides the end of a load, only a refusal or a failed read answers one. *)
LEMMA OtherAnswers ==
  ASSUME CtrlInv, DataInv, Next, state # "RECONF_WAIT_DONE",
         state' = "SEND_STATUS", cmd'.op = "RECONF_ICAP"
  PROVE  \/ state = "SEND_STATUS" /\ UNCHANGED <<m_axis, cmd, accepted>>
         \/ m_axis'.data \notin {StatusLine("OK"), StatusLine("ICAP")}
<1>0. \A e, f \in Errors : StatusLine(e) = StatusLine(f) => e = f
  BY DEF StatusLine
<1>1. CASE \E c \in Commands : AcceptAnswered(c)
  <2>. PICK c \in Commands : AcceptAnswered(c)
    BY <1>1
  <2>1. c = cmd'
    BY DEF AcceptAnswered, AcceptInto, NewCommand
  <2>2. Validate(c) # "OK" /\ m_axis'.data = StatusLine(Validate(c))
    BY <2>1 DEF AcceptAnswered, StartStatus, Respond
  <2>3. Validate(c) \in Errors \ {"OK", "ICAP"}
    BY <2>2 DEF Validate, Errors
  <2>. QED
    BY <1>0, <2>2, <2>3 DEF Errors
<1>2. CASE \E status \in {"AXI_RRESP", "RLAST"} : ReadFailed(status)
  BY <1>0, <1>2 DEF ReadFailed, StartStatus, Respond, Errors
<1>3. CASE WriteFailed \/ WriteStored
  <2>1. state = "WRITE_RESP" /\ UNCHANGED cmd
    BY <1>3 DEF WriteFailed, WriteStored, history
  <2>2. cmd.op = "WRITE_HBM"
    BY <2>1, BeatInFlight DEF CtrlInv, DataInv
  <2>. QED
    BY <2>1, <2>2
<1>4. CASE \E done, err \in BOOLEAN : Wait(done, err)
  BY <1>4 DEF Wait, history
<1>5. CASE \/ IdleWait
           \/ \E c \in Commands : AcceptTransfer(c)
           \/ \E c \in Commands : AcceptReconf(c)
           \/ WriteWaitData
           \/ \E line \in Lines : WriteTakeLine(line)
           \/ WriteAddrPresent
           \/ WriteAddrTaken
           \/ WriteDataTaken
           \/ ReadAddrPresent
           \/ ReadAddrTaken
           \/ ReadFirst
           \/ ReadSecond
           \/ ReconfBeat
           \/ ReconfWord
           \/ \E done, err \in BOOLEAN : ReconfDone(done, err)
           \/ ResponseTaken
  BY <1>5 DEF IdleWait, AcceptTransfer, AcceptReconf, WriteWaitData,
     WriteTakeLine, WriteAddrPresent, WriteAddrTaken, WriteDataTaken,
     ReadAddrPresent, ReadAddrTaken, ReadFirst, ReadSecond, ReconfBeat,
     ReconfWord, ReconfDone, ResponseTaken
<1>. QED
  BY <1>1, <1>2, <1>3, <1>4, <1>5, NextStep DEF Step

(* With the lines low, an edge sets no latch in a load, and the edge that  *)
(* begins one clears both.                                                 *)
LEMMA LatchesStayLow ==
  ASSUME Edge(FALSE, FALSE), NothingSeen
  PROVE  NothingSeen'
<1>. SUFFICES ASSUME state' \in ReconfStates
              PROVE  ~icap_pr_done_seen' /\ ~icap_pr_err_seen'
  BY DEF NothingSeen
<1>1. CASE \E c \in Commands : AcceptReconf(c)
  BY <1>1 DEF AcceptReconf
<1>2. CASE ~\E c \in Commands : AcceptReconf(c)
  <2>1. Latch(FALSE, FALSE)
    BY <1>2 DEF Edge, ReconfDone, Wait
  <2>2. ~OtherStep
    BY OtherStepFrame
  <2>3. Next
    BY DEF Next
  <2>4. \/ ReadAddrPresent
        \/ ReadAddrTaken
        \/ \E status \in {"AXI_RRESP", "RLAST"} : ReadFailed(status)
        \/ ReconfBeat
        \/ ReconfWord
        \/ \E done, err \in BOOLEAN : ReconfDone(done, err)
        \/ \E done, err \in BOOLEAN : Wait(done, err)
    BY <1>2, <2>2, <2>3, LoadCases
  <2>5. state \in ReconfStates
    BY <2>4 DEF ReadAddrPresent, ReadAddrTaken, ReadFailed, StartStatus,
       ReconfBeat, ReconfWord, ReconfDone, FinishReconf, Wait, ReconfStates
  <2>. QED
    BY <2>1, <2>5 DEF NothingSeen, Latch
<1>. QED
  BY <1>1, <1>2

(***************************************************************************)
(* A report and the load it is on                                          *)
(***************************************************************************)
RestsLow == "level" \notin Builds

(* The engine reports only on a load that is complete, and the lines are   *)
(* low otherwise.                                                          *)
LEMMA EngineStep ==
  ASSUME RestsLow, LineTypes, PathNext, accepted' = accepted
  PROVE  \/ /\ m_axis_icap.valid /\ m_axis_icap.last
            /\ icap_pr' = Report(TRUE, FALSE) /\ outcome' = "loaded"
            /\ UNCHANGED engine
         \/ /\ m_axis_icap.valid /\ m_axis_icap.last
            /\ icap_pr' = Report(FALSE, FALSE) /\ engine' = "complete"
         \/ /\ ~m_axis_icap.valid /\ engine = "complete"
            /\ engine' # "complete"
            /\ \E ok \in BOOLEAN :
                 /\ icap_pr' = Report(ok, ~ok)
                 /\ outcome' = IF ok THEN "loaded" ELSE "failed"
         \/ /\ ~(m_axis_icap.valid /\ m_axis_icap.last)
            /\ icap_pr' = Report(FALSE, FALSE)
            /\ engine' = "complete" => engine = "complete"
            /\ UNCHANGED outcome
<1>1. build # "level"
  BY DEF RestsLow, LineTypes
<1>2. CASE SimulatedEngine
  BY <1>2 DEF SimulatedEngine
<1>3. CASE EngineWord
  BY <1>3 DEF EngineWord
<1>4. CASE EngineQuiet
  BY <1>1, <1>4 DEF EngineQuiet
<1>5. CASE \E ok \in BOOLEAN : EngineReports(ok)
  BY <1>5 DEF EngineReports
<1>. QED
  BY <1>2, <1>3, <1>4, <1>5 DEF PathNext, LoadBegins, HardwareEngine

LEMMA Quiet ==
  /\ ~Report(FALSE, FALSE).done /\ ~Report(FALSE, FALSE).err
  /\ \A ok \in BOOLEAN : Report(ok, ~ok).done = ok /\ Report(ok, ~ok).err = ~ok
  /\ Report(TRUE, FALSE).done /\ ~Report(TRUE, FALSE).err
  BY DEF Report

(* The stages after an edge, by the stages before it.                      *)
LEMMA NextStage ==
  ASSUME LineTypes, PathNext
  PROVE  /\ Stage(0)' = icap_pr'
         /\ \A i \in 1 .. PipeDepth : Stage(i)' = Stage(i - 1)
<1>1. \A i \in 1 .. PipeDepth : i # 0 /\ icap_pr_reg'[i] = Stage(i - 1)
  BY Shifted
<1>. QED
  BY <1>1 DEF Stage

(* If nothing is under way that would not leave now, then after the edge   *)
(* the only report under way is the one icap_ctrl has just made.           *)
LEMMA OnlyNew ==
  ASSUME LineTypes, PathNext, \A i \in 0 .. PipeDepth - 1 : ~Loud(i),
         icap_pr' # Report(FALSE, FALSE) =>
           /\ state' = "RECONF_WAIT_DONE" /\ engine' # "complete"
           /\ icap_pr'.done => outcome' = "loaded"
           /\ icap_pr'.err => outcome' = "failed"
  PROVE  ReportsTrue' /\ OneReport'
<1>1. \A i \in 1 .. PipeDepth : i - 1 \in 0 .. PipeDepth - 1
  BY PathAssumption
<1>2. \A i \in 1 .. PipeDepth : ~Loud(i)'
  BY <1>1, NextStage DEF Loud
<1>3. \A i \in 0 .. PipeDepth : i = 0 \/ i \in 1 .. PipeDepth
  BY PathAssumption
<1>4. \A i \in 0 .. PipeDepth : Loud(i)' =>
        /\ i = 0 /\ Stage(i)' = icap_pr'
        /\ icap_pr' # Report(FALSE, FALSE)
  BY <1>2, <1>3, NextStage, Quiet DEF Loud
<1>. QED
  BY <1>4 DEF ReportsTrue, OneReport

LEMMA WaitKeepsReports ==
  ASSUME RestsLow, CtrlInv, LineTypes, ReportInv, PathNext,
         state = "RECONF_WAIT_DONE"
  PROVE  ReportInv'
<1>. DEFINE arrived == icap_pr_reg[PipeDepth]
<1>1. arrived \in Reports /\ arrived = Stage(PipeDepth)
  BY LastStage DEF LineTypes, Stage
<1>2. arrived.done \in BOOLEAN /\ arrived.err \in BOOLEAN
  BY <1>1 DEF Reports
<1>3. ~icap_pr_done_seen /\ ~icap_pr_err_seen
  BY DEF ReportInv, NothingSeen, ReconfStates
<1>4. Edge(arrived.done, arrived.err)
  BY DEF PathNext
<1>5. ~m_axis_icap.valid
  BY DEF CtrlInv, LoadInv
<1>. HIDE DEF arrived
<1>6. IF arrived.done \/ arrived.err THEN ReconfDone(arrived.done, arrived.err)
      ELSE Wait(arrived.done, arrived.err)
  BY <1>2, <1>3, <1>4, WaitEdge
<1>7. accepted' = accepted
  BY <1>6 DEF ReconfDone, Wait, history
<1>8. Loud(PipeDepth) <=> arrived.done \/ arrived.err
  BY <1>1 DEF Loud
<1>9. CASE arrived.done \/ arrived.err
  <2>1. /\ engine # "complete"
        /\ arrived.done => outcome = "loaded"
        /\ arrived.err => outcome = "failed"
        /\ \A i \in 0 .. PipeDepth - 1 : ~Loud(i)
    BY <1>1, <1>8, <1>9, LastStage, PathAssumption
       DEF ReportInv, ReportsTrue, OneReport
  <2>2. /\ icap_pr' = Report(FALSE, FALSE) /\ engine' # "complete"
        /\ UNCHANGED outcome
    BY <1>5, <1>7, <2>1, EngineStep
  <2>4. ReportsTrue' /\ OneReport'
    BY <2>1, <2>2, OnlyNew
  <2>5. /\ state' = "SEND_STATUS"
        /\ \/ arrived.err /\ m_axis'.data = StatusLine("ICAP")
           \/ ~arrived.err /\ m_axis'.data = StatusLine("OK")
    BY <1>3, <1>6, <1>9 DEF ReconfDone, FinishReconf, StartStatus, Respond
  <2>6. StatusLine("ICAP") # StatusLine("OK")
    BY DEF StatusLine
  <2>7. AnswerIsEngines'
    BY <1>9, <2>1, <2>2, <2>5, <2>6 DEF AnswerIsEngines
  <2>8. EngineInTime' /\ NothingSeen'
    BY <2>2, <2>5 DEF EngineInTime, NothingSeen, ReconfStates
  <2>. QED
    BY <2>4, <2>7, <2>8 DEF ReportInv
<1>10. CASE ~(arrived.done \/ arrived.err)
  <2>1. /\ UNCHANGED state
        /\ ~icap_pr_done_seen' /\ ~icap_pr_err_seen'
    BY <1>3, <1>6, <1>10 DEF Wait, Latch
  <2>2. EngineInTime' /\ NothingSeen' /\ AnswerIsEngines'
    BY <2>1 DEF EngineInTime, NothingSeen, AnswerIsEngines
  <2>3. CASE /\ engine = "complete" /\ engine' # "complete"
             /\ \E ok \in BOOLEAN :
                  /\ icap_pr' = Report(ok, ~ok)
                  /\ outcome' = IF ok THEN "loaded" ELSE "failed"
    <3>1. \A i \in 0 .. PipeDepth - 1 : ~Loud(i)
      BY <2>3, PathAssumption DEF ReportInv, ReportsTrue
    <3>2. /\ icap_pr'.done => outcome' = "loaded"
          /\ icap_pr'.err => outcome' = "failed"
      BY <2>3, Quiet
    <3>3. ReportsTrue' /\ OneReport'
      BY <2>1, <2>3, <3>1, <3>2, OnlyNew
    <3>. QED
      BY <2>2, <3>3 DEF ReportInv
  <2>4. CASE /\ icap_pr' = Report(FALSE, FALSE)
             /\ engine' = "complete" => engine = "complete"
             /\ UNCHANGED outcome
    <3>1. \A i \in 0 .. PipeDepth : Loud(i)' =>
            i \in 1 .. PipeDepth /\ i - 1 \in 0 .. PipeDepth /\ Loud(i - 1)
      <4>1. ~Loud(0)'
        BY <2>4, NextStage, Quiet DEF Loud
      <4>2. \A i \in 0 .. PipeDepth :
              i = 0 \/ (i \in 1 .. PipeDepth /\ i - 1 \in 0 .. PipeDepth)
        BY PathAssumption
      <4>3. \A i \in 1 .. PipeDepth : Loud(i)' <=> Loud(i - 1)
        BY NextStage DEF Loud
      <4>. QED
        BY <4>1, <4>2, <4>3
    <3>2. ReportsTrue'
      BY <2>1, <2>4, <3>1, NextStage DEF ReportInv, ReportsTrue
    <3>3. OneReport'
      <4>. SUFFICES ASSUME NEW i \in 0 .. PipeDepth, NEW j \in 0 .. PipeDepth,
                           Loud(i)', Loud(j)'
                    PROVE  i = j
        BY DEF OneReport
      <4>1. i - 1 = j - 1
        BY <3>1 DEF ReportInv, OneReport
      <4>. QED
        BY <4>1
    <3>. QED
      BY <2>2, <3>2, <3>3 DEF ReportInv
  <2>. QED
    BY <1>5, <1>7, <2>3, <2>4, EngineStep
<1>. QED
  BY <1>9, <1>10

LEMMA OthersKeepReports ==
  ASSUME RestsLow, CtrlInv, DataInv, LineTypes, ReportInv, PathNext,
         state # "RECONF_WAIT_DONE"
  PROVE  ReportInv'
<1>1. \A i \in 0 .. PipeDepth : ~Loud(i)
  BY DEF ReportInv, ReportsTrue
<1>2. engine # "complete"
  BY DEF ReportInv, EngineInTime
<1>3. Next
  BY EdgeOf
<1>4. NothingSeen'
  <2>1. icap_pr_reg[PipeDepth] \in Reports /\ ~Loud(PipeDepth)
        /\ icap_pr_reg[PipeDepth] = Stage(PipeDepth)
    BY <1>1, LastStage DEF LineTypes, Stage
  <2>2. icap_pr_reg[PipeDepth].done = FALSE /\ icap_pr_reg[PipeDepth].err = FALSE
    BY <2>1 DEF Loud, Reports
  <2>3. Edge(FALSE, FALSE)
    BY <2>2 DEF PathNext
  <2>. QED
    BY <2>3, LatchesStayLow DEF ReportInv
<1>5. \A i \in 0 .. PipeDepth - 1 : ~Loud(i)
  BY <1>1, PathAssumption
<1>6. CASE state' = "RECONF_WAIT_DONE"
  <2>1. m_axis_icap.valid /\ m_axis_icap.last /\ accepted' = accepted
    BY <1>3, <1>6, WaitBegins
  <2>2. ReportsTrue' /\ OneReport'
    <3>1. CASE icap_pr' = Report(FALSE, FALSE)
      BY <1>5, <3>1, OnlyNew
    <3>2. CASE icap_pr' # Report(FALSE, FALSE)
      <4>1. /\ icap_pr' = Report(TRUE, FALSE) /\ outcome' = "loaded"
            /\ engine' = engine
        BY <2>1, <3>2, EngineStep
      <4>2. icap_pr'.done /\ ~icap_pr'.err
        BY <4>1, Quiet
      <4>. QED
        BY <1>2, <1>5, <1>6, <4>1, <4>2, OnlyNew
    <3>. QED
      BY <3>1, <3>2
  <2>3. EngineInTime' /\ AnswerIsEngines'
    BY <1>6 DEF EngineInTime, AnswerIsEngines
  <2>. QED
    BY <1>4, <2>2, <2>3 DEF ReportInv
<1>7. CASE state' # "RECONF_WAIT_DONE"
  <2>1. ~(m_axis_icap.valid /\ m_axis_icap.last)
    BY <1>3, <1>7, WaitBegins DEF PathNext, IcapTakes
  <2>2. /\ icap_pr' = Report(FALSE, FALSE) /\ engine' # "complete"
        /\ accepted' = accepted => outcome' = outcome
    <3>1. CASE accepted' = accepted
      BY <1>2, <2>1, <3>1, EngineStep
    <3>2. CASE accepted' # accepted
      <4>1. LoadBegins /\ build # "level"
        BY <3>2 DEF PathNext, RestsLow, LineTypes
      <4>. QED
        BY <1>2, <3>2, <4>1 DEF LoadBegins
    <3>. QED
      BY <3>1, <3>2
  <2>3. ReportsTrue' /\ OneReport'
    BY <1>5, <2>2, OnlyNew
  <2>4. AnswerIsEngines'
    BY <1>3, <2>2, OtherAnswers DEF ReportInv, AnswerIsEngines
  <2>. QED
    BY <1>4, <2>2, <2>3, <2>4 DEF ReportInv, EngineInTime
<1>. QED
  BY <1>6, <1>7

LEMMA ReportInit ==
  ASSUME RestsLow
  PROVE  PathInit => ReportInv
<1>. SUFFICES ASSUME PathInit
              PROVE  ReportInv
  OBVIOUS
<1>1. icap_pr = Report(FALSE, FALSE)
  BY DEF PathInit, RestsLow
<1>2. \A i \in 0 .. PipeDepth : Stage(i) = Report(FALSE, FALSE)
  <2>1. icap_pr_reg = [i \in 1 .. PipeDepth |-> Report(FALSE, FALSE)]
    BY DEF PathInit
  <2>2. \A i \in 0 .. PipeDepth : i = 0 \/ i \in 1 .. PipeDepth
    BY PathAssumption
  <2>. QED
    BY <1>1, <2>1, <2>2 DEF Stage
<1>3. \A i \in 0 .. PipeDepth : ~Loud(i)
  BY <1>2, Quiet DEF Loud
<1>4. state = "IDLE" /\ engine = "rest"
  BY DEF PathInit, Init
<1>. QED
  BY <1>3, <1>4 DEF ReportInv, ReportsTrue, OneReport, EngineInTime,
     NothingSeen, AnswerIsEngines, ReconfStates

LEMMA ReportStep ==
  ASSUME RestsLow
  PROVE  CtrlInv /\ DataInv /\ LineTypes /\ ReportInv /\ [PathNext]_pathVars
           => ReportInv'
<1>. SUFFICES ASSUME CtrlInv, DataInv, LineTypes, ReportInv,
                     [PathNext]_pathVars
              PROVE  ReportInv'
  OBVIOUS
<1>1. CASE UNCHANGED pathVars
  BY <1>1 DEF pathVars, vars, latchRegs, history, ReportInv, ReportsTrue,
     OneReport, EngineInTime, NothingSeen, AnswerIsEngines, Loud, Stage
<1>. QED
  BY <1>1, WaitKeepsReports, OthersKeepReports

(* The answer to a load is what the engine made of that very load, however *)
(* many registers the report passes and however long the engine takes: for *)
(* the simulation build, and for the hardware build when PRDONE rests low. *)
THEOREM AnswersCorrect ==
  ASSUME "level" \notin Builds
  PROVE  PathSpec => []AnswerIsEngines
<1>0. RestsLow
  BY DEF RestsLow
<1>1. PathInit => ReportInv
  BY <1>0, ReportInit
<1>2. CtrlInv /\ DataInv /\ LineTypes /\ ReportInv /\ [PathNext]_pathVars
        => ReportInv'
  BY <1>0, ReportStep
<1>3. ReportInv => AnswerIsEngines
  BY DEF ReportInv
<1>. QED
  BY <1>1, <1>2, <1>3, PathIsController, DataInvariant, LinesInvariant, PTL
     DEF PathSpec
=============================================================================
