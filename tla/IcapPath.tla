------------------------------ MODULE IcapPath ------------------------------
(***************************************************************************)
(* The reconfiguration controller with what pkt_logic.v puts behind it:    *)
(* icap_ctrl.v, which feeds the configuration engine, and the registers    *)
(* that carry PRDONE and PRERROR back.  A report of the engine therefore   *)
(* reaches the controller PipeDepth edges late, and nothing on the way     *)
(* says which load it belongs to.                                          *)
(*                                                                         *)
(* icap_ctrl.v has two builds.  The simulation build pulses pr_done after  *)
(* tlast.  The hardware build instantiates ICAPE3, which is external: it   *)
(* takes words, and some time after the last one of a bitstream it reports *)
(* success or failure, with PRDONE low ("pulse") or high ("level") while   *)
(* it rests.                                                               *)
(***************************************************************************)
EXTENDS ReconfCtrl

CONSTANTS
  PipeDepth,    (* registers between icap_ctrl and the controller (10)     *)
  Builds        (* builds of icap_ctrl, the hardware one by the level      *)
                (* that PRDONE rests at                                    *)

ASSUME PathAssumption ==
  /\ PipeDepth \in Nat \ {0}
  /\ Builds \subseteq {"simulation", "pulse", "level"}

VARIABLES
  build,        (* the build in use, which never changes                   *)
  icap_pr,      (* the lines out of icap_ctrl                              *)
  icap_pr_reg,  (* the registers they pass, 1 .. PipeDepth                 *)
  engine,       (* ICAPE3: "rest", "loading" or "complete"                 *)
  outcome       (* history: what the engine made of the current load       *)

pathVars == <<vars, build, icap_pr, icap_pr_reg, engine, outcome>>

Report(done, err) == [done |-> done, err |-> err]

(***************************************************************************)
(* icap_ctrl.v                                                             *)
(***************************************************************************)
(* tready is tied high: a word that is offered is taken.                   *)
IcapTakes == m_axis_icap.valid => icap_log' # icap_log

SimulatedEngine ==
  LET last == m_axis_icap.valid /\ m_axis_icap.last IN
  /\ icap_pr' = Report(last, FALSE)
  /\ outcome' = IF last THEN "loaded" ELSE outcome
  /\ UNCHANGED engine

(* ICAPE3 takes a word, reports on a complete bitstream, or does neither.  *)
EngineWord ==
  /\ m_axis_icap.valid
  /\ engine' = IF m_axis_icap.last THEN "complete" ELSE "loading"
  /\ icap_pr' = Report(FALSE, FALSE)
  /\ UNCHANGED outcome

EngineReports(ok) ==
  /\ ~m_axis_icap.valid /\ engine = "complete"
  /\ engine' = "rest"
  /\ icap_pr' = Report(ok, ~ok)
  /\ outcome' = IF ok THEN "loaded" ELSE "failed"

EngineQuiet ==
  /\ ~m_axis_icap.valid
  /\ icap_pr' = Report(build = "level" /\ engine = "rest", FALSE)
  /\ UNCHANGED <<engine, outcome>>

HardwareEngine == EngineWord \/ EngineQuiet \/ \E ok \in BOOLEAN : EngineReports(ok)

(***************************************************************************)
(* pkt_logic.v: the registers between them, and the edge of all three.     *)
(***************************************************************************)
MutantErrUnconnected ==
  icap_pr_reg' = [i \in 1 .. PipeDepth |->
                    IF i = 1 THEN Report(icap_pr.done, FALSE)
                    ELSE icap_pr_reg[i - 1]]

MutantSwappedLines ==
  icap_pr_reg' = [i \in 1 .. PipeDepth |->
                    IF i = 1 THEN Report(icap_pr.err, icap_pr.done)
                    ELSE icap_pr_reg[i - 1]]

ShiftReports ==
  icap_pr_reg' = [i \in 1 .. PipeDepth |->
                    IF i = 1 THEN icap_pr ELSE icap_pr_reg[i - 1]]

PathInit ==
  /\ Init
  /\ build \in Builds
  /\ icap_pr = Report(build = "level", FALSE)
  /\ icap_pr_reg = [i \in 1 .. PipeDepth |-> Report(FALSE, FALSE)]
  /\ engine = "rest"
  /\ outcome = "none"

(* A new command begins with no outcome.                                   *)
LoadBegins == /\ accepted' # accepted
              /\ icap_pr' = Report(build = "level" /\ engine = "rest", FALSE)
              /\ outcome' = "none"
              /\ UNCHANGED engine

PathNext ==
  /\ Edge(icap_pr_reg[PipeDepth].done, icap_pr_reg[PipeDepth].err)
  /\ IcapTakes
  /\ \/ LoadBegins
     \/ accepted' = accepted /\ build = "simulation" /\ SimulatedEngine
     \/ accepted' = accepted /\ build # "simulation" /\ HardwareEngine
  /\ ShiftReports
  /\ UNCHANGED build

PathSpec == PathInit /\ [][PathNext]_pathVars

(* HBM answers and the response is taken; the engine reports eventually,   *)
(* which the simulation build does by itself; the clock goes on.           *)
PathFairness ==
  /\ WF_pathVars(PathNext)
  /\ WF_pathVars(PathNext /\ ReadAddrTaken)
  /\ WF_pathVars(PathNext /\ ReconfBeat)
  /\ WF_pathVars(PathNext /\ ResponseTaken)
  /\ WF_pathVars(PathNext /\ \E ok \in BOOLEAN : EngineReports(ok))

FairPathSpec == PathSpec /\ PathFairness

(***************************************************************************)
(* Properties                                                              *)
(***************************************************************************)
(* The answer to RECONF_ICAP is what the engine made of this very load: no *)
(* report of an earlier load, still in the registers or resting on the     *)
(* line, is taken for it.                                                  *)
(* (docs/protocol.rst:103: "The response is delayed until the ICAP         *)
(* operation reports completion or error".)                                *)
AnswerIsEngines ==
  state = "SEND_STATUS" /\ cmd.op = "RECONF_ICAP" =>
    /\ m_axis.data = StatusLine("OK") => outcome = "loaded"
    /\ m_axis.data = StatusLine("ICAP") => outcome = "failed"

(* A load is answered: the engine's report, however short and however long *)
(* it is in the registers, is not missed.                                  *)
LoadAnswered == (state \in ReconfStates) ~> (state = "SEND_STATUS")
=============================================================================
