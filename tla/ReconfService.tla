--------------------------- MODULE ReconfService ---------------------------
(***************************************************************************)
(* What the reconfiguration controller promises to the logic around it:    *)
(* one command at a time; a write takes exactly the payload lines it       *)
(* announced and is answered OK only when it has them all; every command   *)
(* has one answer; a load isolates its slot from its acceptance on, and    *)
(* only an error may leave the slot isolated.                              *)
(* ReconfCtrl implements it (module ReconfRefinement); ReconfPath is built *)
(* on it.  ready is kept because pkt_logic.v relies on when it rises: an   *)
(* edge after the controller has become idle, never with it.               *)
(***************************************************************************)
EXTENDS Naturals

CONSTANTS SlotIds, NoSlot

ASSUME SlotAssumption == NoSlot \notin SlotIds

VARIABLES
  phase,      (* "idle", "payload", "busy" or "respond"                    *)
  ready,      (* the controller takes a line on the next edge              *)
  lines,      (* payload lines the command in progress still takes         *)
  loading,    (* the slot being loaded, or NoSlot                          *)
  isolated,   (* the slots cut off from traffic                            *)
  answer      (* "ok" or "error" while a response is offered               *)

serviceVars == <<phase, ready, lines, loading, isolated, answer>>

ServiceInit ==
  /\ phase = "idle" /\ ready = FALSE /\ lines = 0
  /\ loading = NoSlot /\ isolated = {} /\ answer = "none"

Listen ==
  /\ phase \in {"idle", "payload"}
  /\ ready' = TRUE
  /\ UNCHANGED <<phase, lines, loading, isolated, answer>>

(* A command is taken: answered at once, or begun.                         *)
TakeCommand == phase = "idle" /\ ready /\ ready' = FALSE

AcceptAnswered(a) ==
  /\ TakeCommand
  /\ phase' = "respond" /\ answer' = a
  /\ UNCHANGED <<lines, loading, isolated>>

AcceptWrite ==
  /\ TakeCommand
  /\ phase' = "payload"
  /\ lines' \in Nat \ {0}
  /\ UNCHANGED <<loading, isolated, answer>>

AcceptRead ==
  /\ TakeCommand
  /\ phase' = "busy"
  /\ UNCHANGED <<lines, loading, isolated, answer>>

AcceptLoad(s) ==
  /\ TakeCommand
  /\ phase' = "busy"
  /\ loading' = s
  /\ isolated' = isolated \union {s}
  /\ UNCHANGED <<lines, answer>>

TakeLine ==
  /\ phase = "payload" /\ ready
  /\ phase' = "busy" /\ ready' = FALSE
  /\ lines' = lines - 1
  /\ UNCHANGED <<loading, isolated, answer>>

NextLine ==
  /\ phase = "busy" /\ lines > 0
  /\ phase' = "payload"
  /\ UNCHANGED <<ready, lines, loading, isolated, answer>>

Finish(a) ==
  /\ phase = "busy"
  /\ a = "ok" => lines = 0
  /\ phase' = "respond" /\ answer' = a
  /\ lines' = 0 /\ loading' = NoSlot
  /\ \/ isolated' = isolated \ {loading}
     \/ a = "error" /\ UNCHANGED isolated
  /\ UNCHANGED ready

Answered ==
  /\ phase = "respond"
  /\ phase' = "idle" /\ answer' = "none"
  /\ UNCHANGED <<ready, lines, loading, isolated>>

ServiceNext ==
  \/ Listen
  \/ \E a \in {"ok", "error"} : AcceptAnswered(a) \/ Finish(a)
  \/ AcceptWrite \/ AcceptRead
  \/ \E s \in SlotIds : AcceptLoad(s)
  \/ TakeLine \/ NextLine
  \/ Answered

ServiceSpec == ServiceInit /\ [][ServiceNext]_serviceVars
=============================================================================
