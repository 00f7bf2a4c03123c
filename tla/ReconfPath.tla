----------------------------- MODULE ReconfPath -----------------------------
(***************************************************************************)
(* The way of a request to the reconfiguration controller and of its       *)
(* answer back (pkt_logic.v): the lines that the dispatcher tags with the  *)
(* controller's workload pass a small state machine that drops the header  *)
(* line of a packet, forwards the next lines to the controller, and drops  *)
(* what is left of the packet once the controller has answered.            *)
(*                                                                         *)
(* A request is a header line (position 0), a command line (1) and payload *)
(* lines; TCP delivers it as one packet or, cut, as two.  Every step but   *)
(* Send is an edge of clk at which the controller (ReconfService), the     *)
(* state machine and the dispatcher's FIFO move together.                  *)
(***************************************************************************)
EXTENDS ReconfService, Sequences

CONSTANTS
  Sessions,     (* connections                                             *)
  Shapes,       (* requests: [need, body, cut], see RequestShape           *)
  MaxRequests   (* bound: requests sent in one behaviour                   *)

(* body: lines after the header.  need: the payload lines that the command *)
(* takes, 0 unless it is a write.  cut: the line that begins a second TCP  *)
(* packet, 0 if there is none.                                             *)
RequestShape == [need : Nat, body : Nat, cut : Nat]

ASSUME ShapeAssumption ==
  /\ Shapes \subseteq RequestShape
  /\ MaxRequests \in Nat

VARIABLES
  fifo,         (* lines at the dispatcher's output                        *)
  reconf_seen_header, reconf_drain_packet,
  reconf_tx_meta,           (* the session the answer goes to              *)
  sent,         (* history: shape of each request sent, in order           *)
  cmd, taken,   (* history: line taken as command, payload lines since     *)
  answers       (* history: request and session of each answer             *)

fsmVars  == <<reconf_seen_header, reconf_drain_packet, reconf_tx_meta>>
pathVars == <<serviceVars, fsmVars, fifo, sent, cmd, taken, answers>>

RequestLine(id, session, shape, pos) ==
  [id |-> id, session |-> session, pos |-> pos, need |-> shape.need,
   last |-> pos = shape.body \/ pos + 1 = shape.cut]

NoLine == [id |-> 0, session |-> 0, pos |-> 0, need |-> 0, last |-> FALSE]

PathInit ==
  /\ ServiceInit
  /\ fifo = <<>> /\ sent = <<>>
  /\ reconf_seen_header = FALSE /\ reconf_drain_packet = FALSE
  /\ reconf_tx_meta = 0
  /\ cmd = NoLine /\ taken = 0 /\ answers = <<>>

(* A client sends a request; TCP and the dispatcher deliver its lines.     *)
Send(session, shape) ==
  /\ Len(sent) < MaxRequests
  /\ sent' = Append(sent, shape)
  /\ fifo' = fifo \o [i \in 1 .. shape.body + 1 |->
                        RequestLine(Len(sent) + 1, session, shape, i - 1)]
  /\ UNCHANGED <<serviceVars, fsmVars, cmd, taken, answers>>

(***************************************************************************)
(* pkt_logic.v: routing, and when a line may pass                          *)
(***************************************************************************)
reconf_header_line  == ~reconf_seen_header
reconf_payload_line == reconf_seen_header
reconf_forward_line == reconf_payload_line /\ ~reconf_drain_packet

MutantEagerHeader ==
  IF reconf_header_line THEN TRUE ELSE reconf_drain_packet \/ ready

dispatcher_tready ==
  IF reconf_header_line THEN phase = "idle" ELSE reconf_drain_packet \/ ready

(* The state machine, given whether line passes and whether the            *)
(* controller's answer does.  The branches exclude one another in this     *)
(* order.                                                                  *)
MutantNoDrain(line, fire, answered) ==
  \/ /\ fire /\ reconf_header_line
     /\ reconf_tx_meta' = line.session
     /\ reconf_seen_header' = ~line.last
     /\ reconf_drain_packet' = FALSE
  \/ /\ fire /\ reconf_payload_line /\ line.last
     /\ reconf_seen_header' = FALSE /\ reconf_drain_packet' = FALSE
     /\ UNCHANGED reconf_tx_meta
  \/ /\ ~(fire /\ (reconf_header_line \/ line.last))
     /\ UNCHANGED fsmVars

MutantDrainKept(line, fire, answered) ==
  \/ /\ fire /\ reconf_header_line
     /\ reconf_tx_meta' = line.session
     /\ reconf_seen_header' = ~line.last
     /\ UNCHANGED reconf_drain_packet
  \/ /\ fire /\ reconf_payload_line /\ line.last
     /\ reconf_seen_header' = FALSE
     /\ UNCHANGED <<reconf_drain_packet, reconf_tx_meta>>
  \/ /\ ~(fire /\ (reconf_header_line \/ line.last))
     /\ IF answered /\ reconf_seen_header THEN reconf_drain_packet' = TRUE
        ELSE UNCHANGED reconf_drain_packet
     /\ UNCHANGED <<reconf_seen_header, reconf_tx_meta>>

TrackPacket(line, fire, answered) ==
  \/ /\ fire /\ reconf_header_line
     /\ reconf_tx_meta' = line.session
     /\ reconf_seen_header' = ~line.last
     /\ reconf_drain_packet' = FALSE
  \/ /\ fire /\ reconf_payload_line /\ line.last
     /\ reconf_seen_header' = FALSE /\ reconf_drain_packet' = FALSE
     /\ UNCHANGED reconf_tx_meta
  \/ /\ ~(fire /\ (reconf_header_line \/ line.last))
     /\ answered /\ reconf_seen_header
     /\ reconf_drain_packet' = TRUE
     /\ UNCHANGED <<reconf_seen_header, reconf_tx_meta>>
  \/ /\ ~(fire /\ (reconf_header_line \/ line.last))
     /\ ~(answered /\ reconf_seen_header)
     /\ UNCHANGED fsmVars

(***************************************************************************)
(* The edges                                                               *)
(***************************************************************************)
(* The controller takes line as a command: a write announces its payload,  *)
(* and any command may be refused.                                         *)
CommandTaken(line) ==
  /\ \/ line.need > 0 /\ lines' = line.need /\ AcceptWrite
     \/ line.need = 0 /\ (AcceptRead \/ \E s \in SlotIds : AcceptLoad(s)
                                     \/ AcceptAnswered("ok"))
     \/ AcceptAnswered("error")
  /\ cmd' = line /\ taken' = 0

PayloadTaken == TakeLine /\ taken' = taken + 1 /\ UNCHANGED cmd

(* A line passes from the FIFO.                                            *)
LinePasses ==
  LET line == Head(fifo) IN
  /\ fifo # <<>> /\ dispatcher_tready
  /\ fifo' = Tail(fifo)
  /\ \/ reconf_forward_line /\ (CommandTaken(line) \/ PayloadTaken)
     \/ ~reconf_forward_line /\ Listen /\ UNCHANGED <<cmd, taken>>
  /\ TrackPacket(line, TRUE, FALSE)
  /\ UNCHANGED <<sent, answers>>

(* No line passes and the controller goes on with its command.             *)
ControllerWorks ==
  /\ Listen \/ NextLine \/ \E a \in {"ok", "error"} : Finish(a)
  /\ TrackPacket(NoLine, FALSE, FALSE)
  /\ UNCHANGED <<fifo, sent, cmd, taken, answers>>

AnswerPasses ==
  /\ Answered
  /\ TrackPacket(NoLine, FALSE, TRUE)
  /\ answers' = Append(answers, [id |-> cmd.id, session |-> reconf_tx_meta])
  /\ UNCHANGED <<fifo, sent, cmd, taken>>

PathNext ==
  \/ \E session \in Sessions, shape \in Shapes : Send(session, shape)
  \/ LinePasses
  \/ ControllerWorks
  \/ AnswerPasses

PathSpec == PathInit /\ [][PathNext]_pathVars

(* Lines that may pass do, the controller finishes what it has begun, and  *)
(* the response switch takes its answer.                                   *)
PathFairness ==
  /\ WF_pathVars(LinePasses)
  /\ WF_pathVars(ControllerWorks)
  /\ WF_pathVars(AnswerPasses)

FairPathSpec == PathSpec /\ PathFairness

(***************************************************************************)
(* Properties                                                              *)
(***************************************************************************)
(* The controller takes as a command only the command line of a request,   *)
(* and as its payload only that request's lines, in order: never a header, *)
(* never a left-over line of a packet it has already answered.             *)
LinesInPlace ==
  [][/\ phase = "idle" /\ phase' # "idle" => cmd'.pos = 1
     /\ taken' > taken => /\ Head(fifo).id = cmd.id
                          /\ Head(fifo).pos = taken + 2]_pathVars

(* Whatever the controller answers goes to the session whose command it is *)
(* serving, although the session is noted at the header and packets of     *)
(* other sessions may be waiting.                                          *)
AnswerToItsSession ==
  phase # "idle" => reconf_tx_meta = cmd.session

(* A request with a command line, and no less payload than it announces.   *)
Whole(shape) == shape.need < shape.body

(* Every request is answered, until one comes that is not whole: a header  *)
(* alone has no answer, and payload that is missing is waited for.         *)
AllAnswered ==
  \A n \in 1 .. MaxRequests :
    (Len(sent) = n) ~> \/ Len(answers) >= n
                       \/ \E i \in DOMAIN sent : ~Whole(sent[i])
=============================================================================
