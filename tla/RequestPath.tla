----------------------------- MODULE RequestPath ----------------------------
(***************************************************************************)
(* The way of a request from the packet receiver to the slots: dispatcher  *)
(* and scheduler as pkt_logic.v connects them, one clock edge per step.    *)
(* Beats tagged RECONF_APP leave for the reconfiguration controller, all   *)
(* others go through the scheduler.                                        *)
(*                                                                         *)
(* The environment is a plan, chosen at the start: requests, their packets *)
(* and what the connections may do.  A request is                          *)
(*   [conn, work, size: the lines it announces, beats: the lines it has,   *)
(*    cuts: the lines that end a packet].                                  *)
(* A request that has more lines than it announces ends with the packet    *)
(* that completes it; the lines after that packet are strays.              *)
(* The receiver hands over packets whole, with or without idle edges.      *)
(***************************************************************************)
EXTENDS Dispatcher, Scheduler

CONSTANT Plans    \* records [requests, interleave, spaced, eager, flags]:
                  \*   interleave: connections alternate within requests
                  \*   spaced:     an idle edge between packets
                  \*   eager:      a request begins while another waits to leave
                  \*   flags:      what bit 480 of a data line may be

VARIABLES
  plan,
  sent,           \* beats of each request handed to the dispatcher
  packetEnded,    \* the beat at the last edge ended a packet
  delivered,      \* beats of each request that left for their slot
  leaving         \* the request whose beats are leaving, 0 if none

envVars == << plan, sent, packetEnded >>
pathVars == << dispVars, schedVars, envVars, delivered, leaving >>

Requests == DOMAIN plan.requests
Request(r) == plan.requests[r]
ForSlots(r) == Request(r).work # RECONF_APP

(* The size in the header: without the header line for a reconfiguration.  *)
Size(r) == IF ForSlots(r) THEN Request(r).size ELSE Request(r).size - 1

(* The lines of r that make a request.                                     *)
Extent(r) == Min({c \in Request(r).cuts : c >= Request(r).size})

PacketLength(r, n) ==
  Min({c \in Request(r).cuts : c >= n}) - Max({0} \cup {c \in Request(r).cuts : c < n})

(* Beat n of request r; bit 480 of a data line is data.                    *)
Beat(r, n, bit) ==
  [req |-> r, n |-> n, conn |-> Request(r).conn, len |-> PacketLength(r, n),
   last |-> n \in Request(r).cuts,
   first |-> n = 1 \/ bit,
   final |-> n = 1 /\ Request(r).beats = 1,
   work |-> IF n = 1 THEN Request(r).work ELSE RECONF_APP,
   size |-> IF n = 1 THEN Size(r) ELSE 0]

Open(r) == 0 < sent[r] /\ sent[r] < Request(r).beats
InPacket(r) == Open(r) /\ sent[r] \notin Request(r).cuts

WaitsToLeave(r) ==
  ForSlots(r) /\ sent[r] >= Extent(r) /\ delivered[r] < Extent(r)

(* The next beat may be one of r.                                          *)
MaySend(r) ==
  /\ sent[r] < Request(r).beats
  /\ \A p \in Requests \ {r} :
       /\ ~ InPacket(p)
       /\ p < r /\ Request(p).conn = Request(r).conn => sent[p] = Request(p).beats
       /\ Open(p) => plan.interleave
  /\ Cardinality({p \in Requests : Open(p)} \cup {r}) <= QUEUE_NUM
  /\ plan.spaced => ~ packetEnded
  /\ sent[r] = 0 /\ ~ plan.eager => \A p \in Requests : ~ WaitsToLeave(p)

PathInit ==
  /\ plan \in Plans
  /\ sent = [r \in Requests |-> 0]
  /\ packetEnded = FALSE
  /\ delivered = [r \in Requests |-> 0]
  /\ leaving = 0
  /\ DispInit
  /\ SchedInit

reconf_selected == disp_tvalid /\ disp_tdata.work = RECONF_APP

(* What the scheduler is offered. *)
scheduler_rx == IF disp_tvalid /\ ~ reconf_selected THEN << disp_tdata >> ELSE << >>

(* The controller takes its beats when it likes.                           *)
dispatcher_tready(controller) == IF reconf_selected THEN controller ELSE rx_tready

Deliver(word) ==
  /\ delivered' = [delivered EXCEPT ![word.req] = word.n]
  /\ leaving' = IF word.n = Extent(word.req) THEN 0 ELSE word.req

(* Everything behind the receiver, at one edge.                            *)
RestOfPath(controller) ==
  /\ DispFifoEdge(dispatcher_tready(controller))
  /\ SchedulerEdge(scheduler_rx)
  /\ \/ Output # << >> /\ Deliver(Output[1])
     \/ Output = << >> /\ UNCHANGED << delivered, leaving >>

BeatEdge(r, bit, controller) ==
  /\ MaySend(r)
  /\ DispBeat(Beat(r, sent[r] + 1, bit))
  /\ sent' = [sent EXCEPT ![r] = @ + 1]
  /\ packetEnded' = (sent[r] + 1 \in Request(r).cuts)
  /\ RestOfPath(controller)
  /\ UNCHANGED plan

IdleEdge(controller) ==
  /\ DispIdle
  /\ packetEnded' = FALSE
  /\ RestOfPath(controller)
  /\ UNCHANGED << plan, sent >>

PathEdge(controller) ==
  \/ \E r \in Requests, bit \in plan.flags : BeatEdge(r, bit, controller)
  \/ IdleEdge(controller)

PathNext == \E controller \in BOOLEAN : PathEdge(controller)

PathSpec == PathInit /\ [][PathNext]_pathVars

(* The clock runs, and the controller does not refuse its beats for ever.  *)
FairPathSpec == PathSpec /\ WF_pathVars(PathEdge(TRUE))

-----------------------------------------------------------------------------
(* The slots get every beat of a request once and in order, with the       *)
(* workload and the size of the request's header, and message_end on the   *)
(* last beat only; they get no stray, and beats of two requests are never  *)
(* interleaved.                                                            *)
BeatsExact ==
  \A i \in DOMAIN Output :
    LET w == Output[i]
    IN  /\ w.n = delivered[w.req] + 1
        /\ w.work = Request(w.req).work
        /\ w.size = Size(w.req)
        /\ w.end <=> w.n = Extent(w.req)
        /\ leaving \in {0, w.req}

InDispatcher(r) ==
  LET ofRequest(w) == w.req = r /\ w.n <= Extent(r)
  IN  \/ \E i \in DOMAIN rx_tdata_combined : ofRequest(rx_tdata_combined[i])
      \/ \E i \in DOMAIN disp_fifo : ofRequest(disp_fifo[i].word)

(* The scheduler does not forward a request until every packet of it has   *)
(* arrived.                                                                *)
WholeBeforeLeaving ==
  \A i \in DOMAIN Output :
    LET r == Output[i].req IN sent[r] >= Extent(r) /\ ~ InDispatcher(r)

(* The credits of a queue that are not deducted are exactly the complete   *)
(* requests in it, although they are given when the last beat enters,      *)
(* deducted when it leaves and cleared by two blocks.                      *)
CreditsAreRequests ==
  \A q \in Queues :
    credits[q] - output_deduct_credits[q] =
      Cardinality({i \in DOMAIN queue_fifo[q] : queue_fifo[q][i].word.end})
        + Cardinality({i \in DOMAIN input_tdata[q] : input_tdata[q][i].end})

(* A request whose packets have all been received leaves for its slot.     *)
RequestsLeave ==
  \A r \in 1 .. Max({Len(p.requests) : p \in Plans}) :
    (r \in Requests /\ ForSlots(r) /\ sent[r] >= Extent(r))
      ~> (r \in Requests /\ delivered[r] = Extent(r))
=============================================================================
