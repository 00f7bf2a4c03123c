----------------------------- MODULE PktSender ------------------------------
(***************************************************************************)
(* The sender (pkt_sender.v): responses come beat by beat from the slots   *)
(* and leave to the TCP stack, which is first told of a response           *)
(* (metadata), answers with a status, and takes the beats of the responses *)
(* that it granted.                                                        *)
(*                                                                         *)
(* The sender's registers change on the handshakes of the FIFOs around     *)
(* them, and no two of these at the same edge touch the same end of a FIFO *)
(* or the same register, so each handshake is an action of its own.        *)
(***************************************************************************)
EXTENDS Naturals, Sequences

CONSTANTS
  PayloadDepth, MetaDepth,  (* depth of fifo_payload and fifo_metadata     *)
  MaxBeats,                 (* the longest response                        *)
  MaxResponses,             (* bound: responses in one behaviour           *)
  Verdicts                  (* Verdicts[n]: what the stack may say to a    *)
                            (* response of n beats                         *)

StackVerdicts == {"ok", "closed", "nospace"}

ASSUME SenderAssumption ==
  /\ PayloadDepth \in Nat \ {0} /\ MetaDepth \in Nat \ {0}
  /\ MaxBeats \in 1 .. PayloadDepth
  /\ MaxResponses \in Nat
  /\ Verdicts \in [1 .. MaxBeats -> SUBSET StackVerdicts]

Beat == [id : Nat, pos : Nat, last : BOOLEAN]

VARIABLES
  payload, metadata, status,    (* the three FIFOs                         *)
  tx_payload_active, tx_status_consumed,
  input,        (* the beat last taken from the slots                      *)
  announced,    (* history: responses whose metadata the stack took        *)
  owed,         (* the stack has still to answer the last of them          *)
  verdict,      (* history: what it answered                               *)
  output        (* history: the beat the stack took last                   *)

txVars  == <<tx_payload_active, tx_status_consumed>>
fifos   == <<payload, metadata, status>>
senderVars == <<fifos, txVars, input, announced, owed, verdict, output>>

NoBeat == [id |-> 0, pos |-> 0, last |-> TRUE]

SenderInit ==
  /\ payload = <<>> /\ metadata = <<>> /\ status = <<>>
  /\ tx_payload_active = FALSE /\ tx_status_consumed = FALSE
  /\ input = NoBeat /\ output = NoBeat
  /\ announced = 0 /\ owed = FALSE /\ verdict = "ok"

(* The beat that follows b in a stream of responses.                       *)
Follows(c, b) ==
  IF b.last THEN c.id > b.id /\ c.pos = 1
            ELSE c.id = b.id /\ c.pos = b.pos + 1

(***************************************************************************)
(* Beats from the slots                                                    *)
(***************************************************************************)
pkt_rx_tready == Len(metadata) < MetaDepth /\ Len(payload) < PayloadDepth

MutantAnnounceFirst(b) ==
  /\ pkt_rx_tready
  /\ payload' = Append(payload, b)
  /\ metadata' = IF b.pos = 1 THEN Append(metadata, b.id) ELSE metadata
  /\ input' = b
  /\ UNCHANGED <<status, txVars, announced, owed, verdict, output>>

(* The metadata of a response enters its FIFO with the last beat.          *)
Receive(b) ==
  /\ pkt_rx_tready
  /\ payload' = Append(payload, b)
  /\ metadata' = IF b.last THEN Append(metadata, b.id) ELSE metadata
  /\ input' = b
  /\ UNCHANGED <<status, txVars, announced, owed, verdict, output>>

(* Any response of at most MaxBeats may come after another.                *)
NextBeat(b) ==
  /\ Follows(b, input)
  /\ b.id <= input.id + 1 /\ b.id <= MaxResponses
  /\ b.pos <= MaxBeats /\ (b.pos = MaxBeats => b.last)

(***************************************************************************)
(* The TCP stack                                                           *)
(***************************************************************************)
MutantAnnounceAlways ==
  /\ metadata # <<>>
  /\ metadata' = Tail(metadata)
  /\ tx_payload_active' = TRUE /\ tx_status_consumed' = FALSE
  /\ announced' = Head(metadata) /\ owed' = TRUE
  /\ UNCHANGED <<payload, status, input, verdict, output>>

(* The stack takes the metadata of a response.                             *)
Announce ==
  /\ ~tx_payload_active
  /\ metadata # <<>>
  /\ metadata' = Tail(metadata)
  /\ tx_payload_active' = TRUE /\ tx_status_consumed' = FALSE
  /\ announced' = Head(metadata) /\ owed' = TRUE
  /\ UNCHANGED <<payload, status, input, verdict, output>>

(* s_axis_tx_status_tdata[62]: the bit of the status that is kept.         *)
ErrorBit(v) == v = "closed"

(* Beats of the response being served: those of its id still queued, the   *)
(* first of which stands at the head of the FIFO.                          *)
ResponseBeats(id) == {i \in DOMAIN payload : payload[i].id = id}

(* The stack answers the metadata, knowing the length of the response.     *)
StatusArrives(v) ==
  /\ owed
  /\ \E i \in ResponseBeats(announced) :
        payload[i].last /\ v \in Verdicts[payload[i].pos]
  /\ status' = Append(status, ErrorBit(v))
  /\ verdict' = v /\ owed' = FALSE
  /\ UNCHANGED <<payload, metadata, txVars, input, announced, output>>

(***************************************************************************)
(* Beats to the stack                                                      *)
(***************************************************************************)
Refused ==
  /\ tx_payload_active /\ ~tx_status_consumed
  /\ status # <<>> /\ payload # <<>> /\ Head(status)

(* "exception handler": the status and one beat are dropped.               *)
Discard ==
  /\ Refused
  /\ payload' = Tail(payload) /\ status' = Tail(status)
  /\ tx_payload_active' = ~Head(payload).last
  /\ UNCHANGED <<metadata, tx_status_consumed, input, announced, owed,
                 verdict, output>>

tx_data_tvalid ==
  /\ ~Refused
  /\ tx_payload_active /\ payload # <<>>
  /\ tx_status_consumed \/ status # <<>>

MutantStatusPerBeat ==
  /\ tx_data_tvalid
  /\ payload' = Tail(payload)
  /\ status' = IF tx_status_consumed THEN status ELSE Tail(status)
  /\ tx_payload_active' = ~Head(payload).last
  /\ tx_status_consumed' = FALSE
  /\ output' = Head(payload)
  /\ UNCHANGED <<metadata, input, announced, owed, verdict>>

(* The stack takes a beat, the first one together with its status.         *)
SendBeat ==
  /\ tx_data_tvalid
  /\ payload' = Tail(payload)
  /\ status' = IF tx_status_consumed THEN status ELSE Tail(status)
  /\ tx_payload_active' = ~Head(payload).last
  /\ tx_status_consumed' = ~Head(payload).last
  /\ output' = Head(payload)
  /\ UNCHANGED <<metadata, input, announced, owed, verdict>>

SenderNext ==
  \/ \E b \in [id : 1 .. MaxResponses, pos : 1 .. MaxBeats, last : BOOLEAN] :
        NextBeat(b) /\ Receive(b)
  \/ Announce
  \/ \E v \in StackVerdicts : StatusArrives(v)
  \/ Discard
  \/ SendBeat

SenderSpec == SenderInit /\ [][SenderNext]_senderVars

(* The stack takes metadata, answers it, and takes the beats offered.      *)
SenderFairness ==
  /\ WF_senderVars(Announce)
  /\ WF_senderVars(\E v \in StackVerdicts : StatusArrives(v))
  /\ WF_senderVars(Discard)
  /\ WF_senderVars(SendBeat)

FairSenderSpec == SenderSpec /\ SenderFairness

(***************************************************************************)
(* Properties                                                              *)
(***************************************************************************)
(* Every beat the stack takes belongs to the response it was told of last, *)
(* and the beats of a response leave in their order, all of them, before   *)
(* the first beat of another: m_axis_tx_data carries no identity, so the   *)
(* stack would credit a stray beat to the wrong connection.                *)
BeatsUnderTheirMetadata ==
  [][output' # output => /\ output'.id = announced
                         /\ Follows(output', output)]_senderVars

(* The stack is told of a response only once all of it is buffered, so     *)
(* that the data it grants space for never waits for a slot.               *)
AnnouncedWhole ==
  \A n \in DOMAIN metadata :
    /\ ResponseBeats(metadata[n]) # {}
    /\ \E i \in ResponseBeats(metadata[n]) : payload[i].last
    /\ \A i \in ResponseBeats(metadata[n]) :
         payload[i].pos > 1 => i > 1 /\ payload[i - 1].id = metadata[n]

(* Every response that entered whole is sent or discarded.                 *)
ResponsesLeave ==
  \A n \in 1 .. MaxResponses :
    (input.id = n /\ input.last) ~> (announced >= n /\ ~tx_payload_active)
=============================================================================
