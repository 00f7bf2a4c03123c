-------------------------- MODULE ReconfRefinement --------------------------
(***************************************************************************)
(* The controller's state machine implements ReconfService.                *)
(***************************************************************************)
EXTENDS ReconfCtrl

WriteStates == {"WRITE_ADDR", "WRITE_DATA", "WRITE_RESP"}

(* Lines that n payload bytes occupy.                                      *)
LinesFor(n) == (n + LineBytes - 1) \div LineBytes

servicePhase ==
  CASE state = "IDLE" -> "idle"
    [] state = "WRITE_WAIT_DATA" -> "payload"
    [] state \in {"SEND_STATUS", "READ_SEND"} -> "respond"
    [] OTHER -> "busy"

(* remaining_bytes counts the line being written until its last response.  *)
serviceLines ==
  CASE state = "WRITE_WAIT_DATA" -> LinesFor(remaining_bytes)
    [] state \in WriteStates -> LinesFor(remaining_bytes) - 1
    [] OTHER -> 0

serviceAnswer ==
  IF servicePhase # "respond" THEN "none"
  ELSE IF m_axis.data.kind = "status" /\ m_axis.data # StatusLine("OK")
       THEN "error" ELSE "ok"

serviceLoading == IF state \in ReconfStates THEN active_slot_id ELSE SlotCount

serviceIsolated == {s \in Slots : slot_decouple[s]}

Service == INSTANCE ReconfService WITH
  SlotIds  <- Slots,
  NoSlot   <- SlotCount,
  phase    <- servicePhase,
  ready    <- s_axis_tready,
  lines    <- serviceLines,
  loading  <- serviceLoading,
  isolated <- serviceIsolated,
  answer   <- serviceAnswer

(* Seen through this mapping every edge of reconfctrl.v is a step that     *)
(* ReconfService allows, or none: lines taken, answers given and slots     *)
(* isolated are what was promised.                                         *)
ImplementsService == Service!ServiceSpec
=============================================================================
