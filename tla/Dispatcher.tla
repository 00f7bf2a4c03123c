----------------------------- MODULE Dispatcher -----------------------------
(***************************************************************************)
(* dispatcher.v: recognises the header line of a request and tags every    *)
(* beat with the workload and the size that the last recognised header     *)
(* named.  One set of registers serves all connections.  Sizes and packet  *)
(* lengths are counted in beats of 64 bytes.                               *)
(*                                                                         *)
(* A beat that enters is a record: conn and len, the connection and the    *)
(* length of its TCP packet (from the stack's metadata); last, the end of  *)
(* that packet; first and final, bits 480 and 481 of its line; work and    *)
(* size, what the line says if it is read as a header; req and n, which    *)
(* say what it really is and are never looked at.                          *)
(***************************************************************************)
EXTENDS AxisFifo

CONSTANTS
  Workloads,      \* workload numbers
  RECONF_APP,     \* the workload number of the reconfiguration controller
  DispDepth       \* depth of the output FIFO

ASSUME ReconfIsAWorkload == RECONF_APP \in Workloads
ASSUME DispDepthAssumption == DispDepth \in Nat \ {0}

VARIABLES
  workload_selection,
  packet_size,
  expecting_header,
  request_bytes_remaining,
  rx_tdata_combined,       \* the tagged beat under rx_tvalid_combined, as a
                           \* sequence of at most one
  disp_fifo

dispVars == << workload_selection, packet_size, expecting_header,
               request_bytes_remaining, rx_tdata_combined, disp_fifo >>

DispInit ==
  /\ workload_selection = CHOOSE w \in Workloads : TRUE
  /\ packet_size = 0
  /\ expecting_header = TRUE
  /\ request_bytes_remaining = 0
  /\ rx_tdata_combined = << >>
  /\ disp_fifo = << >>

Tagged(b, workload, size) ==
  [req |-> b.req, n |-> b.n, conn |-> b.conn, len |-> b.len,
   last |-> b.last, first |-> b.first, work |-> workload, size |-> size]

config_header_line(b) == expecting_header /\ b.first

(* The payload of a reconfiguration request is announced without its       *)
(* header line.                                                            *)
header_request_bytes(b) == IF b.work = RECONF_APP THEN b.size + 1 ELSE b.size

active_request_bytes(b) ==
  IF config_header_line(b) THEN header_request_bytes(b) ELSE request_bytes_remaining

(* The bytes of a request are counted by packets, at the end of each.      *)
CountBytes(b) ==
  LET done == \/ config_header_line(b) /\ b.final
              \/ active_request_bytes(b) <= b.len
  IN  \/ /\ b.last
         /\ expecting_header' = done
         /\ request_bytes_remaining' =
              IF done THEN 0 ELSE active_request_bytes(b) - b.len
      \/ /\ ~ b.last
         /\ config_header_line(b)
         /\ expecting_header' = FALSE
         /\ request_bytes_remaining' = active_request_bytes(b)
      \/ /\ ~ b.last
         /\ ~ config_header_line(b)
         /\ UNCHANGED << expecting_header, request_bytes_remaining >>

(* rx_tready is 1: every beat offered is taken.                            *)
DispBeat(b) ==
  /\ workload_selection' = IF config_header_line(b) THEN b.work ELSE workload_selection
  /\ packet_size' = IF config_header_line(b) THEN b.size ELSE packet_size
  /\ rx_tdata_combined' = << Tagged(b, workload_selection', packet_size') >>
  /\ CountBytes(b)

DispIdle ==
  /\ rx_tdata_combined' = << >>
  /\ UNCHANGED << workload_selection, packet_size, expecting_header,
                  request_bytes_remaining >>

(* The FIFO's s_axis_tready is not connected: a beat that meets a full     *)
(* FIFO is lost.                                                           *)
DispFifoEdge(ready) == disp_fifo' = FifoEdge(disp_fifo, DispDepth, rx_tdata_combined, ready)

disp_tvalid == OutputValid(disp_fifo)
disp_tdata == OutputWord(disp_fifo)

=============================================================================
