----------------------------- MODULE ReconfCtrl -----------------------------
(***************************************************************************)
(* The reconfiguration controller (reconfctrl.v): a state machine that     *)
(* takes one command at a time from the network and writes HBM, reads HBM, *)
(* or streams a partial bitstream from HBM through ICAP into a slot that   *)
(* it isolates for the duration.                                           *)
(*                                                                         *)
(* The model is cycle accurate: every step is one rising edge of clk.  The *)
(* inputs of that edge (ready and valid of the other side, responses of    *)
(* HBM, the PRDONE and PRERROR lines of ICAP) are chosen freely, so a step *)
(* in which the awaited handshake does not happen is a Wait step.  HBM is  *)
(* external: the variable hbm with single-beat reads and writes that may   *)
(* fail.  Widths are scaled by constants: the code has WordBytes = 4,      *)
(* WordsPerBeat = 8 (256 bit AXI beats), lines of two beats (512 bit), and *)
(* AddrBeats = 2^28 (ADDR_WIDTH = 33).                                     *)
(***************************************************************************)
EXTENDS Integers, Sequences

CONSTANTS
  WordBytes,      (* bytes of one ICAP word                                *)
  WordsPerBeat,   (* ICAP words in one AXI beat                            *)
  AddrBeats,      (* beats that ADDR_WIDTH address bits can name           *)
  SlotCount,      (* SLOT_COUNT                                            *)
  Commands,       (* command lines a client may send                       *)
  HbmContents,    (* what HBM may hold when the controller leaves reset    *)
  Lines,          (* payload lines a client may send                       *)
  MaxCommands,    (* bound: commands accepted in one behaviour             *)
  CycleCap        (* bound: cycle counts from here on are not told apart   *)

Opcodes == {"WRITE_HBM", "READ_HBM", "RECONF_ICAP", "QUERY_STATUS", "OTHER"}

BeatBytes == WordsPerBeat * WordBytes
LineBytes == 2 * BeatBytes
AddrSpace == AddrBeats * BeatBytes
Addr      == 0 .. AddrSpace - 1
Slots     == 0 .. SlotCount - 1
Byte      == Nat
Line      == [1 .. LineBytes -> Byte]
Beat      == [1 .. BeatBytes -> Byte]
Word      == [1 .. WordBytes -> Byte]

(* A command line as the controller decodes it.  The address and the size  *)
(* are 64-bit fields, so they may exceed what the controller can handle.   *)
CommandLine == [op : Opcodes, slot : Nat, addr : Nat, size : Nat]

ASSUME WidthAssumption ==
  /\ WordBytes \in Nat \ {0}
  /\ WordsPerBeat \in Nat \ {0}
  /\ AddrBeats \in Nat \ {0}
  /\ SlotCount \in Nat \ {0}
  /\ CycleCap \in Nat \ {0}

ASSUME InputAssumption ==
  /\ Commands \subseteq CommandLine
  /\ Lines \subseteq Line
  /\ HbmContents \subseteq [Addr -> Byte]
  /\ MaxCommands \in Nat

VARIABLES
  state, s_axis_tready,
  m_axis,             (* response stream: valid, data                      *)
  m_axis_icap,        (* ICAP stream: valid, word, last                    *)
  slot_decouple,
  aw, w, bready,      (* AXI write channels                                *)
  ar, rready,         (* AXI read channels                                 *)
  current_addr, remaining_bytes, icap_words_remaining,
  data_line, line_bytes, half_select,
  read_response, read_data, icap_word_index,
  last_error, reconf_active, active_slot_id, last_slot_id,
  reconf_cycles, last_reconf_cycles,
  icap_pr_done_seen, icap_pr_err_seen,
  hbm,                (* external memory                                   *)
  (* History, read by no guard but the bound on accepted commands.         *)
  cmd,                (* the command last accepted                         *)
  payload,            (* the payload bytes taken for it                    *)
  icap_log,           (* the words ICAP took for it                        *)
  accepted, answered, (* commands accepted, responses taken                *)
  aborted             (* slots whose last load ended in an HBM read error  *)

writeRegs == <<aw, w, bready, data_line, line_bytes, half_select>>
readRegs  == <<ar, rready, read_response>>
icapRegs  == <<m_axis_icap, icap_words_remaining, read_data, icap_word_index>>
slotRegs  == <<slot_decouple, reconf_active, active_slot_id, last_slot_id,
               last_reconf_cycles>>
latchRegs == <<reconf_cycles, icap_pr_done_seen, icap_pr_err_seen>>
history   == <<cmd, payload, icap_log, accepted, answered, aborted>>

vars == <<state, s_axis_tready, m_axis, writeRegs, readRegs, icapRegs,
          slotRegs, latchRegs, current_addr, remaining_bytes, last_error,
          hbm, history>>

States == {"IDLE", "WRITE_WAIT_DATA", "WRITE_ADDR", "WRITE_DATA",
           "WRITE_RESP", "READ_ADDR_0", "READ_DATA_0", "READ_ADDR_1",
           "READ_DATA_1", "READ_SEND", "RECONF_ADDR", "RECONF_DATA",
           "RECONF_STREAM", "RECONF_WAIT_DONE", "SEND_STATUS"}

ReconfStates == {"RECONF_ADDR", "RECONF_DATA", "RECONF_STREAM",
                 "RECONF_WAIT_DONE"}

Errors == {"OK", "OPCODE", "ALIGN", "SIZE", "ADDR", "AXI_BRESP",
           "AXI_RRESP", "RLAST", "SLOT", "ICAP"}

(***************************************************************************)
(* Widths and slices                                                       *)
(***************************************************************************)
Lesser(a, b) == IF a < b THEN a ELSE b

(* Mutants stand before the definitions they replace: each is a bug that   *)
(* the code might have had, and that some property must notice.            *)
MutantFullHalves(bytes, half) == BeatBytes

WriteBytesForHalf(bytes, half) ==
  IF ~half THEN Lesser(bytes, BeatBytes)
  ELSE IF bytes > BeatBytes THEN Lesser(bytes, LineBytes) - BeatBytes ELSE 0

MutantUncappedLine(remaining) == remaining

NextLineBytes(remaining) == Lesser(remaining, LineBytes)

(* mask_data_256: the bytes from byte_count on are cleared.                *)
MaskData(data, count) ==
  [i \in 1 .. BeatBytes |-> IF i <= count THEN data[i] ELSE 0]

ReadFirstByteCount(bytes)  == Lesser(bytes, BeatBytes)
ReadSecondByteCount(bytes) == Lesser(bytes - BeatBytes, BeatBytes)

MutantWordOrder(data, index) ==
  [i \in 1 .. WordBytes |-> data[(WordsPerBeat - 1 - index) * WordBytes + i]]

SelectIcapWord(data, index) ==
  [i \in 1 .. WordBytes |-> data[index * WordBytes + i]]

HalfLine(line, half) ==
  [i \in 1 .. BeatBytes |-> line[IF half THEN BeatBytes + i ELSE i]]

JoinBeats(low, high) ==
  [i \in 1 .. LineBytes |->
     IF i <= BeatBytes THEN low[i] ELSE high[i - BeatBytes]]

ZeroBeat == [i \in 1 .. BeatBytes |-> 0]
ZeroLine == [i \in 1 .. LineBytes |-> 0]

(* Address arithmetic is truncated to ADDR_WIDTH bits.                     *)
AddAddr(a, n) == (a + n) % AddrSpace

(***************************************************************************)
(* HBM: one beat read from, or written under byte strobes to, an address.  *)
(***************************************************************************)
HbmBeat(addr) == [i \in 1 .. BeatBytes |-> hbm[AddAddr(addr, i - 1)]]

HbmWritten(addr, data, strb) ==
  [a \in Addr |-> IF \E i \in 1 .. strb : a = AddAddr(addr, i - 1)
                  THEN data[CHOOSE i \in 1 .. strb : a = AddAddr(addr, i - 1)]
                  ELSE hbm[a]]

(***************************************************************************)
(* Command validation: the first failing check gives the status.           *)
(***************************************************************************)
Validate(c) ==
  IF c.op = "OTHER" THEN "OPCODE"
  ELSE IF c.op = "QUERY_STATUS" THEN "OK"
  ELSE IF ~(c.addr < AddrSpace) THEN "ADDR"
  ELSE IF c.addr % BeatBytes # 0 THEN "ALIGN"
  ELSE IF c.size = 0 THEN "SIZE"
  ELSE IF c.op = "READ_HBM" /\ c.size > LineBytes THEN "SIZE"
  ELSE IF c.op = "RECONF_ICAP" /\ c.size % WordBytes # 0 THEN "SIZE"
  ELSE IF c.op = "RECONF_ICAP" /\ ~(c.slot < SlotCount) THEN "SLOT"
  ELSE "OK"

(***************************************************************************)
(* The tasks of the state machine                                          *)
(***************************************************************************)
StatusLine(status) == [kind |-> "status", code |-> status]
DataLine(line)     == [kind |-> "data", bytes |-> line]

QueryLine ==
  [kind          |-> "query",
   active        |-> reconf_active,
   last_slot     |-> last_slot_id,
   last_error    |-> last_error,
   pr_done_seen  |-> icap_pr_done_seen,
   pr_err_seen   |-> icap_pr_err_seen,
   last_cycles   |-> last_reconf_cycles,
   active_cycles |-> IF reconf_active THEN reconf_cycles ELSE 0]

Respond(line) == m_axis' = [valid |-> TRUE, data |-> line]

MutantStatusNotRaised(status) ==
  /\ last_error' = status
  /\ m_axis' = [valid |-> FALSE, data |-> StatusLine(status)]
  /\ state' = "SEND_STATUS"

StartStatus(status) ==
  /\ last_error' = status
  /\ Respond(StatusLine(status))
  /\ state' = "SEND_STATUS"

StartQueryStatus ==
  /\ Respond(QueryLine)
  /\ state' = "SEND_STATUS"
  /\ UNCHANGED last_error

MutantReleaseAll(status) ==
  /\ slot_decouple' = [s \in Slots |-> FALSE]
  /\ last_slot_id' = active_slot_id
  /\ last_reconf_cycles' = reconf_cycles
  /\ reconf_active' = FALSE
  /\ UNCHANGED active_slot_id
  /\ StartStatus(status)

FinishReconf(status) ==
  /\ slot_decouple' = [slot_decouple EXCEPT ![active_slot_id] = FALSE]
  /\ last_slot_id' = active_slot_id
  /\ last_reconf_cycles' = reconf_cycles
  /\ reconf_active' = FALSE
  /\ UNCHANGED active_slot_id
  /\ StartStatus(status)

(* What every edge does beside the state machine: count the cycles of an   *)
(* active load, and latch the ICAP lines (done, err) while it lasts.       *)
Latch(done, err) ==
  /\ reconf_cycles' = IF reconf_active THEN Lesser(reconf_cycles + 1, CycleCap)
                      ELSE reconf_cycles
  /\ icap_pr_done_seen' = (icap_pr_done_seen \/ (reconf_active /\ done))
  /\ icap_pr_err_seen' = (icap_pr_err_seen \/ (reconf_active /\ err))

(* The edge of action A, with the ICAP lines it meets.                     *)
Clocked(A) == \E done, err \in BOOLEAN : Latch(done, err) /\ A

(***************************************************************************)
(* The state that rst establishes; HBM keeps what it held before.          *)
(***************************************************************************)
Init ==
  /\ state = "IDLE" /\ s_axis_tready = FALSE
  /\ m_axis = [valid |-> FALSE, data |-> StatusLine("OK")]
  /\ m_axis_icap = [valid |-> FALSE, word |-> SelectIcapWord(ZeroBeat, 0),
                    last |-> FALSE]
  /\ slot_decouple = [s \in Slots |-> FALSE]
  /\ aw = [valid |-> FALSE, addr |-> 0]
  /\ w = [valid |-> FALSE, data |-> ZeroBeat, strb |-> 0]
  /\ bready = FALSE
  /\ ar = [valid |-> FALSE, addr |-> 0]
  /\ rready = FALSE
  /\ current_addr = 0 /\ remaining_bytes = 0 /\ icap_words_remaining = 0
  /\ data_line = ZeroLine /\ line_bytes = 0 /\ half_select = FALSE
  /\ read_response = ZeroBeat /\ read_data = ZeroBeat /\ icap_word_index = 0
  /\ last_error = "OK" /\ reconf_active = FALSE
  /\ active_slot_id = 0 /\ last_slot_id = 0
  /\ reconf_cycles = 0 /\ last_reconf_cycles = 0
  /\ icap_pr_done_seen = FALSE /\ icap_pr_err_seen = FALSE
  /\ cmd = [op |-> "QUERY_STATUS", slot |-> 0, addr |-> 0, size |-> 0]
  /\ payload = <<>> /\ icap_log = <<>>
  /\ hbm \in HbmContents
  /\ accepted = 0 /\ answered = 0 /\ aborted = {}

(***************************************************************************)
(* IDLE                                                                    *)
(***************************************************************************)
(* Every edge spent in IDLE drives all the valid and ready outputs low     *)
(* (m_axis apart: an accepted command may raise it).                       *)
IdleOutputs ==
  /\ m_axis_icap' = [m_axis_icap EXCEPT !.valid = FALSE, !.last = FALSE]
  /\ aw' = [aw EXCEPT !.valid = FALSE]
  /\ w' = [w EXCEPT !.valid = FALSE]
  /\ ar' = [ar EXCEPT !.valid = FALSE]
  /\ bready' = FALSE
  /\ rready' = FALSE
  /\ UNCHANGED <<data_line, line_bytes, half_select, read_data, hbm>>

IdleWait ==
  /\ state = "IDLE"
  /\ s_axis_tready' = TRUE
  /\ m_axis' = [m_axis EXCEPT !.valid = FALSE]
  /\ IdleOutputs
  /\ UNCHANGED <<state, read_response, icap_words_remaining, icap_word_index,
                 slotRegs, current_addr, remaining_bytes, last_error, history>>

(* Registers of the history when command c is accepted.                    *)
NewCommand(c) ==
  /\ accepted < MaxCommands
  /\ accepted' = accepted + 1
  /\ cmd' = c
  /\ payload' = <<>>
  /\ icap_log' = <<>>
  /\ UNCHANGED answered

AcceptInto(c) ==
  /\ state = "IDLE" /\ s_axis_tready
  /\ s_axis_tready' = FALSE
  /\ IdleOutputs
  /\ NewCommand(c)

(* A command that is answered at once: a query, or one that a check refuses. *)
AcceptAnswered(c) ==
  /\ c.op = "QUERY_STATUS" \/ Validate(c) # "OK"
  /\ AcceptInto(c)
  /\ IF c.op = "QUERY_STATUS" THEN StartQueryStatus
                              ELSE StartStatus(Validate(c))
  /\ UNCHANGED <<read_response, icap_words_remaining, icap_word_index,
                 slotRegs, current_addr, remaining_bytes, aborted>>

AcceptTransfer(c) ==
  /\ c.op \in {"WRITE_HBM", "READ_HBM"} /\ Validate(c) = "OK"
  /\ AcceptInto(c)
  /\ m_axis' = [m_axis EXCEPT !.valid = FALSE]
  /\ current_addr' = c.addr
  /\ remaining_bytes' = c.size
  /\ \/ /\ c.op = "WRITE_HBM"
        /\ state' = "WRITE_WAIT_DATA"
        /\ UNCHANGED read_response
     \/ /\ c.op = "READ_HBM"
        /\ state' = "READ_ADDR_0"
        /\ read_response' = ZeroBeat
  /\ UNCHANGED <<icap_words_remaining, icap_word_index, slotRegs, last_error,
                 aborted>>

(* The slot of the command is not loaded into its register.                *)
MutantAcceptReconf(c) ==
  /\ c.op = "RECONF_ICAP" /\ Validate(c) = "OK"
  /\ AcceptInto(c)
  /\ m_axis' = [m_axis EXCEPT !.valid = FALSE]
  /\ current_addr' = c.addr
  /\ icap_words_remaining' = c.size \div WordBytes
  /\ icap_word_index' = 0
  /\ reconf_cycles' = 0
  /\ reconf_active' = TRUE
  /\ icap_pr_done_seen' = FALSE
  /\ icap_pr_err_seen' = FALSE
  /\ slot_decouple' = [slot_decouple EXCEPT ![active_slot_id] = TRUE]
  /\ state' = "RECONF_ADDR"
  /\ aborted' = aborted \ {c.slot}
  /\ UNCHANGED <<read_response, active_slot_id, last_slot_id,
                 last_reconf_cycles, remaining_bytes, last_error>>

(* The slot is isolated by the very edge that accepts the command, and the *)
(* clearing of the latches overrides what Latch would have set.            *)
AcceptReconf(c) ==
  /\ c.op = "RECONF_ICAP" /\ Validate(c) = "OK"
  /\ AcceptInto(c)
  /\ m_axis' = [m_axis EXCEPT !.valid = FALSE]
  /\ current_addr' = c.addr
  /\ icap_words_remaining' = c.size \div WordBytes
  /\ icap_word_index' = 0
  /\ active_slot_id' = c.slot
  /\ reconf_cycles' = 0
  /\ reconf_active' = TRUE
  /\ icap_pr_done_seen' = FALSE
  /\ icap_pr_err_seen' = FALSE
  /\ slot_decouple' = [slot_decouple EXCEPT ![c.slot] = TRUE]
  /\ state' = "RECONF_ADDR"
  /\ aborted' = aborted \ {c.slot}
  /\ UNCHANGED <<read_response, last_slot_id, last_reconf_cycles,
                 remaining_bytes, last_error>>

(***************************************************************************)
(* WRITE_HBM: each payload line is written as one or two strobed beats.    *)
(***************************************************************************)
WriteWaitData ==
  /\ state = "WRITE_WAIT_DATA"
  /\ s_axis_tready' = TRUE
  /\ UNCHANGED <<state, m_axis, writeRegs, readRegs, icapRegs, slotRegs,
                 current_addr, remaining_bytes, last_error, hbm, history>>

WriteTakeLine(line) ==
  /\ state = "WRITE_WAIT_DATA" /\ s_axis_tready
  /\ s_axis_tready' = FALSE
  /\ data_line' = line
  /\ line_bytes' = NextLineBytes(remaining_bytes)
  /\ half_select' = FALSE
  /\ state' = "WRITE_ADDR"
  /\ payload' = payload \o line
  /\ UNCHANGED <<m_axis, aw, w, bready, readRegs, icapRegs, slotRegs,
                 current_addr, remaining_bytes, last_error, hbm,
                 cmd, icap_log, accepted, answered, aborted>>

WriteAddrPresent ==
  /\ state = "WRITE_ADDR"
  /\ aw' = [valid |-> TRUE,
            addr |-> IF half_select THEN AddAddr(current_addr, BeatBytes)
                                    ELSE current_addr]
  /\ UNCHANGED <<state, s_axis_tready, m_axis, w, bready, data_line,
                 line_bytes, half_select, readRegs, icapRegs, slotRegs,
                 current_addr, remaining_bytes, last_error, hbm, history>>

WriteAddrTaken ==
  /\ state = "WRITE_ADDR" /\ aw.valid
  /\ aw' = [aw EXCEPT !.valid = FALSE]
  /\ w' = [valid |-> TRUE, data |-> HalfLine(data_line, half_select),
           strb |-> WriteBytesForHalf(line_bytes, half_select)]
  /\ state' = "WRITE_DATA"
  /\ UNCHANGED <<s_axis_tready, m_axis, bready, data_line, line_bytes,
                 half_select, readRegs, icapRegs, slotRegs, current_addr,
                 remaining_bytes, last_error, hbm, history>>

WriteDataTaken ==
  /\ state = "WRITE_DATA" /\ w.valid
  /\ w' = [w EXCEPT !.valid = FALSE]
  /\ bready' = TRUE
  /\ state' = "WRITE_RESP"
  /\ UNCHANGED <<s_axis_tready, m_axis, aw, data_line, line_bytes,
                 half_select, readRegs, icapRegs, slotRegs, current_addr,
                 remaining_bytes, last_error, hbm, history>>

(* BRESP: HBM may have stored a beat that it reports as failed.            *)
WriteFailed ==
  /\ state = "WRITE_RESP" /\ bready
  /\ bready' = FALSE
  /\ hbm' \in {hbm, HbmWritten(aw.addr, w.data, w.strb)}
  /\ StartStatus("AXI_BRESP")
  /\ UNCHANGED <<s_axis_tready, aw, w, data_line, line_bytes, half_select,
                 readRegs, icapRegs, slotRegs, current_addr,
                 remaining_bytes, history>>

WriteStored ==
  /\ state = "WRITE_RESP" /\ bready
  /\ bready' = FALSE
  /\ hbm' = HbmWritten(aw.addr, w.data, w.strb)
  /\ \/ /\ ~half_select /\ line_bytes > BeatBytes
        /\ half_select' = TRUE
        /\ state' = "WRITE_ADDR"
        /\ UNCHANGED <<m_axis, current_addr, remaining_bytes, last_error>>
     \/ /\ half_select \/ line_bytes <= BeatBytes
        /\ current_addr' = AddAddr(current_addr, line_bytes)
        /\ UNCHANGED half_select
        /\ \/ /\ remaining_bytes <= line_bytes
              /\ remaining_bytes' = 0
              /\ StartStatus("OK")
           \/ /\ remaining_bytes > line_bytes
              /\ remaining_bytes' = remaining_bytes - line_bytes
              /\ state' = "WRITE_WAIT_DATA"
              /\ UNCHANGED <<m_axis, last_error>>
  /\ UNCHANGED <<s_axis_tready, aw, w, data_line, line_bytes, readRegs,
                 icapRegs, slotRegs, history>>

(***************************************************************************)
(* READ_HBM: one beat, or two when more than a beat is asked for.          *)
(***************************************************************************)
(* The address the read channel presents while the state machine is in one *)
(* of its three address states.                                            *)
ReadAddress ==
  IF state = "READ_ADDR_1" THEN AddAddr(current_addr, BeatBytes)
  ELSE current_addr

ReadAddrPresent ==
  /\ state \in {"READ_ADDR_0", "READ_ADDR_1", "RECONF_ADDR"}
  /\ ar' = [valid |-> TRUE, addr |-> ReadAddress]
  /\ UNCHANGED <<state, s_axis_tready, m_axis, writeRegs, rready,
                 read_response, icapRegs, slotRegs, current_addr,
                 remaining_bytes, last_error, hbm, history>>

ReadAddrTaken ==
  /\ state \in {"READ_ADDR_0", "READ_ADDR_1", "RECONF_ADDR"} /\ ar.valid
  /\ ar' = [ar EXCEPT !.valid = FALSE]
  /\ rready' = TRUE
  /\ state' = CASE state = "READ_ADDR_0" -> "READ_DATA_0"
                [] state = "READ_ADDR_1" -> "READ_DATA_1"
                [] state = "RECONF_ADDR" -> "RECONF_DATA"
  /\ UNCHANGED <<s_axis_tready, m_axis, writeRegs, read_response, icapRegs,
                 slotRegs, current_addr, remaining_bytes, last_error, hbm,
                 history>>

(* RRESP or RLAST is wrong.  In RECONF_DATA the status goes out without    *)
(* finish_reconf: the slot stays isolated and the load stays active.       *)
ReadFailed(status) ==
  /\ state \in {"READ_DATA_0", "READ_DATA_1", "RECONF_DATA"} /\ rready
  /\ status \in {"AXI_RRESP", "RLAST"}
  /\ rready' = FALSE
  /\ StartStatus(status)
  /\ aborted' = IF state = "RECONF_DATA" THEN aborted \union {active_slot_id}
                ELSE aborted
  /\ UNCHANGED <<s_axis_tready, writeRegs, ar, read_response, icapRegs,
                 slotRegs, current_addr, remaining_bytes, hbm,
                 cmd, payload, icap_log, accepted, answered>>

ReadFirst ==
  /\ state = "READ_DATA_0" /\ rready
  /\ rready' = FALSE
  /\ read_response' = MaskData(HbmBeat(ar.addr),
                               ReadFirstByteCount(remaining_bytes))
  /\ \/ /\ remaining_bytes > BeatBytes
        /\ state' = "READ_ADDR_1"
        /\ UNCHANGED m_axis
     \/ /\ remaining_bytes <= BeatBytes
        /\ state' = "READ_SEND"
        /\ Respond(DataLine(JoinBeats(read_response', ZeroBeat)))
  /\ UNCHANGED <<s_axis_tready, writeRegs, ar, icapRegs, slotRegs,
                 current_addr, remaining_bytes, last_error, hbm, history>>

ReadSecond ==
  /\ state = "READ_DATA_1" /\ rready
  /\ rready' = FALSE
  /\ state' = "READ_SEND"
  /\ Respond(DataLine(JoinBeats(read_response,
                MaskData(HbmBeat(ar.addr),
                         ReadSecondByteCount(remaining_bytes)))))
  /\ UNCHANGED <<s_axis_tready, writeRegs, ar, read_response, icapRegs,
                 slotRegs, current_addr, remaining_bytes, last_error, hbm,
                 history>>

(***************************************************************************)
(* RECONF_ICAP: beats are fetched one by one and streamed word by word.    *)
(***************************************************************************)
ReconfBeat ==
  /\ state = "RECONF_DATA" /\ rready
  /\ rready' = FALSE
  /\ read_data' = HbmBeat(ar.addr)
  /\ icap_word_index' = 0
  /\ m_axis_icap' = [valid |-> TRUE,
                     word  |-> SelectIcapWord(HbmBeat(ar.addr), 0),
                     last  |-> icap_words_remaining = 1]
  /\ state' = "RECONF_STREAM"
  /\ UNCHANGED <<s_axis_tready, m_axis, writeRegs, ar, read_response,
                 icap_words_remaining, slotRegs, current_addr,
                 remaining_bytes, last_error, hbm, history>>

ReconfWord ==
  /\ state = "RECONF_STREAM" /\ m_axis_icap.valid
  /\ icap_words_remaining' = icap_words_remaining - 1
  /\ icap_log' = Append(icap_log, m_axis_icap.word)
  /\ \/ /\ icap_words_remaining = 1
        /\ m_axis_icap' = [m_axis_icap EXCEPT !.valid = FALSE, !.last = FALSE]
        /\ state' = "RECONF_WAIT_DONE"
        /\ UNCHANGED <<icap_word_index, current_addr>>
     \/ /\ icap_words_remaining # 1
        /\ icap_word_index = WordsPerBeat - 1
        /\ m_axis_icap' = [m_axis_icap EXCEPT !.valid = FALSE, !.last = FALSE]
        /\ current_addr' = AddAddr(current_addr, BeatBytes)
        /\ icap_word_index' = 0
        /\ state' = "RECONF_ADDR"
     \/ /\ icap_words_remaining # 1
        /\ icap_word_index # WordsPerBeat - 1
        /\ icap_word_index' = icap_word_index + 1
        /\ m_axis_icap' = [valid |-> TRUE,
                           word |-> SelectIcapWord(read_data, icap_word_index + 1),
                           last |-> icap_words_remaining = 2]
        /\ UNCHANGED <<state, current_addr>>
  /\ UNCHANGED <<s_axis_tready, m_axis, writeRegs, readRegs, read_data,
                 slotRegs, remaining_bytes, last_error, hbm,
                 cmd, payload, accepted, answered, aborted>>

(* PRERROR has priority over PRDONE.                                       *)
ReconfDone(done, err) ==
  /\ state = "RECONF_WAIT_DONE"
  /\ \/ /\ err \/ icap_pr_err_seen
        /\ FinishReconf("ICAP")
     \/ /\ ~(err \/ icap_pr_err_seen)
        /\ done \/ icap_pr_done_seen
        /\ FinishReconf("OK")
  /\ Latch(done, err)
  /\ UNCHANGED <<s_axis_tready, writeRegs, readRegs, icapRegs, current_addr,
                 remaining_bytes, hbm, history>>

(***************************************************************************)
(* The response is taken; edges on which an awaited event does not happen. *)
(***************************************************************************)
ResponseTaken ==
  /\ state \in {"SEND_STATUS", "READ_SEND"} /\ m_axis.valid
  /\ m_axis' = [m_axis EXCEPT !.valid = FALSE]
  /\ state' = "IDLE"
  /\ answered' = answered + 1
  /\ UNCHANGED <<s_axis_tready, writeRegs, readRegs, icapRegs, slotRegs,
                 current_addr, remaining_bytes, last_error, hbm,
                 cmd, payload, icap_log, accepted, aborted>>

Wait(done, err) ==
  /\ \/ state \in {"WRITE_DATA", "WRITE_RESP", "READ_DATA_0", "READ_DATA_1",
                   "READ_SEND", "RECONF_DATA", "RECONF_STREAM", "SEND_STATUS"}
     \/ /\ state = "RECONF_WAIT_DONE"
        /\ ~(done \/ err \/ icap_pr_done_seen \/ icap_pr_err_seen)
  /\ Latch(done, err)
  /\ UNCHANGED <<state, s_axis_tready, m_axis, writeRegs, readRegs, icapRegs,
                 slotRegs, current_addr, remaining_bytes, last_error, hbm,
                 history>>

(* One edge of clk on which the ICAP lines are done and err.               *)
Edge(done, err) ==
  \/ Latch(done, err) /\ \/ IdleWait
                         \/ \E c \in Commands :
                              AcceptAnswered(c) \/ AcceptTransfer(c)
                         \/ WriteWaitData
                         \/ \E line \in Lines : WriteTakeLine(line)
                         \/ WriteAddrPresent
                         \/ WriteAddrTaken
                         \/ WriteDataTaken
                         \/ WriteFailed
                         \/ WriteStored
                         \/ ReadAddrPresent
                         \/ ReadAddrTaken
                         \/ \E status \in {"AXI_RRESP", "RLAST"} :
                              ReadFailed(status)
                         \/ ReadFirst
                         \/ ReadSecond
                         \/ ReconfBeat
                         \/ ReconfWord
                         \/ ResponseTaken
  \/ \E c \in Commands : AcceptReconf(c)
  \/ ReconfDone(done, err)
  \/ Wait(done, err)

Next == \E done, err \in BOOLEAN : Edge(done, err)

Spec == Init /\ [][Next]_vars

(* The other side of every handshake is eventually ready, HBM eventually   *)
(* answers, the client sends the payload it announced, and ICAP eventually *)
(* raises PRDONE or PRERROR: the controller has no timeout of its own.     *)
Fairness ==
  /\ WF_vars(Clocked(IdleWait))
  /\ WF_vars(Clocked(WriteWaitData))
  /\ WF_vars(\E line \in Lines : Clocked(WriteTakeLine(line)))
  /\ WF_vars(Clocked(WriteAddrPresent))
  /\ WF_vars(Clocked(WriteAddrTaken))
  /\ WF_vars(Clocked(WriteDataTaken))
  /\ WF_vars(Clocked(WriteStored))
  /\ WF_vars(Clocked(ReadAddrPresent))
  /\ WF_vars(Clocked(ReadAddrTaken))
  /\ WF_vars(Clocked(ReadFirst))
  /\ WF_vars(Clocked(ReadSecond))
  /\ WF_vars(Clocked(ReconfBeat))
  /\ WF_vars(Clocked(ReconfWord))
  /\ WF_vars(\E done, err \in BOOLEAN : ReconfDone(done, err))
  /\ WF_vars(Clocked(ResponseTaken))

FairSpec == Spec /\ Fairness

(***************************************************************************)
(* Properties                                                              *)
(***************************************************************************)
ResponseLine ==
  [kind : {"status"}, code : Errors] \union [kind : {"data"}, bytes : Line]
  \union [kind : {"query"}, active : BOOLEAN, last_slot : Slots,
          last_error : Errors, pr_done_seen : BOOLEAN, pr_err_seen : BOOLEAN,
          last_cycles : 0 .. CycleCap, active_cycles : 0 .. CycleCap]

StreamTypes ==
  /\ state \in States /\ s_axis_tready \in BOOLEAN
  /\ m_axis \in [valid : BOOLEAN, data : ResponseLine]
  /\ last_error \in Errors

AxiTypes ==
  /\ aw \in [valid : BOOLEAN, addr : Addr]
  /\ w \in [valid : BOOLEAN, data : Beat, strb : 0 .. BeatBytes]
  /\ ar \in [valid : BOOLEAN, addr : Addr]
  /\ bready \in BOOLEAN /\ rready \in BOOLEAN
  /\ current_addr \in Addr /\ remaining_bytes \in Nat
  /\ data_line \in Line /\ line_bytes \in 0 .. LineBytes
  /\ half_select \in BOOLEAN /\ read_response \in Beat
  /\ hbm \in [Addr -> Byte]

IcapTypes ==
  /\ m_axis_icap \in [valid : BOOLEAN, word : Word, last : BOOLEAN]
  /\ icap_words_remaining \in Nat /\ icap_word_index \in 0 .. WordsPerBeat - 1
  /\ read_data \in Beat

SlotTypes ==
  /\ slot_decouple \in [Slots -> BOOLEAN] /\ reconf_active \in BOOLEAN
  /\ active_slot_id \in Slots /\ last_slot_id \in Slots
  /\ last_reconf_cycles \in 0 .. CycleCap

LatchTypes ==
  /\ reconf_cycles \in 0 .. CycleCap
  /\ icap_pr_done_seen \in BOOLEAN /\ icap_pr_err_seen \in BOOLEAN

HistoryTypes ==
  /\ cmd \in CommandLine /\ payload \in Seq(Byte) /\ icap_log \in Seq(Word)
  /\ accepted \in Nat /\ answered \in Nat /\ aborted \subseteq Slots

(* Type invariant: every register of reconfctrl.v keeps to its width, in   *)
(* particular line_bytes to one line and the AXI addresses to ADDR_WIDTH.  *)
TypeOK ==
  /\ StreamTypes /\ AxiTypes /\ IcapTypes
  /\ SlotTypes /\ LatchTypes /\ HistoryTypes

(* While a load runs its command is the one in cmd, the words ICAP took    *)
(* and the words still to come add up to the command's size, and the wait  *)
(* for PRDONE begins when none is left.  With TypeOK it is inductive.      *)
LoadInv ==
  /\ state \in ReconfStates =>
       /\ cmd.op = "RECONF_ICAP" /\ cmd.slot = active_slot_id
       /\ reconf_active /\ active_slot_id \notin aborted
       /\ Len(icap_log) + icap_words_remaining = cmd.size \div WordBytes
       /\ state = "RECONF_WAIT_DONE" <=> icap_words_remaining = 0
  /\ m_axis_icap.valid => state = "RECONF_STREAM"

(* Byte i (from 0) of the HBM range that the current command names.        *)
CommandByte(i) == hbm[AddAddr(cmd.addr, i)]
CommandWord(k) ==
  [i \in 1 .. WordBytes |-> CommandByte(k * WordBytes + i - 1)]

(* ICAP takes exactly the requested words of the staged bitstream, in      *)
(* order and once each across the beats they are fetched in, the last one  *)
(* and only that one under tlast (RECONF_DATA and RECONF_STREAM).          *)
IcapStreamExact ==
  state \in ReconfStates =>
    /\ Len(icap_log) + icap_words_remaining = cmd.size \div WordBytes
    /\ \A k \in 1 .. Len(icap_log) : icap_log[k] = CommandWord(k - 1)
    /\ m_axis_icap.valid =>
         /\ m_axis_icap.word = CommandWord(Len(icap_log))
         /\ m_axis_icap.last <=> (icap_words_remaining = 1)

(* A slot is isolated exactly while its load runs, or since a load of it   *)
(* was cut short by an HBM read error (which skips finish_reconf).         *)
IsolationExplained ==
  {s \in Slots : slot_decouple[s]} =
    aborted \union (IF state \in ReconfStates THEN {active_slot_id} ELSE {})

(* Configuration words reach ICAP only while the slot of the command they  *)
(* belong to is cut off from traffic.                                      *)
StreamIntoIsolatedSlot ==
  m_axis_icap.valid => /\ cmd.op = "RECONF_ICAP"
                       /\ slot_decouple[cmd.slot]

(* The three together: at every moment of a load, the slot named by the    *)
(* command and only that slot is cut off, and ICAP is short of exactly the *)
(* words that are still to come.                                           *)
LoadsSafe == LoadInv /\ IsolationExplained /\ StreamIntoIsolatedSlot

(* finish_reconf: a slot is reconnected only when it is the one named by   *)
(* the command in progress and ICAP has taken every word of the bitstream. *)
ReconnectAfterWholeStream ==
  [][\A s \in Slots : slot_decouple[s] /\ ~slot_decouple'[s] =>
       /\ cmd.op = "RECONF_ICAP" /\ s = cmd.slot
       /\ Len(icap_log) = cmd.size \div WordBytes]_vars

(* The first n bytes of the payload are in HBM at their places.  Nothing   *)
(* limits the size of a write: one that is longer than the address range   *)
(* goes round, and of the bytes that share a place the last one stays.     *)
PayloadStored(n) ==
  \A i \in 1 .. n : n - i < AddrSpace => CommandByte(i - 1) = payload[i]

(* WRITE_HBM answers OK only when every requested byte of the payload is   *)
(* in HBM at its place (halves, strobes and line boundaries included).     *)
WriteComplete ==
  /\ state = "SEND_STATUS" /\ cmd.op = "WRITE_HBM"
  /\ m_axis.data = StatusLine("OK")
  => PayloadStored(cmd.size)

(* HBM changes only under WRITE_HBM, and only at bytes of the range that   *)
(* the command names, padding and failing beats included.                  *)
WriteConfined ==
  [][\A a \in Addr : hbm'[a] # hbm[a] =>
       /\ cmd.op = "WRITE_HBM"
       /\ (a - cmd.addr) % AddrSpace < cmd.size]_vars

(* A successful READ_HBM response carries the requested bytes, zero-filled *)
(* to a line.                                                              *)
ReadExact ==
  state = "READ_SEND" =>
    m_axis.data = DataLine([i \in 1 .. LineBytes |->
                     IF i <= cmd.size THEN CommandByte(i - 1) ELSE 0])

(* The bytes of all three data paths: streamed to ICAP, written, read.     *)
BytesExact == IcapStreamExact /\ WriteComplete /\ ReadExact

(* Exactly one response per command: the controller is back in IDLE, and   *)
(* able to take the next command, only when the last one is answered.      *)
OneResponsePerCommand ==
  accepted = answered + (IF state = "IDLE" THEN 0 ELSE 1)

(* Every accepted command is eventually answered.                          *)
CommandAnswered ==
  \A n \in 1 .. MaxCommands : (accepted = n) ~> (answered = n)

=============================================================================
