----------------------------- MODULE ToeSessions -----------------------------
(***************************************************************************)
(* How the TCP engine names its connections: the lookup controller in front *)
(* of the hash table, the free list of session numbers, the reverse table   *)
(* that gives a session's tuple back, and the port table.  Each process     *)
(* takes one element from its first non-empty FIFO at a step.               *)
(*                                                                         *)
(* A port is a pair of bytes <<high, low>>, each of which is 0 or 1: the    *)
(* upper half of the ports is handed out to connections that are opened,    *)
(* the lower half is listened on.  Tuples hold ports in network order, that *)
(* is with their bytes swapped.                                             *)
(***************************************************************************)
EXTENDS CuckooTable, Sequences, FiniteSetsExt, SequencesExt

CONSTANTS
    Server,             \* remote address and port
    MAX_SESSIONS,
    PortCache,          \* depth of portTable2txApp_port_rsp
    ListenPort,         \* ports the application listens on
    SegmentPort,        \* ports that segments arrive for
    MaxOpens, MaxChecks, MaxReleases    \* requests of the environment

Port == {0, 1} \X {0, 1}

swapped(p) == <<p[2], p[1]>>

High(p) == p[1] = 1

SessionId == 0..MAX_SESSIONS-1

ASSUME SessionsInstance ==
    /\ Key = Server \X Port
    /\ {MAX_SESSIONS, PortCache, MaxOpens, MaxChecks, MaxReleases} \subseteq Nat
    /\ ListenPort \subseteq Port /\ SegmentPort \subseteq Port

VARIABLES
    cuckooTables, victimBit, insertFailureCounter,
    slc,                \* lookupReplyHandler: its state and the query in its cache
    txApp_req, rxEng_req,               \* lookups asked for
    lookup_req, lookup_rsp,             \* to and from the hash table
    insert_req, delete_req, update_req, update_rsp,
    counter, freeList, finFifo,         \* sessionIdManager
    usedSessionIDs,
    revInserts, releases, reverseLookupTable, tupleValid,
    listeningPortTable, freePortTable,
    freePorts, portReleases,            \* portTable2txApp_port_rsp, releasePort
    listenCheck, usedCheck, listenAnswer, usedAnswer, dstFifo,
    asked,              \* checks not yet answered, and whether the port was listened on then
    lastCheck,          \* the check whose answer the RX engine is to read, or {}
    answers,            \* the last answer to each source: the tuple and the session
    opens, checks, released    \* how much the environment has asked

vars == <<cuckooTables, victimBit, insertFailureCounter, slc, txApp_req, rxEng_req, lookup_req,
          lookup_rsp, insert_req, delete_req, update_req, update_rsp, counter, freeList, finFifo,
          usedSessionIDs, revInserts, releases, reverseLookupTable, tupleValid, listeningPortTable,
          freePortTable, freePorts, portReleases, listenCheck, usedCheck, listenAnswer,
          usedAnswer, dstFifo, asked, lastCheck, answers, opens, checks, released>>

hashVars == <<cuckooTables, victimBit, insertFailureCounter>>
lookupVars == <<slc, txApp_req, rxEng_req, lookup_req, lookup_rsp, answers>>
updateVars == <<insert_req, delete_req, update_req, update_rsp, usedSessionIDs>>
idVars == <<counter, freeList, finFifo>>
reverseVars == <<revInserts, releases, reverseLookupTable, tupleValid>>
portVars == <<listeningPortTable, freePortTable, freePorts, portReleases>>
checkVars == <<listenCheck, usedCheck, listenAnswer, usedAnswer, dstFifo, asked, lastCheck>>
askedVars == <<opens, checks, released>>

threeTuple == Server \X Port

LookupQuery == [tuple : threeTuple, allowCreation : BOOLEAN, source : {"RX", "TX_APP"}]

UpdateRequest == [op : {"INSERT", "DELETE"}, key : threeTuple, value : SessionId]

Init ==
    /\ cuckooTables = EmptyTables /\ victimBit = 0 /\ insertFailureCounter = 0
    /\ slc = [state |-> "LUP_REQ"] /\ txApp_req = <<>> /\ rxEng_req = <<>>
    /\ lookup_req = <<>> /\ lookup_rsp = <<>> /\ answers = {}
    /\ insert_req = <<>> /\ delete_req = <<>> /\ update_req = <<>> /\ update_rsp = <<>>
    /\ counter = 0 /\ freeList = <<>> /\ finFifo = <<>> /\ usedSessionIDs = 0
    /\ revInserts = <<>> /\ releases = <<>> /\ reverseLookupTable = <<>>
    /\ tupleValid = [i \in SessionId |-> FALSE]
    /\ listeningPortTable = {} /\ freePortTable = {} /\ freePorts = <<>> /\ portReleases = <<>>
    /\ listenCheck = <<>> /\ usedCheck = <<>>
    /\ listenAnswer = <<>> /\ usedAnswer = <<>> /\ dstFifo = <<>> /\ asked = <<>> /\ lastCheck = {}
    /\ opens = 0 /\ checks = 0 /\ released = 0

-----------------------------------------------------------------------------
(* The session numbers.                                                    *)

sessionIdManager ==
    /\ \/ /\ finFifo # <<>>
          /\ freeList' = Append(freeList, Head(finFifo)) /\ finFifo' = Tail(finFifo)
          /\ UNCHANGED counter
       \/ /\ finFifo = <<>> /\ counter < MAX_SESSIONS
          /\ freeList' = Append(freeList, counter) /\ counter' = counter + 1
          /\ UNCHANGED finFifo
    /\ UNCHANGED <<hashVars, lookupVars, updateVars, reverseVars, portVars, checkVars, askedVars>>

-----------------------------------------------------------------------------
(* Lookups: one at a time, the application's before the RX engine's.        *)

LookupRequest ==
    /\ slc.state = "LUP_REQ"
    /\ \E q \in IF txApp_req # <<>> THEN {Head(txApp_req)} ELSE {Head(x) : x \in {rxEng_req} \ {<<>>}} :
          /\ lookup_req' = Append(lookup_req, q)
          /\ slc' = [state |-> "LUP_RSP", query |-> q]
    /\ IF txApp_req # <<>> THEN txApp_req' = Tail(txApp_req) /\ UNCHANGED rxEng_req
                           ELSE rxEng_req' = Tail(rxEng_req) /\ UNCHANGED txApp_req
    /\ UNCHANGED <<lookup_rsp, answers, hashVars, updateVars, idVars, reverseVars, portVars,
                   checkVars, askedVars>>

(* The reply to the source of the query: the session, or {} for a miss.    *)
Answer(q, found) ==
    answers' = {a \in answers : a.source # q.source}
               \cup {[source |-> q.source, tuple |-> q.tuple, session |-> found]}

MutantIdKept(ids) == ids

(* The free list once its first number is taken.                           *)
Remaining(ids) == Tail(ids)

LookupReply ==
    /\ slc.state = "LUP_RSP" /\ lookup_rsp # <<>>
    /\ lookup_rsp' = Tail(lookup_rsp)
    /\ LET found == Head(lookup_rsp)
           q == slc.query
       IN \/ /\ found = {} /\ q.allowCreation /\ freeList # <<>>
             /\ freeList' = Remaining(freeList)
             /\ insert_req' = Append(insert_req, [op |-> "INSERT", key |-> q.tuple, value |-> Head(freeList)])
             /\ slc' = [slc EXCEPT !.state = "UPD_RSP"]
             /\ UNCHANGED answers
          \/ /\ ~(found = {} /\ q.allowCreation /\ freeList # <<>>)
             /\ Answer(q, found) /\ slc' = [state |-> "LUP_REQ"]
             /\ UNCHANGED <<freeList, insert_req>>
    /\ UNCHANGED <<txApp_req, rxEng_req, lookup_req, delete_req, update_req, update_rsp, usedSessionIDs,
                   counter, finFifo, hashVars, reverseVars, portVars, checkVars, askedVars>>

(* The reply to an insertion names the new session whether or not the hash *)
(* table found room for it.                                                *)
InsertReply ==
    /\ slc.state = "UPD_RSP" /\ update_rsp # <<>>
    /\ update_rsp' = Tail(update_rsp)
    /\ Answer(slc.query, {Head(update_rsp).value})
    /\ revInserts' = Append(revInserts, [key |-> Head(update_rsp).value, value |-> slc.query.tuple])
    /\ slc' = [state |-> "LUP_REQ"]
    /\ UNCHANGED <<txApp_req, rxEng_req, lookup_req, lookup_rsp, insert_req, delete_req, update_req,
                   usedSessionIDs, releases, reverseLookupTable, tupleValid, hashVars, idVars,
                   portVars, checkVars, askedVars>>

MutantNeverFreed(id) == <<>>

(* The number of a session whose deletion is sent.                         *)
Freed(id) == <<id>>

(* Insertions go first; the number of a deleted session is free as soon as *)
(* the deletion is on its way.                                             *)
updateRequestSender ==
    /\ \/ /\ insert_req # <<>>
          /\ update_req' = Append(update_req, Head(insert_req)) /\ insert_req' = Tail(insert_req)
          /\ usedSessionIDs' = usedSessionIDs + 1
          /\ UNCHANGED <<delete_req, finFifo>>
       \/ /\ insert_req = <<>> /\ delete_req # <<>>
          /\ update_req' = Append(update_req, Head(delete_req)) /\ delete_req' = Tail(delete_req)
          /\ finFifo' = finFifo \o Freed(Head(delete_req).value)
          /\ usedSessionIDs' = usedSessionIDs - 1
          /\ UNCHANGED insert_req
    /\ UNCHANGED <<update_rsp, counter, freeList, hashVars, lookupVars, reverseVars, portVars,
                   checkVars, askedVars>>

(* The replies to insertions are passed on, the ones to deletions are not. *)
updateReplyHandler(r) == IF r.op = "INSERT" THEN <<r>> ELSE <<>>

(* The hash table serves lookups before updates.                          *)
hash_table ==
    \/ /\ lookup_req # <<>>
       /\ lookup_rsp' = Append(lookup_rsp, lookup(cuckooTables, Head(lookup_req).tuple))
       /\ lookup_req' = Tail(lookup_req)
       /\ UNCHANGED <<slc, txApp_req, rxEng_req, answers, hashVars, updateVars, idVars, reverseVars,
                      portVars, checkVars, askedVars>>
    \/ /\ lookup_req = <<>> /\ update_req # <<>>
       /\ LET r == Head(update_req)
              placed == insert(cuckooTables, victimBit, r.key, r.value)
          IN IF r.op = "INSERT"
             THEN /\ cuckooTables' = placed.tables /\ victimBit' = placed.victimBit
                  /\ insertFailureCounter' = insertFailureCounter + (IF placed.success THEN 0 ELSE 1)
             ELSE /\ cuckooTables' = remove(cuckooTables, r.key)
                  /\ UNCHANGED <<victimBit, insertFailureCounter>>
       /\ update_req' = Tail(update_req) /\ update_rsp' = update_rsp \o updateReplyHandler(Head(update_req))
       /\ UNCHANGED <<insert_req, delete_req, usedSessionIDs, lookupVars, idVars, reverseVars,
                      portVars, checkVars, askedVars>>

-----------------------------------------------------------------------------
(* The reverse table: insertions, then releases.  A release gives back the *)
(* port of the tuple and asks for the deletion.                            *)

(* Only a session that has not been released yet is given back.            *)
Releasable(id) == tupleValid[id]

reverseLookupTableInterface ==
    \/ /\ revInserts # <<>>
       /\ LET i == Head(revInserts)
          IN /\ reverseLookupTable' = [x \in DOMAIN reverseLookupTable \cup {i.key} |->
                                          IF x = i.key THEN i.value ELSE reverseLookupTable[x]]
             /\ tupleValid' = [tupleValid EXCEPT ![i.key] = TRUE]
       /\ revInserts' = Tail(revInserts)
       /\ UNCHANGED <<releases, delete_req, portReleases, insert_req, update_req, update_rsp, usedSessionIDs,
                      listeningPortTable, freePortTable, freePorts, hashVars, lookupVars, idVars,
                      checkVars, askedVars>>
    \/ /\ revInserts = <<>> /\ releases # <<>>
       /\ LET id == Head(releases)
          IN /\ IF Releasable(id)
                THEN /\ portReleases' = Append(portReleases, reverseLookupTable[id][2])
                     /\ delete_req' = Append(delete_req, [op |-> "DELETE", key |-> reverseLookupTable[id], value |-> id])
                ELSE UNCHANGED <<portReleases, delete_req>>
             /\ tupleValid' = [tupleValid EXCEPT ![id] = FALSE]
       /\ releases' = Tail(releases)
       /\ UNCHANGED <<revInserts, reverseLookupTable, insert_req, update_req, update_rsp, usedSessionIDs,
                      listeningPortTable, freePortTable, freePorts, hashVars, lookupVars, idVars,
                      checkVars, askedVars>>
-----------------------------------------------------------------------------
(* The port table.                                                         *)

(* Only the lower half may be listened on.                                 *)
Listenable(p) == ~High(p)

(* rx_app_if passes one request at a time to the table and returns the     *)
(* answer: whether the port is now open.                                   *)
Listen(p) ==
    /\ listeningPortTable' = IF Listenable(p) THEN listeningPortTable \cup {p} ELSE listeningPortTable
    /\ UNCHANGED <<freePortTable, freePorts, portReleases, hashVars, lookupVars, updateVars, idVars,
                   reverseVars, checkVars, askedVars>>

(* free_port_table: releases, then checks, then the next free port.  The    *)
(* port of a release is compared and used as the tuple holds it.           *)
ReleasePort ==
    /\ portReleases # <<>>
    /\ LET currPort == Head(portReleases)
       IN freePortTable' = IF High(currPort) THEN freePortTable \ {currPort} ELSE freePortTable
    /\ portReleases' = Tail(portReleases)
    /\ UNCHANGED <<listeningPortTable, freePorts, hashVars, lookupVars, updateVars, idVars,
                   reverseVars, checkVars, askedVars>>

CheckUsed ==
    /\ portReleases = <<>> /\ usedCheck # <<>>
    /\ usedAnswer' = Append(usedAnswer, Head(usedCheck) \in freePortTable)
    /\ usedCheck' = Tail(usedCheck)
    /\ UNCHANGED <<listenCheck, listenAnswer, dstFifo, asked, lastCheck, hashVars, lookupVars,
                   updateVars, idVars, reverseVars, portVars, askedVars>>

(* The cursor is at any port when a place in the FIFO becomes free.        *)
HandOut(pt_cursor) ==
    /\ portReleases = <<>> /\ usedCheck = <<>>
    /\ High(pt_cursor) /\ pt_cursor \notin freePortTable /\ Len(freePorts) < PortCache
    /\ freePortTable' = freePortTable \cup {pt_cursor}
    /\ freePorts' = Append(freePorts, pt_cursor)
    /\ UNCHANGED <<listeningPortTable, portReleases, hashVars, lookupVars, updateVars, idVars,
                   reverseVars, checkVars, askedVars>>

CheckListening ==
    /\ listenCheck # <<>>
    /\ listenAnswer' = Append(listenAnswer, Head(listenCheck) \in listeningPortTable)
    /\ listenCheck' = Tail(listenCheck)
    /\ UNCHANGED <<usedCheck, usedAnswer, dstFifo, asked, lastCheck, hashVars, lookupVars,
                   updateVars, idVars, reverseVars, portVars, askedVars>>

MutantUnswapped(p) == p

(* The port of a segment in host order.                                    *)
swappedCheckPort(p) == swapped(p)

(* The table that is asked, and the request to it.                         *)
check_in_multiplexer(p) ==
    /\ dstFifo' = Append(dstFifo, IF High(p) THEN "FT" ELSE "LT")
    /\ IF High(p) THEN usedCheck' = Append(usedCheck, p) /\ UNCHANGED listenCheck
                  ELSE listenCheck' = Append(listenCheck, p) /\ UNCHANGED usedCheck

(* The answers leave in the order of the requests.                        *)
check_out_multiplexer ==
    /\ lastCheck = {} /\ dstFifo # <<>> /\ dstFifo' = Tail(dstFifo)
    /\ \/ /\ Head(dstFifo) = "LT" /\ listenAnswer # <<>>
          /\ lastCheck' = {[asked |-> Head(asked), answer |-> Head(listenAnswer)]}
          /\ listenAnswer' = Tail(listenAnswer) /\ UNCHANGED usedAnswer
       \/ /\ Head(dstFifo) = "FT" /\ usedAnswer # <<>>
          /\ lastCheck' = {[asked |-> Head(asked), answer |-> Head(usedAnswer)]}
          /\ usedAnswer' = Tail(usedAnswer) /\ UNCHANGED listenAnswer
    /\ asked' = Tail(asked)
    /\ UNCHANGED <<listenCheck, usedCheck, hashVars, lookupVars, updateVars, idVars,
                   reverseVars, portVars, askedVars>>

-----------------------------------------------------------------------------
(* What the rest of the engine and the application ask for.                *)

(* tx_app_if: an open request takes the next free port.                    *)
AppOpen(server) ==
    /\ opens < MaxOpens /\ freePorts # <<>>
    /\ txApp_req' = Append(txApp_req, [tuple |-> <<server, swapped(Head(freePorts))>>,
                                        allowCreation |-> TRUE, source |-> "TX_APP"])
    /\ freePorts' = Tail(freePorts) /\ opens' = opens + 1
    /\ UNCHANGED <<slc, rxEng_req, lookup_req, lookup_rsp, answers, listeningPortTable, freePortTable,
                   portReleases, checks, released, hashVars, updateVars, idVars, reverseVars, checkVars>>

(* The RX engine reads the answer to a check.  A segment to an open port   *)
(* is looked up, and only a SYN may create a session.                      *)
RxQuery(server, allowCreation) ==
    /\ \E c \in lastCheck :
          rxEng_req' = IF c.answer THEN Append(rxEng_req, [tuple |-> <<server, swapped(c.asked.port)>>,
                                                           allowCreation |-> allowCreation, source |-> "RX"])
                                   ELSE rxEng_req
    /\ lastCheck' = {}
    /\ UNCHANGED <<slc, txApp_req, lookup_req, lookup_rsp, answers, listenCheck, usedCheck,
                   listenAnswer, usedAnswer, dstFifo, asked, hashVars, updateVars, idVars, reverseVars,
                   portVars, askedVars>>

(* The RX engine has a segment to port p, whose bytes are swapped in it.   *)
RxCheck(p) ==
    /\ checks < MaxChecks
    /\ check_in_multiplexer(swappedCheckPort(swapped(p)))
    /\ asked' = Append(asked, [port |-> p, listening |-> p \in listeningPortTable])
    /\ checks' = checks + 1
    /\ UNCHANGED <<listenAnswer, usedAnswer, lastCheck, opens, released, hashVars, lookupVars, updateVars,
                   idVars, reverseVars, portVars>>

(* The state table releases a session, or releases it twice: for a segment *)
(* that closes it and for a timer.                                         *)
ReleaseSession(id, times) ==
    /\ released < MaxReleases /\ id \in DOMAIN reverseLookupTable
    /\ releases' = releases \o [i \in 1..times |-> id] /\ released' = released + 1
    /\ UNCHANGED <<revInserts, reverseLookupTable, tupleValid, opens, checks, hashVars, lookupVars,
                   updateVars, idVars, portVars, checkVars>>

-----------------------------------------------------------------------------
Controller ==
    \/ sessionIdManager \/ LookupRequest \/ LookupReply \/ InsertReply
    \/ updateRequestSender \/ hash_table \/ reverseLookupTableInterface

PortTable ==
    \/ ReleasePort \/ CheckUsed \/ \E c \in Port : HandOut(c)
    \/ CheckListening \/ check_out_multiplexer

Environment ==
    \/ \E s \in Server : AppOpen(s)
    \/ \E p \in SegmentPort : RxCheck(p)
    \/ \E p \in ListenPort : Listen(p)
    \/ \E id \in SessionId, times \in 1..2 : ReleaseSession(id, times)

RxEngine == \E s \in Server, c \in BOOLEAN : RxQuery(s, c)

(* The environment starts once the free list has been filled after reset.  *)
Next == Controller \/ PortTable \/ RxEngine \/ (counter = MAX_SESSIONS /\ Environment)

(* The processes run in every clock cycle; nobody is obliged to ask.       *)
Spec == Init /\ [][Next]_vars /\ WF_vars(Controller) /\ WF_vars(PortTable) /\ WF_vars(RxEngine)

-----------------------------------------------------------------------------
(* How many elements of the sequence are in the set.                       *)
Count(s, S) == Cardinality({i \in DOMAIN s : s[i] \in S})

InsertionOf(id) == [op : {"INSERT"}, key : threeTuple, value : {id}]

DeletionOf(id) == [op : {"DELETE"}, key : threeTuple, value : {id}]

ReverseOf(id) == [key : {id}, value : threeTuple]

(* A session number that the free list has handed out is in exactly one    *)
(* place: waiting in a FIFO, being inserted, valid in the reverse table, or *)
(* being deleted, whatever the releases and insertions that cross.         *)
IdsConserved ==
    \A id \in SessionId :
        (IF id < counter THEN 1 ELSE 0) =
            Count(freeList, {id}) + Count(finFifo, {id})
            + Count(insert_req, InsertionOf(id)) + Count(delete_req, DeletionOf(id))
            + Count(update_req, InsertionOf(id)) + Count(update_rsp, InsertionOf(id))
            + Count(revInserts, ReverseOf(id))
            + (IF tupleValid[id] THEN 1 ELSE 0)

(* As long as no insertion has failed, the hash table and the reverse      *)
(* table agree: the tuple of a valid session is stored under its number    *)
(* alone, evictions included, and every stored tuple is of a live session   *)
(* or of one whose deletion is on its way.                                 *)
TablesAgree ==
    insertFailureCounter = 0 =>
        /\ \A id \in SessionId : tupleValid[id] => Stored(cuckooTables, reverseLookupTable[id]) = {id}
        /\ \A k \in Key : \A id \in Stored(cuckooTables, k) :
              \/ tupleValid[id] /\ reverseLookupTable[id] = k
              \/ slc.state = "UPD_RSP" /\ slc.query.tuple = k
              \/ [key |-> id, value |-> k] \in ToSet(revInserts)
              \/ [op |-> "DELETE", key |-> k, value |-> id] \in ToSet(delete_req) \cup ToSet(update_req)

(* A lookup is never answered with a session number that belongs to another *)
(* tuple by then, although the number of a deleted session is free before   *)
(* its deletion is carried out and answers take several steps.             *)
AnswerNotReassigned ==
    [][\A a \in answers' \ answers : \A id \in a.session : \A k \in Key \ {a.tuple} :
          id \notin Stored(cuckooTables, k)']_vars

(* The check of a port in the lower half says whether it is listened on,   *)
(* and answers of the two tables do not change places.                     *)
CheckAnswersInOrder ==
    \A c \in lastCheck : ~High(c.asked.port) =>
        /\ c.asked.listening => c.answer
        /\ c.answer => c.asked.port \in listeningPortTable

(* The number of a released session becomes free again.                    *)
ReleasedBecomesFree ==
    \A id \in SessionId : (id \in ToSet(releases) /\ tupleValid[id]) ~> id \in ToSet(freeList)

=============================================================================
