-------------------------- MODULE ReconfPathProofs --------------------------
(***************************************************************************)
(* The request path of the reconfiguration controller for any sessions,    *)
(* shapes of requests and number of requests.                              *)
(***************************************************************************)
EXTENDS ReconfPath, SequenceTheorems, TLAPS

Lines == [id : Nat, session : Sessions, pos : Nat, need : Nat, last : BOOLEAN]

PathTypes ==
  /\ fifo \in Seq(Lines) /\ sent \in Seq(Shapes) /\ taken \in Nat
  /\ reconf_seen_header \in BOOLEAN /\ reconf_drain_packet \in BOOLEAN

(* Line c follows line b of its packet.                                    *)
Continues(c, b) ==
  c.id = b.id /\ c.session = b.session /\ c.pos = b.pos + 1

(* The FIFO holds whole packets, save the lines of the first that passed.  *)
PacketsWhole ==
  /\ \A i \in 1 .. Len(fifo) : i + 1 <= Len(fifo) /\ ~fifo[i].last =>
       Continues(fifo[i + 1], fifo[i])
  /\ Len(fifo) > 0 => fifo[Len(fifo)].last

(* The session noted is that of the packet passing, and of the command.    *)
SessionNoted ==
  /\ reconf_seen_header => Len(fifo) > 0 /\ fifo[1].session = reconf_tx_meta
  /\ phase # "idle" => cmd.session = reconf_tx_meta

PathInv == PathTypes /\ PacketsWhole /\ SessionNoted

(* Requests that come in one packet: every packet begins with a header.    *)
OnePacketRequests == \A shape \in Shapes : shape.cut = 0

HeadersFirst ==
  /\ \A i \in 1 .. Len(fifo) : i + 1 <= Len(fifo) /\ fifo[i].last =>
       fifo[i + 1].pos = 0
  /\ ~reconf_seen_header /\ Len(fifo) > 0 => fifo[1].pos = 0

(* Where in its packet the line is that would pass next.                   *)
NextInPlace ==
  reconf_seen_header =>
    IF phase = "idle" THEN reconf_drain_packet \/ fifo[1].pos = 1
    ELSE /\ ~reconf_drain_packet
         /\ fifo[1].id = cmd.id /\ fifo[1].pos = taken + 2

PlaceInv == HeadersFirst /\ NextInPlace

(***************************************************************************)
(* The lines of a request                                                  *)
(***************************************************************************)
LEMMA Popped ==
  ASSUME NEW S, NEW q \in Seq(S), q # <<>>
  PROVE  /\ Len(q) \in Nat \ {0} /\ Head(q) = q[1]
         /\ Tail(q) \in Seq(S) /\ Len(Tail(q)) = Len(q) - 1
         /\ \A i \in 1 .. Len(q) - 1 : Tail(q)[i] = q[i + 1]
<1>1. Len(q) \in Nat /\ Len(q) # 0
  BY EmptySeq
<1>. QED
  BY <1>1, HeadTailProperties

LEMMA Joined ==
  ASSUME NEW S, NEW s \in Seq(S), NEW t \in Seq(S)
  PROVE  /\ s \o t \in Seq(S) /\ Len(s \o t) = Len(s) + Len(t)
         /\ \A i \in 1 .. Len(s) : (s \o t)[i] = s[i]
         /\ \A i \in 1 .. Len(t) : (s \o t)[Len(s) + i] = t[i]
<1>. DEFINE m == Len(s)
            n == Len(t)
<1>1. m \in Nat /\ n \in Nat
  OBVIOUS
<1>2. /\ s \o t \in Seq(S) /\ Len(s \o t) = m + n
      /\ \A i \in 1 .. m + n : (s \o t)[i] = IF i <= m THEN s[i] ELSE t[i - m]
  BY ConcatProperties
<1>. HIDE DEF m, n
<1>3. \A i \in 1 .. m : (s \o t)[i] = s[i]
  BY <1>1, <1>2
<1>4. ASSUME NEW i \in 1 .. n
      PROVE  (s \o t)[m + i] = t[i]
  <2>1. m + i \in 1 .. m + n /\ ~(m + i <= m) /\ (m + i) - m = i
    BY <1>1
  <2>. QED
    BY <1>2, <2>1
<1>. QED
  BY <1>2, <1>3, <1>4 DEF m, n

(* A request as it is sent: its lines in order, and the end of a packet    *)
(* at its end.                                                             *)
Request(id, session, shape) ==
  [i \in 1 .. shape.body + 1 |-> RequestLine(id, session, shape, i - 1)]

LEMMA RequestLines ==
  ASSUME NEW id \in Nat, NEW session \in Sessions, NEW shape \in Shapes,
         NEW r, r = Request(id, session, shape)
  PROVE  /\ r \in Seq(Lines) /\ Len(r) = shape.body + 1 /\ shape.body \in Nat
         /\ \A i \in 1 .. shape.body + 1 :
              /\ r[i].id = id /\ r[i].session = session /\ r[i].pos = i - 1
         /\ r[shape.body + 1].last
         /\ shape.cut = 0 => \A i \in 1 .. shape.body : ~r[i].last
<1>. DEFINE n == shape.body + 1
<1>1. shape.body \in Nat /\ shape.need \in Nat /\ shape.cut \in Nat /\ n \in Nat
  BY ShapeAssumption DEF RequestShape
<1>2. \A i \in 1 .. n : RequestLine(id, session, shape, i - 1) \in Lines
  BY <1>1 DEF RequestLine, Lines
<1>3. r \in [1 .. n -> Lines]
  BY <1>2 DEF Request
<1>4. r \in Seq(Lines) /\ Len(r) = n
  BY <1>1, <1>3
<1>5. \A i \in 1 .. n : /\ r[i].id = id /\ r[i].session = session
                        /\ r[i].pos = i - 1
                        /\ r[i].last = (i - 1 = shape.body \/ (i - 1) + 1 = shape.cut)
  BY <1>1 DEF Request, RequestLine
<1>6. r[n].last
  <2>1. n \in 1 .. n /\ n - 1 = shape.body
    BY <1>1
  <2>. QED
    BY <1>5, <2>1
<1>7. ASSUME shape.cut = 0, NEW i \in 1 .. shape.body
      PROVE  ~r[i].last
  <2>1. i \in 1 .. n /\ i - 1 # shape.body /\ (i - 1) + 1 # 0
    BY <1>1
  <2>. QED
    BY <1>5, <1>7, <2>1
<1>. QED
  BY <1>1, <1>4, <1>5, <1>6, <1>7

(* A request joins the queue.                                              *)
LEMMA SendKeepsInv ==
  ASSUME PathInv, NEW session \in Sessions, NEW shape \in Shapes,
         Send(session, shape)
  PROVE  /\ PathInv'
         /\ OnePacketRequests /\ PlaceInv => PlaceInv'
<1>. DEFINE id == Len(sent) + 1
            r == Request(id, session, shape)
            p == Len(fifo)
            n == shape.body + 1
<1>0. PathTypes /\ PacketsWhole /\ SessionNoted
  BY DEF PathInv
<1>1. fifo \in Seq(Lines) /\ p \in Nat /\ id \in Nat
  BY <1>0 DEF PathTypes
<1>2. /\ fifo' = fifo \o r /\ sent' = Append(sent, shape)
      /\ UNCHANGED <<fsmVars, phase, cmd, taken>>
  BY DEF Send, Request, serviceVars
<1>. HIDE DEF id
<1>3. /\ r \in Seq(Lines) /\ Len(r) = n /\ shape.body \in Nat
      /\ \A i \in 1 .. n :
           /\ r[i].id = id /\ r[i].session = session /\ r[i].pos = i - 1
      /\ r[n].last
      /\ shape.cut = 0 => \A i \in 1 .. shape.body : ~r[i].last
  <2>1. id \in Nat
    BY <1>1
  <2>2. r = Request(id, session, shape)
    OBVIOUS
  <2>. HIDE DEF r
  <2>. QED
    BY <2>1, <2>2, RequestLines
<1>. HIDE DEF r
<1>4. n \in Nat /\ n > 0
  BY <1>3
<1>. HIDE DEF n
<1>5. /\ fifo' \in Seq(Lines) /\ Len(fifo') = p + n
      /\ \A i \in 1 .. p : fifo'[i] = fifo[i]
      /\ \A i \in 1 .. n : fifo'[p + i] = r[i]
  <2>1. /\ fifo \o r \in Seq(Lines) /\ Len(fifo \o r) = Len(fifo) + Len(r)
        /\ \A i \in 1 .. Len(fifo) : (fifo \o r)[i] = fifo[i]
        /\ \A i \in 1 .. Len(r) : (fifo \o r)[Len(fifo) + i] = r[i]
    <3>1. fifo \in Seq(Lines) /\ r \in Seq(Lines)
      BY <1>1, <1>3
    <3>. HIDE DEF p
    <3>. QED
      BY <3>1, Joined
  <2>2. fifo' = fifo \o r /\ Len(r) = n
    BY <1>2, <1>3
  <2>. QED
    BY <2>1, <2>2, Zenon
<1>. HIDE DEF p
<1>6. \A i \in 1 .. p + n : i \in 1 .. p \/ \E j \in 1 .. n : i = p + j
  <2>. SUFFICES ASSUME NEW i \in 1 .. p + n, i \notin 1 .. p
                PROVE  \E j \in 1 .. n : i = p + j
    OBVIOUS
  <2>1. i - p \in 1 .. n /\ i = p + (i - p)
    BY <1>1, <1>4
  <2>. QED
    BY <2>1
<1>7. p > 0 => fifo'[1] = fifo[1]
  BY <1>1, <1>5
<1>8. p > 0 => fifo[p].last
  BY <1>0 DEF PacketsWhole, p
<1>9. PathTypes'
  <2>1. sent' \in Seq(Shapes)
    BY <1>0, <1>2, AppendProperties DEF PathTypes
  <2>. QED
    BY <1>0, <1>2, <1>5, <2>1 DEF PathTypes, fsmVars
<1>10. PacketsWhole'
  <2>1. ASSUME NEW i \in 1 .. p + n, i + 1 <= p + n, ~fifo'[i].last
        PROVE  Continues(fifo'[i + 1], fifo'[i])
    <3>1. CASE i \in 1 .. p
      <4>1. i # p
        BY <1>1, <1>5, <1>8, <2>1, <3>1
      <4>2. i + 1 \in 1 .. p /\ i + 1 <= p
        BY <1>1, <3>1, <4>1
      <4>. QED
        BY <1>0, <1>5, <2>1, <3>1, <4>2 DEF PacketsWhole, p
    <3>2. ASSUME NEW j \in 1 .. n, i = p + j
          PROVE  Continues(fifo'[i + 1], fifo'[i])
      <4>1. j + 1 \in 1 .. n /\ i + 1 = p + (j + 1) /\ (j + 1) - 1 = (j - 1) + 1
        BY <1>1, <1>4, <2>1, <3>2
      <4>2. fifo'[i] = r[j] /\ fifo'[i + 1] = r[j + 1]
        BY <1>5, <3>2, <4>1
      <4>3. r[j + 1].pos = (j + 1) - 1 /\ r[j].pos = j - 1
        BY <1>3, <4>1
      <4>. QED
        BY <1>3, <4>1, <4>2, <4>3 DEF Continues
    <3>. QED
      BY <1>6, <3>1, <3>2
  <2>2. fifo'[p + n].last
    <3>1. n \in 1 .. n
      BY <1>4
    <3>. QED
      BY <1>3, <1>5, <3>1
  <2>. QED
    BY <1>5, <2>1, <2>2 DEF PacketsWhole, Continues
<1>11. SessionNoted'
  <2>1. reconf_seen_header => p > 0 /\ fifo[1].session = reconf_tx_meta
    BY <1>0 DEF SessionNoted, p
  <2>2. p > 0 => p + n > 0
    BY <1>1, <1>4
  <2>. QED
    BY <1>0, <1>2, <1>5, <1>7, <2>1, <2>2 DEF SessionNoted, fsmVars
<1>12. ASSUME OnePacketRequests, PlaceInv
       PROVE  PlaceInv'
  <2>0. HeadersFirst /\ NextInPlace /\ shape.cut = 0
    BY <1>12 DEF PlaceInv, OnePacketRequests
  <2>1. r[1].pos = 0
    BY <1>3, <1>4
  <2>2. ASSUME NEW i \in 1 .. p + n, i + 1 <= p + n, fifo'[i].last
        PROVE  fifo'[i + 1].pos = 0
    <3>1. CASE i \in 1 .. p /\ i # p
      <4>1. i + 1 \in 1 .. p /\ i + 1 <= p
        BY <1>1, <3>1
      <4>. QED
        BY <1>5, <2>0, <2>2, <3>1, <4>1 DEF HeadersFirst, p
    <3>2. CASE i = p
      <4>1. 1 \in 1 .. n
        BY <1>4
      <4>. QED
        BY <1>5, <2>1, <3>2, <4>1
    <3>3. ASSUME NEW j \in 1 .. n, i = p + j
          PROVE  FALSE
      <4>1. j \in 1 .. shape.body
        BY <1>1, <1>3, <1>4, <2>2, <3>3 DEF n
      <4>. QED
        BY <1>3, <1>5, <2>0, <2>2, <3>3, <4>1
    <3>. QED
      BY <1>6, <3>1, <3>2, <3>3
  <2>3. ~reconf_seen_header => fifo'[1].pos = 0
    <3>1. CASE p > 0
      BY <1>7, <2>0, <3>1 DEF HeadersFirst, p
    <3>2. CASE p = 0
      <4>1. 1 \in 1 .. n /\ p + 1 = 1
        BY <1>4, <3>2
      <4>. QED
        BY <1>5, <2>1, <4>1
    <3>. QED
      BY <1>1, <3>1, <3>2
  <2>4. NextInPlace'
    <3>1. reconf_seen_header => fifo'[1] = fifo[1]
      BY <1>0, <1>7 DEF SessionNoted, p
    <3>. QED
      BY <1>2, <2>0, <3>1 DEF NextInPlace, fsmVars
  <2>. QED
    BY <1>2, <1>5, <2>2, <2>3, <2>4 DEF PlaceInv, HeadersFirst, fsmVars
<1>. QED
  BY <1>9, <1>10, <1>11, <1>12 DEF PathInv

(***************************************************************************)
(* A line passes                                                           *)
(***************************************************************************)
(* What is left of the queue keeps its packets, and the next line of a     *)
(* packet that goes on is there.                                           *)
LEMMA QueueTail ==
  ASSUME PathInv, fifo # <<>>, fifo' = Tail(fifo)
  PROVE  /\ fifo' \in Seq(Lines) /\ Head(fifo) = fifo[1] /\ fifo[1] \in Lines
         /\ PacketsWhole'
         /\ ~fifo[1].last => Len(fifo') > 0 /\ Continues(fifo'[1], fifo[1])
         /\ HeadersFirst =>
              /\ \A i \in 1 .. Len(fifo') : i + 1 <= Len(fifo') /\ fifo'[i].last =>
                   fifo'[i + 1].pos = 0
              /\ fifo[1].last /\ Len(fifo') > 0 => fifo'[1].pos = 0
<1>. DEFINE p == Len(fifo)
<1>0. fifo \in Seq(Lines) /\ PacketsWhole
  BY DEF PathInv, PathTypes
<1>1. /\ p \in Nat \ {0} /\ Head(fifo) = fifo[1]
      /\ fifo' \in Seq(Lines) /\ Len(fifo') = p - 1
      /\ \A i \in 1 .. p - 1 : fifo'[i] = fifo[i + 1]
  BY <1>0, Popped
<1>2. /\ \A i \in 1 .. p : i + 1 <= p /\ ~fifo[i].last =>
           Continues(fifo[i + 1], fifo[i])
      /\ fifo[p].last
  BY <1>0, <1>1 DEF PacketsWhole
<1>3. fifo[1] \in Lines
  BY <1>0, <1>1, ElementOfSeq
<1>4. HeadersFirst => \A i \in 1 .. p : i + 1 <= p /\ fifo[i].last =>
                        fifo[i + 1].pos = 0
  BY DEF HeadersFirst
<1>. HIDE DEF p
<1>5. \A i \in 1 .. p - 1 : i + 1 <= p - 1 =>
        /\ i + 1 \in 1 .. p /\ (i + 1) + 1 <= p /\ i + 1 \in 1 .. p - 1
        /\ fifo'[i] = fifo[i + 1] /\ fifo'[i + 1] = fifo[(i + 1) + 1]
  BY <1>1
<1>6. PacketsWhole'
  <2>1. ASSUME NEW i \in 1 .. p - 1, i + 1 <= p - 1, ~fifo'[i].last
        PROVE  Continues(fifo'[i + 1], fifo'[i])
    BY <1>2, <1>5, <2>1
  <2>2. p - 1 > 0 => fifo'[p - 1].last
    <3>1. p - 1 > 0 => p - 1 \in 1 .. p - 1 /\ (p - 1) + 1 = p
      BY <1>1
    <3>. QED
      BY <1>1, <1>2, <3>1
  <2>. QED
    BY <1>1, <2>1, <2>2 DEF PacketsWhole, Continues
<1>7. p - 1 > 0 => /\ 1 \in 1 .. p - 1 /\ 1 \in 1 .. p /\ 1 + 1 <= p
                   /\ fifo'[1] = fifo[1 + 1]
  BY <1>1
<1>8. ~fifo[1].last => p - 1 > 0 /\ Continues(fifo'[1], fifo[1])
  <2>. SUFFICES ASSUME ~fifo[1].last
                PROVE  p - 1 > 0 /\ Continues(fifo'[1], fifo[1])
    OBVIOUS
  <2>1. p # 1
    BY <1>2
  <2>2. p - 1 > 0
    BY <1>1, <2>1
  <2>. QED
    BY <1>2, <1>7, <2>2
<1>9. ASSUME HeadersFirst
      PROVE  /\ \A i \in 1 .. p - 1 : i + 1 <= p - 1 /\ fifo'[i].last =>
                  fifo'[i + 1].pos = 0
             /\ fifo[1].last /\ p - 1 > 0 => fifo'[1].pos = 0
  <2>0. \A i \in 1 .. p : i + 1 <= p /\ fifo[i].last => fifo[i + 1].pos = 0
    BY <1>4, <1>9
  <2>1. ASSUME NEW i \in 1 .. p - 1, i + 1 <= p - 1, fifo'[i].last
        PROVE  fifo'[i + 1].pos = 0
    <3>. DEFINE j == i + 1
    <3>1. /\ j \in 1 .. p /\ j + 1 <= p
          /\ fifo'[i] = fifo[j] /\ fifo'[i + 1] = fifo[j + 1]
      BY <1>5, <2>1
    <3>2. fifo[j].last
      BY <2>1, <3>1
    <3>. HIDE DEF j
    <3>3. fifo[j + 1].pos = 0
      BY <2>0, <3>1, <3>2
    <3>. QED
      BY <3>1, <3>3
  <2>2. fifo[1].last /\ p - 1 > 0 => fifo'[1].pos = 0
    BY <1>7, <2>0
  <2>. QED
    BY <2>1, <2>2
<1>. QED
  BY <1>1, <1>3, <1>6, <1>8, <1>9

(* The state machine when a line passes.                                   *)
LEMMA FireTracked ==
  ASSUME PathTypes, NEW line \in Lines, TrackPacket(line, TRUE, FALSE)
  PROVE  /\ ~reconf_seen_header =>
              /\ reconf_tx_meta' = line.session
              /\ reconf_seen_header' = ~line.last
              /\ reconf_drain_packet' = FALSE
         /\ reconf_seen_header /\ line.last =>
              /\ reconf_seen_header' = FALSE /\ reconf_drain_packet' = FALSE
              /\ reconf_tx_meta' = reconf_tx_meta
         /\ reconf_seen_header /\ ~line.last => UNCHANGED fsmVars
         /\ reconf_seen_header' \in BOOLEAN /\ reconf_drain_packet' \in BOOLEAN
<1>1. line.last \in BOOLEAN
  BY DEF Lines
<1>2. CASE ~reconf_seen_header
  BY <1>1, <1>2 DEF TrackPacket, reconf_header_line, reconf_payload_line
<1>3. CASE reconf_seen_header /\ line.last
  BY <1>3 DEF TrackPacket, reconf_header_line, reconf_payload_line
<1>4. CASE reconf_seen_header /\ ~line.last
  BY <1>4 DEF TrackPacket, reconf_header_line, reconf_payload_line, fsmVars,
     PathTypes
<1>. QED
  BY <1>2, <1>3, <1>4

(* What the controller does with the line.                                 *)
LEMMA LineUsed ==
  ASSUME PathTypes, LinePasses
  PROVE  /\ ~reconf_seen_header => phase = "idle"
         /\ \/ /\ reconf_seen_header /\ ~reconf_drain_packet
               /\ phase = "idle" /\ phase' # "idle"
               /\ cmd' = Head(fifo) /\ taken' = 0
            \/ /\ reconf_seen_header /\ ~reconf_drain_packet
               /\ phase = "payload" /\ phase' # "idle"
               /\ cmd' = cmd /\ taken' = taken + 1
            \/ /\ ~(reconf_seen_header /\ ~reconf_drain_packet)
               /\ phase' = phase /\ cmd' = cmd /\ taken' = taken
<1>1. ~reconf_seen_header => phase = "idle"
  BY DEF LinePasses, dispatcher_tready, reconf_header_line
<1>2. CASE reconf_forward_line /\ CommandTaken(Head(fifo))
  BY <1>1, <1>2 DEF CommandTaken, AcceptWrite, AcceptRead, AcceptLoad,
     AcceptAnswered, TakeCommand, reconf_forward_line, reconf_payload_line
<1>3. CASE reconf_forward_line /\ PayloadTaken
  BY <1>1, <1>3 DEF PayloadTaken, TakeLine, reconf_forward_line,
     reconf_payload_line
<1>4. CASE ~reconf_forward_line /\ Listen /\ UNCHANGED <<cmd, taken>>
  BY <1>1, <1>4 DEF Listen, reconf_forward_line, reconf_payload_line
<1>. QED
  BY <1>2, <1>3, <1>4 DEF LinePasses

LEMMA LineKeepsInv ==
  ASSUME PathInv, LinePasses
  PROVE  PathInv'
<1>. DEFINE line == fifo[1]
<1>0. PathTypes /\ SessionNoted
  BY DEF PathInv
<1>1. fifo # <<>> /\ fifo' = Tail(fifo) /\ sent' = sent
      /\ TrackPacket(Head(fifo), TRUE, FALSE)
  BY DEF LinePasses
<1>2. /\ fifo' \in Seq(Lines) /\ Head(fifo) = line /\ line \in Lines
      /\ PacketsWhole'
      /\ ~line.last => Len(fifo') > 0 /\ fifo'[1].session = line.session
  BY <1>1, QueueTail DEF Continues
<1>3. reconf_seen_header => line.session = reconf_tx_meta
  BY <1>0 DEF SessionNoted
<1>4. TrackPacket(line, TRUE, FALSE)
  BY <1>1, <1>2
<1>5. PathTypes'
  <2>1. taken' \in Nat
    BY <1>0, LineUsed DEF PathTypes
  <2>. QED
    BY <1>0, <1>1, <1>2, <1>4, <2>1, FireTracked DEF PathTypes
<1>. HIDE DEF line
<1>6. SessionNoted'
  <2>1. CASE ~reconf_seen_header
    <3>1. phase = "idle" /\ phase' = "idle"
      BY <1>0, <2>1, LineUsed
    <3>2. reconf_tx_meta' = line.session /\ reconf_seen_header' = ~line.last
      BY <1>0, <1>2, <1>4, <2>1, FireTracked
    <3>. QED
      BY <1>2, <3>1, <3>2 DEF SessionNoted
  <2>2. CASE reconf_seen_header
    <3>1. reconf_tx_meta' = reconf_tx_meta /\ (reconf_seen_header' => ~line.last)
      BY <1>0, <1>2, <1>4, <2>2, FireTracked DEF fsmVars
    <3>2. phase' # "idle" => cmd'.session = reconf_tx_meta
      BY <1>0, <1>2, <1>3, <2>2, LineUsed DEF SessionNoted
    <3>. QED
      BY <1>2, <1>3, <2>2, <3>1, <3>2 DEF SessionNoted
  <2>. QED
    BY <2>1, <2>2
<1>. QED
  BY <1>2, <1>5, <1>6 DEF PathInv

LEMMA LineKeepsPlace ==
  ASSUME PathInv, PlaceInv, LinePasses
  PROVE  PlaceInv'
<1>. DEFINE line == fifo[1]
<1>0. PathTypes /\ HeadersFirst /\ NextInPlace
  BY DEF PathInv, PlaceInv
<1>1. fifo # <<>> /\ fifo' = Tail(fifo) /\ TrackPacket(Head(fifo), TRUE, FALSE)
  BY DEF LinePasses
<1>2. /\ Head(fifo) = line /\ line \in Lines
      /\ ~line.last => Len(fifo') > 0 /\ Continues(fifo'[1], line)
      /\ \A i \in 1 .. Len(fifo') : i + 1 <= Len(fifo') /\ fifo'[i].last =>
           fifo'[i + 1].pos = 0
      /\ line.last /\ Len(fifo') > 0 => fifo'[1].pos = 0
  BY <1>0, <1>1, QueueTail
<1>3. TrackPacket(line, TRUE, FALSE) /\ line.pos \in Nat /\ line.last \in BOOLEAN
  BY <1>1, <1>2 DEF Lines
<1>4. fifo \in Seq(Lines) /\ Len(fifo) > 0
  BY <1>0, <1>1, EmptySeq DEF PathTypes
<1>5. /\ ~reconf_seen_header => line.pos = 0
      /\ reconf_seen_header /\ phase = "idle" => reconf_drain_packet \/ line.pos = 1
      /\ reconf_seen_header /\ phase # "idle" =>
           ~reconf_drain_packet /\ line.id = cmd.id /\ line.pos = taken + 2
  BY <1>0, <1>4 DEF HeadersFirst, NextInPlace
<1>. HIDE DEF line
<1>6. reconf_seen_header' = ~line.last
  <2>1. CASE ~reconf_seen_header
    BY <1>0, <1>2, <1>3, <2>1, FireTracked
  <2>2. CASE reconf_seen_header /\ line.last
    BY <1>0, <1>2, <1>3, <2>2, FireTracked
  <2>3. CASE reconf_seen_header /\ ~line.last
    BY <1>0, <1>2, <1>3, <2>3, FireTracked DEF fsmVars, PathTypes
  <2>. QED
    BY <2>1, <2>2, <2>3
<1>7. HeadersFirst'
  BY <1>2, <1>3, <1>6 DEF HeadersFirst
<1>8. NextInPlace'
  <2>. SUFFICES ASSUME ~line.last
                PROVE  IF phase' = "idle"
                       THEN reconf_drain_packet' \/ fifo'[1].pos = 1
                       ELSE /\ ~reconf_drain_packet'
                            /\ fifo'[1].id = cmd'.id /\ fifo'[1].pos = taken' + 2
    BY <1>6 DEF NextInPlace
  <2>1. fifo'[1].id = line.id /\ fifo'[1].pos = line.pos + 1
    BY <1>2 DEF Continues
  <2>2. CASE ~reconf_seen_header
    <3>1. phase' = "idle"
      BY <1>0, <2>2, LineUsed
    <3>. QED
      BY <1>5, <2>1, <2>2, <3>1
  <2>3. CASE reconf_seen_header /\ reconf_drain_packet
    <3>1. phase' = phase /\ phase = "idle"
      BY <1>0, <1>5, <2>3, LineUsed
    <3>2. reconf_drain_packet' = reconf_drain_packet
      BY <1>0, <1>2, <1>3, <2>3, FireTracked DEF fsmVars
    <3>. QED
      BY <2>3, <3>1, <3>2
  <2>4. CASE reconf_seen_header /\ ~reconf_drain_packet
    <3>1. ~reconf_drain_packet'
      BY <1>0, <1>2, <1>3, <2>4, FireTracked DEF fsmVars
    <3>2. phase' # "idle"
      BY <1>0, <2>4, LineUsed
    <3>3. CASE phase = "idle"
      <4>1. cmd' = line /\ taken' = 0 /\ line.pos = 1
        BY <1>0, <1>2, <1>5, <2>4, <3>3, LineUsed
      <4>. QED
        BY <2>1, <3>1, <3>2, <4>1
    <3>4. CASE phase # "idle"
      <4>1. cmd' = cmd /\ taken' = taken + 1 /\ line.id = cmd.id
            /\ line.pos = taken + 2
        BY <1>0, <1>5, <2>4, <3>4, LineUsed
      <4>2. taken \in Nat
        BY <1>0 DEF PathTypes
      <4>3. line.pos + 1 = taken' + 2
        BY <4>1, <4>2
      <4>. QED
        BY <2>1, <3>1, <3>2, <4>1, <4>3
    <3>. QED
      BY <3>3, <3>4
  <2>. QED
    BY <2>2, <2>3, <2>4
<1>. QED
  BY <1>7, <1>8 DEF PlaceInv

(***************************************************************************)
(* The controller works and answers                                        *)
(***************************************************************************)
LEMMA WorkKeepsInv ==
  ASSUME PathInv, ControllerWorks
  PROVE  PathInv' /\ (PlaceInv => PlaceInv')
<1>1. UNCHANGED <<fifo, sent, cmd, taken>> /\ TrackPacket(NoLine, FALSE, FALSE)
  BY DEF ControllerWorks
<1>2. UNCHANGED fsmVars
  BY <1>1 DEF TrackPacket
<1>3. phase' = "idle" <=> phase = "idle"
  BY DEF ControllerWorks, Listen, NextLine, Finish
<1>4. PathInv'
  BY <1>1, <1>2, <1>3 DEF PathInv, PathTypes, PacketsWhole, SessionNoted,
     Continues, fsmVars
<1>5. PlaceInv => PlaceInv'
  BY <1>1, <1>2, <1>3 DEF PlaceInv, HeadersFirst, NextInPlace, fsmVars
<1>. QED
  BY <1>4, <1>5

LEMMA AnswerKeepsInv ==
  ASSUME PathInv, AnswerPasses
  PROVE  PathInv' /\ (PlaceInv => PlaceInv')
<1>1. UNCHANGED <<fifo, sent, cmd, taken>> /\ TrackPacket(NoLine, FALSE, TRUE)
  BY DEF AnswerPasses
<1>2. phase = "respond" /\ phase' = "idle"
  BY DEF AnswerPasses, Answered
<1>3. UNCHANGED <<reconf_seen_header, reconf_tx_meta>>
      /\ (reconf_seen_header => reconf_drain_packet' = TRUE)
      /\ (~reconf_seen_header => reconf_drain_packet' = reconf_drain_packet)
  BY <1>1 DEF TrackPacket, fsmVars
<1>4. reconf_drain_packet' \in BOOLEAN
  BY <1>3 DEF PathInv, PathTypes
<1>5. PathInv'
  BY <1>1, <1>2, <1>3, <1>4 DEF PathInv, PathTypes, PacketsWhole,
     SessionNoted, Continues
<1>6. PlaceInv => PlaceInv'
  BY <1>1, <1>2, <1>3 DEF PlaceInv, HeadersFirst, NextInPlace
<1>. QED
  BY <1>5, <1>6

(***************************************************************************)
(* What follows                                                            *)
(***************************************************************************)
LEMMA PathStep ==
  ASSUME PathInv, [PathNext]_pathVars
  PROVE  PathInv' /\ (OnePacketRequests /\ PlaceInv => PlaceInv')
<1>1. CASE UNCHANGED pathVars
  BY <1>1 DEF pathVars, serviceVars, fsmVars, PathInv, PathTypes, PacketsWhole,
     SessionNoted, Continues, PlaceInv, HeadersFirst, NextInPlace
<1>. QED
  BY <1>1, SendKeepsInv, LineKeepsInv, LineKeepsPlace, WorkKeepsInv,
     AnswerKeepsInv DEF PathNext

LEMMA PathStart == PathInit => PathInv /\ PlaceInv
<1>. SUFFICES ASSUME PathInit
              PROVE  PathInv /\ PlaceInv
  OBVIOUS
<1>1. /\ fifo = <<>> /\ sent = <<>> /\ taken = 0 /\ phase = "idle"
      /\ reconf_seen_header = FALSE /\ reconf_drain_packet = FALSE
  BY DEF PathInit, ServiceInit
<1>2. fifo \in Seq(Lines) /\ sent \in Seq(Shapes) /\ Len(fifo) = 0
  BY <1>1, EmptySeq
<1>3. PathInv
  <2>1. PathTypes
    <3>1. taken \in Nat
      BY <1>1
    <3>2. reconf_seen_header \in BOOLEAN /\ reconf_drain_packet \in BOOLEAN
      BY <1>1, Zenon
    <3>. QED
      BY <1>2, <3>1, <3>2 DEF PathTypes
  <2>2. PacketsWhole
    BY <1>2 DEF PacketsWhole
  <2>3. SessionNoted
    BY <1>1, <1>2 DEF SessionNoted
  <2>. QED
    BY <2>1, <2>2, <2>3 DEF PathInv
<1>4. PlaceInv
  BY <1>1, <1>2 DEF PlaceInv, HeadersFirst, NextInPlace
<1>. QED
  BY <1>3, <1>4

LEMMA PathInvariant == PathSpec => []PathInv
<1>1. PathInit => PathInv
  BY PathStart
<1>2. PathInv /\ [PathNext]_pathVars => PathInv'
  BY PathStep
<1>. QED
  BY <1>1, <1>2, PTL DEF PathSpec

(* The answer to a command goes to the session that sent it, for any       *)
(* sessions, any requests (cut by TCP, with excess or missing payload, or  *)
(* without a command) and any order in which lines and the controller move. *)
THEOREM AnswerCorrect == PathSpec => []AnswerToItsSession
<1>1. PathInv => AnswerToItsSession
  BY DEF PathInv, SessionNoted, AnswerToItsSession
<1>. QED
  BY <1>1, PathInvariant, PTL

(* As long as TCP delivers each request in one packet, the controller      *)
(* takes as commands command lines only, and as payload the lines of its   *)
(* own request in order, whatever is missing or in excess.                 *)
THEOREM LinesCorrect ==
  ASSUME OnePacketRequests
  PROVE  PathSpec => LinesInPlace
<1>. DEFINE A == /\ phase = "idle" /\ phase' # "idle" => cmd'.pos = 1
                 /\ taken' > taken => /\ Head(fifo).id = cmd.id
                                      /\ Head(fifo).pos = taken + 2
<1>1. PathInit => PathInv /\ PlaceInv
  BY PathStart
<1>2. PathInv /\ PlaceInv /\ [PathNext]_pathVars => PathInv' /\ PlaceInv'
  BY PathStep
<1>3. PathInv /\ PlaceInv /\ [PathNext]_pathVars => [A]_pathVars
  <2>. SUFFICES ASSUME PathInv, PlaceInv, PathNext
                PROVE  A
    OBVIOUS
  <2>0. PathTypes /\ NextInPlace /\ taken \in Nat
    BY DEF PathInv, PlaceInv, PathTypes
  <2>1. CASE LinePasses
    <3>1. Head(fifo) = fifo[1]
      BY <2>1, QueueTail DEF LinePasses
    <3>2. CASE phase = "idle" /\ reconf_seen_header /\ ~reconf_drain_packet
      BY <2>0, <2>1, <3>1, <3>2, LineUsed DEF NextInPlace
    <3>3. CASE phase = "payload" /\ reconf_seen_header /\ ~reconf_drain_packet
      BY <2>0, <2>1, <3>1, <3>3, LineUsed DEF NextInPlace
    <3>4. CASE ~(reconf_seen_header /\ ~reconf_drain_packet)
      BY <2>0, <2>1, <3>4, LineUsed
    <3>. QED
      BY <2>0, <2>1, <3>2, <3>3, <3>4, LineUsed
  <2>2. CASE ~LinePasses
    <3>1. taken' = taken /\ (phase = "idle" => phase' = "idle")
      BY <2>2 DEF PathNext, Send, ControllerWorks, AnswerPasses, Answered,
         Listen, NextLine, Finish, serviceVars
    <3>. QED
      BY <2>0, <3>1
  <2>. QED
    BY <2>1, <2>2
<1>. QED
  BY <1>1, <1>2, <1>3, PTL DEF PathSpec, LinesInPlace
=============================================================================
