-------------------------- MODULE PktSenderProofs ---------------------------
(***************************************************************************)
(* The sender for all depths, lengths of responses and answers of the      *)
(* stack, the error on a long response included (after which it only       *)
(* waits).                                                                 *)
(***************************************************************************)
EXTENDS PktSender, SequenceTheorems, TLAPS

SenderTypes ==
  /\ payload \in Seq(Beat) /\ metadata \in Seq(Nat) /\ status \in Seq(BOOLEAN)
  /\ tx_payload_active \in BOOLEAN /\ tx_status_consumed \in BOOLEAN
  /\ input \in Beat /\ output \in Beat /\ announced \in Nat
  /\ owed \in BOOLEAN /\ verdict \in StackVerdicts

(* The beats queued: one follows the other, no response comes back, and    *)
(* all but the one still coming in have their last beat.                   *)
Chained ==
  \A i \in 1 .. Len(payload) : i > 1 => Follows(payload[i], payload[i - 1])

Ordered ==
  \A i, j \in 1 .. Len(payload) : i < j =>
    /\ payload[i].id <= payload[j].id
    /\ payload[i].id = payload[j].id => ~payload[i].last

Closed ==
  \A i \in 1 .. Len(payload) :
    payload[i].id # input.id \/ input.last =>
      \E l \in i .. Len(payload) : payload[l].id = payload[i].id /\ payload[l].last

(* The last beat that came in ends the queue; no response leaves before    *)
(* its last beat has come in.                                              *)
InputEnds ==
  /\ Len(payload) > 0 => payload[Len(payload)] = input
  /\ Len(payload) = 0 => input.last
  /\ \A i \in 1 .. Len(payload) : payload[i].id <= input.id
  /\ announced <= input.id

(* The metadata queued is that of the complete responses not announced.    *)
MetadataQueued ==
  /\ \A n \in 1 .. Len(metadata) :
       /\ metadata[n] > announced
       /\ \E i \in 1 .. Len(payload) : payload[i].id = metadata[n] /\ payload[i].last
  /\ \A i \in 1 .. Len(payload) : payload[i].last =>
       \/ tx_payload_active /\ payload[i].id = announced
       \/ \E n \in 1 .. Len(metadata) : metadata[n] = payload[i].id
  /\ \A n, m \in 1 .. Len(metadata) : n < m => metadata[n] < metadata[m]

(* The response being sent is at the head of the queue, whole.             *)
Sending ==
  tx_payload_active =>
    /\ Len(payload) > 0 /\ payload[1].id = announced
    /\ \E i \in 1 .. Len(payload) : payload[i].id = announced /\ payload[i].last
    /\ tx_status_consumed => /\ output.id = announced /\ ~owed
                             /\ Len(status) = 0 /\ Follows(payload[1], output)
    /\ ~tx_status_consumed =>
         /\ output.last /\ output.id < announced
         /\ payload[1].pos = 1 \/ (Len(status) = 0 /\ ~owed)
         /\ Len(status) = 0 \/ (Len(status) = 1 /\ ~owed)

Resting ==
  ~tx_payload_active =>
    /\ ~owed /\ Len(status) = 0
    /\ output.last /\ output.id <= announced
    /\ \A i \in 1 .. Len(payload) : payload[i].id > announced
    /\ Len(payload) > 0 => payload[1].pos = 1

SenderInv ==
  /\ SenderTypes /\ Chained /\ Ordered /\ Closed /\ InputEnds
  /\ MetadataQueued /\ Sending /\ Resting

(***************************************************************************)
(* Queues                                                                  *)
(***************************************************************************)
LEMMA Popped ==
  ASSUME NEW S, NEW q \in Seq(S), q # <<>>
  PROVE  /\ Len(q) \in Nat \ {0} /\ Head(q) = q[1]
         /\ Tail(q) \in Seq(S) /\ Len(Tail(q)) = Len(q) - 1
         /\ \A i \in 1 .. Len(q) - 1 : Tail(q)[i] = q[i + 1]
<1>1. Len(q) \in Nat /\ Len(q) # 0
  BY EmptySeq
<1>. QED
  BY <1>1, HeadTailProperties

LEMMA Pushed ==
  ASSUME NEW S, NEW q \in Seq(S), NEW e \in S
  PROVE  /\ Append(q, e) \in Seq(S) /\ Len(q) \in Nat
         /\ Len(Append(q, e)) = Len(q) + 1
         /\ \A i \in 1 .. Len(q) : Append(q, e)[i] = q[i]
         /\ Append(q, e)[Len(q) + 1] = e
  BY AppendProperties

LEMMA Lengths ==
  SenderTypes => Len(payload) \in Nat /\ Len(metadata) \in Nat /\ Len(status) \in Nat
  BY DEF SenderTypes

(***************************************************************************)
(* A beat comes in                                                         *)
(***************************************************************************)
LEMMA ReceiveKeepsInv ==
  ASSUME SenderInv, NEW b \in Beat, NextBeat(b), Receive(b)
  PROVE  SenderInv'
<1>. DEFINE p == Len(payload)
            k == Len(metadata)
<1>0. SenderTypes /\ Chained /\ Ordered /\ Closed /\ InputEnds
      /\ MetadataQueued /\ Sending /\ Resting
  BY DEF SenderInv
<1>1. /\ payload \in Seq(Beat) /\ metadata \in Seq(Nat) /\ p \in Nat /\ k \in Nat
      /\ input \in Beat /\ b.id \in Nat /\ b.pos \in Nat /\ b.last \in BOOLEAN
      /\ input.id \in Nat /\ input.pos \in Nat /\ input.last \in BOOLEAN
      /\ announced \in Nat
      /\ \A i \in 1 .. p : payload[i] \in Beat
      /\ \A n \in 1 .. k : metadata[n] \in Nat
  <2>1. /\ payload \in Seq(Beat) /\ metadata \in Seq(Nat) /\ p \in Nat /\ k \in Nat
        /\ input \in Beat /\ announced \in Nat
    BY <1>0, Lengths DEF SenderTypes
  <2>2. /\ \A i \in 1 .. p : payload[i] \in Beat
        /\ \A n \in 1 .. k : metadata[n] \in Nat
    BY <2>1, ElementOfSeq
  <2>3. /\ b.id \in Nat /\ b.pos \in Nat /\ b.last \in BOOLEAN
        /\ input.id \in Nat /\ input.pos \in Nat /\ input.last \in BOOLEAN
    BY <2>1 DEF Beat
  <2>. QED
    BY <2>1, <2>2, <2>3
<1>2. /\ payload' = Append(payload, b) /\ input' = b
      /\ metadata' = IF b.last THEN Append(metadata, b.id) ELSE metadata
      /\ UNCHANGED <<status, txVars, announced, owed, verdict, output>>
  BY DEF Receive
<1>3. /\ payload' \in Seq(Beat) /\ Len(payload') = p + 1
      /\ \A i \in 1 .. p : payload'[i] = payload[i]
      /\ payload'[p + 1] = b
  BY <1>1, <1>2, Pushed
<1>. HIDE DEF p
<1>4. /\ input.last => b.id > input.id /\ b.pos = 1
      /\ ~input.last => b.id = input.id /\ p > 0
      /\ b.id >= input.id
      /\ Follows(b, input)
      /\ p > 0 => payload[p] = input
  <2>1. Follows(b, input)
    BY DEF NextBeat
  <2>2. ~input.last => p # 0
    BY <1>0 DEF InputEnds, p
  <2>3. p > 0 => payload[p] = input
    BY <1>0 DEF InputEnds, p
  <2>4. /\ input.last => b.id > input.id /\ b.pos = 1
        /\ ~input.last => b.id = input.id
    BY <2>1 DEF Follows
  <2>5. b.id >= input.id
    BY <1>1, <2>4
  <2>. QED
    BY <1>1, <2>1, <2>2, <2>3, <2>4, <2>5
<1>5. \A i \in 1 .. p : payload[i].id \in Nat /\ payload[i].id <= b.id
  BY <1>0, <1>1, <1>4 DEF InputEnds, p, Beat
<1>6. \A i \in 1 .. p : payload[i].id = b.id => ~payload[i].last
  <2>. SUFFICES ASSUME NEW i \in 1 .. p, payload[i].id = b.id
                PROVE  ~payload[i].last
    OBVIOUS
  <2>1. ~input.last /\ payload[i].id = input.id /\ payload[p] = input /\ p > 0
    <3>1. payload[i].id <= input.id
      BY <1>0 DEF InputEnds, p
    <3>. QED
      BY <1>1, <1>4, <1>5, <3>1
  <2>2. CASE i = p
    BY <2>1, <2>2
  <2>3. CASE i < p
    BY <1>0, <1>1, <2>1, <2>3 DEF Ordered, p
  <2>. QED
    BY <1>1, <2>2, <2>3
<1>7. SenderTypes'
  <2>1. metadata' \in Seq(Nat)
    BY <1>1, <1>2, Pushed
  <2>. QED
    BY <1>0, <1>2, <1>3, <2>1 DEF SenderTypes, txVars
<1>8. Chained'
  <2>. SUFFICES ASSUME NEW i \in 1 .. p + 1, i > 1
                PROVE  Follows(payload'[i], payload'[i - 1])
    BY <1>3 DEF Chained, Follows
  <2>1. CASE i = p + 1
    <3>1. i - 1 = p /\ p > 0 /\ p \in 1 .. p
      BY <1>1, <2>1
    <3>. QED
      BY <1>3, <1>4, <2>1, <3>1
  <2>2. CASE i \in 1 .. p
    <3>1. i - 1 \in 1 .. p
      BY <1>1, <2>2
    <3>. QED
      BY <1>0, <1>3, <2>2, <3>1 DEF Chained, p
  <2>. QED
    BY <1>1, <2>1, <2>2
<1>9. Ordered'
  <2>. SUFFICES ASSUME NEW i \in 1 .. p + 1, NEW j \in 1 .. p + 1, i < j
                PROVE  /\ payload'[i].id <= payload'[j].id
                       /\ payload'[i].id = payload'[j].id => ~payload'[i].last
    BY <1>3 DEF Ordered
  <2>1. i \in 1 .. p
    BY <1>1
  <2>2. CASE j = p + 1
    BY <1>3, <1>5, <1>6, <2>1, <2>2
  <2>3. CASE j \in 1 .. p
    BY <1>0, <1>3, <2>1, <2>3 DEF Ordered, p
  <2>. QED
    BY <1>1, <2>2, <2>3
<1>10. Closed'
  <2>. SUFFICES ASSUME NEW i \in 1 .. p + 1, payload'[i].id # b.id \/ b.last
                PROVE  \E l \in i .. p + 1 :
                         payload'[l].id = payload'[i].id /\ payload'[l].last
    BY <1>2, <1>3 DEF Closed
  <2>1. CASE payload'[i].id = b.id
    <3>1. p + 1 \in i .. p + 1
      BY <1>1
    <3>. QED
      BY <1>3, <2>1, <3>1
  <2>2. CASE payload'[i].id # b.id
    <3>1. i \in 1 .. p
      BY <1>1, <1>3, <2>2
    <3>2. payload[i].id # input.id \/ input.last
      BY <1>3, <1>4, <2>2, <3>1
    <3>3. PICK l \in i .. p : payload[l].id = payload[i].id /\ payload[l].last
      BY <1>0, <3>1, <3>2 DEF Closed, p
    <3>4. l \in 1 .. p /\ l \in i .. p + 1
      BY <1>1, <3>1
    <3>. QED
      BY <1>3, <3>1, <3>3, <3>4
  <2>. QED
    BY <2>1, <2>2
<1>11. InputEnds'
  <2>1. \A i \in 1 .. p + 1 : payload'[i].id <= b.id
    BY <1>1, <1>3, <1>5
  <2>2. announced <= b.id
    BY <1>0, <1>1, <1>4 DEF InputEnds
  <2>3. p + 1 > 0 /\ p + 1 # 0
    BY <1>1
  <2>. QED
    BY <1>2, <1>3, <2>1, <2>2, <2>3 DEF InputEnds
<1>12. MetadataQueued'
  <2>. DEFINE k1 == Len(metadata')
  <2>1. /\ k1 \in Nat /\ k <= k1
        /\ \A n \in 1 .. k : metadata'[n] = metadata[n]
        /\ ~b.last => k1 = k
        /\ b.last => k1 = k + 1 /\ metadata'[k + 1] = b.id
    BY <1>1, <1>2, Pushed
  <2>. HIDE DEF k, k1
  <2>2. \A n \in 1 .. k : /\ metadata[n] > announced
                          /\ \E i \in 1 .. p : payload[i].id = metadata[n] /\ payload[i].last
    BY <1>0 DEF MetadataQueued, p, k
  <2>3. \A n \in 1 .. k : metadata[n] < b.id
    <3>. SUFFICES ASSUME NEW n \in 1 .. k
                  PROVE  metadata[n] < b.id
      OBVIOUS
    <3>1. PICK i \in 1 .. p : payload[i].id = metadata[n] /\ payload[i].last
      BY <2>2
    <3>. QED
      BY <1>1, <1>5, <1>6, <3>1
  <2>4. b.last => b.id > announced
    <3>1. CASE input.last
      BY <1>0, <1>1, <1>4, <3>1 DEF InputEnds
    <3>2. CASE ~input.last
      <4>1. b.id = input.id /\ p > 0 /\ payload[p] = input /\ announced <= input.id
        BY <1>0, <1>4, <3>2 DEF InputEnds
      <4>2. CASE tx_payload_active
        <5>1. PICK i \in 1 .. p : payload[i].id = announced /\ payload[i].last
          BY <1>0, <4>2 DEF Sending, p
        <5>. QED
          BY <1>1, <1>5, <1>6, <5>1
      <4>3. CASE ~tx_payload_active
        <5>1. p \in 1 .. p
          BY <1>1, <4>1
        <5>2. payload[p].id > announced
          BY <1>0, <4>3, <5>1 DEF Resting, p
        <5>. QED
          BY <4>1, <5>2
      <4>. QED
        BY <4>2, <4>3
    <3>. QED
      BY <3>1, <3>2
  <2>5. ASSUME NEW n \in 1 .. k1
        PROVE  /\ metadata'[n] > announced
               /\ \E i \in 1 .. p + 1 : payload'[i].id = metadata'[n] /\ payload'[i].last
    <3>1. CASE n \in 1 .. k
      <4>1. PICK i \in 1 .. p : payload[i].id = metadata[n] /\ payload[i].last
        BY <2>2, <3>1
      <4>2. i \in 1 .. p + 1
        BY <1>1
      <4>. QED
        BY <1>3, <2>1, <2>2, <3>1, <4>1, <4>2
    <3>2. CASE b.last /\ n = k + 1
      <4>1. p + 1 \in 1 .. p + 1
        BY <1>1
      <4>. QED
        BY <1>3, <2>1, <2>4, <3>2, <4>1
    <3>. QED
      BY <1>1, <2>1, <3>1, <3>2
  <2>6. ASSUME NEW i \in 1 .. p + 1, payload'[i].last
        PROVE  \/ tx_payload_active /\ payload'[i].id = announced
               \/ \E n \in 1 .. k1 : metadata'[n] = payload'[i].id
    <3>1. CASE i = p + 1
      <4>1. b.last /\ k + 1 \in 1 .. k1
        BY <1>1, <1>3, <2>1, <2>6, <3>1
      <4>. QED
        BY <1>3, <2>1, <3>1, <4>1
    <3>2. CASE i \in 1 .. p
      <4>1. \/ tx_payload_active /\ payload[i].id = announced
            \/ \E n \in 1 .. k : metadata[n] = payload[i].id
        BY <1>0, <1>3, <2>6, <3>2 DEF MetadataQueued, p, k
      <4>2. \A n \in 1 .. k : n \in 1 .. k1
        BY <1>1, <2>1
      <4>. QED
        BY <1>3, <2>1, <3>2, <4>1, <4>2
    <3>. QED
      BY <1>1, <3>1, <3>2
  <2>7. ASSUME NEW n \in 1 .. k1, NEW m \in 1 .. k1, n < m
        PROVE  metadata'[n] < metadata'[m]
    <3>1. n \in 1 .. k
      BY <1>1, <2>1, <2>7
    <3>2. CASE m \in 1 .. k
      BY <1>0, <2>1, <2>7, <3>1, <3>2 DEF MetadataQueued, k
    <3>3. CASE m = k + 1 /\ b.last
      BY <2>1, <2>3, <3>1, <3>3
    <3>. QED
      BY <1>1, <2>1, <3>2, <3>3
  <2>8. UNCHANGED <<announced, tx_payload_active>>
    BY <1>2 DEF txVars
  <2>. QED
    BY <1>3, <2>5, <2>6, <2>7, <2>8 DEF MetadataQueued, k1
<1>13. p > 0 => payload'[1] = payload[1]
  BY <1>1, <1>3
<1>14. Sending'
  <2>. SUFFICES ASSUME tx_payload_active
                PROVE  Sending'
    BY <1>2 DEF Sending, txVars
  <2>1. p > 0
    BY <1>0 DEF Sending, p
  <2>2. PICK i \in 1 .. p : payload[i].id = announced /\ payload[i].last
    BY <1>0 DEF Sending, p
  <2>3. i \in 1 .. p + 1 /\ payload'[i] = payload[i] /\ p + 1 > 0
    BY <1>1, <1>3, <2>1
  <2>4. \E j \in 1 .. Len(payload') : payload'[j].id = announced' /\ payload'[j].last
    BY <1>2, <1>3, <2>2, <2>3
  <2>. QED
    BY <1>0, <1>2, <1>3, <1>13, <2>1, <2>3, <2>4 DEF Sending, txVars, Follows
<1>15. Resting'
  <2>. SUFFICES ASSUME ~tx_payload_active
                PROVE  Resting'
    BY <1>2 DEF Resting, txVars
  <2>1. announced <= input.id /\ announced < b.id
    <3>1. announced <= input.id
      BY <1>0 DEF InputEnds
    <3>2. CASE input.last
      BY <1>1, <1>4, <3>1, <3>2
    <3>3. CASE ~input.last
      <4>1. p \in 1 .. p /\ payload[p].id = b.id
        BY <1>1, <1>4, <3>3
      <4>2. payload[p].id > announced
        BY <1>0, <4>1 DEF Resting, p
      <4>. QED
        BY <1>1, <3>1, <4>1, <4>2
    <3>. QED
      BY <3>1, <3>2, <3>3
  <2>2. \A i \in 1 .. p + 1 : payload'[i].id > announced
    <3>1. \A i \in 1 .. p : payload[i].id > announced
      BY <1>0 DEF Resting, p
    <3>2. \A i \in 1 .. p + 1 : i \in 1 .. p \/ i = p + 1
      BY <1>1
    <3>. QED
      BY <1>3, <2>1, <3>1, <3>2
  <2>3. payload'[1].pos = 1
    <3>1. CASE p > 0
      BY <1>0, <1>13, <3>1 DEF Resting, p
    <3>2. CASE p = 0
      <4>1. input.last
        BY <1>0, <3>2 DEF InputEnds, p
      <4>. QED
        BY <1>3, <1>4, <3>2, <4>1
    <3>. QED
      BY <1>1, <3>1, <3>2
  <2>. QED
    BY <1>0, <1>2, <1>3, <2>2, <2>3 DEF Resting, txVars
<1>. QED
  BY <1>7, <1>8, <1>9, <1>10, <1>11, <1>12, <1>14, <1>15 DEF SenderInv

(***************************************************************************)
(* The stack takes metadata and answers it                                 *)
(***************************************************************************)
LEMMA Elements ==
  ASSUME SenderTypes
  PROVE  /\ \A i \in 1 .. Len(payload) : /\ payload[i] \in Beat
                                         /\ payload[i].id \in Nat
                                         /\ payload[i].pos \in Nat
                                         /\ payload[i].last \in BOOLEAN
         /\ \A n \in 1 .. Len(metadata) : metadata[n] \in Nat
<1>1. \A i \in 1 .. Len(payload) : payload[i] \in Beat
  BY ElementOfSeq DEF SenderTypes
<1>2. \A n \in 1 .. Len(metadata) : metadata[n] \in Nat
  BY ElementOfSeq DEF SenderTypes
<1>. QED
  BY <1>1, <1>2 DEF Beat

(* The first metadata is that of the response at the head of the queue.    *)
LEMMA HeadsAgree ==
  ASSUME SenderInv, ~tx_payload_active, Len(metadata) > 0
  PROVE  Len(payload) > 0 /\ payload[1].id = metadata[1]
<1>. DEFINE p == Len(payload)
            k == Len(metadata)
            m == metadata[1]
<1>0. SenderTypes /\ Ordered /\ Closed /\ InputEnds /\ MetadataQueued
  BY DEF SenderInv
<1>1. p \in Nat /\ k \in Nat /\ 1 \in 1 .. k /\ m \in Nat
  BY <1>0, Lengths, Elements
<1>2. PICK i \in 1 .. p : payload[i].id = m /\ payload[i].last
  BY <1>0, <1>1 DEF MetadataQueued
<1>3. 1 \in 1 .. p /\ p > 0
  BY <1>1, <1>2
<1>4. payload[1].id \in Nat /\ payload[1].id <= m
  <2>1. CASE i = 1
    BY <1>0, <1>1, <1>2, <1>3, <2>1, Elements
  <2>2. CASE 1 < i
    BY <1>0, <1>2, <1>3, <2>2, Elements DEF Ordered
  <2>. QED
    BY <1>1, <1>2, <2>1, <2>2
<1>5. m <= payload[1].id
  <2>1. CASE payload[1].id # input.id \/ input.last
    <3>1. PICK l \in 1 .. p : payload[l].id = payload[1].id /\ payload[l].last
      BY <1>0, <1>3, <2>1 DEF Closed
    <3>2. PICK n \in 1 .. k : metadata[n] = payload[1].id
      BY <1>0, <3>1 DEF MetadataQueued
    <3>3. CASE n = 1
      BY <1>4, <3>2, <3>3
    <3>4. CASE 1 < n
      <4>1. m < metadata[n]
        BY <1>0, <1>1, <3>4 DEF MetadataQueued
      <4>. QED
        BY <1>1, <1>4, <3>2, <4>1
    <3>. QED
      BY <1>1, <3>3, <3>4
  <2>2. CASE payload[1].id = input.id
    BY <1>0, <1>2, <2>2 DEF InputEnds
  <2>. QED
    BY <2>1, <2>2
<1>. QED
  BY <1>1, <1>3, <1>4, <1>5

LEMMA AnnounceKeepsInv ==
  ASSUME SenderInv, Announce
  PROVE  SenderInv'
<1>. DEFINE p == Len(payload)
            k == Len(metadata)
<1>0. SenderTypes /\ Chained /\ Ordered /\ Closed /\ InputEnds
      /\ MetadataQueued /\ Sending /\ Resting
  BY DEF SenderInv
<1>1. /\ ~tx_payload_active /\ metadata # <<>> /\ metadata' = Tail(metadata)
      /\ tx_payload_active' = TRUE /\ tx_status_consumed' = FALSE
      /\ announced' = Head(metadata) /\ owed' = TRUE
      /\ UNCHANGED <<payload, status, input, verdict, output>>
  BY DEF Announce
<1>2. /\ k \in Nat \ {0} /\ Head(metadata) = metadata[1]
      /\ metadata' \in Seq(Nat) /\ Len(metadata') = k - 1
      /\ \A n \in 1 .. k - 1 : metadata'[n] = metadata[n + 1]
  BY <1>0, <1>1, Popped DEF SenderTypes
<1>3. p > 0 /\ payload[1].id = metadata[1] /\ 1 \in 1 .. k /\ p \in Nat
  BY <1>0, <1>1, <1>2, HeadsAgree, Lengths
<1>4. metadata[1] \in Nat /\ announced' = metadata[1] /\ announced \in Nat
  BY <1>0, <1>1, <1>2, <1>3, Elements DEF SenderTypes
<1>5. SenderTypes' /\ Chained' /\ Ordered' /\ Closed' /\ InputEnds'
  <2>1. SenderTypes'
    BY <1>0, <1>1, <1>2, <1>4 DEF SenderTypes
  <2>2. metadata[1] <= input.id
    BY <1>0, <1>3 DEF InputEnds
  <2>. QED
    BY <1>0, <1>1, <1>4, <2>1, <2>2 DEF Chained, Ordered, Closed, InputEnds, Follows
<1>6. MetadataQueued'
  <2>1. ASSUME NEW n \in 1 .. k - 1
        PROVE  /\ metadata'[n] > metadata[1]
               /\ \E i \in 1 .. p : payload[i].id = metadata'[n] /\ payload[i].last
    <3>1. n + 1 \in 1 .. k /\ 1 < n + 1 /\ metadata'[n] = metadata[n + 1]
      BY <1>2
    <3>2. metadata[1] < metadata[n + 1] /\ metadata[n + 1] \in Nat
      BY <1>0, <1>3, <3>1, Elements DEF MetadataQueued
    <3>. QED
      BY <1>0, <1>4, <3>1, <3>2 DEF MetadataQueued
  <2>2. ASSUME NEW i \in 1 .. p, payload[i].last
        PROVE  \/ payload[i].id = metadata[1]
               \/ \E n \in 1 .. k - 1 : metadata'[n] = payload[i].id
    <3>1. PICK n \in 1 .. k : metadata[n] = payload[i].id
      BY <1>0, <1>1, <2>2 DEF MetadataQueued
    <3>2. CASE n = 1
      BY <3>1, <3>2
    <3>3. CASE n # 1
      <4>1. n - 1 \in 1 .. k - 1 /\ (n - 1) + 1 = n
        BY <1>2, <3>3
      <4>. QED
        BY <1>2, <3>1, <4>1
    <3>. QED
      BY <3>2, <3>3
  <2>3. ASSUME NEW n \in 1 .. k - 1, NEW m \in 1 .. k - 1, n < m
        PROVE  metadata'[n] < metadata'[m]
    <3>1. n + 1 \in 1 .. k /\ m + 1 \in 1 .. k /\ n + 1 < m + 1
      BY <1>2, <2>3
    <3>. QED
      BY <1>0, <1>2, <3>1 DEF MetadataQueued
  <2>. QED
    BY <1>1, <1>2, <1>4, <2>1, <2>2, <2>3 DEF MetadataQueued
<1>7. Sending'
  <2>1. payload[1].pos = 1 /\ output.last /\ output.id <= announced
        /\ Len(status) = 0
    BY <1>0, <1>1, <1>3 DEF Resting
  <2>2. announced < metadata[1]
    BY <1>0, <1>3, <1>4 DEF MetadataQueued
  <2>3. output.id \in Nat
    BY <1>0 DEF SenderTypes, Beat
  <2>4. output.id < metadata[1]
    BY <1>4, <2>1, <2>2, <2>3
  <2>5. \E i \in 1 .. p : payload[i].id = metadata[1] /\ payload[i].last
    BY <1>0, <1>3 DEF MetadataQueued
  <2>. QED
    BY <1>1, <1>3, <1>4, <2>1, <2>4, <2>5 DEF Sending
<1>8. Resting'
  BY <1>1 DEF Resting
<1>. QED
  BY <1>5, <1>6, <1>7, <1>8 DEF SenderInv

LEMMA StatusKeepsInv ==
  ASSUME SenderInv, NEW v \in StackVerdicts, StatusArrives(v)
  PROVE  SenderInv'
<1>0. SenderTypes /\ Chained /\ Ordered /\ Closed /\ InputEnds
      /\ MetadataQueued /\ Sending /\ Resting
  BY DEF SenderInv
<1>1. /\ owed /\ status' = Append(status, ErrorBit(v))
      /\ verdict' = v /\ owed' = FALSE
      /\ UNCHANGED <<payload, metadata, txVars, input, announced, output>>
  BY DEF StatusArrives
<1>2. tx_payload_active /\ ~tx_status_consumed /\ Len(status) = 0
      /\ payload[1].pos = 1
  BY <1>0, <1>1 DEF Sending, Resting
<1>3. ErrorBit(v) \in BOOLEAN
  BY DEF ErrorBit
<1>4. status' \in Seq(BOOLEAN) /\ Len(status') = 1
  BY <1>0, <1>1, <1>2, <1>3, Pushed DEF SenderTypes
<1>5. SenderTypes'
  BY <1>0, <1>1, <1>4 DEF SenderTypes, txVars
<1>6. Chained' /\ Ordered' /\ Closed' /\ InputEnds' /\ MetadataQueued'
  BY <1>0, <1>1 DEF Chained, Ordered, Closed, InputEnds, MetadataQueued,
     Follows, txVars
<1>7. Sending' /\ Resting'
  BY <1>0, <1>1, <1>2, <1>4 DEF Sending, Resting, txVars
<1>. QED
  BY <1>5, <1>6, <1>7 DEF SenderInv

(***************************************************************************)
(* A beat leaves                                                           *)
(***************************************************************************)
(* The queue behind the beat at its head.                                  *)
LEMMA QueueTail ==
  ASSUME SenderInv, tx_payload_active, payload' = Tail(payload),
         UNCHANGED <<metadata, input, announced>>,
         tx_payload_active' = ~Head(payload).last
  PROVE  /\ payload' \in Seq(Beat)
         /\ Len(payload') = Len(payload) - 1 /\ Head(payload) = payload[1]
         /\ \A i \in 1 .. Len(payload') : i + 1 \in 1 .. Len(payload)
                                          /\ payload'[i] = payload[i + 1]
         /\ Chained' /\ Ordered' /\ Closed' /\ InputEnds' /\ MetadataQueued'
<1>. DEFINE p == Len(payload)
            k == Len(metadata)
<1>0. SenderTypes /\ Chained /\ Ordered /\ Closed /\ InputEnds
      /\ MetadataQueued /\ Sending
  BY DEF SenderInv
<1>1. p \in Nat \ {0} /\ payload # <<>> /\ payload[1].id = announced
  BY <1>0, Lengths, EmptySeq DEF Sending, SenderTypes
<1>2. /\ Head(payload) = payload[1] /\ payload' \in Seq(Beat)
      /\ Len(payload') = p - 1
      /\ \A i \in 1 .. p - 1 : payload'[i] = payload[i + 1]
  BY <1>0, <1>1, Popped DEF SenderTypes
<1>3. \A i \in 1 .. p - 1 : i + 1 \in 1 .. p
  BY <1>1
<1>4. Chained'
  <2>. SUFFICES ASSUME NEW i \in 1 .. p - 1, i > 1
                PROVE  Follows(payload'[i], payload'[i - 1])
    BY <1>2 DEF Chained, Follows
  <2>1. i - 1 \in 1 .. p - 1 /\ (i - 1) + 1 = i /\ (i + 1) - 1 = i /\ i + 1 > 1
        /\ i + 1 \in 1 .. p
    BY <1>1
  <2>2. payload'[i] = payload[i + 1] /\ payload'[i - 1] = payload[i]
    BY <1>2, <2>1
  <2>3. Follows(payload[i + 1], payload[(i + 1) - 1])
    BY <1>0, <2>1 DEF Chained
  <2>. QED
    BY <2>1, <2>2, <2>3
<1>5. Ordered'
  <2>. SUFFICES ASSUME NEW i \in 1 .. p - 1, NEW j \in 1 .. p - 1, i < j
                PROVE  /\ payload'[i].id <= payload'[j].id
                       /\ payload'[i].id = payload'[j].id => ~payload'[i].last
    BY <1>2 DEF Ordered
  <2>1. i + 1 < j + 1
    BY <1>1
  <2>. QED
    BY <1>0, <1>2, <1>3, <2>1 DEF Ordered
<1>6. Closed'
  <2>. SUFFICES ASSUME NEW i \in 1 .. p - 1, payload'[i].id # input.id \/ input.last
                PROVE  \E l \in i .. p - 1 :
                         payload'[l].id = payload'[i].id /\ payload'[l].last
    BY <1>2 DEF Closed
  <2>1. PICK l \in i + 1 .. p : payload[l].id = payload[i + 1].id /\ payload[l].last
    BY <1>0, <1>2, <1>3 DEF Closed
  <2>2. l - 1 \in i .. p - 1 /\ l - 1 \in 1 .. p - 1 /\ (l - 1) + 1 = l
    BY <1>1
  <2>. QED
    BY <1>2, <2>1, <2>2
<1>7. InputEnds'
  <2>1. CASE p = 1
    <3>1. payload[1] = input
      BY <1>0, <2>1 DEF InputEnds
    <3>2. PICK i \in 1 .. p : payload[i].id = announced /\ payload[i].last
      BY <1>0 DEF Sending
    <3>3. i = 1
      BY <2>1
    <3>. QED
      BY <1>0, <1>2, <2>1, <3>1, <3>2, <3>3 DEF InputEnds
  <2>2. CASE p > 1
    <3>1. p - 1 \in 1 .. p - 1 /\ (p - 1) + 1 = p /\ p - 1 > 0 /\ p - 1 # 0
      <4>. HIDE DEF p
      <4>. QED
        BY <1>1, <2>2
    <3>2. payload'[p - 1] = input
      BY <1>0, <1>1, <1>2, <3>1 DEF InputEnds
    <3>3. \A i \in 1 .. p - 1 : payload'[i].id <= input.id
      BY <1>0, <1>2, <1>3 DEF InputEnds
    <3>. QED
      BY <1>0, <1>2, <3>1, <3>2, <3>3 DEF InputEnds
  <2>3. p = 1 \/ p > 1
    <3>. HIDE DEF p
    <3>. QED
      BY <1>1
  <2>. QED
    BY <2>1, <2>2, <2>3
<1>8. MetadataQueued'
  <2>1. ASSUME NEW n \in 1 .. k
        PROVE  /\ metadata[n] > announced
               /\ \E i \in 1 .. p - 1 : payload'[i].id = metadata[n] /\ payload'[i].last
    <3>1. metadata[n] > announced
      BY <1>0 DEF MetadataQueued
    <3>2. PICK i \in 1 .. p : payload[i].id = metadata[n] /\ payload[i].last
      BY <1>0 DEF MetadataQueued
    <3>3. i # 1
      BY <1>0, <1>1, <3>1, <3>2 DEF SenderTypes
    <3>4. i - 1 \in 1 .. p - 1 /\ (i - 1) + 1 = i
      BY <1>1, <3>3
    <3>. QED
      BY <1>2, <3>1, <3>2, <3>4
  <2>2. ASSUME NEW i \in 1 .. p - 1, payload'[i].last
        PROVE  \/ tx_payload_active' /\ payload'[i].id = announced
               \/ \E n \in 1 .. k : metadata[n] = payload'[i].id
    <3>1. i + 1 \in 1 .. p /\ payload'[i] = payload[i + 1] /\ 1 < i + 1 /\ 1 \in 1 .. p
      BY <1>1, <1>2
    <3>2. CASE payload[i + 1].id = announced
      <4>1. ~payload[1].last
        BY <1>0, <1>1, <3>1, <3>2 DEF Ordered
      <4>. QED
        BY <1>2, <3>1, <3>2, <4>1
    <3>3. CASE payload[i + 1].id # announced
      BY <1>0, <2>2, <3>1, <3>3 DEF MetadataQueued
    <3>. QED
      BY <3>2, <3>3
  <2>. QED
    BY <1>0, <1>2, <2>1, <2>2 DEF MetadataQueued
<1>. QED
  BY <1>2, <1>3, <1>4, <1>5, <1>6, <1>7, <1>8

(* What is at the head of the queue once the beat is gone.                 *)
LEMMA NextHead ==
  ASSUME SenderInv, tx_payload_active, payload' = Tail(payload),
         UNCHANGED <<metadata, input, announced>>,
         tx_payload_active' = ~Head(payload).last
  PROVE  /\ ~Head(payload).last =>
              /\ Len(payload') > 0 /\ Follows(payload'[1], Head(payload))
              /\ payload'[1].id = announced
              /\ \E i \in 1 .. Len(payload') :
                   payload'[i].id = announced /\ payload'[i].last
         /\ Head(payload).last =>
              /\ \A i \in 1 .. Len(payload') : payload'[i].id > announced
              /\ Len(payload') > 0 => payload'[1].pos = 1
<1>. DEFINE p == Len(payload)
<1>0. SenderTypes /\ Chained /\ Ordered /\ Sending
  BY DEF SenderInv
<1>1. /\ Len(payload') = p - 1 /\ Head(payload) = payload[1]
      /\ \A i \in 1 .. p - 1 : i + 1 \in 1 .. p /\ payload'[i] = payload[i + 1]
  BY QueueTail
<1>2. p \in Nat /\ p > 0 /\ payload[1].id = announced /\ announced \in Nat
  BY <1>0, Lengths DEF Sending, SenderTypes
<1>3. ASSUME p - 1 > 0
      PROVE  Follows(payload'[1], payload[1])
  <2>1. 1 \in 1 .. p - 1 /\ 2 \in 1 .. p /\ 1 + 1 = 2 /\ 2 - 1 = 1 /\ 2 > 1
    <3>. HIDE DEF p
    <3>. QED
      BY <1>2, <1>3
  <2>2. payload'[1] = payload[2]
    BY <1>1, <2>1
  <2>3. Follows(payload[2], payload[2 - 1])
    BY <1>0, <2>1 DEF Chained
  <2>. QED
    BY <2>1, <2>2, <2>3
<1>4. CASE ~Head(payload).last
  <2>1. PICK i \in 1 .. p : payload[i].id = announced /\ payload[i].last
    BY <1>0 DEF Sending
  <2>2. i # 1
    BY <1>1, <1>4, <2>1
  <2>3. i - 1 \in 1 .. p - 1 /\ (i - 1) + 1 = i /\ p - 1 > 0
    <3>. HIDE DEF p
    <3>. QED
      BY <1>2, <2>2
  <2>4. payload'[i - 1].id = announced /\ payload'[i - 1].last
    BY <1>1, <2>1, <2>3
  <2>5. payload'[1].id = announced
    BY <1>1, <1>2, <1>3, <1>4, <2>3 DEF Follows
  <2>. QED
    BY <1>1, <1>3, <1>4, <2>3, <2>4, <2>5
<1>5. CASE Head(payload).last
  <2>1. ASSUME NEW i \in 1 .. p - 1
        PROVE  payload'[i].id > announced
    <3>1. i + 1 \in 1 .. p /\ 1 \in 1 .. p /\ 1 < i + 1 /\ payload'[i] = payload[i + 1]
      <4>1. 1 \in 1 .. p /\ 1 < i + 1
        <5>. HIDE DEF p
        <5>. QED
          BY <1>2
      <4>. QED
        BY <1>1, <4>1
    <3>2. payload[1].id <= payload[i + 1].id /\ payload[1].id # payload[i + 1].id
      BY <1>0, <1>1, <1>5, <3>1 DEF Ordered
    <3>3. payload[i + 1].id \in Nat
      BY <1>0, <3>1, Elements
    <3>. QED
      BY <1>2, <3>1, <3>2, <3>3
  <2>2. p - 1 > 0 => payload'[1].pos = 1
    BY <1>1, <1>3, <1>5 DEF Follows
  <2>. QED
    BY <1>1, <1>5, <2>1, <2>2
<1>. QED
  BY <1>4, <1>5

LEMMA DiscardKeepsInv ==
  ASSUME SenderInv, Discard
  PROVE  SenderInv'
<1>0. SenderTypes /\ Sending
  BY DEF SenderInv
<1>1. /\ tx_payload_active /\ ~tx_status_consumed /\ status # <<>>
      /\ payload' = Tail(payload) /\ status' = Tail(status)
      /\ tx_payload_active' = ~Head(payload).last
      /\ UNCHANGED <<metadata, tx_status_consumed, input, announced, owed,
                     verdict, output>>
  BY DEF Discard, Refused
<1>2. status' \in Seq(BOOLEAN) /\ Len(status') = Len(status) - 1 /\ Len(status) # 0
  BY <1>0, <1>1, Popped DEF SenderTypes
<1>3. /\ payload[1].pos = 1 /\ Len(status) = 1 /\ ~owed
      /\ output.last /\ output.id < announced
  BY <1>0, <1>1, <1>2 DEF Sending
<1>4. Len(status') = 0
  BY <1>2, <1>3
<1>5. payload' \in Seq(Beat) /\ Chained' /\ Ordered' /\ Closed' /\ InputEnds'
      /\ MetadataQueued'
  BY <1>1, QueueTail
<1>6. Head(payload).last \in BOOLEAN
  BY <1>0, <1>1, QueueTail, Lengths, Elements DEF Sending
<1>7. SenderTypes'
  BY <1>0, <1>1, <1>2, <1>5, <1>6 DEF SenderTypes
<1>8. output.id \in Nat /\ announced \in Nat
  BY <1>0 DEF SenderTypes, Beat
<1>9. Sending'
  BY <1>1, <1>3, <1>4, NextHead DEF Sending
<1>10. output.id <= announced
  BY <1>3, <1>8
<1>11. Resting'
  BY <1>1, <1>3, <1>4, <1>10, NextHead DEF Resting
<1>. QED
  BY <1>5, <1>7, <1>9, <1>11 DEF SenderInv

(* A beat leaves under its metadata, behind the beat before it.            *)
LEMMA SentBeat ==
  ASSUME SenderInv, SendBeat
  PROVE  /\ output' = payload[1] /\ payload[1].id = announced
         /\ Follows(payload[1], output)
         /\ ~owed /\ status' \in Seq(BOOLEAN) /\ Len(status') = 0
<1>0. SenderTypes /\ Sending
  BY DEF SenderInv
<1>1. /\ tx_payload_active /\ (tx_status_consumed \/ status # <<>>)
      /\ payload' = Tail(payload) /\ output' = Head(payload)
      /\ status' = IF tx_status_consumed THEN status ELSE Tail(status)
      /\ tx_payload_active' = ~Head(payload).last
      /\ UNCHANGED <<metadata, input, announced>>
  BY DEF SendBeat, tx_data_tvalid
<1>2. output' = payload[1] /\ payload[1].id = announced
  BY <1>0, <1>1, QueueTail DEF Sending
<1>3. CASE tx_status_consumed
  BY <1>0, <1>1, <1>2, <1>3 DEF Sending, SenderTypes
<1>4. CASE ~tx_status_consumed
  <2>1. Tail(status) \in Seq(BOOLEAN) /\ Len(Tail(status)) = Len(status) - 1
        /\ Len(status) # 0
    BY <1>0, <1>1, <1>4, Popped DEF SenderTypes
  <2>2. /\ payload[1].pos = 1 /\ Len(status) = 1 /\ ~owed
        /\ output.last /\ output.id < announced
    BY <1>0, <1>1, <1>4, <2>1 DEF Sending
  <2>3. output.id \in Nat /\ announced \in Nat
    BY <1>0 DEF SenderTypes, Beat
  <2>4. payload[1].id > output.id
    BY <1>2, <2>2, <2>3
  <2>. QED
    BY <1>1, <1>2, <1>4, <2>1, <2>2, <2>4 DEF Follows
<1>. QED
  BY <1>3, <1>4

LEMMA SendKeepsInv ==
  ASSUME SenderInv, SendBeat
  PROVE  SenderInv'
<1>0. SenderTypes /\ Sending
  BY DEF SenderInv
<1>1. /\ tx_payload_active
      /\ payload' = Tail(payload) /\ output' = Head(payload)
      /\ tx_payload_active' = ~Head(payload).last
      /\ tx_status_consumed' = ~Head(payload).last
      /\ UNCHANGED <<metadata, input, announced, owed, verdict>>
  BY DEF SendBeat, tx_data_tvalid
<1>2. /\ output' = payload[1] /\ payload[1].id = announced
      /\ ~owed /\ status' \in Seq(BOOLEAN) /\ Len(status') = 0
  BY SentBeat
<1>3. payload' \in Seq(Beat) /\ Chained' /\ Ordered' /\ Closed' /\ InputEnds'
      /\ MetadataQueued' /\ Head(payload) = payload[1]
  BY <1>1, QueueTail
<1>4. /\ payload[1] \in Beat /\ payload[1].last \in BOOLEAN
      /\ announced \in Nat
  BY <1>0, <1>1, Lengths, Elements DEF Sending, SenderTypes
<1>5. SenderTypes'
  BY <1>0, <1>1, <1>2, <1>3, <1>4 DEF SenderTypes
<1>6. Sending'
  BY <1>1, <1>2, <1>3, NextHead DEF Sending
<1>7. announced <= announced
  BY <1>4
<1>8. Resting'
  BY <1>1, <1>2, <1>3, <1>7, NextHead DEF Resting
<1>. QED
  BY <1>3, <1>5, <1>6, <1>8 DEF SenderInv

(***************************************************************************)
(* What follows                                                            *)
(***************************************************************************)
LEMMA SenderInvariant == SenderSpec => []SenderInv
<1>1. SenderInit => SenderInv
  <2>. SUFFICES ASSUME SenderInit
                PROVE  SenderInv
    OBVIOUS
  <2>1. /\ payload = <<>> /\ metadata = <<>> /\ status = <<>>
        /\ Len(payload) = 0 /\ Len(metadata) = 0 /\ Len(status) = 0
        /\ input = NoBeat /\ output = NoBeat /\ announced = 0
        /\ ~tx_payload_active /\ ~owed
    BY DEF SenderInit
  <2>2. NoBeat \in Beat /\ NoBeat.last /\ NoBeat.id = 0
    BY DEF NoBeat, Beat
  <2>3. SenderTypes
    <3>1. payload \in Seq(Beat) /\ metadata \in Seq(Nat) /\ status \in Seq(BOOLEAN)
      BY <2>1, EmptySeq
    <3>2. /\ tx_payload_active \in BOOLEAN /\ tx_status_consumed \in BOOLEAN
          /\ owed \in BOOLEAN /\ verdict \in StackVerdicts
      BY DEF SenderInit, StackVerdicts
    <3>. QED
      BY <2>1, <2>2, <3>1, <3>2 DEF SenderTypes
  <2>4. Chained /\ Ordered /\ Closed /\ MetadataQueued
    BY <2>1 DEF Chained, Ordered, Closed, MetadataQueued
  <2>5. InputEnds /\ Sending /\ Resting
    BY <2>1, <2>2 DEF InputEnds, Sending, Resting
  <2>. QED
    BY <2>3, <2>4, <2>5 DEF SenderInv
<1>2. SenderInv /\ [SenderNext]_senderVars => SenderInv'
  <2>. SUFFICES ASSUME SenderInv, [SenderNext]_senderVars
                PROVE  SenderInv'
    OBVIOUS
  <2>1. CASE \E b \in [id : 1 .. MaxResponses, pos : 1 .. MaxBeats, last : BOOLEAN] :
               NextBeat(b) /\ Receive(b)
    <3>. PICK b \in [id : 1 .. MaxResponses, pos : 1 .. MaxBeats, last : BOOLEAN] :
           NextBeat(b) /\ Receive(b)
      BY <2>1
    <3>1. b \in Beat
      BY SenderAssumption DEF Beat
    <3>. QED
      BY <3>1, ReceiveKeepsInv
  <2>2. CASE UNCHANGED senderVars
    BY <2>2 DEF senderVars, fifos, txVars, SenderInv, SenderTypes, Chained,
       Ordered, Closed, InputEnds, MetadataQueued, Sending, Resting, Follows
  <2>. QED
    BY <2>1, <2>2, AnnounceKeepsInv, StatusKeepsInv, DiscardKeepsInv,
       SendKeepsInv DEF SenderNext
<1>. QED
  BY <1>1, <1>2, PTL DEF SenderSpec

(* For any depths, lengths and answers of the stack: a response is         *)
(* announced to the stack only when it is in the FIFO from its first beat  *)
(* to its last.                                                            *)
THEOREM AnnouncedWholeCorrect == SenderSpec => []AnnouncedWhole
<1>1. SenderInv => AnnouncedWhole
  <2>. SUFFICES ASSUME SenderInv, NEW n \in DOMAIN metadata
                PROVE  /\ \E i \in ResponseBeats(metadata[n]) : payload[i].last
                       /\ \A i \in ResponseBeats(metadata[n]) :
                            payload[i].pos > 1 => i > 1 /\ payload[i - 1].id = metadata[n]
    BY DEF AnnouncedWhole
  <2>. n \in 1 .. Len(metadata)
    BY DEF SenderInv, SenderTypes
  <2>0. SenderTypes /\ Chained /\ MetadataQueued /\ Sending /\ Resting
    BY DEF SenderInv
  <2>1. DOMAIN payload = 1 .. Len(payload) /\ Len(payload) \in Nat
    BY <2>0 DEF SenderTypes
  <2>2. metadata[n] > announced /\ announced \in Nat /\ metadata[n] \in Nat
    BY <2>0, Elements DEF MetadataQueued, SenderTypes
  <2>3. \E i \in ResponseBeats(metadata[n]) : payload[i].last
    BY <2>0, <2>1 DEF MetadataQueued, ResponseBeats
  <2>4. ASSUME NEW i \in ResponseBeats(metadata[n]), payload[i].pos > 1
        PROVE  i > 1 /\ payload[i - 1].id = metadata[n]
    <3>1. i \in 1 .. Len(payload) /\ payload[i].id = metadata[n]
      BY <2>1 DEF ResponseBeats
    <3>2. i # 1
      <4>. SUFFICES ASSUME i = 1
                    PROVE  FALSE
        OBVIOUS
      <4>1. Len(payload) > 0
        BY <2>1, <3>1
      <4>2. CASE tx_payload_active
        BY <2>0, <2>2, <3>1, <4>2 DEF Sending
      <4>3. CASE ~tx_payload_active
        BY <2>0, <2>4, <4>1, <4>3 DEF Resting
      <4>. QED
        BY <4>2, <4>3
    <3>3. i > 1 /\ payload[i].pos # 1
      BY <2>0, <2>1, <2>4, <3>1, <3>2, Elements
    <3>4. Follows(payload[i], payload[i - 1])
      BY <2>0, <3>1, <3>3 DEF Chained
    <3>. QED
      BY <3>1, <3>3, <3>4 DEF Follows
  <2>. QED
    BY <2>3, <2>4
<1>. QED
  BY <1>1, SenderInvariant, PTL

(* And the beats that the stack takes are those of the response it was     *)
(* told of last, in their order and all of them before the next response,  *)
(* also when it refuses responses in between.                              *)
THEOREM BeatsCorrect == SenderSpec => BeatsUnderTheirMetadata
<1>. DEFINE A == output' # output => /\ output'.id = announced
                                     /\ Follows(output', output)
<1>1. SenderInv /\ [SenderNext]_senderVars => [A]_senderVars
  <2>. SUFFICES ASSUME SenderInv, SenderNext, output' # output
                PROVE  output'.id = announced /\ Follows(output', output)
    OBVIOUS
  <2>1. SendBeat
    BY DEF SenderNext, Receive, Announce, StatusArrives, Discard
  <2>. QED
    BY <2>1, SentBeat
<1>. QED
  BY <1>1, SenderInvariant, PTL DEF SenderSpec, BeatsUnderTheirMetadata
=============================================================================
