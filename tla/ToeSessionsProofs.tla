------------------------- MODULE ToeSessionsProofs --------------------------
(***************************************************************************)
(* The session numbers, the two session tables and the port checks of the  *)
(* TCP engine, for any number of sessions, any servers, any hash functions *)
(* and any number of tables and trials.                                    *)
(***************************************************************************)
EXTENDS ToeSessions, SequenceTheorems, FiniteSetTheorems, WellFoundedInduction, TLAPS

(***************************************************************************)
(* Queues                                                                  *)
(***************************************************************************)
LEMMA Popped ==
  ASSUME NEW T, NEW q \in Seq(T), q # <<>>
  PROVE  /\ Len(q) \in Nat \ {0} /\ Head(q) = q[1] /\ Head(q) \in T
         /\ Tail(q) \in Seq(T) /\ Len(Tail(q)) = Len(q) - 1
         /\ \A i \in 1 .. Len(q) - 1 : Tail(q)[i] = q[i + 1]
<1>1. Len(q) \in Nat /\ Len(q) # 0
  BY EmptySeq
<1>. QED
  BY <1>1, HeadTailProperties

LEMMA CountEmpty == ASSUME NEW S PROVE Count(<<>>, S) = 0
<1>1. {i \in DOMAIN <<>> : <<>>[i] \in S} = {}
  OBVIOUS
<1>. QED
  BY <1>1, FS_EmptySet DEF Count

LEMMA PlacesFinite ==
  ASSUME NEW T, NEW s \in Seq(T), NEW S
  PROVE  /\ IsFiniteSet({i \in DOMAIN s : s[i] \in S})
         /\ {i \in DOMAIN s : s[i] \in S} = {i \in 1 .. Len(s) : s[i] \in S}
         /\ Count(s, S) \in Nat
<1>. DEFINE P == {i \in 1 .. Len(s) : s[i] \in S}
<1>1. Len(s) \in Nat /\ DOMAIN s = 1 .. Len(s)
  OBVIOUS
<1>2. IsFiniteSet(1 .. Len(s))
  BY <1>1, FS_Interval
<1>3. P \in SUBSET (1 .. Len(s))
  OBVIOUS
<1>. HIDE DEF P
<1>4. IsFiniteSet(P)
  BY <1>2, <1>3, FS_Subset
<1>5. Cardinality(P) \in Nat
  BY <1>4, FS_CardinalityType
<1>6. {i \in DOMAIN s : s[i] \in S} = P
  BY <1>1 DEF P
<1>. QED
  BY <1>4, <1>5, <1>6 DEF Count, P

(* An element that joins the queue.                                        *)
LEMMA CountAppend ==
  ASSUME NEW T, NEW s \in Seq(T), NEW x \in T, NEW S
  PROVE  /\ x \in S => Count(Append(s, x), S) = Count(s, S) + 1
         /\ x \notin S => Count(Append(s, x), S) = Count(s, S)
<1>. DEFINE n == Len(s)
            t == Append(s, x)
            P == {i \in 1 .. n : s[i] \in S}
            Q == {i \in 1 .. n + 1 : t[i] \in S}
<1>1. /\ n \in Nat /\ t \in Seq(T) /\ Len(t) = n + 1
      /\ (\A i \in 1 .. n : t[i] = s[i]) /\ t[n + 1] = x
  BY AppendProperties
<1>2. Count(s, S) = Cardinality(P) /\ IsFiniteSet(P)
  BY PlacesFinite DEF Count
<1>3. Count(t, S) = Cardinality(Q)
  BY <1>1, PlacesFinite DEF Count
<1>. HIDE DEF n, t
<1>4. n + 1 \notin P
  BY <1>1
<1>5. x \in S => Q = P \cup {n + 1}
  BY <1>1
<1>6. x \notin S => Q = P
  BY <1>1
<1>. HIDE DEF P, Q
<1>7. Cardinality(P \cup {n + 1}) = Cardinality(P) + 1
  BY <1>2, <1>4, FS_AddElement
<1>. QED
  BY <1>2, <1>3, <1>5, <1>6, <1>7 DEF t

(* The first element leaves the queue.                                     *)
LEMMA CountTail ==
  ASSUME NEW T, NEW s \in Seq(T), s # <<>>, NEW S
  PROVE  /\ Head(s) \in S => Count(s, S) = Count(Tail(s), S) + 1
         /\ Head(s) \notin S => Count(s, S) = Count(Tail(s), S)
<1>. DEFINE n == Len(s)
            t == Tail(s)
            P == {i \in 1 .. n : s[i] \in S}
            Q == {i \in 1 .. n - 1 : t[i] \in S}
            R == P \ {1}
            f == [i \in Q |-> i + 1]
<1>1. /\ n \in Nat \ {0} /\ Head(s) = s[1] /\ t \in Seq(T) /\ Len(t) = n - 1
      /\ \A i \in 1 .. n - 1 : t[i] = s[i + 1]
  BY Popped
<1>2. Count(s, S) = Cardinality(P) /\ IsFiniteSet(P) /\ Cardinality(P) \in Nat
  BY PlacesFinite DEF Count
<1>. HIDE DEF n, t
<1>3. Count(t, S) = Cardinality(Q) /\ IsFiniteSet(Q) /\ Cardinality(Q) \in Nat
  <2>. DEFINE D == {i \in DOMAIN t : t[i] \in S}
  <2>1. D = Q /\ IsFiniteSet(D) /\ Count(t, S) \in Nat
    <3>1. t \in Seq(T) /\ DOMAIN t = 1 .. n - 1
      BY <1>1
    <3>2. D = Q
      BY <3>1
    <3>3. IsFiniteSet(D) /\ Count(t, S) \in Nat
      BY <3>1, PlacesFinite
    <3>. QED
      BY <3>2, <3>3
  <2>2. Count(t, S) = Cardinality(D)
    BY DEF Count
  <2>. HIDE DEF D, Q
  <2>. QED
    BY <2>1, <2>2
<1>4. f \in Bijection(Q, R)
  <2>1. \A i \in Q : i + 1 \in R
    BY <1>1
  <2>2. \A i, j \in Q : i + 1 = j + 1 => i = j
    BY <1>1
  <2>3. \A k \in R : \E i \in Q : i + 1 = k
    <3>. TAKE k \in R
    <3>1. k - 1 \in 1 .. n - 1 /\ (k - 1) + 1 = k /\ s[k] \in S
      BY <1>1
    <3>2. k - 1 \in Q
      BY <1>1, <3>1
    <3>. QED
      BY <3>1, <3>2
  <2>. HIDE DEF Q, R
  <2>4. f \in [Q -> R]
    BY <2>1
  <2>5. \A i \in Q : f[i] = i + 1
    OBVIOUS
  <2>. HIDE DEF f
  <2>6. \A i, j \in Q : f[i] = f[j] => i = j
    BY <2>2, <2>5
  <2>7. \A k \in R : \E i \in Q : f[i] = k
    BY <2>3, <2>5
  <2>. QED
    BY <2>4, <2>6, <2>7 DEF Bijection, Injection, IsInjective, Surjection
<1>5. Cardinality(R) = Cardinality(Q)
  <2>1. ExistsBijection(Q, R)
    BY <1>4 DEF ExistsBijection
  <2>. HIDE DEF Q, R
  <2>. QED
    BY <1>3, <2>1, FS_Bijection
<1>6. Head(s) \in S <=> 1 \in P
  BY <1>1
<1>. HIDE DEF P, Q
<1>7. Cardinality(R) = IF 1 \in P THEN Cardinality(P) - 1 ELSE Cardinality(P)
  BY <1>2, FS_RemoveElement
<1>. QED
  BY <1>2, <1>3, <1>5, <1>6, <1>7 DEF t

(***************************************************************************)
(* The inductive invariant                                                 *)
(***************************************************************************)
Insertion == [op : {"INSERT"}, key : threeTuple, value : SessionId]
Deletion == [op : {"DELETE"}, key : threeTuple, value : SessionId]
ReverseEntry == [key : SessionId, value : threeTuple]
PortCheck == [port : Port, listening : BOOLEAN]

(* What the lookup controller is doing, and the tuples it is asked for.    *)
QueryTypes ==
  /\ slc \in [state : {"LUP_REQ"}]
             \cup [state : {"LUP_RSP", "UPD_RSP"}, query : LookupQuery]
  /\ txApp_req \in Seq(LookupQuery) /\ rxEng_req \in Seq(LookupQuery)
  /\ freePorts \in Seq(Port)

(* The insertions and deletions on their way, the numbers and the reverse  *)
(* table.  Only replies to insertions are passed on.                       *)
IdTypes ==
  /\ freeList \in Seq(SessionId) /\ finFifo \in Seq(SessionId)
  /\ insert_req \in Seq(Insertion) /\ delete_req \in Seq(Deletion)
  /\ update_req \in Seq(UpdateRequest) /\ update_rsp \in Seq(Insertion)
  /\ revInserts \in Seq(ReverseEntry) /\ releases \in Seq(SessionId)
  /\ counter \in Nat
  /\ tupleValid \in [SessionId -> BOOLEAN]
  /\ DOMAIN reverseLookupTable \subseteq SessionId
  /\ \A id \in DOMAIN reverseLookupTable : reverseLookupTable[id] \in threeTuple
  /\ \A id \in SessionId : tupleValid[id] => id \in DOMAIN reverseLookupTable

CheckTypes ==
  /\ asked \in Seq(PortCheck) /\ dstFifo \in Seq({"LT", "FT"})
  /\ listenCheck \in Seq(Port) /\ listenAnswer \in Seq(BOOLEAN)
  /\ \A c \in lastCheck : c.asked \in PortCheck

(* The answer to a check of the lower half.                                *)
RightAnswer(a, answer) ==
  (a.listening => answer) /\ (answer => a.port \in listeningPortTable)

(* The answers of the listening table, and then the checks it has still to *)
(* answer, are those of the checks sent to it, in their order: f gives the *)
(* place of each in the sequence of all checks.                            *)
InOrder(f) ==
  LET a == Len(listenAnswer)
      n == Len(listenAnswer) + Len(listenCheck)
  IN /\ \A j, k \in 1 .. n : j < k => f[j] < f[k]
     /\ \A k \in 1 .. n : dstFifo[f[k]] = "LT"
     /\ \A i \in 1 .. Len(asked) : dstFifo[i] = "LT" => \E k \in 1 .. n : f[k] = i
     /\ \A k \in 1 .. a : RightAnswer(asked[f[k]], listenAnswer[k])
     /\ \A k \in 1 .. n : k > a => listenCheck[k - a] = asked[f[k]].port

CheckInv ==
  /\ CheckTypes /\ Len(dstFifo) = Len(asked)
  /\ \A i \in 1 .. Len(asked) :
       /\ dstFifo[i] = "LT" <=> ~High(asked[i].port)
       /\ asked[i].listening => asked[i].port \in listeningPortTable
  /\ \E f \in [1 .. Len(listenAnswer) + Len(listenCheck) -> 1 .. Len(asked)] : InOrder(f)
  /\ CheckAnswersInOrder

SessionInv == QueryTypes /\ IdTypes /\ IdsConserved /\ CheckInv

(***************************************************************************)
(* The session numbers                                                     *)
(***************************************************************************)
idState == <<freeList, finFifo, counter, insert_req, delete_req, update_req,
             update_rsp, revInserts, releases, reverseLookupTable, tupleValid>>

IdInv == IdTypes /\ IdsConserved

LEMMA IdFrame ==
  ASSUME IdInv, UNCHANGED idState
  PROVE  IdInv'
<1>1. IdTypes'
  BY DEF IdInv, IdTypes, idState
<1>2. IdsConserved'
  BY DEF IdInv, IdsConserved, idState
<1>. QED
  BY <1>1, <1>2 DEF IdInv

(* The number of places of a session number other than the reverse table.  *)
Queued(id) ==
  Count(freeList, {id}) + Count(finFifo, {id})
  + Count(insert_req, InsertionOf(id)) + Count(delete_req, DeletionOf(id))
  + Count(update_req, InsertionOf(id)) + Count(update_rsp, InsertionOf(id))
  + Count(revInserts, ReverseOf(id))

LEMMA CountsNat ==
  ASSUME IdTypes, NEW id
  PROVE  /\ Count(freeList, {id}) \in Nat /\ Count(finFifo, {id}) \in Nat
         /\ Count(insert_req, InsertionOf(id)) \in Nat
         /\ Count(delete_req, DeletionOf(id)) \in Nat
         /\ Count(update_req, InsertionOf(id)) \in Nat
         /\ Count(update_rsp, InsertionOf(id)) \in Nat
         /\ Count(revInserts, ReverseOf(id)) \in Nat
         /\ Queued(id) \in Nat
<1>1. /\ freeList \in Seq(SessionId) /\ finFifo \in Seq(SessionId)
      /\ insert_req \in Seq(Insertion) /\ delete_req \in Seq(Deletion)
      /\ update_req \in Seq(UpdateRequest) /\ update_rsp \in Seq(Insertion)
      /\ revInserts \in Seq(ReverseEntry)
  BY DEF IdTypes
<1>2. /\ Count(freeList, {id}) \in Nat /\ Count(finFifo, {id}) \in Nat
  BY <1>1, PlacesFinite
<1>3. /\ Count(insert_req, InsertionOf(id)) \in Nat
      /\ Count(update_rsp, InsertionOf(id)) \in Nat
  BY <1>1, PlacesFinite
<1>4. Count(delete_req, DeletionOf(id)) \in Nat
  BY <1>1, PlacesFinite
<1>5. Count(update_req, InsertionOf(id)) \in Nat
  BY <1>1, PlacesFinite
<1>6. Count(revInserts, ReverseOf(id)) \in Nat
  BY <1>1, PlacesFinite
<1>. QED
  BY <1>2, <1>3, <1>4, <1>5, <1>6 DEF Queued

LEMMA Conserved ==
  ASSUME IdTypes
  PROVE  IdsConserved <=>
           \A id \in SessionId :
             (IF id < counter THEN 1 ELSE 0)
               = Queued(id) + (IF tupleValid[id] THEN 1 ELSE 0)
BY CountsNat DEF IdsConserved, Queued

LEMMA ConservedNext ==
  ASSUME IdTypes', tupleValid' = tupleValid, counter' = counter, IdInv,
         \A id \in SessionId : Queued(id)' = Queued(id)
  PROVE  IdInv'
<1>1. IdsConserved' <=>
        \A id \in SessionId :
           (IF id < counter' THEN 1 ELSE 0)
             = Queued(id)' + (IF tupleValid'[id] THEN 1 ELSE 0)
  BY CountsNat DEF IdsConserved, Queued
<1>. QED
  BY <1>1, Conserved DEF IdInv

(* The first element of a queue moves to the end of another.               *)
LEMMA Moved ==
  ASSUME NEW T, NEW s \in Seq(T), s # <<>>,
         NEW U, NEW u \in Seq(U), NEW x \in U,
         NEW S, NEW V, Head(s) \in S <=> x \in V
  PROVE  /\ Count(Tail(s), S) \in Nat /\ Count(Append(u, x), V) \in Nat
         /\ Count(s, S) \in Nat /\ Count(u, V) \in Nat
         /\ Count(Tail(s), S) + Count(Append(u, x), V) = Count(s, S) + Count(u, V)
<1>1. Tail(s) \in Seq(T) /\ Append(u, x) \in Seq(U)
  BY Popped, AppendProperties
<1>2. Count(Tail(s), S) \in Nat /\ Count(s, S) \in Nat
  BY <1>1, PlacesFinite
<1>3. Count(Append(u, x), V) \in Nat /\ Count(u, V) \in Nat
  BY <1>1, PlacesFinite
<1>4. /\ Head(s) \in S => Count(s, S) = Count(Tail(s), S) + 1
      /\ Head(s) \notin S => Count(s, S) = Count(Tail(s), S)
  BY CountTail
<1>5. /\ x \in V => Count(Append(u, x), V) = Count(u, V) + 1
      /\ x \notin V => Count(Append(u, x), V) = Count(u, V)
  BY CountAppend
<1>. QED
  BY <1>2, <1>3, <1>4, <1>5

LEMMA IdManagerKeeps ==
  ASSUME SessionInv, sessionIdManager
  PROVE  IdInv'
<1>0. IdInv /\ IdTypes
  BY DEF SessionInv, IdInv
<1>1. /\ insert_req' = insert_req /\ delete_req' = delete_req
      /\ update_req' = update_req /\ update_rsp' = update_rsp
      /\ revInserts' = revInserts /\ releases' = releases
      /\ reverseLookupTable' = reverseLookupTable /\ tupleValid' = tupleValid
  BY DEF sessionIdManager, updateVars, reverseVars
<1>2. freeList \in Seq(SessionId) /\ finFifo \in Seq(SessionId) /\ counter \in Nat
  BY <1>0 DEF IdTypes
<1>3. CASE /\ finFifo # <<>> /\ freeList' = Append(freeList, Head(finFifo))
           /\ finFifo' = Tail(finFifo) /\ counter' = counter
  <2>1. Head(finFifo) \in SessionId /\ finFifo' \in Seq(SessionId)
    BY <1>2, <1>3, Popped
  <2>2. freeList' \in Seq(SessionId)
    BY <1>2, <1>3, <2>1, AppendProperties
  <2>3. IdTypes'
    BY <1>0, <1>1, <1>3, <2>1, <2>2 DEF IdTypes
  <2>4. ASSUME NEW id \in SessionId
        PROVE  Queued(id)' = Queued(id)
    <3>1. Count(finFifo', {id}) + Count(freeList', {id})
            = Count(finFifo, {id}) + Count(freeList, {id})
      <4>. DEFINE x == Head(finFifo)
                  S == {id}
      <4>1. x \in SessionId /\ (Head(finFifo) \in S <=> x \in S)
        BY <2>1
      <4>. HIDE DEF x, S
      <4>2. Count(Tail(finFifo), S) + Count(Append(freeList, x), S)
              = Count(finFifo, S) + Count(freeList, S)
        BY <1>2, <1>3, <4>1, Moved
      <4>. QED
        BY <1>3, <4>2 DEF x, S
    <3>2. Count(finFifo', {id}) \in Nat /\ Count(freeList', {id}) \in Nat
      BY <2>1, <2>2, PlacesFinite
    <3>. QED
      BY <1>0, <1>1, <3>1, <3>2, CountsNat DEF Queued
  <2>. QED
    BY <1>0, <1>1, <1>3, <2>3, <2>4, ConservedNext
<1>4. CASE /\ finFifo = <<>> /\ counter < MAX_SESSIONS
           /\ freeList' = Append(freeList, counter) /\ counter' = counter + 1
           /\ finFifo' = finFifo
  <2>1. counter \in SessionId
    BY <1>2, <1>4, SessionsInstance DEF SessionId
  <2>2. freeList' \in Seq(SessionId)
    BY <1>2, <1>4, <2>1, AppendProperties
  <2>3. IdTypes'
    BY <1>0, <1>1, <1>2, <1>4, <2>2 DEF IdTypes
  <2>4. ASSUME NEW id \in SessionId
        PROVE  (IF id < counter' THEN 1 ELSE 0)
                 = Queued(id)' + (IF tupleValid'[id] THEN 1 ELSE 0)
    <3>. DEFINE v == IF tupleValid[id] THEN 1 ELSE 0
    <3>1. (IF id < counter THEN 1 ELSE 0) = Queued(id) + v
      BY <1>0, Conserved DEF IdInv
    <3>2. v \in Nat /\ Queued(id) \in Nat /\ id \in Nat
      <4>1. v \in Nat
        OBVIOUS
      <4>2. Queued(id) \in Nat
        BY <1>0, CountsNat
      <4>3. id \in Nat
        BY SessionsInstance DEF SessionId
      <4>. QED
        BY <4>1, <4>2, <4>3
    <3>3. /\ counter = id => Count(freeList', {id}) = Count(freeList, {id}) + 1
          /\ counter # id => Count(freeList', {id}) = Count(freeList, {id})
      <4>1. counter \in {id} <=> counter = id
        OBVIOUS
      <4>. QED
        BY <1>2, <1>4, <2>1, <4>1, CountAppend
    <3>4. /\ counter = id => Queued(id)' = Queued(id) + 1
          /\ counter # id => Queued(id)' = Queued(id)
      <4>1. finFifo' = finFifo /\ Count(freeList', {id}) \in Nat
        BY <1>4, <2>2, PlacesFinite
      <4>2. /\ Count(freeList, {id}) \in Nat /\ Count(finFifo, {id}) \in Nat
            /\ Count(insert_req, InsertionOf(id)) \in Nat
            /\ Count(delete_req, DeletionOf(id)) \in Nat
            /\ Count(update_req, InsertionOf(id)) \in Nat
            /\ Count(update_rsp, InsertionOf(id)) \in Nat
            /\ Count(revInserts, ReverseOf(id)) \in Nat
        BY <1>0, CountsNat
      <4>. QED
        BY <1>1, <3>3, <4>1, <4>2 DEF Queued
    <3>5. tupleValid' = tupleValid /\ counter' = counter + 1
      BY <1>1, <1>4
    <3>. HIDE DEF v
    <3>6. (IF id < counter + 1 THEN 1 ELSE 0) = Queued(id)' + v
      BY <1>2, <3>1, <3>2, <3>4
    <3>. QED
      BY <3>5, <3>6 DEF v
  <2>5. IdsConserved'
    BY <2>4 DEF IdsConserved, Queued
  <2>. QED
    BY <2>3, <2>5 DEF IdInv
<1>. QED
  BY <1>3, <1>4 DEF sessionIdManager

LEMMA LookupReplyKeeps ==
  ASSUME SessionInv, LookupReply
  PROVE  IdInv'
<1>0. IdInv /\ IdTypes /\ QueryTypes
  BY DEF SessionInv, IdInv
<1>1. /\ delete_req' = delete_req /\ finFifo' = finFifo /\ counter' = counter
      /\ update_req' = update_req /\ update_rsp' = update_rsp
      /\ revInserts' = revInserts /\ releases' = releases
      /\ reverseLookupTable' = reverseLookupTable /\ tupleValid' = tupleValid
  BY DEF LookupReply, reverseVars
<1>2. freeList \in Seq(SessionId) /\ insert_req \in Seq(Insertion)
  BY <1>0 DEF IdTypes
<1>. DEFINE r == [op |-> "INSERT", key |-> slc.query.tuple, value |-> Head(freeList)]
<1>3. CASE /\ freeList # <<>> /\ freeList' = Tail(freeList)
           /\ insert_req' = Append(insert_req, r)
  <2>1. slc.query.tuple \in threeTuple
    BY <1>0 DEF LookupReply, QueryTypes, LookupQuery
  <2>2. Head(freeList) \in SessionId /\ freeList' \in Seq(SessionId)
    BY <1>2, <1>3, Popped
  <2>3. r \in Insertion
    BY <2>1, <2>2 DEF Insertion
  <2>4. insert_req' \in Seq(Insertion)
    BY <1>2, <1>3, <2>3, AppendProperties
  <2>5. IdTypes'
    BY <1>0, <1>1, <2>2, <2>4 DEF IdTypes
  <2>6. ASSUME NEW id \in SessionId
        PROVE  Queued(id)' = Queued(id)
    <3>1. Head(freeList) \in {id} <=> r \in InsertionOf(id)
      BY <2>1 DEF InsertionOf
    <3>. HIDE DEF r
    <3>2. Count(freeList', {id}) + Count(insert_req', InsertionOf(id))
            = Count(freeList, {id}) + Count(insert_req, InsertionOf(id))
      BY <1>2, <1>3, <2>3, <3>1, Moved
    <3>3. Count(freeList', {id}) \in Nat /\ Count(insert_req', InsertionOf(id)) \in Nat
      BY <2>2, <2>4, PlacesFinite
    <3>4. InsertionOf(id)' = InsertionOf(id)
      BY DEF InsertionOf, threeTuple, Port
    <3>. QED
      BY <1>0, <1>1, <3>2, <3>3, <3>4, CountsNat DEF Queued
  <2>. QED
    BY <1>0, <1>1, <2>5, <2>6, ConservedNext
<1>4. CASE freeList' = freeList /\ insert_req' = insert_req
  BY <1>0, <1>1, <1>4, IdFrame DEF idState
<1>. QED
  BY <1>3, <1>4 DEF LookupReply, Remaining

LEMMA InsertReplyKeeps ==
  ASSUME SessionInv, InsertReply
  PROVE  IdInv'
<1>0. IdInv /\ IdTypes /\ QueryTypes
  BY DEF SessionInv, IdInv
<1>. DEFINE e == [key |-> Head(update_rsp).value, value |-> slc.query.tuple]
<1>1. /\ freeList' = freeList /\ finFifo' = finFifo /\ counter' = counter
      /\ insert_req' = insert_req /\ delete_req' = delete_req
      /\ update_req' = update_req /\ releases' = releases
      /\ reverseLookupTable' = reverseLookupTable /\ tupleValid' = tupleValid
      /\ update_rsp # <<>> /\ update_rsp' = Tail(update_rsp)
      /\ revInserts' = Append(revInserts, e)
  BY DEF InsertReply, idVars
<1>2. update_rsp \in Seq(Insertion) /\ revInserts \in Seq(ReverseEntry)
  BY <1>0 DEF IdTypes
<1>3. slc.query.tuple \in threeTuple
  BY <1>0 DEF InsertReply, QueryTypes, LookupQuery
<1>4. Head(update_rsp) \in Insertion /\ update_rsp' \in Seq(Insertion)
  BY <1>1, <1>2, Popped
<1>5. e \in ReverseEntry
  BY <1>3, <1>4 DEF Insertion, ReverseEntry
<1>6. revInserts' \in Seq(ReverseEntry)
  BY <1>1, <1>2, <1>5, AppendProperties
<1>7. IdTypes'
  BY <1>0, <1>1, <1>4, <1>6 DEF IdTypes
<1>8. ASSUME NEW id \in SessionId
      PROVE  Queued(id)' = Queued(id)
  <2>1. Head(update_rsp) \in InsertionOf(id) <=> e \in ReverseOf(id)
    BY <1>3, <1>4 DEF InsertionOf, ReverseOf, Insertion
  <2>. HIDE DEF e
  <2>2. Count(update_rsp', InsertionOf(id)) + Count(revInserts', ReverseOf(id))
          = Count(update_rsp, InsertionOf(id)) + Count(revInserts, ReverseOf(id))
    BY <1>1, <1>2, <1>5, <2>1, Moved
  <2>3. /\ Count(update_rsp', InsertionOf(id)) \in Nat
        /\ Count(revInserts', ReverseOf(id)) \in Nat
    BY <1>4, <1>6, PlacesFinite
  <2>4. /\ InsertionOf(id)' = InsertionOf(id) /\ ReverseOf(id)' = ReverseOf(id)
    BY DEF InsertionOf, ReverseOf, threeTuple, Port
  <2>5. /\ freeList' = freeList /\ finFifo' = finFifo
        /\ insert_req' = insert_req /\ delete_req' = delete_req
        /\ update_req' = update_req
    BY <1>1
  <2>. QED
    BY <1>0, <2>2, <2>3, <2>4, <2>5, CountsNat DEF Queued
<1>. QED
  BY <1>0, <1>1, <1>7, <1>8, ConservedNext

LEMMA UpdateSenderKeeps ==
  ASSUME SessionInv, updateRequestSender
  PROVE  IdInv'
<1>0. IdInv /\ IdTypes
  BY DEF SessionInv, IdInv
<1>1. /\ freeList' = freeList /\ counter' = counter
      /\ update_rsp' = update_rsp /\ revInserts' = revInserts
      /\ releases' = releases
      /\ reverseLookupTable' = reverseLookupTable /\ tupleValid' = tupleValid
  BY DEF updateRequestSender, reverseVars
<1>2. /\ insert_req \in Seq(Insertion) /\ delete_req \in Seq(Deletion)
      /\ update_req \in Seq(UpdateRequest) /\ finFifo \in Seq(SessionId)
  BY <1>0 DEF IdTypes
<1>3. CASE /\ insert_req # <<>> /\ insert_req' = Tail(insert_req)
           /\ update_req' = Append(update_req, Head(insert_req))
           /\ delete_req' = delete_req /\ finFifo' = finFifo
  <2>1. Head(insert_req) \in Insertion /\ insert_req' \in Seq(Insertion)
    BY <1>2, <1>3, Popped
  <2>2. Head(insert_req) \in UpdateRequest
    BY <2>1 DEF Insertion, UpdateRequest
  <2>3. update_req' \in Seq(UpdateRequest)
    BY <1>2, <1>3, <2>2, AppendProperties
  <2>4. IdTypes'
    BY <1>0, <1>1, <1>3, <2>1, <2>3 DEF IdTypes
  <2>5. ASSUME NEW id \in SessionId
        PROVE  Queued(id)' = Queued(id)
    <3>1. Count(insert_req', InsertionOf(id)) + Count(update_req', InsertionOf(id))
            = Count(insert_req, InsertionOf(id)) + Count(update_req, InsertionOf(id))
      <4>. DEFINE S == InsertionOf(id)
                  x == Head(insert_req)
      <4>1. insert_req # <<>> /\ (Head(insert_req) \in S <=> x \in S)
        BY <1>3
      <4>2. x \in UpdateRequest
        BY <2>2
      <4>. HIDE DEF S, x
      <4>3. Count(Tail(insert_req), S) + Count(Append(update_req, x), S)
              = Count(insert_req, S) + Count(update_req, S)
        BY <1>2, <4>1, <4>2, Moved
      <4>. QED
        BY <1>3, <4>3 DEF S, x
    <3>2. /\ Count(insert_req', InsertionOf(id)) \in Nat
          /\ Count(update_req', InsertionOf(id)) \in Nat
      BY <2>1, <2>3, PlacesFinite
    <3>3. InsertionOf(id)' = InsertionOf(id)
      BY DEF InsertionOf, threeTuple, Port
    <3>4. delete_req' = delete_req /\ finFifo' = finFifo
      BY <1>3
    <3>. QED
      BY <1>0, <1>1, <3>1, <3>2, <3>3, <3>4, CountsNat DEF Queued
  <2>. QED
    BY <1>0, <1>1, <2>4, <2>5, ConservedNext
<1>4. CASE /\ delete_req # <<>> /\ delete_req' = Tail(delete_req)
           /\ update_req' = Append(update_req, Head(delete_req))
           /\ finFifo' = finFifo \o Freed(Head(delete_req).value)
           /\ insert_req' = insert_req
  <2>. DEFINE v == Head(delete_req).value
  <2>1. Head(delete_req) \in Deletion /\ delete_req' \in Seq(Deletion)
    BY <1>2, <1>4, Popped
  <2>2. Head(delete_req) \in UpdateRequest /\ v \in SessionId
    BY <2>1 DEF Deletion, UpdateRequest
  <2>3. update_req' \in Seq(UpdateRequest)
    BY <1>2, <1>4, <2>2, AppendProperties
  <2>4. finFifo' = Append(finFifo, v)
    BY <1>2, <1>4, <2>2, AppendIsConcat DEF Freed
  <2>5. finFifo' \in Seq(SessionId)
    BY <1>2, <2>2, <2>4, AppendProperties
  <2>6. IdTypes'
    BY <1>0, <1>1, <1>4, <2>1, <2>3, <2>5 DEF IdTypes
  <2>7. ASSUME NEW id \in SessionId
        PROVE  Queued(id)' = Queued(id)
    <3>1. Head(delete_req) \in DeletionOf(id) <=> v \in {id}
      BY <2>1 DEF Deletion, DeletionOf
    <3>2. Head(delete_req) \notin InsertionOf(id)
      BY <2>1 DEF Deletion, InsertionOf
    <3>. HIDE DEF v
    <3>3. Count(delete_req', DeletionOf(id)) + Count(finFifo', {id})
            = Count(delete_req, DeletionOf(id)) + Count(finFifo, {id})
      <4>. DEFINE S == DeletionOf(id)
                  V == {id}
      <4>1. delete_req # <<>> /\ (Head(delete_req) \in S <=> v \in V)
        BY <1>4, <3>1
      <4>. HIDE DEF S, V
      <4>2. v \in SessionId
        BY <2>2
      <4>3. Count(Tail(delete_req), S) + Count(Append(finFifo, v), V)
              = Count(delete_req, S) + Count(finFifo, V)
        BY <1>2, <4>1, <4>2, Moved
      <4>. QED
        BY <1>4, <2>4, <4>3 DEF S, V
    <3>4. /\ Count(delete_req', DeletionOf(id)) \in Nat
          /\ Count(finFifo', {id}) \in Nat
      BY <2>1, <2>5, PlacesFinite
    <3>5. Count(update_req', InsertionOf(id)) = Count(update_req, InsertionOf(id))
      BY <1>2, <1>4, <2>2, <3>2, CountAppend
    <3>6. InsertionOf(id)' = InsertionOf(id) /\ DeletionOf(id)' = DeletionOf(id)
      BY DEF InsertionOf, DeletionOf, threeTuple, Port
    <3>7. insert_req' = insert_req
      BY <1>4
    <3>. QED
      BY <1>0, <1>1, <3>3, <3>4, <3>5, <3>6, <3>7, CountsNat DEF Queued
  <2>. QED
    BY <1>0, <1>1, <2>6, <2>7, ConservedNext
<1>. QED
  BY <1>3, <1>4 DEF updateRequestSender

LEMMA HashTableKeeps ==
  ASSUME SessionInv, hash_table
  PROVE  IdInv'
<1>0. IdInv /\ IdTypes
  BY DEF SessionInv, IdInv
<1>1. /\ freeList' = freeList /\ finFifo' = finFifo /\ counter' = counter
      /\ insert_req' = insert_req /\ delete_req' = delete_req
      /\ revInserts' = revInserts /\ releases' = releases
      /\ reverseLookupTable' = reverseLookupTable /\ tupleValid' = tupleValid
  BY DEF hash_table, reverseVars, idVars, updateVars
<1>2. update_req \in Seq(UpdateRequest) /\ update_rsp \in Seq(Insertion)
  BY <1>0 DEF IdTypes
<1>. DEFINE r == Head(update_req)
<1>3. CASE update_req' = update_req /\ update_rsp' = update_rsp
  BY <1>0, <1>1, <1>3, IdFrame DEF idState
<1>4. CASE /\ update_req # <<>> /\ update_req' = Tail(update_req)
           /\ update_rsp' = update_rsp \o updateReplyHandler(r)
  <2>1. r \in UpdateRequest /\ update_req' \in Seq(UpdateRequest)
    BY <1>2, <1>4, Popped
  <2>. HIDE DEF r
  <2>2. CASE r.op = "INSERT"
    <3>1. r \in Insertion
      BY <2>1, <2>2 DEF UpdateRequest, Insertion
    <3>2. update_rsp' = Append(update_rsp, r)
      BY <1>2, <1>4, <2>2, <3>1, AppendIsConcat DEF updateReplyHandler
    <3>3. update_rsp' \in Seq(Insertion)
      BY <1>2, <3>1, <3>2, AppendProperties
    <3>4. IdTypes'
      BY <1>0, <1>1, <2>1, <3>3 DEF IdTypes
    <3>5. ASSUME NEW id \in SessionId
          PROVE  Queued(id)' = Queued(id)
      <4>1. Count(update_req', InsertionOf(id)) + Count(update_rsp', InsertionOf(id))
              = Count(update_req, InsertionOf(id)) + Count(update_rsp, InsertionOf(id))
        <5>. DEFINE S == InsertionOf(id)
        <5>1. update_req # <<>> /\ (Head(update_req) \in S <=> r \in S)
          BY <1>4 DEF r
        <5>. HIDE DEF S
        <5>2. Count(Tail(update_req), S) + Count(Append(update_rsp, r), S)
                = Count(update_req, S) + Count(update_rsp, S)
          BY <1>2, <3>1, <5>1, Moved
        <5>. QED
          BY <1>4, <3>2, <5>2 DEF S
      <4>2. /\ Count(update_req', InsertionOf(id)) \in Nat
            /\ Count(update_rsp', InsertionOf(id)) \in Nat
        BY <2>1, <3>3, PlacesFinite
      <4>3. InsertionOf(id)' = InsertionOf(id)
        BY DEF InsertionOf, threeTuple, Port
      <4>. QED
        BY <1>0, <1>1, <4>1, <4>2, <4>3, CountsNat DEF Queued
    <3>. QED
      BY <1>0, <1>1, <3>4, <3>5, ConservedNext
  <2>3. CASE r.op # "INSERT"
    <3>1. update_rsp' = update_rsp
      BY <1>2, <1>4, <2>3, ConcatEmptySeq DEF updateReplyHandler
    <3>2. IdTypes'
      BY <1>0, <1>1, <2>1, <3>1 DEF IdTypes
    <3>3. ASSUME NEW id \in SessionId
          PROVE  Queued(id)' = Queued(id)
      <4>1. r \notin InsertionOf(id)
        BY <2>3 DEF InsertionOf
      <4>2. Count(update_req', InsertionOf(id)) = Count(update_req, InsertionOf(id))
        BY <1>2, <1>4, <4>1, CountTail DEF r
      <4>3. InsertionOf(id)' = InsertionOf(id)
        BY DEF InsertionOf, threeTuple, Port
      <4>. QED
        BY <1>0, <1>1, <3>1, <4>2, <4>3, CountsNat DEF Queued
    <3>. QED
      BY <1>0, <1>1, <3>2, <3>3, ConservedNext
  <2>. QED
    BY <2>2, <2>3
<1>. QED
  BY <1>3, <1>4 DEF hash_table, lookupVars, updateVars

(* The number of a reverse entry that is stored: it was not valid before.  *)
LEMMA ReverseInsertKeeps ==
  ASSUME SessionInv, revInserts # <<>>, revInserts' = Tail(revInserts),
         reverseLookupTable' =
           [x \in DOMAIN reverseLookupTable \cup {Head(revInserts).key} |->
              IF x = Head(revInserts).key THEN Head(revInserts).value
              ELSE reverseLookupTable[x]],
         tupleValid' = [tupleValid EXCEPT ![Head(revInserts).key] = TRUE],
         UNCHANGED <<freeList, finFifo, counter, insert_req, delete_req,
                     update_req, update_rsp, releases>>
  PROVE  IdInv'
<1>0. IdInv /\ IdTypes
  BY DEF SessionInv, IdInv
<1>. DEFINE e == Head(revInserts)
<1>1. revInserts \in Seq(ReverseEntry) /\ tupleValid \in [SessionId -> BOOLEAN]
  BY <1>0 DEF IdTypes
<1>2. e \in ReverseEntry /\ revInserts' \in Seq(ReverseEntry)
  BY <1>1, Popped
<1>3. e.key \in SessionId /\ e.value \in threeTuple
  BY <1>2 DEF ReverseEntry
<1>4. /\ tupleValid' \in [SessionId -> BOOLEAN] /\ tupleValid'[e.key] = TRUE
      /\ \A id \in SessionId : id # e.key => tupleValid'[id] = tupleValid[id]
  BY <1>1, <1>3
<1>5. /\ DOMAIN reverseLookupTable' = DOMAIN reverseLookupTable \cup {e.key}
      /\ DOMAIN reverseLookupTable' \subseteq SessionId
      /\ \A id \in DOMAIN reverseLookupTable' : reverseLookupTable'[id] \in threeTuple
  BY <1>0, <1>3 DEF IdTypes
<1>6. \A id \in SessionId : tupleValid'[id] => id \in DOMAIN reverseLookupTable'
  BY <1>0, <1>4, <1>5 DEF IdTypes
<1>7. /\ freeList' = freeList /\ finFifo' = finFifo /\ counter' = counter
      /\ insert_req' = insert_req /\ delete_req' = delete_req
      /\ update_req' = update_req /\ update_rsp' = update_rsp
      /\ releases' = releases
  OBVIOUS
<1>8. IdTypes'
  BY <1>0, <1>2, <1>4, <1>5, <1>6, <1>7 DEF IdTypes
<1>9. ASSUME NEW id \in SessionId
      PROVE  (IF id < counter' THEN 1 ELSE 0)
               = Queued(id)' + (IF tupleValid'[id] THEN 1 ELSE 0)
  <2>. DEFINE b == IF id < counter THEN 1 ELSE 0
  <2>1. b = Queued(id) + (IF tupleValid[id] THEN 1 ELSE 0) /\ b \in {0, 1}
    BY <1>0, Conserved DEF IdInv
  <2>. HIDE DEF b
  <2>2. e \in ReverseOf(id) <=> e.key = id
    BY <1>2, <1>3 DEF ReverseOf, ReverseEntry
  <2>3. /\ e.key = id =>
             Count(revInserts, ReverseOf(id)) = Count(revInserts', ReverseOf(id)) + 1
        /\ e.key # id =>
             Count(revInserts, ReverseOf(id)) = Count(revInserts', ReverseOf(id))
    <3>. DEFINE S == ReverseOf(id)
    <3>. HIDE DEF S
    <3>1. /\ e \in S => Count(revInserts, S) = Count(Tail(revInserts), S) + 1
          /\ e \notin S => Count(revInserts, S) = Count(Tail(revInserts), S)
      BY <1>1, CountTail
    <3>. QED
      BY <2>2, <3>1 DEF S
  <2>4. Count(revInserts', ReverseOf(id)) \in Nat
    BY <1>2, PlacesFinite
  <2>5. ReverseOf(id)' = ReverseOf(id) /\ InsertionOf(id)' = InsertionOf(id)
        /\ DeletionOf(id)' = DeletionOf(id)
    BY DEF ReverseOf, InsertionOf, DeletionOf, threeTuple, Port
  <2>6. /\ e.key = id => Queued(id) = Queued(id)' + 1
        /\ e.key # id => Queued(id)' = Queued(id)
        /\ Queued(id)' \in Nat /\ Queued(id) \in Nat
    <3>. HIDE DEF e
    <3>1. /\ Count(freeList, {id}) \in Nat /\ Count(finFifo, {id}) \in Nat
          /\ Count(insert_req, InsertionOf(id)) \in Nat
          /\ Count(delete_req, DeletionOf(id)) \in Nat
          /\ Count(update_req, InsertionOf(id)) \in Nat
          /\ Count(update_rsp, InsertionOf(id)) \in Nat
          /\ Count(revInserts, ReverseOf(id)) \in Nat /\ Queued(id) \in Nat
      BY <1>0, CountsNat
    <3>. DEFINE others ==
                  Count(freeList, {id}) + Count(finFifo, {id})
                  + Count(insert_req, InsertionOf(id))
                  + Count(delete_req, DeletionOf(id))
                  + Count(update_req, InsertionOf(id))
                  + Count(update_rsp, InsertionOf(id))
                here == Count(revInserts, ReverseOf(id))
                left == Count(revInserts', ReverseOf(id))
    <3>2. others \in Nat /\ here \in Nat /\ left \in Nat
      <4>1. \A i, j, k, l, m, n \in Nat : i + j + k + l + m + n \in Nat
        OBVIOUS
      <4>2. others \in Nat
        BY <3>1, <4>1, Zenon
      <4>. QED
        BY <2>4, <3>1, <4>2, Zenon
    <3>3. Queued(id) = others + here /\ Queued(id)' = others + left
      BY <1>7, <2>5 DEF Queued
    <3>4. /\ e.key = id => here = left + 1
          /\ e.key # id => here = left
      BY <2>3
    <3>. HIDE DEF others, here, left
    <3>. QED
      BY <3>2, <3>3, <3>4
  <2>7. CASE e.key = id
    <3>1. tupleValid'[id] = TRUE
      BY <1>4, <2>7
    <3>2. ~tupleValid[id]
      BY <2>1, <2>6, <2>7
    <3>3. b = Queued(id)' + 1
      BY <2>1, <2>6, <2>7, <3>2
    <3>. QED
      BY <1>7, <3>1, <3>3 DEF b
  <2>8. CASE e.key # id
    BY <1>4, <1>7, <2>1, <2>6, <2>8 DEF b
  <2>. QED
    BY <2>7, <2>8
<1>10. IdsConserved'
  BY <1>9 DEF IdsConserved, Queued
<1>. QED
  BY <1>8, <1>10 DEF IdInv

(* A release of a session that is valid, or of one that is not any more.   *)
LEMMA ReleaseKeeps ==
  ASSUME SessionInv, releases # <<>>, releases' = Tail(releases),
         IF Releasable(Head(releases))
         THEN delete_req' = Append(delete_req,
                [op |-> "DELETE", key |-> reverseLookupTable[Head(releases)],
                 value |-> Head(releases)])
         ELSE delete_req' = delete_req,
         tupleValid' = [tupleValid EXCEPT ![Head(releases)] = FALSE],
         UNCHANGED <<freeList, finFifo, counter, insert_req, update_req,
                     update_rsp, revInserts, reverseLookupTable>>
  PROVE  IdInv'
<1>0. IdInv /\ IdTypes
  BY DEF SessionInv, IdInv
<1>. DEFINE d == Head(releases)
            r == [op |-> "DELETE", key |-> reverseLookupTable[d], value |-> d]
<1>1. /\ releases \in Seq(SessionId) /\ tupleValid \in [SessionId -> BOOLEAN]
      /\ delete_req \in Seq(Deletion)
  BY <1>0 DEF IdTypes
<1>2. d \in SessionId /\ releases' \in Seq(SessionId)
  BY <1>1, Popped
<1>3. /\ tupleValid' \in [SessionId -> BOOLEAN] /\ tupleValid'[d] = FALSE
      /\ \A id \in SessionId : id # d => tupleValid'[id] = tupleValid[id]
  BY <1>1, <1>2
<1>4. tupleValid[d] => r \in Deletion
  BY <1>0, <1>2 DEF IdTypes, Deletion
<1>5. /\ tupleValid[d] => delete_req' = Append(delete_req, r)
      /\ ~tupleValid[d] => delete_req' = delete_req
  BY DEF Releasable
<1>6. delete_req' \in Seq(Deletion)
  <2>1. r \in Deletion => Append(delete_req, r) \in Seq(Deletion)
    BY <1>1, AppendProperties
  <2>. HIDE DEF r, d
  <2>. QED
    BY <1>1, <1>4, <1>5, <2>1
<1>7. /\ freeList' = freeList /\ finFifo' = finFifo /\ counter' = counter
      /\ insert_req' = insert_req /\ revInserts' = revInserts
      /\ update_req' = update_req /\ update_rsp' = update_rsp
      /\ reverseLookupTable' = reverseLookupTable
  OBVIOUS
<1>8. IdTypes'
  <2>1. \A id \in SessionId : tupleValid'[id] => id \in DOMAIN reverseLookupTable
    BY <1>0, <1>3 DEF IdTypes
  <2>. QED
    BY <1>0, <1>2, <1>3, <1>6, <1>7, <2>1 DEF IdTypes
<1>9. ASSUME NEW id \in SessionId
      PROVE  (IF id < counter' THEN 1 ELSE 0)
               = Queued(id)' + (IF tupleValid'[id] THEN 1 ELSE 0)
  <2>. DEFINE b == IF id < counter THEN 1 ELSE 0
  <2>1. b = Queued(id) + (IF tupleValid[id] THEN 1 ELSE 0) /\ b \in {0, 1}
    BY <1>0, Conserved DEF IdInv
  <2>. HIDE DEF b
  <2>2. tupleValid[d] => (r \in DeletionOf(id) <=> d = id)
    BY <1>4 DEF DeletionOf, Deletion
  <2>. HIDE DEF r
  <2>3. /\ tupleValid[d] /\ d = id =>
             Count(delete_req', DeletionOf(id)) = Count(delete_req, DeletionOf(id)) + 1
        /\ ~(tupleValid[d] /\ d = id) =>
             Count(delete_req', DeletionOf(id)) = Count(delete_req, DeletionOf(id))
    <3>. DEFINE S == DeletionOf(id)
    <3>. HIDE DEF S
    <3>1. tupleValid[d] =>
            /\ r \in S => Count(Append(delete_req, r), S) = Count(delete_req, S) + 1
            /\ r \notin S => Count(Append(delete_req, r), S) = Count(delete_req, S)
      BY <1>1, <1>4, CountAppend
    <3>. QED
      BY <1>5, <2>2, <3>1 DEF S
  <2>4. Count(delete_req', DeletionOf(id)) \in Nat
    BY <1>6, PlacesFinite
  <2>5. ReverseOf(id)' = ReverseOf(id) /\ InsertionOf(id)' = InsertionOf(id)
        /\ DeletionOf(id)' = DeletionOf(id)
    BY DEF ReverseOf, InsertionOf, DeletionOf, threeTuple, Port
  <2>6. /\ tupleValid[d] /\ d = id => Queued(id)' = Queued(id) + 1
        /\ ~(tupleValid[d] /\ d = id) => Queued(id)' = Queued(id)
        /\ Queued(id)' \in Nat /\ Queued(id) \in Nat
    <3>. DEFINE given == tupleValid[d] /\ d = id
    <3>. HIDE DEF d, given
    <3>1. /\ Count(freeList, {id}) \in Nat /\ Count(finFifo, {id}) \in Nat
          /\ Count(insert_req, InsertionOf(id)) \in Nat
          /\ Count(delete_req, DeletionOf(id)) \in Nat
          /\ Count(update_req, InsertionOf(id)) \in Nat
          /\ Count(update_rsp, InsertionOf(id)) \in Nat
          /\ Count(revInserts, ReverseOf(id)) \in Nat /\ Queued(id) \in Nat
      BY <1>0, CountsNat
    <3>2. given => Queued(id)' = Queued(id) + 1
      <4>1. given => Count(delete_req', DeletionOf(id)) = Count(delete_req, DeletionOf(id)) + 1
        BY <2>3 DEF given
      <4>. DEFINE c == Count(delete_req, DeletionOf(id))
                  k == Count(update_req, InsertionOf(id))
                  m == Count(freeList, {id}) + Count(finFifo, {id})
                       + Count(insert_req, InsertionOf(id))
                  u == Count(update_rsp, InsertionOf(id))
                  w == Count(revInserts, ReverseOf(id))
      <4>2. Queued(id) = m + c + k + u + w
        BY DEF Queued
      <4>3. Queued(id)' = m + Count(delete_req', DeletionOf(id)) + k + u + w
        BY <1>7, <2>5 DEF Queued
      <4>4. m \in Nat /\ c \in Nat /\ k \in Nat /\ u \in Nat /\ w \in Nat
        BY <3>1
      <4>. HIDE DEF m, c, k, u, w
      <4>5. given => Count(delete_req', DeletionOf(id)) = c + 1
        BY <4>1 DEF c
      <4>. QED
        BY <4>2, <4>3, <4>4, <4>5
    <3>3. ~given => Queued(id)' = Queued(id)
      <4>1. ~given => Count(delete_req', DeletionOf(id)) = Count(delete_req, DeletionOf(id))
        BY <2>3 DEF given
      <4>. QED
        BY <1>7, <2>5, <4>1 DEF Queued
    <3>4. Queued(id)' \in Nat
      BY <3>1, <3>2, <3>3
    <3>. QED
      BY <3>1, <3>2, <3>3, <3>4 DEF given
  <2>7. CASE d = id
    <3>1. tupleValid'[id] = FALSE
      BY <1>3, <2>7
    <3>2. b = Queued(id)'
      BY <2>1, <2>6, <2>7
    <3>3. Queued(id)' + 0 = b
      BY <2>6, <3>2
    <3>. QED
      BY <1>7, <3>1, <3>3 DEF b
  <2>8. CASE d # id
    BY <1>3, <1>7, <2>1, <2>6, <2>8 DEF b
  <2>. QED
    BY <2>7, <2>8
<1>10. IdsConserved'
  BY <1>9 DEF IdsConserved, Queued
<1>. QED
  BY <1>8, <1>10 DEF IdInv

LEMMA ReverseTableKeeps ==
  ASSUME SessionInv, reverseLookupTableInterface
  PROVE  IdInv'
BY ReverseInsertKeeps, ReleaseKeeps DEF reverseLookupTableInterface, idVars

(* A release is asked for, once or twice.                                  *)
LEMMA ReleaseSessionKeeps ==
  ASSUME SessionInv, NEW id \in SessionId, NEW times \in 1 .. 2,
         ReleaseSession(id, times)
  PROVE  IdInv'
<1>0. IdInv /\ IdTypes
  BY DEF SessionInv, IdInv
<1>. DEFINE t == [i \in 1 .. times |-> id]
<1>1. t \in Seq(SessionId)
  BY SeqDef
<1>2. releases \in Seq(SessionId) /\ releases' = releases \o t
  BY <1>0 DEF IdTypes, ReleaseSession
<1>. HIDE DEF t
<1>3. releases' \in Seq(SessionId)
  BY <1>1, <1>2, ConcatProperties
<1>4. /\ freeList' = freeList /\ finFifo' = finFifo /\ counter' = counter
      /\ insert_req' = insert_req /\ delete_req' = delete_req
      /\ revInserts' = revInserts /\ tupleValid' = tupleValid
      /\ update_req' = update_req /\ update_rsp' = update_rsp
      /\ reverseLookupTable' = reverseLookupTable
  BY DEF ReleaseSession, idVars, updateVars
<1>5. IdTypes'
  BY <1>0, <1>3, <1>4 DEF IdTypes
<1>6. IdsConserved'
  BY <1>0, <1>4 DEF IdInv, IdsConserved, InsertionOf, DeletionOf, ReverseOf
<1>. QED
  BY <1>5, <1>6 DEF IdInv

(***************************************************************************)
(* The lookups                                                             *)
(***************************************************************************)
LEMMA QueryFrame ==
  ASSUME QueryTypes, UNCHANGED <<slc, txApp_req, rxEng_req, freePorts>>
  PROVE  QueryTypes'
BY DEF QueryTypes, LookupQuery, threeTuple

LEMMA TupleOfPort ==
  ASSUME NEW server \in Server, NEW p \in Port
  PROVE  <<server, swapped(p)>> \in threeTuple
BY DEF threeTuple, swapped, Port

LEMMA LookupRequestTypes ==
  ASSUME QueryTypes, LookupRequest
  PROVE  QueryTypes'
<1>0. /\ txApp_req \in Seq(LookupQuery) /\ rxEng_req \in Seq(LookupQuery)
      /\ freePorts \in Seq(Port) /\ freePorts' = freePorts
  BY DEF QueryTypes, LookupRequest, portVars
<1>1. CASE txApp_req # <<>>
  <2>1. Head(txApp_req) \in LookupQuery /\ Tail(txApp_req) \in Seq(LookupQuery)
    BY <1>0, <1>1, Popped
  <2>2. /\ slc' = [state |-> "LUP_RSP", query |-> Head(txApp_req)]
        /\ txApp_req' = Tail(txApp_req) /\ rxEng_req' = rxEng_req
    BY <1>1 DEF LookupRequest
  <2>. QED
    BY <1>0, <2>1, <2>2 DEF QueryTypes
<1>2. CASE txApp_req = <<>>
  <2>0. rxEng_req # <<>>
    BY <1>2 DEF LookupRequest
  <2>1. Head(rxEng_req) \in LookupQuery /\ Tail(rxEng_req) \in Seq(LookupQuery)
    BY <1>0, <2>0, Popped
  <2>2. /\ slc' = [state |-> "LUP_RSP", query |-> Head(rxEng_req)]
        /\ rxEng_req' = Tail(rxEng_req) /\ txApp_req' = txApp_req
    BY <1>2 DEF LookupRequest
  <2>. QED
    BY <1>0, <2>1, <2>2 DEF QueryTypes
<1>. QED
  BY <1>1, <1>2

LEMMA LookupReplyTypes ==
  ASSUME QueryTypes, LookupReply
  PROVE  QueryTypes'
<1>1. UNCHANGED <<txApp_req, rxEng_req, freePorts>>
  BY DEF LookupReply, portVars
<1>2. slc \in [state : {"LUP_RSP", "UPD_RSP"}, query : LookupQuery]
  BY DEF LookupReply, QueryTypes
<1>3. \/ slc' = [slc EXCEPT !.state = "UPD_RSP"]
      \/ slc' = [state |-> "LUP_REQ"]
  BY DEF LookupReply
<1>. QED
  BY <1>1, <1>2, <1>3 DEF QueryTypes

LEMMA InsertReplyTypes ==
  ASSUME QueryTypes, InsertReply
  PROVE  QueryTypes'
BY DEF InsertReply, QueryTypes, portVars

LEMMA AppOpenTypes ==
  ASSUME QueryTypes, NEW server \in Server, AppOpen(server)
  PROVE  QueryTypes'
<1>. DEFINE q == [tuple |-> <<server, swapped(Head(freePorts))>>,
                  allowCreation |-> TRUE, source |-> "TX_APP"]
<1>1. /\ txApp_req \in Seq(LookupQuery) /\ freePorts \in Seq(Port)
      /\ freePorts # <<>> /\ freePorts' = Tail(freePorts)
      /\ txApp_req' = Append(txApp_req, q)
      /\ slc' = slc /\ rxEng_req' = rxEng_req
  BY DEF QueryTypes, AppOpen
<1>2. Head(freePorts) \in Port /\ freePorts' \in Seq(Port)
  BY <1>1, Popped
<1>3. <<server, swapped(Head(freePorts))>> \in threeTuple
  BY <1>2, TupleOfPort
<1>4. q \in LookupQuery
  BY <1>3 DEF LookupQuery
<1>. HIDE DEF q
<1>5. txApp_req' \in Seq(LookupQuery)
  BY <1>1, <1>4, AppendProperties
<1>. QED
  BY <1>1, <1>2, <1>5 DEF QueryTypes

LEMMA HandOutTypes ==
  ASSUME QueryTypes, NEW p \in Port, HandOut(p)
  PROVE  QueryTypes'
<1>1. freePorts \in Seq(Port) /\ freePorts' = Append(freePorts, p)
  BY DEF QueryTypes, HandOut
<1>2. freePorts' \in Seq(Port)
  BY <1>1, AppendProperties
<1>. QED
  BY <1>2 DEF QueryTypes, HandOut, lookupVars

LEMMA RxQueryTypes ==
  ASSUME QueryTypes, CheckTypes, NEW server \in Server, NEW b \in BOOLEAN,
         RxQuery(server, b)
  PROVE  QueryTypes'
<1>1. PICK c \in lastCheck :
        rxEng_req' = IF c.answer
                     THEN Append(rxEng_req, [tuple |-> <<server, swapped(c.asked.port)>>,
                                             allowCreation |-> b, source |-> "RX"])
                     ELSE rxEng_req
  BY DEF RxQuery
<1>. DEFINE q == [tuple |-> <<server, swapped(c.asked.port)>>,
                  allowCreation |-> b, source |-> "RX"]
<1>2. c.asked.port \in Port
  BY DEF CheckTypes, PortCheck
<1>3. <<server, swapped(c.asked.port)>> \in threeTuple
  BY <1>2, TupleOfPort
<1>4. q \in LookupQuery
  BY <1>3 DEF LookupQuery
<1>5. rxEng_req \in Seq(LookupQuery)
  BY DEF QueryTypes
<1>. HIDE DEF q
<1>6. Append(rxEng_req, q) \in Seq(LookupQuery)
  BY <1>4, <1>5, AppendProperties
<1>7. rxEng_req' \in Seq(LookupQuery)
  BY <1>1, <1>5, <1>6 DEF q
<1>. QED
  BY <1>7 DEF QueryTypes, RxQuery, portVars

(***************************************************************************)
(* The checks of ports                                                     *)
(***************************************************************************)
LEMMA CheckFrame ==
  ASSUME CheckInv,
         UNCHANGED <<asked, dstFifo, listenCheck, listenAnswer, lastCheck,
                     listeningPortTable>>
  PROVE  CheckInv'
<1>1. PICK f \in [1 .. Len(listenAnswer) + Len(listenCheck) -> 1 .. Len(asked)] : InOrder(f)
  BY DEF CheckInv
<1>2. InOrder(f)'
  BY <1>1 DEF InOrder, RightAnswer
<1>3. CheckTypes' /\ CheckAnswersInOrder'
  BY DEF CheckInv, CheckTypes, CheckAnswersInOrder
<1>4. \E g \in [1 .. Len(listenAnswer') + Len(listenCheck') -> 1 .. Len(asked')] : InOrder(g)'
  BY <1>1, <1>2
<1>. QED
  BY <1>3, <1>4 DEF CheckInv

(* What the listening table is asked for, and whether the ports checked    *)
(* were listened on.                                                       *)
Sorted ==
  \A i \in 1 .. Len(asked) :
    /\ dstFifo[i] = "LT" <=> ~High(asked[i].port)
    /\ asked[i].listening => asked[i].port \in listeningPortTable

(* The listening table only grows.                                         *)
LEMMA ListenKeeps ==
  ASSUME CheckInv, NEW p \in Port, Listen(p)
  PROVE  CheckInv'
<1>0. /\ CheckTypes /\ Len(dstFifo) = Len(asked) /\ Sorted /\ CheckAnswersInOrder
  BY DEF CheckInv, Sorted
<1>1. UNCHANGED <<asked, dstFifo, listenCheck, listenAnswer, lastCheck>>
  BY DEF Listen, checkVars
<1>2. \A q : q \in listeningPortTable => q \in listeningPortTable'
  BY DEF Listen
<1>3. CheckTypes'
  BY <1>0, <1>1 DEF CheckTypes
<1>4. Sorted' /\ Len(dstFifo)' = Len(asked)'
  BY <1>0, <1>1, <1>2 DEF Sorted
<1>5. PICK f \in [1 .. Len(listenAnswer) + Len(listenCheck) -> 1 .. Len(asked)] : InOrder(f)
  BY DEF CheckInv
<1>6. InOrder(f)'
  <2>1. \A a, answer : RightAnswer(a, answer) => RightAnswer(a, answer)'
    BY <1>2 DEF RightAnswer
  <2>. QED
    BY <1>1, <1>5, <2>1 DEF InOrder
<1>7. CheckAnswersInOrder'
  BY <1>0, <1>1, <1>2 DEF CheckAnswersInOrder
<1>8. \E g \in [1 .. Len(listenAnswer') + Len(listenCheck') -> 1 .. Len(asked')] : InOrder(g)'
  BY <1>1, <1>5, <1>6
<1>. QED
  BY <1>3, <1>4, <1>7, <1>8 DEF CheckInv, Sorted

(* The RX engine reads the answer.                                         *)
LEMMA RxQueryKeeps ==
  ASSUME CheckInv, NEW server, NEW b, RxQuery(server, b)
  PROVE  CheckInv'
<1>1. /\ UNCHANGED <<asked, dstFifo, listenCheck, listenAnswer, listeningPortTable>>
      /\ lastCheck' = {}
  BY DEF RxQuery, portVars
<1>2. CheckTypes' /\ CheckAnswersInOrder'
  BY <1>1 DEF CheckInv, CheckTypes, CheckAnswersInOrder
<1>3. PICK f \in [1 .. Len(listenAnswer) + Len(listenCheck) -> 1 .. Len(asked)] : InOrder(f)
  BY DEF CheckInv
<1>4. InOrder(f)'
  BY <1>1, <1>3 DEF InOrder, RightAnswer
<1>5. \E g \in [1 .. Len(listenAnswer') + Len(listenCheck') -> 1 .. Len(asked')] : InOrder(g)'
  BY <1>1, <1>3, <1>4
<1>. QED
  BY <1>1, <1>2, <1>5 DEF CheckInv

(* The listening table answers a check: its place in the order is kept.    *)
LEMMA CheckListeningKeeps ==
  ASSUME CheckInv, CheckListening
  PROVE  CheckInv'
<1>0. /\ CheckTypes /\ Len(dstFifo) = Len(asked) /\ Sorted /\ CheckAnswersInOrder
  BY DEF CheckInv, Sorted
<1>. DEFINE a == Len(listenAnswer)
            c == Len(listenCheck)
            n == Len(listenAnswer) + Len(listenCheck)
            ok == Head(listenCheck) \in listeningPortTable
<1>1. /\ UNCHANGED <<asked, dstFifo, lastCheck, listeningPortTable>>
      /\ listenCheck # <<>> /\ listenCheck' = Tail(listenCheck)
      /\ listenAnswer' = Append(listenAnswer, ok)
  BY DEF CheckListening, portVars
<1>2. listenCheck \in Seq(Port) /\ listenAnswer \in Seq(BOOLEAN)
  BY <1>0 DEF CheckTypes
<1>3. /\ c \in Nat \ {0} /\ Head(listenCheck) = listenCheck[1]
      /\ listenCheck' \in Seq(Port) /\ Len(listenCheck') = c - 1
      /\ \A i \in 1 .. c - 1 : listenCheck'[i] = listenCheck[i + 1]
  BY <1>1, <1>2, Popped
<1>4. /\ a \in Nat /\ listenAnswer' \in Seq(BOOLEAN) /\ Len(listenAnswer') = a + 1
      /\ (\A i \in 1 .. a : listenAnswer'[i] = listenAnswer[i])
      /\ listenAnswer'[a + 1] = ok
  <2>1. ok \in BOOLEAN
    OBVIOUS
  <2>. HIDE DEF ok
  <2>. QED
    BY <1>1, <1>2, <2>1, AppendProperties
<1>5. CheckTypes' /\ Sorted' /\ CheckAnswersInOrder'
  BY <1>0, <1>1, <1>3, <1>4 DEF CheckTypes, Sorted, CheckAnswersInOrder
<1>6. PICK f \in [1 .. n -> 1 .. Len(asked)] : InOrder(f)
  BY DEF CheckInv
<1>7. /\ \A j, k \in 1 .. n : j < k => f[j] < f[k]
      /\ \A k \in 1 .. n : dstFifo[f[k]] = "LT"
      /\ \A i \in 1 .. Len(asked) : dstFifo[i] = "LT" => \E k \in 1 .. n : f[k] = i
      /\ \A k \in 1 .. a : RightAnswer(asked[f[k]], listenAnswer[k])
      /\ \A k \in 1 .. n : k > a => listenCheck[k - a] = asked[f[k]].port
  BY <1>6 DEF InOrder
<1>8. n = a + c
  OBVIOUS
<1>. HIDE DEF a, c, n
<1>9. Len(listenAnswer') + Len(listenCheck') = n
  BY <1>3, <1>4, <1>8
<1>10. ASSUME NEW k \in 1 .. a + 1
       PROVE  RightAnswer(asked[f[k]], listenAnswer'[k])
  <2>1. CASE k = a + 1
    <3>1. k \in 1 .. n /\ k > a /\ k - a = 1
      BY <1>3, <1>4, <1>8, <2>1
    <3>2. listenCheck[1] = asked[f[k]].port
      BY <1>7, <3>1
    <3>3. f[k] \in 1 .. Len(asked)
      BY <1>6, <3>1
    <3>4. asked[f[k]].listening => asked[f[k]].port \in listeningPortTable
      BY <1>0, <3>3 DEF Sorted
    <3>5. listenAnswer'[k] = (asked[f[k]].port \in listeningPortTable)
      BY <1>3, <1>4, <2>1, <3>2
    <3>. QED
      BY <3>4, <3>5 DEF RightAnswer
  <2>2. CASE k # a + 1
    <3>1. k \in 1 .. a
      BY <1>4, <2>2
    <3>. QED
      BY <1>4, <1>7, <3>1
  <2>. QED
    BY <2>1, <2>2
<1>11. ASSUME NEW k \in 1 .. n, k > a + 1
       PROVE  listenCheck'[k - (a + 1)] = asked[f[k]].port
  <2>. DEFINE i == k - (a + 1)
  <2>1. i \in 1 .. c - 1 /\ i + 1 = k - a /\ k > a
    BY <1>3, <1>4, <1>8, <1>11
  <2>2. listenCheck'[i] = listenCheck[i + 1]
    BY <1>3, <2>1
  <2>3. listenCheck[k - a] = asked[f[k]].port
    BY <1>7, <2>1
  <2>. QED
    BY <2>1, <2>2, <2>3
<1>12. InOrder(f)'
  <2>1. /\ Len(listenAnswer)' = a + 1 /\ Len(listenAnswer)' + Len(listenCheck)' = n
    BY <1>4, <1>9
  <2>2. \A x, y : RightAnswer(x, y)' <=> RightAnswer(x, y)
    BY <1>1 DEF RightAnswer
  <2>3. /\ \A j, k \in 1 .. n : j < k => f[j] < f[k]
        /\ \A k \in 1 .. n : dstFifo'[f[k]] = "LT"
        /\ \A i \in 1 .. Len(asked') : dstFifo'[i] = "LT" => \E k \in 1 .. n : f[k] = i
    BY <1>1, <1>7
  <2>4. \A k \in 1 .. a + 1 : RightAnswer(asked[f[k]], listenAnswer[k])'
    BY <1>1, <1>10, <2>2
  <2>5. \A k \in 1 .. n : k > a + 1 => listenCheck'[k - (a + 1)] = asked'[f[k]].port
    BY <1>1, <1>11
  <2>. QED
    BY <2>1, <2>3, <2>4, <2>5 DEF InOrder
<1>13. f \in [1 .. Len(listenAnswer') + Len(listenCheck') -> 1 .. Len(asked')]
  BY <1>1, <1>6, <1>9
<1>. QED
  BY <1>0, <1>1, <1>5, <1>12, <1>13 DEF CheckInv, Sorted

(* A check joins the queue of all checks, and perhaps that of the          *)
(* listening table.                                                        *)
LEMMA RxCheckKeeps ==
  ASSUME CheckInv, NEW p \in SegmentPort, RxCheck(p)
  PROVE  CheckInv'
<1>0. /\ CheckTypes /\ Len(dstFifo) = Len(asked) /\ Sorted /\ CheckAnswersInOrder
  BY DEF CheckInv, Sorted
<1>. DEFINE a == Len(listenAnswer)
            c == Len(listenCheck)
            n == Len(listenAnswer) + Len(listenCheck)
            m == Len(asked)
            r == [port |-> p, listening |-> p \in listeningPortTable]
            d == IF High(p) THEN "FT" ELSE "LT"
<1>1. p \in Port /\ swappedCheckPort(swapped(p)) = p
  BY SessionsInstance DEF Port, swappedCheckPort, swapped
<1>2. /\ UNCHANGED <<listenAnswer, lastCheck, listeningPortTable>>
      /\ asked' = Append(asked, r) /\ dstFifo' = Append(dstFifo, d)
      /\ High(p) => listenCheck' = listenCheck
      /\ ~High(p) => listenCheck' = Append(listenCheck, p)
  BY <1>1 DEF RxCheck, check_in_multiplexer, portVars
<1>3. /\ asked \in Seq(PortCheck) /\ dstFifo \in Seq({"LT", "FT"})
      /\ listenCheck \in Seq(Port) /\ listenAnswer \in Seq(BOOLEAN)
  BY <1>0 DEF CheckTypes
<1>4. a \in Nat /\ c \in Nat /\ m \in Nat /\ n = a + c /\ Len(dstFifo) = m
  BY <1>0, <1>3
<1>5. r \in PortCheck /\ d \in {"LT", "FT"} /\ (d = "LT" <=> ~High(p))
  <2>1. (p \in listeningPortTable) \in BOOLEAN
    OBVIOUS
  <2>. QED
    BY <1>1, <2>1 DEF PortCheck
<1>6. /\ asked' \in Seq(PortCheck) /\ Len(asked') = m + 1
      /\ (\A i \in 1 .. m : asked'[i] = asked[i]) /\ asked'[m + 1] = r
  <2>. HIDE DEF r
  <2>. QED
    BY <1>2, <1>3, <1>5, AppendProperties
<1>7. /\ dstFifo' \in Seq({"LT", "FT"}) /\ Len(dstFifo') = m + 1
      /\ (\A i \in 1 .. m : dstFifo'[i] = dstFifo[i]) /\ dstFifo'[m + 1] = d
  <2>. HIDE DEF d, m
  <2>. QED
    BY <1>2, <1>3, <1>4, <1>5, AppendProperties
<1>8. r.port = p /\ (r.listening => p \in listeningPortTable)
  OBVIOUS
<1>9. PICK f \in [1 .. n -> 1 .. m] : InOrder(f)
  BY DEF CheckInv
<1>10. /\ \A j, k \in 1 .. n : j < k => f[j] < f[k]
       /\ \A k \in 1 .. n : dstFifo[f[k]] = "LT"
       /\ \A i \in 1 .. m : dstFifo[i] = "LT" => \E k \in 1 .. n : f[k] = i
       /\ \A k \in 1 .. a : RightAnswer(asked[f[k]], listenAnswer[k])
       /\ \A k \in 1 .. n : k > a => listenCheck[k - a] = asked[f[k]].port
  BY <1>9 DEF InOrder
<1>. HIDE DEF r, d
<1>11. Sorted'
  <2>. HIDE DEF m
  <2>1. ASSUME NEW i \in 1 .. m + 1
        PROVE  /\ dstFifo'[i] = "LT" <=> ~High(asked'[i].port)
               /\ asked'[i].listening => asked'[i].port \in listeningPortTable
    <3>1. CASE i = m + 1
      BY <1>5, <1>6, <1>7, <1>8, <3>1
    <3>2. CASE i # m + 1
      <4>1. i \in 1 .. m
        BY <1>4, <3>2
      <4>. QED
        BY <1>0, <1>6, <1>7, <4>1 DEF Sorted, m
    <3>. QED
      BY <3>1, <3>2
  <2>. QED
    BY <1>2, <1>6, <2>1 DEF Sorted
<1>12. CheckAnswersInOrder'
  BY <1>0, <1>2 DEF CheckAnswersInOrder
<1>13. /\ Append(listenCheck, p) \in Seq(Port)
       /\ Len(Append(listenCheck, p)) = c + 1 /\ Append(listenCheck, p)[c + 1] = p
       /\ \A i \in 1 .. c : Append(listenCheck, p)[i] = listenCheck[i]
  BY <1>1, <1>3, AppendProperties
<1>14. CheckTypes'
  <2>1. listenCheck' \in Seq(Port)
    BY <1>2, <1>3, <1>13
  <2>. QED
    BY <1>0, <1>2, <1>6, <1>7, <2>1 DEF CheckTypes
<1>15. \A x, y : RightAnswer(x, y)' <=> RightAnswer(x, y)
  BY <1>2 DEF RightAnswer
<1>. HIDE DEF a, c, n, m
<1>16. \A k \in 1 .. n : /\ f[k] \in 1 .. m /\ f[k] \in 1 .. m + 1
                         /\ asked'[f[k]] = asked[f[k]]
                         /\ dstFifo'[f[k]] = dstFifo[f[k]]
  BY <1>4, <1>6, <1>7, <1>9
<1>17. CASE High(p)
  <2>1. Len(listenAnswer') = a /\ Len(listenAnswer') + Len(listenCheck') = n
    BY <1>2, <1>17 DEF a, n
  <2>2. ASSUME NEW i \in 1 .. m + 1, dstFifo'[i] = "LT"
        PROVE  \E k \in 1 .. n : f[k] = i
    <3>1. i \in 1 .. m
      BY <1>4, <1>5, <1>7, <1>17, <2>2
    <3>. QED
      BY <1>7, <1>10, <2>2, <3>1
  <2>3. \A k \in 1 .. a : k \in 1 .. n
    BY <1>4
  <2>4. /\ \A k \in 1 .. a : RightAnswer(asked'[f[k]], listenAnswer'[k])
        /\ \A k \in 1 .. n : k > a => listenCheck'[k - a] = asked'[f[k]].port
        /\ \A k \in 1 .. n : dstFifo'[f[k]] = "LT"
    BY <1>2, <1>10, <1>16, <1>17, <2>3
  <2>5. InOrder(f)'
    BY <1>6, <1>10, <1>15, <2>1, <2>2, <2>4 DEF InOrder
  <2>6. f \in [1 .. Len(listenAnswer') + Len(listenCheck') -> 1 .. Len(asked')]
    BY <1>6, <1>9, <1>16, <2>1
  <2>. QED
    BY <1>6, <1>7, <1>11, <1>12, <1>14, <2>5, <2>6 DEF CheckInv, Sorted
<1>18. CASE ~High(p)
  <2>0. n \in Nat
    BY <1>4
  <2>1. /\ Len(listenCheck') = c + 1 /\ listenCheck'[c + 1] = p
        /\ \A i \in 1 .. c : listenCheck'[i] = listenCheck[i]
    BY <1>2, <1>13, <1>18
  <2>2. Len(listenAnswer') = a /\ Len(listenAnswer') + Len(listenCheck') = n + 1
    BY <1>2, <1>4, <2>1 DEF a
  <2>3. \A k \in 1 .. n + 1 : k = n + 1 \/ k \in 1 .. n
    BY <2>0
  <2>4. \A k \in 1 .. n : k \in 1 .. n + 1 /\ k # n + 1
    BY <2>0
  <2>5. n + 1 \in 1 .. n + 1 /\ m + 1 \in 1 .. m + 1
    BY <1>4, <2>0
  <2>6. PICK g \in [1 .. n + 1 -> 1 .. m + 1] :
          g[n + 1] = m + 1 /\ \A k \in 1 .. n : g[k] = f[k]
    <3>. DEFINE h == [k \in 1 .. n + 1 |-> IF k = n + 1 THEN m + 1 ELSE f[k]]
    <3>1. h[n + 1] = m + 1 /\ \A k \in 1 .. n : h[k] = f[k]
      BY <2>4, <2>5
    <3>2. h \in [1 .. n + 1 -> 1 .. m + 1]
      BY <1>16, <2>3, <2>5
    <3>. HIDE DEF h
    <3>. QED
      BY <3>1, <3>2
  <2>8. ASSUME NEW j \in 1 .. n + 1, NEW k \in 1 .. n + 1, j < k
        PROVE  g[j] < g[k]
    <3>1. j \in 1 .. n
      BY <2>0, <2>8
    <3>2. CASE k \in 1 .. n
      BY <1>10, <2>6, <2>8, <3>1, <3>2
    <3>3. CASE k = n + 1
      <4>1. f[j] \in 1 .. m
        BY <1>16, <3>1
      <4>2. f[j] < m + 1
        BY <1>4, <4>1
      <4>. QED
        BY <2>6, <3>1, <3>3, <4>2
    <3>. QED
      BY <2>3, <3>2, <3>3
  <2>9. \A k \in 1 .. n + 1 : dstFifo'[g[k]] = "LT"
    BY <1>5, <1>7, <1>10, <1>16, <1>18, <2>3, <2>6
  <2>10. ASSUME NEW i \in 1 .. m + 1, dstFifo'[i] = "LT"
         PROVE  \E k \in 1 .. n + 1 : g[k] = i
    <3>1. CASE i = m + 1
      BY <2>5, <2>6, <3>1
    <3>2. CASE i # m + 1
      <4>1. i \in 1 .. m
        BY <1>4, <3>2
      <4>2. PICK k \in 1 .. n : f[k] = i
        BY <1>7, <1>10, <2>10, <4>1
      <4>. QED
        BY <2>4, <2>6, <4>2
    <3>. QED
      BY <3>1, <3>2
  <2>11. ASSUME NEW k \in 1 .. a
         PROVE  RightAnswer(asked'[g[k]], listenAnswer'[k])
    <3>1. k \in 1 .. n
      BY <1>4
    <3>. QED
      <4>1. RightAnswer(asked[f[k]], listenAnswer[k])
        BY <1>10
      <4>2. /\ g[k] = f[k] /\ asked'[f[k]] = asked[f[k]]
            /\ listenAnswer' = listenAnswer
        BY <1>2, <1>16, <2>6, <3>1
      <4>. QED
        BY <4>1, <4>2
  <2>12. ASSUME NEW k \in 1 .. n + 1, k > a
         PROVE  listenCheck'[k - a] = asked'[g[k]].port
    <3>1. CASE k = n + 1
      <4>1. k - a = c + 1
        BY <1>4, <3>1
      <4>. QED
        BY <1>6, <1>8, <2>1, <2>6, <3>1, <4>1
    <3>2. CASE k \in 1 .. n
      <4>1. k - a \in 1 .. c
        BY <1>4, <2>12, <3>2
      <4>2. listenCheck[k - a] = asked[f[k]].port
        BY <1>10, <2>12, <3>2
      <4>. QED
        BY <1>16, <2>1, <2>6, <3>2, <4>1, <4>2
    <3>. QED
      BY <2>3, <3>1, <3>2
  <2>13. InOrder(g)'
    BY <1>6, <1>15, <2>2, <2>8, <2>9, <2>10, <2>11, <2>12 DEF InOrder
  <2>14. g \in [1 .. Len(listenAnswer') + Len(listenCheck') -> 1 .. Len(asked')]
    BY <1>6, <2>2, <2>6
  <2>. QED
    BY <1>6, <1>7, <1>11, <1>12, <1>14, <2>13, <2>14 DEF CheckInv, Sorted
<1>. QED
  BY <1>17, <1>18

(* The first check of all leaves with its answer.                          *)
LEMMA CheckOutKeeps ==
  ASSUME CheckInv, check_out_multiplexer
  PROVE  CheckInv'
<1>0. /\ CheckTypes /\ Len(dstFifo) = Len(asked) /\ Sorted
  BY DEF CheckInv, Sorted
<1>. DEFINE a == Len(listenAnswer)
            c == Len(listenCheck)
            n == Len(listenAnswer) + Len(listenCheck)
            m == Len(asked)
<1>1. /\ listenCheck' = listenCheck /\ listeningPortTable' = listeningPortTable
      /\ dstFifo # <<>> /\ dstFifo' = Tail(dstFifo) /\ asked' = Tail(asked)
  BY DEF check_out_multiplexer, portVars
<1>2. /\ asked \in Seq(PortCheck) /\ dstFifo \in Seq({"LT", "FT"})
      /\ listenCheck \in Seq(Port) /\ listenAnswer \in Seq(BOOLEAN)
  BY <1>0 DEF CheckTypes
<1>3. /\ Head(dstFifo) = dstFifo[1] /\ dstFifo' \in Seq({"LT", "FT"})
      /\ Len(dstFifo') = Len(dstFifo) - 1 /\ Len(dstFifo) \in Nat \ {0}
      /\ \A i \in 1 .. Len(dstFifo) - 1 : dstFifo'[i] = dstFifo[i + 1]
  BY <1>1, <1>2, Popped
<1>4. m \in Nat \ {0} /\ Len(dstFifo) = m /\ a \in Nat /\ c \in Nat /\ n = a + c
  BY <1>0, <1>2, <1>3
<1>5. asked # <<>>
  BY <1>4
<1>6. /\ Head(asked) = asked[1] /\ Head(asked) \in PortCheck
      /\ asked' \in Seq(PortCheck) /\ Len(asked') = m - 1
      /\ \A i \in 1 .. m - 1 : asked'[i] = asked[i + 1]
  BY <1>1, <1>2, <1>5, Popped
<1>7. PICK f \in [1 .. n -> 1 .. m] : InOrder(f)
  BY DEF CheckInv
<1>8. /\ \A j, k \in 1 .. n : j < k => f[j] < f[k]
      /\ \A k \in 1 .. n : dstFifo[f[k]] = "LT"
      /\ \A i \in 1 .. m : dstFifo[i] = "LT" => \E k \in 1 .. n : f[k] = i
      /\ \A k \in 1 .. a : RightAnswer(asked[f[k]], listenAnswer[k])
      /\ \A k \in 1 .. n : k > a => listenCheck[k - a] = asked[f[k]].port
  BY <1>7 DEF InOrder
<1>9. \A x, y : RightAnswer(x, y)' <=> RightAnswer(x, y)
  BY <1>1 DEF RightAnswer
<1>. HIDE DEF a, c, n, m
<1>10. \A i \in 1 .. m - 1 : i + 1 \in 1 .. m /\ dstFifo'[i] = dstFifo[i + 1]
  BY <1>3, <1>4
<1>11. Sorted'
  <2>1. ASSUME NEW i \in 1 .. m - 1
        PROVE  /\ dstFifo'[i] = "LT" <=> ~High(asked'[i].port)
               /\ asked'[i].listening => asked'[i].port \in listeningPortTable
    <3>. DEFINE j == i + 1
    <3>1. j \in 1 .. m /\ dstFifo'[i] = dstFifo[j] /\ asked'[i] = asked[j]
      BY <1>6, <1>10
    <3>. HIDE DEF j
    <3>. QED
      BY <1>0, <3>1 DEF Sorted, m
  <2>. QED
    BY <1>1, <1>6, <2>1 DEF Sorted
<1>12. 1 \in 1 .. m
  BY <1>4
<1>13. CASE /\ Head(dstFifo) = "LT" /\ listenAnswer # <<>>
            /\ lastCheck' = {[asked |-> Head(asked), answer |-> Head(listenAnswer)]}
            /\ listenAnswer' = Tail(listenAnswer)
  <2>1. /\ a \in Nat \ {0} /\ Head(listenAnswer) = listenAnswer[1]
        /\ listenAnswer' \in Seq(BOOLEAN) /\ Len(listenAnswer') = a - 1
        /\ \A i \in 1 .. a - 1 : listenAnswer'[i] = listenAnswer[i + 1]
    BY <1>2, <1>13, Popped DEF a
  <2>2. 1 \in 1 .. n /\ 1 \in 1 .. a /\ n \in Nat \ {0}
    BY <1>4, <2>1
  <2>3. f[1] = 1
    <3>1. PICK k \in 1 .. n : f[k] = 1
      BY <1>3, <1>8, <1>12, <1>13
    <3>2. f[1] \in 1 .. m
      BY <1>7, <2>2
    <3>3. k # 1 => f[1] < f[k]
      <4>1. k # 1 => 1 < k
        BY <2>2
      <4>. QED
        BY <1>8, <2>2, <4>1
    <3>. QED
      BY <1>4, <3>1, <3>2, <3>3
  <2>4. \A k \in 1 .. n - 1 : k \in 1 .. n /\ k + 1 \in 1 .. n
    BY <2>2
  <2>5. ASSUME NEW k \in 1 .. n - 1
        PROVE  f[k + 1] - 1 \in 1 .. m - 1
    <3>. DEFINE j == k + 1
    <3>1. j \in 1 .. n /\ 1 < j
      BY <2>2
    <3>. HIDE DEF j
    <3>2. f[j] \in 1 .. m /\ f[1] < f[j]
      BY <1>7, <1>8, <2>2, <3>1
    <3>3. f[j] - 1 \in 1 .. m - 1
      BY <1>4, <2>3, <3>2
    <3>. QED
      BY <3>3 DEF j
  <2>6. PICK g \in [1 .. n - 1 -> 1 .. m - 1] : \A k \in 1 .. n - 1 : g[k] = f[k + 1] - 1
    <3>. DEFINE h == [k \in 1 .. n - 1 |-> f[k + 1] - 1]
    <3>1. h \in [1 .. n - 1 -> 1 .. m - 1]
      BY <2>5
    <3>2. \A k \in 1 .. n - 1 : h[k] = f[k + 1] - 1
      OBVIOUS
    <3>. HIDE DEF h
    <3>. QED
      BY <3>1, <3>2
  <2>7. ASSUME NEW k \in 1 .. n - 1
        PROVE  /\ g[k] \in 1 .. m - 1 /\ f[k + 1] \in 1 .. m /\ g[k] + 1 = f[k + 1]
               /\ asked'[g[k]] = asked[f[k + 1]] /\ dstFifo'[g[k]] = dstFifo[f[k + 1]]
    <3>1. f[k + 1] \in 1 .. m
      BY <1>7, <2>4
    <3>2. g[k] \in 1 .. m - 1 /\ g[k] = f[k + 1] - 1
      BY <2>6
    <3>3. g[k] + 1 = f[k + 1]
      BY <1>4, <3>1, <3>2
    <3>. QED
      BY <1>6, <1>10, <3>1, <3>2, <3>3
  <2>8. ASSUME NEW j \in 1 .. n - 1, NEW k \in 1 .. n - 1, j < k
        PROVE  g[j] < g[k]
    <3>1. f[j + 1] < f[k + 1]
      <4>. DEFINE x == j + 1
                  y == k + 1
      <4>1. x \in 1 .. n /\ y \in 1 .. n /\ x < y
        BY <2>2, <2>8
      <4>. HIDE DEF x, y
      <4>2. f[x] < f[y]
        BY <1>8, <4>1
      <4>. QED
        BY <4>2 DEF x, y
    <3>2. /\ g[j] \in 1 .. m - 1 /\ g[j] + 1 = f[j + 1]
          /\ g[k] \in 1 .. m - 1 /\ g[k] + 1 = f[k + 1]
      BY <2>7
    <3>. QED
      BY <1>4, <3>1, <3>2
  <2>9. \A k \in 1 .. n - 1 : dstFifo'[g[k]] = "LT"
    BY <1>8, <2>4, <2>7
  <2>10. ASSUME NEW i \in 1 .. m - 1, dstFifo'[i] = "LT"
         PROVE  \E k \in 1 .. n - 1 : g[k] = i
    <3>. DEFINE j == i + 1
    <3>1. j \in 1 .. m /\ dstFifo[j] = "LT" /\ j # 1 /\ j - 1 = i
      BY <1>4, <1>10, <2>10
    <3>. HIDE DEF j
    <3>2. PICK k \in 1 .. n : f[k] = j
      BY <1>8, <3>1
    <3>3. k # 1
      BY <2>3, <3>1, <3>2
    <3>4. k - 1 \in 1 .. n - 1 /\ (k - 1) + 1 = k
      BY <2>2, <3>3
    <3>5. g[k - 1] = f[(k - 1) + 1] - 1
      BY <2>6, <3>4
    <3>. QED
      BY <3>1, <3>2, <3>4, <3>5
  <2>11. ASSUME NEW k \in 1 .. a - 1
         PROVE  RightAnswer(asked'[g[k]], listenAnswer'[k])
    <3>1. k \in 1 .. n - 1 /\ k + 1 \in 1 .. a
      BY <1>4, <2>1
    <3>2. RightAnswer(asked[f[k + 1]], listenAnswer[k + 1])
      BY <1>8, <3>1
    <3>. QED
      BY <2>1, <2>7, <3>1, <3>2
  <2>12. ASSUME NEW k \in 1 .. n - 1, k > a - 1
         PROVE  listenCheck'[k - (a - 1)] = asked'[g[k]].port
    <3>1. k + 1 \in 1 .. n /\ k + 1 > a /\ (k + 1) - a = k - (a - 1)
      <4>1. k \in Int /\ a \in Int /\ n \in Int /\ 1 <= k /\ k <= n - 1
        BY <1>4, <2>1
      <4>. QED
        BY <2>12, <4>1
    <3>2. listenCheck[(k + 1) - a] = asked[f[k + 1]].port
      BY <1>8, <3>1
    <3>. QED
      BY <1>1, <2>7, <3>1, <3>2
  <2>13. Len(listenAnswer') = a - 1 /\ Len(listenAnswer') + Len(listenCheck') = n - 1
    BY <1>1, <1>4, <2>1 DEF c
  <2>14. InOrder(g)'
    BY <1>6, <1>9, <2>8, <2>9, <2>10, <2>11, <2>12, <2>13 DEF InOrder
  <2>15. g \in [1 .. Len(listenAnswer') + Len(listenCheck') -> 1 .. Len(asked')]
    BY <1>6, <2>6, <2>13
  <2>16. CheckAnswersInOrder'
    <3>1. RightAnswer(asked[1], listenAnswer[1])
      BY <1>8, <2>2, <2>3
    <3>. QED
      BY <1>1, <1>6, <1>13, <2>1, <3>1 DEF CheckAnswersInOrder, RightAnswer
  <2>17. CheckTypes'
    BY <1>1, <1>2, <1>3, <1>6, <1>13, <2>1 DEF CheckTypes
  <2>. QED
    BY <1>3, <1>4, <1>6, <1>11, <2>14, <2>15, <2>16, <2>17 DEF CheckInv, Sorted
<1>14. CASE /\ Head(dstFifo) = "FT" /\ listenAnswer' = listenAnswer
            /\ lastCheck' = {[asked |-> Head(asked), answer |-> Head(usedAnswer)]}
  <2>1. ASSUME NEW k \in 1 .. n
        PROVE  /\ f[k] - 1 \in 1 .. m - 1 /\ f[k] \in 1 .. m
               /\ (f[k] - 1) + 1 = f[k]
    <3>1. f[k] \in 1 .. m
      BY <1>7
    <3>2. f[k] # 1
      BY <1>3, <1>8, <1>14
    <3>. QED
      BY <1>4, <3>1, <3>2
  <2>2. PICK g \in [1 .. n -> 1 .. m - 1] : \A k \in 1 .. n : g[k] = f[k] - 1
    <3>. DEFINE h == [k \in 1 .. n |-> f[k] - 1]
    <3>1. h \in [1 .. n -> 1 .. m - 1]
      BY <2>1
    <3>2. \A k \in 1 .. n : h[k] = f[k] - 1
      OBVIOUS
    <3>. HIDE DEF h
    <3>. QED
      BY <3>1, <3>2
  <2>3. ASSUME NEW k \in 1 .. n
        PROVE  /\ g[k] \in 1 .. m - 1 /\ f[k] \in 1 .. m /\ g[k] + 1 = f[k]
               /\ asked'[g[k]] = asked[f[k]] /\ dstFifo'[g[k]] = dstFifo[f[k]]
    <3>1. g[k] \in 1 .. m - 1 /\ f[k] \in 1 .. m /\ g[k] + 1 = f[k]
      BY <2>1, <2>2
    <3>. QED
      BY <1>6, <1>10, <3>1
  <2>4. ASSUME NEW j \in 1 .. n, NEW k \in 1 .. n, j < k
        PROVE  g[j] < g[k]
    <3>1. g[j] + 1 < g[k] + 1 /\ g[j] \in Int /\ g[k] \in Int
      BY <1>4, <1>8, <2>3, <2>4
    <3>. QED
      BY <3>1
  <2>5. \A k \in 1 .. n : dstFifo'[g[k]] = "LT"
    BY <1>8, <2>3
  <2>6. ASSUME NEW i \in 1 .. m - 1, dstFifo'[i] = "LT"
        PROVE  \E k \in 1 .. n : g[k] = i
    <3>. DEFINE j == i + 1
    <3>1. j \in 1 .. m /\ dstFifo[j] = "LT" /\ j - 1 = i
      BY <1>4, <1>10, <2>6
    <3>. HIDE DEF j
    <3>2. PICK k \in 1 .. n : f[k] = j
      BY <1>8, <3>1
    <3>. QED
      BY <2>2, <3>1, <3>2
  <2>7. \A k \in 1 .. a : RightAnswer(asked'[g[k]], listenAnswer'[k])
    <3>1. \A k \in 1 .. a : k \in 1 .. n
      BY <1>4
    <3>. QED
      BY <1>8, <1>14, <2>3, <3>1
  <2>8. \A k \in 1 .. n : k > a => listenCheck'[k - a] = asked'[g[k]].port
    BY <1>1, <1>8, <2>3
  <2>9. Len(listenAnswer') = a /\ Len(listenAnswer') + Len(listenCheck') = n
    BY <1>1, <1>14 DEF a, n
  <2>10. InOrder(g)'
    BY <1>6, <1>9, <2>4, <2>5, <2>6, <2>7, <2>8, <2>9 DEF InOrder
  <2>11. g \in [1 .. Len(listenAnswer') + Len(listenCheck') -> 1 .. Len(asked')]
    BY <1>6, <2>2, <2>9
  <2>12. CheckAnswersInOrder'
    <3>1. High(asked[1].port)
      BY <1>0, <1>3, <1>12, <1>14 DEF Sorted, m
    <3>. QED
      BY <1>6, <1>14, <3>1 DEF CheckAnswersInOrder
  <2>13. CheckTypes'
    BY <1>1, <1>2, <1>3, <1>6, <1>14 DEF CheckTypes
  <2>. QED
    BY <1>3, <1>4, <1>6, <1>11, <2>10, <2>11, <2>12, <2>13 DEF CheckInv, Sorted
<1>. QED
  BY <1>13, <1>14 DEF check_out_multiplexer

(***************************************************************************)
(* What follows                                                            *)
(***************************************************************************)
LEMMA SessionStart == Init => SessionInv
<1>. SUFFICES ASSUME Init
              PROVE  SessionInv
  OBVIOUS
<1>1. QueryTypes
  BY EmptySeq DEF Init, QueryTypes
<1>2. IdTypes
  <2>1. tupleValid \in [SessionId -> BOOLEAN] /\ \A id \in SessionId : ~tupleValid[id]
    BY DEF Init
  <2>2. DOMAIN reverseLookupTable = {} /\ counter \in Nat
    BY DEF Init
  <2>3. /\ freeList = <<>> /\ finFifo = <<>> /\ insert_req = <<>> /\ delete_req = <<>>
        /\ update_req = <<>> /\ update_rsp = <<>> /\ revInserts = <<>> /\ releases = <<>>
    BY DEF Init
  <2>. QED
    BY <2>1, <2>2, <2>3, EmptySeq DEF IdTypes
<1>3. IdsConserved
  <2>. SUFFICES ASSUME NEW id \in SessionId
                PROVE  (IF id < counter THEN 1 ELSE 0)
                         = Queued(id) + (IF tupleValid[id] THEN 1 ELSE 0)
    BY DEF IdsConserved, Queued
  <2>1. ~tupleValid[id] /\ ~(id < counter)
    BY SessionsInstance DEF Init, SessionId
  <2>2. /\ freeList = <<>> /\ finFifo = <<>> /\ insert_req = <<>> /\ delete_req = <<>>
        /\ update_req = <<>> /\ update_rsp = <<>> /\ revInserts = <<>>
    BY DEF Init
  <2>. QED
    BY <2>1, <2>2, CountEmpty DEF Queued
<1>4. CheckInv
  <2>1. /\ asked = <<>> /\ dstFifo = <<>> /\ listenCheck = <<>> /\ listenAnswer = <<>>
        /\ lastCheck = {}
    BY DEF Init
  <2>2. /\ CheckTypes /\ Len(asked) = 0 /\ Len(dstFifo) = 0
        /\ Len(listenAnswer) = 0 /\ Len(listenCheck) = 0
    BY <2>1, EmptySeq DEF CheckTypes
  <2>3. \E f \in [1 .. Len(listenAnswer) + Len(listenCheck) -> 1 .. Len(asked)] : InOrder(f)
    <3>. DEFINE f == [k \in 1 .. 0 |-> k]
    <3>1. f \in [1 .. 0 -> 1 .. 0]
      OBVIOUS
    <3>. HIDE DEF f
    <3>2. InOrder(f)
      BY <2>2 DEF InOrder
    <3>3. Len(listenAnswer) + Len(listenCheck) = 0
      BY <2>2
    <3>4. f \in [1 .. Len(listenAnswer) + Len(listenCheck) -> 1 .. Len(asked)]
      BY <2>2, <3>1, <3>3
    <3>. QED
      BY <3>2, <3>4
  <2>4. CheckAnswersInOrder
    BY <2>1 DEF CheckAnswersInOrder
  <2>. QED
    <3>1. \A i \in 1 .. Len(asked) : FALSE
      BY <2>2
    <3>. QED
      BY <2>2, <2>3, <2>4, <3>1 DEF CheckInv
<1>. QED
  BY <1>1, <1>2, <1>3, <1>4 DEF SessionInv

LEMMA SessionStep ==
  ASSUME SessionInv, [Next]_vars
  PROVE  SessionInv'
<1>0. QueryTypes /\ IdInv /\ CheckInv /\ CheckTypes
  BY DEF SessionInv, IdInv, CheckInv
<1>. SUFFICES QueryTypes' /\ IdInv' /\ CheckInv'
  BY DEF SessionInv, IdInv
<1>. DEFINE SameQueries == UNCHANGED <<slc, txApp_req, rxEng_req, freePorts>>
            SameIds == UNCHANGED idState
            SameChecks == UNCHANGED <<asked, dstFifo, listenCheck, listenAnswer,
                                      lastCheck, listeningPortTable>>
<1>f. /\ SameQueries => QueryTypes'
      /\ SameIds => IdInv'
      /\ SameChecks => CheckInv'
  BY <1>0, QueryFrame, IdFrame, CheckFrame
<1>1. CASE sessionIdManager
  <2>1. SameQueries /\ SameChecks
    BY <1>1 DEF sessionIdManager, lookupVars, portVars, checkVars
  <2>. QED
    BY <1>1, <1>f, <2>1, IdManagerKeeps
<1>2. CASE LookupRequest
  <2>1. SameIds /\ SameChecks
    BY <1>2 DEF LookupRequest, idState, updateVars, idVars, reverseVars, portVars, checkVars
  <2>. QED
    BY <1>0, <1>2, <1>f, <2>1, LookupRequestTypes
<1>3. CASE LookupReply
  <2>1. SameChecks
    BY <1>3 DEF LookupReply, portVars, checkVars
  <2>. QED
    BY <1>0, <1>3, <1>f, <2>1, LookupReplyTypes, LookupReplyKeeps
<1>4. CASE InsertReply
  <2>1. SameChecks
    BY <1>4 DEF InsertReply, portVars, checkVars
  <2>. QED
    BY <1>0, <1>4, <1>f, <2>1, InsertReplyTypes, InsertReplyKeeps
<1>5. CASE updateRequestSender
  <2>1. SameQueries /\ SameChecks
    BY <1>5 DEF updateRequestSender, lookupVars, portVars, checkVars
  <2>. QED
    BY <1>5, <1>f, <2>1, UpdateSenderKeeps
<1>6. CASE hash_table
  <2>1. SameQueries /\ SameChecks
    BY <1>6 DEF hash_table, lookupVars, portVars, checkVars
  <2>. QED
    BY <1>6, <1>f, <2>1, HashTableKeeps
<1>7. CASE reverseLookupTableInterface
  <2>1. SameQueries /\ SameChecks
    BY <1>7 DEF reverseLookupTableInterface, lookupVars, checkVars
  <2>. QED
    BY <1>7, <1>f, <2>1, ReverseTableKeeps
<1>8. CASE ReleasePort
  <2>1. SameQueries /\ SameIds /\ SameChecks
    BY <1>8 DEF ReleasePort, idState, lookupVars, updateVars, idVars, reverseVars, checkVars
  <2>. QED
    BY <1>f, <2>1
<1>9. CASE CheckUsed
  <2>1. SameQueries /\ SameIds /\ SameChecks
    BY <1>9 DEF CheckUsed, idState, lookupVars, updateVars, idVars, reverseVars, portVars
  <2>. QED
    BY <1>f, <2>1
<1>10. ASSUME NEW p \in Port, HandOut(p)
       PROVE  QueryTypes' /\ IdInv' /\ CheckInv'
  <2>1. SameIds /\ SameChecks
    BY <1>10 DEF HandOut, idState, updateVars, idVars, reverseVars, checkVars
  <2>. QED
    BY <1>0, <1>10, <1>f, <2>1, HandOutTypes
<1>11. CASE CheckListening
  <2>1. SameQueries /\ SameIds
    BY <1>11 DEF CheckListening, idState, lookupVars, updateVars, idVars, reverseVars, portVars
  <2>. QED
    BY <1>0, <1>11, <1>f, <2>1, CheckListeningKeeps
<1>12. CASE check_out_multiplexer
  <2>1. SameQueries /\ SameIds
    BY <1>12 DEF check_out_multiplexer, idState, lookupVars, updateVars, idVars,
       reverseVars, portVars
  <2>. QED
    BY <1>0, <1>12, <1>f, <2>1, CheckOutKeeps
<1>13. ASSUME NEW s \in Server, AppOpen(s)
       PROVE  QueryTypes' /\ IdInv' /\ CheckInv'
  <2>1. SameIds /\ SameChecks
    BY <1>13 DEF AppOpen, idState, updateVars, idVars, reverseVars, checkVars
  <2>. QED
    BY <1>0, <1>13, <1>f, <2>1, AppOpenTypes
<1>14. ASSUME NEW p \in SegmentPort, RxCheck(p)
       PROVE  QueryTypes' /\ IdInv' /\ CheckInv'
  <2>1. SameQueries /\ SameIds
    BY <1>14 DEF RxCheck, idState, lookupVars, updateVars, idVars, reverseVars, portVars
  <2>. QED
    BY <1>0, <1>14, <1>f, <2>1, RxCheckKeeps
<1>15. ASSUME NEW p \in ListenPort, Listen(p)
       PROVE  QueryTypes' /\ IdInv' /\ CheckInv'
  <2>1. SameQueries /\ SameIds
    BY <1>15 DEF Listen, idState, lookupVars, updateVars, idVars, reverseVars
  <2>2. p \in Port
    BY SessionsInstance
  <2>. QED
    BY <1>0, <1>15, <1>f, <2>1, <2>2, ListenKeeps
<1>16. ASSUME NEW id \in SessionId, NEW times \in 1 .. 2, ReleaseSession(id, times)
       PROVE  QueryTypes' /\ IdInv' /\ CheckInv'
  <2>1. SameQueries /\ SameChecks
    BY <1>16 DEF ReleaseSession, lookupVars, portVars, checkVars
  <2>. QED
    BY <1>16, <1>f, <2>1, ReleaseSessionKeeps
<1>17. ASSUME NEW s \in Server, NEW b \in BOOLEAN, RxQuery(s, b)
       PROVE  QueryTypes' /\ IdInv' /\ CheckInv'
  <2>1. SameIds
    BY <1>17 DEF RxQuery, idState, updateVars, idVars, reverseVars
  <2>. QED
    BY <1>0, <1>17, <1>f, <2>1, RxQueryTypes, RxQueryKeeps
<1>18. CASE UNCHANGED vars
  <2>1. SameQueries /\ SameIds /\ SameChecks
    BY <1>18 DEF vars, idState
  <2>. QED
    BY <1>f, <2>1
<1>19. CASE Controller
  BY <1>1, <1>2, <1>3, <1>4, <1>5, <1>6, <1>7, <1>19 DEF Controller
<1>20. CASE PortTable
  BY <1>8, <1>9, <1>10, <1>11, <1>12, <1>20 DEF PortTable
<1>21. CASE Environment
  BY <1>13, <1>14, <1>15, <1>16, <1>21 DEF Environment
<1>22. CASE RxEngine
  BY <1>17, <1>22 DEF RxEngine
<1>. QED
  BY <1>18, <1>19, <1>20, <1>21, <1>22 DEF Next

LEMMA SessionInvariant == Spec => []SessionInv
<1>1. Init => SessionInv
  BY SessionStart
<1>2. SessionInv /\ [Next]_vars => SessionInv'
  BY SessionStep
<1>. QED
  BY <1>1, <1>2, PTL DEF Spec

(* A session number is never lost and never in use twice, for any number   *)
(* of sessions and however lookups, insertions, releases (single or        *)
(* repeated) and deletions cross.                                          *)
THEOREM IdsCorrect == Spec => []IdsConserved
<1>1. SessionInv => IdsConserved
  BY DEF SessionInv
<1>. QED
  BY <1>1, SessionInvariant, PTL

(* The answer to a check of a listening port is that of this check, for    *)
(* any sequence of checks of both halves and any pace of the two tables.   *)
THEOREM ChecksCorrect == Spec => []CheckAnswersInOrder
<1>1. SessionInv => CheckAnswersInOrder
  BY DEF SessionInv, CheckInv
<1>. QED
  BY <1>1, SessionInvariant, PTL

(***************************************************************************)
(* The hash table                                                          *)
(***************************************************************************)
(* The entries that the tables hold.                                       *)
Entries(t) == UNION {t[i][a] : i \in Table, a \in Address}

(* Tables in which every entry is in a slot of its key and alone in it,    *)
(* and every key in one slot at most.                                      *)
Placed(t) ==
  /\ t \in [Table -> [Address -> SUBSET htEntry(SessionId)]]
  /\ \A i \in Table, a \in Address : \A e \in t[i][a] : a = HashValue[e.key][i]
  /\ \A i, j \in Table, a, b \in Address : \A e \in t[i][a], f \in t[j][b] :
       e.key = f.key => i = j /\ e = f
  /\ \A i \in Table, a \in Address : \A e, f \in t[i][a] : e = f

(* A natural number is the least with a property if any has it.            *)
LEMMA LeastExists ==
  ASSUME NEW S, S \subseteq Nat, S # {}
  PROVE  \E m \in S : \A x \in S : m <= x
<1>. DEFINE R == OpToRel(<, Nat)
<1>1. IsWellFoundedOn(R, Nat)
  BY NatLessThanWellFounded
<1>2. PICK m \in S : \A x \in S : ~ (<<x, m>> \in R)
  <2>. HIDE DEF R
  <2>. QED
    BY <1>1, WFMin
<1>3. \A x \in S : ~ (x < m)
  BY <1>2 DEF OpToRel
<1>4. \A x \in S : x \in Nat
  OBVIOUS
<1>. HIDE DEF R
<1>. QED
  BY <1>3, <1>4

LEMMA LastSlotFacts ==
  ASSUME NEW P, P \subseteq Table
  PROVE  /\ P = {} => LastSlot(P) = -1
         /\ P # {} => LastSlot(P) \in P
         /\ LastSlot(P) = -1 => P = {}
<1>1. NUM_TABLES \in Nat
  BY CuckooInstance
<1>2. ASSUME P # {}
      PROVE  LastSlot(P) \in P
  <2>. DEFINE Q == {NUM_TABLES - x : x \in P}
  <2>0. \A x \in P : x \in Nat /\ NUM_TABLES - x \in Nat
    BY <1>1 DEF Table
  <2>1. Q \subseteq Nat /\ Q # {}
    BY <1>2, <2>0
  <2>2. PICK m \in Q : \A y \in Q : m <= y
    <3>. HIDE DEF Q
    <3>. QED
      BY <2>1, LeastExists
  <2>3. PICK x \in P : m = NUM_TABLES - x
    OBVIOUS
  <2>4. ASSUME NEW y \in P
        PROVE  y <= x
    <3>1. NUM_TABLES - y \in Q
      OBVIOUS
    <3>2. NUM_TABLES - x <= NUM_TABLES - y
      <4>. HIDE DEF Q
      <4>. QED
        BY <2>2, <2>3, <3>1
    <3>3. x \in Nat /\ y \in Nat
      BY <2>0
    <3>. HIDE DEF Q
    <3>. QED
      BY <1>1, <3>2, <3>3
  <2>. QED
    BY <1>2, <2>4 DEF LastSlot
<1>3. -1 \notin P
  BY <1>1 DEF Table
<1>. QED
  BY <1>2, <1>3 DEF LastSlot

LEMMA EntryIn ==
  ASSUME NEW t, NEW e
  PROVE  e \in Entries(t) <=> \E i \in Table, a \in Address : e \in t[i][a]
BY DEF Entries

-----------------------------------------------------------------------------
(* What a trial keeps: the entries of the tables and the one in hand.      *)
Contents(s) == Entries(s.tables) \cup (IF s.success THEN {} ELSE {s.entry})

TrialState == [tables : [Table -> [Address -> SUBSET htEntry(SessionId)]],
               entry : htEntry(SessionId), victimIdx : Table,
               victimBit : {0, 1}, success : BOOLEAN]

TrialInv(s) ==
  /\ s \in TrialState /\ Placed(s.tables)
  /\ ~ s.success => \A e \in Entries(s.tables) : e.key # s.entry.key

LEMMA SlotOfKey ==
  ASSUME NEW k \in Key, NEW i \in Table
  PROVE  calculate_hashes(k)[i] \in Address
BY CuckooInstance DEF calculate_hashes

(* An entry whose key is in no slot takes a slot of its key.               *)
Put(t, e, i) == [t EXCEPT ![i][HashValue[e.key][i]] = {e}]

LEMMA PutFacts ==
  ASSUME NEW t, Placed(t), NEW e \in htEntry(SessionId), NEW i \in Table,
         \A x \in Entries(t) : x.key # e.key
  PROVE  /\ Placed(Put(t, e, i))
         /\ \A x : x \in Entries(Put(t, e, i)) <=>
                     x = e \/ (x \in Entries(t) /\ x \notin t[i][HashValue[e.key][i]])
<1>. DEFINE b == HashValue[e.key][i]
            u == Put(t, e, i)
<1>1. e.key \in Key /\ b \in Address
  BY CuckooInstance DEF htEntry
<1>2. /\ t \in [Table -> [Address -> SUBSET htEntry(SessionId)]]
      /\ \A j \in Table, a \in Address : \A x \in t[j][a] : a = HashValue[x.key][j]
      /\ \A j, l \in Table, a, c \in Address : \A x \in t[j][a], y \in t[l][c] :
           x.key = y.key => j = l /\ x = y
      /\ \A j \in Table, a \in Address : \A x, y \in t[j][a] : x = y
  BY DEF Placed
<1>3. \A j \in Table, a \in Address :
        u[j][a] = IF j = i /\ a = b THEN {e} ELSE t[j][a]
  BY <1>1, <1>2 DEF Put
<1>4. u \in [Table -> [Address -> SUBSET htEntry(SessionId)]]
  BY <1>1, <1>2 DEF Put
<1>. HIDE DEF u
<1>5. \A j \in Table, a \in Address : \A x \in t[j][a] : x.key # e.key
  BY DEF Entries
<1>6. \A j \in Table, a \in Address : \A x \in u[j][a] : a = HashValue[x.key][j]
  BY <1>2, <1>3
<1>7. \A j, l \in Table, a, c \in Address : \A x \in u[j][a], y \in u[l][c] :
        x.key = y.key => j = l /\ x = y
  BY <1>2, <1>3, <1>5
<1>8. \A j \in Table, a \in Address : \A x, y \in u[j][a] : x = y
  BY <1>2, <1>3
<1>9. ASSUME NEW x
      PROVE  x \in Entries(u) <=> x = e \/ (x \in Entries(t) /\ x \notin t[i][b])
  <2>1. ASSUME x \in Entries(u), x # e
        PROVE  x \in Entries(t) /\ x \notin t[i][b]
    <3>1. PICK j \in Table, a \in Address : x \in u[j][a]
      BY <2>1, EntryIn
    <3>2. x \in t[j][a] /\ ~ (j = i /\ a = b)
      BY <1>3, <2>1, <3>1
    <3>3. x \notin t[i][b]
      BY <1>1, <1>2, <3>2
    <3>. QED
      BY <3>2, <3>3, EntryIn
  <2>2. e \in Entries(u)
    <3>1. e \in u[i][b]
      BY <1>1, <1>3
    <3>. QED
      BY <1>1, <3>1, EntryIn
  <2>3. ASSUME x \in Entries(t), x \notin t[i][b]
        PROVE  x \in Entries(u)
    <3>1. PICK j \in Table, a \in Address : x \in t[j][a]
      BY <2>3, EntryIn
    <3>2. x \in u[j][a]
      BY <1>3, <2>3, <3>1
    <3>. QED
      BY <3>2, EntryIn
  <2>. QED
    BY <2>1, <2>2, <2>3
<1>10. Placed(u)
  BY <1>4, <1>6, <1>7, <1>8 DEF Placed
<1>. QED
  BY <1>9, <1>10 DEF u

LEMMA TrialKeeps ==
  ASSUME NEW s, TrialInv(s), ~ s.success
  PROVE  TrialInv(Trial(s)) /\ Contents(Trial(s)) = Contents(s)
<1>. DEFINE h == calculate_hashes(s.entry.key)
            F == {i \in Table : s.tables[i][h[i]] = {}}
            slot == LastSlot(F)
            v == (h[s.victimIdx] % (NUM_TABLES - 1)) + s.victimBit
<1>1. /\ s \in TrialState /\ Placed(s.tables)
      /\ \A e \in Entries(s.tables) : e.key # s.entry.key
      /\ s.entry \in htEntry(SessionId) /\ s.entry.key \in Key
      /\ s.victimIdx \in Table /\ s.victimBit \in {0, 1} /\ s.success = FALSE
      /\ s.tables \in [Table -> [Address -> SUBSET htEntry(SessionId)]]
  BY DEF TrialInv, TrialState, htEntry
<1>2. h = HashValue[s.entry.key] /\ (\A i \in Table : h[i] \in Address)
  BY <1>1, SlotOfKey DEF calculate_hashes
<1>3. NUM_TABLES \in Nat /\ NUM_TABLES > 1
  BY CuckooInstance
<1>4. CASE F # {}
  <2>. DEFINE u == [s.tables EXCEPT ![slot][h[slot]] = {s.entry}]
  <2>1. slot \in F /\ slot # -1
    BY <1>4, LastSlotFacts
  <2>2. slot \in Table /\ s.tables[slot][h[slot]] = {}
    BY <2>1
  <2>3. Trial(s) = [s EXCEPT !.tables[slot][h[slot]] = {s.entry}, !.victimBit = 1 - @, !.success = TRUE]
    BY <2>1 DEF Trial
  <2>. HIDE DEF slot, F, h
  <2>4. /\ Trial(s).tables = u /\ Trial(s).entry = s.entry
        /\ Trial(s).victimIdx = s.victimIdx /\ Trial(s).victimBit = 1 - s.victimBit
        /\ Trial(s).success = TRUE
        /\ Trial(s) = [tables |-> u, entry |-> s.entry, victimIdx |-> s.victimIdx,
                       victimBit |-> 1 - s.victimBit, success |-> TRUE]
    BY <1>1, <2>3 DEF TrialState
  <2>5. /\ Placed(u)
        /\ \A x : x \in Entries(u) <=> x = s.entry \/ x \in Entries(s.tables)
    <3>1. u = Put(s.tables, s.entry, slot) /\ s.tables[slot][HashValue[s.entry.key][slot]] = {}
      BY <1>2, <2>2 DEF Put
    <3>. HIDE DEF u
    <3>. QED
      BY <1>1, <2>2, <3>1, PutFacts
  <2>6. Trial(s) \in TrialState
    BY <1>1, <2>4, <2>5 DEF TrialState, Placed
  <2>. HIDE DEF u
  <2>7. Contents(Trial(s)) = Contents(s)
    BY <1>1, <2>4, <2>5 DEF Contents
  <2>. QED
    BY <2>4, <2>5, <2>6, <2>7 DEF TrialInv
<1>5. CASE F = {}
  <2>. DEFINE S == s.tables[v][h[v]]
              u == [s.tables EXCEPT ![v][h[v]] = {s.entry}]
              x == CHOOSE e \in S : TRUE
  <2>1. slot = -1
    BY <1>5, LastSlotFacts
  <2>2. v \in Table
    <3>1. TABLE_SIZE \in Nat /\ h[s.victimIdx] \in Nat
      BY <1>1, <1>2, CuckooInstance DEF Address
    <3>2. h[s.victimIdx] % (NUM_TABLES - 1) \in 0 .. NUM_TABLES - 2
      <4>. DEFINE a == h[s.victimIdx]
                  n == NUM_TABLES - 1
      <4>1. a \in Int /\ n \in Nat /\ n > 0
        BY <1>3, <3>1
      <4>. HIDE DEF a, n
      <4>2. a % n \in 0 .. n - 1
        BY <4>1
      <4>. QED
        BY <1>3, <4>2 DEF a, n
    <3>. DEFINE m == h[s.victimIdx] % (NUM_TABLES - 1)
    <3>. HIDE DEF m
    <3>3. m + s.victimBit \in Table
      BY <1>1, <1>3, <3>2 DEF Table, m
    <3>. QED
      BY <3>3 DEF m
  <2>3. Trial(s) = [s EXCEPT !.tables[v][h[v]] = {s.entry}, !.entry = x,
                             !.victimIdx = (@ + 1) % NUM_TABLES, !.victimBit = 1 - @]
    BY <2>1 DEF Trial, Evicted
  <2>4. S # {}
    BY <1>5, <2>2
  <2>. HIDE DEF v, slot, F, h
  <2>5. x \in S
    BY <2>4
  <2>. HIDE DEF x
  <2>6. /\ h[v] \in Address /\ S \in SUBSET htEntry(SessionId) /\ x \in htEntry(SessionId)
        /\ \A y \in S : y = x
        /\ \A y \in Entries(s.tables) : y.key = x.key => y \in S
    <3>1. h[v] \in Address
      BY <1>2, <2>2
    <3>2. S \in SUBSET htEntry(SessionId)
      BY <1>1, <2>2, <3>1
    <3>3. \A y \in S : y = x
      BY <1>1, <2>2, <2>5, <3>1 DEF Placed
    <3>4. \A y \in Entries(s.tables) : y.key = x.key => y \in S
      BY <1>1, <2>2, <2>5, <3>1 DEF Placed, Entries
    <3>. QED
      BY <2>5, <3>1, <3>2, <3>3, <3>4
  <2>7. (s.victimIdx + 1) % NUM_TABLES \in Table
    <3>. DEFINE a == s.victimIdx + 1
    <3>1. a \in Int /\ NUM_TABLES > 0
      BY <1>1, <1>3 DEF Table
    <3>. HIDE DEF a
    <3>2. a % NUM_TABLES \in 0 .. NUM_TABLES - 1
      BY <1>3, <3>1
    <3>. QED
      BY <3>2 DEF a, Table
  <2>8. /\ Trial(s).tables = u /\ Trial(s).entry = x /\ Trial(s).success = FALSE
        /\ Trial(s) = [tables |-> u, entry |-> x, victimIdx |-> (s.victimIdx + 1) % NUM_TABLES,
                       victimBit |-> 1 - s.victimBit, success |-> FALSE]
    BY <1>1, <2>3 DEF TrialState
  <2>9. /\ Placed(u)
        /\ \A y : y \in Entries(u) <=> y = s.entry \/ (y \in Entries(s.tables) /\ y \notin S)
    <3>1. u = Put(s.tables, s.entry, v) /\ S = s.tables[v][HashValue[s.entry.key][v]]
      BY <1>2 DEF Put
    <3>. HIDE DEF u, S
    <3>. QED
      BY <1>1, <2>2, <3>1, PutFacts
  <2>10. Trial(s) \in TrialState
    BY <1>1, <2>6, <2>7, <2>8, <2>9 DEF TrialState, Placed
  <2>11. x \in Entries(s.tables)
    BY <2>2, <2>5, <2>6, EntryIn
  <2>. HIDE DEF u, S
  <2>12. \A y \in Entries(u) : y.key # x.key
    BY <1>1, <2>6, <2>9, <2>11
  <2>13. Contents(Trial(s)) = Contents(s)
    BY <1>1, <2>5, <2>6, <2>8, <2>9, <2>11 DEF Contents
  <2>. QED
    BY <2>8, <2>9, <2>10, <2>12, <2>13 DEF TrialInv
<1>. QED
  BY <1>4, <1>5

(* The states of an insertion, one per trial.                              *)
Trials(f, start) ==
  f = [j \in 0 .. MAX_TRIALS |->
         IF j = 0 THEN start ELSE IF f[j - 1].success THEN f[j - 1] ELSE Trial(f[j - 1])]

LEMMA TrialsExist ==
  ASSUME NEW start
  PROVE  \E f : Trials(f, start)
<1>. DEFINE After(x) == IF x.success THEN x ELSE Trial(x)
            Upto(f, m) == f = [j \in 0 .. m |-> IF j = 0 THEN start ELSE After(f[j - 1])]
            B == {m \in Nat : ~ \E f : Upto(f, m)}
<1>. HIDE DEF After
<1>1. B = {}
  <2>. SUFFICES ASSUME B # {} PROVE FALSE
    OBVIOUS
  <2>1. B \subseteq Nat
    OBVIOUS
  <2>2. PICK m \in B : \A x \in B : m <= x
    <3>. HIDE DEF B
    <3>. QED
      BY <2>1, LeastExists
  <2>3. m # 0
    <3>1. Upto([j \in 0 .. 0 |-> start], 0)
      OBVIOUS
    <3>. QED
      BY <3>1
  <2>4. m \in Nat /\ m - 1 \in Nat /\ m - 1 \notin B
    <3>. HIDE DEF B
    <3>. QED
      BY <2>1, <2>2, <2>3
  <2>5. PICK f : Upto(f, m - 1)
    BY <2>4
  <2>. DEFINE g == [j \in 0 .. m |-> IF j = m THEN After(f[m - 1]) ELSE f[j]]
  <2>6. ASSUME NEW j \in 0 .. m
        PROVE  g[j] = IF j = 0 THEN start ELSE After(g[j - 1])
    <3>1. CASE j = m
      <4>1. g[j] = After(f[m - 1]) /\ g[m - 1] = f[m - 1]
        BY <2>3, <2>4, <3>1
      <4>. QED
        BY <2>3, <3>1, <4>1
    <3>2. CASE j # m /\ j # 0
      <4>1. j \in 0 .. m - 1 /\ j - 1 \in 0 .. m /\ j - 1 # m
        BY <2>4, <3>2
      <4>2. g[j] = f[j] /\ g[j - 1] = f[j - 1]
        BY <3>2, <4>1
      <4>3. f[j] = After(f[j - 1])
        BY <2>5, <3>2, <4>1
      <4>. HIDE DEF g
      <4>. QED
        BY <3>2, <4>2, <4>3
    <3>3. CASE j = 0 /\ j # m
      <4>1. g[0] = f[0] /\ 0 \in 0 .. m - 1
        BY <2>4, <3>3
      <4>2. f[0] = start
        BY <2>5, <4>1
      <4>. HIDE DEF g
      <4>. QED
        BY <3>3, <4>1, <4>2
    <3>. QED
      BY <3>1, <3>2, <3>3
  <2>7. Upto(g, m)
    <3>1. g = [j \in 0 .. m |-> g[j]]
      OBVIOUS
    <3>. HIDE DEF g
    <3>. QED
      BY <2>6, <3>1
  <2>. QED
    BY <2>7
<1>2. MAX_TRIALS \in Nat
  BY CuckooInstance
<1>3. \E f : Upto(f, MAX_TRIALS)
  BY <1>1, <1>2
<1>. QED
  BY <1>3 DEF After, Trials

LEMMA InsertIsTrials ==
  ASSUME NEW t, NEW bit, NEW k, NEW v
  PROVE  \E f : /\ Trials(f, [tables |-> t, entry |-> [key |-> k, value |-> v],
                              victimIdx |-> 0, victimBit |-> bit, success |-> FALSE])
               /\ insert(t, bit, k, v) = f[MAX_TRIALS]
<1>. DEFINE start == [tables |-> t, entry |-> [key |-> k, value |-> v],
                      victimIdx |-> 0, victimBit |-> bit, success |-> FALSE]
            f == CHOOSE g : Trials(g, start)
<1>1. insert(t, bit, k, v) = f[MAX_TRIALS]
  BY DEF insert, Trials
<1>2. Trials(f, start)
  <2>. HIDE DEF start
  <2>. QED
    BY TrialsExist
<1>. QED
  BY <1>1, <1>2

(* An insertion of a new key invents no entry, and loses none if it        *)
(* succeeds, whatever it evicts on the way.                                *)
LEMMA InsertFacts ==
  ASSUME NEW t, Placed(t), NEW bit \in {0, 1}, NEW k \in Key, NEW v \in SessionId,
         \A e \in Entries(t) : e.key # k
  PROVE  LET p == insert(t, bit, k, v)
             new == [key |-> k, value |-> v]
         IN  /\ Placed(p.tables) /\ p.victimBit \in {0, 1} /\ p.success \in BOOLEAN
             /\ \A x \in Entries(p.tables) : x \in Entries(t) \/ x = new
             /\ p.success => \A x : x \in Entries(t) \/ x = new => x \in Entries(p.tables)
<1>. DEFINE new == [key |-> k, value |-> v]
            start == [tables |-> t, entry |-> new, victimIdx |-> 0, victimBit |-> bit,
                      success |-> FALSE]
            p == insert(t, bit, k, v)
<1>1. PICK f : Trials(f, start) /\ p = f[MAX_TRIALS]
  BY InsertIsTrials
<1>2. MAX_TRIALS \in Nat
  BY CuckooInstance
<1>3. TrialInv(start) /\ Contents(start) = Entries(t) \cup {new}
  <2>1. start \in TrialState
    BY CuckooInstance DEF TrialState, Placed, htEntry, Table
  <2>. QED
    BY <2>1 DEF TrialInv, Contents
<1>. HIDE DEF p, start
<1>4. /\ f[0] = start
      /\ \A j \in 1 .. MAX_TRIALS :
           f[j] = IF f[j - 1].success THEN f[j - 1] ELSE Trial(f[j - 1])
  <2>. DEFINE G == [j \in 0 .. MAX_TRIALS |->
                      IF j = 0 THEN start
                      ELSE IF f[j - 1].success THEN f[j - 1] ELSE Trial(f[j - 1])]
  <2>1. f = G
    BY <1>1 DEF Trials
  <2>2. /\ G[0] = start
        /\ \A j \in 1 .. MAX_TRIALS :
             G[j] = IF f[j - 1].success THEN f[j - 1] ELSE Trial(f[j - 1])
    BY <1>2
  <2>. HIDE DEF G
  <2>. QED
    BY <2>1, <2>2
<1>. DEFINE Good(x) == TrialInv(x) /\ Contents(x) = Contents(start)
            B == {j \in 0 .. MAX_TRIALS : ~ Good(f[j])}
<1>5. B = {}
  <2>. SUFFICES ASSUME B # {} PROVE FALSE
    OBVIOUS
  <2>1. B \subseteq Nat
    BY <1>2
  <2>2. PICK m \in B : \A x \in B : m <= x
    <3>. HIDE DEF B
    <3>. QED
      BY <2>1, LeastExists
  <2>3. m \in 0 .. MAX_TRIALS /\ ~ Good(f[m])
    OBVIOUS
  <2>4. m # 0
    BY <1>3, <1>4, <2>3
  <2>5. m - 1 \in 0 .. MAX_TRIALS /\ m \in 1 .. MAX_TRIALS
    BY <1>2, <2>3, <2>4
  <2>6. m - 1 \notin B
    <3>. HIDE DEF B
    <3>. QED
      BY <1>2, <2>2, <2>3
  <2>7. Good(f[m - 1])
    BY <2>5, <2>6
  <2>8. f[m] = IF f[m - 1].success THEN f[m - 1] ELSE Trial(f[m - 1])
    BY <1>4, <2>5
  <2>. HIDE DEF B
  <2>. QED
    BY <2>3, <2>7, <2>8, TrialKeeps
<1>6. TrialInv(p) /\ Contents(p) = Entries(t) \cup {new}
  BY <1>1, <1>2, <1>3, <1>5
<1>7. Placed(p.tables) /\ p.victimBit \in {0, 1} /\ p.success \in BOOLEAN
  BY <1>6 DEF TrialInv, TrialState
<1>8. \A x \in Entries(p.tables) : x \in Entries(t) \/ x = new
  BY <1>6 DEF Contents
<1>9. ASSUME p.success
      PROVE  \A x : x \in Entries(t) \/ x = new => x \in Entries(p.tables)
  BY <1>6, <1>9 DEF Contents
<1>. QED
  BY <1>7, <1>8, <1>9 DEF p

LEMMA RemoveFacts ==
  ASSUME NEW t, Placed(t), NEW k \in Key
  PROVE  /\ Placed(remove(t, k))
         /\ \A x : x \in Entries(remove(t, k)) <=> x \in Entries(t) /\ x.key # k
<1>. DEFINE u == remove(t, k)
<1>1. /\ t \in [Table -> [Address -> SUBSET htEntry(SessionId)]]
      /\ \A j \in Table, a \in Address : \A x \in t[j][a] : a = HashValue[x.key][j]
  BY DEF Placed
<1>2. \A i \in Table, a \in Address : u[i][a] = {e \in t[i][a] : e.key # k}
  <2>. TAKE i \in Table, a \in Address
  <2>1. u[i][a] = IF a = HashValue[k][i] THEN {e \in t[i][a] : e.key # k} ELSE t[i][a]
    BY DEF remove, calculate_hashes
  <2>2. a # HashValue[k][i] => \A e \in t[i][a] : e.key # k
    BY <1>1
  <2>. QED
    BY <2>1, <2>2
<1>3. u \in [Table -> [Address -> SUBSET htEntry(SessionId)]]
  <2>1. \A i \in Table, a \in Address : u[i][a] \in SUBSET htEntry(SessionId)
    BY <1>1, <1>2
  <2>2. u = [i \in Table |-> [a \in Address |-> u[i][a]]]
    BY DEF remove
  <2>. HIDE DEF u
  <2>. QED
    BY <2>1, <2>2
<1>. HIDE DEF u
<1>4. Placed(u)
  BY <1>2, <1>3 DEF Placed
<1>5. \A x : x \in Entries(u) <=> x \in Entries(t) /\ x.key # k
  BY <1>2, EntryIn
<1>. QED
  BY <1>4, <1>5 DEF u

LEMMA LookupFacts ==
  ASSUME NEW t, Placed(t), NEW k \in Key
  PROVE  /\ lookup(t, k) = {} => \A e \in Entries(t) : e.key # k
         /\ \A id \in lookup(t, k) : [key |-> k, value |-> id] \in Entries(t)
<1>. DEFINE h == calculate_hashes(k)
            P == {i \in Table : \E e \in t[i][h[i]] : e.key = k}
            slot == LastSlot(P)
<1>1. h = HashValue[k] /\ \A i \in Table : h[i] \in Address
  BY SlotOfKey DEF calculate_hashes
<1>2. lookup(t, k) = IF slot = -1 THEN {} ELSE {e.value : e \in t[slot][h[slot]]}
  BY DEF lookup
<1>3. /\ t \in [Table -> [Address -> SUBSET htEntry(SessionId)]]
      /\ \A j \in Table, a \in Address : \A x \in t[j][a] : a = HashValue[x.key][j]
      /\ \A j \in Table, a \in Address : \A x, y \in t[j][a] : x = y
  BY DEF Placed
<1>. HIDE DEF h
<1>4. P = {} => \A e \in Entries(t) : e.key # k
  BY <1>1, <1>3, EntryIn
<1>5. CASE P = {}
  <2>1. slot = -1
    BY <1>5, LastSlotFacts
  <2>. HIDE DEF slot, P
  <2>. QED
    BY <1>2, <1>4, <1>5, <2>1
<1>6. CASE P # {}
  <2>1. slot \in P /\ slot # -1
    BY <1>6, LastSlotFacts
  <2>2. PICK e \in t[slot][h[slot]] : e.key = k
    BY <2>1
  <2>3. slot \in Table /\ h[slot] \in Address
    BY <1>1, <2>1
  <2>. HIDE DEF slot, P
  <2>4. lookup(t, k) = {x.value : x \in t[slot][h[slot]]}
    BY <1>2, <2>1
  <2>5. \A x \in t[slot][h[slot]] : x = e
    BY <1>3, <2>2, <2>3
  <2>6. e \in htEntry(SessionId)
    BY <1>3, <2>2, <2>3
  <2>7. e = [key |-> k, value |-> e.value]
    BY <2>2, <2>6 DEF htEntry
  <2>8. e \in Entries(t)
    BY <2>2, <2>3, EntryIn
  <2>9. lookup(t, k) # {} /\ \A id \in lookup(t, k) : id = e.value
    BY <2>2, <2>4, <2>5
  <2>. QED
    BY <2>7, <2>8, <2>9
<1>. QED
  BY <1>5, <1>6

(***************************************************************************)
(* A session number is in one place                                        *)
(***************************************************************************)
Has(s, S) == \E i \in 1 .. Len(s) : s[i] \in S

LEMMA CountHas ==
  ASSUME NEW T, NEW s \in Seq(T), NEW S
  PROVE  /\ Count(s, S) \in Nat
         /\ Has(s, S) => Count(s, S) >= 1
         /\ \A i, j \in 1 .. Len(s) : s[i] \in S /\ s[j] \in S /\ Count(s, S) <= 1 => i = j
<1>. DEFINE P == {i \in 1 .. Len(s) : s[i] \in S}
<1>1. Count(s, S) = Cardinality(P) /\ IsFiniteSet(P) /\ Cardinality(P) \in Nat
  BY PlacesFinite DEF Count
<1>2. ASSUME NEW i \in P PROVE Cardinality(P) >= 1
  <2>. HIDE DEF P
  <2>1. Cardinality(P \ {i}) = Cardinality(P) - 1 /\ Cardinality(P \ {i}) \in Nat
    <3>1. IsFiniteSet(P \ {i})
      BY <1>1, FS_RemoveElement
    <3>. QED
      BY <1>1, <1>2, <3>1, FS_RemoveElement, FS_CardinalityType
  <2>. QED
    BY <1>1, <2>1
<1>3. ASSUME NEW i \in P, NEW j \in P, i # j PROVE Cardinality(P) >= 2
  <2>. HIDE DEF P
  <2>. DEFINE Q == P \ {i}
  <2>1. Cardinality(Q) = Cardinality(P) - 1 /\ IsFiniteSet(Q)
    BY <1>1, <1>3, FS_RemoveElement
  <2>2. j \in Q
    BY <1>3
  <2>. HIDE DEF Q
  <2>3. Cardinality(Q \ {j}) = Cardinality(Q) - 1 /\ IsFiniteSet(Q \ {j})
    BY <2>1, <2>2, FS_RemoveElement
  <2>4. Cardinality(Q \ {j}) \in Nat
    BY <2>3, FS_CardinalityType
  <2>. QED
    BY <1>1, <2>1, <2>3, <2>4
<1>4. Has(s, S) => Count(s, S) >= 1
  BY <1>1, <1>2 DEF Has
<1>5. ASSUME NEW i \in 1 .. Len(s), NEW j \in 1 .. Len(s), s[i] \in S, s[j] \in S,
             Count(s, S) <= 1
      PROVE  i = j
  <2>1. i \in P /\ j \in P
    BY <1>5
  <2>. HIDE DEF P
  <2>. QED
    BY <1>1, <1>3, <1>5, <2>1
<1>. HIDE DEF P
<1>. QED
  BY <1>1, <1>4, <1>5

InInsert(id) == \E i \in 1 .. Len(update_req) :
                  update_req[i].op = "INSERT" /\ update_req[i].value = id
InRsp(id) == \E i \in 1 .. Len(update_rsp) : update_rsp[i].value = id
InRev(id) == \E i \in 1 .. Len(revInserts) : revInserts[i].key = id
InDelete(id) == \E i \in 1 .. Len(delete_req) : delete_req[i].value = id

LEMMA OnePlace ==
  ASSUME IdInv, NEW id \in SessionId
  PROVE  /\ InDelete(id) => ~ InRsp(id) /\ ~ InRev(id) /\ ~ tupleValid[id] /\ ~ InInsert(id)
         /\ InRsp(id) => ~ InRev(id) /\ ~ tupleValid[id] /\ ~ InInsert(id)
         /\ InRev(id) => ~ tupleValid[id] /\ ~ InInsert(id)
         /\ tupleValid[id] => ~ InInsert(id)
         /\ \A i, j \in 1 .. Len(delete_req) :
              delete_req[i].value = id /\ delete_req[j].value = id => i = j
         /\ \A i, j \in 1 .. Len(update_rsp) :
              update_rsp[i].value = id /\ update_rsp[j].value = id => i = j
         /\ \A i, j \in 1 .. Len(revInserts) :
              revInserts[i].key = id /\ revInserts[j].key = id => i = j
<1>1. IdTypes /\ IdsConserved
  BY DEF IdInv
<1>2. /\ delete_req \in Seq(Deletion) /\ update_req \in Seq(UpdateRequest)
      /\ update_rsp \in Seq(Insertion) /\ revInserts \in Seq(ReverseEntry)
      /\ tupleValid[id] \in BOOLEAN
  BY <1>1 DEF IdTypes
<1>. DEFINE d == Count(delete_req, DeletionOf(id))
            u == Count(update_req, InsertionOf(id))
            p == Count(update_rsp, InsertionOf(id))
            r == Count(revInserts, ReverseOf(id))
            v == IF tupleValid[id] THEN 1 ELSE 0
<1>3. d \in Nat /\ u \in Nat /\ p \in Nat /\ r \in Nat /\ d + u + p + r + v <= 1
  <2>. DEFINE rest == Count(freeList, {id}) + Count(finFifo, {id}) + Count(insert_req, InsertionOf(id))
  <2>1. d \in Nat /\ u \in Nat /\ p \in Nat /\ r \in Nat /\ rest \in Nat
    BY <1>1, CountsNat
  <2>2. (IF id < counter THEN 1 ELSE 0) = rest + d + u + p + r + v
    <3>1. /\ Count(freeList, {id}) \in Nat /\ Count(finFifo, {id}) \in Nat
          /\ Count(insert_req, InsertionOf(id)) \in Nat
      BY <1>1, CountsNat
    <3>. QED
      BY <1>1, <2>1, <3>1 DEF IdsConserved
  <2>3. v \in {0, 1}
    OBVIOUS
  <2>. HIDE DEF rest, d, u, p, r, v
  <2>. QED
    BY <2>1, <2>2, <2>3
<1>4. \A i \in 1 .. Len(delete_req) : delete_req[i] \in DeletionOf(id) <=> delete_req[i].value = id
  <2>1. \A x \in Deletion : x \in DeletionOf(id) <=> x.value = id
    BY DEF Deletion, DeletionOf
  <2>. QED
    BY <1>2, <2>1
<1>5. \A i \in 1 .. Len(update_req) :
        update_req[i] \in InsertionOf(id)
          <=> update_req[i].op = "INSERT" /\ update_req[i].value = id
  <2>1. \A x \in UpdateRequest : x \in InsertionOf(id) <=> x.op = "INSERT" /\ x.value = id
    BY DEF UpdateRequest, InsertionOf
  <2>. QED
    BY <1>2, <2>1
<1>6. \A i \in 1 .. Len(update_rsp) : update_rsp[i] \in InsertionOf(id) <=> update_rsp[i].value = id
  <2>1. \A x \in Insertion : x \in InsertionOf(id) <=> x.value = id
    BY DEF Insertion, InsertionOf
  <2>. QED
    BY <1>2, <2>1
<1>7. \A i \in 1 .. Len(revInserts) : revInserts[i] \in ReverseOf(id) <=> revInserts[i].key = id
  <2>1. \A x \in ReverseEntry : x \in ReverseOf(id) <=> x.key = id
    BY DEF ReverseEntry, ReverseOf
  <2>. QED
    BY <1>2, <2>1
<1>8. InDelete(id) => d >= 1
  BY <1>2, <1>4, CountHas DEF InDelete, Has
<1>9. InInsert(id) => u >= 1
  BY <1>2, <1>5, CountHas DEF InInsert, Has
<1>10. InRsp(id) => p >= 1
  BY <1>2, <1>6, CountHas DEF InRsp, Has
<1>11. InRev(id) => r >= 1
  BY <1>2, <1>7, CountHas DEF InRev, Has
<1>12. d <= 1 /\ p <= 1 /\ r <= 1
  <2>1. v \in {0, 1}
    OBVIOUS
  <2>. HIDE DEF d, u, p, r, v
  <2>. QED
    BY <1>3, <2>1
<1>13. \A i, j \in 1 .. Len(delete_req) :
         delete_req[i].value = id /\ delete_req[j].value = id => i = j
  BY <1>2, <1>4, <1>12, CountHas
<1>14. \A i, j \in 1 .. Len(update_rsp) :
         update_rsp[i].value = id /\ update_rsp[j].value = id => i = j
  BY <1>2, <1>6, <1>12, CountHas
<1>15. \A i, j \in 1 .. Len(revInserts) :
         revInserts[i].key = id /\ revInserts[j].key = id => i = j
  BY <1>2, <1>7, <1>12, CountHas
<1>16. v = 1 <=> tupleValid[id]
  OBVIOUS
<1>17. v \in {0, 1}
  OBVIOUS
<1>. HIDE DEF d, u, p, r, v
<1>18. /\ InDelete(id) => ~ InRsp(id) /\ ~ InRev(id) /\ ~ tupleValid[id] /\ ~ InInsert(id)
       /\ InRsp(id) => ~ InRev(id) /\ ~ tupleValid[id] /\ ~ InInsert(id)
       /\ InRev(id) => ~ tupleValid[id] /\ ~ InInsert(id)
       /\ tupleValid[id] => ~ InInsert(id)
  BY <1>3, <1>8, <1>9, <1>10, <1>11, <1>16, <1>17
<1>. QED
  BY <1>13, <1>14, <1>15, <1>18

(***************************************************************************)
(* The invariant of the hash table and the reverse table                   *)
(***************************************************************************)
DeleteOf(k, id) == [op |-> "DELETE", key |-> k, value |-> id]
InsertOf(k, id) == [op |-> "INSERT", key |-> k, value |-> id]

(* What the session id may be in the hash table for under the tuple k: it  *)
(* is live, or was just inserted, or is to be deleted.                     *)
Claimed(k, id) ==
  \/ tupleValid[id] /\ reverseLookupTable[id] = k
  \/ \E i \in 1 .. Len(revInserts) : revInserts[i] = [key |-> id, value |-> k]
  \/ \E i \in 1 .. Len(delete_req) : delete_req[i] = DeleteOf(k, id)
  \/ \E i \in 1 .. Len(update_req) : update_req[i] = DeleteOf(k, id)
  \/ \E i \in 1 .. Len(update_rsp) : update_rsp[i] = InsertOf(k, id)

Absent(k) == \A e \in Entries(cuckooTables) : e.key # k

HashInv == Placed(cuckooTables) /\ victimBit \in {0, 1} /\ insertFailureCounter \in Nat

(* The number of a deletion on its way is free already, but an insertion   *)
(* of it is behind the deletion.                                           *)
DeleteInv ==
  \A j \in 1 .. Len(update_req), id \in SessionId :
    update_req[j].op = "DELETE" /\ update_req[j].value = id =>
      /\ \A i \in 1 .. j - 1 : update_req[i].value # id
      /\ ~ InDelete(id) /\ ~ InRsp(id) /\ ~ InRev(id) /\ ~ tupleValid[id]

(* There is one insertion at a time, that of the query in the cache.       *)
IsCached(r) == slc.state = "UPD_RSP" /\ r.key = slc.query.tuple

InsertInv ==
  /\ Len(insert_req) + Count(update_req, Insertion) + Len(update_rsp)
       = IF slc.state = "UPD_RSP" THEN 1 ELSE 0
  /\ \A i \in 1 .. Len(insert_req) : IsCached(insert_req[i])
  /\ \A i \in 1 .. Len(update_req) : update_req[i].op = "INSERT" => IsCached(update_req[i])
  /\ \A i \in 1 .. Len(update_rsp) : IsCached(update_rsp[i])

(* There is one lookup at a time.  What it found is still true when it is  *)
(* answered: a miss is one, and a session that was found is of no other    *)
(* tuple.                                                                  *)
StillTrue(found) ==
  /\ found = {} => Absent(slc.query.tuple)
  /\ \A id \in found : \A e \in Entries(cuckooTables) :
       e.value = id => e.key = slc.query.tuple

LookupInv ==
  /\ slc.state = "LUP_RSP" =>
       \/ lookup_req = <<slc.query>> /\ lookup_rsp = <<>>
       \/ \E found : lookup_req = <<>> /\ lookup_rsp = <<found>> /\ StillTrue(found)
  /\ slc.state # "LUP_RSP" => lookup_req = <<>> /\ lookup_rsp = <<>>
  /\ slc.state = "UPD_RSP" /\ update_rsp = <<>> => Absent(slc.query.tuple)

(* The table holds nothing else than what is claimed, and all of that      *)
(* unless an insertion has failed.                                         *)
EntryInv ==
  /\ \A e \in Entries(cuckooTables) : Claimed(e.key, e.value)
  /\ insertFailureCounter = 0 =>
       \A k \in Key, id \in SessionId :
         Claimed(k, id) => [key |-> k, value |-> id] \in Entries(cuckooTables)

TablesInv == HashInv /\ DeleteInv /\ InsertInv /\ LookupInv /\ EntryInv

tableState == <<cuckooTables, victimBit, insertFailureCounter, slc, lookup_req, lookup_rsp,
                insert_req, delete_req, update_req, update_rsp, revInserts,
                reverseLookupTable, tupleValid>>

claimState == <<delete_req, update_req, update_rsp, revInserts, reverseLookupTable, tupleValid>>

LEMMA ClaimFrame ==
  ASSUME UNCHANGED claimState
  PROVE  /\ \A k, id : Claimed(k, id)' = Claimed(k, id)
         /\ DeleteInv => DeleteInv'
BY DEF claimState, Claimed, DeleteInv, InDelete, InRsp, InRev

LEMMA TablesFrame ==
  ASSUME TablesInv, UNCHANGED tableState
  PROVE  TablesInv'
<1>0. UNCHANGED claimState
  BY DEF tableState, claimState
<1>1. HashInv' /\ DeleteInv'
  BY <1>0, ClaimFrame DEF TablesInv, tableState, HashInv
<1>2. InsertInv' /\ LookupInv'
  BY DEF TablesInv, tableState, InsertInv, LookupInv, IsCached, StillTrue, Absent
<1>3. EntryInv'
  BY <1>0, ClaimFrame DEF TablesInv, tableState, EntryInv
<1>. QED
  BY <1>1, <1>2, <1>3 DEF TablesInv

LEMMA KeyIsTuple == Key = threeTuple
BY SessionsInstance DEF threeTuple

(* No two tuples claim the same number.                                    *)
LEMMA ClaimUnique ==
  ASSUME IdInv, DeleteInv, NEW id \in SessionId, NEW k, NEW l, Claimed(k, id), Claimed(l, id)
  PROVE  k = l
<1>. DEFINE V(x) == tupleValid[id] /\ reverseLookupTable[id] = x
            R(x) == \E i \in 1 .. Len(revInserts) : revInserts[i] = [key |-> id, value |-> x]
            D(x) == \E i \in 1 .. Len(delete_req) : delete_req[i] = DeleteOf(x, id)
            U(x) == \E i \in 1 .. Len(update_req) : update_req[i] = DeleteOf(x, id)
            P(x) == \E i \in 1 .. Len(update_rsp) : update_rsp[i] = InsertOf(x, id)
<1>1. \A x : Claimed(x, id) <=> V(x) \/ R(x) \/ D(x) \/ U(x) \/ P(x)
  BY DEF Claimed
<1>2. \A x : R(x) => InRev(id)
  BY DEF InRev
<1>3. \A x : D(x) => InDelete(id)
  BY DEF InDelete, DeleteOf
<1>4. \A x : P(x) => InRsp(id)
  BY DEF InRsp, InsertOf
<1>5. \A x : U(x) => ~ InDelete(id) /\ ~ InRsp(id) /\ ~ InRev(id) /\ ~ tupleValid[id]
  BY DEF DeleteInv, DeleteOf
<1>6. V(k) /\ V(l) => k = l
  OBVIOUS
<1>7. R(k) /\ R(l) => k = l
  BY OnePlace
<1>8. D(k) /\ D(l) => k = l
  BY OnePlace DEF DeleteOf
<1>9. P(k) /\ P(l) => k = l
  BY OnePlace DEF InsertOf
<1>10. ASSUME U(k), U(l) PROVE k = l
  <2>1. PICK i \in 1 .. Len(update_req) : update_req[i] = DeleteOf(k, id)
    BY <1>10
  <2>2. PICK j \in 1 .. Len(update_req) : update_req[j] = DeleteOf(l, id)
    BY <1>10
  <2>3. i = j
    <3>1. /\ update_req[i].op = "DELETE" /\ update_req[i].value = id
          /\ update_req[j].op = "DELETE" /\ update_req[j].value = id
      BY <2>1, <2>2 DEF DeleteOf
    <3>2. ~ (i \in 1 .. j - 1) /\ ~ (j \in 1 .. i - 1)
      BY <3>1 DEF DeleteInv
    <3>. QED
      BY <3>2
  <2>. QED
    BY <2>1, <2>2, <2>3 DEF DeleteOf
<1>11. /\ InDelete(id) => ~ InRsp(id) /\ ~ InRev(id) /\ ~ tupleValid[id]
       /\ InRsp(id) => ~ InRev(id) /\ ~ tupleValid[id]
       /\ InRev(id) => ~ tupleValid[id]
  BY OnePlace
<1>. HIDE DEF R, D, U, P
<1>. QED
  BY <1>1, <1>2, <1>3, <1>4, <1>5, <1>6, <1>7, <1>8, <1>9, <1>10, <1>11

LEMMA TablesStart == Init => TablesInv
<1>. SUFFICES ASSUME Init PROVE TablesInv
  OBVIOUS
<1>1. \A i \in Table, a \in Address : cuckooTables[i][a] = {}
  BY DEF Init, EmptyTables
<1>2. \A e : e \notin Entries(cuckooTables)
  BY <1>1, EntryIn
<1>3. Placed(cuckooTables)
  <2>1. cuckooTables \in [Table -> [Address -> SUBSET htEntry(SessionId)]]
    BY DEF Init, EmptyTables
  <2>. QED
    BY <1>1, <2>1 DEF Placed
<1>4. /\ Len(insert_req) = 0 /\ Len(update_req) = 0 /\ Len(update_rsp) = 0
      /\ Len(revInserts) = 0 /\ Len(delete_req) = 0
      /\ slc.state = "LUP_REQ" /\ lookup_req = <<>> /\ lookup_rsp = <<>>
      /\ Count(update_req, Insertion) = 0
  BY CountEmpty DEF Init
<1>5. \A id \in SessionId : tupleValid[id] = FALSE
  BY DEF Init
<1>6. HashInv
  BY <1>3 DEF HashInv, Init
<1>7. DeleteInv
  BY <1>4 DEF DeleteInv
<1>8. InsertInv
  BY <1>4 DEF InsertInv
<1>9. LookupInv
  BY <1>4 DEF LookupInv
<1>10. EntryInv
  <2>1. \A k, id : id \in SessionId => ~ Claimed(k, id)
    BY <1>4, <1>5 DEF Claimed
  <2>. QED
    BY <1>2, <2>1 DEF EntryInv
<1>. QED
  BY <1>6, <1>7, <1>8, <1>9, <1>10 DEF TablesInv

LEMMA SlcFacts ==
  ASSUME QueryTypes
  PROVE  /\ slc.state \in {"LUP_REQ", "LUP_RSP", "UPD_RSP"}
         /\ slc.state # "LUP_REQ" => slc.query \in LookupQuery /\ slc.query.tuple \in Key
BY KeyIsTuple DEF QueryTypes, LookupQuery

LEMMA LookupRequestTables ==
  ASSUME SessionInv, TablesInv, LookupRequest
  PROVE  TablesInv'
<1>1. PICK q : /\ lookup_req' = Append(lookup_req, q)
               /\ slc' = [state |-> "LUP_RSP", query |-> q]
  BY DEF LookupRequest
<1>2. /\ slc.state = "LUP_REQ" /\ lookup_rsp' = lookup_rsp
      /\ UNCHANGED <<hashVars, insert_req, update_req, update_rsp>> /\ UNCHANGED claimState
  BY DEF LookupRequest, hashVars, updateVars, reverseVars, claimState
<1>3. HashInv' /\ DeleteInv' /\ EntryInv'
  BY <1>2, ClaimFrame DEF TablesInv, HashInv, EntryInv, hashVars
<1>4. lookup_req' = <<q>> /\ lookup_rsp' = <<>> /\ slc'.state = "LUP_RSP" /\ slc'.query = q
  <2>1. lookup_req = <<>> /\ lookup_rsp = <<>>
    BY <1>2 DEF TablesInv, LookupInv
  <2>. QED
    BY <1>1, <1>2, <2>1
<1>5. LookupInv'
  BY <1>4 DEF LookupInv
<1>6. InsertInv'
  <2>1. insert_req \in Seq(Insertion) /\ update_req \in Seq(UpdateRequest) /\ update_rsp \in Seq(Insertion)
    BY DEF SessionInv, IdTypes
  <2>2. Len(insert_req) + Count(update_req, Insertion) + Len(update_rsp) = 0
    BY <1>2 DEF TablesInv, InsertInv
  <2>3. \A i \in 1 .. Len(update_req) : update_req[i].op # "INSERT"
    BY <1>2 DEF TablesInv, InsertInv, IsCached
  <2>4. Len(insert_req) \in Nat /\ Len(update_rsp) \in Nat /\ Count(update_req, Insertion) \in Nat
    BY <2>1, CountHas
  <2>5. Len(insert_req) = 0 /\ Len(update_rsp) = 0
    BY <2>2, <2>4
  <2>. QED
    BY <1>2, <1>4, <2>2, <2>3, <2>5 DEF InsertInv
<1>. QED
  BY <1>3, <1>5, <1>6 DEF TablesInv

LEMMA LookupReplyTables ==
  ASSUME SessionInv, TablesInv, LookupReply
  PROVE  TablesInv'
<1>1. /\ slc.state = "LUP_RSP" /\ lookup_rsp # <<>> /\ lookup_rsp' = Tail(lookup_rsp)
      /\ UNCHANGED <<hashVars, lookup_req, update_req, update_rsp>> /\ UNCHANGED claimState
  BY DEF LookupReply, hashVars, reverseVars, claimState
<1>2. HashInv' /\ DeleteInv' /\ EntryInv'
  BY <1>1, ClaimFrame DEF TablesInv, HashInv, EntryInv, hashVars
<1>3. PICK found : lookup_req = <<>> /\ lookup_rsp = <<found>> /\ StillTrue(found)
  BY <1>1 DEF TablesInv, LookupInv
<1>4. lookup_rsp' = <<>> /\ lookup_req' = <<>> /\ Head(lookup_rsp) = found
  BY <1>1, <1>3
<1>5. insert_req \in Seq(Insertion) /\ update_req \in Seq(UpdateRequest) /\ update_rsp \in Seq(Insertion)
  BY DEF SessionInv, IdTypes
<1>6. /\ Len(insert_req) = 0 /\ Len(update_rsp) = 0 /\ Count(update_req, Insertion) = 0
      /\ insert_req = <<>> /\ update_rsp = <<>>
      /\ \A i \in 1 .. Len(update_req) : update_req[i].op # "INSERT"
  <2>1. Len(insert_req) + Count(update_req, Insertion) + Len(update_rsp) = 0
    BY <1>1 DEF TablesInv, InsertInv
  <2>2. Len(insert_req) \in Nat /\ Len(update_rsp) \in Nat /\ Count(update_req, Insertion) \in Nat
    BY <1>5, CountHas
  <2>3. Len(insert_req) = 0 /\ Len(update_rsp) = 0 /\ Count(update_req, Insertion) = 0
    BY <2>1, <2>2
  <2>4. insert_req = <<>> /\ update_rsp = <<>>
    BY <1>5, <2>3, EmptySeq
  <2>. QED
    BY <1>1, <2>3, <2>4 DEF TablesInv, InsertInv, IsCached
<1>7. CASE /\ found = {} /\ slc' = [slc EXCEPT !.state = "UPD_RSP"]
           /\ insert_req' = Append(insert_req, InsertOf(slc.query.tuple, Head(freeList)))
  <2>1. slc'.state = "UPD_RSP" /\ slc'.query = slc.query
    <3>1. slc \in [state : {"LUP_RSP", "UPD_RSP"}, query : LookupQuery]
      BY <1>1 DEF SessionInv, QueryTypes
    <3>. QED
      BY <1>7, <3>1
  <2>2. insert_req' = <<InsertOf(slc.query.tuple, Head(freeList))>>
    BY <1>6, <1>7
  <2>3. InsertInv'
    <3>1. Len(insert_req') = 1 /\ insert_req'[1].key = slc.query.tuple
      BY <2>2 DEF InsertOf
    <3>2. update_req' = update_req /\ update_rsp' = update_rsp
      BY <1>1
    <3>. QED
      BY <1>6, <2>1, <3>1, <3>2 DEF InsertInv, IsCached
  <2>4. Absent(slc.query.tuple)
    BY <1>3, <1>7 DEF StillTrue
  <2>5. LookupInv'
    BY <1>1, <1>4, <2>1, <2>4 DEF LookupInv, Absent, hashVars
  <2>. QED
    BY <1>2, <2>3, <2>5 DEF TablesInv
<1>8. CASE slc' = [state |-> "LUP_REQ"] /\ insert_req' = insert_req
  <2>1. slc'.state = "LUP_REQ"
    BY <1>8
  <2>2. InsertInv'
    BY <1>1, <1>6, <1>8, <2>1 DEF InsertInv
  <2>3. LookupInv'
    BY <1>4, <2>1 DEF LookupInv
  <2>. QED
    BY <1>2, <2>2, <2>3 DEF TablesInv
<1>. QED
  BY <1>4, <1>7, <1>8 DEF LookupReply, InsertOf

LEMMA InsertReplyTables ==
  ASSUME SessionInv, TablesInv, InsertReply
  PROVE  TablesInv'
<1>1. /\ slc.state = "UPD_RSP" /\ update_rsp # <<>> /\ update_rsp' = Tail(update_rsp)
      /\ revInserts' = Append(revInserts, [key |-> Head(update_rsp).value, value |-> slc.query.tuple])
      /\ slc' = [state |-> "LUP_REQ"]
      /\ UNCHANGED <<cuckooTables, victimBit, insertFailureCounter, lookup_req, lookup_rsp,
                     insert_req, update_req, delete_req, reverseLookupTable, tupleValid>>
  BY DEF InsertReply, hashVars
<1>2. /\ insert_req \in Seq(Insertion) /\ update_req \in Seq(UpdateRequest)
      /\ update_rsp \in Seq(Insertion) /\ revInserts \in Seq(ReverseEntry)
  BY DEF SessionInv, IdTypes
<1>3. Len(update_rsp) \in Nat \ {0} /\ Head(update_rsp) = update_rsp[1]
  BY <1>1, <1>2, Popped
<1>4. /\ Len(insert_req) = 0 /\ Len(update_rsp) = 1 /\ Count(update_req, Insertion) = 0
  <2>1. Len(insert_req) + Count(update_req, Insertion) + Len(update_rsp) = 1
    BY <1>1 DEF TablesInv, InsertInv
  <2>2. Len(insert_req) \in Nat /\ Count(update_req, Insertion) \in Nat
    BY <1>2, CountHas
  <2>. DEFINE a == Len(insert_req)
              b == Count(update_req, Insertion)
              c == Len(update_rsp)
  <2>3. a \in Nat /\ b \in Nat /\ c \in Nat \ {0} /\ a + b + c = 1
    BY <1>3, <2>1, <2>2
  <2>. HIDE DEF a, b, c
  <2>4. a = 0 /\ b = 0 /\ c = 1
    BY <2>3
  <2>. QED
    BY <2>4 DEF a, b, c
<1>5. \A i \in 1 .. Len(update_req) : update_req[i].op # "INSERT"
  <2>. SUFFICES ASSUME NEW i \in 1 .. Len(update_req), update_req[i].op = "INSERT"
                PROVE  FALSE
    OBVIOUS
  <2>1. update_req[i] \in Insertion
    <3>1. \A x \in UpdateRequest : x.op = "INSERT" => x \in Insertion
      BY DEF UpdateRequest, Insertion
    <3>. QED
      BY <1>2, <3>1
  <2>. QED
    BY <1>2, <1>4, <2>1, CountHas DEF Has
<1>6. update_rsp' = <<>> /\ Len(update_rsp') = 0
  BY <1>1, <1>2, <1>4, Popped, EmptySeq
<1>. DEFINE r == update_rsp[1]
            id == r.value
            k == slc.query.tuple
            n == Len(revInserts)
<1>7. r \in Insertion /\ id \in SessionId /\ r.key = k /\ r = InsertOf(k, id)
  <2>1. r \in Insertion
    BY <1>1, <1>2, Popped
  <2>2. r.key = k
    BY <1>4 DEF TablesInv, InsertInv, IsCached
  <2>. QED
    BY <2>1, <2>2 DEF Insertion, InsertOf
<1>8. /\ n \in Nat /\ Len(revInserts') = n + 1
      /\ \A i \in 1 .. n : revInserts'[i] = revInserts[i]
      /\ revInserts'[n + 1] = [key |-> id, value |-> k]
  <2>1. [key |-> id, value |-> k] \in ReverseEntry
    BY <1>7 DEF ReverseEntry, Insertion
  <2>. QED
    BY <1>1, <1>2, <1>3, <2>1, AppendProperties
<1>9. InRsp(id) /\ \A x : InRsp(x) => x = id
  BY <1>4 DEF InRsp
<1>. HIDE DEF r, id, k, n
<1>10. \A l, x : Claimed(l, x)' <=> Claimed(l, x)
  <2>. TAKE l, x
  <2>1. (\E i \in 1 .. Len(update_rsp) : update_rsp[i] = InsertOf(l, x)) <=> l = k /\ x = id
    <3>1. (\E i \in 1 .. Len(update_rsp) : update_rsp[i] = InsertOf(l, x)) <=> r = InsertOf(l, x)
      BY <1>4 DEF r
    <3>. QED
      BY <1>7, <3>1 DEF InsertOf
  <2>2. (\E i \in 1 .. Len(revInserts') : revInserts'[i] = [key |-> x, value |-> l])
        <=> \/ \E i \in 1 .. Len(revInserts) : revInserts[i] = [key |-> x, value |-> l]
            \/ l = k /\ x = id
    <3>1. [key |-> id, value |-> k] = [key |-> x, value |-> l] <=> l = k /\ x = id
      OBVIOUS
    <3>. QED
      BY <1>8, <3>1 DEF n
  <2>3. ~ \E i \in 1 .. Len(update_rsp') : update_rsp'[i] = InsertOf(l, x)
    BY <1>6
  <2>. QED
    BY <1>1, <2>1, <2>2, <2>3 DEF Claimed
<1>11. DeleteInv'
  <2>1. \A x : InRev(x)' => InRev(x) \/ x = id
    <3>. SUFFICES ASSUME NEW x, NEW i \in 1 .. Len(revInserts'), revInserts'[i].key = x
                  PROVE  InRev(x) \/ x = id
      BY DEF InRev
    <3>1. CASE i = n + 1
      BY <1>8, <3>1
    <3>2. CASE i # n + 1
      <4>1. i \in 1 .. Len(revInserts) /\ revInserts[i].key = x
        BY <1>8, <3>2 DEF n
      <4>. QED
        BY <4>1 DEF InRev
    <3>. QED
      BY <3>1, <3>2
  <2>2. \A x : ~ InRsp(x)'
    BY <1>6 DEF InRsp
  <2>3. \A x : InDelete(x)' = InDelete(x)
    BY <1>1 DEF InDelete
  <2>4. DeleteInv
    BY DEF TablesInv
  <2>. QED
    BY <1>1, <1>9, <2>1, <2>2, <2>3, <2>4 DEF DeleteInv
<1>12. HashInv' /\ EntryInv'
  BY <1>1, <1>10 DEF TablesInv, HashInv, EntryInv
<1>13. slc'.state = "LUP_REQ"
  BY <1>1
<1>14. InsertInv'
  BY <1>1, <1>4, <1>5, <1>6, <1>13 DEF InsertInv
<1>15. LookupInv'
  BY <1>1, <1>13 DEF TablesInv, LookupInv
<1>. QED
  BY <1>11, <1>12, <1>14, <1>15 DEF TablesInv

LEMMA RequestKinds ==
  /\ \A x \in UpdateRequest : x.op = "INSERT" => x \in Insertion
  /\ \A x \in UpdateRequest : x.op = "DELETE" => x \in Deletion
  /\ \A x \in UpdateRequest : x.op \in {"INSERT", "DELETE"} /\ x.key \in threeTuple /\ x.value \in SessionId
  /\ \A x \in Insertion : x \in UpdateRequest /\ x.op = "INSERT" /\ x.key \in threeTuple
                          /\ x.value \in SessionId /\ x = InsertOf(x.key, x.value)
  /\ \A x \in Deletion : x \in UpdateRequest /\ x.op = "DELETE" /\ x.key \in threeTuple
                         /\ x.value \in SessionId /\ x = DeleteOf(x.key, x.value)
<1>1. \A x \in UpdateRequest : x.op = "INSERT" => x \in Insertion
  BY DEF UpdateRequest, Insertion
<1>2. \A x \in UpdateRequest : x.op = "DELETE" => x \in Deletion
  BY DEF UpdateRequest, Deletion
<1>3. \A x \in UpdateRequest : x.op \in {"INSERT", "DELETE"} /\ x.key \in threeTuple /\ x.value \in SessionId
  BY DEF UpdateRequest
<1>4. \A x \in Insertion : x \in UpdateRequest /\ x.op = "INSERT" /\ x.key \in threeTuple
                           /\ x.value \in SessionId /\ x = InsertOf(x.key, x.value)
  BY DEF UpdateRequest, Insertion, InsertOf
<1>5. \A x \in Deletion : x \in UpdateRequest /\ x.op = "DELETE" /\ x.key \in threeTuple
                          /\ x.value \in SessionId /\ x = DeleteOf(x.key, x.value)
  BY DEF UpdateRequest, Deletion, DeleteOf
<1>. QED
  BY <1>1, <1>2, <1>3, <1>4, <1>5

LEMMA QueueTypes ==
  ASSUME SessionInv
  PROVE  /\ insert_req \in Seq(Insertion) /\ update_req \in Seq(UpdateRequest)
         /\ update_rsp \in Seq(Insertion) /\ revInserts \in Seq(ReverseEntry)
         /\ delete_req \in Seq(Deletion) /\ releases \in Seq(SessionId) /\ IdInv
         /\ Len(insert_req) \in Nat /\ Len(update_rsp) \in Nat /\ Len(update_req) \in Nat
         /\ Count(update_req, Insertion) \in Nat
<1>1. /\ insert_req \in Seq(Insertion) /\ update_req \in Seq(UpdateRequest)
      /\ update_rsp \in Seq(Insertion) /\ revInserts \in Seq(ReverseEntry)
      /\ delete_req \in Seq(Deletion) /\ releases \in Seq(SessionId) /\ IdInv
  BY DEF SessionInv, IdInv, IdTypes
<1>. QED
  BY <1>1, CountHas

LEMMA SendInsertTables ==
  ASSUME SessionInv, TablesInv, insert_req # <<>>,
         update_req' = Append(update_req, Head(insert_req)), insert_req' = Tail(insert_req),
         UNCHANGED <<cuckooTables, victimBit, insertFailureCounter, slc, lookup_req, lookup_rsp,
                     delete_req, update_rsp, revInserts, reverseLookupTable, tupleValid>>
  PROVE  TablesInv'
<1>. DEFINE r == insert_req[1]
            n == Len(update_req)
<1>1. /\ insert_req \in Seq(Insertion) /\ update_req \in Seq(UpdateRequest)
      /\ update_rsp \in Seq(Insertion) /\ n \in Nat /\ Len(update_rsp) \in Nat
      /\ Count(update_req, Insertion) \in Nat
  BY QueueTypes
<1>2. /\ Len(insert_req) \in Nat \ {0} /\ Head(insert_req) = r /\ r \in Insertion
      /\ Len(insert_req') = Len(insert_req) - 1
      /\ \A i \in 1 .. Len(insert_req) - 1 : insert_req'[i] = insert_req[i + 1]
  BY <1>1, Popped
<1>3. r \in UpdateRequest /\ r.op = "INSERT"
  BY <1>2, RequestKinds
<1>4. /\ Len(update_req') = n + 1 /\ update_req'[n + 1] = r
      /\ \A i \in 1 .. n : update_req'[i] = update_req[i]
  BY <1>1, <1>2, <1>3, AppendProperties
<1>5. Count(update_req', Insertion) = Count(update_req, Insertion) + 1
  BY <1>1, <1>2, <1>3, CountAppend
<1>. HIDE DEF r, n
<1>6. ASSUME NEW l, NEW x PROVE Claimed(l, x)' <=> Claimed(l, x)
  <2>1. r # DeleteOf(l, x)
    BY <1>3 DEF DeleteOf
  <2>2. (\E i \in 1 .. Len(update_req') : update_req'[i] = DeleteOf(l, x))
        <=> (\E i \in 1 .. Len(update_req) : update_req[i] = DeleteOf(l, x))
    <3>. DEFINE z == DeleteOf(l, x)
    <3>. HIDE DEF z
    <3>1. ASSUME NEW i \in 1 .. n + 1, update_req'[i] = z
          PROVE  i \in 1 .. n /\ update_req[i] = z
      <4>1. i # n + 1
        BY <1>4, <2>1, <3>1 DEF z
      <4>2. i \in 1 .. n
        BY <1>1, <4>1
      <4>. QED
        BY <1>4, <3>1, <4>2
    <3>2. ASSUME NEW i \in 1 .. n, update_req[i] = z
          PROVE  i \in 1 .. n + 1 /\ update_req'[i] = z
      BY <1>1, <1>4, <3>2
    <3>. QED
      BY <1>4, <3>1, <3>2 DEF z, n
  <2>. QED
    BY <2>2 DEF Claimed
<1>7. HashInv' /\ EntryInv'
  BY <1>6 DEF TablesInv, HashInv, EntryInv
<1>8. DeleteInv'
  <2>. SUFFICES ASSUME NEW j \in 1 .. Len(update_req'), NEW id \in SessionId,
                       update_req'[j].op = "DELETE", update_req'[j].value = id
                PROVE  /\ \A i \in 1 .. j - 1 : update_req'[i].value # id
                       /\ ~ InDelete(id)' /\ ~ InRsp(id)' /\ ~ InRev(id)' /\ ~ tupleValid'[id]
    BY DEF DeleteInv
  <2>1. j # n + 1
    BY <1>3, <1>4
  <2>2. j \in 1 .. n /\ \A i \in 1 .. j - 1 : i \in 1 .. n
    BY <1>1, <1>4, <2>1
  <2>3. InDelete(id)' = InDelete(id) /\ InRsp(id)' = InRsp(id) /\ InRev(id)' = InRev(id)
    BY DEF InDelete, InRsp, InRev
  <2>4. DeleteInv
    BY DEF TablesInv
  <2>. QED
    BY <1>4, <2>2, <2>3, <2>4 DEF DeleteInv, n
<1>9. InsertInv'
  <2>0. InsertInv
    BY DEF TablesInv
  <2>1. Len(insert_req') + Count(update_req', Insertion) + Len(update_rsp')
          = IF slc'.state = "UPD_RSP" THEN 1 ELSE 0
    BY <1>1, <1>2, <1>5, <2>0 DEF InsertInv
  <2>2. \A y : IsCached(y)' = IsCached(y)
    BY DEF IsCached
  <2>3. IsCached(r)
    BY <1>2, <2>0 DEF InsertInv, r
  <2>4. \A i \in 1 .. Len(insert_req') : IsCached(insert_req'[i])
    <3>. TAKE i \in 1 .. Len(insert_req')
    <3>1. i \in 1 .. Len(insert_req) - 1 /\ i + 1 \in 1 .. Len(insert_req)
      BY <1>2
    <3>. QED
      BY <1>2, <2>0, <3>1 DEF InsertInv
  <2>5. \A i \in 1 .. Len(update_req') : update_req'[i].op = "INSERT" => IsCached(update_req'[i])
    <3>. TAKE i \in 1 .. Len(update_req')
    <3>1. CASE i = n + 1
      BY <1>4, <2>3, <3>1
    <3>2. CASE i # n + 1
      <4>1. i \in 1 .. n
        BY <1>1, <1>4, <3>2
      <4>. QED
        BY <1>4, <2>0, <4>1 DEF InsertInv, n
    <3>. QED
      BY <3>1, <3>2
  <2>. QED
    BY <2>0, <2>1, <2>2, <2>4, <2>5 DEF InsertInv
<1>10. LookupInv'
  BY DEF TablesInv, LookupInv, StillTrue, Absent
<1>. QED
  BY <1>7, <1>8, <1>9, <1>10 DEF TablesInv

LEMMA SendDeleteTables ==
  ASSUME SessionInv, TablesInv, delete_req # <<>>,
         update_req' = Append(update_req, Head(delete_req)), delete_req' = Tail(delete_req),
         UNCHANGED <<cuckooTables, victimBit, insertFailureCounter, slc, lookup_req, lookup_rsp,
                     insert_req, update_rsp, revInserts, reverseLookupTable, tupleValid>>
  PROVE  TablesInv'
<1>. DEFINE r == delete_req[1]
            n == Len(update_req)
            m == Len(delete_req)
<1>1. /\ delete_req \in Seq(Deletion) /\ update_req \in Seq(UpdateRequest) /\ n \in Nat /\ IdInv
  BY QueueTypes
<1>2. /\ m \in Nat \ {0} /\ Head(delete_req) = r /\ r \in Deletion
      /\ Len(delete_req') = m - 1
      /\ \A i \in 1 .. m - 1 : delete_req'[i] = delete_req[i + 1]
  BY <1>1, Popped
<1>3. r \in UpdateRequest /\ r.op = "DELETE" /\ r.value \in SessionId
  BY <1>2, RequestKinds
<1>4. /\ Len(update_req') = n + 1 /\ update_req'[n + 1] = r
      /\ \A i \in 1 .. n : update_req'[i] = update_req[i]
  BY <1>1, <1>2, <1>3, AppendProperties
<1>5. Count(update_req', Insertion) = Count(update_req, Insertion)
  <2>1. r \notin Insertion
    BY <1>3 DEF Insertion
  <2>. QED
    BY <1>1, <1>2, <1>3, <2>1, CountAppend
<1>. HIDE DEF r, n, m
<1>6. ASSUME NEW l, NEW x PROVE Claimed(l, x)' <=> Claimed(l, x)
  <2>. DEFINE z == DeleteOf(l, x)
              U == \E i \in 1 .. Len(update_req) : update_req[i] = z
              D == \E i \in 1 .. Len(delete_req) : delete_req[i] = z
              UU == \E i \in 1 .. Len(update_req') : update_req'[i] = z
              DD == \E i \in 1 .. Len(delete_req') : delete_req'[i] = z
  <2>. HIDE DEF z
  <2>1. UU => U \/ z = r
    <3>. SUFFICES ASSUME NEW i \in 1 .. n + 1, update_req'[i] = z, z # r PROVE U
      BY <1>4
    <3>1. i # n + 1
      BY <1>4
    <3>2. i \in 1 .. n
      BY <1>1, <3>1
    <3>. QED
      BY <1>4, <3>2 DEF n
  <2>2. U => UU
    BY <1>1, <1>4 DEF n
  <2>3. z = r => UU /\ D
    <3>1. n + 1 \in 1 .. n + 1 /\ 1 \in 1 .. m
      BY <1>1, <1>2
    <3>. QED
      BY <1>4, <3>1 DEF r, m
  <2>4. D => DD \/ z = r
    <3>. SUFFICES ASSUME NEW i \in 1 .. m, delete_req[i] = z, z # r PROVE DD
      BY DEF m
    <3>1. i # 1
      BY DEF r
    <3>2. i - 1 \in 1 .. m - 1 /\ (i - 1) + 1 = i
      BY <1>2, <3>1
    <3>. QED
      BY <1>2, <3>2
  <2>5. DD => D
    <3>. SUFFICES ASSUME NEW i \in 1 .. m - 1, delete_req'[i] = z PROVE D
      BY <1>2
    <3>1. i + 1 \in 1 .. m
      BY <1>2
    <3>. QED
      BY <1>2, <3>1 DEF m
  <2>6. (U \/ D) <=> (UU \/ DD)
    BY <2>1, <2>2, <2>3, <2>4, <2>5
  <2>. QED
    BY <2>6 DEF Claimed, z
<1>7. HashInv' /\ EntryInv'
  BY <1>6 DEF TablesInv, HashInv, EntryInv
<1>8. DeleteInv'
  <2>. SUFFICES ASSUME NEW j \in 1 .. Len(update_req'), NEW id \in SessionId,
                       update_req'[j].op = "DELETE", update_req'[j].value = id
                PROVE  /\ \A i \in 1 .. j - 1 : update_req'[i].value # id
                       /\ ~ InDelete(id)' /\ ~ InRsp(id)' /\ ~ InRev(id)' /\ ~ tupleValid'[id]
    BY DEF DeleteInv
  <2>1. InRsp(id)' = InRsp(id) /\ InRev(id)' = InRev(id)
    BY DEF InRsp, InRev
  <2>2. InDelete(id)' => \E i \in 1 .. m : i # 1 /\ delete_req[i].value = id
    <3>. SUFFICES ASSUME NEW i \in 1 .. m - 1, delete_req'[i].value = id
                  PROVE  \E o \in 1 .. m : o # 1 /\ delete_req[o].value = id
      BY <1>2 DEF InDelete
    <3>1. i + 1 \in 1 .. m /\ i + 1 # 1
      BY <1>2
    <3>. QED
      BY <1>2, <3>1
  <2>3. InDelete(id)' => InDelete(id)
    BY <2>2 DEF InDelete, m
  <2>4. DeleteInv
    BY DEF TablesInv
  <2>5. CASE j # n + 1
    <3>1. j \in 1 .. n /\ \A i \in 1 .. j - 1 : i \in 1 .. n
      BY <1>1, <1>4, <2>5
    <3>. QED
      BY <1>4, <2>1, <2>3, <2>4, <3>1 DEF DeleteInv, n
  <2>6. CASE j = n + 1
    <3>1. update_req'[j] = r /\ j - 1 = n /\ r.value = id
      BY <1>1, <1>4, <2>6
    <3>2. 1 \in 1 .. m /\ delete_req[1].value = id
      BY <1>2, <3>1 DEF r
    <3>3. InDelete(id)
      BY <3>2 DEF InDelete, m
    <3>4. ~ InRsp(id) /\ ~ InRev(id) /\ ~ tupleValid[id] /\ ~ InInsert(id)
      BY <1>1, <1>3, <3>3, OnePlace
    <3>5. ~ InDelete(id)'
      <4>1. \A i \in 1 .. m : delete_req[i].value = id => i = 1
        BY <1>1, <1>3, <3>2, OnePlace DEF m
      <4>. QED
        BY <2>2, <4>1
    <3>6. ASSUME NEW i \in 1 .. n PROVE update_req'[i].value # id
      <4>1. update_req'[i] = update_req[i]
        BY <1>4
      <4>2. update_req[i] \in UpdateRequest
        BY <1>1, <3>6 DEF n
      <4>3. update_req[i].op \in {"INSERT", "DELETE"}
        BY <4>2, RequestKinds
      <4>4. update_req[i].op = "INSERT" => update_req[i].value # id
        BY <3>4, <3>6 DEF InInsert, n
      <4>5. update_req[i].op = "DELETE" => update_req[i].value # id
        BY <2>4, <3>3, <3>6 DEF DeleteInv, n
      <4>. QED
        BY <4>1, <4>3, <4>4, <4>5
    <3>. QED
      BY <2>1, <3>1, <3>4, <3>5, <3>6
  <2>. QED
    BY <2>5, <2>6
<1>9. InsertInv'
  <2>0. InsertInv
    BY DEF TablesInv
  <2>1. \A y : IsCached(y)' = IsCached(y)
    BY DEF IsCached
  <2>2. \A i \in 1 .. Len(update_req') : update_req'[i].op = "INSERT" => IsCached(update_req'[i])
    <3>. TAKE i \in 1 .. Len(update_req')
    <3>1. CASE i = n + 1
      BY <1>3, <1>4, <3>1
    <3>2. CASE i # n + 1
      <4>1. i \in 1 .. n
        BY <1>1, <1>4, <3>2
      <4>. QED
        BY <1>4, <2>0, <4>1 DEF InsertInv, n
    <3>. QED
      BY <3>1, <3>2
  <2>. QED
    BY <1>5, <2>0, <2>1, <2>2 DEF InsertInv
<1>10. LookupInv'
  BY DEF TablesInv, LookupInv, StillTrue, Absent
<1>. QED
  BY <1>7, <1>8, <1>9, <1>10 DEF TablesInv

(* What the entries of the tables are.                                     *)
LEMMA EntryTypes ==
  ASSUME NEW t, Placed(t), NEW e \in Entries(t)
  PROVE  /\ e \in htEntry(SessionId) /\ e.key \in Key /\ e.value \in SessionId
         /\ e = [key |-> e.key, value |-> e.value]
         /\ \A f \in Entries(t) : e.key = f.key => e = f
<1>1. PICK i \in Table, a \in Address : e \in t[i][a]
  BY EntryIn
<1>2. e \in htEntry(SessionId)
  BY <1>1 DEF Placed
<1>3. e.key \in Key /\ e.value \in SessionId /\ e = [key |-> e.key, value |-> e.value]
  BY <1>2 DEF htEntry
<1>4. \A f \in Entries(t) : e.key = f.key => e = f
  BY <1>1, EntryIn DEF Placed
<1>. QED
  BY <1>2, <1>3, <1>4

LEMMA LookupTables ==
  ASSUME SessionInv, TablesInv, lookup_req # <<>>,
         lookup_rsp' = Append(lookup_rsp, lookup(cuckooTables, Head(lookup_req).tuple)),
         lookup_req' = Tail(lookup_req),
         UNCHANGED <<cuckooTables, victimBit, insertFailureCounter, slc, insert_req,
                     delete_req, update_req, update_rsp, revInserts, reverseLookupTable, tupleValid>>
  PROVE  TablesInv'
<1>0. UNCHANGED claimState
  BY DEF claimState
<1>1. HashInv' /\ DeleteInv' /\ EntryInv'
  BY <1>0, ClaimFrame DEF TablesInv, HashInv, EntryInv
<1>2. InsertInv'
  BY DEF TablesInv, InsertInv, IsCached
<1>. DEFINE k == slc.query.tuple
            found == lookup(cuckooTables, k)
<1>3. slc.state = "LUP_RSP" /\ lookup_req = <<slc.query>> /\ lookup_rsp = <<>>
  BY DEF TablesInv, LookupInv
<1>4. k \in Key
  BY <1>3, SlcFacts DEF SessionInv
<1>5. lookup_req' = <<>> /\ lookup_rsp' = <<found>>
  BY <1>3
<1>6. Placed(cuckooTables) /\ IdInv /\ DeleteInv
  BY QueueTypes DEF TablesInv, HashInv
<1>7. /\ found = {} => Absent(k)
      /\ \A id \in found : [key |-> k, value |-> id] \in Entries(cuckooTables)
  BY <1>4, <1>6, LookupFacts DEF Absent
<1>8. ASSUME NEW id \in found, NEW e \in Entries(cuckooTables), e.value = id
      PROVE  e.key = k
  <2>. DEFINE f == [key |-> k, value |-> id]
  <2>1. f \in Entries(cuckooTables)
    BY <1>7, <1>8
  <2>2. Claimed(f.key, f.value) /\ Claimed(e.key, e.value)
    <3>. HIDE DEF f
    <3>. QED
      BY <2>1 DEF TablesInv, EntryInv
  <2>3. e.value \in SessionId /\ f.key = k /\ f.value = id
    BY <1>6, EntryTypes
  <2>. HIDE DEF found, f, k
  <2>. QED
    BY <1>6, <1>8, <2>2, <2>3, ClaimUnique
<1>. HIDE DEF found
<1>9. StillTrue(found)
  BY <1>7, <1>8 DEF StillTrue
<1>10. LookupInv'
  BY <1>3, <1>5, <1>9 DEF LookupInv, StillTrue, Absent
<1>. QED
  BY <1>1, <1>2, <1>10 DEF TablesInv

LEMMA HashInsertTables ==
  ASSUME SessionInv, TablesInv, update_req # <<>>, Head(update_req).op = "INSERT",
         cuckooTables' = insert(cuckooTables, victimBit, Head(update_req).key, Head(update_req).value).tables,
         victimBit' = insert(cuckooTables, victimBit, Head(update_req).key, Head(update_req).value).victimBit,
         insertFailureCounter' = insertFailureCounter
           + (IF insert(cuckooTables, victimBit, Head(update_req).key, Head(update_req).value).success
              THEN 0 ELSE 1),
         update_req' = Tail(update_req), update_rsp' = update_rsp \o <<Head(update_req)>>,
         UNCHANGED <<slc, lookup_req, lookup_rsp, insert_req, delete_req, revInserts,
                     reverseLookupTable, tupleValid>>
  PROVE  TablesInv'
<1>. DEFINE r == update_req[1]
            k == r.key
            id == r.value
            n == Len(update_req)
            p == insert(cuckooTables, victimBit, k, id)
            new == [key |-> k, value |-> id]
<1>1. /\ insert_req \in Seq(Insertion) /\ update_req \in Seq(UpdateRequest)
      /\ update_rsp \in Seq(Insertion) /\ IdInv
      /\ Len(insert_req) \in Nat /\ Len(update_rsp) \in Nat /\ Count(update_req, Insertion) \in Nat
  BY QueueTypes
<1>2. /\ n \in Nat \ {0} /\ Head(update_req) = r /\ r \in UpdateRequest
      /\ Len(update_req') = n - 1
      /\ \A i \in 1 .. n - 1 : update_req'[i] = update_req[i + 1]
  BY <1>1, Popped
<1>3. /\ r.op = "INSERT" /\ r \in Insertion /\ k \in Key /\ id \in SessionId
      /\ r = InsertOf(k, id)
  <2>1. r.op = "INSERT" /\ r \in Insertion
    BY <1>2, RequestKinds
  <2>. HIDE DEF r
  <2>. QED
    BY <2>1, RequestKinds, KeyIsTuple
<1>4. Count(update_req, Insertion) = Count(update_req', Insertion) + 1
  BY <1>1, <1>2, <1>3, CountTail
<1>5. Count(update_req', Insertion) \in Nat
  <2>1. update_req' \in Seq(UpdateRequest)
    BY <1>1, Popped
  <2>. QED
    BY <2>1, CountHas
<1>6. slc.state = "UPD_RSP" /\ k = slc.query.tuple
  BY <1>2, <1>3 DEF TablesInv, InsertInv, IsCached
<1>7. /\ Len(insert_req) = 0 /\ Len(update_rsp) = 0 /\ Count(update_req', Insertion) = 0
  <2>1. Len(insert_req) + Count(update_req, Insertion) + Len(update_rsp) = 1
    BY <1>6 DEF TablesInv, InsertInv
  <2>. DEFINE a == Len(insert_req)
              b == Count(update_req', Insertion)
              c == Len(update_rsp)
  <2>2. a \in Nat /\ b \in Nat /\ c \in Nat /\ a + (b + 1) + c = 1
    BY <1>1, <1>4, <1>5, <2>1
  <2>. HIDE DEF a, b, c
  <2>3. a = 0 /\ b = 0 /\ c = 0
    BY <2>2
  <2>. QED
    BY <2>3 DEF a, b, c
<1>8. update_rsp = <<>> /\ update_rsp' = <<r>>
  <2>1. update_rsp = <<>>
    BY <1>1, <1>7, EmptySeq
  <2>2. update_rsp' = <<>> \o <<r>>
    BY <1>2, <2>1
  <2>. QED
    BY <1>3, <2>1, <2>2, ConcatEmptySeq
<1>9. Placed(cuckooTables) /\ victimBit \in {0, 1} /\ insertFailureCounter \in Nat
  BY DEF TablesInv, HashInv
<1>10. \A e \in Entries(cuckooTables) : e.key # k
  BY <1>6, <1>8 DEF TablesInv, LookupInv, Absent
<1>11. /\ Placed(p.tables) /\ p.victimBit \in {0, 1} /\ p.success \in BOOLEAN
       /\ \A x \in Entries(p.tables) : x \in Entries(cuckooTables) \/ x = new
       /\ p.success => \A x : x \in Entries(cuckooTables) \/ x = new => x \in Entries(p.tables)
  <2>. HIDE DEF k, id
  <2>. QED
    BY <1>3, <1>9, <1>10, InsertFacts
<1>12. /\ cuckooTables' = p.tables /\ victimBit' = p.victimBit
       /\ insertFailureCounter' = insertFailureCounter + (IF p.success THEN 0 ELSE 1)
  BY <1>2
<1>. HIDE DEF p, r, n
<1>13. HashInv'
  BY <1>9, <1>11, <1>12 DEF HashInv
<1>14. ASSUME NEW l, NEW x
       PROVE  Claimed(l, x)' <=> Claimed(l, x) \/ (l = k /\ x = id)
  <2>. DEFINE z == DeleteOf(l, x)
              U == \E i \in 1 .. Len(update_req) : update_req[i] = z
              UU == \E i \in 1 .. Len(update_req') : update_req'[i] = z
  <2>0. z # r
    BY <1>3 DEF DeleteOf
  <2>. HIDE DEF z, k, id
  <2>1. U => UU
    <3>. SUFFICES ASSUME NEW i \in 1 .. n, update_req[i] = z PROVE UU
      BY DEF n
    <3>1. i # 1
      BY <2>0 DEF r
    <3>2. i - 1 \in 1 .. n - 1 /\ (i - 1) + 1 = i
      BY <1>2, <3>1
    <3>. QED
      BY <1>2, <3>2
  <2>2. UU => U
    <3>. SUFFICES ASSUME NEW i \in 1 .. n - 1, update_req'[i] = z PROVE U
      BY <1>2
    <3>1. i + 1 \in 1 .. n
      BY <1>2
    <3>. QED
      BY <1>2, <3>1 DEF n
  <2>3. ~ \E i \in 1 .. Len(update_rsp) : update_rsp[i] = InsertOf(l, x)
    BY <1>7
  <2>4. (\E i \in 1 .. Len(update_rsp') : update_rsp'[i] = InsertOf(l, x)) <=> l = k /\ x = id
    <3>1. (\E i \in 1 .. Len(update_rsp') : update_rsp'[i] = InsertOf(l, x)) <=> r = InsertOf(l, x)
      BY <1>8
    <3>. QED
      BY <1>3, <3>1 DEF InsertOf
  <2>. QED
    BY <2>1, <2>2, <2>3, <2>4 DEF Claimed, z
<1>15. EntryInv'
  <2>1. ASSUME NEW e \in Entries(cuckooTables') PROVE Claimed(e.key, e.value)'
    <3>1. CASE e \in Entries(cuckooTables)
      <4>1. Claimed(e.key, e.value)
        BY <3>1 DEF TablesInv, EntryInv
      <4>. QED
        BY <1>14, <4>1
    <3>2. CASE e = new
      <4>1. e.key = k /\ e.value = id
        BY <3>2
      <4>. HIDE DEF k, id
      <4>. QED
        BY <1>14, <4>1
    <3>. QED
      BY <1>11, <1>12, <2>1, <3>1, <3>2
  <2>2. ASSUME insertFailureCounter' = 0, NEW l \in Key, NEW x \in SessionId, Claimed(l, x)'
        PROVE  [key |-> l, value |-> x] \in Entries(cuckooTables')
    <3>1. p.success /\ insertFailureCounter = 0
      BY <1>9, <1>11, <1>12, <2>2
    <3>2. Claimed(l, x) => [key |-> l, value |-> x] \in Entries(cuckooTables)
      BY <3>1 DEF TablesInv, EntryInv
    <3>. HIDE DEF k, id
    <3>3. [key |-> l, value |-> x] \in Entries(cuckooTables) \/ [key |-> l, value |-> x] = new
      BY <1>14, <2>2, <3>2
    <3>. HIDE DEF new
    <3>. QED
      BY <1>11, <1>12, <3>1, <3>3
  <2>. QED
    BY <2>1, <2>2 DEF EntryInv
<1>16. DeleteInv'
  <2>. SUFFICES ASSUME NEW j \in 1 .. Len(update_req'), NEW x \in SessionId,
                       update_req'[j].op = "DELETE", update_req'[j].value = x
                PROVE  /\ \A i \in 1 .. j - 1 : update_req'[i].value # x
                       /\ ~ InDelete(x)' /\ ~ InRsp(x)' /\ ~ InRev(x)' /\ ~ tupleValid'[x]
    BY DEF DeleteInv
  <2>1. InDelete(x)' = InDelete(x) /\ InRev(x)' = InRev(x)
    BY DEF InDelete, InRev
  <2>2. j + 1 \in 1 .. n /\ update_req[j + 1] = update_req'[j] /\ j \in Nat /\ j >= 1
    BY <1>2
  <2>3. /\ \A i \in 1 .. j : update_req[i].value # x
        /\ ~ InDelete(x) /\ ~ InRev(x) /\ ~ tupleValid[x]
    <3>1. (j + 1) - 1 = j
      BY <2>2
    <3>. QED
      BY <2>2, <3>1 DEF TablesInv, DeleteInv, n
  <2>4. \A i \in 1 .. j - 1 : update_req'[i].value # x
    <3>. TAKE i \in 1 .. j - 1
    <3>1. i + 1 \in 1 .. j /\ i \in 1 .. n - 1
      BY <1>2, <2>2
    <3>. QED
      BY <1>2, <2>3, <3>1
  <2>5. ~ InRsp(x)'
    <3>1. 1 \in 1 .. j
      BY <2>2
    <3>2. r.value # x
      BY <2>3, <3>1 DEF r
    <3>. QED
      BY <1>8, <3>2 DEF InRsp
  <2>. QED
    BY <2>1, <2>3, <2>4, <2>5
<1>17. InsertInv'
  <2>1. Len(insert_req') + Count(update_req', Insertion) + Len(update_rsp') = 1
    BY <1>7, <1>8
  <2>2. \A i \in 1 .. Len(update_req') : update_req'[i].op = "INSERT" => IsCached(update_req'[i])
    <3>. TAKE i \in 1 .. Len(update_req')
    <3>1. i + 1 \in 1 .. n /\ update_req'[i] = update_req[i + 1]
      BY <1>2
    <3>. QED
      BY <3>1 DEF TablesInv, InsertInv, n
  <2>3. IsCached(r)
    BY <1>6 DEF IsCached
  <2>4. \A y : IsCached(y)' = IsCached(y)
    BY DEF IsCached
  <2>5. \A i \in 1 .. Len(update_rsp') : update_rsp'[i] = r
    BY <1>8
  <2>. QED
    BY <1>6, <1>7, <2>1, <2>2, <2>3, <2>4, <2>5 DEF InsertInv
<1>18. LookupInv'
  <2>1. update_rsp' # <<>>
    BY <1>8
  <2>. QED
    BY <1>6, <2>1 DEF TablesInv, LookupInv
<1>. QED
  BY <1>13, <1>15, <1>16, <1>17, <1>18 DEF TablesInv

LEMMA HashDeleteTables ==
  ASSUME SessionInv, TablesInv, update_req # <<>>, Head(update_req).op = "DELETE",
         cuckooTables' = remove(cuckooTables, Head(update_req).key),
         update_req' = Tail(update_req),
         UNCHANGED <<victimBit, insertFailureCounter, slc, lookup_req, lookup_rsp, insert_req,
                     delete_req, update_rsp, revInserts, reverseLookupTable, tupleValid>>
  PROVE  TablesInv'
<1>. DEFINE r == update_req[1]
            k == r.key
            id == r.value
            n == Len(update_req)
            t == cuckooTables
<1>1. update_req \in Seq(UpdateRequest) /\ IdInv
  BY QueueTypes
<1>2. /\ n \in Nat \ {0} /\ Head(update_req) = r /\ r \in UpdateRequest
      /\ Len(update_req') = n - 1
      /\ \A i \in 1 .. n - 1 : update_req'[i] = update_req[i + 1]
  BY <1>1, Popped
<1>3. /\ r.op = "DELETE" /\ k \in Key /\ id \in SessionId /\ r = DeleteOf(k, id)
      /\ r \notin Insertion
  <2>1. r.op = "DELETE" /\ r \in Deletion
    BY <1>2, RequestKinds
  <2>2. r \notin Insertion
    BY <2>1, RequestKinds
  <2>. HIDE DEF r
  <2>. QED
    BY <2>1, <2>2, RequestKinds, KeyIsTuple
<1>4. Count(update_req, Insertion) = Count(update_req', Insertion)
  BY <1>1, <1>2, <1>3, CountTail
<1>5. Placed(t) /\ cuckooTables' = remove(t, k)
  BY <1>2 DEF TablesInv, HashInv
<1>. HIDE DEF r, n
<1>6. Placed(cuckooTables') /\ \A x : x \in Entries(cuckooTables') <=> x \in Entries(t) /\ x.key # k
  <2>. HIDE DEF k
  <2>. QED
    BY <1>3, <1>5, RemoveFacts
<1>. HIDE DEF t
<1>7. /\ \A i \in 2 .. n : update_req[i].op = "DELETE" => update_req[i].value # id
      /\ ~ InDelete(id) /\ ~ InRsp(id) /\ ~ InRev(id) /\ ~ tupleValid[id]
  <2>1. 1 \in 1 .. n
    BY <1>2
  <2>2. ~ InDelete(id) /\ ~ InRsp(id) /\ ~ InRev(id) /\ ~ tupleValid[id]
    BY <1>3, <2>1 DEF TablesInv, DeleteInv, n, r
  <2>3. ASSUME NEW i \in 2 .. n, update_req[i].op = "DELETE", update_req[i].value = id
        PROVE  FALSE
    <3>1. i \in 1 .. n /\ 1 \in 1 .. i - 1
      BY <1>2, <2>3
    <3>2. \A j \in 1 .. i - 1 : update_req[j].value # id
      BY <1>3, <2>3, <3>1 DEF TablesInv, DeleteInv, n
    <3>. QED
      BY <3>1, <3>2 DEF r
  <2>. QED
    BY <2>2, <2>3
<1>8. ASSUME NEW l, NEW x
      PROVE  Claimed(l, x) <=> Claimed(l, x)' \/ (l = k /\ x = id)
  <2>. DEFINE z == DeleteOf(l, x)
              U == \E i \in 1 .. Len(update_req) : update_req[i] = z
              UU == \E i \in 1 .. Len(update_req') : update_req'[i] = z
  <2>0. z = r <=> l = k /\ x = id
    <3>. HIDE DEF k, id
    <3>. QED
      BY <1>3 DEF DeleteOf
  <2>. HIDE DEF z, k, id
  <2>1. U => UU \/ z = r
    <3>. SUFFICES ASSUME NEW i \in 1 .. n, update_req[i] = z, z # r PROVE UU
      BY DEF n
    <3>1. i # 1
      BY DEF r
    <3>2. i - 1 \in 1 .. n - 1 /\ (i - 1) + 1 = i
      BY <1>2, <3>1
    <3>. QED
      BY <1>2, <3>2
  <2>2. UU => U
    <3>. SUFFICES ASSUME NEW i \in 1 .. n - 1, update_req'[i] = z PROVE U
      BY <1>2
    <3>1. i + 1 \in 1 .. n
      BY <1>2
    <3>. QED
      BY <1>2, <3>1 DEF n
  <2>3. z = r => U
    <3>1. 1 \in 1 .. n
      BY <1>2
    <3>. QED
      BY <3>1 DEF r, n
  <2>4. U <=> UU \/ (l = k /\ x = id)
    BY <2>0, <2>1, <2>2, <2>3
  <2>. QED
    BY <2>4 DEF Claimed, z
<1>9. ASSUME NEW l, NEW x, x = id
      PROVE  ~ Claimed(l, x)'
  <2>1. ~ \E i \in 1 .. Len(update_req') : update_req'[i] = DeleteOf(l, x)
    <3>. SUFFICES ASSUME NEW i \in 1 .. n - 1, update_req'[i] = DeleteOf(l, x) PROVE FALSE
      BY <1>2
    <3>1. i + 1 \in 2 .. n /\ update_req[i + 1] = DeleteOf(l, x)
      BY <1>2
    <3>. HIDE DEF id
    <3>. QED
      BY <1>7, <1>9, <3>1 DEF DeleteOf
  <2>. HIDE DEF id
  <2>2. ~ \E i \in 1 .. Len(revInserts) : revInserts[i] = [key |-> x, value |-> l]
    BY <1>7, <1>9 DEF InRev
  <2>3. ~ \E i \in 1 .. Len(delete_req) : delete_req[i] = DeleteOf(l, x)
    BY <1>7, <1>9 DEF InDelete, DeleteOf
  <2>4. ~ \E i \in 1 .. Len(update_rsp) : update_rsp[i] = InsertOf(l, x)
    BY <1>7, <1>9 DEF InRsp, InsertOf
  <2>. QED
    BY <1>7, <1>9, <2>1, <2>2, <2>3, <2>4 DEF Claimed
<1>. HIDE DEF k, id
<1>10. EntryInv'
  <2>1. ASSUME NEW e \in Entries(cuckooTables') PROVE Claimed(e.key, e.value)'
    <3>1. e \in Entries(t) /\ e.key # k
      BY <1>6, <2>1
    <3>2. Claimed(e.key, e.value)
      BY <3>1 DEF TablesInv, EntryInv, t
    <3>. QED
      BY <1>8, <3>1, <3>2
  <2>2. ASSUME insertFailureCounter' = 0, NEW l \in Key, NEW x \in SessionId, Claimed(l, x)'
        PROVE  [key |-> l, value |-> x] \in Entries(cuckooTables')
    <3>1. \A y \in Key, i \in SessionId : Claimed(y, i) => [key |-> y, value |-> i] \in Entries(t)
      BY <2>2 DEF TablesInv, EntryInv, t
    <3>2. [key |-> l, value |-> x] \in Entries(t)
      BY <1>8, <2>2, <3>1
    <3>3. l # k
      <4>. SUFFICES ASSUME l = k PROVE FALSE
        OBVIOUS
      <4>1. [key |-> k, value |-> id] \in Entries(t)
        BY <1>3, <1>8, <3>1
      <4>2. [key |-> l, value |-> x] = [key |-> k, value |-> id]
        <5>. DEFINE e == [key |-> l, value |-> x]
                    f == [key |-> k, value |-> id]
        <5>1. e.key = f.key
          OBVIOUS
        <5>2. e \in Entries(t) /\ f \in Entries(t)
          BY <3>2, <4>1
        <5>. HIDE DEF e, f
        <5>3. e = f
          BY <1>5, <5>1, <5>2, EntryTypes
        <5>. QED
          BY <5>3 DEF e, f
      <4>3. x = id
        BY <4>2
      <4>. QED
        BY <1>9, <2>2, <4>3
    <3>. QED
      BY <1>6, <3>2, <3>3
  <2>. QED
    BY <2>1, <2>2 DEF EntryInv
<1>11. DeleteInv'
  <2>. SUFFICES ASSUME NEW j \in 1 .. Len(update_req'), NEW x \in SessionId,
                       update_req'[j].op = "DELETE", update_req'[j].value = x
                PROVE  /\ \A i \in 1 .. j - 1 : update_req'[i].value # x
                       /\ ~ InDelete(x)' /\ ~ InRsp(x)' /\ ~ InRev(x)' /\ ~ tupleValid'[x]
    BY DEF DeleteInv
  <2>1. InDelete(x)' = InDelete(x) /\ InRev(x)' = InRev(x) /\ InRsp(x)' = InRsp(x)
    BY DEF InDelete, InRev, InRsp
  <2>2. j + 1 \in 1 .. n /\ update_req[j + 1] = update_req'[j] /\ j \in Nat /\ j >= 1
    BY <1>2
  <2>3. /\ \A i \in 1 .. j : update_req[i].value # x
        /\ ~ InDelete(x) /\ ~ InRev(x) /\ ~ InRsp(x) /\ ~ tupleValid[x]
    <3>1. (j + 1) - 1 = j
      BY <2>2
    <3>. QED
      BY <2>2, <3>1 DEF TablesInv, DeleteInv, n
  <2>4. \A i \in 1 .. j - 1 : update_req'[i].value # x
    <3>. TAKE i \in 1 .. j - 1
    <3>1. i + 1 \in 1 .. j /\ i \in 1 .. n - 1
      BY <1>2, <2>2
    <3>. QED
      BY <1>2, <2>3, <3>1
  <2>. QED
    BY <2>1, <2>3, <2>4
<1>12. InsertInv'
  <2>1. \A i \in 1 .. Len(update_req') : update_req'[i].op = "INSERT" => IsCached(update_req'[i])
    <3>. TAKE i \in 1 .. Len(update_req')
    <3>1. i + 1 \in 1 .. n /\ update_req'[i] = update_req[i + 1]
      BY <1>2
    <3>. QED
      BY <3>1 DEF TablesInv, InsertInv, n
  <2>2. \A y : IsCached(y)' = IsCached(y)
    BY DEF IsCached
  <2>3. InsertInv
    BY DEF TablesInv
  <2>. QED
    BY <1>4, <2>1, <2>2, <2>3 DEF InsertInv
<1>13. LookupInv'
  <2>1. \A e \in Entries(cuckooTables') : e \in Entries(cuckooTables)
    BY <1>6 DEF t
  <2>2. \A l : Absent(l) => \A e \in Entries(cuckooTables') : e.key # l
    BY <2>1 DEF Absent
  <2>3. \A found : StillTrue(found) =>
          /\ found = {} => \A e \in Entries(cuckooTables') : e.key # slc.query.tuple
          /\ \A i \in found : \A e \in Entries(cuckooTables') : e.value = i => e.key = slc.query.tuple
    BY <2>1, <2>2 DEF StillTrue
  <2>4. \A found : StillTrue(found) => StillTrue(found)'
    BY <2>3 DEF StillTrue, Absent
  <2>5. slc' = slc /\ lookup_req' = lookup_req /\ lookup_rsp' = lookup_rsp /\ update_rsp' = update_rsp
    OBVIOUS
  <2>6. LookupInv
    BY DEF TablesInv
  <2>7. slc'.state = "UPD_RSP" /\ update_rsp' = <<>> => Absent(slc.query.tuple)'
    <3>. DEFINE l == slc.query.tuple
    <3>1. slc.state = "UPD_RSP" /\ update_rsp = <<>> => Absent(l)
      BY <2>6 DEF LookupInv
    <3>. QED
      BY <2>2, <2>5, <3>1 DEF Absent
  <2>. QED
    BY <2>4, <2>5, <2>6, <2>7 DEF LookupInv
<1>14. HashInv'
  BY <1>6 DEF TablesInv, HashInv
<1>. QED
  BY <1>10, <1>11, <1>12, <1>13, <1>14 DEF TablesInv

LEMMA ReverseFrame ==
  ASSUME TablesInv,
         UNCHANGED <<cuckooTables, victimBit, insertFailureCounter, slc, lookup_req, lookup_rsp,
                     insert_req, update_req, update_rsp>>
  PROVE  HashInv' /\ InsertInv' /\ LookupInv'
<1>1. HashInv'
  BY DEF TablesInv, HashInv
<1>2. InsertInv'
  BY DEF TablesInv, InsertInv, IsCached
<1>3. LookupInv'
  BY DEF TablesInv, LookupInv, StillTrue, Absent
<1>. QED
  BY <1>1, <1>2, <1>3

LEMMA ReverseInsertTables ==
  ASSUME SessionInv, TablesInv, revInserts # <<>>,
         reverseLookupTable' = [x \in DOMAIN reverseLookupTable \cup {Head(revInserts).key} |->
                                  IF x = Head(revInserts).key THEN Head(revInserts).value
                                  ELSE reverseLookupTable[x]],
         tupleValid' = [tupleValid EXCEPT ![Head(revInserts).key] = TRUE],
         revInserts' = Tail(revInserts),
         UNCHANGED <<cuckooTables, victimBit, insertFailureCounter, slc, lookup_req, lookup_rsp,
                     insert_req, delete_req, update_req, update_rsp>>
  PROVE  TablesInv'
<1>. DEFINE r == revInserts[1]
            id == r.key
            k == r.value
            n == Len(revInserts)
<1>1. revInserts \in Seq(ReverseEntry) /\ IdInv
  BY QueueTypes
<1>2. /\ n \in Nat \ {0} /\ Head(revInserts) = r /\ r \in ReverseEntry
      /\ Len(revInserts') = n - 1
      /\ \A i \in 1 .. n - 1 : revInserts'[i] = revInserts[i + 1]
  BY <1>1, Popped
<1>3. id \in SessionId /\ k \in threeTuple /\ r = [key |-> id, value |-> k]
  BY <1>2 DEF ReverseEntry
<1>4. InRev(id)
  BY <1>2 DEF InRev
<1>5. ~ tupleValid[id]
  BY <1>1, <1>3, <1>4, OnePlace
<1>6. /\ tupleValid \in [SessionId -> BOOLEAN]
      /\ \A x \in SessionId : tupleValid[x] => x \in DOMAIN reverseLookupTable
  BY DEF SessionInv, IdTypes
<1>7. /\ \A x \in SessionId : tupleValid'[x] <=> tupleValid[x] \/ x = id
      /\ \A x \in SessionId : x # id /\ tupleValid[x] => reverseLookupTable'[x] = reverseLookupTable[x]
      /\ reverseLookupTable'[id] = k
  <2>1. /\ tupleValid' = [tupleValid EXCEPT ![id] = TRUE]
        /\ reverseLookupTable' = [x \in DOMAIN reverseLookupTable \cup {id} |->
                                    IF x = id THEN k ELSE reverseLookupTable[x]]
    BY <1>2
  <2>. HIDE DEF id, k
  <2>. QED
    BY <1>3, <1>6, <2>1
<1>. HIDE DEF r, n
<1>8. \A x : InRev(x)' => InRev(x)
  <2>. SUFFICES ASSUME NEW x, NEW i \in 1 .. n - 1, revInserts'[i].key = x PROVE InRev(x)
    BY <1>2 DEF InRev
  <2>1. i + 1 \in 1 .. n
    BY <1>2
  <2>. QED
    BY <1>2, <2>1 DEF InRev, n
<1>9. ASSUME NEW l, NEW x \in SessionId PROVE Claimed(l, x)' <=> Claimed(l, x)
  <2>. DEFINE z == [key |-> x, value |-> l]
              R == \E i \in 1 .. Len(revInserts) : revInserts[i] = z
              RR == \E i \in 1 .. Len(revInserts') : revInserts'[i] = z
              V == tupleValid[x] /\ reverseLookupTable[x] = l
              VV == tupleValid'[x] /\ reverseLookupTable'[x] = l
  <2>0. z = r <=> l = k /\ x = id
    <3>. HIDE DEF k, id
    <3>. QED
      BY <1>3
  <2>. HIDE DEF z, k, id
  <2>1. R => RR \/ z = r
    <3>. SUFFICES ASSUME NEW i \in 1 .. n, revInserts[i] = z, z # r PROVE RR
      BY DEF n
    <3>1. i # 1
      BY DEF r
    <3>2. i - 1 \in 1 .. n - 1 /\ (i - 1) + 1 = i
      BY <1>2, <3>1
    <3>. QED
      BY <1>2, <3>2
  <2>2. RR => R
    <3>. SUFFICES ASSUME NEW i \in 1 .. n - 1, revInserts'[i] = z PROVE R
      BY <1>2
    <3>1. i + 1 \in 1 .. n
      BY <1>2
    <3>. QED
      BY <1>2, <3>1 DEF n
  <2>3. z = r => R
    <3>1. 1 \in 1 .. n
      BY <1>2
    <3>. QED
      BY <3>1 DEF r, n
  <2>4. VV <=> V \/ z = r
    BY <1>5, <1>7, <2>0
  <2>5. VV \/ RR <=> V \/ R
    <3>. HIDE DEF V, VV, R, RR
    <3>. QED
      BY <2>1, <2>2, <2>3, <2>4
  <2>. QED
    BY <2>5 DEF Claimed, z
<1>10. DeleteInv'
  <2>. SUFFICES ASSUME NEW j \in 1 .. Len(update_req), NEW x \in SessionId,
                       update_req[j].op = "DELETE", update_req[j].value = x
                PROVE  /\ \A i \in 1 .. j - 1 : update_req[i].value # x
                       /\ ~ InDelete(x)' /\ ~ InRsp(x)' /\ ~ InRev(x)' /\ ~ tupleValid'[x]
    BY DEF DeleteInv
  <2>1. InDelete(x)' = InDelete(x) /\ InRsp(x)' = InRsp(x)
    BY DEF InDelete, InRsp
  <2>2. /\ \A i \in 1 .. j - 1 : update_req[i].value # x
        /\ ~ InDelete(x) /\ ~ InRsp(x) /\ ~ InRev(x) /\ ~ tupleValid[x]
    BY DEF TablesInv, DeleteInv
  <2>3. x # id
    BY <1>4, <2>2
  <2>. QED
    BY <1>7, <1>8, <2>1, <2>2, <2>3
<1>11. EntryInv'
  <2>1. Placed(cuckooTables)
    BY DEF TablesInv, HashInv
  <2>2. \A e \in Entries(cuckooTables) : e.value \in SessionId
    BY <2>1, EntryTypes
  <2>. QED
    BY <1>9, <2>2 DEF TablesInv, EntryInv
<1>12. HashInv' /\ InsertInv' /\ LookupInv'
  BY ReverseFrame
<1>. QED
  BY <1>10, <1>11, <1>12 DEF TablesInv

LEMMA ReleaseTables ==
  ASSUME SessionInv, TablesInv, NEW id \in SessionId,
         IF Releasable(id)
         THEN delete_req' = Append(delete_req, [op |-> "DELETE", key |-> reverseLookupTable[id],
                                                value |-> id])
         ELSE delete_req' = delete_req,
         tupleValid' = [tupleValid EXCEPT ![id] = FALSE],
         UNCHANGED <<cuckooTables, victimBit, insertFailureCounter, slc, lookup_req, lookup_rsp,
                     insert_req, update_req, update_rsp, revInserts, reverseLookupTable>>
  PROVE  TablesInv'
<1>. DEFINE k == reverseLookupTable[id]
            n == Len(delete_req)
<1>1. /\ delete_req \in Seq(Deletion) /\ n \in Nat
      /\ tupleValid \in [SessionId -> BOOLEAN]
      /\ tupleValid[id] => k \in threeTuple
  BY QueueTypes DEF SessionInv, IdTypes
<1>2. \A x \in SessionId : tupleValid'[x] <=> tupleValid[x] /\ x # id
  BY <1>1
<1>3. CASE ~ tupleValid[id]
  <2>1. delete_req' = delete_req
    BY <1>3 DEF Releasable
  <2>2. tupleValid' = tupleValid
    BY <1>1, <1>3
  <2>3. UNCHANGED tableState
    BY <2>1, <2>2 DEF tableState
  <2>. QED
    BY <2>3, TablesFrame
<1>4. CASE tupleValid[id]
  <2>1. /\ Len(delete_req') = n + 1 /\ delete_req'[n + 1] = DeleteOf(k, id)
        /\ \A i \in 1 .. n : delete_req'[i] = delete_req[i]
    <3>1. DeleteOf(k, id) \in Deletion
      BY <1>1, <1>4 DEF DeleteOf, Deletion
    <3>2. delete_req' = Append(delete_req, DeleteOf(k, id))
      BY <1>4 DEF Releasable, DeleteOf
    <3>. QED
      BY <1>1, <3>1, <3>2, AppendProperties
  <2>. HIDE DEF n
  <2>2. ASSUME NEW l, NEW x \in SessionId PROVE Claimed(l, x)' <=> Claimed(l, x)
    <3>. DEFINE z == DeleteOf(l, x)
                w == DeleteOf(k, id)
                D == \E i \in 1 .. Len(delete_req) : delete_req[i] = z
                DD == \E i \in 1 .. Len(delete_req') : delete_req'[i] = z
                V == tupleValid[x] /\ reverseLookupTable[x] = l
                VV == tupleValid'[x] /\ reverseLookupTable'[x] = l
    <3>0. z = w <=> l = k /\ x = id
      <4>. HIDE DEF k
      <4>. QED
        BY DEF DeleteOf
    <3>1. V <=> VV \/ z = w
      BY <1>2, <1>4, <3>0
    <3>. HIDE DEF z, w
    <3>2. DD <=> D \/ z = w
      <4>1. ASSUME NEW i \in 1 .. n + 1, delete_req'[i] = z, z # w PROVE D
        <5>1. i # n + 1
          BY <2>1, <4>1 DEF w
        <5>2. i \in 1 .. n
          BY <1>1, <5>1
        <5>. QED
          BY <2>1, <4>1, <5>2 DEF n
      <4>2. D => DD
        BY <1>1, <2>1 DEF n
      <4>3. z = w => DD
        <5>1. n + 1 \in 1 .. n + 1
          BY <1>1
        <5>. QED
          BY <2>1, <5>1 DEF w
      <4>. QED
        BY <2>1, <4>1, <4>2, <4>3
    <3>3. VV \/ DD <=> V \/ D
      <4>. HIDE DEF V, VV, D, DD
      <4>. QED
        BY <3>1, <3>2
    <3>. QED
      BY <3>3 DEF Claimed, z
  <2>3. DeleteInv'
    <3>. SUFFICES ASSUME NEW j \in 1 .. Len(update_req), NEW x \in SessionId,
                         update_req[j].op = "DELETE", update_req[j].value = x
                  PROVE  /\ \A i \in 1 .. j - 1 : update_req[i].value # x
                         /\ ~ InDelete(x)' /\ ~ InRsp(x)' /\ ~ InRev(x)' /\ ~ tupleValid'[x]
      BY DEF DeleteInv
    <3>1. InRev(x)' = InRev(x) /\ InRsp(x)' = InRsp(x)
      BY DEF InRev, InRsp
    <3>2. /\ \A i \in 1 .. j - 1 : update_req[i].value # x
          /\ ~ InDelete(x) /\ ~ InRsp(x) /\ ~ InRev(x) /\ ~ tupleValid[x]
      BY DEF TablesInv, DeleteInv
    <3>3. x # id
      BY <1>4, <3>2
    <3>4. ~ InDelete(x)'
      <4>. SUFFICES ASSUME NEW i \in 1 .. n + 1, delete_req'[i].value = x PROVE FALSE
        BY <2>1 DEF InDelete
      <4>1. i # n + 1
        BY <2>1, <3>3 DEF DeleteOf
      <4>2. i \in 1 .. n
        BY <1>1, <4>1
      <4>. QED
        BY <2>1, <3>2, <4>2 DEF InDelete, n
    <3>. QED
      BY <1>2, <3>1, <3>2, <3>4
  <2>4. EntryInv'
    <3>1. Placed(cuckooTables)
      BY DEF TablesInv, HashInv
    <3>2. \A e \in Entries(cuckooTables) : e.value \in SessionId
      BY <3>1, EntryTypes
    <3>. QED
      BY <2>2, <3>2 DEF TablesInv, EntryInv
  <2>5. HashInv' /\ InsertInv' /\ LookupInv'
    BY ReverseFrame
  <2>. QED
    BY <2>3, <2>4, <2>5 DEF TablesInv
<1>. QED
  BY <1>3, <1>4

LEMMA UpdateSenderTables ==
  ASSUME SessionInv, TablesInv, updateRequestSender
  PROVE  TablesInv'
<1>1. UNCHANGED <<cuckooTables, victimBit, insertFailureCounter, slc, lookup_req, lookup_rsp,
                  update_rsp, revInserts, reverseLookupTable, tupleValid>>
  BY DEF updateRequestSender, hashVars, lookupVars, reverseVars
<1>2. CASE /\ insert_req # <<>> /\ update_req' = Append(update_req, Head(insert_req))
           /\ insert_req' = Tail(insert_req) /\ delete_req' = delete_req
  BY <1>1, <1>2, SendInsertTables
<1>3. CASE /\ delete_req # <<>> /\ update_req' = Append(update_req, Head(delete_req))
           /\ delete_req' = Tail(delete_req) /\ insert_req' = insert_req
  BY <1>1, <1>3, SendDeleteTables
<1>. QED
  BY <1>2, <1>3 DEF updateRequestSender

LEMMA HashTableTables ==
  ASSUME SessionInv, TablesInv, hash_table
  PROVE  TablesInv'
<1>1. CASE /\ lookup_req # <<>>
           /\ lookup_rsp' = Append(lookup_rsp, lookup(cuckooTables, Head(lookup_req).tuple))
           /\ lookup_req' = Tail(lookup_req)
           /\ UNCHANGED <<slc, txApp_req, rxEng_req, answers, hashVars, updateVars, idVars,
                          reverseVars, portVars, checkVars, askedVars>>
  <2>1. UNCHANGED <<cuckooTables, victimBit, insertFailureCounter, slc, insert_req,
                    delete_req, update_req, update_rsp, revInserts, reverseLookupTable, tupleValid>>
    BY <1>1 DEF hashVars, updateVars, reverseVars
  <2>. QED
    BY <1>1, <2>1, LookupTables
<1>2. CASE lookup_req = <<>> /\ update_req # <<>>
  <2>. DEFINE r == Head(update_req)
              p == insert(cuckooTables, victimBit, r.key, r.value)
  <2>1. /\ update_req' = Tail(update_req) /\ update_rsp' = update_rsp \o updateReplyHandler(r)
        /\ UNCHANGED <<slc, lookup_req, lookup_rsp, insert_req, delete_req, revInserts,
                       reverseLookupTable, tupleValid>>
        /\ r.op = "INSERT" =>
             /\ cuckooTables' = p.tables /\ victimBit' = p.victimBit
             /\ insertFailureCounter' = insertFailureCounter + (IF p.success THEN 0 ELSE 1)
        /\ r.op # "INSERT" =>
             /\ cuckooTables' = remove(cuckooTables, r.key)
             /\ UNCHANGED <<victimBit, insertFailureCounter>>
    BY <1>2 DEF hash_table, lookupVars, reverseVars
  <2>2. CASE r.op = "INSERT"
    <3>1. update_rsp' = update_rsp \o <<r>>
      BY <2>1, <2>2 DEF updateReplyHandler
    <3>. QED
      BY <1>2, <2>1, <2>2, <3>1, HashInsertTables
  <2>3. CASE r.op # "INSERT"
    <3>1. update_rsp \in Seq(Insertion) /\ update_req \in Seq(UpdateRequest)
      BY QueueTypes
    <3>2. update_rsp' = update_rsp
      <4>1. update_rsp' = update_rsp \o <<>>
        BY <2>1, <2>3 DEF updateReplyHandler
      <4>. QED
        BY <3>1, <4>1, ConcatEmptySeq
    <3>3. r.op = "DELETE"
      <4>1. r \in UpdateRequest
        BY <1>2, <3>1, Popped
      <4>. QED
        BY <2>3, <4>1, RequestKinds
    <3>. QED
      BY <1>2, <2>1, <2>3, <3>2, <3>3, HashDeleteTables
  <2>. QED
    BY <2>2, <2>3
<1>. QED
  BY <1>1, <1>2 DEF hash_table

LEMMA ReverseTableTables ==
  ASSUME SessionInv, TablesInv, reverseLookupTableInterface
  PROVE  TablesInv'
<1>1. UNCHANGED <<cuckooTables, victimBit, insertFailureCounter, slc, lookup_req, lookup_rsp,
                  insert_req, update_req, update_rsp>>
  BY DEF reverseLookupTableInterface, hashVars, lookupVars
<1>2. CASE revInserts # <<>>
  <2>1. /\ reverseLookupTable' = [x \in DOMAIN reverseLookupTable \cup {Head(revInserts).key} |->
                                  IF x = Head(revInserts).key THEN Head(revInserts).value
                                  ELSE reverseLookupTable[x]]
        /\ tupleValid' = [tupleValid EXCEPT ![Head(revInserts).key] = TRUE]
        /\ revInserts' = Tail(revInserts) /\ delete_req' = delete_req
    BY <1>2 DEF reverseLookupTableInterface
  <2>. QED
    BY <1>1, <1>2, <2>1, ReverseInsertTables
<1>3. CASE revInserts = <<>>
  <2>. DEFINE id == Head(releases)
  <2>1. /\ releases # <<>> /\ revInserts' = revInserts /\ reverseLookupTable' = reverseLookupTable
        /\ tupleValid' = [tupleValid EXCEPT ![id] = FALSE]
        /\ IF Releasable(id)
           THEN delete_req' = Append(delete_req, [op |-> "DELETE", key |-> reverseLookupTable[id],
                                                  value |-> id])
           ELSE delete_req' = delete_req
    BY <1>3 DEF reverseLookupTableInterface
  <2>2. id \in SessionId
    BY <2>1, QueueTypes, Popped
  <2>. HIDE DEF id
  <2>. QED
    BY <1>1, <2>1, <2>2, ReleaseTables
<1>. QED
  BY <1>2, <1>3

LEMMA TablesStep ==
  ASSUME SessionInv, TablesInv, [Next]_vars
  PROVE  TablesInv'
<1>f. UNCHANGED tableState => TablesInv'
  BY TablesFrame
<1>1. CASE sessionIdManager
  BY <1>1, <1>f DEF sessionIdManager, tableState, hashVars, lookupVars, updateVars, reverseVars
<1>2. CASE LookupRequest
  BY <1>2, LookupRequestTables
<1>3. CASE LookupReply
  BY <1>3, LookupReplyTables
<1>4. CASE InsertReply
  BY <1>4, InsertReplyTables
<1>5. CASE updateRequestSender
  BY <1>5, UpdateSenderTables
<1>6. CASE hash_table
  BY <1>6, HashTableTables
<1>7. CASE reverseLookupTableInterface
  BY <1>7, ReverseTableTables
<1>8. CASE PortTable
  BY <1>8, <1>f DEF PortTable, ReleasePort, CheckUsed, HandOut, CheckListening,
     check_out_multiplexer, tableState, hashVars, lookupVars, updateVars, reverseVars
<1>9. CASE Environment
  BY <1>9, <1>f DEF Environment, AppOpen, RxCheck, Listen, ReleaseSession, tableState, hashVars,
     lookupVars, updateVars, reverseVars
<1>10. CASE RxEngine
  BY <1>10, <1>f DEF RxEngine, RxQuery, tableState, hashVars, updateVars, reverseVars
<1>11. CASE UNCHANGED vars
  BY <1>11, <1>f DEF vars, tableState
<1>12. CASE Controller
  BY <1>1, <1>2, <1>3, <1>4, <1>5, <1>6, <1>7, <1>12 DEF Controller
<1>. QED
  BY <1>8, <1>9, <1>10, <1>11, <1>12 DEF Next

LEMMA TablesInvariant == Spec => [](SessionInv /\ TablesInv)
<1>1. Init => TablesInv
  BY TablesStart
<1>2. SessionInv /\ TablesInv /\ [Next]_vars => TablesInv'
  BY TablesStep
<1>. QED
  BY <1>1, <1>2, SessionInvariant, PTL DEF Spec

LEMMA HeldIsInSet ==
  ASSUME NEW T, NEW s \in Seq(T), NEW i \in 1 .. Len(s)
  PROVE  s[i] \in ToSet(s)
BY DEF ToSet

(* As long as no insertion has failed, the tuple of every valid session is *)
(* in the hash table under its number alone, and nothing else is in it     *)
(* than sessions that are live or about to be made valid or deleted, for   *)
(* any hash functions, any number of tables and trials and however the     *)
(* entries evict each other.                                               *)
THEOREM TablesCorrect == Spec => []TablesAgree
<1>1. ASSUME SessionInv, TablesInv PROVE TablesAgree
  <2>. SUFFICES ASSUME insertFailureCounter = 0
                PROVE  /\ \A id \in SessionId : tupleValid[id] =>
                            Stored(cuckooTables, reverseLookupTable[id]) = {id}
                       /\ \A k \in Key : \A id \in Stored(cuckooTables, k) :
                            \/ tupleValid[id] /\ reverseLookupTable[id] = k
                            \/ slc.state = "UPD_RSP" /\ slc.query.tuple = k
                            \/ [key |-> id, value |-> k] \in ToSet(revInserts)
                            \/ [op |-> "DELETE", key |-> k, value |-> id]
                                 \in ToSet(delete_req) \cup ToSet(update_req)
    BY DEF TablesAgree
  <2>0. Placed(cuckooTables) /\ EntryInv /\ InsertInv
    BY <1>1 DEF TablesInv, HashInv
  <2>1. \A k, x : x \in Stored(cuckooTables, k)
          <=> \E e \in Entries(cuckooTables) : e.key = k /\ x = e.value
    BY DEF Stored, Entries
  <2>2. ASSUME NEW id \in SessionId, tupleValid[id]
        PROVE  Stored(cuckooTables, reverseLookupTable[id]) = {id}
    <3>. DEFINE k == reverseLookupTable[id]
                f == [key |-> k, value |-> id]
    <3>1. k \in Key
      BY <1>1, <2>2, KeyIsTuple DEF SessionInv, IdTypes
    <3>2. Claimed(k, id)
      BY <2>2 DEF Claimed
    <3>3. f \in Entries(cuckooTables)
      <4>. HIDE DEF k
      <4>. QED
        BY <2>0, <3>1, <3>2 DEF EntryInv
    <3>4. f.key = k /\ f.value = id
      OBVIOUS
    <3>. HIDE DEF f, k
    <3>5. \A e \in Entries(cuckooTables) : e.key = k => e = f
      BY <2>0, <3>3, <3>4, EntryTypes
    <3>6. Stored(cuckooTables, k) = {id}
      BY <2>1, <3>3, <3>4, <3>5
    <3>. QED
      BY <3>6 DEF k
  <2>3. ASSUME NEW k \in Key, NEW id \in Stored(cuckooTables, k)
        PROVE  \/ tupleValid[id] /\ reverseLookupTable[id] = k
               \/ slc.state = "UPD_RSP" /\ slc.query.tuple = k
               \/ [key |-> id, value |-> k] \in ToSet(revInserts)
               \/ [op |-> "DELETE", key |-> k, value |-> id]
                    \in ToSet(delete_req) \cup ToSet(update_req)
    <3>1. PICK e \in Entries(cuckooTables) : e.key = k /\ id = e.value
      BY <2>1, <2>3
    <3>2. Claimed(k, id)
      BY <2>0, <3>1 DEF EntryInv
    <3>3. /\ revInserts \in Seq(ReverseEntry) /\ delete_req \in Seq(Deletion)
          /\ update_req \in Seq(UpdateRequest)
      BY <1>1, QueueTypes
    <3>4. ASSUME NEW i \in 1 .. Len(revInserts), revInserts[i] = [key |-> id, value |-> k]
          PROVE  [key |-> id, value |-> k] \in ToSet(revInserts)
      BY <3>3, <3>4, HeldIsInSet
    <3>5. ASSUME NEW i \in 1 .. Len(delete_req), delete_req[i] = DeleteOf(k, id)
          PROVE  DeleteOf(k, id) \in ToSet(delete_req)
      BY <3>3, <3>5, HeldIsInSet
    <3>6. ASSUME NEW i \in 1 .. Len(update_req), update_req[i] = DeleteOf(k, id)
          PROVE  DeleteOf(k, id) \in ToSet(update_req)
      BY <3>3, <3>6, HeldIsInSet
    <3>7. ASSUME NEW i \in 1 .. Len(update_rsp), update_rsp[i] = InsertOf(k, id)
          PROVE  slc.state = "UPD_RSP" /\ slc.query.tuple = k
      <4>1. IsCached(update_rsp[i]) /\ update_rsp[i].key = k
        BY <2>0, <3>7 DEF InsertInv, InsertOf
      <4>. QED
        BY <4>1 DEF IsCached
    <3>. QED
      BY <3>2, <3>4, <3>5, <3>6, <3>7 DEF Claimed, DeleteOf
  <2>. QED
    BY <2>2, <2>3
<1>. QED
  BY <1>1, TablesInvariant, PTL

(* No lookup is answered with a number that is another tuple's by then,    *)
(* failed insertions included: sessionIdManager may hand a number out      *)
(* while the deletion of its last tuple is on its way, but the insertion   *)
(* that uses it is behind that deletion, and there is one lookup at a      *)
(* time.                                                                   *)
THEOREM AnswersNotReassigned == Spec => AnswerNotReassigned
<1>. DEFINE A == \A a \in answers' \ answers : \A id \in a.session : \A k \in Key \ {a.tuple} :
                   id \notin Stored(cuckooTables, k)'
<1>1. ASSUME SessionInv, TablesInv, [Next]_vars PROVE [A]_vars
  <2>0. ASSUME NEW k, NEW id, id \in Stored(cuckooTables, k)
        PROVE  \E e \in Entries(cuckooTables) : e.key = k /\ e.value = id
    BY <2>0 DEF Stored, Entries
  <2>1. ASSUME answers' = answers PROVE A
    BY <2>1
  <2>2. ASSUME NEW found, Answer(slc.query, found), cuckooTables' = cuckooTables,
               \A id \in found : \A e \in Entries(cuckooTables) :
                 e.value = id => e.key = slc.query.tuple
        PROVE  A
    <3>. SUFFICES ASSUME NEW a \in answers' \ answers, NEW id \in a.session,
                         NEW k \in Key \ {a.tuple}, id \in Stored(cuckooTables, k)'
                  PROVE  FALSE
      OBVIOUS
    <3>1. a.tuple = slc.query.tuple /\ a.session = found
      BY <2>2 DEF Answer
    <3>2. id \in Stored(cuckooTables, k)
      BY <2>2
    <3>3. PICK e \in Entries(cuckooTables) : e.key = k /\ e.value = id
      BY <2>0, <3>2
    <3>. QED
      BY <2>2, <3>1, <3>3
  <2>3. CASE LookupReply
    <3>1. PICK found : lookup_rsp = <<found>> /\ StillTrue(found)
      BY <1>1, <2>3 DEF LookupReply, TablesInv, LookupInv
    <3>2. cuckooTables' = cuckooTables /\ Head(lookup_rsp) = found
      BY <2>3, <3>1 DEF LookupReply, hashVars
    <3>3. answers' = answers \/ Answer(slc.query, found)
      BY <2>3, <3>2 DEF LookupReply
    <3>. QED
      BY <2>1, <2>2, <3>1, <3>2, <3>3 DEF StillTrue
  <2>4. CASE InsertReply
    <3>. DEFINE r == update_rsp[1]
                k == slc.query.tuple
    <3>1. /\ cuckooTables' = cuckooTables /\ Answer(slc.query, {Head(update_rsp).value})
          /\ update_rsp # <<>>
      BY <2>4 DEF InsertReply, hashVars
    <3>2. update_rsp \in Seq(Insertion) /\ IdInv /\ DeleteInv /\ Placed(cuckooTables)
      BY <1>1, QueueTypes DEF TablesInv, HashInv
    <3>3. Head(update_rsp) = r /\ r \in Insertion /\ 1 \in 1 .. Len(update_rsp)
      BY <3>1, <3>2, Popped
    <3>4. r.key = k
      BY <1>1, <3>3 DEF TablesInv, InsertInv, IsCached
    <3>5. r = InsertOf(k, r.value) /\ r.value \in SessionId
      <4>. HIDE DEF r
      <4>. QED
        BY <3>3, <3>4, RequestKinds
    <3>6. Claimed(k, r.value)
      BY <3>3, <3>5 DEF Claimed
    <3>. HIDE DEF r, k
    <3>7. ASSUME NEW id \in {r.value}, NEW e \in Entries(cuckooTables), e.value = id
          PROVE  e.key = k
      <4>1. Claimed(e.key, e.value) /\ e.value = r.value
        BY <1>1, <3>7 DEF TablesInv, EntryInv
      <4>. QED
        BY <3>2, <3>5, <3>6, <4>1, ClaimUnique
    <3>. QED
      BY <2>2, <3>1, <3>3, <3>7 DEF k
  <2>5. CASE ~ (LookupReply \/ InsertReply)
    <3>1. answers' = answers
      <4>1. CASE Controller
        BY <2>5, <4>1 DEF Controller, sessionIdManager, LookupRequest, updateRequestSender,
           hash_table, reverseLookupTableInterface, lookupVars
      <4>2. CASE PortTable
        BY <4>2 DEF PortTable, ReleasePort, CheckUsed, HandOut, CheckListening,
           check_out_multiplexer, lookupVars
      <4>3. CASE Environment
        BY <4>3 DEF Environment, AppOpen, RxCheck, Listen, ReleaseSession, lookupVars
      <4>4. CASE RxEngine
        BY <4>4 DEF RxEngine, RxQuery
      <4>5. CASE UNCHANGED vars
        BY <4>5 DEF vars
      <4>. QED
        BY <1>1, <4>1, <4>2, <4>3, <4>4, <4>5 DEF Next
    <3>. QED
      BY <2>1, <3>1
  <2>. QED
    BY <2>3, <2>4, <2>5
<1>2. SessionInv /\ TablesInv /\ [Next]_vars => [A]_vars
  BY <1>1
<1>. QED
  BY <1>2, TablesInvariant, PTL DEF Spec, AnswerNotReassigned

==============================================================================
