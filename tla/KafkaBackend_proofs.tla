------------------------ MODULE KafkaBackend_proofs ------------------------
(***************************************************************************)
(* Proofs about the Kafka backend, for every set of keys, every batch,     *)
(* every size of buffer that takes a header and a pair in its second half, *)
(* and every bound of the queue.                                           *)
(***************************************************************************)
EXTENDS KafkaBackend, SequenceTheorems, TLAPS

(* How the buffer goes with the place in the call: it is empty between     *)
(* calls, no more than half full in the loop, and `written' is 0 exactly   *)
(* when no pair is in it.                                                  *)
BufferInv ==
  /\ written = 0 <=> buf = << >>
  /\ pc \in {"idle", "draining", "freed"} => written = 0
  /\ pc = "serialize" => written <= Half
  /\ pc \in {"serialize", "send"} => call >= 1
  /\ pc # "aborted"

TypeInv == TypeOK /\ BufferInv

(* The bounds are natural numbers.                                         *)
LEMMA Bounds ==
  MaxCalls \in Nat /\ DrainLimit \in Nat /\ QueueCap \in Nat /\ BufferLen \in Nat
BY KafkaAssumption

LEMMA Sizes ==
  HeaderSize \in Nat /\ \A k \in Keys : SizeOf[k] \in Nat /\ SizeOf[k] > 0
BY KafkaAssumption

(* Hashes and times are natural numbers.                                   *)
LEMMA Numbers ==
  (\A k \in Keys : HashOf[k] \in Nat) /\ Times \subseteq Nat
BY KafkaAssumption

LEMMA BatchType == Batches \subseteq Seq(Keys)
BY KafkaAssumption

(* Half is a natural number.                                               *)
LEMMA HalfIsNat == Half \in Nat /\ Half <= BufferLen
  BY KafkaAssumption DEF Half

(* Taking one message out of the queue leaves a queue that is one shorter. *)
LEMMA RemoveOne ==
  ASSUME NEW S, NEW s \in Seq(S), NEW i \in 1 .. Len(s)
  PROVE  /\ SubSeq(s, 1, i - 1) \o SubSeq(s, i + 1, Len(s)) \in Seq(S)
         /\ Len(SubSeq(s, 1, i - 1) \o SubSeq(s, i + 1, Len(s))) = Len(s) - 1
<1> DEFINE a == SubSeq(s, 1, i - 1)
           b == SubSeq(s, i + 1, Len(s))
<1>0. Len(s) \in Nat /\ i \in Nat /\ i >= 1 /\ i <= Len(s)
  BY LenProperties
<1>1. a \in Seq(S) /\ Len(a) = i - 1
  <2>1. \A j \in 1 .. i - 1 : s[j] \in S
    BY <1>0, ElementOfSeq
  <2>2. 1 \in Int /\ i - 1 \in Int
    BY <1>0
  <2> QED
    BY <1>0, <2>1, <2>2, SubSeqProperties, 1 <= i - 1 \/ i - 1 = 0
<1>2. b \in Seq(S) /\ Len(b) = Len(s) - i
  <2>1. \A j \in i + 1 .. Len(s) : s[j] \in S
    BY <1>0, ElementOfSeq
  <2>2. i + 1 \in Int /\ Len(s) \in Int
    BY <1>0
  <2> QED
    BY <1>0, <2>1, <2>2, SubSeqProperties, i + 1 <= Len(s) \/ i = Len(s)
<1> HIDE DEF a, b
<1>3. a \o b \in Seq(S) /\ Len(a \o b) = Len(a) + Len(b)
  BY <1>1, <1>2, ConcatProperties
<1>4. Len(a \o b) = Len(s) - 1
  BY <1>0, <1>1, <1>2, <1>3
<1> QED
  BY <1>3, <1>4 DEF a, b

(* What is left in the queue was in it before.                             *)
LEMMA RemoveKeeps ==
  ASSUME NEW S, NEW s \in Seq(S), NEW i \in 1 .. Len(s),
         NEW j \in 1 .. Len(SubSeq(s, 1, i - 1) \o SubSeq(s, i + 1, Len(s)))
  PROVE  \E k \in 1 .. Len(s) :
           (SubSeq(s, 1, i - 1) \o SubSeq(s, i + 1, Len(s)))[j] = s[k]
<1> DEFINE a == SubSeq(s, 1, i - 1)
           b == SubSeq(s, i + 1, Len(s))
<1>0. Len(s) \in Nat /\ i \in Nat /\ i >= 1 /\ i <= Len(s)
  BY LenProperties
<1>1. a \in Seq(S) /\ Len(a) = i - 1 /\ \A k \in 1 .. i - 1 : a[k] = s[k]
  <2>1. \A k \in 1 .. i - 1 : s[k] \in S
    BY <1>0, ElementOfSeq
  <2>2. 1 \in Int /\ i - 1 \in Int
    BY <1>0
  <2> QED
    BY <1>0, <2>1, <2>2, SubSeqProperties, 1 <= i - 1 \/ i - 1 = 0
<1>2. b \in Seq(S) /\ Len(b) = Len(s) - i
      /\ \A k \in 1 .. Len(s) - i : b[k] = s[i + k]
  <2>1. \A k \in i + 1 .. Len(s) : s[k] \in S
    BY <1>0, ElementOfSeq
  <2>2. i + 1 \in Int /\ Len(s) \in Int
    BY <1>0
  <2> QED
    BY <1>0, <2>1, <2>2, SubSeqProperties, i + 1 <= Len(s) \/ i = Len(s)
<1> HIDE DEF a, b
<1>3. Len(a \o b) = Len(s) - 1
      /\ \A k \in 1 .. Len(a \o b) :
           (a \o b)[k] = IF k <= Len(a) THEN a[k] ELSE b[k - Len(a)]
  <2>1. Len(a) \in Nat /\ Len(b) \in Nat
    BY <1>0, <1>1, <1>2
  <2>2. Len(a \o b) = Len(a) + Len(b)
        /\ \A k \in 1 .. Len(a) + Len(b) :
             (a \o b)[k] = IF k <= Len(a) THEN a[k] ELSE b[k - Len(a)]
    BY <1>1, <1>2, ConcatProperties
  <2>3. Len(a) + Len(b) = Len(s) - 1
    BY <1>0, <1>1, <1>2
  <2> QED
    BY <2>2, <2>3
<1>4. j \in 1 .. Len(s) - 1
  <2>1. j \in 1 .. Len(a \o b)
    BY DEF a, b
  <2> QED
    BY <1>3, <2>1
<1>5. CASE j <= i - 1
  <2>1. j \in 1 .. i - 1 /\ j \in 1 .. Len(s) /\ j \in 1 .. Len(a \o b)
    BY <1>0, <1>3, <1>4, <1>5
  <2>2. (a \o b)[j] = s[j]
    BY <1>1, <1>3, <1>5, <2>1
  <2> QED
    BY <2>1, <2>2 DEF a, b
<1>6. CASE j > i - 1
  <2>1. j - (i - 1) \in 1 .. Len(s) - i
    BY <1>0, <1>4, <1>6
  <2>2. (a \o b)[j] = s[i + (j - (i - 1))]
    BY <1>0, <1>1, <1>2, <1>3, <1>4, <1>6, <2>1
  <2>3. i + (j - (i - 1)) = j + 1 /\ j + 1 \in 1 .. Len(s)
    BY <1>0, <1>4
  <2> QED
    BY <2>2, <2>3 DEF a, b
<1> QED
  BY <1>0, <1>4, <1>5, <1>6

-----------------------------------------------------------------------------
(* The types and the buffer                                                *)

(* The invariant holds when the backend has been started.                  *)
LEMMA TypeInit == Init => TypeInv
<1> SUFFICES ASSUME Init PROVE TypeInv
  OBVIOUS
<1>1. << >> \in Seq(Keys) /\ << >> \in Seq(Point) /\ << >> \in Seq(Msg)
      /\ Len(<< >>) = 0
  BY EmptySeq
<1>2. TypeOK
  BY <1>1, KafkaAssumption DEF Init, TypeOK
<1> QED
  BY <1>2 DEF Init, TypeInv, BufferInv

(* One lemma for each of the actions that fill or send the buffer.         *)
LEMMA FlushBeginTypes ==
  ASSUME TypeInv, NEW keys \in Batches, NEW t \in Times, FlushBegin(keys, t)
  PROVE  TypeInv'
<1>1. keys \in Seq(Keys) /\ << >> \in Seq(Point)
  BY BatchType, EmptySeq
<1>2. call' \in 0 .. MaxCalls /\ call' >= 1
  BY Bounds DEF TypeInv, TypeOK, FlushBegin, BeginCall
<1>3. TypeOK'
  BY <1>1, <1>2 DEF TypeInv, TypeOK, BufferInv, FlushBegin, BeginCall, bufVars, sendVars,
       queueVars
<1>4. BufferInv'
  BY <1>2, HalfIsNat DEF TypeInv, TypeOK, BufferInv, FlushBegin, BeginCall,
       bufVars, sendVars, queueVars
<1> QED
  BY <1>3, <1>4 DEF TypeInv

(* A buffer that is at most half full takes one more header and pair.      *)
LEMMA SizeFits ==
  ASSUME NEW k \in Keys, written \in Nat, written <= Half
  PROVE  SizeWith(k) \in Nat /\ SizeWith(k) > 0 /\ SizeWith(k) <= BufferLen
<1>1. SizeOf[k] \in Nat /\ SizeOf[k] > 0 /\ HeaderSize \in Nat
      /\ BufferLen \in Nat /\ HeaderSize + SizeOf[k] <= BufferLen - Half
  BY Sizes, Bounds, RoomAssumption
<1> QED
  BY <1>1, HalfIsNat DEF SizeWith

(* Writing one pair in kp_flush overruns nothing.                          *)
LEMMA SerializeTypes ==
  ASSUME TypeInv, Serialize
  PROVE  TypeInv'
<1> DEFINE k == Head(rest)
<1>1. k \in Keys /\ Tail(rest) \in Seq(Keys)
  BY HeadTailProperties DEF TypeInv, TypeOK, Serialize
<1>2. call \in 1 .. MaxCalls /\ ThisPoint(k) \in Point /\ buf \in Seq(Point)
  BY <1>1, Bounds
     DEF TypeInv, TypeOK, BufferInv, Serialize, ThisPoint, Point
<1>3. buf' \in Seq(Point) /\ buf' # << >>
  <2>1. buf' = Append(buf, ThisPoint(k))
    BY DEF Serialize
  <2> QED
    BY <1>2, <2>1, AppendProperties
<1>4. written' \in Nat /\ written' > 0 /\ written' <= BufferLen
  BY <1>1, SizeFits DEF TypeInv, TypeOK, BufferInv, Serialize
<1>5. HashOf[k] \in Nat /\ time \in Nat
  BY <1>1, Numbers DEF TypeInv, TypeOK
<1>6. msgkey' \in Nat /\ lasthash' \in Nat /\ sendkey' \in Nat
  BY <1>5 DEF TypeInv, TypeOK, Serialize
<1>7. /\ pc' \in {"send", "serialize"}
      /\ pc' = "serialize" => written' <= Half
  BY <1>4, HalfIsNat, Bounds DEF Serialize
<1>8. TypeOK'
  BY <1>1, <1>3, <1>4, <1>6, <1>7
     DEF TypeInv, TypeOK, Serialize, queueVars, callVars
<1>9. BufferInv'
  <2>1. written' = 0 <=> buf' = << >>
    BY <1>3, <1>4
  <2>2. pc' \notin {"idle", "draining", "freed", "aborted"}
    BY <1>7
  <2>3. call' >= 1
    BY <1>2, Bounds DEF Serialize, callVars
  <2> QED
    BY <1>7, <2>1, <2>2, <2>3 DEF BufferInv, Half
<1> QED
  BY <1>8, <1>9 DEF TypeInv

(* The one pair of set_single fits into the empty buffer.                  *)
LEMMA SetSingleTypes ==
  ASSUME TypeInv, NEW k \in Keys, NEW t \in Times, SetSingle(k, t)
  PROVE  TypeInv'
<1>1. written = 0 /\ pc = "idle"
  BY DEF TypeInv, BufferInv, SetSingle, BeginCall
<1>2. call' \in 1 .. MaxCalls /\ t \in Nat
  BY Bounds, Numbers DEF TypeInv, TypeOK, SetSingle, BeginCall
<1>3. [key |-> k, time |-> t, call |-> call'] \in Point
  BY <1>2 DEF Point
<1>4. buf' \in Seq(Point) /\ buf' # << >>
  BY <1>3 DEF SetSingle
<1>5. written' \in Nat /\ written' > 0 /\ written' <= BufferLen
  BY <1>1, SizeFits, HalfIsNat DEF SetSingle
<1>6. <<k>> \in Seq(Keys) /\ << >> \in Seq(Keys) /\ << >> \in Seq(Point)
  BY EmptySeq
<1>7. sendkey' \in Nat
  BY <1>2, Numbers DEF SetSingle
<1>8. pc' = "send"
  BY <1>1, <1>5 DEF SetSingle
<1>9. TypeOK'
  <2>1. /\ time' = t /\ batch' = <<k>> /\ sent' = << >> /\ rest' = << >>
        /\ resume' = "idle"
        /\ UNCHANGED <<format, drain, outq, reports, log, lost, okCalls,
                       lasthash, msgkey>>
    BY DEF SetSingle, BeginCall, queueVars
  <2>2. call' \in 0 .. MaxCalls
    BY <1>2, Bounds
  <2> QED
    BY <1>4, <1>5, <1>6, <1>7, <1>8, <2>1, <2>2 DEF TypeInv, TypeOK
<1>10. call' >= 1
  BY <1>2, Bounds
<1>11. written' # 0
  BY <1>5
<1>12. BufferInv'
  <2>1. written' = 0 <=> buf' = << >>
    BY <1>4, <1>11
  <2>2. pc' \notin {"idle", "draining", "freed", "serialize", "aborted"}
    BY <1>8
  <2> QED
    BY <1>10, <2>1, <2>2 DEF BufferInv
<1> QED
  BY <1>9, <1>12 DEF TypeInv

(* A message that is handed over leaves an empty buffer behind.            *)
LEMMA ProduceTypes ==
  ASSUME TypeInv, Produce
  PROVE  TypeInv'
<1>1. buf # << >> /\ buf \in Seq(Point) /\ sent \in Seq(Point)
  BY DEF TypeInv, TypeOK, BufferInv, Produce
<1>2. Head(buf) \in Point
  BY <1>1, HeadTailProperties
<1> DEFINE m == [key |-> sendkey, time |-> Head(buf).time, points |-> buf]
<1>3. m \in Msg
  BY <1>1, <1>2 DEF TypeInv, TypeOK, Msg, Point
<1>4. outq' \in Seq(Msg) /\ Len(outq') = Len(outq) + 1
  BY <1>3, AppendProperties DEF TypeInv, TypeOK, Produce
<1>5. sent' \in Seq(Point) /\ << >> \in Seq(Point)
  BY <1>1, ConcatProperties, EmptySeq DEF Produce
<1>6. Len(outq') + reports' <= QueueCap
  <2>1. Len(outq) \in Nat
    BY LenProperties DEF TypeInv, TypeOK
  <2> QED
    BY <1>4, <2>1, Bounds DEF Produce, Full, TypeInv, TypeOK
<1>7. call \in 1 .. MaxCalls
  BY Bounds DEF TypeInv, TypeOK, BufferInv, Produce
<1>8. TypeOK'
  BY <1>4, <1>5, <1>6, <1>7
     DEF TypeInv, TypeOK, Produce, ResetBuf, AfterSend, loopVars, sendVars
<1>9. BufferInv'
  BY <1>7, HalfIsNat DEF TypeInv, TypeOK, BufferInv, Produce, ResetBuf, AfterSend
<1> QED
  BY <1>8, <1>9 DEF TypeInv

(* A message leaves the queue, delivered or not.                           *)
LEMMA LeavesTypes ==
  ASSUME TypeInv, NEW i \in 1 .. Len(outq), Deliver(i) \/ DeliveryFails(i)
  PROVE  TypeInv'
<1>1. outq \in Seq(Msg) /\ outq[i] \in Msg
  BY ElementOfSeq DEF TypeInv, TypeOK
<1>2. outq' \in Seq(Msg) /\ Len(outq') = Len(outq) - 1
  BY <1>1, RemoveOne DEF Deliver, DeliveryFails, Leaves
<1>3. reports' \in Nat /\ Len(outq') + reports' <= QueueCap
  <2>1. Len(outq) \in Nat
    BY <1>1, LenProperties
  <2>2. reports \in Nat /\ Len(outq) + reports <= QueueCap /\ QueueCap \in Nat
    BY Bounds DEF TypeInv, TypeOK
  <2>3. reports' = reports + 1
    BY DEF Deliver, DeliveryFails, Leaves
  <2> QED
    BY <1>2, <2>1, <2>2, <2>3
<1>4. log' \in [Partitions -> SUBSET Msg]
  BY <1>1 DEF Deliver, DeliveryFails, TypeInv, TypeOK
<1>5. lost' \subseteq Point
  <2>1. \A j \in 1 .. Len(outq[i].points) : outq[i].points[j] \in Point
    BY <1>1, ElementOfSeq DEF Msg
  <2>2. PointsIn(outq[i].points) \subseteq Point
    BY <2>1 DEF PointsIn
  <2>3. lost \subseteq Point
    BY DEF TypeInv, TypeOK
  <2>4. lost' = lost \/ lost' = lost \cup PointsIn(outq[i].points)
    BY DEF Deliver, DeliveryFails
  <2> QED
    BY <2>2, <2>3, <2>4
<1>6. UNCHANGED <<format, pc, loopVars, bufVars, sendVars, drain, callVars>>
  BY DEF Deliver, DeliveryFails, Leaves
<1>7. TypeOK'
  BY <1>2, <1>3, <1>4, <1>5, <1>6
     DEF TypeInv, TypeOK, loopVars, bufVars, sendVars, callVars
<1>8. BufferInv'
  BY <1>6 DEF TypeInv, BufferInv, bufVars, callVars
<1> QED
  BY <1>7, <1>8 DEF TypeInv

(* Destroying the producer empties its queue.                              *)
LEMMA DestroyTypes ==
  ASSUME TypeInv, Destroy
  PROVE  TypeInv'
<1>1. lost' \subseteq Point
  <2>1. \A i \in 1 .. Len(outq) : outq[i] \in Msg
    BY ElementOfSeq DEF TypeInv, TypeOK
  <2>2. \A i \in 1 .. Len(outq) : \A j \in 1 .. Len(outq[i].points) :
          outq[i].points[j] \in Point
    BY <2>1, ElementOfSeq DEF Msg
  <2>3. lost \subseteq Point
    BY DEF TypeInv, TypeOK
  <2> QED
    BY <2>2, <2>3 DEF Destroy, PointsIn
<1>2. << >> \in Seq(Msg) /\ Len(<< >>) = 0
  BY EmptySeq
<1>3. TypeOK'
  BY <1>1, <1>2, Bounds
     DEF TypeInv, TypeOK, Destroy, loopVars, bufVars, sendVars, callVars
<1>4. BufferInv'
  BY DEF TypeInv, BufferInv, Destroy, bufVars, callVars
<1> QED
  BY <1>3, <1>4 DEF TypeInv

(* No step of the thread or of librdkafka breaks the invariant.            *)
LEMMA TypeStep == TypeInv /\ [Next]_vars => TypeInv'
<1> SUFFICES ASSUME TypeInv, [Next]_vars PROVE TypeInv'
  OBVIOUS
<1>q. Len(outq) \in Nat
  BY LenProperties DEF TypeInv, TypeOK
<1>e. << >> \in Seq(Point)
  BY EmptySeq
<1>1. ASSUME NEW keys \in Batches, NEW t \in Times, FlushBegin(keys, t)
      PROVE  TypeInv'
  BY <1>1, FlushBeginTypes
<1>2. ASSUME NEW k \in Keys, NEW t \in Times, SetSingle(k, t)
      PROVE  TypeInv'
  BY <1>2, SetSingleTypes
<1>3. CASE FreeBegin
  <2>1. TypeOK'
    BY <1>3, <1>q, Bounds
       DEF TypeInv, TypeOK, FreeBegin, loopVars, bufVars, sendVars, callVars
  <2>2. BufferInv'
    BY <1>3 DEF TypeInv, BufferInv, FreeBegin, bufVars, callVars
  <2> QED
    BY <2>1, <2>2 DEF TypeInv
<1>4. CASE SendOldHash
  <2>1. TypeOK'
    BY <1>4 DEF TypeInv, TypeOK, SendOldHash, loopVars, bufVars, queueVars,
                callVars
  <2>2. BufferInv'
    BY <1>4 DEF TypeInv, BufferInv, SendOldHash, bufVars, callVars
  <2> QED
    BY <2>1, <2>2 DEF TypeInv
<1>5. CASE Serialize
  BY <1>5, SerializeTypes
<1>6. CASE SendRest
  <2>1. TypeOK'
    BY <1>6 DEF TypeInv, TypeOK, SendRest, loopVars, bufVars, queueVars,
                callVars
  <2>2. BufferInv'
    BY <1>6 DEF TypeInv, BufferInv, SendRest, bufVars, callVars
  <2> QED
    BY <2>1, <2>2 DEF TypeInv
<1>7. CASE Produce
  BY <1>7, ProduceTypes
<1>8. CASE ProduceFull
  <2>1. TypeOK'
    BY <1>8, <1>q, Bounds
       DEF TypeInv, TypeOK, ProduceFull, loopVars, bufVars, sendVars, callVars
  <2>2. BufferInv'
    BY <1>8 DEF TypeInv, BufferInv, ProduceFull, bufVars, callVars
  <2> QED
    BY <2>1, <2>2 DEF TypeInv
<1>9. CASE ProduceFails
  <2>1. TypeOK'
    BY <1>9, <1>q, <1>e, Bounds
       DEF TypeInv, TypeOK, ProduceFails, ResetBuf, loopVars, sendVars, callVars
  <2>2. BufferInv'
    BY <1>9 DEF TypeInv, BufferInv, ProduceFails, ResetBuf, callVars
  <2> QED
    BY <2>1, <2>2 DEF TypeInv
<1>10. CASE SendNothing
  <2>1. call \in 1 .. MaxCalls
    BY <1>10, Bounds DEF TypeInv, TypeOK, BufferInv, SendNothing
  <2>2. TypeOK'
    BY <1>10, <1>q, <1>e, <2>1, Bounds
       DEF TypeInv, TypeOK, SendNothing, ResetBuf, AfterSend, loopVars, sendVars
  <2>3. BufferInv'
    BY <1>10, HalfIsNat
       DEF TypeInv, TypeOK, BufferInv, SendNothing, ResetBuf, AfterSend
  <2> QED
    BY <2>2, <2>3 DEF TypeInv
<1>11. CASE Drain
  <2>1. drain' \in 0 .. DrainLimit
    BY <1>11, Bounds DEF TypeInv, TypeOK, Drain, Undrained
  <2>2. TypeOK'
    BY <1>11, <1>q, <2>1, Bounds
       DEF TypeInv, TypeOK, Drain, loopVars, bufVars, sendVars, callVars
  <2>3. BufferInv'
    BY <1>11 DEF TypeInv, BufferInv, Drain, bufVars, callVars
  <2> QED
    BY <2>2, <2>3 DEF TypeInv
<1>12. CASE Destroy
  BY <1>12, DestroyTypes
<1>13. ASSUME NEW i \in 1 .. Len(outq), Deliver(i) \/ DeliveryFails(i)
       PROVE  TypeInv'
  BY <1>13, LeavesTypes
<1>14. CASE UNCHANGED vars
  BY <1>14 DEF TypeInv, TypeOK, BufferInv, vars
<1> QED
  BY <1>1, <1>2, <1>3, <1>4, <1>5, <1>6, <1>7, <1>8, <1>9, <1>10, <1>11, <1>12,
     <1>13, <1>14 DEF Next, Client, Main, Broker

(* The invariant holds in every state.                                     *)
LEMMA TypeAlways == Spec => []TypeInv
<1>1. Spec => []TypeInv
  BY TypeInit, TypeStep, PTL DEF Spec
<1> QED
  BY <1>1

(* The backend is type correct; the queue never holds more messages and    *)
(* reports than librdkafka allows.                                         *)
THEOREM TypeCorrect == Spec => []TypeOK
<1>1. TypeInv => TypeOK
  BY DEF TypeInv
<1> QED
  BY <1>1, TypeAlways, PTL

(* No assertion of kp_flush, set_single, write_header and write_kv fails:  *)
(* the buffer is empty when a call begins and is never overrun, for every  *)
(* buffer whose second half takes a header and any one pair.               *)
THEOREM NeverAborts == Spec => []NoAbort
<1>1. TypeInv => NoAbort
  BY DEF TypeInv, BufferInv, NoAbort
<1> QED
  BY <1>1, TypeAlways, PTL

-----------------------------------------------------------------------------
(* Every info is handed over once                                          *)

(* The keys of a sequence of points, and of one that has grown.            *)
LEMMA KeysOfSeq ==
  ASSUME NEW s \in Seq(Point)
  PROVE  KeysOf(s) \in Seq(Keys) /\ Len(KeysOf(s)) = Len(s)
<1>1. Len(s) \in Nat /\ \A i \in 1 .. Len(s) : s[i].key \in Keys
  <2>1. Len(s) \in Nat /\ \A i \in 1 .. Len(s) : s[i] \in Point
    BY LenProperties, ElementOfSeq
  <2>2. \A pt \in Point : pt.key \in Keys
    BY DEF Point
  <2> QED
    BY <2>1, <2>2
<1>2. KeysOf(s) \in [1 .. Len(s) -> Keys]
  BY <1>1 DEF KeysOf
<1>3. KeysOf(s) \in Seq(Keys)
  BY <1>1, <1>2, SeqDef
<1>4. DOMAIN KeysOf(s) = 1 .. Len(s) /\ DOMAIN KeysOf(s) = 1 .. Len(KeysOf(s))
      /\ Len(KeysOf(s)) \in Nat
  BY <1>2, <1>3, LenProperties
<1> QED
  BY <1>1, <1>3, <1>4

(* No points, no keys.                                                     *)
LEMMA KeysOfEmpty == KeysOf(<< >>) = << >>
<1>1. << >> \in Seq(Point) /\ Len(<< >>) = 0
  BY EmptySeq
<1>2. KeysOf(<< >>) \in Seq(Keys) /\ Len(KeysOf(<< >>)) = 0
  BY <1>1, KeysOfSeq
<1> QED
  BY <1>2, EmptySeq

(* One more point is one more key.                                         *)
LEMMA KeysOfAppend ==
  ASSUME NEW s \in Seq(Point), NEW pt \in Point
  PROVE  KeysOf(Append(s, pt)) = Append(KeysOf(s), pt.key)
<1> DEFINE a == Append(s, pt)
           ka == KeysOf(a)
           b == Append(KeysOf(s), pt.key)
<1>1. pt.key \in Keys /\ Len(s) \in Nat
  BY LenProperties DEF Point
<1>2. /\ a \in Seq(Point) /\ Len(a) = Len(s) + 1
      /\ \A i \in 1 .. Len(s) : a[i] = s[i]
      /\ a[Len(s) + 1] = pt
  BY AppendProperties
<1>3. KeysOf(s) \in Seq(Keys) /\ Len(KeysOf(s)) = Len(s)
  BY KeysOfSeq
<1>4. /\ b \in Seq(Keys) /\ Len(b) = Len(s) + 1
      /\ \A i \in 1 .. Len(s) : b[i] = KeysOf(s)[i]
      /\ b[Len(s) + 1] = pt.key
  BY <1>1, <1>3, AppendProperties
<1>5. ka \in Seq(Keys) /\ Len(ka) = Len(s) + 1
  BY <1>2, KeysOfSeq
<1> HIDE DEF a, b
<1>6. ASSUME NEW i \in 1 .. Len(ka) PROVE ka[i] = b[i]
  <2>1. i \in 1 .. Len(a) /\ (i \in 1 .. Len(s) \/ i = Len(s) + 1)
    BY <1>1, <1>2, <1>5
  <2>2. ka[i] = a[i].key
    BY <2>1 DEF KeysOf
  <2>3. CASE i \in 1 .. Len(s)
    <3>1. KeysOf(s)[i] = s[i].key
      BY <2>3 DEF KeysOf
    <3> QED
      BY <1>2, <1>4, <2>2, <2>3, <3>1
  <2>4. CASE i = Len(s) + 1
    BY <1>2, <1>4, <2>2, <2>4
  <2> QED
    BY <2>1, <2>3, <2>4
<1>7. ka = b
  <2> HIDE DEF ka
  <2> QED
    BY <1>4, <1>5, <1>6, SeqEqual
<1> QED
  BY <1>7 DEF a, b

(* The keys of two sequences of points, one behind the other.              *)
LEMMA KeysOfConcat ==
  ASSUME NEW s \in Seq(Point), NEW t \in Seq(Point)
  PROVE  KeysOf(s \o t) = KeysOf(s) \o KeysOf(t)
<1> DEFINE a == s \o t
           ka == KeysOf(a)
           b == KeysOf(s) \o KeysOf(t)
<1>1. Len(s) \in Nat /\ Len(t) \in Nat
  BY LenProperties
<1>2. /\ a \in Seq(Point) /\ Len(a) = Len(s) + Len(t)
      /\ \A i \in 1 .. Len(s) + Len(t) :
           a[i] = IF i <= Len(s) THEN s[i] ELSE t[i - Len(s)]
  BY ConcatProperties
<1>3. /\ KeysOf(s) \in Seq(Keys) /\ Len(KeysOf(s)) = Len(s)
      /\ KeysOf(t) \in Seq(Keys) /\ Len(KeysOf(t)) = Len(t)
  BY KeysOfSeq
<1>4. /\ b \in Seq(Keys) /\ Len(b) = Len(s) + Len(t)
      /\ \A i \in 1 .. Len(s) + Len(t) :
           b[i] = IF i <= Len(s) THEN KeysOf(s)[i] ELSE KeysOf(t)[i - Len(s)]
  <2> DEFINE ks == KeysOf(s)
             kt == KeysOf(t)
  <2> HIDE DEF ks, kt
  <2>1. /\ ks \in Seq(Keys) /\ Len(ks) = Len(s)
        /\ kt \in Seq(Keys) /\ Len(kt) = Len(t)
    BY <1>3 DEF ks, kt
  <2>2. /\ ks \o kt \in Seq(Keys) /\ Len(ks \o kt) = Len(ks) + Len(kt)
        /\ \A i \in 1 .. Len(ks) + Len(kt) :
             (ks \o kt)[i] = IF i <= Len(ks) THEN ks[i] ELSE kt[i - Len(ks)]
    BY <2>1, ConcatProperties
  <2> QED
    BY <2>1, <2>2 DEF ks, kt
<1>5. ka \in Seq(Keys) /\ Len(ka) = Len(s) + Len(t)
  BY <1>2, KeysOfSeq
<1> HIDE DEF a, b
<1>6. ASSUME NEW i \in 1 .. Len(ka) PROVE ka[i] = b[i]
  <2>1. i \in 1 .. Len(s) + Len(t) /\ i \in 1 .. Len(a) /\ i \in Nat
    BY <1>1, <1>2, <1>5
  <2>2. ka[i] = a[i].key
    BY <2>1 DEF KeysOf
  <2>3. CASE i <= Len(s)
    <3>1. KeysOf(s)[i] = s[i].key
      BY <2>1, <2>3, <1>1 DEF KeysOf
    <3> QED
      BY <1>2, <1>4, <2>1, <2>2, <2>3, <3>1
  <2>4. CASE ~(i <= Len(s))
    <3>1. i - Len(s) \in 1 .. Len(t)
      BY <1>1, <2>1, <2>4
    <3>2. KeysOf(t)[i - Len(s)] = t[i - Len(s)].key
      BY <3>1 DEF KeysOf
    <3> QED
      BY <1>2, <1>4, <2>1, <2>2, <2>4, <3>2
  <2> QED
    BY <2>3, <2>4
<1>7. ka = b
  <2> HIDE DEF ka
  <2> QED
    BY <1>4, <1>5, <1>6, SeqEqual
<1> QED
  BY <1>7 DEF a, b

(* PointsOnce with what makes it inductive: a call in progress has not     *)
(* returned 0 yet, and the loop is through when the last SEND_MSG begins.  *)
OnceInv ==
  /\ PointsOnce
  /\ pc \in {"serialize", "send"} => call \notin okCalls
  /\ okCalls \subseteq 1 .. call
  /\ pc = "send" /\ resume = "idle" => rest = << >>

(* Before the first call nothing is owed.                                  *)
LEMMA OnceInit == Init => OnceInv
<1> SUFFICES ASSUME Init PROVE OnceInv
  OBVIOUS
<1>1. PointsOnce
  BY DEF Init, PointsOnce
<1> QED
  BY <1>1 DEF Init, OnceInv

(* A flush begins with everything still to visit.                          *)
LEMMA OnceFlushBegin ==
  ASSUME TypeInv, OnceInv, NEW keys \in Batches, NEW t \in Times,
         FlushBegin(keys, t)
  PROVE  OnceInv'
<1>1. buf' = << >> /\ sent' = << >> /\ rest' = keys /\ batch' = keys
      /\ pc' = "serialize" /\ okCalls' = okCalls /\ call' = call + 1
  BY DEF TypeInv, BufferInv, FlushBegin, BeginCall, bufVars
<1>2. keys \in Seq(Keys) /\ << >> \in Seq(Keys)
  BY BatchType, EmptySeq
<1>3. << >> \o << >> \o keys = keys
  BY <1>2, ConcatEmptySeq
<1>4. PointsOnce'
  BY <1>1, <1>3, KeysOfEmpty DEF PointsOnce
<1>5. call' \notin okCalls' /\ okCalls' \subseteq 1 .. call'
  BY <1>1 DEF TypeInv, TypeOK, OnceInv
<1> QED
  BY <1>1, <1>4, <1>5 DEF OnceInv

(* set_single puts its only pair into the buffer at once.                  *)
LEMMA OnceSetSingle ==
  ASSUME TypeInv, OnceInv, NEW k \in Keys, NEW t \in Times, SetSingle(k, t)
  PROVE  OnceInv'
<1> DEFINE pt == [key |-> k, time |-> t, call |-> call']
<1>1. /\ buf' = <<pt>> /\ sent' = << >> /\ rest' = << >> /\ batch' = <<k>>
      /\ okCalls' = okCalls /\ call' = call + 1 /\ pc' \in {"send", "aborted"}
  BY DEF SetSingle, BeginCall
<1>2. call' \in 1 .. MaxCalls
  BY Bounds DEF TypeInv, TypeOK, SetSingle, BeginCall
<1>3. pt \in Point /\ << >> \in Seq(Point) /\ << >> \in Seq(Keys)
  BY <1>2, EmptySeq DEF Point
<1>4. KeysOf(<<pt>>) = <<k>>
  <2>1. Append(<< >>, pt) = <<pt>> /\ Append(<< >>, k) = <<k>>
    OBVIOUS
  <2>2. KeysOf(Append(<< >>, pt)) = Append(KeysOf(<< >>), pt.key)
    BY <1>3, KeysOfAppend
  <2> QED
    BY <2>1, <2>2, KeysOfEmpty
<1>5. << >> \o <<k>> \o << >> = <<k>>
  BY ConcatEmptySeq, <<k>> \in Seq(Keys)
<1>6. PointsOnce'
  BY <1>1, <1>4, <1>5, KeysOfEmpty DEF PointsOnce
<1>7. call' \notin okCalls' /\ okCalls' \subseteq 1 .. call'
  BY <1>1 DEF TypeInv, TypeOK, OnceInv
<1> QED
  BY <1>1, <1>6, <1>7 DEF OnceInv

(* The pair goes from the head of the list to the end of the buffer.       *)
LEMMA OnceSerialize ==
  ASSUME TypeInv, OnceInv, Serialize
  PROVE  OnceInv'
<1> DEFINE k == Head(rest)
           pt == ThisPoint(k)
           ks == KeysOf(sent)
           kb == KeysOf(buf)
<1>1. k \in Keys /\ Tail(rest) \in Seq(Keys) /\ rest \in Seq(Keys) /\ rest # << >>
  BY HeadTailProperties DEF TypeInv, TypeOK, Serialize
<1>2. pt \in Point /\ pt.key = k
  BY <1>1, Numbers
     DEF TypeInv, TypeOK, BufferInv, Serialize, ThisPoint, Point
<1>3. ks \in Seq(Keys) /\ kb \in Seq(Keys)
  BY KeysOfSeq DEF TypeInv, TypeOK
<1>4. KeysOf(buf') = Append(kb, k)
  BY <1>2, KeysOfAppend DEF TypeInv, TypeOK, Serialize
<1>5. KeysOf(buf') = kb \o <<k>>
  BY <1>1, <1>3, <1>4, AppendIsConcat
<1>6. <<k>> \o Tail(rest) = rest
  BY <1>1
<1>7. (ks \o kb) \o rest = batch
  BY DEF OnceInv, PointsOnce, Serialize
<1>8. (ks \o (kb \o <<k>>)) \o Tail(rest) = (ks \o kb) \o rest
  <2> HIDE DEF ks, kb, k
  <2>1. <<k>> \in Seq(Keys)
    BY <1>1
  <2>2. ks \o kb \in Seq(Keys)
    BY <1>3, ConcatProperties
  <2>3. ks \o (kb \o <<k>>) = (ks \o kb) \o <<k>>
    BY <1>3, <2>1, ConcatAssociative
  <2>4. ((ks \o kb) \o <<k>>) \o Tail(rest) = (ks \o kb) \o (<<k>> \o Tail(rest))
    BY <1>1, <2>1, <2>2, ConcatAssociative
  <2> QED
    BY <1>6, <2>3, <2>4
<1>9. UNCHANGED <<sent, batch, okCalls, call>> /\ rest' = Tail(rest)
      /\ resume' = "serialize" /\ pc' # "idle"
  BY DEF Serialize, callVars
<1>10. PointsOnce'
  BY <1>5, <1>7, <1>8, <1>9 DEF PointsOnce
<1> QED
  BY <1>9, <1>10 DEF OnceInv, Serialize

(* The whole buffer goes behind what has been handed over.                 *)
LEMMA OnceProduce ==
  ASSUME TypeInv, OnceInv, Produce
  PROVE  OnceInv'
<1> DEFINE ks == KeysOf(sent)
           kb == KeysOf(buf)
<1>1. sent' = sent \o buf /\ buf' = << >> /\ pc = "send" /\ pc' = resume
      /\ UNCHANGED <<rest, batch, call, resume>>
  BY DEF Produce, ResetBuf, AfterSend, loopVars, sendVars
<1>2. ks \in Seq(Keys) /\ kb \in Seq(Keys) /\ rest \in Seq(Keys)
  BY KeysOfSeq DEF TypeInv, TypeOK
<1>3. KeysOf(sent') = ks \o kb
  BY <1>1, KeysOfConcat DEF TypeInv, TypeOK
<1>4. (ks \o kb) \o rest = batch
  BY <1>1 DEF OnceInv, PointsOnce
<1>5. (ks \o kb) \in Seq(Keys)
  <2> HIDE DEF ks, kb
  <2> QED
    BY <1>2, ConcatProperties
<1>6. (ks \o kb) \o << >> = ks \o kb
  <2> HIDE DEF ks, kb
  <2> QED
    BY <1>5, ConcatEmptySeq
<1>7. CASE resume = "serialize"
  <2>1. PointsOnce'
    BY <1>1, <1>3, <1>4, <1>6, <1>7, KeysOfEmpty DEF PointsOnce
  <2> QED
    BY <1>1, <1>7, <2>1 DEF OnceInv, Produce, AfterSend
<1>8. CASE resume = "idle"
  <2>1. rest = << >>
    BY <1>1, <1>8 DEF OnceInv
  <2>2. KeysOf(sent') = batch
    <3> HIDE DEF ks, kb
    <3> QED
      BY <1>3, <1>4, <1>6, <2>1
  <2>4. PointsOnce'
    BY <1>1, <1>8, <2>2 DEF PointsOnce
  <2>3. okCalls' \subseteq 1 .. call'
    <3> HIDE DEF ks, kb
    <3>1. call \in Nat /\ call >= 1
      BY <1>1, Bounds DEF TypeInv, TypeOK, BufferInv
    <3>2. okCalls' = okCalls \cup {call} /\ call' = call
      BY <1>1, <1>8 DEF Produce, AfterSend
    <3>3. okCalls \subseteq 1 .. call
      BY DEF OnceInv
    <3> QED
      BY <3>1, <3>2, <3>3
  <2> QED
    BY <1>1, <1>8, <2>3, <2>4 DEF OnceInv
<1> QED
  BY <1>7, <1>8 DEF TypeInv, TypeOK

(* An empty buffer means that nothing is left to hand over.                *)
LEMMA OnceSendNothing ==
  ASSUME TypeInv, OnceInv, SendNothing
  PROVE  OnceInv'
<1>1. buf = << >> /\ buf' = << >> /\ pc = "send" /\ pc' = resume
      /\ UNCHANGED <<rest, batch, call, resume, sent>>
  BY DEF SendNothing, ResetBuf, AfterSend, loopVars, sendVars, TypeInv, BufferInv
<1>2. KeysOf(sent) \in Seq(Keys) /\ << >> \in Seq(Keys)
  BY KeysOfSeq, EmptySeq DEF TypeInv, TypeOK
<1>3. KeysOf(sent) \o KeysOf(buf) \o rest = batch
  BY <1>1 DEF OnceInv, PointsOnce
<1>4. KeysOf(sent) \o << >> \o << >> = KeysOf(sent)
  BY <1>2, ConcatEmptySeq
<1>5. CASE resume = "serialize"
  <2>1. PointsOnce'
    BY <1>1, <1>3, <1>5 DEF PointsOnce
  <2> QED
    BY <1>1, <1>5, <2>1 DEF OnceInv, SendNothing, AfterSend
<1>6. CASE resume = "idle"
  <2>1. rest = << >>
    BY <1>1, <1>6 DEF OnceInv
  <2>2. PointsOnce'
    BY <1>1, <1>3, <1>4, <1>6, <2>1, KeysOfEmpty DEF PointsOnce
  <2>3. okCalls' \subseteq 1 .. call'
    BY <1>1, Bounds
       DEF OnceInv, SendNothing, AfterSend, TypeInv, TypeOK, BufferInv
  <2> QED
    BY <1>1, <1>6, <2>2, <2>3 DEF OnceInv
<1> QED
  BY <1>5, <1>6 DEF TypeInv, TypeOK

(* No step loses a point of the call or adds one.                          *)
LEMMA OnceStep == TypeInv /\ OnceInv /\ [Next]_vars => OnceInv'
<1> SUFFICES ASSUME TypeInv, OnceInv, [Next]_vars PROVE OnceInv'
  OBVIOUS
<1>1. ASSUME NEW keys \in Batches, NEW t \in Times, FlushBegin(keys, t)
      PROVE  OnceInv'
  BY <1>1, OnceFlushBegin
<1>2. ASSUME NEW k \in Keys, NEW t \in Times, SetSingle(k, t)
      PROVE  OnceInv'
  BY <1>2, OnceSetSingle
<1>3. CASE FreeBegin \/ Drain \/ Destroy
  BY <1>3 DEF OnceInv, PointsOnce, FreeBegin, Drain, Destroy, callVars
<1>4. CASE SendOldHash \/ SendRest
  <2>1. PointsOnce'
    BY <1>4 DEF OnceInv, PointsOnce, SendOldHash, SendRest, loopVars, bufVars,
                callVars
  <2> QED
    BY <1>4, <2>1 DEF OnceInv, SendOldHash, SendRest, loopVars, callVars
<1>5. CASE Serialize
  BY <1>5, OnceSerialize
<1>6. CASE Produce
  BY <1>6, OnceProduce
<1>7. CASE ProduceFull
  BY <1>7 DEF OnceInv, PointsOnce, ProduceFull, loopVars, bufVars, sendVars,
              callVars
<1>8. CASE ProduceFails
  BY <1>8 DEF OnceInv, PointsOnce, ProduceFails, loopVars, sendVars, callVars
<1>9. CASE SendNothing
  BY <1>9, OnceSendNothing
<1>10. ASSUME NEW i \in 1 .. Len(outq), Deliver(i) \/ DeliveryFails(i)
       PROVE  OnceInv'
  BY <1>10 DEF OnceInv, PointsOnce, Deliver, DeliveryFails, Leaves, loopVars,
               bufVars, sendVars, callVars
<1>11. CASE UNCHANGED vars
  BY <1>11 DEF OnceInv, PointsOnce, vars
<1> QED
  BY <1>1, <1>2, <1>3, <1>4, <1>5, <1>6, <1>7, <1>8, <1>9, <1>10, <1>11
     DEF Next, Client, Main, Broker

(* What a call hands to librdkafka, has in the buffer and has still to     *)
(* visit are the infos it was given, in their order and each of them once; *)
(* a call that returns 0 has handed over all of them.                      *)
THEOREM HandsOverOnce == Spec => []PointsOnce
<1>1. OnceInv => PointsOnce
  BY DEF OnceInv
<1> QED
  BY <1>1, OnceInit, OnceStep, TypeAlways, PTL DEF Spec

-----------------------------------------------------------------------------
(* Routing                                                                 *)

(* All the points of a message have the time of its header and the route   *)
(* that its key stands for.                                                *)
MessageGood(m) ==
  \A a \in PointsIn(m.points) : a.time = m.time /\ RouteOf(a) = m.key

(* The points in the buffer are of one time and one route; it is what      *)
(* msgkey holds while the loop runs, and what SEND_MSG has been given.     *)
BufferGood ==
  format # "ascii" /\ buf # << >> =>
    /\ \A a \in PointsIn(buf) : a.time = time
    /\ pc = "serialize" =>
         /\ \A a \in PointsIn(buf) : RouteOf(a) = msgkey
         /\ format = "tskkey" => lasthash = msgkey
         /\ format = "tsk" => msgkey = time
    /\ pc = "send" => \A a \in PointsIn(buf) : RouteOf(a) = sendkey

QueueGood ==
  format # "ascii" => \A i \in 1 .. Len(outq) : MessageGood(outq[i])

LogGood ==
  format # "ascii" =>
    \A p \in Partitions : \A m \in log[p] :
      MessageGood(m) /\ p = TimePartitioner(m.key)

RouteInv == BufferGood /\ QueueGood /\ LogGood

(* One more point in a sequence is one more in the set.                    *)
LEMMA PointsInAppend ==
  ASSUME NEW s \in Seq(Point), NEW x \in Point
  PROVE  PointsIn(Append(s, x)) = PointsIn(s) \cup {x}
<1>1. Len(s) \in Nat /\ Len(Append(s, x)) = Len(s) + 1
  BY LenProperties, AppendProperties
<1>2. \A i \in 1 .. Len(s) : Append(s, x)[i] = s[i]
  BY AppendProperties
<1>3. Append(s, x)[Len(s) + 1] = x
  BY AppendProperties
<1>4. 1 .. Len(s) + 1 = (1 .. Len(s)) \cup {Len(s) + 1}
  BY <1>1
<1> HIDE DEF Point
<1> QED
  BY <1>1, <1>2, <1>3, <1>4 DEF PointsIn

(* A step that leaves the queue and the partitions alone, or only empties  *)
(* the queue, changes no message.                                          *)
LEMMA MessagesKept ==
  ASSUME QueueGood, LogGood, UNCHANGED <<format, log>>,
         outq' = outq \/ outq' = << >>
  PROVE  QueueGood' /\ LogGood'
<1>1. Len(<< >>) = 0
  BY EmptySeq
<1>2. ASSUME NEW m PROVE MessageGood(m)' <=> MessageGood(m)
  BY DEF MessageGood, RouteOf
<1>3. QueueGood'
  <2>1. CASE outq' = outq
    BY <2>1 DEF QueueGood, MessageGood, RouteOf
  <2>2. CASE outq' = << >>
    BY <1>1, <2>2 DEF QueueGood
  <2> QED
    BY <2>1, <2>2
<1>4. LogGood'
  BY DEF LogGood, MessageGood, RouteOf
<1> QED
  BY <1>3, <1>4

(* A new pair goes into an empty buffer or fits those that are in it: the  *)
(* pairs of another hash have been sent.                                   *)
LEMMA RouteSerialize ==
  ASSUME TypeInv, RouteInv, Serialize
  PROVE  RouteInv'
<1> DEFINE x == ThisPoint(Head(rest))
<1>1. buf \in Seq(Point) /\ x \in Point /\ Head(rest) \in Keys
  BY Numbers, HeadTailProperties
     DEF TypeInv, TypeOK, BufferInv, Serialize, ThisPoint, Point
<1>2. PointsIn(buf') = PointsIn(buf) \cup {x}
  <2> HIDE DEF x
  <2>1. buf' = Append(buf, x)
    BY DEF Serialize, x
  <2> QED
    BY <1>1, <2>1, PointsInAppend
<1>3. x.time = time /\ x.key = Head(rest)
  BY DEF ThisPoint
<1>4. UNCHANGED <<format, time, outq, log>> /\ sendkey' = msgkey'
  BY DEF Serialize, queueVars
<1>5. buf = << >> => PointsIn(buf) = {}
  BY EmptySeq DEF PointsIn
<1>6. CASE format = "tskkey"
  <2>1. msgkey' = HashOf[Head(rest)] /\ lasthash' = msgkey'
    BY <1>6 DEF Serialize
  <2>2. buf # << >> => lasthash = HashOf[Head(rest)] /\ lasthash = msgkey
    BY <1>6 DEF Serialize, NewHash, RouteInv, BufferGood, TypeInv, TypeOK,
                BufferInv
  <2>3. \A a \in PointsIn(buf') : a.time = time /\ HashOf[a.key] = msgkey'
    BY <1>2, <1>3, <1>5, <1>6, <2>1, <2>2
       DEF RouteInv, BufferGood, RouteOf, Serialize
  <2> QED
    BY <1>4, <1>6, <2>1, <2>3, MessagesKept DEF RouteInv, BufferGood, RouteOf
<1>7. CASE format = "tsk"
  <2>1. msgkey' = time
    BY <1>7 DEF Serialize
  <2>2. \A a \in PointsIn(buf') : a.time = time
    BY <1>2, <1>3, <1>5, <1>7 DEF RouteInv, BufferGood
  <2> QED
    BY <1>4, <1>7, <2>1, <2>2, MessagesKept DEF RouteInv, BufferGood, RouteOf
<1>8. CASE format = "ascii"
  BY <1>4, <1>8, MessagesKept DEF RouteInv, BufferGood
<1> QED
  BY <1>6, <1>7, <1>8 DEF TypeInv, TypeOK, Formats

(* The message has the key that its points were collected for.             *)
LEMMA RouteProduce ==
  ASSUME TypeInv, RouteInv, Produce
  PROVE  RouteInv'
<1> DEFINE m == [key |-> sendkey, time |-> Head(buf).time, points |-> buf]
<1>1. outq' = Append(outq, m) /\ buf' = << >> /\ UNCHANGED <<format, log>>
      /\ pc = "send" /\ buf # << >>
  BY DEF Produce, ResetBuf, TypeInv, TypeOK, BufferInv
<1>2. format # "ascii" => MessageGood(m)
  <2>1. Head(buf) \in PointsIn(buf)
    BY <1>1, HeadTailProperties, LenProperties, EmptySeq
       DEF PointsIn, TypeInv, TypeOK
  <2> QED
    BY <1>1, <2>1 DEF RouteInv, BufferGood, MessageGood
<1>3. QueueGood'
  <2> SUFFICES ASSUME format # "ascii", NEW i \in 1 .. Len(outq')
               PROVE  MessageGood(outq'[i])
    BY <1>1 DEF QueueGood, MessageGood, RouteOf
  <2>1. m \in Msg
    <3>1. Head(buf) \in Point
      BY <1>1, HeadTailProperties DEF TypeInv, TypeOK
    <3>2. Head(buf).time \in Times
      BY <3>1 DEF Point
    <3>3. sendkey \in Nat /\ buf \in Seq(Point)
      BY DEF TypeInv, TypeOK
    <3> HIDE DEF Point
    <3> QED
      BY <3>2, <3>3 DEF Msg
  <2> HIDE DEF m
  <2>2. Len(outq) \in Nat /\ Len(outq') = Len(outq) + 1
        /\ outq'[Len(outq) + 1] = m
        /\ \A j \in 1 .. Len(outq) : outq'[j] = outq[j]
    BY <1>1, <2>1, AppendProperties, LenProperties DEF TypeInv, TypeOK
  <2>3. i = Len(outq) + 1 \/ i \in 1 .. Len(outq)
    BY <2>2
  <2>4. CASE i = Len(outq) + 1
    BY <1>2, <2>2, <2>4
  <2>5. CASE i \in 1 .. Len(outq)
    BY <2>2, <2>5 DEF RouteInv, QueueGood
  <2> QED
    BY <2>3, <2>4, <2>5
<1>4. LogGood'
  BY <1>1 DEF RouteInv, LogGood, MessageGood, RouteOf
<1>5. BufferGood'
  BY <1>1 DEF BufferGood
<1> QED
  BY <1>3, <1>4, <1>5 DEF RouteInv

(* The partitioner puts a message where its key says.                      *)
LEMMA RouteLeaves ==
  ASSUME TypeInv, RouteInv, NEW i \in 1 .. Len(outq),
         Deliver(i) \/ DeliveryFails(i)
  PROVE  RouteInv'
<1>1. UNCHANGED <<format, pc, time, buf, lasthash, msgkey, sendkey>>
      /\ outq' = SubSeq(outq, 1, i - 1) \o SubSeq(outq, i + 1, Len(outq))
  BY DEF Deliver, DeliveryFails, Leaves, loopVars, bufVars, sendVars
<1>2. \A m : MessageGood(m)' <=> MessageGood(m)
  BY <1>1 DEF MessageGood, RouteOf
<1>3. QueueGood'
  <2>1. \A j \in 1 .. Len(outq') : \E k \in 1 .. Len(outq) : outq'[j] = outq[k]
    BY <1>1, RemoveKeeps DEF TypeInv, TypeOK
  <2> SUFFICES ASSUME format # "ascii", NEW j \in 1 .. Len(outq')
               PROVE  MessageGood(outq'[j])
    BY <1>1 DEF QueueGood, MessageGood, RouteOf
  <2>2. PICK k \in 1 .. Len(outq) : outq'[j] = outq[k]
    BY <2>1
  <2> QED
    BY <2>2 DEF RouteInv, QueueGood
<1>4. LogGood'
  <2>1. CASE UNCHANGED log
    BY <1>1, <2>1 DEF RouteInv, LogGood, MessageGood, RouteOf
  <2>2. CASE Deliver(i)
    <3> SUFFICES ASSUME format # "ascii", NEW p \in Partitions,
                        NEW m \in log'[p]
                 PROVE  MessageGood(m) /\ p = TimePartitioner(m.key)
      BY <1>1 DEF LogGood, MessageGood, RouteOf
    <3>1. m \in log[p] \/ (m = outq[i] /\ p \in PartitionOf(outq[i]))
      BY <2>2 DEF Deliver, TypeInv, TypeOK
    <3> QED
      BY <3>1 DEF RouteInv, QueueGood, LogGood, PartitionOf
  <2> QED
    BY <2>1, <2>2 DEF Deliver, DeliveryFails
<1>5. BufferGood'
  BY <1>1 DEF RouteInv, BufferGood, RouteOf
<1> QED
  BY <1>3, <1>4, <1>5 DEF RouteInv

(* No step mixes what must be kept apart.                                  *)
LEMMA RouteStep == TypeInv /\ RouteInv /\ [Next]_vars => RouteInv'
<1> SUFFICES ASSUME TypeInv, RouteInv, [Next]_vars PROVE RouteInv'
  OBVIOUS
<1>1. ASSUME NEW keys \in Batches, NEW t \in Times, FlushBegin(keys, t)
      PROVE  RouteInv'
  <2>1. buf' = << >>
    BY <1>1 DEF FlushBegin, BeginCall, bufVars, TypeInv, BufferInv
  <2> QED
    BY <1>1, <2>1, MessagesKept
       DEF RouteInv, BufferGood, FlushBegin, BeginCall, queueVars
<1>2. ASSUME NEW k \in Keys, NEW t \in Times, SetSingle(k, t)
      PROVE  RouteInv'
  <2> DEFINE x == [key |-> k, time |-> t, call |-> call']
  <2>1. PointsIn(buf') = {x}
    BY <1>2 DEF SetSingle, PointsIn
  <2>2. pc' # "serialize" /\ time' = t /\ UNCHANGED <<format, outq, log>>
        /\ sendkey' = IF format = "tskkey" THEN HashOf[k] ELSE t
    BY <1>2 DEF SetSingle, BeginCall, queueVars
  <2>3. BufferGood'
    BY <2>1, <2>2 DEF BufferGood, RouteOf
  <2> QED
    BY <2>2, <2>3, MessagesKept DEF RouteInv
<1>3. CASE FreeBegin \/ Drain
  BY <1>3, MessagesKept
     DEF RouteInv, BufferGood, RouteOf, FreeBegin, Drain, loopVars, bufVars,
         sendVars
<1>4. CASE Destroy
  BY <1>4, MessagesKept
     DEF RouteInv, BufferGood, RouteOf, Destroy, loopVars, bufVars, sendVars
<1>5. CASE SendOldHash
  <2>1. format = "tskkey" /\ sendkey' = lasthash
        /\ pc = "serialize" /\ pc' = "send"
        /\ UNCHANGED <<format, time, buf, outq, log>>
    BY <1>5 DEF SendOldHash, NewHash, loopVars, bufVars, queueVars
  <2> QED
    BY <2>1, MessagesKept DEF RouteInv, BufferGood, RouteOf
<1>6. CASE SendRest
  <2>1. sendkey' = msgkey /\ pc = "serialize" /\ pc' = "send"
        /\ UNCHANGED <<format, time, buf, outq, log>>
    BY <1>6 DEF SendRest, loopVars, bufVars, queueVars
  <2> QED
    BY <2>1, MessagesKept DEF RouteInv, BufferGood, RouteOf
<1>7. CASE Serialize
  BY <1>7, RouteSerialize
<1>8. CASE Produce
  BY <1>8, RouteProduce
<1>9. CASE ProduceFull
  BY <1>9, MessagesKept
     DEF RouteInv, BufferGood, RouteOf, ProduceFull, loopVars, bufVars, sendVars
<1>10. CASE ProduceFails \/ SendNothing
  BY <1>10, MessagesKept
     DEF RouteInv, BufferGood, ProduceFails, SendNothing, ResetBuf
<1>11. ASSUME NEW i \in 1 .. Len(outq), Deliver(i) \/ DeliveryFails(i)
       PROVE  RouteInv'
  BY <1>11, RouteLeaves
<1>12. CASE UNCHANGED vars
  BY <1>12, MessagesKept
     DEF RouteInv, BufferGood, RouteOf, vars, loopVars, bufVars, sendVars,
         queueVars
<1> QED
  BY <1>1, <1>2, <1>3, <1>4, <1>5, <1>6, <1>7, <1>8, <1>9, <1>10, <1>11, <1>12
     DEF Next, Client, Main, Broker

(* Two points that belong together, of one time in the format tsk or with  *)
(* keys of one prefix in tskkey, are never delivered to two partitions, and*)
(* every point has the time of its message's header.                       *)
THEOREM RoutesTogether == Spec => []RoutedTogether
<1>1. Init => RouteInv
  <2> SUFFICES ASSUME Init PROVE RouteInv
    OBVIOUS
  <2>1. buf = << >> /\ Len(outq) = 0 /\ \A p \in Partitions : log[p] = {}
    BY EmptySeq DEF Init
  <2> QED
    BY <2>1 DEF RouteInv, BufferGood, QueueGood, LogGood
<1>2. RouteInv => RoutedTogether
  BY DEF RouteInv, LogGood, MessageGood, RoutedTogether
<1> QED
  BY <1>1, <1>2, RouteStep, TypeAlways, PTL DEF Spec

-----------------------------------------------------------------------------
(* Nothing vanishes                                                        *)

(* The points of two sequences, one behind the other.                      *)
LEMMA PointsInConcat ==
  ASSUME NEW s \in Seq(Point), NEW t \in Seq(Point)
  PROVE  PointsIn(s \o t) \subseteq PointsIn(s) \cup PointsIn(t)
<1>1. Len(s) \in Nat /\ Len(t) \in Nat
  BY LenProperties
<1>2. /\ Len(s \o t) = Len(s) + Len(t)
      /\ \A i \in 1 .. Len(s) + Len(t) :
           (s \o t)[i] = IF i <= Len(s) THEN s[i] ELSE t[i - Len(s)]
  BY ConcatProperties
<1> SUFFICES ASSUME NEW i \in 1 .. Len(s \o t)
             PROVE  (s \o t)[i] \in PointsIn(s) \cup PointsIn(t)
  BY DEF PointsIn
<1>3. CASE i <= Len(s)
  <2>1. (s \o t)[i] = s[i] /\ i \in 1 .. Len(s)
    BY <1>1, <1>2, <1>3
  <2> QED
    BY <2>1 DEF PointsIn
<1>4. CASE ~(i <= Len(s))
  <2>1. (s \o t)[i] = t[i - Len(s)] /\ i - Len(s) \in 1 .. Len(t)
    BY <1>1, <1>2, <1>4
  <2> QED
    BY <2>1 DEF PointsIn
<1> QED
  BY <1>3, <1>4

(* What was in the queue and is not taken out stays in it.                 *)
LEMMA OthersStay ==
  ASSUME NEW S, NEW s \in Seq(S), NEW i \in 1 .. Len(s),
         NEW k \in 1 .. Len(s), k # i
  PROVE  \E j \in 1 .. Len(SubSeq(s, 1, i - 1) \o SubSeq(s, i + 1, Len(s))) :
           (SubSeq(s, 1, i - 1) \o SubSeq(s, i + 1, Len(s)))[j] = s[k]
<1> DEFINE a == SubSeq(s, 1, i - 1)
           b == SubSeq(s, i + 1, Len(s))
<1>0. Len(s) \in Nat /\ i \in Nat /\ i >= 1 /\ i <= Len(s)
      /\ k \in Nat /\ k >= 1 /\ k <= Len(s)
  BY LenProperties
<1>1. a \in Seq(S) /\ Len(a) = i - 1 /\ \A n \in 1 .. i - 1 : a[n] = s[n]
  <2>1. \A n \in 1 .. i - 1 : s[n] \in S
    BY <1>0, ElementOfSeq
  <2>2. 1 \in Int /\ i - 1 \in Int
    BY <1>0
  <2> QED
    BY <1>0, <2>1, <2>2, SubSeqProperties, 1 <= i - 1 \/ i - 1 = 0
<1>2. b \in Seq(S) /\ Len(b) = Len(s) - i
      /\ \A n \in 1 .. Len(s) - i : b[n] = s[i + n]
  <2>1. \A n \in i + 1 .. Len(s) : s[n] \in S
    BY <1>0, ElementOfSeq
  <2>2. i + 1 \in Int /\ Len(s) \in Int
    BY <1>0
  <2> QED
    BY <1>0, <2>1, <2>2, SubSeqProperties, i + 1 <= Len(s) \/ i = Len(s)
<1> HIDE DEF a, b
<1>3. Len(a \o b) = Len(s) - 1
      /\ \A n \in 1 .. Len(s) - 1 :
           (a \o b)[n] = IF n <= i - 1 THEN a[n] ELSE b[n - (i - 1)]
  <2>1. Len(a \o b) = Len(a) + Len(b)
        /\ \A n \in 1 .. Len(a) + Len(b) :
             (a \o b)[n] = IF n <= Len(a) THEN a[n] ELSE b[n - Len(a)]
    BY <1>1, <1>2, ConcatProperties
  <2>2. Len(a) + Len(b) = Len(s) - 1
    BY <1>0, <1>1, <1>2
  <2> QED
    BY <1>1, <2>1, <2>2
<1>4. CASE k < i
  <2>1. k \in 1 .. Len(s) - 1 /\ k <= i - 1 /\ k \in 1 .. i - 1
    BY <1>0, <1>4
  <2>2. (a \o b)[k] = s[k]
    BY <1>1, <1>3, <2>1
  <2> QED
    BY <1>3, <2>1, <2>2 DEF a, b
<1>5. CASE k > i
  <2> DEFINE n == k - 1
  <2>1. n \in 1 .. Len(s) - 1 /\ ~(n <= i - 1)
        /\ n - (i - 1) \in 1 .. Len(s) - i /\ i + (n - (i - 1)) = k
    BY <1>0, <1>5
  <2>2. (a \o b)[n] = b[n - (i - 1)]
    BY <1>3, <2>1
  <2>3. b[n - (i - 1)] = s[i + (n - (i - 1))]
    BY <1>2, <2>1
  <2>4. n \in 1 .. Len(a \o b) /\ (a \o b)[n] = s[k]
    BY <1>3, <2>1, <2>2, <2>3
  <2>5. \E j \in 1 .. Len(a \o b) : (a \o b)[j] = s[k]
    <3> HIDE DEF n
    <3> QED
      BY <2>4
  <2> QED
    BY <2>5 DEF a, b
<1>6. k < i \/ k > i
  BY <1>0
<1> QED
  BY <1>4, <1>5, <1>6

(* A message joins the queue with all that was in the buffer.              *)
LEMMA AccountedProduce ==
  ASSUME TypeInv, Accounted, Produce
  PROVE  Accounted'
<1> DEFINE m == [key |-> sendkey, time |-> Head(buf).time, points |-> buf]
<1>1. outq' = Append(outq, m) /\ sent' = sent \o buf /\ UNCHANGED <<log, lost>>
  BY DEF Produce
<1>2. m \in Msg
  <2>1. buf # << >>
    BY DEF Produce, TypeInv, BufferInv
  <2>2. Head(buf) \in Point
    BY <2>1, HeadTailProperties DEF TypeInv, TypeOK
  <2>3. Head(buf).time \in Times
    BY <2>2 DEF Point
  <2>4. sendkey \in Nat /\ buf \in Seq(Point)
    BY DEF TypeInv, TypeOK
  <2> HIDE DEF Point
  <2> QED
    BY <2>3, <2>4 DEF Msg
<1>3. Delivered' = Delivered
  BY <1>1 DEF Delivered, PointsIn
<1>4. Queued \cup PointsIn(buf) \subseteq Queued'
  <2>1. m.points = buf
    OBVIOUS
  <2> HIDE DEF m
  <2>2. Len(outq) \in Nat /\ Len(outq') = Len(outq) + 1
        /\ outq'[Len(outq) + 1] = m
        /\ \A j \in 1 .. Len(outq) : outq'[j] = outq[j]
    BY <1>1, <1>2, AppendProperties, LenProperties DEF TypeInv, TypeOK
  <2>3. \A j \in 1 .. Len(outq) : j \in 1 .. Len(outq')
    BY <2>2
  <2>4. Len(outq) + 1 \in 1 .. Len(outq')
    BY <2>2
  <2>5. PointsIn(buf) \subseteq Queued'
    BY <2>1, <2>2, <2>4 DEF Queued, PointsIn
  <2>6. Queued \subseteq Queued'
    BY <2>2, <2>3 DEF Queued, PointsIn
  <2> QED
    BY <2>5, <2>6
<1>5. PointsIn(sent') \subseteq PointsIn(sent) \cup PointsIn(buf)
  BY <1>1, PointsInConcat DEF TypeInv, TypeOK
<1> QED
  BY <1>1, <1>3, <1>4, <1>5 DEF Accounted, PointsIn

(* A message that leaves the queue is in a partition or reported.          *)
LEMMA AccountedLeaves ==
  ASSUME TypeInv, Accounted, NEW i \in 1 .. Len(outq),
         Deliver(i) \/ DeliveryFails(i)
  PROVE  Accounted'
<1>1. outq' = SubSeq(outq, 1, i - 1) \o SubSeq(outq, i + 1, Len(outq))
      /\ UNCHANGED sent
  BY DEF Deliver, DeliveryFails, Leaves, callVars
<1>2. Queued \subseteq Queued' \cup PointsIn(outq[i].points)
  <2> SUFFICES ASSUME NEW k \in 1 .. Len(outq), NEW x \in PointsIn(outq[k].points)
               PROVE  x \in Queued' \cup PointsIn(outq[i].points)
    BY DEF Queued
  <2>1. CASE k = i
    BY <2>1
  <2>2. CASE k # i
    <3>1. PICK j \in 1 .. Len(outq') : outq'[j] = outq[k]
      BY <1>1, <2>2, OthersStay DEF TypeInv, TypeOK
    <3> QED
      BY <3>1 DEF Queued, PointsIn
  <2> QED
    BY <2>1, <2>2
<1>3. Delivered \cup lost \cup PointsIn(outq[i].points)
        \subseteq Delivered' \cup lost'
  <2>1. CASE Deliver(i)
    <3>1. PICK p \in PartitionOf(outq[i]) :
            log' = [log EXCEPT ![p] = @ \cup {outq[i]}]
      BY <2>1 DEF Deliver
    <3>2. p \in Partitions
      <4>1. outq[i].key \in Nat
        <5>1. outq[i] \in Msg
          BY ElementOfSeq DEF TypeInv, TypeOK
        <5> HIDE DEF Point
        <5> QED
          BY <5>1 DEF Msg
      <4>2. TimePartitioner(outq[i].key) \in Partitions
        <5>1. \A n \in Nat : n \div 60 \in Nat
          OBVIOUS
        <5>2. \A n \in Nat : n % PartitionCnt \in 0 .. PartitionCnt - 1
          BY KafkaAssumption
        <5> QED
          BY <4>1, <5>1, <5>2 DEF TimePartitioner, Partitions
      <4> QED
        BY <4>2 DEF PartitionOf
    <3>3. outq[i] \in log'[p] /\ \A q \in Partitions : log[q] \subseteq log'[q]
      BY <3>1, <3>2 DEF TypeInv, TypeOK
    <3>4. UNION {log[q] : q \in Partitions}
            \subseteq UNION {log'[q] : q \in Partitions}
      BY <3>3
    <3>5. outq[i] \in UNION {log'[q] : q \in Partitions}
      BY <3>2, <3>3
    <3>6. Delivered \cup PointsIn(outq[i].points) \subseteq Delivered'
      BY <3>4, <3>5 DEF Delivered, PointsIn
    <3> QED
      BY <2>1, <3>6 DEF Deliver
  <2>2. CASE DeliveryFails(i)
    BY <2>2 DEF DeliveryFails, Delivered, PointsIn
  <2> QED
    BY <2>1, <2>2
<1>4. PointsIn(sent') = PointsIn(sent)
  BY <1>1 DEF PointsIn
<1> QED
  BY <1>2, <1>3, <1>4 DEF Accounted

(* Every step keeps the account.                                           *)
LEMMA AccountedStep == TypeInv /\ Accounted /\ [Next]_vars => Accounted'
<1> SUFFICES ASSUME TypeInv, Accounted, [Next]_vars PROVE Accounted'
  OBVIOUS
<1>1. ASSUME UNCHANGED <<outq, log, lost>>, sent' = sent \/ sent' = << >>
      PROVE  Accounted'
  <2>1. PointsIn(sent') \subseteq PointsIn(sent)
    <3>1. CASE sent' = sent
      BY <3>1 DEF PointsIn
    <3>2. CASE sent' = << >>
      BY <3>2, EmptySeq DEF PointsIn
    <3> QED
      BY <1>1, <3>1, <3>2
  <2>2. UNCHANGED <<Delivered, Queued, lost>>
    BY <1>1 DEF Delivered, Queued, PointsIn
  <2> QED
    BY <2>1, <2>2 DEF Accounted
<1>2. ASSUME NEW keys \in Batches, NEW t \in Times, FlushBegin(keys, t)
      PROVE  Accounted'
  BY <1>1, <1>2 DEF FlushBegin, BeginCall, queueVars
<1>3. ASSUME NEW k \in Keys, NEW t \in Times, SetSingle(k, t)
      PROVE  Accounted'
  BY <1>1, <1>3 DEF SetSingle, BeginCall, queueVars
<1>4. CASE FreeBegin \/ Drain
  BY <1>1, <1>4 DEF FreeBegin, Drain, callVars
<1>5. CASE Destroy
  <2>1. PointsIn(sent') = PointsIn(sent) /\ Delivered' = Delivered
        /\ lost' = lost \cup Queued
    BY <1>5 DEF Destroy, callVars, PointsIn, Delivered, Queued
  <2> QED
    BY <2>1 DEF Accounted
<1>6. CASE SendOldHash \/ SendRest \/ Serialize
  BY <1>1, <1>6 DEF SendOldHash, SendRest, Serialize, callVars, queueVars
<1>7. CASE Produce
  BY <1>7, AccountedProduce
<1>8. CASE ProduceFull \/ ProduceFails \/ SendNothing
  BY <1>1, <1>8 DEF ProduceFull, ProduceFails, SendNothing, callVars
<1>9. ASSUME NEW i \in 1 .. Len(outq), Deliver(i) \/ DeliveryFails(i)
      PROVE  Accounted'
  BY <1>9, AccountedLeaves
<1>10. CASE UNCHANGED vars
  BY <1>1, <1>10 DEF vars
<1> QED
  BY <1>2, <1>3, <1>4, <1>5, <1>6, <1>7, <1>8, <1>9, <1>10
     DEF Next, Client, Main, Broker

(* Whatever a call has handed over, and whether it has returned 0 or -1,   *)
(* is in the topic, in the queue, or counted as lost: buffers that are     *)
(* used again and messages that leave the queue in any order drop nothing. *)
THEOREM NothingVanishes == Spec => []Accounted
<1>1. Init => Accounted
  <2> SUFFICES ASSUME Init PROVE Accounted
    OBVIOUS
  <2>1. PointsIn(sent) = {}
    BY EmptySeq DEF Init, PointsIn
  <2> QED
    BY <2>1 DEF Accounted
<1> QED
  BY <1>1, AccountedStep, TypeAlways, PTL DEF Spec

-----------------------------------------------------------------------------
(* The backend implements the topic                                        *)

(* The pairs in the buffer belong to the call in progress.                 *)
FillInv ==
  pc \in {"serialize", "send"} =>
    /\ \A i \in 1 .. Len(buf) : buf[i].time = time /\ buf[i].call = call
    /\ buf # << >> =>
         /\ pc = "serialize" => \A i \in 1 .. Len(buf) :
                                  T!MessageKey(buf[i].key) = msgkey
         /\ pc = "serialize" /\ format = "tskkey" => lasthash = msgkey
         /\ pc = "send" => \A i \in 1 .. Len(buf) :
                             T!MessageKey(buf[i].key) = sendkey

(* A new pair fits those that are in the buffer.                           *)
LEMMA FillSerialize ==
  ASSUME TypeInv, FillInv, Serialize
  PROVE  FillInv'
<1> DEFINE k == Head(rest)
           x == ThisPoint(k)
<1>1. buf \in Seq(Point) /\ x \in Point /\ k \in Keys
  BY Numbers, HeadTailProperties
     DEF TypeInv, TypeOK, BufferInv, Serialize, ThisPoint, Point
<1>2. x.time = time /\ x.call = call /\ x.key = k
  BY DEF ThisPoint
<1>3. UNCHANGED <<format, time, call>> /\ sendkey' = msgkey'
      /\ pc = "serialize" /\ buf' = Append(buf, x)
      /\ msgkey' = T!MessageKey(k)
  BY DEF Serialize, callVars, T!MessageKey
<1>4. format = "tskkey" => lasthash' = msgkey'
  BY <1>3 DEF Serialize
<1>5. buf # << >> => msgkey' = msgkey
  <2> SUFFICES ASSUME buf # << >> PROVE msgkey' = msgkey
    OBVIOUS
  <2>1. CASE format = "tskkey"
    <3>1. msgkey' = HashOf[k]
      BY <2>1 DEF Serialize
    <3>2. HashOf[k] = lasthash
      BY <2>1 DEF Serialize, NewHash, TypeInv, TypeOK, BufferInv
    <3> QED
      BY <1>3, <2>1, <3>1, <3>2 DEF FillInv
  <2>2. CASE format # "tskkey"
    <3>1. 1 \in 1 .. Len(buf)
      BY <1>1, EmptySeq, LenProperties
    <3>2. T!MessageKey(buf[1].key) = msgkey
      BY <1>3, <3>1 DEF FillInv
    <3> QED
      BY <1>3, <2>2, <3>2 DEF T!MessageKey
  <2> QED
    BY <2>1, <2>2
<1>6. ASSUME NEW i \in 1 .. Len(buf')
      PROVE  /\ buf'[i].time = time /\ buf'[i].call = call
             /\ T!MessageKey(buf'[i].key) = msgkey'
  <2> HIDE DEF x, k
  <2>1. Len(buf) \in Nat /\ Len(buf') = Len(buf) + 1
        /\ buf'[Len(buf) + 1] = x
        /\ \A j \in 1 .. Len(buf) : buf'[j] = buf[j]
    BY <1>1, <1>3, AppendProperties, LenProperties
  <2>2. CASE i = Len(buf) + 1
    BY <1>2, <1>3, <2>1, <2>2
  <2>3. CASE i \in 1 .. Len(buf)
    <3>1. buf # << >>
      BY <2>3, EmptySeq
    <3> QED
      BY <1>3, <1>5, <2>1, <2>3, <3>1 DEF FillInv
  <2> QED
    BY <2>1, <2>2, <2>3
<1>7. \A y : T!MessageKey(y)' = T!MessageKey(y)
  BY <1>3 DEF T!MessageKey
<1> HIDE DEF x, k
<1> QED
  BY <1>3, <1>4, <1>6, <1>7 DEF FillInv

(* A buffer without pairs fits any call.                                   *)
LEMMA FillEmpty == ASSUME buf' = << >> PROVE FillInv'
  BY EmptySeq DEF FillInv

(* Every step keeps the pairs of one call, one time and one kind together. *)
LEMMA FillStep == TypeInv /\ FillInv /\ [Next]_vars => FillInv'
<1> SUFFICES ASSUME TypeInv, FillInv, [Next]_vars PROVE FillInv'
  OBVIOUS
<1>1. ASSUME UNCHANGED <<format, time>>
      PROVE  \A k : T!MessageKey(k)' = T!MessageKey(k)
  BY <1>1 DEF T!MessageKey
<1>2. ASSUME UNCHANGED <<format, pc, time, call, buf, lasthash, msgkey, sendkey>>
      PROVE  FillInv'
  BY <1>1, <1>2 DEF FillInv
<1>3. ASSUME NEW keys \in Batches, NEW t \in Times, FlushBegin(keys, t)
      PROVE  FillInv'
  BY <1>3, FillEmpty DEF FlushBegin, BeginCall, bufVars, TypeInv, BufferInv
<1>4. ASSUME NEW k \in Keys, NEW t \in Times, SetSingle(k, t)
      PROVE  FillInv'
  <2>1. /\ buf' = << [key |-> k, time |-> t, call |-> call'] >>
        /\ time' = t /\ format' = format /\ pc' \in {"send", "aborted"}
        /\ sendkey' = IF format = "tskkey" THEN HashOf[k] ELSE t
    BY <1>4 DEF SetSingle, BeginCall
  <2>3. Len(buf') = 1
    BY <2>1
  <2>4. \A i \in 1 .. Len(buf') :
          buf'[i].time = t /\ buf'[i].call = call' /\ buf'[i].key = k
    BY <2>1, <2>3
  <2>5. \A i \in 1 .. Len(buf') : T!MessageKey(buf[i].key)' = sendkey'
    BY <2>1, <2>4 DEF T!MessageKey
  <2> QED
    BY <2>1, <2>4, <2>5 DEF FillInv
<1>5. CASE FreeBegin \/ Drain \/ Destroy
  BY <1>5 DEF FreeBegin, Drain, Destroy, FillInv
<1>6. CASE SendOldHash
  <2>1. /\ UNCHANGED <<format, time, buf, call>> /\ pc = "serialize"
        /\ pc' = "send" /\ sendkey' = lasthash /\ format = "tskkey"
    BY <1>6 DEF SendOldHash, NewHash, loopVars, bufVars, callVars
  <2> QED
    BY <1>1, <2>1 DEF FillInv
<1>7. CASE Serialize
  BY <1>7, FillSerialize
<1>8. CASE SendRest
  <2>1. /\ UNCHANGED <<format, time, buf, call>> /\ pc = "serialize"
        /\ pc' = "send" /\ sendkey' = msgkey
    BY <1>8 DEF SendRest, loopVars, bufVars, callVars
  <2> QED
    BY <1>1, <2>1 DEF FillInv
<1>9. CASE Produce \/ ProduceFails \/ SendNothing
  BY <1>9, FillEmpty DEF Produce, ProduceFails, SendNothing, ResetBuf
<1>10. CASE ProduceFull
  BY <1>2, <1>10 DEF ProduceFull, loopVars, bufVars, sendVars, callVars
<1>11. ASSUME NEW i \in 1 .. Len(outq), Deliver(i) \/ DeliveryFails(i)
       PROVE  FillInv'
  BY <1>2, <1>11 DEF Deliver, DeliveryFails, Leaves, loopVars, bufVars,
                     sendVars, callVars
<1>12. CASE UNCHANGED vars
  BY <1>2, <1>12 DEF vars
<1> QED
  BY <1>3, <1>4, <1>5, <1>6, <1>7, <1>8, <1>9, <1>10, <1>11, <1>12
     DEF Next, Client, Main, Broker

(* What the buffer holds is what the topic hands over next.                *)
LEMMA NextPoints ==
  ASSUME TypeInv, OnceInv, FillInv, pc = "send"
  PROVE  /\ Len(sent) \in Nat /\ Len(buf) \in Nat
         /\ Len(sent) + Len(buf) <= Len(batch)
         /\ rest = << >> => Len(sent) + Len(buf) = Len(batch)
         /\ \A i \in 1 .. Len(buf) : batch[Len(sent) + i] = buf[i].key
         /\ T!Upto(Len(sent) + Len(buf)) = buf
<1> DEFINE ks == KeysOf(sent)
           kb == KeysOf(buf)
<1>1. /\ ks \in Seq(Keys) /\ Len(ks) = Len(sent)
      /\ kb \in Seq(Keys) /\ Len(kb) = Len(buf)
  BY KeysOfSeq DEF TypeInv, TypeOK
<1>2. /\ rest \in Seq(Keys) /\ ks \o kb \o rest = batch
      /\ sent \in Seq(Point) /\ buf \in Seq(Point) /\ batch \in Seq(Keys)
  BY DEF TypeInv, TypeOK, OnceInv, PointsOnce
<1>3. /\ Len(sent) \in Nat /\ Len(buf) \in Nat /\ Len(rest) \in Nat
      /\ rest = << >> => Len(rest) = 0
  BY <1>2, LenProperties, EmptySeq
<1>4. \A i \in 1 .. Len(buf) : kb[i] = buf[i].key
  BY DEF KeysOf
<1> HIDE DEF ks, kb
<1>5. /\ ks \o kb \in Seq(Keys) /\ Len(ks \o kb) = Len(sent) + Len(buf)
      /\ \A i \in 1 .. Len(buf) : (ks \o kb)[Len(sent) + i] = kb[i]
  <2>0. ks \in Seq(Keys) /\ kb \in Seq(Keys)
    BY <1>1
  <2>1. /\ ks \o kb \in Seq(Keys) /\ Len(ks \o kb) = Len(ks) + Len(kb)
        /\ \A j \in 1 .. Len(ks) + Len(kb) :
             (ks \o kb)[j] = IF j <= Len(ks) THEN ks[j] ELSE kb[j - Len(ks)]
    BY <2>0, ConcatProperties
  <2>2. ASSUME NEW i \in 1 .. Len(buf)
        PROVE  (ks \o kb)[Len(sent) + i] = kb[i]
    <3>1. /\ Len(sent) + i \in 1 .. Len(sent) + Len(buf)
          /\ ~(Len(sent) + i <= Len(sent)) /\ (Len(sent) + i) - Len(sent) = i
      BY <1>3
    <3> QED
      BY <1>1, <2>1, <3>1
  <2> QED
    BY <1>1, <2>1, <2>2
<1>6. /\ Len(batch) = Len(sent) + Len(buf) + Len(rest)
      /\ \A j \in 1 .. Len(sent) + Len(buf) : batch[j] = (ks \o kb)[j]
  <2> DEFINE c == ks \o kb
  <2>0. c \in Seq(Keys) /\ Len(c) = Len(sent) + Len(buf)
        /\ rest \in Seq(Keys) /\ c \o rest = batch
    BY <1>2, <1>5
  <2> HIDE DEF c
  <2>3. c \in Seq(Keys) /\ rest \in Seq(Keys)
    BY <2>0
  <2>1. /\ Len(c \o rest) = Len(c) + Len(rest)
        /\ \A j \in 1 .. Len(c) + Len(rest) :
             (c \o rest)[j] = IF j <= Len(c) THEN c[j] ELSE rest[j - Len(c)]
    BY <2>3, ConcatProperties
  <2>2. \A j \in 1 .. Len(sent) + Len(buf) :
          j \in 1 .. Len(c) + Len(rest) /\ j <= Len(c)
    BY <1>3, <2>0
  <2> QED
    BY <2>0, <2>1, <2>2 DEF c
<1>7. \A i \in 1 .. Len(buf) : batch[Len(sent) + i] = buf[i].key
  <2>1. \A i \in 1 .. Len(buf) : Len(sent) + i \in 1 .. Len(sent) + Len(buf)
    BY <1>3
  <2> QED
    BY <1>4, <1>5, <1>6, <2>1
<1>8. T!Upto(Len(sent) + Len(buf)) = buf
  <2>1. (Len(sent) + Len(buf)) - Len(sent) = Len(buf)
    BY <1>3
  <2>2. ASSUME NEW i \in 1 .. Len(buf)
        PROVE  buf[i] = [key |-> batch[Len(sent) + i], time |-> time,
                         call |-> call]
    <3>1. buf[i] \in Point
      BY <1>2, ElementOfSeq
    <3>2. buf[i] = [key |-> buf[i].key, time |-> buf[i].time,
                    call |-> buf[i].call]
      BY <3>1 DEF Point
    <3>3. buf[i].time = time /\ buf[i].call = call
      BY DEF FillInv
    <3> QED
      BY <1>7, <3>2, <3>3
  <2>3. buf = [i \in 1 .. Len(buf) |-> buf[i]]
    BY <1>2, LenProperties
  <2>4. T!Upto(Len(sent) + Len(buf))
          = [i \in 1 .. Len(buf) |-> [key |-> batch[Len(sent) + i],
                                      time |-> time, call |-> call]]
    BY <2>1 DEF T!Upto
  <2> QED
    BY <2>2, <2>3, <2>4
<1>9. /\ Len(sent) + Len(buf) <= Len(batch)
      /\ rest = << >> => Len(sent) + Len(buf) = Len(batch)
  BY <1>3, <1>6
<1> QED
  BY <1>3, <1>7, <1>8, <1>9

(* A message that is handed over has the next points of the call, all of   *)
(* one kind; after the last message the call has succeeded.                *)
LEMMA TopicProduce ==
  ASSUME TypeInv, OnceInv, FillInv, Produce
  PROVE  \E n \in 1 .. Len(batch) : T!HandOver(n)
<1> DEFINE n == Len(sent) + Len(buf)
<1>1. /\ pc = "send" /\ written > 0 /\ ~Full /\ sent' = sent \o buf
      /\ outq' = Append(outq, [key |-> sendkey, time |-> Head(buf).time,
                               points |-> buf])
      /\ pc' = resume
      /\ okCalls' = IF resume = "idle" THEN okCalls \cup {call} ELSE okCalls
      /\ UNCHANGED <<format, time, batch, call, log, lost>>
  BY DEF Produce, AfterSend, loopVars
<1>2. /\ Len(sent) \in Nat /\ Len(buf) \in Nat /\ n <= Len(batch)
      /\ rest = << >> => n = Len(batch)
      /\ \A i \in 1 .. Len(buf) : batch[Len(sent) + i] = buf[i].key
      /\ T!Upto(n) = buf
  BY <1>1, NextPoints
<1>3. /\ buf \in Seq(Point) /\ sent \in Seq(Point) /\ buf # << >>
      /\ Len(batch) \in Nat /\ Len(outq) \in Nat /\ reports \in Nat
      /\ resume \in {"serialize", "idle"} /\ QueueCap \in Nat
  <2>1. /\ buf \in Seq(Point) /\ sent \in Seq(Point) /\ outq \in Seq(Msg)
        /\ batch \in Seq(Keys) /\ reports \in Nat
        /\ resume \in {"serialize", "idle"}
    BY DEF TypeInv, TypeOK
  <2>2. buf # << >>
    BY <1>1 DEF TypeInv, BufferInv
  <2> QED
    BY <2>1, <2>2, Bounds, LenProperties
<1>4. Len(buf) >= 1 /\ Head(buf) = buf[1] /\ DOMAIN buf = 1 .. Len(buf)
  BY <1>3, EmptySeq, LenProperties, HeadTailProperties
<1>5. /\ Head(buf).time = time
      /\ \A i \in DOMAIN buf : T!MessageKey(buf[i].key) = sendkey
  BY <1>1, <1>3, <1>4 DEF FillInv
<1>6. T!MessageKey(batch[n]) = sendkey
  BY <1>2, <1>4, <1>5
<1>7. n \in Len(sent) + 1 .. Len(batch) /\ n \in 1 .. Len(batch)
  BY <1>2, <1>3, <1>4
<1>8. Len(outq) < QueueCap
  BY <1>1, <1>3 DEF Full
<1>9. T!Succeed \/ UNCHANGED <<Status, okCalls>>
  <2>1. CASE resume = "idle"
    <3>1. rest = << >>
      BY <1>1, <2>1 DEF OnceInv
    <3>2. Len(sent') = Len(batch)
      <4>1. Len(sent \o buf) = Len(sent) + Len(buf)
        BY <1>3, ConcatProperties
      <4> QED
        BY <1>1, <1>2, <3>1, <4>1
    <3> QED
      BY <1>1, <2>1, <3>2 DEF T!Succeed, Status
  <2>2. CASE resume = "serialize"
    BY <1>1, <2>2 DEF Status
  <2> QED
    BY <1>3, <2>1, <2>2
<1>10. Status = "busy"
  BY <1>1 DEF Status
<1> HIDE DEF n
<1>11. T!HandOver(n)
  <2>1. outq' = Append(outq, [key |-> T!MessageKey(batch[n]), time |-> time,
                              points |-> T!Upto(n)])
    BY <1>1, <1>2, <1>5, <1>6
  <2>2. \A i \in DOMAIN T!Upto(n) :
          T!MessageKey(T!Upto(n)[i].key) = T!MessageKey(batch[n])
    BY <1>2, <1>5, <1>6
  <2>3. sent' = sent \o T!Upto(n)
    BY <1>1, <1>2
  <2> QED
    BY <1>1, <1>7, <1>8, <1>9, <1>10, <2>1, <2>2, <2>3 DEF T!HandOver
<1> QED
  BY <1>7, <1>11

(* With nothing in the buffer a call returns, or shows nothing.            *)
LEMMA TopicSendNothing ==
  ASSUME TypeInv, OnceInv, FillInv, SendNothing
  PROVE  T!Return \/ UNCHANGED T!vars
<1>1. /\ pc = "send" /\ written = 0 /\ pc' = resume
      /\ okCalls' = IF resume = "idle" THEN okCalls \cup {call} ELSE okCalls
      /\ UNCHANGED <<format, time, batch, sent, call, outq, log, lost>>
  BY DEF SendNothing, AfterSend, loopVars
<1>2. resume \in {"serialize", "idle"} /\ buf = << >>
  BY <1>1 DEF TypeInv, TypeOK, BufferInv
<1>3. CASE resume = "idle"
  <2>1. rest = << >>
    BY <1>1, <1>3 DEF OnceInv
  <2>2. Len(sent') = Len(batch)
    <3>1. /\ Len(sent) + Len(buf) = Len(batch) /\ Len(sent) \in Nat
      BY <1>1, <2>1, NextPoints
    <3>2. Len(buf) = 0
      BY <1>2, EmptySeq
    <3> QED
      BY <1>1, <3>1, <3>2
  <2> QED
    BY <1>1, <1>3, <2>2 DEF T!Return, T!Succeed, Status
<1>4. CASE resume = "serialize"
  BY <1>1, <1>4 DEF T!vars, T!callVars, Status
<1> QED
  BY <1>2, <1>3, <1>4

(* Every step is one of the topic's, or shows nothing.                     *)
LEMMA TopicStep ==
  TypeInv /\ TypeInv' /\ OnceInv /\ FillInv /\ [Next]_vars
    => [T!Next]_(T!vars)
<1> SUFFICES ASSUME TypeInv, TypeInv', OnceInv, FillInv, [Next]_vars
             PROVE  T!Next \/ UNCHANGED T!vars
  OBVIOUS
<1>1. pc' # "aborted"
  BY DEF TypeInv, BufferInv
<1>2. ASSUME NEW keys \in Batches, NEW t \in Times, FlushBegin(keys, t)
      PROVE  T!Next
  <2>1. T!Begin(keys, t)
    BY <1>1, <1>2 DEF FlushBegin, BeginCall, queueVars, T!Begin, Status
  <2> QED
    BY <2>1 DEF T!Next, T!Writes
<1>3. ASSUME NEW k \in Keys, NEW t \in Times, SetSingle(k, t)
      PROVE  T!Next
  <2>1. T!Begin(<<k>>, t)
    BY <1>1, <1>3 DEF SetSingle, BeginCall, queueVars, T!Begin, Status
  <2> QED
    BY <2>1 DEF T!Next, T!Writes
<1>4. CASE FreeBegin \/ Drain \/ ProduceFull
  BY <1>4 DEF FreeBegin, Drain, ProduceFull, loopVars, callVars,
              T!vars, T!callVars, Status
<1>5. CASE Serialize
  <2>1. pc' \in {"serialize", "send"}
    BY <1>1, <1>5 DEF Serialize
  <2> QED
    BY <1>5, <2>1 DEF Serialize, queueVars, callVars, T!vars, T!callVars, Status
<1>6. CASE SendOldHash \/ SendRest
  BY <1>6 DEF SendOldHash, SendRest, loopVars, queueVars, callVars,
              T!vars, T!callVars, Status
<1>7. CASE Produce
  BY <1>7, TopicProduce DEF T!Next, T!Writes
<1>8. CASE SendNothing
  BY <1>8, TopicSendNothing DEF T!Next, T!Writes
<1>9. CASE ProduceFails
  BY <1>9 DEF ProduceFails, loopVars, callVars, T!Next, T!Fail, T!callVars,
              Status
<1>10. CASE Destroy
  BY <1>10 DEF Destroy, loopVars, callVars, PointsIn, T!PointsIn, T!Next,
               T!Free, T!callVars, Status
<1>11. ASSUME NEW i \in 1 .. Len(outq), Deliver(i) \/ DeliveryFails(i)
       PROVE  T!Next
  <2>1. T!Leaves(i)
    BY <1>11 DEF Deliver, DeliveryFails, Leaves, loopVars, callVars, T!Leaves,
                 T!callVars, Status
  <2>2. CASE Deliver(i)
    <3>1. T!PartitionOf(outq[i]) = PartitionOf(outq[i])
      BY DEF PartitionOf, TimePartitioner, Partitions, T!PartitionOf,
             T!TimePartitioner, T!Partitions
    <3>2. T!Deliver(i)
      BY <2>1, <2>2, <3>1 DEF Deliver, T!Deliver
    <3> QED
      BY <3>2 DEF T!Next
  <2>3. CASE DeliveryFails(i)
    <3>1. T!Lose(i)
      BY <2>1, <2>3 DEF DeliveryFails, T!Lose, PointsIn, T!PointsIn
    <3> QED
      BY <3>1 DEF T!Next
  <2> QED
    BY <1>11, <2>2, <2>3
<1>12. CASE UNCHANGED vars
  BY <1>12 DEF vars, T!vars, T!callVars, Status
<1> QED
  BY <1>2, <1>3, <1>4, <1>5, <1>6, <1>7, <1>8, <1>9, <1>10, <1>11, <1>12
     DEF Next, Client, Main, Broker

(* The backend starts as the topic does.                                   *)
LEMMA TopicInit == Init => T!Init
  BY DEF Init, T!Init, Formats, Partitions, T!Partitions, Status

(* The backend implements the topic, for every package, buffer, queue and  *)
(* number of calls: whatever holds of the topic (Pipeline is built on it)  *)
(* holds of what the backend hands over and of what becomes of it.         *)
THEOREM ImplementsTopic == Spec => TopicSpec
<1>1. Init => FillInv
  BY DEF Init, FillInv
<1> QED
  BY <1>1, TopicInit, TopicStep, FillStep, TypeInit, TypeStep, OnceInit,
     OnceStep, PTL DEF Spec, TopicSpec, T!Spec
=============================================================================
