------------------------------- MODULE Topic -------------------------------
(***************************************************************************)
(* What the Kafka backend promises to the program that writes with it, and *)
(* to whoever reads the topic.  A call is handed to librdkafka message by  *)
(* message, in order; a message has points of one call, one time and, in   *)
(* the format tskkey, one hash, and goes to the partition of that time or  *)
(* hash.  A call that succeeds has handed over all of its points.          *)
(***************************************************************************)
EXTENDS Integers, Sequences

CONSTANTS
  Keys, HashOf, Times, PartitionCnt, QueueCap, MaxCalls,
  Batches  \* the keys of a call, in order

ASSUME TopicAssumption ==
  /\ HashOf \in [Keys -> Nat]
  /\ Times \subseteq Nat
  /\ Batches \subseteq Seq(Keys)
  /\ {PartitionCnt, QueueCap} \subseteq Nat \ {0} /\ MaxCalls \in Nat

Partitions == 0 .. PartitionCnt - 1
TimePartitioner(key) == (key \div 60) % PartitionCnt

VARIABLES
  format,   \* "ascii", "tsk" or "tskkey"
  status,   \* is a call in progress, or the backend freed
  time,     \* time of the call
  batch,    \* the keys it was given
  sent,     \* the points of it that were handed over
  outq,     \* messages not yet delivered
  log,      \* the messages in each partition
  call,     \* number of the call
  okCalls,  \* the calls that have succeeded
  lost      \* points that were dropped

callVars == <<format, time, batch, sent, call>>
vars == <<callVars, status, outq, log, okCalls, lost>>

PointsIn(s) == {s[i] : i \in 1 .. Len(s)}

Init ==
  /\ format \in {"ascii", "tsk", "tskkey"}
  /\ status = "idle"
  /\ time \in Times /\ batch = << >> /\ sent = << >>
  /\ outq = << >> /\ log = [p \in Partitions |-> {}]
  /\ call = 0 /\ okCalls = {} /\ lost = {}

Begin(keys, t) ==
  /\ status = "idle"
  /\ call < MaxCalls
  /\ status' = "busy"
  /\ call' = call + 1 /\ time' = t /\ batch' = keys /\ sent' = << >>
  /\ UNCHANGED <<format, outq, log, okCalls, lost>>

Succeed ==
  /\ Len(sent') = Len(batch)
  /\ status' = "idle"
  /\ okCalls' = okCalls \cup {call}

(* The points of the call that follow those handed over, as far as the nth *)
Upto(n) ==
  [i \in 1 .. n - Len(sent) |->
     [key |-> batch[Len(sent) + i], time |-> time, call |-> call]]

MessageKey(k) == IF format = "tskkey" THEN HashOf[k] ELSE time

HandOver(n) ==
  /\ status = "busy"
  /\ n \in Len(sent) + 1 .. Len(batch)
  /\ Len(outq) < QueueCap
  /\ LET pts == Upto(n)
         key == MessageKey(batch[n])
     IN /\ \A i \in DOMAIN pts : MessageKey(pts[i].key) = key
        /\ outq' = Append(outq, [key |-> key, time |-> time, points |-> pts])
        /\ sent' = sent \o pts
  /\ Succeed \/ UNCHANGED <<status, okCalls>>
  /\ UNCHANGED <<format, time, batch, call, log, lost>>

(* Nothing is left to be handed over.                                      *)
Return ==
  /\ status = "busy"
  /\ UNCHANGED sent
  /\ Succeed
  /\ UNCHANGED <<format, time, batch, call, outq, log, lost>>

Fail ==
  /\ status = "busy"
  /\ status' = "idle"
  /\ UNCHANGED <<callVars, outq, log, okCalls, lost>>

Free ==
  /\ status = "idle"
  /\ status' = "freed"
  /\ outq' = << >>
  /\ lost' = lost \cup UNION {PointsIn(outq[i].points) : i \in 1 .. Len(outq)}
  /\ UNCHANGED <<callVars, log, okCalls>>

PartitionOf(m) ==
  IF format = "ascii" THEN Partitions ELSE {TimePartitioner(m.key)}

Leaves(i) ==
  /\ status # "freed"
  /\ outq' = SubSeq(outq, 1, i - 1) \o SubSeq(outq, i + 1, Len(outq))
  /\ UNCHANGED <<callVars, status, okCalls>>

Deliver(i) ==
  /\ Leaves(i)
  /\ \E p \in PartitionOf(outq[i]) : log' = [log EXCEPT ![p] = @ \cup {outq[i]}]
  /\ UNCHANGED lost

Lose(i) ==
  /\ Leaves(i)
  /\ lost' = lost \cup PointsIn(outq[i].points)
  /\ UNCHANGED log

Writes ==
  \/ \E keys \in Batches, t \in Times : Begin(keys, t)
  \/ \E n \in 1 .. Len(batch) : HandOver(n)
  \/ Return

Next ==
  \/ Writes \/ Fail
  \/ Free
  \/ \E i \in 1 .. Len(outq) : Deliver(i) \/ Lose(i)

Spec == Init /\ [][Next]_vars

=============================================================================
