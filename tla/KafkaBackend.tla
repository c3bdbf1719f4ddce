---------------------------- MODULE KafkaBackend ----------------------------
(***************************************************************************)
(* The Kafka backend: how a flush is cut into messages, and what becomes   *)
(* of them in librdkafka.  The program is one thread, which serializes the *)
(* enabled infos of a key package into one reusable buffer and hands full  *)
(* buffers to the producer queue; librdkafka's own threads empty the queue *)
(* towards the broker and leave delivery reports, which occupy the queue   *)
(* until rd_kafka_poll has served them.                                    *)
(*                                                                         *)
(* The value of a point passes through unchanged and is left out; a point  *)
(* carries the number of the call it was given to.  kafka_connect is taken *)
(* to have succeeded.                                                      *)
(***************************************************************************)
EXTENDS Integers, Sequences, FiniteSets

CONSTANTS
  Keys,          \* key names
  HashOf,        \* keyhash of each key without its last term
  SizeOf,        \* bytes of each key's line (ascii) or key-value pair
  HeaderSize,    \* bytes that write_header writes
  BufferLen,     \* BUFFER_LEN
  Times,         \* timestamps, in seconds
  Batches,       \* the keys of the enabled infos in the order of the package
  PartitionCnt,  \* partitions of the topic
  QueueCap,      \* messages librdkafka holds (queue.buffering.max.messages)
  DrainLimit,    \* drain_wait_cnt
  MaxCalls       \* bound: calls of kp_flush and set_single

Formats == {"ascii", "tsk", "tskkey"}
Partitions == 0 .. PartitionCnt - 1
Half == BufferLen \div 2

ASSUME KafkaAssumption ==
  /\ HashOf \in [Keys -> Nat]
  /\ SizeOf \in [Keys -> Nat \ {0}]
  /\ HeaderSize \in Nat \ {0} /\ BufferLen \in Nat
  /\ Times \subseteq Nat
  /\ Batches \subseteq Seq(Keys)
  /\ {PartitionCnt, QueueCap} \subseteq Nat \ {0}
  /\ {DrainLimit, MaxCalls} \subseteq Nat

(* What write_kv's and write_header's assertions rely on: after the check  *)
(* against half of the buffer, the other half takes a header and any pair. *)
ASSUME RoomAssumption ==
  \A k \in Keys : HeaderSize + SizeOf[k] <= BufferLen - Half

VARIABLES
  format,   \* state->format
  pc,       \* where the call in progress is
  rest,     \* keys that the loop over the infos has still to visit
  time,     \* argument `time'
  buf,      \* the points in the buffer
  written,  \* state->buffer_written
  lasthash, \* local variable of kp_flush
  msgkey,   \* local variable of kp_flush
  sendkey,  \* the `time' argument of the SEND_MSG in progress
  resume,   \* what follows that SEND_MSG
  drain,    \* drain_wait_cnt
  outq,     \* librdkafka: messages not yet delivered
  reports,  \* librdkafka: delivery reports not yet served
  log,      \* the messages in each partition
  call,     \* history: number of the call
  batch,    \* history: the keys it was given
  sent,     \* history: the points it handed to librdkafka
  okCalls,  \* history: the calls that have returned 0
  lost      \* history: points dropped by librdkafka

bufVars == <<buf, written>>
loopVars == <<rest, time, lasthash, msgkey>>
sendVars == <<sendkey, resume>>
queueVars == <<outq, reports, log, lost>>
callVars == <<call, batch, sent, okCalls>>
vars == <<format, pc, rest, time, buf, written, lasthash, msgkey, sendkey,
          resume, drain, outq, reports, log, call, batch, sent, okCalls, lost>>

Point == [key : Keys, time : Times, call : 1 .. MaxCalls]
Msg == [key : Nat, time : Times, points : Seq(Point)]

PointsIn(s) == {s[i] : i \in 1 .. Len(s)}

Init ==
  /\ format \in Formats
  /\ pc = "idle"
  /\ rest = << >> /\ time \in Times /\ lasthash = 0 /\ msgkey = 0
  /\ buf = << >> /\ written = 0
  /\ sendkey = 0 /\ resume = "idle"
  /\ drain = DrainLimit
  /\ outq = << >> /\ reports = 0 /\ log = [p \in Partitions |-> {}]
  /\ call = 0 /\ batch = << >> /\ sent = << >> /\ okCalls = {} /\ lost = {}

-----------------------------------------------------------------------------
(* timeseries_backend_kafka_kp_flush                                       *)

(* A call begins: assert(state->buffer_written == 0).                      *)
BeginCall(keys, t) ==
  /\ pc = "idle"
  /\ call < MaxCalls
  /\ call' = call + 1
  /\ batch' = keys
  /\ sent' = << >>
  /\ time' = t
  /\ UNCHANGED <<format, drain, queueVars, okCalls>>

FlushBegin(keys, t) ==
  /\ BeginCall(keys, t)
  /\ pc' = IF written = 0 THEN "serialize" ELSE "aborted"
  /\ rest' = keys
  /\ lasthash' = 0 /\ msgkey' = 0
  /\ UNCHANGED <<bufVars, sendVars>>

ThisPoint(k) == [key |-> k, time |-> time, call |-> call]

(* The size of the buffer with one more pair, and a header if it is empty. *)
SizeWith(k) ==
  written + SizeOf[k]
    + IF format # "ascii" /\ written = 0 THEN HeaderSize ELSE 0

(* Mutant: pairs of another hash leave only if there are many of them.     *)
NewHash_Late(k) == format = "tskkey" /\ HashOf[k] # lasthash /\ written > Half

NewHash(k) == format = "tskkey" /\ HashOf[k] # lasthash /\ written > 0

(* Mutant: the message with the old pairs gets the new hash.               *)
SendOldHash_NewKey ==
  /\ pc = "serialize" /\ rest # << >>
  /\ NewHash(Head(rest))
  /\ pc' = "send" /\ resume' = "serialize" /\ sendkey' = HashOf[Head(rest)]
  /\ UNCHANGED <<format, loopVars, bufVars, drain, queueVars, callVars>>

(* tskkey: the pairs of another hash leave the buffer first.               *)
SendOldHash ==
  /\ pc = "serialize" /\ rest # << >>
  /\ NewHash(Head(rest))
  /\ pc' = "send" /\ resume' = "serialize" /\ sendkey' = lasthash
  /\ UNCHANGED <<format, loopVars, bufVars, drain, queueVars, callVars>>

(* The pair is written, and SEND_IF_FULL sends the buffer.                 *)
Serialize ==
  /\ pc = "serialize" /\ rest # << >>
  /\ LET k == Head(rest)
     IN /\ ~NewHash(k)
        /\ buf' = Append(buf, ThisPoint(k))
        /\ written' = SizeWith(k)
        /\ msgkey' = IF format = "tskkey" THEN HashOf[k] ELSE time
        /\ lasthash' = IF format = "tskkey" THEN HashOf[k] ELSE lasthash
  /\ rest' = Tail(rest)
  /\ sendkey' = msgkey' /\ resume' = "serialize"
  /\ pc' = CASE written' > BufferLen -> "aborted"
             [] written' > Half /\ written' <= BufferLen -> "send"
             [] OTHER -> "serialize"
  /\ UNCHANGED <<format, time, drain, queueVars, callVars>>

(* The SEND_MSG behind the loop.                                           *)
SendRest ==
  /\ pc = "serialize" /\ rest = << >>
  /\ pc' = "send" /\ resume' = "idle" /\ sendkey' = msgkey
  /\ UNCHANGED <<format, loopVars, bufVars, drain, queueVars, callVars>>

(* timeseries_backend_kafka_set_single: header, pair, SEND_MSG.            *)
SetSingle(k, t) ==
  /\ BeginCall(<<k>>, t)
  /\ buf' = << [key |-> k, time |-> t, call |-> call'] >>
  /\ written' = SizeWith(k)
  /\ pc' = IF written = 0 /\ written' <= BufferLen THEN "send" ELSE "aborted"
  /\ sendkey' = IF format = "tskkey" THEN HashOf[k] ELSE t
  /\ resume' = "idle"
  /\ rest' = << >>
  /\ UNCHANGED <<lasthash, msgkey>>

-----------------------------------------------------------------------------
(* SEND_MSG                                                                *)

Full == Len(outq) + reports >= QueueCap

ResetBuf == buf' = << >> /\ written' = 0

(* What follows the macro; a call that is through returns 0.               *)
AfterSend ==
  /\ pc' = resume
  /\ okCalls' = IF resume = "idle" THEN okCalls \cup {call} ELSE okCalls

(* Mutant: the buffer is left as it is, for the next call to overwrite.    *)
Produce_KeepsBuffer ==
  /\ pc = "send" /\ written > 0
  /\ ~Full
  /\ outq' = Append(outq, [key |-> sendkey, time |-> Head(buf).time,
                           points |-> buf])
  /\ sent' = sent \o buf
  /\ reports' = 0
  /\ UNCHANGED bufVars
  /\ AfterSend
  /\ UNCHANGED <<format, loopVars, sendVars, drain, log, call, batch, lost>>

(* Mutant: the message refers to the buffer, which is reset.               *)
Produce_NoCopy ==
  /\ pc = "send" /\ written > 0
  /\ ~Full
  /\ outq' = Append(outq, [key |-> sendkey, time |-> Head(buf).time,
                           points |-> << >>])
  /\ sent' = sent \o buf
  /\ reports' = 0
  /\ ResetBuf
  /\ AfterSend
  /\ UNCHANGED <<format, loopVars, sendVars, drain, log, call, batch, lost>>

(* rd_kafka_produce takes a copy; rd_kafka_poll then serves the reports.   *)
(* The header has the time of the first pair.                              *)
Produce ==
  /\ pc = "send" /\ written > 0
  /\ ~Full
  /\ outq' = Append(outq, [key |-> sendkey, time |-> Head(buf).time,
                           points |-> buf])
  /\ sent' = sent \o buf
  /\ reports' = 0
  /\ ResetBuf
  /\ AfterSend
  /\ UNCHANGED <<format, loopVars, sendVars, drain, log, call, batch, lost>>

(* Mutant: try again without a poll.                                       *)
ProduceFull_NoPoll ==
  /\ pc = "send" /\ written > 0
  /\ Full
  /\ UNCHANGED vars

(* QUEUE_FULL: serve the reports and try again.                            *)
ProduceFull ==
  /\ pc = "send" /\ written > 0
  /\ Full
  /\ reports' = 0
  /\ UNCHANGED <<format, pc, loopVars, bufVars, sendVars, drain, outq, log,
                 lost, callVars>>

(* Mutant: a failed call leaves its pairs in the buffer.                   *)
ProduceFails_KeepsBuffer ==
  /\ pc = "send" /\ written > 0
  /\ reports' = 0
  /\ pc' = "idle"
  /\ UNCHANGED <<format, loopVars, bufVars, sendVars, drain, outq, log, lost,
                 callVars>>

(* Any other error: the buffer is dropped and the call returns -1.         *)
ProduceFails ==
  /\ pc = "send" /\ written > 0
  /\ reports' = 0
  /\ ResetBuf
  /\ pc' = "idle"
  /\ UNCHANGED <<format, loopVars, sendVars, drain, outq, log, lost, callVars>>

(* Nothing is in the buffer.                                               *)
SendNothing ==
  /\ pc = "send" /\ written = 0
  /\ reports' = 0
  /\ ResetBuf
  /\ AfterSend
  /\ UNCHANGED <<format, loopVars, sendVars, drain, outq, log, lost, call,
                 batch, sent>>

-----------------------------------------------------------------------------
(* timeseries_backend_kafka_free                                           *)

FreeBegin ==
  /\ pc = "idle"
  /\ pc' = "draining"
  /\ reports' = 0
  /\ UNCHANGED <<format, loopVars, bufVars, sendVars, drain, outq, log, lost,
                 callVars>>

(* Mutant: one poll too many.                                              *)
Undrained_OffByOne == Len(outq) + reports > 0 /\ drain >= 0

Undrained == Len(outq) + reports > 0 /\ drain > 0

Drain ==
  /\ pc = "draining"
  /\ Undrained
  /\ reports' = 0
  /\ drain' = drain - 1
  /\ UNCHANGED <<format, pc, loopVars, bufVars, sendVars, outq, log, lost,
                 callVars>>

(* rd_kafka_destroy drops what is left in the queue.                       *)
Destroy ==
  /\ pc = "draining"
  /\ ~Undrained
  /\ pc' = "freed"
  /\ lost' = lost \cup UNION {PointsIn(outq[i].points) : i \in 1 .. Len(outq)}
  /\ outq' = << >> /\ reports' = 0
  /\ UNCHANGED <<format, loopVars, bufVars, sendVars, drain, log, callVars>>

-----------------------------------------------------------------------------
(* librdkafka and the broker                                               *)

(* time_partitioner, and librdkafka's own choice for ascii.                *)
TimePartitioner(key) == (key \div 60) % PartitionCnt

PartitionOf(m) ==
  IF format = "ascii" THEN Partitions ELSE {TimePartitioner(m.key)}

Leaves(i) ==
  /\ pc # "freed"
  /\ i \in 1 .. Len(outq)
  /\ outq' = SubSeq(outq, 1, i - 1) \o SubSeq(outq, i + 1, Len(outq))
  /\ reports' = reports + 1
  /\ UNCHANGED <<format, pc, loopVars, bufVars, sendVars, drain, callVars>>

Deliver(i) ==
  /\ Leaves(i)
  /\ \E p \in PartitionOf(outq[i]) : log' = [log EXCEPT ![p] = @ \cup {outq[i]}]
  /\ UNCHANGED lost

(* The callback logs the error.                                            *)
DeliveryFails(i) ==
  /\ Leaves(i)
  /\ lost' = lost \cup PointsIn(outq[i].points)
  /\ UNCHANGED log

-----------------------------------------------------------------------------
Client ==
  \/ \E keys \in Batches, t \in Times : FlushBegin(keys, t)
  \/ \E k \in Keys, t \in Times : SetSingle(k, t)
  \/ FreeBegin

Main ==
  \/ SendOldHash \/ Serialize \/ SendRest \/ Produce \/ ProduceFull
  \/ SendNothing \/ Drain \/ Destroy

Broker == \E i \in 1 .. Len(outq) : Deliver(i) \/ DeliveryFails(i)

Next == Client \/ Main \/ ProduceFails \/ Broker

Spec == Init /\ [][Next]_vars

(* The thread runs on inside a call, where it need not meet an error, and  *)
(* librdkafka gets rid of every message, if need be when message.timeout.ms*)
(* is over.                                                                *)
FairSpec == Spec /\ WF_vars(Main) /\ WF_vars(Broker)

-----------------------------------------------------------------------------
(* Properties                                                              *)

TypeOK ==
  /\ format \in Formats
  /\ pc \in {"idle", "serialize", "send", "draining", "freed", "aborted"}
  /\ rest \in Seq(Keys) /\ time \in Times
  /\ {lasthash, msgkey, sendkey} \subseteq Nat
  /\ buf \in Seq(Point) /\ written \in Nat
  /\ resume \in {"serialize", "idle"}
  /\ drain \in 0 .. DrainLimit
  /\ outq \in Seq(Msg) /\ reports \in Nat /\ Len(outq) + reports <= QueueCap
  /\ log \in [Partitions -> SUBSET Msg]
  /\ call \in 0 .. MaxCalls
  /\ batch \in Seq(Keys) /\ sent \in Seq(Point)
  /\ okCalls \subseteq 1 .. MaxCalls
  /\ lost \subseteq Point

(* No assertion fails: each call finds the buffer empty, whatever became   *)
(* of the one before, and no header or pair is written past its end.       *)
NoAbort == pc # "aborted"

(* The keys of a sequence of points.                                       *)
KeysOf(s) == [i \in 1 .. Len(s) |-> s[i].key]

(* However often the buffer is sent, early or late, tried again or found   *)
(* empty: what was handed over, what is in the buffer and what the loop    *)
(* has still to visit are the infos of this call, each of them once.  When *)
(* the call returns 0, all have been handed over.                          *)
PointsOnce ==
  /\ pc \in {"serialize", "send"} =>
       KeysOf(sent) \o KeysOf(buf) \o rest = batch
  /\ pc = "idle" /\ call \in okCalls => KeysOf(sent) = batch

(* What must be in one partition: in the format tsk the points of one      *)
(* time, in tskkey all points whose keys differ in the last term only.     *)
RouteOf(pt) == IF format = "tskkey" THEN HashOf[pt.key] ELSE pt.time

(* Points that belong together never end up in two partitions, and no      *)
(* message has a point of another time than its header says.               *)
RoutedTogether ==
  format # "ascii" =>
    \A p, q \in Partitions : \A m \in log[p], n \in log[q] :
      \A a \in PointsIn(m.points), b \in PointsIn(n.points) :
        /\ a.time = m.time
        /\ RouteOf(a) = RouteOf(b) => p = q

Delivered == UNION {PointsIn(m.points) : m \in UNION {log[p] : p \in Partitions}}
Queued == UNION {PointsIn(outq[i].points) : i \in 1 .. Len(outq)}

(* What the latest call has handed over, successful or not, does not just  *)
(* vanish: it is in the topic, or in the queue, or librdkafka has reported *)
(* it as undeliverable or dropped it when the drain was over.  A call's 0  *)
(* means no more than this.                                                *)
Accounted == PointsIn(sent) \subseteq Delivered \cup Queued \cup lost

Status ==
  CASE pc \in {"serialize", "send"} -> "busy"
    [] pc \in {"idle", "draining"} -> "idle"
    [] OTHER -> pc

T == INSTANCE Topic WITH status <- Status,
                         Batches <- Batches \cup {<<k>> : k \in Keys}

(* The backend implements the topic as its users see it: through full      *)
(* buffers and queues, changes of the hash, errors and draining, each step *)
(* hands over the next points of the call in a message of their own kind,  *)
(* ends the call in the one way its points allow, or shows nothing.        *)
TopicSpec == T!Spec

(* A call comes back, also when the queue was full of messages or reports. *)
CallReturns ==
  pc \in {"serialize", "send", "draining"} ~> pc \in {"idle", "freed"}

=============================================================================
