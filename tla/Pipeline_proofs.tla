--------------------------- MODULE Pipeline_proofs ---------------------------
(***************************************************************************)
(* Proofs about the way of a point from the producer through the topic     *)
(* into the database, for every number of partitions, keys, calls, faults  *)
(* and restarts: the database has only what was sent, and what the proxy   *)
(* has read is not forgotten.  The invariant follows a message from the    *)
(* producer's queue (ProducerInv) into its partition (FeedInv) and through *)
(* the proxy (ProxyInv) to what the next flush will have made of the       *)
(* database (InView) and what the database has already (InStore).          *)
(***************************************************************************)
EXTENDS Pipeline, SequenceTheorems, TLAPS

(* For a lemma about the largest element of a set.                         *)
K == INSTANCE KpTable_proofs WITH Values <- Nat, LastId <- 1

(* A message as the producer makes it: its points are of its time, and of  *)
(* keys that lead to where it goes.                                        *)
Point == [key : Keys, time : Times, call : 1 .. MaxCalls]
Message == [key : Nat, time : Times, points : Seq(Point)]
KeyOf(k, t) == IF format = "tskkey" THEN HashOf[k] ELSE t
Sound ==
  {m \in Message : \A pt \in PointsIn(m.points) :
                     pt.time = m.time /\ m.key = KeyOf(pt.key, pt.time)}

(* The producer, and the topic behind it.                                  *)
ProducerInv ==
  /\ format \in {"tsk", "tskkey"}
  /\ status \in {"idle", "busy"}
  /\ time \in Times /\ batch \in Seq(Keys) /\ sent \in Seq(Point)
  /\ call \in 0 .. MaxCalls /\ (status = "busy" => call # 0)
  /\ outq \in Seq(Sound)

FeedInv ==
  /\ log \in [Partitions -> SUBSET Sound]
  /\ feed \in [Partitions -> Seq(Sound)]
  /\ \A p \in Partitions : \A o \in 1 .. Len(feed[p]) :
       feed[p][o] \in log[p] /\ TimePartitioner(feed[p][o].key) = p

(* The proxy has nothing pending without a time, nor when it is stopped.   *)
ProxyInv ==
  /\ faults \in 0 .. MaxFaults /\ stops \in 0 .. MaxStops
  /\ proxy \in {"running", "cleanup", "stopped"}
  /\ position \in Offsets /\ committed \in Offsets
  /\ \A p \in Partitions :
       committed[p] <= position[p] /\ position[p] <= Len(feed[p])
  /\ current \in Times \cup {0}
  /\ pending \in [Keys -> Versions] /\ store \in [Slots -> Versions]
  /\ unflushed \subseteq Partitions \X Nat /\ gap \subseteq Partitions \X Nat
  /\ current = 0 => pending = Nothing
  /\ proxy = "stopped" => current = 0

PipeInv == ProducerInv /\ FeedInv /\ ProxyInv

(* The points of message m for the slot s; is there one in message o of    *)
(* partition p; is the value v of the slot as new as message o.            *)
Of(m, s) == {pt \in PointsIn(m.points) : pt.time = s[1] /\ pt.key = s[2]}
Has(f, p, o, s) == Of(f[p][o], s) # {}
Covers(f, p, o, s, v) ==
  \E q \in o .. Len(f[p]) : \E pt \in Of(f[p][q], s) : pt.call = v

(* What was read up to `pos', except for some messages, is among the       *)
(* values `vals' of the slots.                                             *)
Kept(f, pos, except, vals) ==
  \A p \in Partitions, s \in Slots : \A o \in 1 .. pos[p] :
    Has(f, p, o, s) /\ <<p, o>> \notin except => Covers(f, p, o, s, vals[s])

(* Such values were sent.                                                  *)
AllSent(f, vals) ==
  \A s \in Slots :
    vals[s] # 0 => \E p \in Partitions : Covers(f, p, 1, s, vals[s])

(* What the database will have after the next flush.                       *)
Seen == [s \in Slots |-> View(s)]

(* What was read is in sight of the next flush, except for messages that   *)
(* were given up; what is not waiting any more is in the database.  Only   *)
(* what was sent is there.                                                 *)
InView == proxy # "stopped" => Kept(feed, position, gap, Seen)
InStore == Kept(feed, position, gap \cup unflushed, store)
SentInv == AllSent(feed, Seen) /\ AllSent(feed, store)

ReadInv == InView /\ InStore /\ SentInv

-----------------------------------------------------------------------------
(* Types                                                                   *)

(* Taking a message out of a queue.                                        *)
LEMMA WithoutOne ==
  ASSUME NEW M, NEW s \in Seq(M), NEW i \in 1 .. Len(s)
  PROVE  SubSeq(s, 1, i - 1) \o SubSeq(s, i + 1, Len(s)) \in Seq(M)
<1>0. Len(s) \in Nat /\ \A j \in 1 .. Len(s) : s[j] \in M
  BY LenProperties, ElementOfSeq
<1>1. SubSeq(s, 1, i - 1) \in Seq(M)
  <2>1. 1 \in Int /\ i - 1 \in Int /\ \A j \in 1 .. i - 1 : s[j] \in M
    BY <1>0
  <2> QED
    BY <2>1, SubSeqProperties
<1>2. SubSeq(s, i + 1, Len(s)) \in Seq(M)
  <2>1. i + 1 \in Int /\ Len(s) \in Int /\ \A j \in i + 1 .. Len(s) : s[j] \in M
    BY <1>0
  <2> QED
    BY <2>1, SubSeqProperties
<1> QED
  BY <1>1, <1>2, ConcatProperties

(* The partitioner of the format tsk and tskkey gives a partition.         *)
LEMMA PartitionerType ==
  ASSUME NEW n \in Nat
  PROVE  TimePartitioner(n) \in Partitions
<1>1. n \div 60 \in Nat
  OBVIOUS
<1>2. \A a \in Nat : a % PartitionCnt \in 0 .. PartitionCnt - 1
  BY TopicAssumption
<1> QED
  BY <1>1, <1>2 DEF TimePartitioner, Partitions

(* The points of a message that is handed over belong to the call.         *)
LEMMA UptoType ==
  ASSUME ProducerInv, status = "busy", NEW n \in Len(sent) + 1 .. Len(batch)
  PROVE  /\ Upto(n) \in Seq(Point)
         /\ Len(Upto(n)) = n - Len(sent)
         /\ \A i \in 1 .. n - Len(sent) :
              Upto(n)[i] = [key |-> batch[Len(sent) + i], time |-> time,
                            call |-> call]
<1>1. Len(sent) \in Nat /\ Len(batch) \in Nat
  BY LenProperties DEF ProducerInv
<1> DEFINE c == n - Len(sent)
<1>2. c \in Nat
  BY <1>1
<1>3. \A i \in 1 .. c :
        [key |-> batch[Len(sent) + i], time |-> time, call |-> call] \in Point
  <2>1. TAKE i \in 1 .. c
  <2>2. Len(sent) + i \in 1 .. Len(batch)
    BY <1>1
  <2>3. batch[Len(sent) + i] \in Keys
    BY <2>2, ElementOfSeq DEF ProducerInv
  <2>4. call \in 1 .. MaxCalls
    BY TopicAssumption DEF ProducerInv
  <2> QED
    BY <2>3, <2>4 DEF ProducerInv, Point
<1>4. Upto(n) \in [1 .. c -> Point]
  BY <1>3 DEF Upto
<1>5. Upto(n) \in Seq(Point) /\ Len(Upto(n)) = c
  <2> HIDE DEF c
  <2>1. Upto(n) \in Seq(Point)
    BY <1>2, <1>4, SeqDef
  <2>2. DOMAIN Upto(n) = 1 .. Len(Upto(n)) /\ Len(Upto(n)) \in Nat
    BY <2>1, LenProperties
  <2> QED
    BY <1>2, <1>4, <2>1, <2>2
<1> QED
  BY <1>5 DEF Upto

(* A message that is handed over has points of one time, which lead to the *)
(* partition that it goes to.                                              *)
LEMMA HandOverStep ==
  ASSUME ProducerInv, NEW n, HandOver(n)
  PROVE  ProducerInv'
<1> DEFINE pts == Upto(n)
           key == MessageKey(batch[n])
           m == [key |-> key, time |-> time, points |-> pts]
<1>1. /\ status = "busy" /\ n \in Len(sent) + 1 .. Len(batch)
      /\ \A i \in DOMAIN pts : MessageKey(pts[i].key) = key
      /\ outq' = Append(outq, m) /\ sent' = sent \o pts
      /\ UNCHANGED <<format, time, batch, call>>
      /\ status' = "idle" \/ status' = status
  BY DEF HandOver, Succeed
<1>2. /\ pts \in Seq(Point) /\ Len(pts) = n - Len(sent)
      /\ \A i \in 1 .. n - Len(sent) :
           pts[i] = [key |-> batch[Len(sent) + i], time |-> time, call |-> call]
  BY <1>1, UptoType
<1>3. key \in Nat
  <2>1. Len(sent) \in Nat /\ Len(batch) \in Nat
    BY LenProperties DEF ProducerInv
  <2>2. n \in 1 .. Len(batch)
    BY <1>1, <2>1
  <2>3. batch[n] \in Keys
    BY <2>2, ElementOfSeq DEF ProducerInv
  <2> QED
    BY <2>3, TopicAssumption DEF MessageKey, ProducerInv
<1>4. \A i \in 1 .. Len(pts) :
        pts[i].time = time /\ key = KeyOf(pts[i].key, pts[i].time)
  <2>1. DOMAIN pts = 1 .. Len(pts)
    BY <1>2, LenProperties
  <2>2. TAKE i \in 1 .. Len(pts)
  <2>3. pts[i].time = time
    BY <1>2
  <2>4. key = MessageKey(pts[i].key)
    BY <1>1, <2>1
  <2> HIDE DEF pts, key
  <2> QED
    BY <2>3, <2>4 DEF MessageKey, KeyOf
<1> HIDE DEF pts, key
<1>5. m \in Sound
  <2>1. m \in Message
    BY <1>2, <1>3 DEF Message, ProducerInv
  <2> QED
    BY <1>4, <2>1 DEF Sound, PointsIn
<1>6. Sound' = Sound
  BY <1>1 DEF Sound, KeyOf
<1>7. outq' \in Seq(Sound) /\ sent' \in Seq(Point)
  BY <1>1, <1>2, <1>5, AppendProperties, ConcatProperties DEF ProducerInv
<1> QED
  BY <1>1, <1>6, <1>7 DEF ProducerInv

(* The other steps of a program that writes.                               *)
LEMMA WritesStep ==
  ASSUME ProducerInv, Writes \/ Fail
  PROVE  ProducerInv' /\ UNCHANGED <<format, log>>
<1>0. UNCHANGED <<format, log>>
  BY DEF Writes, Begin, HandOver, Return, Fail, callVars
<1>1. Sound' = Sound
  BY <1>0 DEF Sound, KeyOf
<1>2. ASSUME NEW keys \in Batches, NEW t \in Times, Begin(keys, t)
      PROVE  ProducerInv'
  <2>1. keys \in Seq(Keys) /\ << >> \in Seq(Point) /\ MaxCalls \in Nat
    BY TopicAssumption
  <2> QED
    BY <1>1, <1>2, <2>1 DEF Begin, ProducerInv
<1>3. CASE Return
  BY <1>1, <1>3 DEF Return, Succeed, ProducerInv
<1>4. CASE Fail
  BY <1>1, <1>4 DEF Fail, callVars, ProducerInv
<1> QED
  BY <1>0, <1>2, <1>3, <1>4, HandOverStep DEF Writes

(* One message leaves the queue.                                           *)
LEMMA LeavesStep ==
  ASSUME ProducerInv, NEW i \in 1 .. Len(outq), Leaves(i)
  PROVE  ProducerInv'
<1>1. Sound' = Sound
  BY DEF Leaves, callVars, Sound, KeyOf
<1>2. outq' \in Seq(Sound)
  BY WithoutOne DEF Leaves, ProducerInv
<1> QED
  BY <1>1, <1>2 DEF Leaves, callVars, ProducerInv

(* A partition grows at its end, and the message is the partition's own.   *)
Grows ==
  /\ UNCHANGED format
  /\ \E m \in Sound :
       LET p == TimePartitioner(m.key)
       IN /\ feed' = [feed EXCEPT ![p] = Append(@, m)]
          /\ log' = [log EXCEPT ![p] = @ \cup {m}]

LEMMA ArrivesGrows ==
  ASSUME ProducerInv, NEW i \in 1 .. Len(outq),
         Arrives(i) \/ ArrivesUnacknowledged(i)
  PROVE  Grows /\ ProducerInv'
<1>1. outq[i] \in Sound
  BY ElementOfSeq DEF ProducerInv
<1>2. CASE Arrives(i)
  <2>1. PartitionOf(outq[i]) = {TimePartitioner(outq[i].key)}
    BY DEF PartitionOf, ProducerInv
  <2>2. Leaves(i) /\ log' = [log EXCEPT ![TimePartitioner(outq[i].key)] =
                               @ \cup {outq[i]}]
    BY <1>2, <2>1 DEF Arrives, Deliver
  <2>3. UNCHANGED format
    BY <2>2 DEF Leaves, callVars
  <2> QED
    BY <1>1, <1>2, <2>2, <2>3, LeavesStep DEF Arrives, Grows
<1>3. CASE ArrivesUnacknowledged(i)
  <2>1. Sound' = Sound
    BY <1>3 DEF ArrivesUnacknowledged, callVars, Sound, KeyOf
  <2>2. ProducerInv'
    BY <1>3, <2>1 DEF ArrivesUnacknowledged, callVars, ProducerInv
  <2> QED
    BY <1>1, <1>3, <2>2 DEF ArrivesUnacknowledged, callVars, Grows
<1> QED
  BY <1>2, <1>3

(* What is in a partition stays there, and a new message is of this        *)
(* partition.                                                              *)
LEMMA GrowsStep ==
  ASSUME FeedInv, Grows
  PROVE  /\ FeedInv'
         /\ \A p \in Partitions :
              /\ Len(feed[p]) \in Nat /\ Len(feed'[p]) \in Nat
              /\ Len(feed[p]) <= Len(feed'[p])
              /\ \A o \in 1 .. Len(feed[p]) : feed'[p][o] = feed[p][o]
<1>1. PICK m \in Sound :
        /\ feed' = [feed EXCEPT ![TimePartitioner(m.key)] = Append(@, m)]
        /\ log' = [log EXCEPT ![TimePartitioner(m.key)] = @ \cup {m}]
  BY DEF Grows
<1> DEFINE p0 == TimePartitioner(m.key)
<1>2. p0 \in Partitions
  <2>1. m.key \in Nat
    <3>1. m \in Message
      BY DEF Sound
    <3> QED
      BY <3>1 DEF Message
  <2> QED
    BY <2>1, PartitionerType
<1>3. Sound' = Sound
  BY DEF Grows, Sound, KeyOf
<1> HIDE DEF p0
<1>4. /\ \A p \in Partitions \ {p0} : feed'[p] = feed[p] /\ log'[p] = log[p]
      /\ feed'[p0] = Append(feed[p0], m) /\ log'[p0] = log[p0] \cup {m}
      /\ feed[p0] \in Seq(Sound)
  BY <1>1, <1>2 DEF FeedInv, p0
<1>5. /\ Len(feed[p0]) \in Nat
      /\ feed'[p0] \in Seq(Sound) /\ Len(feed'[p0]) = Len(feed[p0]) + 1
      /\ \A o \in 1 .. Len(feed[p0]) : feed'[p0][o] = feed[p0][o]
      /\ feed'[p0][Len(feed[p0]) + 1] = m
  BY <1>4, AppendProperties, LenProperties
<1>6. \A p \in Partitions :
        /\ Len(feed[p]) \in Nat /\ Len(feed'[p]) \in Nat
        /\ Len(feed[p]) <= Len(feed'[p])
        /\ \A o \in 1 .. Len(feed[p]) : feed'[p][o] = feed[p][o]
  <2>1. TAKE p \in Partitions
  <2>2. Len(feed[p]) \in Nat
    BY LenProperties DEF FeedInv
  <2>3. CASE p = p0
    BY <1>5, <2>3
  <2>4. CASE p # p0
    BY <1>4, <2>2, <2>4
  <2> QED
    BY <2>3, <2>4
<1>7. feed' \in [Partitions -> Seq(Sound)] /\ log' \in [Partitions -> SUBSET Sound]
  BY <1>1, <1>4, <1>5 DEF FeedInv, p0
<1>8. ASSUME NEW p \in Partitions, NEW o \in 1 .. Len(feed'[p])
      PROVE  feed'[p][o] \in log'[p] /\ TimePartitioner(feed'[p][o].key) = p
  <2>1. CASE p # p0
    BY <1>4, <2>1 DEF FeedInv
  <2>2. CASE p = p0
    <3>1. CASE o \in 1 .. Len(feed[p0])
      BY <1>4, <1>5, <2>2, <3>1 DEF FeedInv
    <3>2. CASE o \notin 1 .. Len(feed[p0])
      <4>1. o = Len(feed[p0]) + 1
        BY <1>5, <2>2, <3>2
      <4> QED
        BY <1>4, <1>5, <2>2, <4>1 DEF p0
    <3> QED
      BY <3>1, <3>2
  <2> QED
    BY <2>1, <2>2
<1> QED
  BY <1>3, <1>6, <1>7, <1>8 DEF FeedInv, TimePartitioner

-----------------------------------------------------------------------------
(* What is kept                                                            *)

LEMMA KeptLess ==
  ASSUME NEW f, NEW pos \in Offsets, NEW less \in Offsets, NEW X, NEW Y, NEW v,
         Kept(f, pos, X, v), X \subseteq Y,
         \A p \in Partitions : less[p] <= pos[p]
  PROVE  Kept(f, less, Y, v)
<1> SUFFICES ASSUME NEW p \in Partitions, NEW s \in Slots, NEW o \in 1 .. less[p],
                    Has(f, p, o, s), <<p, o>> \notin Y
             PROVE  Covers(f, p, o, s, v[s])
  BY DEF Kept
<1>1. o \in 1 .. pos[p]
  BY DEF Offsets
<1>2. <<p, o>> \notin X
  OBVIOUS
<1> QED
  BY <1>1, <1>2 DEF Kept

LEMMA KeptMixed ==
  ASSUME NEW f, NEW pos, NEW X, NEW u, NEW v, NEW w,
         Kept(f, pos, X, u), Kept(f, pos, X, v),
         \A s \in Slots : w[s] = u[s] \/ w[s] = v[s]
  PROVE  Kept(f, pos, X, w)
BY DEF Kept

LEMMA SentMixed ==
  ASSUME NEW f, NEW u, NEW v, NEW w, AllSent(f, u), AllSent(f, v),
         \A s \in Slots : w[s] = u[s] \/ w[s] = v[s]
  PROVE  AllSent(f, w)
BY DEF AllSent

(* One more message is read, and does not count.                           *)
LEMMA KeptSkipped ==
  ASSUME NEW f, NEW pos \in Offsets, NEW X, NEW Y, NEW v, NEW p \in Partitions,
         Kept(f, pos, X, v), X \cup {<<p, pos[p] + 1>>} \subseteq Y
  PROVE  Kept(f, [pos EXCEPT ![p] = @ + 1], Y, v)
<1> DEFINE more == [pos EXCEPT ![p] = @ + 1]
<1> SUFFICES ASSUME NEW q \in Partitions, NEW s \in Slots, NEW o \in 1 .. more[q],
                    Has(f, q, o, s), <<q, o>> \notin Y
             PROVE  Covers(f, q, o, s, v[s])
  BY DEF Kept
<1>1. o \in 1 .. pos[q]
  <2>1. CASE q = p
    <3>1. more[q] = pos[p] + 1 /\ pos[p] \in Nat /\ o # pos[p] + 1
      BY <2>1 DEF Offsets
    <3> QED
      BY <2>1, <3>1
  <2>2. CASE q # p
    BY <2>2 DEF Offsets
  <2> QED
    BY <2>1, <2>2
<1>2. <<q, o>> \notin X
  OBVIOUS
<1> QED
  BY <1>1, <1>2 DEF Kept

(* Partitions that grow.                                                   *)
LEMMA CoversMore ==
  ASSUME NEW f, NEW g, NEW p, NEW o \in Nat \ {0}, NEW s, NEW v,
         Len(f[p]) \in Nat, Len(g[p]) \in Nat, Len(f[p]) <= Len(g[p]),
         \A i \in 1 .. Len(f[p]) : g[p][i] = f[p][i],
         Covers(f, p, o, s, v)
  PROVE  Covers(g, p, o, s, v)
<1>1. PICK q \in o .. Len(f[p]) : \E pt \in Of(f[p][q], s) : pt.call = v
  BY DEF Covers
<1>2. q \in o .. Len(g[p]) /\ g[p][q] = f[p][q]
  BY <1>1
<1> QED
  BY <1>1, <1>2 DEF Covers

Longer(f, g) ==
  \A p \in Partitions :
    /\ Len(f[p]) \in Nat /\ Len(g[p]) \in Nat
    /\ Len(f[p]) <= Len(g[p])
    /\ \A o \in 1 .. Len(f[p]) : g[p][o] = f[p][o]

LEMMA KeptMore ==
  ASSUME NEW f, NEW g, NEW pos \in Offsets, NEW X, NEW v,
         Kept(f, pos, X, v), Longer(f, g),
         \A p \in Partitions : pos[p] <= Len(f[p])
  PROVE  Kept(g, pos, X, v)
<1> SUFFICES ASSUME NEW p \in Partitions, NEW s \in Slots, NEW o \in 1 .. pos[p],
                    Has(g, p, o, s), <<p, o>> \notin X
             PROVE  Covers(g, p, o, s, v[s])
  BY DEF Kept
<1>1. /\ Len(f[p]) \in Nat /\ Len(g[p]) \in Nat
      /\ Len(f[p]) <= Len(g[p])
      /\ \A i \in 1 .. Len(f[p]) : g[p][i] = f[p][i]
  BY DEF Longer
<1>2. o \in 1 .. Len(f[p]) /\ o \in Nat \ {0}
  BY <1>1 DEF Offsets
<1>3. Has(f, p, o, s)
  BY <1>1, <1>2 DEF Has
<1>4. Covers(f, p, o, s, v[s])
  BY <1>3 DEF Kept
<1> QED
  BY <1>1, <1>2, <1>4, CoversMore

LEMMA SentMore ==
  ASSUME NEW f, NEW g, NEW v, AllSent(f, v), Longer(f, g)
  PROVE  AllSent(g, v)
<1> SUFFICES ASSUME NEW s \in Slots, v[s] # 0
             PROVE  \E p \in Partitions : Covers(g, p, 1, s, v[s])
  BY DEF AllSent
<1>1. PICK p \in Partitions : Covers(f, p, 1, s, v[s])
  BY DEF AllSent
<1>2. /\ Len(f[p]) \in Nat /\ Len(g[p]) \in Nat
      /\ Len(f[p]) <= Len(g[p])
      /\ \A i \in 1 .. Len(f[p]) : g[p][i] = f[p][i]
  BY DEF Longer
<1>3. Covers(g, p, 1, s, v[s])
  <2>1. 1 \in Nat \ {0}
    OBVIOUS
  <2> QED
    BY <1>1, <1>2, <2>1, CoversMore
<1> QED
  BY <1>3

(* The points of a slot are all in one partition.                          *)
LEMMA OnePartition ==
  ASSUME FeedInv, NEW s \in Slots, NEW p \in Partitions, NEW q \in Partitions,
         NEW o \in 1 .. Len(feed[p]), NEW r \in 1 .. Len(feed[q]),
         Has(feed, p, o, s), Has(feed, q, r, s)
  PROVE  p = q
<1>1. \A x \in Partitions : \A i \in 1 .. Len(feed[x]) :
        Has(feed, x, i, s) => feed[x][i].key = KeyOf(s[2], s[1])
  <2>1. TAKE x \in Partitions
  <2>2. TAKE i \in 1 .. Len(feed[x])
  <2>3. HAVE Has(feed, x, i, s)
  <2>4. feed[x][i] \in Sound
    BY ElementOfSeq DEF FeedInv
  <2>5. PICK pt \in PointsIn(feed[x][i].points) : pt.time = s[1] /\ pt.key = s[2]
    BY <2>3 DEF Has, Of
  <2> QED
    BY <2>4, <2>5 DEF Sound
<1>2. TimePartitioner(KeyOf(s[2], s[1])) = p
  BY <1>1 DEF FeedInv
<1>3. TimePartitioner(KeyOf(s[2], s[1])) = q
  BY <1>1 DEF FeedInv
<1> QED
  BY <1>2, <1>3

(* The values that the properties speak of.                                *)
LEMMA InValues ==
  ASSUME NEW p, NEW s, NEW o, NEW v, Covers(feed, p, o, s, v)
  PROVE  v \in ValuesIn(p, s, o .. Len(feed[p]))
BY DEF Covers, Of, ValuesIn

(* The message in hand is read.                                            *)
LEMMA KeptRead ==
  ASSUME FeedInv, NEW pos \in Offsets, NEW X, NEW v, NEW w,
         NEW p \in Partitions, pos[p] < Len(feed[p]),
         \A q \in Partitions : pos[q] <= Len(feed[q]),
         Kept(feed, pos, X, v),
         \A s \in Slots :
           \/ \E pt \in Of(feed[p][pos[p] + 1], s) : pt.call = w[s]
           \/ ~Has(feed, p, pos[p] + 1, s) /\ w[s] = v[s]
  PROVE  Kept(feed, [pos EXCEPT ![p] = @ + 1], X, w)
<1> DEFINE more == [pos EXCEPT ![p] = @ + 1]
           last == pos[p] + 1
<1> SUFFICES ASSUME NEW q \in Partitions, NEW s \in Slots, NEW o \in 1 .. more[q],
                    Has(feed, q, o, s), <<q, o>> \notin X
             PROVE  Covers(feed, q, o, s, w[s])
  BY DEF Kept
<1>0. /\ \A x \in Partitions : pos[x] \in Nat /\ Len(feed[x]) \in Nat
      /\ more[p] = last /\ (q # p => more[q] = pos[q])
  BY LenProperties DEF FeedInv, Offsets
<1>1. last \in 1 .. Len(feed[p]) /\ o \in 1 .. Len(feed[q])
  <2>1. CASE q = p
    BY <1>0, <2>1
  <2>2. CASE q # p
    BY <1>0, <2>2
  <2> QED
    BY <2>1, <2>2
<1>2. CASE \E pt \in Of(feed[p][last], s) : pt.call = w[s]
  <2>1. Has(feed, p, last, s)
    BY <1>2 DEF Has
  <2>2. q = p
    BY <1>1, <2>1, OnePartition
  <2>3. last \in o .. Len(feed[p])
    BY <1>0, <1>1, <2>2
  <2> HIDE DEF last
  <2> QED
    BY <1>2, <2>2, <2>3 DEF Covers
<1>3. CASE ~Has(feed, p, last, s) /\ w[s] = v[s]
  <2>1. ~(q = p /\ o = last)
    BY <1>3
  <2>2. o \in 1 .. pos[q]
    <3>1. CASE q = p
      BY <1>0, <2>1, <3>1
    <3>2. CASE q # p
      BY <1>0, <3>2
    <3> QED
      BY <3>1, <3>2
  <2>3. Covers(feed, q, o, s, v[s])
    BY <2>2 DEF Kept
  <2> QED
    BY <1>3, <2>3
<1> QED
  BY <1>2, <1>3

LEMMA SentRead ==
  ASSUME FeedInv, NEW pos \in Offsets, NEW v, NEW w, NEW p \in Partitions,
         pos[p] < Len(feed[p]), AllSent(feed, v),
         \A s \in Slots : \/ \E pt \in Of(feed[p][pos[p] + 1], s) : pt.call = w[s]
                          \/ w[s] = v[s]
  PROVE  AllSent(feed, w)
<1> SUFFICES ASSUME NEW s \in Slots, w[s] # 0
             PROVE  \E q \in Partitions : Covers(feed, q, 1, s, w[s])
  BY DEF AllSent
<1>0. pos[p] + 1 \in 1 .. Len(feed[p])
  BY LenProperties DEF FeedInv, Offsets
<1>1. CASE \E pt \in Of(feed[p][pos[p] + 1], s) : pt.call = w[s]
  BY <1>0, <1>1 DEF Covers
<1>2. CASE w[s] = v[s]
  BY <1>2 DEF AllSent
<1> QED
  BY <1>1, <1>2

-----------------------------------------------------------------------------
(* The proxy's steps                                                       *)

LEMMA Largest ==
  ASSUME NEW n \in Nat, NEW S \in SUBSET (0 .. n), S # {}
  PROVE  \E i \in S : \A j \in S : j <= i
<1>1. 1 \in Nat \ {0} /\ 0 \in Nat
  OBVIOUS
<1> QED
  BY <1>1, K!LargestElement

(* The package has the last point of each key of the message.              *)
LEMMA WithPointsEffect ==
  ASSUME NEW m \in Sound, NEW held \in [Keys -> Versions]
  PROVE  /\ WithPoints(held, m) \in [Keys -> Versions]
         /\ \A k \in Keys :
              \/ \E pt \in PointsIn(m.points) :
                   pt.key = k /\ pt.call = WithPoints(held, m)[k]
              \/ /\ \A pt \in PointsIn(m.points) : pt.key # k
                 /\ WithPoints(held, m)[k] = held[k]
<1>1. m.points \in Seq(Point)
  BY DEF Sound, Message
<1>2. /\ Len(m.points) \in Nat /\ DOMAIN m.points = 1 .. Len(m.points)
      /\ \A i \in 1 .. Len(m.points) : m.points[i] \in Point
  BY <1>1, LenProperties, ElementOfSeq
<1>3. ASSUME NEW k \in Keys
      PROVE  \/ \E pt \in PointsIn(m.points) :
                  pt.key = k /\ pt.call = WithPoints(held, m)[k]
             \/ /\ \A pt \in PointsIn(m.points) : pt.key # k
                /\ WithPoints(held, m)[k] = held[k]
  <2> DEFINE at == {i \in DOMAIN m.points : m.points[i].key = k}
             lst == CHOOSE i \in at : \A j \in at : j <= i
  <2>1. WithPoints(held, m)[k] = IF at = {} THEN held[k] ELSE m.points[lst].call
    BY DEF WithPoints
  <2>2. CASE at = {}
    <3>1. \A pt \in PointsIn(m.points) : pt.key # k
      BY <1>2, <2>2 DEF PointsIn
    <3> QED
      BY <2>1, <2>2, <3>1
  <2>3. CASE at # {}
    <3>1. at \in SUBSET (0 .. Len(m.points))
      BY <1>2
    <3> HIDE DEF at
    <3>2. \E i \in at : \A j \in at : j <= i
      BY <1>2, <2>3, <3>1, Largest
    <3>3. lst \in at
      BY <3>2
    <3> HIDE DEF lst
    <3>4. lst \in 1 .. Len(m.points) /\ m.points[lst].key = k
      BY <1>2, <3>3 DEF at
    <3>5. m.points[lst] \in PointsIn(m.points)
      BY <3>4 DEF PointsIn
    <3> QED
      BY <2>1, <2>3, <3>4, <3>5
  <2> QED
    BY <2>2, <2>3
<1>4. \A pt \in PointsIn(m.points) : pt.call \in Versions
  <2>1. \A pt \in Point : pt.call \in Versions
    BY TopicAssumption DEF Point, Versions
  <2> QED
    BY <1>2, <2>1 DEF PointsIn
<1>5. \A k \in Keys : WithPoints(held, m)[k] \in Versions
  BY <1>3, <1>4
<1>6. WithPoints(held, m) \in [Keys -> Versions]
  BY <1>5 DEF WithPoints
<1> QED
  BY <1>3, <1>6

(* A flush takes a slot from what is in sight or leaves it.                *)
LEMMA FlushedEffect ==
  ASSUME ProxyInv, NEW S \in SUBSET Waiting
  PROVE  /\ Flushed(S) \in [Slots -> Versions]
         /\ \A s \in Slots : Flushed(S)[s] = Seen[s] \/ Flushed(S)[s] = store[s]
<1>1. \A s \in Slots : Flushed(S)[s] = Seen[s] \/ Flushed(S)[s] = store[s]
  BY DEF Flushed, Seen, View, Waiting
<1>2. \A s \in Slots : Seen[s] \in Versions /\ store[s] \in Versions
  BY DEF Seen, View, ProxyInv, Slots
<1>3. Flushed(S) \in [Slots -> Versions]
  BY <1>1, <1>2 DEF Flushed
<1> QED
  BY <1>1, <1>3

LEMMA FlushedAll ==
  Flushed(Waiting) = Seen
BY DEF Flushed, Seen, View, Waiting, Slots

(* The producer and the topic are not concerned by the proxy.              *)
LEMMA TopicStays ==
  ASSUME ProducerInv, FeedInv, UNCHANGED <<vars, feed>>
  PROVE  ProducerInv' /\ FeedInv'
<1>1. UNCHANGED <<format, status, time, batch, sent, call, outq, log, feed>>
  BY DEF vars, callVars
<1>2. Sound' = Sound
  BY <1>1 DEF Sound, KeyOf
<1> QED
  BY <1>1, <1>2 DEF ProducerInv, FeedInv, TimePartitioner

(* What the proxy is given is a message as the producer makes them.        *)
LEMMA PollStep ==
  ASSUME FeedInv, ProxyInv, NEW p \in Partitions, Poll(p)
  PROVE  /\ InHand(p) \in Sound
         /\ position[p] \in Nat /\ position[p] < Len(feed[p])
         /\ position[p] + 1 \in 1 .. Len(feed[p])
         /\ InHand(p) = feed[p][position[p] + 1]
         /\ position' = [position EXCEPT ![p] = @ + 1]
         /\ position' \in Offsets
         /\ \A q \in Partitions :
              committed[q] <= position'[q] /\ position'[q] <= Len(feed[q])
         /\ proxy = "running"
<1>1. /\ proxy = "running" /\ position[p] < Len(feed[p])
      /\ position' = [position EXCEPT ![p] = @ + 1]
  BY DEF Poll
<1>2. \A q \in Partitions : /\ position[q] \in Nat /\ committed[q] \in Nat
                            /\ Len(feed[q]) \in Nat
  BY LenProperties DEF FeedInv, ProxyInv, Offsets
<1>3. position[p] + 1 \in 1 .. Len(feed[p])
  BY <1>1, <1>2
<1>4. feed[p][position[p] + 1] \in Sound
  BY <1>3, ElementOfSeq DEF FeedInv
<1>5. position' \in Offsets
  BY <1>1, <1>2 DEF ProxyInv, Offsets
<1>6. ASSUME NEW q \in Partitions
      PROVE  committed[q] <= position'[q] /\ position'[q] <= Len(feed[q])
  <2>0. committed[q] <= position[q] /\ position[q] <= Len(feed[q])
    BY DEF ProxyInv
  <2>1. CASE q = p
    <3>1. position'[q] = position[p] + 1
      BY <1>1, <2>1 DEF ProxyInv, Offsets
    <3> QED
      BY <1>1, <1>2, <2>0, <2>1, <3>1
  <2>2. CASE q # p
    <3>1. position'[q] = position[q]
      BY <1>1, <2>2 DEF ProxyInv, Offsets
    <3> QED
      BY <2>0, <3>1
  <2> QED
    BY <2>1, <2>2
<1> QED
  BY <1>1, <1>2, <1>3, <1>4, <1>5, <1>6 DEF InHand

(* Behind a message that was taken, a slot has the value of a point of the *)
(* message, or, when there is none, what it had.                           *)
LEMMA ConsumeEffect ==
  ASSUME FeedInv, ProxyInv, NEW p \in Partitions, Consume(p)
  PROVE  /\ pending' \in [Keys -> Versions] /\ current' \in Times \ {0}
         /\ \A s \in Slots :
              \/ \E pt \in Of(InHand(p), s) : pt.call = Seen'[s]
              \/ Of(InHand(p), s) = {} /\ Seen'[s] = Seen[s]
         /\ \/ store' = Seen /\ unflushed' = {<<p, position'[p]>>}
            \/ /\ store' = store
               /\ unflushed' = unflushed \cup {<<p, position'[p]>>}
<1> DEFINE m == InHand(p)
           flush == Due(m.time)
           held == IF flush THEN Nothing ELSE pending
<1>1. /\ pending' = WithPoints(held, m)
      /\ store' = IF flush THEN Flushed(Waiting) ELSE store
      /\ unflushed' = (IF flush THEN {} ELSE unflushed) \cup {<<p, position'[p]>>}
      /\ current' = m.time
  BY DEF Consume
<1>2. m \in Sound
  BY PollStep DEF Consume
<1>3. m.time \in Times \ {0} /\ \A s \in Slots : s[1] \in Times \ {0} /\ s[2] \in Keys
  BY <1>2, PipelineAssumption DEF Sound, Message, Slots
<1>4. held \in [Keys -> Versions]
  <2>1. 0 \in Versions
    BY TopicAssumption DEF Versions
  <2> QED
    BY <2>1 DEF ProxyInv, Nothing
<1> HIDE DEF m, held, flush
<1>5. /\ pending' \in [Keys -> Versions]
      /\ \A k \in Keys :
           \/ \E pt \in PointsIn(m.points) : pt.key = k /\ pt.call = pending'[k]
           \/ (\A pt \in PointsIn(m.points) : pt.key # k) /\ pending'[k] = held[k]
  BY <1>1, <1>2, <1>4, WithPointsEffect
<1>6. \A pt \in PointsIn(m.points) : pt.time = m.time /\ pt.call # 0
  <2>1. \A pt \in PointsIn(m.points) : pt.time = m.time
    BY <1>2 DEF Sound
  <2>2. m.points \in Seq(Point)
    BY <1>2 DEF Sound, Message
  <2>3. \A i \in 1 .. Len(m.points) : m.points[i] \in Point
    BY <2>2, ElementOfSeq
  <2>4. \A pt \in Point : pt.call # 0
    BY DEF Point
  <2> QED
    BY <2>1, <2>3, <2>4 DEF PointsIn
<1>7. ASSUME NEW s \in Slots
      PROVE  \/ \E pt \in Of(m, s) : pt.call = Seen'[s]
             \/ Of(m, s) = {} /\ Seen'[s] = Seen[s]
  <2>1. Seen'[s] = IF s[1] = m.time /\ pending'[s[2]] # 0 THEN pending'[s[2]]
                   ELSE store'[s]
    BY <1>1 DEF Seen, View
  <2>2. Seen[s] = IF s[1] = current /\ pending[s[2]] # 0 THEN pending[s[2]]
                  ELSE store[s]
    BY DEF Seen, View
  <2>3. CASE Of(m, s) # {}
    <3>1. PICK any \in PointsIn(m.points) : any.time = s[1] /\ any.key = s[2]
      BY <2>3 DEF Of
    <3>2. PICK pt \in PointsIn(m.points) : pt.key = s[2] /\ pt.call = pending'[s[2]]
      BY <1>3, <1>5, <3>1
    <3>3. pt \in Of(m, s) /\ s[1] = m.time
      BY <1>6, <3>1, <3>2 DEF Of
    <3> QED
      BY <1>6, <2>1, <3>2, <3>3
  <2>4. CASE Of(m, s) = {}
    <3>1. s[1] = m.time => pending'[s[2]] = held[s[2]]
      BY <1>3, <1>5, <1>6, <2>4 DEF Of
    <3>2. CASE flush
      <4>1. held[s[2]] = 0
        BY <1>3, <3>2 DEF held, Nothing
      <4>2. store'[s] = Seen[s]
        BY <1>1, <3>2, FlushedAll
      <4> QED
        BY <2>1, <2>4, <3>1, <4>1, <4>2
    <3>3. CASE ~flush
      <4>1. held = pending /\ store' = store
        BY <1>1, <3>3 DEF held
      <4>2. CASE current = m.time
        BY <2>1, <2>2, <2>4, <3>1, <4>1, <4>2
      <4>3. CASE current # m.time
        <5>1. current = 0 \/ Waiting = {}
          BY <3>3, <4>3 DEF flush, Due
        <5>2. pending[s[2]] = 0
          BY <1>3, <5>1 DEF ProxyInv, Nothing, Waiting
        <5> QED
          BY <2>1, <2>2, <2>4, <3>1, <4>1, <5>2
      <4> QED
        BY <4>2, <4>3
    <3> QED
      BY <3>2, <3>3
  <2> QED
    BY <2>3, <2>4
<1>8. \/ store' = Seen /\ unflushed' = {<<p, position'[p]>>}
      \/ store' = store /\ unflushed' = unflushed \cup {<<p, position'[p]>>}
  BY <1>1, FlushedAll
<1> QED
  BY <1>1, <1>3, <1>5, <1>7, <1>8 DEF m

(* Without anything in the package there is only the database.             *)
LEMMA OnlyStore ==
  ASSUME pending = Nothing, store \in [Slots -> Versions]
  PROVE  Seen = store
BY DEF Seen, View, Nothing, Slots

LEMMA OnlyStoreNext ==
  ASSUME pending' = Nothing, store' \in [Slots -> Versions]
  PROVE  Seen' = store'
BY DEF Seen, View, Nothing, Slots

LEMMA ConsumeStep ==
  ASSUME PipeInv, ReadInv, NEW p \in Partitions, Consume(p)
  PROVE  PipeInv' /\ ReadInv'
<1>1. FeedInv /\ ProxyInv /\ ProducerInv /\ Poll(p)
  BY DEF PipeInv, Consume
<1>2. UNCHANGED <<vars, feed, faults, proxy, committed, stops, gap>>
  BY DEF Consume
<1>3. ProducerInv' /\ FeedInv'
  BY <1>1, <1>2, TopicStays
<1>4. /\ position[p] \in Nat /\ position[p] < Len(feed[p])
      /\ position[p] + 1 \in 1 .. Len(feed[p])
      /\ InHand(p) = feed[p][position[p] + 1]
      /\ position' = [position EXCEPT ![p] = @ + 1]
      /\ position' \in Offsets
      /\ \A q \in Partitions :
           committed[q] <= position'[q] /\ position'[q] <= Len(feed[q])
      /\ proxy = "running"
  BY <1>1, PollStep
<1>5. /\ pending' \in [Keys -> Versions] /\ current' \in Times \ {0}
      /\ \A s \in Slots :
           \/ \E pt \in Of(InHand(p), s) : pt.call = Seen'[s]
           \/ Of(InHand(p), s) = {} /\ Seen'[s] = Seen[s]
      /\ \/ store' = Seen /\ unflushed' = {<<p, position'[p]>>}
         \/ /\ store' = store
            /\ unflushed' = unflushed \cup {<<p, position'[p]>>}
  BY <1>1, ConsumeEffect
<1>6. position \in Offsets /\ \A q \in Partitions : position[q] <= Len(feed[q])
  BY <1>1 DEF ProxyInv
<1>7. position'[p] = position[p] + 1
  BY <1>4, <1>6 DEF Offsets
<1>8. ProxyInv'
  <2>1. store' \in [Slots -> Versions]
    BY <1>1, <1>5, FlushedEffect, FlushedAll DEF ProxyInv
  <2>2. <<p, position'[p]>> \in Partitions \X Nat
    BY <1>4 DEF Offsets
  <2>3. unflushed' \subseteq Partitions \X Nat
    BY <1>1, <1>5, <2>2 DEF ProxyInv
  <2> QED
    BY <1>1, <1>2, <1>4, <1>5, <2>1, <2>3 DEF ProxyInv
<1>9. Kept(feed, position, gap, Seen) /\ Kept(feed, position, gap \cup unflushed, store)
  BY <1>4 DEF ReadInv, InView, InStore
<1>10. Kept(feed, position', gap, Seen')
  <2>1. \A s \in Slots :
          \/ \E pt \in Of(feed[p][position[p] + 1], s) : pt.call = Seen'[s]
          \/ ~Has(feed, p, position[p] + 1, s) /\ Seen'[s] = Seen[s]
    BY <1>4, <1>5 DEF Has
  <2>2. Kept(feed, [position EXCEPT ![p] = @ + 1], gap, Seen')
    BY <1>1, <1>4, <1>6, <1>9, <2>1, KeptRead
  <2> QED
    BY <1>4, <2>2
<1>11. Kept(feed, position', gap \cup unflushed', store')
  <2>1. CASE store' = Seen /\ unflushed' = {<<p, position'[p]>>}
    <3>1. gap \cup {<<p, position[p] + 1>>} \subseteq gap \cup unflushed'
      BY <1>7, <2>1
    <3>2. Kept(feed, [position EXCEPT ![p] = @ + 1], gap \cup unflushed', Seen)
      BY <1>6, <1>9, <3>1, KeptSkipped
    <3> QED
      BY <1>4, <2>1, <3>2
  <2>2. CASE store' = store /\ unflushed' = unflushed \cup {<<p, position'[p]>>}
    <3>1. (gap \cup unflushed) \cup {<<p, position[p] + 1>>}
            \subseteq gap \cup unflushed'
      BY <1>7, <2>2
    <3>2. Kept(feed, [position EXCEPT ![p] = @ + 1], gap \cup unflushed', store)
      BY <1>6, <1>9, <3>1, KeptSkipped
    <3> QED
      BY <1>4, <2>2, <3>2
  <2> QED
    BY <1>5, <2>1, <2>2
<1>12. AllSent(feed, Seen') /\ AllSent(feed, store')
  <2>1. AllSent(feed, Seen) /\ AllSent(feed, store)
    BY DEF ReadInv, SentInv
  <2>2. \A s \in Slots :
          \/ \E pt \in Of(feed[p][position[p] + 1], s) : pt.call = Seen'[s]
          \/ Seen'[s] = Seen[s]
    BY <1>4, <1>5
  <2>3. AllSent(feed, Seen')
    BY <1>1, <1>4, <1>6, <2>1, <2>2, SentRead
  <2>4. AllSent(feed, store')
    BY <1>5, <2>1
  <2> QED
    BY <2>3, <2>4
<1>13. gap' = gap /\ feed' = feed
  BY <1>2
<1>14. ReadInv'
  BY <1>10, <1>11, <1>12, <1>13 DEF ReadInv, InView, InStore, SentInv
<1> QED
  BY <1>3, <1>8, <1>14 DEF PipeInv

(* Everything is written, and nothing is left to be written.               *)
LEMMA FlushStep ==
  ASSUME PipeInv, ReadInv, ForceFlush \/ Cleanup
  PROVE  PipeInv' /\ ReadInv'
<1>1. FeedInv /\ ProxyInv /\ ProducerInv
  BY DEF PipeInv
<1>2. /\ UNCHANGED <<vars, feed, faults, position, committed, stops, gap>>
      /\ proxy # "stopped" /\ proxy' \in {"running", "cleanup", "stopped"}
      /\ store' = Flushed(Waiting) /\ pending' = Nothing /\ current' = 0
      /\ unflushed' = {}
  BY <1>1 DEF ForceFlush, Cleanup, ProxyInv
<1>3. ProducerInv' /\ FeedInv'
  BY <1>1, <1>2, TopicStays
<1>4. store' = Seen /\ store' \in [Slots -> Versions]
  BY <1>1, <1>2, FlushedAll, FlushedEffect
<1>5. Seen' = store'
  BY <1>2, <1>4, OnlyStoreNext
<1>6. ProxyInv'
  <2>1. Nothing \in [Keys -> Versions]
    BY TopicAssumption DEF Nothing, Versions
  <2> QED
    BY <1>1, <1>2, <1>4, <2>1 DEF ProxyInv
<1>7. Kept(feed, position, gap, Seen) /\ AllSent(feed, Seen)
  BY <1>2 DEF ReadInv, InView, SentInv
<1>8. /\ feed' = feed /\ position' = position /\ gap' = gap
      /\ gap' \cup unflushed' = gap
  BY <1>2
<1>9. ReadInv'
  BY <1>4, <1>5, <1>7, <1>8 DEF ReadInv, InView, InStore, SentInv
<1> QED
  BY <1>3, <1>6, <1>9 DEF PipeInv

(* A flush that fails takes some of what is in sight into the database,    *)
(* and what is in sight does not change.                                   *)
LEMMA PartlyFlushed ==
  ASSUME PipeInv, ReadInv, proxy # "stopped",
         NEW S \in SUBSET Waiting, NEW w, w = Flushed(S)
  PROVE  /\ w \in [Slots -> Versions]
         /\ Kept(feed, position, gap \cup unflushed, w) /\ AllSent(feed, w)
<1>1. ProxyInv
  BY DEF PipeInv
<1>2. /\ w \in [Slots -> Versions]
      /\ \A s \in Slots : w[s] = Seen[s] \/ w[s] = store[s]
  BY <1>1, FlushedEffect
<1>3. /\ Kept(feed, position, gap, Seen) /\ AllSent(feed, Seen)
      /\ Kept(feed, position, gap \cup unflushed, store) /\ AllSent(feed, store)
  BY DEF ReadInv, InView, InStore, SentInv
<1>4. Kept(feed, position, gap \cup unflushed, Seen)
  BY <1>3 DEF Kept
<1>5. Kept(feed, position, gap \cup unflushed, w)
  BY <1>2, <1>3, <1>4, KeptMixed
<1>6. AllSent(feed, w)
  BY <1>2, <1>3, SentMixed
<1> QED
  BY <1>2, <1>5, <1>6

LEMMA FailedFlush ==
  ASSUME PipeInv, ReadInv, proxy # "stopped", FlushFails
  PROVE  /\ proxy' = "cleanup" /\ faults' \in 0 .. MaxFaults
         /\ UNCHANGED <<current, pending>> /\ Seen' = Seen
         /\ store' \in [Slots -> Versions]
         /\ Kept(feed, position, gap \cup unflushed, store') /\ AllSent(feed, store')
<1>1. /\ Fault /\ proxy' = "cleanup" /\ UNCHANGED <<current, pending>>
      /\ \E S \in SUBSET Waiting : store' = Flushed(S)
  BY DEF FlushFails
<1>2. PICK S \in SUBSET Waiting : store' = Flushed(S)
  BY <1>1
<1>3. faults' \in 0 .. MaxFaults
  BY <1>1, PipelineAssumption DEF Fault, PipeInv, ProxyInv
<1>4. /\ store' \in [Slots -> Versions]
      /\ Kept(feed, position, gap \cup unflushed, store') /\ AllSent(feed, store')
  BY <1>2, PartlyFlushed
<1>5. Seen' = Seen
  <2>1. \A s \in Slots : Flushed(S)[s] = Seen[s] \/ Flushed(S)[s] = store[s]
    BY FlushedEffect DEF PipeInv
  <2> QED
    BY <1>1, <1>2, <2>1 DEF Seen, View
<1> QED
  BY <1>1, <1>3, <1>4, <1>5

LEMMA ForceFlushFailsStep ==
  ASSUME PipeInv, ReadInv, ForceFlushFails
  PROVE  PipeInv' /\ ReadInv'
<1>1. FeedInv /\ ProxyInv /\ ProducerInv
  BY DEF PipeInv
<1>2. /\ proxy = "running" /\ FlushFails
      /\ UNCHANGED <<vars, feed, position, committed, unflushed, stops, gap>>
  BY DEF ForceFlushFails
<1>3. ProducerInv' /\ FeedInv'
  BY <1>1, <1>2, TopicStays
<1>4. /\ proxy' = "cleanup" /\ faults' \in 0 .. MaxFaults
      /\ UNCHANGED <<current, pending>> /\ Seen' = Seen
      /\ store' \in [Slots -> Versions]
      /\ Kept(feed, position, gap \cup unflushed, store') /\ AllSent(feed, store')
  BY <1>2, FailedFlush
<1>5. ProxyInv'
  BY <1>1, <1>2, <1>4 DEF ProxyInv
<1>6. Kept(feed, position, gap, Seen) /\ AllSent(feed, Seen)
  BY <1>2 DEF ReadInv, InView, SentInv
<1>7. feed' = feed /\ position' = position /\ gap' = gap /\ unflushed' = unflushed
  BY <1>2
<1>8. ReadInv'
  BY <1>4, <1>6, <1>7 DEF ReadInv, InView, InStore, SentInv
<1> QED
  BY <1>3, <1>5, <1>8 DEF PipeInv

(* The message in hand is given up.                                        *)
LEMMA ConsumeFailsStep ==
  ASSUME PipeInv, ReadInv, NEW p \in Partitions, ConsumeFails(p)
  PROVE  PipeInv' /\ ReadInv'
<1>1. FeedInv /\ ProxyInv /\ ProducerInv
  BY DEF PipeInv
<1>2. /\ Poll(p) /\ FlushFails /\ gap' = gap \cup {<<p, position'[p]>>}
      /\ UNCHANGED <<vars, feed, committed, unflushed, stops>>
  BY DEF ConsumeFails
<1>3. ProducerInv' /\ FeedInv'
  BY <1>1, <1>2, TopicStays
<1>4. /\ position' = [position EXCEPT ![p] = @ + 1]
      /\ position' \in Offsets
      /\ \A q \in Partitions :
           committed[q] <= position'[q] /\ position'[q] <= Len(feed[q])
      /\ proxy = "running"
  BY <1>1, <1>2, PollStep
<1>5. /\ proxy' = "cleanup" /\ faults' \in 0 .. MaxFaults
      /\ UNCHANGED <<current, pending>> /\ Seen' = Seen
      /\ store' \in [Slots -> Versions]
      /\ Kept(feed, position, gap \cup unflushed, store') /\ AllSent(feed, store')
  BY <1>2, <1>4, FailedFlush
<1>6. position \in Offsets /\ position'[p] = position[p] + 1
  BY <1>1, <1>4 DEF ProxyInv, Offsets
<1>7. ProxyInv'
  <2>1. gap' \subseteq Partitions \X Nat
    BY <1>1, <1>2, <1>4 DEF ProxyInv, Offsets
  <2> QED
    BY <1>1, <1>2, <1>4, <1>5, <2>1 DEF ProxyInv
<1>8. Kept(feed, position, gap, Seen) /\ AllSent(feed, Seen)
  BY <1>4 DEF ReadInv, InView, SentInv
<1>9. Kept(feed, position', gap', Seen)
  <2>1. gap \cup {<<p, position[p] + 1>>} \subseteq gap'
    BY <1>2, <1>6
  <2>2. Kept(feed, [position EXCEPT ![p] = @ + 1], gap', Seen)
    BY <1>6, <1>8, <2>1, KeptSkipped
  <2> QED
    BY <1>4, <2>2
<1>10. Kept(feed, position', gap' \cup unflushed, store')
  <2>1. (gap \cup unflushed) \cup {<<p, position[p] + 1>>} \subseteq gap' \cup unflushed
    BY <1>2, <1>6
  <2>2. Kept(feed, [position EXCEPT ![p] = @ + 1], gap' \cup unflushed, store')
    BY <1>5, <1>6, <2>1, KeptSkipped
  <2> QED
    BY <1>4, <2>2
<1>11. feed' = feed /\ unflushed' = unflushed
  BY <1>2
<1>12. ReadInv'
  BY <1>5, <1>8, <1>9, <1>10, <1>11 DEF ReadInv, InView, InStore, SentInv
<1> QED
  BY <1>3, <1>7, <1>12 DEF PipeInv

(* The proxy ends without having written everything.                       *)
LEMMA CleanupFailsStep ==
  ASSUME PipeInv, ReadInv, CleanupFails
  PROVE  PipeInv' /\ ReadInv'
<1>1. FeedInv /\ ProxyInv /\ ProducerInv
  BY DEF PipeInv
<1>2. /\ proxy = "cleanup" /\ proxy' = "stopped"
      /\ pending' = Nothing /\ current' = 0
      /\ \E S \in SUBSET Waiting : store' = Flushed(S)
      /\ UNCHANGED <<vars, feed, faults, position, committed, unflushed, stops, gap>>
  BY DEF CleanupFails
<1>3. ProducerInv' /\ FeedInv'
  BY <1>1, <1>2, TopicStays
<1>4. /\ store' \in [Slots -> Versions]
      /\ Kept(feed, position, gap \cup unflushed, store') /\ AllSent(feed, store')
  <2>1. PICK S \in SUBSET Waiting : store' = Flushed(S)
    BY <1>2
  <2> QED
    BY <1>2, <2>1, PartlyFlushed
<1>5. Seen' = store'
  BY <1>2, <1>4, OnlyStoreNext
<1>6. ProxyInv'
  <2>1. Nothing \in [Keys -> Versions]
    BY TopicAssumption DEF Nothing, Versions
  <2> QED
    BY <1>1, <1>2, <1>4, <2>1 DEF ProxyInv
<1>7. feed' = feed /\ position' = position /\ gap' = gap /\ unflushed' = unflushed
  BY <1>2
<1>8. ReadInv'
  BY <1>2, <1>4, <1>5, <1>7 DEF ReadInv, InView, InStore, SentInv
<1> QED
  BY <1>3, <1>6, <1>8 DEF PipeInv

LEMMA CrashStep ==
  ASSUME PipeInv, ReadInv, Crash
  PROVE  PipeInv' /\ ReadInv'
<1>1. FeedInv /\ ProxyInv /\ ProducerInv
  BY DEF PipeInv
<1>2. /\ Fault /\ proxy' = "stopped" /\ pending' = Nothing /\ current' = 0
      /\ UNCHANGED <<vars, feed, position, committed, unflushed, store,
                     stops, gap>>
  BY DEF Crash
<1>3. ProducerInv' /\ FeedInv'
  BY <1>1, <1>2, TopicStays
<1>4. store' = store /\ store \in [Slots -> Versions]
  BY <1>1, <1>2 DEF ProxyInv
<1>5. Seen' = store'
  BY <1>2, <1>4, OnlyStoreNext
<1>6. ProxyInv'
  <2>1. Nothing \in [Keys -> Versions]
    BY TopicAssumption DEF Nothing, Versions
  <2>2. faults' \in 0 .. MaxFaults
    BY <1>1, <1>2, PipelineAssumption DEF Fault, ProxyInv
  <2> QED
    BY <1>1, <1>2, <2>1, <2>2 DEF ProxyInv
<1>7. feed' = feed /\ position' = position /\ gap' = gap /\ unflushed' = unflushed
  BY <1>2
<1>8. ReadInv'
  BY <1>2, <1>4, <1>5, <1>7 DEF ReadInv, InView, InStore, SentInv
<1> QED
  BY <1>3, <1>6, <1>8 DEF PipeInv

LEMMA ShutdownStep ==
  ASSUME PipeInv, ReadInv, Shutdown
  PROVE  PipeInv' /\ ReadInv'
<1>1. FeedInv /\ ProxyInv /\ ProducerInv
  BY DEF PipeInv
<1>2. /\ current = 0 /\ proxy' = "stopped"
      /\ UNCHANGED <<vars, feed, faults, position, committed, stops, gap>>
      /\ UNCHANGED <<current, pending, unflushed, store>>
  BY DEF Shutdown, dataVars
<1>3. ProducerInv' /\ FeedInv'
  BY <1>1, <1>2, TopicStays
<1>4. ProxyInv'
  BY <1>1, <1>2 DEF ProxyInv
<1>5. Seen' = Seen
  BY <1>2 DEF Seen, View
<1>6. /\ feed' = feed /\ position' = position /\ gap' = gap
      /\ unflushed' = unflushed /\ store' = store
  BY <1>2
<1>7. ReadInv'
  BY <1>2, <1>5, <1>6 DEF ReadInv, InView, InStore, SentInv
<1> QED
  BY <1>3, <1>4, <1>7 DEF PipeInv

(* What the proxy will not be given again is in the database, unless it    *)
(* was given up or waited for a flush.                                     *)
LEMMA RestartStep ==
  ASSUME PipeInv, ReadInv, Restart
  PROVE  PipeInv' /\ ReadInv'
<1>1. FeedInv /\ ProxyInv /\ ProducerInv
  BY DEF PipeInv
<1>2. /\ proxy = "stopped" /\ stops' = stops + 1 /\ stops < MaxStops
      /\ proxy' = "running"
      /\ position' \in [Partitions -> 0 .. MaxCalls * Cardinality(Keys) + MaxFaults]
      /\ Resume(position')
      /\ committed' = position'
      /\ gap' = {g \in gap \cup unflushed : g[2] <= position'[g[1]]}
      /\ unflushed' = {}
      /\ UNCHANGED <<vars, feed, faults, current, pending, store>>
  BY DEF Restart
<1>3. ProducerInv' /\ FeedInv'
  BY <1>1, <1>2, TopicStays
<1>4. \A p \in Partitions :
        /\ position[p] \in Nat /\ committed[p] \in Nat /\ Len(feed[p]) \in Nat
        /\ position'[p] \in committed[p] .. position[p]
  BY <1>1, <1>2, LenProperties DEF FeedInv, ProxyInv, Offsets, Resume
<1>5. \A p \in Partitions :
        position'[p] \in Nat /\ position'[p] <= position[p]
  BY <1>4
<1>6. position' \in Offsets
  <2>1. position' = [p \in Partitions |-> position'[p]]
    BY <1>2
  <2> QED
    BY <1>5, <2>1 DEF Offsets
<1>7. ProxyInv'
  <2>1. \A p \in Partitions : position[p] <= Len(feed[p])
    BY <1>1 DEF ProxyInv
  <2>2. \A p \in Partitions :
          position'[p] <= position'[p] /\ position'[p] <= Len(feed[p])
    <3>1. TAKE p \in Partitions
    <3> QED
      BY <1>4, <1>5, <2>1
  <2>3. stops' \in 0 .. MaxStops
    BY <1>1, <1>2, PipelineAssumption DEF ProxyInv
  <2>4. gap' \subseteq Partitions \X Nat
    BY <1>1, <1>2 DEF ProxyInv
  <2> QED
    BY <1>1, <1>2, <1>6, <2>2, <2>3, <2>4 DEF ProxyInv
<1>8. Kept(feed, position, gap \cup unflushed, store)
  BY DEF ReadInv, InStore
<1>9. Kept(feed, position', gap', store)
  <2> SUFFICES ASSUME NEW p \in Partitions, NEW s \in Slots,
                      NEW o \in 1 .. position'[p],
                      Has(feed, p, o, s), <<p, o>> \notin gap'
               PROVE  Covers(feed, p, o, s, store[s])
    BY DEF Kept
  <2>1. o \in 1 .. position[p] /\ o <= position'[p]
    BY <1>4, <1>5
  <2>2. <<p, o>> \notin gap \cup unflushed
    BY <1>2, <2>1
  <2> QED
    BY <1>8, <2>1, <2>2 DEF Kept
<1>10. Seen = store
  BY <1>1, <1>2, OnlyStore DEF ProxyInv
<1>11. Seen' = store
  <2>1. pending' = Nothing /\ store' = store /\ store' \in [Slots -> Versions]
    BY <1>1, <1>2 DEF ProxyInv
  <2> QED
    BY <2>1, OnlyStoreNext
<1>12. /\ feed' = feed /\ store' = store
       /\ gap' \cup unflushed' = gap'
  BY <1>2
<1>13. AllSent(feed, store)
  BY DEF ReadInv, SentInv
<1>14. ReadInv'
  BY <1>9, <1>11, <1>12, <1>13 DEF ReadInv, InView, InStore, SentInv
<1> QED
  BY <1>3, <1>7, <1>14 DEF PipeInv

-----------------------------------------------------------------------------
(* The producer's and the broker's steps                                   *)

LEMMA ProxyStays ==
  ASSUME UNCHANGED proxyVars
  PROVE  /\ UNCHANGED <<proxy, position, committed, current, pending, unflushed,
                        store, stops, gap>>
         /\ Seen' = Seen
<1>1. UNCHANGED <<proxy, position, committed, current, pending, unflushed,
                  store, stops, gap>>
  BY DEF proxyVars, dataVars
<1> QED
  BY <1>1 DEF Seen, View

(* The program goes on, or a message of it is lost.                        *)
LEMMA ProducerStep ==
  ASSUME PipeInv, ReadInv,
         Producer \/ \E i \in 1 .. Len(outq) : GivenUp(i)
  PROVE  PipeInv' /\ ReadInv'
<1>1. FeedInv /\ ProxyInv /\ ProducerInv
  BY DEF PipeInv
<1>2. /\ ProducerInv' /\ UNCHANGED <<format, log>> /\ UNCHANGED <<feed, proxyVars>>
      /\ faults' \in 0 .. MaxFaults
  <2>1. ASSUME Fault PROVE faults' \in 0 .. MaxFaults
    BY <1>1, <2>1, PipelineAssumption DEF Fault, ProxyInv
  <2>2. CASE Producer
    BY <1>1, <2>1, <2>2, WritesStep DEF Producer, ProxyInv
  <2>3. ASSUME NEW i \in 1 .. Len(outq), GivenUp(i)
        PROVE  /\ ProducerInv' /\ UNCHANGED <<format, log>>
               /\ UNCHANGED <<feed, proxyVars>> /\ faults' \in 0 .. MaxFaults
    <3>1. Leaves(i) /\ UNCHANGED log /\ UNCHANGED <<feed, proxyVars>> /\ Fault
      BY <2>3 DEF GivenUp, Lose
    <3>2. UNCHANGED format
      BY <3>1 DEF Leaves, callVars
    <3> QED
      BY <1>1, <2>1, <3>1, <3>2, LeavesStep
  <2> QED
    BY <2>2, <2>3
<1>3. FeedInv'
  <2>1. Sound' = Sound
    BY <1>2 DEF Sound, KeyOf
  <2> QED
    BY <1>1, <1>2, <2>1 DEF FeedInv, TimePartitioner
<1>4. /\ UNCHANGED <<proxy, position, committed, current, pending, unflushed,
                     store, stops, gap>>
      /\ Seen' = Seen
  BY <1>2, ProxyStays
<1>5. ProxyInv'
  BY <1>1, <1>2, <1>4 DEF ProxyInv
<1>6. ReadInv'
  BY <1>2, <1>4 DEF ReadInv, InView, InStore, SentInv
<1> QED
  BY <1>2, <1>3, <1>5, <1>6 DEF PipeInv

(* A message gets into its partition.                                      *)
LEMMA ArrivesStep ==
  ASSUME PipeInv, ReadInv, NEW i \in 1 .. Len(outq),
         Arrives(i) \/ ArrivesUnacknowledged(i)
  PROVE  PipeInv' /\ ReadInv'
<1>1. FeedInv /\ ProxyInv /\ ProducerInv
  BY DEF PipeInv
<1>2. Grows /\ ProducerInv'
  BY <1>1, ArrivesGrows
<1>3. FeedInv' /\ Longer(feed, feed')
  BY <1>1, <1>2, GrowsStep DEF Longer
<1>4. UNCHANGED proxyVars /\ faults' \in 0 .. MaxFaults
  BY <1>1, PipelineAssumption DEF Arrives, ArrivesUnacknowledged, Fault, ProxyInv
<1>5. /\ UNCHANGED <<proxy, position, committed, current, pending, unflushed,
                     store, stops, gap>>
      /\ Seen' = Seen
  BY <1>4, ProxyStays
<1>6. position \in Offsets /\ \A p \in Partitions : position[p] <= Len(feed[p])
  BY <1>1 DEF ProxyInv
<1>7. ProxyInv'
  <2>1. ASSUME NEW p \in Partitions
        PROVE  committed[p] <= position[p] /\ position[p] <= Len(feed'[p])
    <3>1. /\ committed[p] <= position[p] /\ position[p] <= Len(feed[p])
          /\ position[p] \in Nat
      BY <1>1 DEF ProxyInv, Offsets
    <3>2. /\ Len(feed[p]) \in Nat /\ Len(feed'[p]) \in Nat
          /\ Len(feed[p]) <= Len(feed'[p])
      BY <1>3 DEF Longer
    <3> QED
      BY <3>1, <3>2
  <2> QED
    BY <1>1, <1>4, <1>5, <2>1 DEF ProxyInv
<1>8. proxy # "stopped" => Kept(feed', position, gap, Seen)
  BY <1>3, <1>6, KeptMore DEF ReadInv, InView
<1>9. Kept(feed', position, gap \cup unflushed, store)
  BY <1>3, <1>6, KeptMore DEF ReadInv, InStore
<1>10. AllSent(feed', Seen) /\ AllSent(feed', store)
  BY <1>3, SentMore DEF ReadInv, SentInv
<1>11. ReadInv'
  BY <1>5, <1>8, <1>9, <1>10 DEF ReadInv, InView, InStore, SentInv
<1> QED
  BY <1>2, <1>3, <1>7, <1>11 DEF PipeInv

-----------------------------------------------------------------------------
(* The theorems                                                            *)

LEMMA InvInit ==
  ASSUME PipeInit
  PROVE  PipeInv /\ ReadInv
<1> USE DEF PipeInit, Init
<1>0. /\ << >> \in Seq(Keys) /\ << >> \in Seq(Point) /\ << >> \in Seq(Sound)
      /\ Len(<< >>) = 0 /\ MaxCalls \in Nat /\ 0 \in Versions
      /\ MaxFaults \in Nat /\ MaxStops \in Nat
  BY TopicAssumption, PipelineAssumption DEF Versions
<1>1. ProducerInv
  BY <1>0 DEF ProducerInv
<1>2. FeedInv
  BY <1>0 DEF FeedInv
<1>3. ProxyInv
  <2>1. position \in Offsets /\ committed \in Offsets
    BY DEF Offsets
  <2>2. \A p \in Partitions :
          committed[p] <= position[p] /\ position[p] <= Len(feed[p])
    BY <1>0
  <2>3. pending \in [Keys -> Versions] /\ store \in [Slots -> Versions]
    BY <1>0 DEF Nothing
  <2> QED
    BY <1>0, <2>1, <2>2, <2>3 DEF ProxyInv
<1>4. Seen = store
  BY <1>3, OnlyStore DEF ProxyInv
<1>5. \A X : Kept(feed, position, X, store)
  <2>1. \A p \in Partitions : 1 .. position[p] = {}
    OBVIOUS
  <2> QED
    BY <2>1 DEF Kept
<1>6. AllSent(feed, store)
  BY DEF AllSent
<1> QED
  BY <1>1, <1>2, <1>3, <1>4, <1>5, <1>6
  DEF PipeInv, ReadInv, InView, InStore, SentInv

LEMMA InvStep ==
  ASSUME PipeInv, ReadInv, [PipeNext]_pipeVars
  PROVE  PipeInv' /\ ReadInv'
<1>1. CASE UNCHANGED pipeVars
  <2>1. UNCHANGED <<vars, feed, faults, proxyVars>>
    BY <1>1 DEF pipeVars
  <2>2. ProducerInv' /\ FeedInv'
    BY <2>1, TopicStays DEF PipeInv
  <2>3. /\ UNCHANGED <<proxy, position, committed, current, pending, unflushed,
                       store, stops, gap>>
        /\ Seen' = Seen
    BY <2>1, ProxyStays
  <2>4. ProxyInv'
    BY <2>1, <2>3 DEF PipeInv, ProxyInv
  <2>5. ReadInv'
    BY <2>1, <2>3 DEF ReadInv, InView, InStore, SentInv
  <2> QED
    BY <2>2, <2>4, <2>5 DEF PipeInv
<1>2. CASE Producer \/ \E i \in 1 .. Len(outq) : GivenUp(i)
  BY <1>2, ProducerStep
<1>3. CASE \E i \in 1 .. Len(outq) : Arrives(i) \/ ArrivesUnacknowledged(i)
  BY <1>3, ArrivesStep
<1>4. CASE \E p \in Partitions : Consume(p)
  BY <1>4, ConsumeStep
<1>5. CASE \E p \in Partitions : ConsumeFails(p)
  BY <1>5, ConsumeFailsStep
<1>6. CASE ForceFlush \/ Cleanup
  BY <1>6, FlushStep
<1>7. CASE ForceFlushFails
  BY <1>7, ForceFlushFailsStep
<1>8. CASE CleanupFails
  BY <1>8, CleanupFailsStep
<1>9. CASE Crash
  BY <1>9, CrashStep
<1>10. CASE Shutdown
  BY <1>10, ShutdownStep
<1>11. CASE Restart
  BY <1>11, RestartStep
<1> QED
  BY <1>1, <1>2, <1>3, <1>4, <1>5, <1>6, <1>7, <1>8, <1>9, <1>10, <1>11
  DEF PipeNext, Proxy

(* The inductive invariant.                                                *)
THEOREM Invariance == PipeSpec => [](PipeInv /\ ReadInv)
<1>1. PipeInit => PipeInv /\ ReadInv
  BY InvInit
<1>2. (PipeInv /\ ReadInv) /\ [PipeNext]_pipeVars => (PipeInv /\ ReadInv)'
  BY InvStep
<1> QED
  BY <1>1, <1>2, PTL DEF PipeSpec

(* The proxy never reads beyond the end of a partition, and commits no     *)
(* more than it was given.                                                 *)
THEOREM TypeCorrect == PipeSpec => []PipeTypeOK
<1>1. ASSUME PipeInv
      PROVE  PipeTypeOK
  <2>1. \A p \in Partitions : feed[p] \in Seq(log[p])
    <3>1. TAKE p \in Partitions
    <3>2. feed[p] \in Seq(Sound) /\ \A o \in 1 .. Len(feed[p]) : feed[p][o] \in log[p]
      BY <1>1 DEF PipeInv, FeedInv
    <3>3. /\ Len(feed[p]) \in Nat /\ feed[p] \in [1 .. Len(feed[p]) -> Sound]
      BY <3>2, LenProperties
    <3>4. feed[p] \in [1 .. Len(feed[p]) -> log[p]]
      BY <3>2, <3>3
    <3> QED
      BY <3>3, <3>4, SeqDef
  <2> QED
    BY <1>1, <2>1 DEF PipeInv, ProxyInv, PipeTypeOK
<1> QED
  BY <1>1, Invariance, PTL

(* Whatever the proxy reads twice or drops in a crash or a failed flush,   *)
(* and although the time of a flush is not in the points it writes: every  *)
(* point of the database was sent, for its key and with its time.          *)
THEOREM StoresSent == PipeSpec => []OnlySent
<1>1. ReadInv => OnlySent
  BY InValues DEF ReadInv, SentInv, AllSent, OnlySent
<1> QED
  BY <1>1, Invariance, PTL

(* What was read and not given up is in the package or in the database, at *)
(* least as new as it was read, with any number of copies, partitions,     *)
(* failed flushes, crashes and restarts.                                   *)
THEOREM ForgetsNothing == PipeSpec => []NothingForgotten
<1>1. ASSUME PipeInv, ReadInv, NEW p \in Partitions, NEW s \in Slots,
             With(p, s, Reached(p)) # {},
             <<p, Newest(With(p, s, Reached(p)))>> \notin Missed
      PROVE  View(s) \in ValuesIn(p, s, Newest(With(p, s, Reached(p))) .. Len(feed[p]))
  <2> DEFINE O == With(p, s, Reached(p))
  <2>1. /\ Reached(p) \in Nat /\ position[p] \in Nat /\ Reached(p) <= position[p]
    BY <1>1 DEF PipeInv, ProxyInv, Offsets, Reached
  <2>2. O \in SUBSET (0 .. Reached(p))
    BY <2>1 DEF With
  <2>3. Newest(O) \in O
    <3>1. \E o \in O : \A q \in O : q <= o
      BY <1>1, <2>1, <2>2, Largest
    <3> QED
      BY <3>1 DEF Newest
  <2>4. Newest(O) \in 1 .. position[p] /\ Has(feed, p, Newest(O), s)
    <3>1. /\ Newest(O) \in 1 .. Reached(p)
          /\ \E pt \in PointsIn(feed[p][Newest(O)].points) :
               pt.time = s[1] /\ pt.key = s[2]
      BY <2>3 DEF With
    <3>2. Newest(O) \in 1 .. position[p]
      BY <2>1, <3>1
    <3> QED
      BY <3>1, <3>2 DEF Has, Of
  <2>5. Covers(feed, p, Newest(O), s, Seen[s])
    <3>1. CASE proxy = "stopped"
      <4>1. Seen = store
        BY <1>1, <3>1, OnlyStore DEF PipeInv, ProxyInv
      <4>2. <<p, Newest(O)>> \notin gap \cup unflushed
        BY <1>1, <3>1 DEF Missed
      <4>3. Covers(feed, p, Newest(O), s, store[s])
        BY <1>1, <2>4, <4>2 DEF ReadInv, InStore, Kept
      <4> QED
        BY <4>1, <4>3
    <3>2. CASE proxy # "stopped"
      BY <1>1, <2>4, <3>2 DEF ReadInv, InView, Kept, Missed
    <3> QED
      BY <3>1, <3>2
  <2>6. Seen[s] = View(s)
    BY DEF Seen
  <2> QED
    BY <2>5, <2>6, InValues
<1>2. PipeInv /\ ReadInv => NothingForgotten
  BY <1>1 DEF NothingForgotten
<1> QED
  BY <1>2, Invariance, PTL

=============================================================================
