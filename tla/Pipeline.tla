------------------------------ MODULE Pipeline ------------------------------
(***************************************************************************)
(* From a program that writes with the Kafka backend to the database that  *)
(* tsk-proxy fills: the backend as Topic describes it (and KafkaBackend    *)
(* implements it), the partitions of the topic in the order of the broker, *)
(* and a proxy that may stop, crash and come back.  The value of a point   *)
(* is the number of the call it was given to.  Of the proxy only what      *)
(* decides the fate of a point is kept (TskProxy has the rest): what it    *)
(* has read, what it holds, what it has stored.  Without a committed       *)
(* offset it starts at the earliest message.                               *)
(***************************************************************************)
EXTENDS Topic, FiniteSets

CONSTANTS
  MaxStops,  \* bound: the times the proxy comes back
  MaxFaults  \* bound: failed calls, copies, losses, failed flushes, crashes

ASSUME PipelineAssumption ==
  {MaxStops, MaxFaults} \subseteq Nat /\ 0 \notin Times

VARIABLES
  feed,       \* the messages of each partition, in the broker's order
  faults,     \* failed calls, copies, losses, failed flushes, crashes so far
  proxy,      \* what the proxy is doing
  position,   \* messages of each partition that it was given
  committed,  \* messages of each partition that it will not be given again
  current,    \* current_time; 0: nothing pending
  pending,    \* value of each key that is switched on in the package; 0: none
  unflushed,  \* history: the messages that `pending' was read from
  store,      \* the database; 0: no point
  stops,      \* times the proxy has come back
  gap         \* history: messages that were given up

dataVars == <<current, pending, unflushed, store>>
proxyVars == <<proxy, position, committed, dataVars, stops, gap>>
pipeVars == <<vars, feed, faults, proxyVars>>

Slots == Times \X Keys
Versions == 0 .. MaxCalls
Nothing == [k \in Keys |-> 0]
Offsets == [Partitions -> Nat]

PipeInit ==
  /\ Init /\ format # "ascii"
  /\ feed = [p \in Partitions |-> << >>] /\ faults = 0
  /\ proxy = "running"
  /\ position = [p \in Partitions |-> 0] /\ committed = position
  /\ current = 0 /\ pending = Nothing /\ unflushed = {}
  /\ store = [s \in Slots |-> 0]
  /\ stops = 0 /\ gap = {}

Fault == faults < MaxFaults /\ faults' = faults + 1

-----------------------------------------------------------------------------
(* The producer and the broker                                             *)

Producer ==
  /\ \/ Writes /\ UNCHANGED faults
     \/ Fail /\ Fault
  /\ UNCHANGED <<feed, proxyVars>>

Arrives(i) ==
  /\ Deliver(i)
  /\ feed' = [feed EXCEPT ![TimePartitioner(outq[i].key)] = Append(@, outq[i])]
  /\ UNCHANGED <<faults, proxyVars>>

(* The acknowledgement gets lost, and librdkafka will send it again.       *)
ArrivesUnacknowledged(i) ==
  /\ status # "freed"
  /\ Fault
  /\ LET p == TimePartitioner(outq[i].key)
     IN /\ feed' = [feed EXCEPT ![p] = Append(@, outq[i])]
        /\ log' = [log EXCEPT ![p] = @ \cup {outq[i]}]
  /\ UNCHANGED <<callVars, status, outq, okCalls, lost, proxyVars>>

GivenUp(i) == Lose(i) /\ Fault /\ UNCHANGED <<feed, proxyVars>>

-----------------------------------------------------------------------------
(* The proxy's flush                                                       *)

Waiting == {k \in Keys : pending[k] # 0}

Flushed(S) ==
  [s \in Slots |-> IF s[1] = current /\ s[2] \in S THEN pending[s[2]]
                   ELSE store[s]]

(* handle_message for the points of m: the last one of a key stays.        *)
WithPoints(held, m) ==
  [k \in Keys |->
     LET at == {i \in DOMAIN m.points : m.points[i].key = k}
     IN IF at = {} THEN held[k]
        ELSE m.points[CHOOSE i \in at : \A j \in at : j <= i].call]

Due(t) == current # 0 /\ t # current /\ Waiting # {}

InHand(p) == feed[p][position[p] + 1]

Poll(p) ==
  /\ proxy = "running"
  /\ position[p] < Len(feed[p])
  /\ position' = [position EXCEPT ![p] = @ + 1]

(* Mutant: the package is reset behind the points of the message in hand.  *)
Consume_Early(p) ==
  /\ Poll(p)
  /\ LET m == InHand(p)
         flush == Due(m.time)
     IN /\ pending' = IF flush THEN Nothing ELSE WithPoints(pending, m)
        /\ store' = IF flush THEN Flushed(Waiting) ELSE store
        /\ unflushed' = (IF flush THEN {} ELSE unflushed)
                          \cup {<<p, position'[p]>>}
        /\ current' = m.time
  /\ UNCHANGED <<vars, feed, faults, proxy, committed, stops, gap>>

(* Mutant: the points are written under the time of the new message.       *)
Consume_NewTime(p) ==
  /\ Poll(p)
  /\ LET m == InHand(p)
         flush == Due(m.time)
     IN /\ pending' = WithPoints(IF flush THEN Nothing ELSE pending, m)
        /\ store' = IF ~flush THEN store
                    ELSE [s \in Slots |->
                            IF s[1] = m.time /\ s[2] \in Waiting
                            THEN pending[s[2]] ELSE store[s]]
        /\ unflushed' = (IF flush THEN {} ELSE unflushed)
                          \cup {<<p, position'[p]>>}
        /\ current' = m.time
  /\ UNCHANGED <<vars, feed, faults, proxy, committed, stops, gap>>

Consume(p) ==
  /\ Poll(p)
  /\ LET m == InHand(p)
         flush == Due(m.time)
     IN /\ pending' = WithPoints(IF flush THEN Nothing ELSE pending, m)
        /\ store' = IF flush THEN Flushed(Waiting) ELSE store
        /\ unflushed' = (IF flush THEN {} ELSE unflushed)
                          \cup {<<p, position'[p]>>}
        /\ current' = m.time
  /\ UNCHANGED <<vars, feed, faults, proxy, committed, stops, gap>>

(* A failed flush may leave some of the points behind.                     *)
FlushFails ==
  /\ Fault
  /\ \E S \in SUBSET Waiting : store' = Flushed(S)
  /\ proxy' = "cleanup"
  /\ UNCHANGED <<current, pending>>

(* The message in hand is not looked at any more.                          *)
ConsumeFails(p) ==
  /\ Poll(p)
  /\ Due(InHand(p).time)
  /\ FlushFails
  /\ gap' = gap \cup {<<p, position'[p]>>}
  /\ UNCHANGED <<vars, feed, committed, unflushed, stops>>

(* Mutant: a single point is not worth a flush.                            *)
ForceFlush_OffByOne ==
  /\ proxy = "running"
  /\ current # 0 /\ Cardinality(Waiting) # 1
  /\ store' = Flushed(Waiting)
  /\ pending' = Nothing /\ current' = 0 /\ unflushed' = {}
  /\ UNCHANGED <<vars, feed, faults, proxy, position, committed, stops, gap>>

ForceFlush ==
  /\ proxy = "running"
  /\ current # 0
  /\ store' = Flushed(Waiting)
  /\ pending' = Nothing /\ current' = 0 /\ unflushed' = {}
  /\ UNCHANGED <<vars, feed, faults, proxy, position, committed, stops, gap>>

ForceFlushFails ==
  /\ proxy = "running"
  /\ Waiting # {}
  /\ FlushFails
  /\ UNCHANGED <<vars, feed, position, committed, unflushed, stops, gap>>

(* A SIGINT; it is looked at behind a successful flush.                    *)
Shutdown ==
  /\ proxy = "running"
  /\ current = 0
  /\ proxy' = "stopped"
  /\ UNCHANGED <<vars, feed, faults, position, committed, dataVars, stops, gap>>

-----------------------------------------------------------------------------
(* The end of the proxy and its next life                                  *)

Cleanup ==
  /\ proxy = "cleanup"
  /\ store' = Flushed(Waiting)
  /\ pending' = Nothing /\ current' = 0 /\ unflushed' = {}
  /\ proxy' = "stopped"
  /\ UNCHANGED <<vars, feed, faults, position, committed, stops, gap>>

CleanupFails ==
  /\ proxy = "cleanup"
  /\ \E S \in SUBSET Waiting : store' = Flushed(S)
  /\ pending' = Nothing /\ current' = 0
  /\ proxy' = "stopped"
  /\ UNCHANGED <<vars, feed, faults, position, committed, unflushed, stops, gap>>

(* A third SIGINT, or a failed assertion.                                  *)
Crash ==
  /\ Fault
  /\ proxy \in {"running", "cleanup"}
  /\ proxy' = "stopped"
  /\ pending' = Nothing /\ current' = 0
  /\ UNCHANGED <<vars, feed, position, committed, unflushed, store,
                 stops, gap>>

(* Mutant: the offset behind the message in hand is committed.             *)
Resume_OffByOne(offsets) ==
  \A p \in Partitions : offsets[p] \in committed[p] .. position[p] + 1

(* enable.auto.commit and rd_kafka_destroy commit what was given to the    *)
(* proxy, as far as they come.                                             *)
Resume(offsets) ==
  \A p \in Partitions : offsets[p] \in committed[p] .. position[p]

Restart ==
  /\ proxy = "stopped"
  /\ stops < MaxStops
  /\ stops' = stops + 1
  /\ proxy' = "running"
  /\ position' \in [Partitions -> 0 .. MaxCalls * Cardinality(Keys) + MaxFaults]
  /\ Resume(position')
  /\ committed' = position'
  /\ gap' = {g \in gap \cup unflushed : g[2] <= position'[g[1]]}
  /\ unflushed' = {}
  /\ UNCHANGED <<vars, feed, faults, current, pending, store>>

-----------------------------------------------------------------------------
Proxy ==
  \/ \E p \in Partitions : Consume(p)
  \/ ForceFlush

PipeNext ==
  \/ Producer
  \/ \E i \in 1 .. Len(outq) :
       Arrives(i) \/ ArrivesUnacknowledged(i) \/ GivenUp(i)
  \/ Proxy
  \/ \E p \in Partitions : ConsumeFails(p)
  \/ ForceFlushFails \/ Shutdown \/ Cleanup \/ CleanupFails \/ Crash
  \/ Restart

PipeSpec == PipeInit /\ [][PipeNext]_pipeVars

(* The proxy's thread runs on; nobody stops it for ever.                   *)
FairPipeSpec == PipeSpec /\ WF_pipeVars(Proxy)

-----------------------------------------------------------------------------
(* Properties                                                              *)

PipeTypeOK ==
  /\ \A p \in Partitions : feed[p] \in Seq(log[p])
  /\ faults \in 0 .. MaxFaults
  /\ proxy \in {"running", "cleanup", "stopped"}
  /\ {position, committed} \subseteq Offsets
  /\ \A p \in Partitions :
       committed[p] <= position[p] /\ position[p] <= Len(feed[p])
  /\ current \in Times \cup {0}
  /\ pending \in [Keys -> Versions]
  /\ store \in [Slots -> Versions]
  /\ stops \in 0 .. MaxStops
  /\ unflushed \cup gap \subseteq Partitions \X Nat

(* The messages of partition p among the first n with a point of slot s,   *)
(* and the values of that slot in the messages O.                          *)
With(p, s, n) ==
  {o \in 1 .. n : \E pt \in PointsIn(feed[p][o].points) :
                    pt.time = s[1] /\ pt.key = s[2]}
ValuesIn(p, s, O) ==
  {pt.call : pt \in {q \in UNION {PointsIn(feed[p][o].points) : o \in O} :
                       q.time = s[1] /\ q.key = s[2]}}
Newest(O) == CHOOSE o \in O : \A q \in O : q <= o

(* What the database has of slot s, or will have after the next flush.     *)
View(s) ==
  IF s[1] = current /\ pending[s[2]] # 0 THEN pending[s[2]] ELSE store[s]

(* How far the proxy has come, as far as it will remember.                 *)
Reached(p) == IF proxy = "stopped" THEN committed[p] ELSE position[p]
Missed == IF proxy = "stopped" THEN gap \cup unflushed ELSE gap

(* What the proxy has read and does not give up is in the database, or     *)
(* waits in its package, or has been overwritten by something newer:       *)
(* through copies, partitions that overtake each other, failed flushes,    *)
(* crashes and messages that are read a second time.  A clean stop commits *)
(* nothing that is not stored.                                             *)
NothingForgotten ==
  \A p \in Partitions, s \in Slots :
    LET O == With(p, s, Reached(p))
    IN O # {} /\ <<p, Newest(O)>> \notin Missed
         => View(s) \in ValuesIn(p, s, Newest(O) .. Len(feed[p]))

(* Every point of the database was sent, for this key, with this time and  *)
(* this value, although the time is only in the header of its message, is  *)
(* kept in current_time by the proxy and may belong to another flush.      *)
OnlySent ==
  \A s \in Slots :
    store[s] # 0 => \E p \in Partitions :
                      store[s] \in ValuesIn(p, s, 1 .. Len(feed[p]))

(* What the topic has for slot s is what the database has.                 *)
Synced(s) ==
  \A p \in Partitions :
    LET O == With(p, s, Len(feed[p]))
    IN O # {} => store[s] \in ValuesIn(p, s, {Newest(O)})

(* The newest point that the topic has for a slot gets into the database,  *)
(* again and again, as long as the proxy runs and has given up no message: *)
(* the last points of all are not left waiting for a message with another  *)
(* time.                                                                   *)
EventuallySynced ==
  []<>(proxy # "running" \/ gap # {} \/ \A s \in Slots : Synced(s))

=============================================================================
