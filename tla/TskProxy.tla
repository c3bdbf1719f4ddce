------------------------------ MODULE TskProxy ------------------------------
(***************************************************************************)
(* tsk-proxy: reads batches of points from Kafka into a key package and    *)
(* flushes the package to the data backend when the timestamp changes and  *)
(* after every burst of messages.  A second key package counts what was    *)
(* done and is flushed to the statistics backend once an interval.  The    *)
(* program is one thread (`pc' follows run()), plus a signal handler for   *)
(* SIGINT, the clock and the broker.                                       *)
(***************************************************************************)
EXTENDS KpTable, FiniteSetsExt

CONSTANTS
  Times,          \* timestamps of messages
  Wanted,         \* keys that pass the filters (all, if there are none)
  Messages,       \* the messages that handle_message does not reject early
  NoValue,        \* "no point stored"
  DataBackends,   \* ids that timeseries-backend may name
  Resolvers,      \* backends that keep state per key (DBATS)
  Transactional,  \* backends whose failed flush leaves nothing behind (DBATS)
  EofLimit,       \* PARTITION_EOF events that end a burst (10 in the code)
  IntMax,         \* the largest int
  Endless,        \* results of a poll that the broker never runs out of
  MaxPolls,       \* bound: the other messages and errors that it hands out
  MaxNow          \* bound: the clock, in units of stats_interval

FORCE_FLUSH == 0
SigintLimit == 3
StatKeys == {"messages_cnt", "messages_bytes", "flush_cnt", "flushed_key_cnt"}
StatsBackend == 1

KeyLenSize == 2
ValueSize == 8

(* The pairs that are whole, and the bytes behind the last of them.        *)
Pairs == Keys \X Values
Message == [time : Times, kvs : Seq(Pairs), tail : Nat]

ASSUME TskProxyAssumption ==
  /\ Times \subseteq Nat
  /\ Wanted \subseteq Keys
  /\ Messages \subseteq Message
  /\ NoValue \notin Values
  /\ DataBackends \subseteq Backends
  /\ Endless \subseteq {"error", "rejected", "message"}
  /\ {EofLimit, IntMax} \subseteq Nat \ {0} /\ MaxPolls \in Nat /\ MaxNow \in Nat

VARIABLES
  backend,         \* timeseries-backend of the configuration
  pc,              \* the next statement of run()
  rc,              \* what run() will return
  kp,              \* the key package for the data (flag DISABLE)
  current_time,    \* static variable of maybe_flush; 0: nothing pending
  ev,              \* what the last poll returned
  msg,             \* the message in hand, `kvs' being what is left of it
  eof_since_data,
  shutdown_proxy,  \* SIGINTs caught
  stats_kp,        \* the key package for the statistics (flag RESET)
  stats_time,      \* the interval the statistics are kept for
  now,             \* STATS_INTERVAL_NOW
  polls,           \* messages and errors handed out, but for the endless ones
  store,           \* what the data backend holds
  statStore,       \* what the statistics backend holds
  latest,          \* history: last value parsed for each time and key
  total            \* history: all that inc_stat was called with (Counted)

dataVars == <<kp, current_time, store, latest>>
statVars == <<stats_kp, stats_time, statStore, total>>
pollVars == <<ev, msg, eof_since_data, polls>>
outsideFlush == <<backend, rc, pollVars, shutdown_proxy, stats_time, now,
                  statStore, latest>>
vars == <<backend, pc, rc, kp, current_time, ev, msg, eof_since_data,
          shutdown_proxy, stats_kp, stats_time, now, polls, store, statStore,
          latest, total>>

S == INSTANCE KpTable WITH Keys <- StatKeys, Values <- Nat

Slots == Times \X Keys
NoMessage == [time |-> 0, kvs |-> << >>, tail |-> 0]
Exits == {"done", "killed", "aborted"}
Running == pc \notin Exits

Init ==
  /\ backend \in DataBackends
  /\ pc = "force" /\ rc = -1
  /\ kp = EmptyTable /\ current_time = 0
  /\ ev = "none" /\ msg = NoMessage /\ eof_since_data = 0 /\ polls = 0
  /\ shutdown_proxy = 0
  /\ now = 0
  /\ stats_kp = S!EmptyTable /\ stats_time = now
  /\ store = [s \in Slots |-> NoValue]
  /\ statStore = [t \in 0 .. MaxNow |-> [k \in StatKeys |-> 0]]
  /\ latest = [s \in Slots |-> NoValue]
  /\ total = [k \in StatKeys |-> 0]

-----------------------------------------------------------------------------
(* Statistics                                                              *)

(* A 64 bit value kept in an int and put back into 64 bits: the sign is    *)
(* extended.                                                               *)
Bits32 == 2 * (IntMax + 1)
ThroughInt(v) ==
  IF v <= IntMax THEN v
  ELSE IF v % Bits32 <= IntMax THEN v % Bits32
  ELSE Bits32 * Bits32 - Bits32 + (v % Bits32)

IncStat(skp, k, v) ==
  LET with == IF S!GetKey(skp, k) = NoId THEN S!AddKey(skp, k) ELSE skp
      i == S!GetKey(with, k)
  IN S!SetValue(with, i, ThroughInt(with.infos[i].value + v))

(* A sum as the history keeps it: exact as long as it fits into an int,    *)
(* from there on modulo 2^32 only, which makes it finite.                  *)
Counted(n) == IF n <= IntMax THEN n ELSE Bits32 + (n % Bits32)

(* Two calls of inc_stat in a row.                                         *)
Count(k1, v1, k2, v2) ==
  /\ stats_kp' = IncStat(IncStat(stats_kp, k1, v1), k2, v2)
  /\ total' = [[total EXCEPT ![k1] = Counted(@ + v1)]
                 EXCEPT ![k2] = Counted(@ + v2)]

(* The first n statistics reach the backend.                               *)
StatsWritten(n) ==
  [statStore EXCEPT ![stats_time] = [k \in StatKeys |->
     IF S!Writers(stats_kp, k, n) # {} THEN S!WrittenValue(stats_kp, k, n)
     ELSE @[k]]]

(* Mutant: the next interval starts although the flush has failed.         *)
MaybeFlushStats_Forgets ==
  \/ now < stats_time + 1 /\ UNCHANGED <<stats_kp, stats_time, statStore>>
  \/ /\ now >= stats_time + 1
     /\ statStore' = StatsWritten(Len(stats_kp.infos))
     /\ stats_kp' = S!FlushDone(stats_kp, StatsBackend, FALSE, {"RESET"})
     /\ stats_time' = now
  \/ /\ now >= stats_time + 1
     /\ \E n \in 0 .. Len(stats_kp.infos) : statStore' = StatsWritten(n)
     /\ stats_kp' = S!WriteFailed(stats_kp, StatsBackend, FALSE)
     /\ stats_time' = now

(* maybe_flush_stats; a failed flush is only logged.                       *)
MaybeFlushStats ==
  \/ now < stats_time + 1 /\ UNCHANGED <<stats_kp, stats_time, statStore>>
  \/ /\ now >= stats_time + 1
     /\ statStore' = StatsWritten(Len(stats_kp.infos))
     /\ stats_kp' = S!FlushDone(stats_kp, StatsBackend, FALSE, {"RESET"})
     /\ stats_time' = now
  \/ /\ now >= stats_time + 1
     /\ \E n \in 0 .. Len(stats_kp.infos) : statStore' = StatsWritten(n)
     /\ stats_kp' = S!WriteFailed(stats_kp, StatsBackend, FALSE)
     /\ UNCHANGED stats_time

-----------------------------------------------------------------------------
(* maybe_flush                                                             *)

LooksUp == backend \in Resolvers

Due(t) ==
  /\ current_time # 0
  /\ t = FORCE_FLUSH \/ t # current_time
  /\ kp.enabledCnt > 0

(* The points of the first n infos reach the data backend.                 *)
Written(n) ==
  [s \in Slots |-> IF s[1] = current_time /\ Writers(kp, s[2], n) # {}
                   THEN WrittenValue(kp, s[2], n) ELSE store[s]]

CountFlush == Count("flush_cnt", 1, "flushed_key_cnt", kp.enabledCnt)

(* Mutant: the points are written under the time of the new message.       *)
MaybeFlush_NewTime(t, next) ==
  \/ /\ ~Due(t)
     /\ pc' = next
     /\ current_time' = t
     /\ UNCHANGED <<kp, store, stats_kp, total>>
  \/ /\ Due(t)
     /\ CountFlush
     /\ kp' = FlushDone(kp, backend, LooksUp, {"DISABLE"})
     /\ store' = [s \in Slots |->
                    IF s[1] = t /\ Writers(kp, s[2], Len(kp.infos)) # {}
                    THEN WrittenValue(kp, s[2], Len(kp.infos)) ELSE store[s]]
     /\ pc' = IF kp'.enabledCnt = 0 THEN next ELSE "aborted"
     /\ current_time' = t

(* maybe_flush returns 0; the assertion behind the flush may abort.        *)
MaybeFlush(t, next) ==
  \/ /\ ~Due(t)
     /\ pc' = next
     /\ current_time' = t
     /\ UNCHANGED <<kp, store, stats_kp, total>>
  \/ /\ Due(t)
     /\ CountFlush
     /\ kp' = FlushDone(kp, backend, LooksUp, {"DISABLE"})
     /\ store' = Written(Len(kp.infos))
     /\ pc' = IF kp'.enabledCnt = 0 THEN next ELSE "aborted"
     /\ current_time' = t

(* maybe_flush returns -1: the lookup of a key or the write has failed.    *)
MaybeFlushFails(t) ==
  /\ Due(t)
  /\ CountFlush
  /\ UNCHANGED current_time
  /\ \/ /\ LooksUp /\ kp.dirty
        /\ \E i \in Unresolved(kp, backend) :
             kp' = LookupFailed(kp, backend, i)
        /\ UNCHANGED store
     \/ /\ kp' = WriteFailed(kp, backend, LooksUp)
        /\ \E n \in 0 .. Len(kp.infos) :
             /\ backend \in Transactional => n = 0
             /\ store' = Written(n)

-----------------------------------------------------------------------------
(* run(): the outer loop                                                   *)

ForceFlush ==
  /\ pc = "force"
  /\ MaybeFlush(FORCE_FLUSH, "stats")
  /\ UNCHANGED outsideFlush

ForceFlushFails ==
  /\ pc = "force"
  /\ MaybeFlushFails(FORCE_FLUSH)
  /\ pc' = "cleanup"
  /\ UNCHANGED outsideFlush

OuterStats ==
  /\ pc = "stats"
  /\ MaybeFlushStats
  /\ pc' = "check"
  /\ UNCHANGED <<backend, rc, pollVars, dataVars, shutdown_proxy, now, total>>

(* Mutant: only a first SIGINT counts.                                     *)
CheckShutdown_Once ==
  /\ pc = "check"
  /\ IF shutdown_proxy = 1 THEN rc' = 0 /\ pc' = "cleanup"
     ELSE UNCHANGED rc /\ pc' = "poll"
  /\ UNCHANGED <<backend, pollVars, dataVars, statVars, shutdown_proxy, now>>

CheckShutdown ==
  /\ pc = "check"
  /\ IF shutdown_proxy > 0 THEN rc' = 0 /\ pc' = "cleanup"
     ELSE UNCHANGED rc /\ pc' = "poll"
  /\ UNCHANGED <<backend, pollVars, dataVars, statVars, shutdown_proxy, now>>

(* What rd_kafka_consumer_poll may return; NULL is "none".                 *)
PollReturns ==
  \/ ev' \in {"none", "eof"} /\ msg' = NoMessage /\ UNCHANGED polls
  \/ /\ \/ ev' \in {"error", "rejected"} /\ msg' = NoMessage
        \/ ev' = "message" /\ msg' \in Messages
     /\ \/ ev' \in Endless /\ UNCHANGED polls
        \/ ev' \notin Endless /\ polls < MaxPolls /\ polls' = polls + 1

FirstPoll ==
  /\ pc = "poll"
  /\ PollReturns
  /\ eof_since_data' = 0
  /\ pc' = IF ev' = "none" THEN "force" ELSE "burst"
  /\ UNCHANGED <<backend, rc, dataVars, statVars, shutdown_proxy, now>>

-----------------------------------------------------------------------------
(* run(): the burst of messages                                            *)

(* handle_message, up to and with its call of maybe_flush.                 *)
HandleMessage ==
  /\ pc = "burst" /\ ev = "message"
  /\ MaybeFlush(msg.time, "count")
  /\ UNCHANGED outsideFlush

HandleMessageFails ==
  /\ pc = "burst" /\ ev = "message"
  /\ MaybeFlushFails(msg.time)
  /\ pc' = "cleanup"
  /\ UNCHANGED outsideFlush

(* The length of the message stands for its bytes.                         *)
CountMessage ==
  /\ pc = "count"
  /\ Count("messages_cnt", 1, "messages_bytes", Len(msg.kvs) + 1)
  /\ pc' = "parse"
  /\ UNCHANGED <<backend, rc, pollVars, dataVars, stats_time, statStore,
                 shutdown_proxy, now>>

(* Mutant: a key that is known is not switched on again.                   *)
Put_NotEnabled(k, v) ==
  LET with == IF GetKey(kp, k) = NoId THEN AddKey(kp, k) ELSE kp
  IN SetValue(with, GetKey(with, k), v)

Put(k, v) ==
  LET with == IF GetKey(kp, k) = NoId THEN AddKey(kp, k)
              ELSE EnableKey(kp, GetKey(kp, k))
  IN SetValue(with, GetKey(with, k), v)

ParseKeyValue ==
  /\ pc = "parse" /\ msg.kvs # << >>
  /\ LET k == Head(msg.kvs)[1]
         v == Head(msg.kvs)[2]
     IN IF k \in Wanted
        THEN /\ kp' = Put(k, v)
             /\ latest' = [latest EXCEPT ![<<msg.time, k>>] = v]
        ELSE UNCHANGED <<kp, latest>>
  /\ msg' = [msg EXCEPT !.kvs = Tail(@)]
  /\ UNCHANGED <<backend, pc, rc, current_time, ev, eof_since_data, polls,
                 statVars, store, shutdown_proxy, now>>

ParseEnds ==
  /\ pc = "parse" /\ msg.kvs = << >>
  /\ msg.tail = 0
  /\ eof_since_data' = 0
  /\ pc' = "after"
  /\ UNCHANGED <<backend, rc, ev, msg, polls, dataVars, statVars,
                 shutdown_proxy, now>>

(* The bytes behind the last pair are taken for a length, of a key that    *)
(* would reach beyond them: handle_message gives up.                       *)
ParseGivesUp ==
  /\ pc = "parse" /\ msg.kvs = << >>
  /\ msg.tail >= KeyLenSize
  /\ eof_since_data' = 0
  /\ pc' = "after"
  /\ UNCHANGED <<backend, rc, ev, msg, polls, dataVars, statVars,
                 shutdown_proxy, now>>

(* The value is what is missing: DESERIALIZE_VAL returns 0, which is       *)
(* success, and the loop goes on with what is behind the key.              *)
ParseShortValue ==
  /\ pc = "parse" /\ msg.kvs = << >>
  /\ msg.tail >= KeyLenSize
  /\ \E left \in 0 .. msg.tail - KeyLenSize :
       left < ValueSize /\ msg' = [msg EXCEPT !.tail = left]
  /\ UNCHANGED <<backend, pc, rc, ev, eof_since_data, polls, dataVars,
                 statVars, shutdown_proxy, now>>

(* Not even the length of a key is there: nothing is read, with success.   *)
ParseSpins ==
  /\ pc = "parse" /\ msg.kvs = << >>
  /\ msg.tail \in 1 .. KeyLenSize - 1
  /\ UNCHANGED vars

(* handle_message gives up on the header.                                  *)
RejectMessage ==
  /\ pc = "burst" /\ ev = "rejected"
  /\ eof_since_data' = 0
  /\ pc' = "after"
  /\ UNCHANGED <<backend, rc, ev, msg, polls, dataVars, statVars,
                 shutdown_proxy, now>>

(* Mutant: the limit is tested with > for >=.                              *)
PartitionEof_Late ==
  /\ pc = "burst" /\ ev = "eof"
  /\ eof_since_data' = eof_since_data + 1
  /\ pc' = IF shutdown_proxy > 0 \/ eof_since_data + 1 > EofLimit
           THEN "force" ELSE "after"
  /\ UNCHANGED <<backend, rc, ev, msg, polls, dataVars, statVars,
                 shutdown_proxy, now>>

PartitionEof ==
  /\ pc = "burst" /\ ev = "eof"
  /\ eof_since_data' = IF shutdown_proxy > 0 THEN eof_since_data
                       ELSE eof_since_data + 1
  /\ pc' = IF shutdown_proxy > 0 \/ eof_since_data + 1 >= EofLimit
           THEN "force" ELSE "after"
  /\ UNCHANGED <<backend, rc, ev, msg, polls, dataVars, statVars,
                 shutdown_proxy, now>>

(* Mutant: an error starts the count of partition ends again.              *)
PollError_Resets ==
  /\ pc = "burst" /\ ev = "error"
  /\ eof_since_data' = 0
  /\ pc' = "after"
  /\ UNCHANGED <<backend, rc, ev, msg, polls, dataVars, statVars,
                 shutdown_proxy, now>>

PollError ==
  /\ pc = "burst" /\ ev = "error"
  /\ pc' = "after"
  /\ UNCHANGED <<backend, rc, pollVars, dataVars, statVars, shutdown_proxy,
                 now>>

LeaveBurst ==
  /\ pc = "after"
  /\ shutdown_proxy > 0
  /\ pc' = "force"
  /\ UNCHANGED <<backend, rc, pollVars, dataVars, statVars, shutdown_proxy,
                 now>>

NextPoll ==
  /\ pc = "after"
  /\ shutdown_proxy = 0
  /\ PollReturns
  /\ pc' = "burst_stats"
  /\ UNCHANGED <<backend, rc, eof_since_data, dataVars, statVars,
                 shutdown_proxy, now>>

BurstStats ==
  /\ pc = "burst_stats"
  /\ MaybeFlushStats
  /\ pc' = IF ev = "none" THEN "force" ELSE "burst"
  /\ UNCHANGED <<backend, rc, pollVars, dataVars, shutdown_proxy, now, total>>

-----------------------------------------------------------------------------
(* The cleanup ignores a failed flush; then run() returns.                 *)

Cleanup ==
  /\ pc = "cleanup"
  /\ MaybeFlush(FORCE_FLUSH, "done")
  /\ UNCHANGED outsideFlush

CleanupFails ==
  /\ pc = "cleanup"
  /\ MaybeFlushFails(FORCE_FLUSH)
  /\ pc' = "done"
  /\ UNCHANGED outsideFlush

-----------------------------------------------------------------------------
(* The environment                                                         *)

(* catch_sigint                                                            *)
Sigint ==
  /\ Running
  /\ shutdown_proxy' = shutdown_proxy + 1
  /\ pc' = IF shutdown_proxy' >= SigintLimit THEN "killed" ELSE pc
  /\ UNCHANGED <<backend, rc, pollVars, dataVars, statVars, now>>

Tick ==
  /\ Running
  /\ now < MaxNow
  /\ now' = now + 1
  /\ UNCHANGED <<backend, pc, rc, pollVars, dataVars, statVars, shutdown_proxy>>

-----------------------------------------------------------------------------
Main ==
  \/ ForceFlush \/ ForceFlushFails \/ OuterStats \/ CheckShutdown \/ FirstPoll
  \/ HandleMessage \/ HandleMessageFails \/ CountMessage \/ ParseKeyValue
  \/ ParseEnds \/ ParseGivesUp \/ ParseShortValue \/ ParseSpins
  \/ RejectMessage \/ PartitionEof \/ PollError \/ LeaveBurst \/ NextPoll
  \/ BurstStats \/ Cleanup \/ CleanupFails

Next == Main \/ Sigint \/ Tick

Spec == Init /\ [][Next]_vars

(* The operating system keeps running the thread.                          *)
FairSpec == Spec /\ WF_vars(Main)

-----------------------------------------------------------------------------
(* Properties                                                              *)

TypeOK ==
  /\ backend \in DataBackends
  /\ pc \in {"force", "stats", "check", "poll", "burst", "count", "parse",
             "after", "burst_stats", "cleanup"} \cup Exits
  /\ rc \in {-1, 0}
  /\ kp \in Table
  /\ current_time \in Times \cup {0}
  /\ ev \in {"none", "eof", "error", "rejected", "message"}
  /\ msg \in Message \cup {NoMessage}
  /\ eof_since_data \in 0 .. EofLimit
  /\ shutdown_proxy \in 0 .. SigintLimit
  /\ stats_kp \in S!Table
  /\ {stats_time, now} \subseteq 0 .. MaxNow
  /\ polls \in 0 .. MaxPolls
  /\ store \in [Slots -> Values \cup {NoValue}]
  /\ statStore \in [0 .. MaxNow -> [StatKeys -> Nat]]
  /\ latest \in [Slots -> Values \cup {NoValue}]
  /\ total \in [StatKeys -> Nat]

(* The value of slot s waits in the key package for the next flush.        *)
Held(s) ==
  /\ s[1] = current_time
  /\ GetKey(kp, s[2]) \in EnabledIds(kp)
  /\ kp.infos[GetKey(kp, s[2])].value = latest[s]

(* While the proxy runs, the last value parsed for a time and a key is in  *)
(* the database or waits, switched on, in the package that will be flushed *)
(* with this very time, through failed and repeated flushes, changes of    *)
(* the time back and forth and bursts that end in the middle of a time.    *)
LatestKept ==
  Running => \A s \in Slots :
    latest[s] = NoValue \/ store[s] = latest[s] \/ Held(s)

(* The database has a point only where one was parsed: a key that was not  *)
(* seen again is not written under a later time with its old value, which  *)
(* is what TIMESERIES_KP_DISABLE is there for.                             *)
OnlyReceived ==
  \A s \in Slots : store[s] # NoValue => latest[s] # NoValue

(* When run() returns 0, everything parsed is in the database.             *)
CleanExitStored == pc = "done" /\ rc = 0 => store = latest

(* assert(timeseries_kp_enabled_size(kp) == 0) after the flush.            *)
FlushAssertion == pc # "aborted"

(* No count is lost or reported twice: the intervals that are closed and   *)
(* the package add up to all that inc_stat was given, although a failed    *)
(* flush of the statistics is only logged and tried again.  inc_stat adds  *)
(* in an int, so this holds as long as the sum fits into one.              *)
StatsConserved ==
  \A k \in StatKeys :
    LET closed(t) == statStore[t][k]
        i == S!GetKey(stats_kp, k)
        open == IF i = NoId THEN 0 ELSE stats_kp.infos[i].value
    IN total[k] <= IntMax =>
         total[k] = MapThenSumSet(closed, 0 .. stats_time - 1) + open

(* What the broker must do for a burst to end or to be flushed on its way, *)
(* as run() has no other limit than the count of partition ends: again and *)
(* again there is nothing to hand out, or a message of another time, or,   *)
(* when no message is left, the end of a partition.  Errors may come       *)
(* between all of them.                                                    *)
BurstsEnd ==
  \/ []<>(ev = "none")
  \/ []<>(ev = "message" /\ msg.time # current_time)
  \/ []<>(ev = "eof") /\ <>[](ev \notin {"message", "rejected"})

(* As long as bursts end, what was parsed gets stored, or the proxy exits, *)
(* however many errors and messages there are: an error between two ends   *)
(* of a partition does not start their count again.  Without BurstsEnd it  *)
(* is not so: an endless run of errors, or of messages of one time, holds  *)
(* the points back for as long as it lasts.                                *)
EventuallyStored ==
  BurstsEnd =>
    \A s \in Slots : latest[s] # store[s] ~> latest[s] = store[s] \/ ~Running

(* A first SIGINT is enough to stop the proxy.                             *)
SigintStops == shutdown_proxy > 0 ~> ~Running

(* "this is an error, but not a fatal one": a message that breaks off does *)
(* not stop the proxy from going on to the next.                           *)
MalformedNotFatal == pc = "parse" ~> pc # "parse"

=============================================================================
