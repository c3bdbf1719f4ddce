--------------------------- MODULE TskProxy_proofs ---------------------------
(***************************************************************************)
(* Proofs about tsk-proxy, for every set of keys, filters, messages and    *)
(* backends, and every bound: no point that was parsed gets lost while the *)
(* proxy runs or when it ends in good order, nothing gets into the         *)
(* database that was not received, no count of the statistics is lost or   *)
(* written twice, and the assertion behind the flush holds.                *)
(***************************************************************************)
EXTENDS TskProxy, KpTable_proofs

(* What is known of the table holds for the one of the statistics, too.    *)
SP == INSTANCE KpTable_proofs WITH Keys <- StatKeys, Values <- Nat

(* The invariant, one part for each group of variables.                    *)
DataInv ==
  /\ WellFormed(kp)
  /\ current_time \in Times \cup {0}
  /\ store \in [Slots -> Values \cup {NoValue}]
  /\ latest \in [Slots -> Values \cup {NoValue}]

StatInv ==
  /\ S!WellFormed(stats_kp)
  /\ stats_time \in 0 .. MaxNow
  /\ statStore \in [0 .. MaxNow -> [StatKeys -> Nat]]
  /\ total \in [StatKeys -> Nat]

PollInv ==
  /\ ev \in {"none", "eof", "error", "rejected", "message"}
  /\ msg \in Message \cup {NoMessage}
  /\ ev = "message" => msg \in Message
  /\ eof_since_data \in 0 .. EofLimit
  /\ polls \in 0 .. MaxPolls

(* Where run() is, and what it relies on there: no burst goes on with the  *)
(* limit reached, and a message is parsed under its own time.              *)
RunInv ==
  /\ backend \in DataBackends
  /\ pc \in {"force", "stats", "check", "poll", "burst", "count", "parse",
             "after", "burst_stats", "cleanup", "done", "killed"}
  /\ rc \in {-1, 0}
  /\ shutdown_proxy \in 0 .. SigintLimit
  /\ Running => shutdown_proxy < SigintLimit
  /\ now \in 0 .. MaxNow
  /\ pc \in {"burst", "count", "parse", "after", "burst_stats"} =>
       eof_since_data < EofLimit
  /\ pc \in {"count", "parse"} => ev = "message" /\ current_time = msg.time

Inv == DataInv /\ StatInv /\ PollInv /\ RunInv

-----------------------------------------------------------------------------
(* The statistics                                                          *)

(* The two copies of the table's operators are the same.                   *)
LEMMA SameCardinality == \A s : S!Cardinality(s) = SP!Cardinality(s)
  BY DEF S!Cardinality, SP!Cardinality

LEMMA SameBasics ==
  /\ S!NoId = SP!NoId /\ S!KeyInfo = SP!KeyInfo /\ S!Table = SP!Table
  /\ S!EmptyTable = SP!EmptyTable
  /\ S!Backends = SP!Backends /\ S!FlagSet = SP!FlagSet
  /\ \A t : S!Ids(t) = SP!Ids(t) /\ S!EnabledIds(t) = SP!EnabledIds(t)
  BY DEF S!Table, SP!Table, S!KeyInfo, SP!KeyInfo, S!Backends, SP!Backends,
         S!NoId, SP!NoId, S!Ids, SP!Ids, S!EnabledIds, SP!EnabledIds,
         S!EmptyTable, SP!EmptyTable, S!FlagSet, SP!FlagSet

LEMMA SameWellFormed == \A t : S!WellFormed(t) <=> SP!WellFormed(t)
  BY SameCardinality, SameBasics
  DEF S!WellFormed, SP!WellFormed, S!CountExact, SP!CountExact,
      S!LookupSound, SP!LookupSound

LEMMA SameOperations ==
  /\ \A t, k : S!AddKey(t, k) = SP!AddKey(t, k)
  /\ \A t, i, v : S!SetValue(t, i, v) = SP!SetValue(t, i, v)
  /\ \A t, f : S!ResetDisable(t, f) = SP!ResetDisable(t, f)
  /\ \A t, k, n : S!Writers(t, k, n) = SP!Writers(t, k, n)
  /\ \A t, k, n : S!WrittenValue(t, k, n) = SP!WrittenValue(t, k, n)
<1>1. \A t, k : S!AddKey(t, k) = SP!AddKey(t, k)
  BY DEF S!AddKey, SP!AddKey, S!FreshInfo, SP!FreshInfo
<1>2. \A t, i, v : S!SetValue(t, i, v) = SP!SetValue(t, i, v)
  BY DEF S!SetValue, SP!SetValue
<1>3. \A t, f : S!ResetDisable(t, f) = SP!ResetDisable(t, f)
  BY SameBasics, SameCardinality DEF S!ResetDisable, SP!ResetDisable
<1>4. \A t, k, n : S!Writers(t, k, n) = SP!Writers(t, k, n)
  BY SameBasics DEF S!Writers, SP!Writers
<1>5. \A t, k, n : S!WrittenValue(t, k, n) = SP!WrittenValue(t, k, n)
  BY <1>4 DEF S!WrittenValue, SP!WrittenValue
<1> QED
  BY <1>1, <1>2, <1>3, <1>4, <1>5

(* A new package for the statistics.                                       *)
LEMMA StatsStart == S!WellFormed(S!EmptyTable)
<1>1. SP!WellFormed(SP!EmptyTable)
  BY SP!EmptyTableWellFormed, LastIdAssumption
<1> QED
  BY <1>1, SameBasics, SameWellFormed

(* The remainder is what it should be.                                     *)
LEMMA Remainder ==
  ASSUME NEW a \in Nat, NEW b \in Nat \ {0}
  PROVE  a % b \in 0 .. b - 1
OBVIOUS

(* Through an int and back a count stays a natural number.                 *)
LEMMA ThroughIntIsNat ==
  ASSUME NEW v \in Nat
  PROVE  ThroughInt(v) \in Nat
<1>1. IntMax \in Nat \ {0}
  BY TskProxyAssumption
<1> DEFINE B == Bits32
<1>2. B \in Nat \ {0}
  BY <1>1 DEF Bits32
<1> HIDE DEF B
<1>3. v % B \in 0 .. B - 1
  BY <1>2, Remainder
<1>4. B * B - B \in Nat
  <2>1. B - 1 \in Nat
    BY <1>2
  <2>2. B * (B - 1) \in Nat
    BY <1>2, <2>1
  <2>3. B * (B - 1) = B * B - B
    BY <1>2
  <2> QED
    BY <2>2, <2>3
<1>5. B * B - B + (v % B) \in Nat
  BY <1>3, <1>4
<1> QED
  BY <1>2, <1>3, <1>5 DEF ThroughInt, B

(* inc_stat leaves a well formed table.                                    *)
LEMMA IncStatWellFormed ==
  ASSUME NEW t, S!WellFormed(t), NEW k \in StatKeys, NEW v \in Nat
  PROVE  S!WellFormed(IncStat(t, k, v))
<1> DEFINE with == IF S!GetKey(t, k) = NoId THEN S!AddKey(t, k) ELSE t
           i == S!GetKey(with, k)
<1>1. /\ SP!WellFormed(with) /\ with.hash[k] \in SP!Ids(with)
      /\ SP!Ids(with) = 1 .. Len(with.infos)
  <2>1. CASE S!GetKey(t, k) = NoId
    <3>1. with = SP!AddKey(t, k) /\ SP!WellFormed(t)
      BY <2>1, SameOperations, SameWellFormed
    <3>2. SP!WellFormed(with)
      BY <3>1, SP!AddKeyWellFormed, LastIdAssumption
    <3>3. LET n == Len(t.infos) + 1
          IN /\ SP!Ids(with) = SP!Ids(t) \cup {n}
             /\ with.hash = [t.hash EXCEPT ![k] = n]
      BY <3>1, SP!AddKeyEffect, LastIdAssumption
    <3>4. t.hash \in [StatKeys -> Nat]
      BY <3>1 DEF SP!WellFormed, SP!Table
    <3> QED
      BY <3>2, <3>3, <3>4 DEF SP!Ids
  <2>2. CASE S!GetKey(t, k) # NoId
    BY <2>2, SameWellFormed
    DEF SP!WellFormed, SP!LookupSound, S!GetKey, SP!Ids, SP!NoId, NoId
  <2> QED
    BY <2>1, <2>2
<1>2. SP!Ids(with) = S!Ids(with) /\ i = with.hash[k]
  BY SameBasics DEF S!GetKey
<1>3. with.infos[i].value \in Nat
  <2>1. with \in SP!Table
    BY <1>1 DEF SP!WellFormed
  <2>2. with.infos[i] \in SP!KeyInfo
    BY <2>1, <1>1, <1>2, SP!TableIds, LastIdAssumption
  <2> QED
    BY <2>2 DEF SP!KeyInfo
<1> HIDE DEF with, i
<1> DEFINE w == ThroughInt(with.infos[i].value + v)
<1>4. w \in Nat
  BY <1>3, ThroughIntIsNat
<1> HIDE DEF w
<1>5. SP!WellFormed(SP!SetValue(with, i, w))
  BY <1>1, <1>2, <1>4, SP!SetValueWellFormed, LastIdAssumption
<1>6. IncStat(t, k, v) = S!SetValue(with, i, w)
  BY DEF IncStat, with, i, w
<1> QED
  BY <1>5, <1>6, SameOperations, SameWellFormed

(* The history counts exactly as long as the sum fits into an int.         *)
LEMMA CountedExact ==
  ASSUME NEW n \in Nat
  PROVE  /\ Counted(n) \in Nat
         /\ Counted(n) <= IntMax => Counted(n) = n
<1> DEFINE b == Bits32
           m == n % b
<1>1. IntMax \in Nat /\ b \in Nat \ {0} /\ b > IntMax
  BY TskProxyAssumption DEF Bits32
<1> HIDE DEF b
<1>2. m \in Nat
  BY <1>1
<1>3. Counted(n) = IF n <= IntMax THEN n ELSE b + m
  BY DEF Counted, b, m
<1> HIDE DEF m
<1> QED
  BY <1>1, <1>2, <1>3

(* Two calls of inc_stat.                                                  *)
LEMMA CountStep ==
  ASSUME StatInv, NEW k1 \in StatKeys, NEW v1 \in Nat,
         NEW k2 \in StatKeys, NEW v2 \in Nat,
         Count(k1, v1, k2, v2), UNCHANGED <<stats_time, statStore>>
  PROVE  StatInv'
<1>1. S!WellFormed(IncStat(stats_kp, k1, v1))
  BY IncStatWellFormed DEF StatInv
<1>2. S!WellFormed(stats_kp')
  BY <1>1, IncStatWellFormed DEF Count
<1>3. total' \in [StatKeys -> Nat]
  <2>1. total \in [StatKeys -> Nat]
    BY DEF StatInv
  <2> DEFINE f == [total EXCEPT ![k1] = Counted(@ + v1)]
  <2>2. f \in [StatKeys -> Nat]
    BY <2>1, CountedExact
  <2>3. total' = [f EXCEPT ![k2] = Counted(@ + v2)]
    BY DEF Count
  <2> HIDE DEF f
  <2>4. f[k2] + v2 \in Nat
    BY <2>2
  <2> QED
    BY <2>2, <2>3, <2>4, CountedExact
<1> QED
  BY <1>2, <1>3 DEF StatInv

(* What a flush of the statistics writes, as far as it comes.              *)
LEMMA StatsWrittenType ==
  ASSUME StatInv, NEW n \in Nat
  PROVE  StatsWritten(n) \in [0 .. MaxNow -> [StatKeys -> Nat]]
<1> DEFINE f == [k \in StatKeys |->
                   IF S!Writers(stats_kp, k, n) # {}
                   THEN S!WrittenValue(stats_kp, k, n)
                   ELSE statStore[stats_time][k]]
<1>1. stats_kp \in SP!Table
  BY SameWellFormed DEF StatInv, SP!WellFormed
<1>2. ASSUME NEW k \in StatKeys, S!Writers(stats_kp, k, n) # {}
      PROVE  S!WrittenValue(stats_kp, k, n) \in Nat
  BY <1>1, <1>2, SP!WrittenValueSource, LastIdAssumption, SameOperations
<1>3. statStore[stats_time] \in [StatKeys -> Nat]
  BY DEF StatInv
<1>4. f \in [StatKeys -> Nat]
  BY <1>2, <1>3
<1>5. StatsWritten(n) = [statStore EXCEPT ![stats_time] = f]
  BY DEF StatsWritten
<1> HIDE DEF f
<1> QED
  BY <1>4, <1>5 DEF StatInv

(* maybe_flush_stats, whether it flushes, fails or has nothing to do.      *)
LEMMA StatsFlushStep ==
  ASSUME StatInv, now \in 0 .. MaxNow, MaybeFlushStats, UNCHANGED total
  PROVE  StatInv'
<1>1. CASE UNCHANGED <<stats_kp, stats_time, statStore>>
  BY <1>1 DEF StatInv
<1>2. CASE /\ statStore' = StatsWritten(Len(stats_kp.infos))
           /\ stats_kp' = S!FlushDone(stats_kp, StatsBackend, FALSE, {"RESET"})
           /\ stats_time' = now
  <2>1. Len(stats_kp.infos) \in Nat
    BY SameWellFormed, SP!TableIds, LastIdAssumption DEF StatInv, SP!WellFormed
  <2>2. SP!WellFormed([stats_kp EXCEPT !.dirty = FALSE])
    BY SameWellFormed, SP!DirtyWellFormed, LastIdAssumption DEF StatInv
  <2>3. SP!WellFormed(SP!ResetDisable([stats_kp EXCEPT !.dirty = FALSE],
                                      {"RESET"}))
    BY <2>2, SP!ResetDisableWellFormed, LastIdAssumption DEF SP!FlagSet
  <2>4. S!WellFormed(stats_kp')
    BY <1>2, <2>3, SameOperations, SameWellFormed
    DEF S!FlushDone, S!LookedUp
  <2> QED
    BY <1>2, <2>1, <2>4, StatsWrittenType DEF StatInv
<1>3. CASE /\ \E n \in 0 .. Len(stats_kp.infos) : statStore' = StatsWritten(n)
           /\ stats_kp' = S!WriteFailed(stats_kp, StatsBackend, FALSE)
           /\ UNCHANGED stats_time
  <2>1. PICK n \in Nat : statStore' = StatsWritten(n)
    BY <1>3
  <2>2. SP!WellFormed([stats_kp EXCEPT !.dirty = FALSE])
    BY SameWellFormed, SP!DirtyWellFormed, LastIdAssumption DEF StatInv
  <2>3. S!WellFormed(stats_kp')
    BY <1>3, <2>2, SameWellFormed DEF S!WriteFailed, S!LookedUp
  <2> QED
    BY <1>3, <2>1, <2>3, StatsWrittenType DEF StatInv
<1> QED
  BY <1>1, <1>2, <1>3 DEF MaybeFlushStats

-----------------------------------------------------------------------------
(* The flush of the data                                                   *)

LEMMA BackendOk == DataBackends \subseteq Backends /\ LooksUp \in BOOLEAN
  BY TskProxyAssumption DEF LooksUp

(* After a successful flush nothing is switched on any more, which is what *)
(* the assertion in maybe_flush asks for.                                  *)
LEMMA FlushDoneEffect ==
  ASSUME DataInv, backend \in DataBackends
  PROVE  LET kq == FlushDone(kp, backend, LooksUp, {"DISABLE"})
         IN /\ WellFormed(kq)
            /\ EnabledIds(kq) = {} /\ kq.enabledCnt = 0
            /\ kq.hash = kp.hash /\ Ids(kq) = Ids(kp)
            /\ \A i \in Ids(kp) : kq.infos[i].key = kp.infos[i].key
<1> DEFINE kr == LookedUp(kp, backend, LooksUp)
           kq == ResetDisable(kr, {"DISABLE"})
<1>1. WellFormed(kr) /\ SamePoints(kp, kr)
  BY BackendOk, LookedUpSame DEF DataInv
<1> HIDE DEF kr
<1>2. WellFormed(kq)
  BY <1>1, ResetDisableWellFormed DEF FlagSet
<1>3. /\ kq.hash = kr.hash /\ Ids(kq) = Ids(kr) /\ EnabledIds(kq) = {}
      /\ \A i \in Ids(kr) : kq.infos[i].key = kr.infos[i].key
  BY <1>1, ResetDisableEffect DEF FlagSet
<1> HIDE DEF kq
<1>4. kq.enabledCnt = 0
  BY <1>2, <1>3, FS_EmptySet DEF WellFormed, CountExact
<1>5. kq = FlushDone(kp, backend, LooksUp, {"DISABLE"})
  BY DEF FlushDone, kq, kr
<1> QED
  BY <1>1, <1>2, <1>3, <1>4, <1>5 DEF SamePoints

(* After a failed one the package holds what it has held before.           *)
LEMMA FlushFailedEffect ==
  ASSUME DataInv, backend \in DataBackends, NEW t, MaybeFlushFails(t)
  PROVE  WellFormed(kp') /\ SamePoints(kp, kp')
<1>1. CASE kp' = WriteFailed(kp, backend, LooksUp)
  BY <1>1, BackendOk, LookedUpSame DEF DataInv, WriteFailed
<1>2. CASE \E i \in Unresolved(kp, backend) : kp' = LookupFailed(kp, backend, i)
  <2>1. PICK i \in Ids(kp) : kp' = LookupFailed(kp, backend, i)
    BY <1>2 DEF Unresolved, EnabledIds
  <2> QED
    BY <2>1, BackendOk, LookupFailedSame DEF DataInv
<1> QED
  BY <1>1, <1>2 DEF MaybeFlushFails

(* A slot of the database is left alone, or gets the value of an enabled   *)
(* info of its key, under the time that is pending.                        *)
LEMMA WrittenSlot ==
  ASSUME DataInv, NEW n, NEW s \in Slots
  PROVE  \/ /\ Written(n)[s] = store[s]
            /\ s[1] # current_time \/ Writers(kp, s[2], n) = {}
         \/ \E i \in EnabledIds(kp) :
              /\ s = <<current_time, kp.infos[i].key>>
              /\ Written(n)[s] = kp.infos[i].value
              /\ Written(n)[s] \in Values
<1>1. CASE s[1] = current_time /\ Writers(kp, s[2], n) # {}
  <2>1. PICK i \in Writers(kp, s[2], n) :
          /\ WrittenValue(kp, s[2], n) = kp.infos[i].value
          /\ WrittenValue(kp, s[2], n) \in Values
    BY <1>1, WrittenValueSource DEF DataInv, WellFormed
  <2>2. i \in EnabledIds(kp) /\ kp.infos[i].key = s[2]
    BY DEF Writers
  <2>3. s = <<s[1], s[2]>>
    BY DEF Slots
  <2>4. Written(n)[s] = WrittenValue(kp, s[2], n)
    BY <1>1 DEF Written
  <2> QED
    BY <1>1, <2>1, <2>2, <2>3, <2>4
<1>2. CASE ~(s[1] = current_time /\ Writers(kp, s[2], n) # {})
  BY <1>2 DEF Written
<1> QED
  BY <1>1, <1>2

LEMMA WrittenType ==
  ASSUME DataInv, NEW n
  PROVE  Written(n) \in [Slots -> Values \cup {NoValue}]
<1>1. \A s \in Slots : Written(n)[s] \in Values \cup {NoValue}
  BY WrittenSlot DEF DataInv
<1> QED
  BY <1>1 DEF Written

(* maybe_flush, when it returns 0: it does not abort.                      *)
LEMMA MaybeFlushStep ==
  ASSUME Inv, NEW t \in Times \cup {0}, NEW next, MaybeFlush(t, next),
         UNCHANGED outsideFlush
  PROVE  /\ DataInv' /\ StatInv' /\ PollInv'
         /\ pc' = next /\ current_time' = t
<1>1. PollInv'
  BY DEF Inv, PollInv, outsideFlush, pollVars
<1>2. CASE ~Due(t)
  BY <1>1, <1>2 DEF Inv, DataInv, StatInv, MaybeFlush, outsideFlush
<1>3. CASE Due(t)
  <2>1. /\ CountFlush /\ current_time' = t
        /\ kp' = FlushDone(kp, backend, LooksUp, {"DISABLE"})
        /\ store' = Written(Len(kp.infos))
        /\ pc' = IF kp'.enabledCnt = 0 THEN next ELSE "aborted"
        /\ UNCHANGED <<latest, stats_time, statStore>>
    BY <1>3 DEF MaybeFlush, outsideFlush
  <2>2. WellFormed(kp') /\ kp'.enabledCnt = 0
    BY <2>1, FlushDoneEffect DEF Inv, RunInv
  <2>3. DataInv'
    BY <2>1, <2>2, WrittenType DEF Inv, DataInv
  <2>4. kp.enabledCnt \in Nat
    BY TableIds DEF Inv, DataInv, WellFormed, CountExact
  <2>5. StatInv'
    <3>1. {"flush_cnt", "flushed_key_cnt"} \subseteq StatKeys
      BY DEF StatKeys
    <3> QED
      BY <2>1, <2>4, <3>1, CountStep DEF Inv, CountFlush
  <2> QED
    BY <1>1, <2>1, <2>2, <2>3, <2>5
<1> QED
  BY <1>2, <1>3

(* maybe_flush, when it returns -1.                                        *)
LEMMA MaybeFlushFailsStep ==
  ASSUME Inv, NEW t, MaybeFlushFails(t), UNCHANGED outsideFlush
  PROVE  DataInv' /\ StatInv' /\ PollInv' /\ current_time' = current_time
<1>1. PollInv'
  BY DEF Inv, PollInv, outsideFlush, pollVars
<1>2. /\ CountFlush /\ UNCHANGED <<current_time, latest, stats_time, statStore>>
      /\ store' = store \/ \E n \in Int : store' = Written(n)
  BY DEF MaybeFlushFails, outsideFlush
<1>3. WellFormed(kp')
  BY FlushFailedEffect DEF Inv, RunInv
<1>4. store' \in [Slots -> Values \cup {NoValue}]
  BY <1>2, WrittenType DEF Inv, DataInv
<1>5. kp.enabledCnt \in Nat
  BY TableIds DEF Inv, DataInv, WellFormed, CountExact
<1>6. StatInv'
  <2>1. {"flush_cnt", "flushed_key_cnt"} \subseteq StatKeys
    BY DEF StatKeys
  <2> QED
    BY <1>2, <1>5, <2>1, CountStep DEF Inv, CountFlush
<1> QED
  BY <1>1, <1>2, <1>3, <1>4, <1>6 DEF Inv, DataInv

(* What one pair of a message does to the package: its key is enabled and  *)
(* has its value, and nothing else is touched.                             *)
LEMMA PutEffect ==
  ASSUME WellFormed(kp), NEW k \in Keys, NEW v \in Values
  PROVE  LET kq == Put(k, v)
             i == GetKey(kq, k)
         IN /\ WellFormed(kq)
            /\ i \in Ids(kq) /\ i # NoId /\ kq.infos[i].value = v
            /\ kq.infos[i].key = k
            /\ \A j \in Ids(kp) \cup {i} :
                 j # i => /\ kq.infos[j].key = kp.infos[j].key
                          /\ kq.infos[j].value = kp.infos[j].value
            /\ Ids(kq) = Ids(kp) \cup {i}
            /\ EnabledIds(kq) = EnabledIds(kp) \cup {i}
            /\ i = GetKey(kp, k) \/ (i \notin Ids(kp) /\ GetKey(kp, k) = NoId)
            /\ \A l \in Keys \ {k} : GetKey(kq, l) = GetKey(kp, l)
<1> DEFINE with == IF GetKey(kp, k) = NoId THEN AddKey(kp, k)
                   ELSE EnableKey(kp, GetKey(kp, k))
           i == GetKey(with, k)
           kq == SetValue(with, i, v)
<1>1. /\ WellFormed(with) /\ i \in Ids(with) /\ i # NoId
      /\ with.infos[i].key = k
      /\ \A j \in Ids(kp) : j # i =>
           /\ with.infos[j].key = kp.infos[j].key
           /\ with.infos[j].value = kp.infos[j].value
      /\ Ids(with) = Ids(kp) \cup {i}
      /\ EnabledIds(with) = EnabledIds(kp) \cup {i}
      /\ i = GetKey(kp, k) \/ (i \notin Ids(kp) /\ GetKey(kp, k) = NoId)
      /\ \A l \in Keys \ {k} : GetKey(with, l) = GetKey(kp, l)
  <2>0. kp.hash \in [Keys -> Nat]
    BY DEF WellFormed, Table
  <2>1. CASE GetKey(kp, k) = NoId
    <3> DEFINE n == Len(kp.infos) + 1
    <3>1. with = AddKey(kp, k)
      BY <2>1
    <3>2. /\ n \in Nat /\ n \notin Ids(kp)
          /\ Ids(with) = Ids(kp) \cup {n}
          /\ EnabledIds(with) = EnabledIds(kp) \cup {n}
          /\ with.hash = [kp.hash EXCEPT ![k] = n]
          /\ with.infos[n] = FreshInfo(k)
          /\ \A j \in Ids(kp) : with.infos[j] = kp.infos[j]
      BY <3>1, AddKeyEffect
    <3>3. i = n
      BY <2>0, <3>2 DEF GetKey
    <3>4. n # NoId
      <4>1. Len(kp.infos) \in Nat
        BY TableIds DEF WellFormed
      <4> QED
        BY <4>1 DEF NoId
    <3>5. WellFormed(with)
      BY <3>1, AddKeyWellFormed
    <3>6. \A l \in Keys \ {k} : GetKey(with, l) = GetKey(kp, l)
      BY <2>0, <3>2 DEF GetKey
    <3>7. with.infos[n].key = k
      BY <3>2 DEF FreshInfo
    <3> HIDE DEF with, i, n
    <3> QED
      BY <2>1, <3>2, <3>3, <3>4, <3>5, <3>6, <3>7
  <2>2. CASE GetKey(kp, k) # NoId
    <3> DEFINE m == GetKey(kp, k)
    <3>1. with = EnableKey(kp, m)
      BY <2>2
    <3>2. m \in Ids(kp) /\ kp.infos[m].key = k
      BY <2>2 DEF WellFormed, LookupSound, GetKey
    <3>3. /\ with.hash = kp.hash /\ Ids(with) = Ids(kp)
          /\ EnabledIds(with) = EnabledIds(kp) \cup {m}
          /\ \A j \in Ids(kp) : /\ with.infos[j].key = kp.infos[j].key
                                /\ with.infos[j].value = kp.infos[j].value
      BY <3>1, <3>2, EnableKeyEffect
    <3>4. WellFormed(with)
      BY <3>1, <3>2, EnableKeyWellFormed
    <3>5. \A l \in Keys : GetKey(with, l) = GetKey(kp, l)
      BY <3>3 DEF GetKey
    <3> HIDE DEF with
    <3> QED
      BY <2>2, <3>2, <3>3, <3>4, <3>5
  <2> QED
    BY <2>1, <2>2
<1> HIDE DEF with
<1>2. /\ kq.hash = with.hash /\ Ids(kq) = Ids(with)
      /\ EnabledIds(kq) = EnabledIds(with)
      /\ \A j \in Ids(with) :
           /\ kq.infos[j].key = with.infos[j].key
           /\ kq.infos[j].value = IF j = i THEN v ELSE with.infos[j].value
  BY <1>1, SetValueEffect
<1>3. WellFormed(kq)
  BY <1>1, SetValueWellFormed
<1>4. \A l : GetKey(kq, l) = GetKey(with, l)
  BY <1>2 DEF GetKey
<1>5. kq = Put(k, v)
  BY DEF Put, with
<1> HIDE DEF kq
<1>6. i = GetKey(kq, k)
  BY <1>4
<1> HIDE DEF i
<1> QED
  BY <1>1, <1>2, <1>3, <1>4, <1>5, <1>6

-----------------------------------------------------------------------------
(* The invariant is inductive                                              *)

LEMMA InvInit == Init => Inv
<1> SUFFICES ASSUME Init PROVE Inv
  OBVIOUS
<1>0. /\ MaxNow \in Nat /\ MaxPolls \in Nat /\ EofLimit \in Nat \ {0}
  BY TskProxyAssumption
<1>1. DataInv
  BY EmptyTableWellFormed DEF Init, DataInv
<1>2. StatInv
  BY <1>0, StatsStart DEF Init, StatInv
<1>3. PollInv
  BY <1>0 DEF Init, PollInv
<1>4. RunInv
  BY <1>0 DEF Init, RunInv, SigintLimit, Running, Exits
<1> QED
  BY <1>1, <1>2, <1>3, <1>4 DEF Inv

(* The message in hand is one of Messages.                                 *)
LEMMA PollReturnsStep ==
  ASSUME PollInv, PollReturns, eof_since_data' \in 0 .. EofLimit
  PROVE  PollInv'
<1>1. Messages \subseteq Message /\ MaxPolls \in Nat
  BY TskProxyAssumption
<1>2. CASE ev' \in {"none", "eof"} /\ msg' = NoMessage /\ UNCHANGED polls
  BY <1>2 DEF PollInv
<1>3. CASE /\ \/ ev' \in {"error", "rejected"} /\ msg' = NoMessage
              \/ ev' = "message" /\ msg' \in Messages
           /\ \/ ev' \in Endless /\ UNCHANGED polls
              \/ ev' \notin Endless /\ polls < MaxPolls /\ polls' = polls + 1
  BY <1>1, <1>3 DEF PollInv
<1> QED
  BY <1>2, <1>3 DEF PollReturns

(* A flush in which run() goes on to `next' or, if it fails, to `after'.   *)
LEMMA FlushStep ==
  ASSUME Inv, NEW t \in Times \cup {0}, UNCHANGED outsideFlush,
         NEW next \in {"stats", "count", "done"},
         NEW after \in {"cleanup", "done"},
         MaybeFlush(t, next) \/ (MaybeFlushFails(t) /\ pc' = after),
         next = "count" => /\ ev = "message" /\ t = msg.time
                           /\ eof_since_data < EofLimit,
         Running
  PROVE  Inv'
<1>0. UNCHANGED <<backend, rc, ev, msg, eof_since_data, shutdown_proxy, now>>
  BY DEF outsideFlush, pollVars
<1>1. CASE MaybeFlush(t, next)
  <2>1. DataInv' /\ StatInv' /\ PollInv' /\ pc' = next /\ current_time' = t
    BY <1>1, MaybeFlushStep
  <2>2. RunInv'
    BY <1>0, <2>1 DEF Inv, RunInv, Running, Exits
  <2> QED
    BY <2>1, <2>2 DEF Inv
<1>2. CASE MaybeFlushFails(t) /\ pc' = after
  <2>1. DataInv' /\ StatInv' /\ PollInv'
    BY <1>2, MaybeFlushFailsStep
  <2>2. RunInv'
    BY <1>0, <1>2 DEF Inv, RunInv, Running, Exits
  <2> QED
    BY <2>1, <2>2 DEF Inv
<1> QED
  BY <1>1, <1>2

LEMMA InvStep == Inv /\ [Next]_vars => Inv'
<1> SUFFICES ASSUME Inv, [Next]_vars PROVE Inv'
  OBVIOUS
<1> USE DEF Inv
<1>0. /\ EofLimit \in Nat \ {0} /\ IntMax \in Nat \ {0} /\ MaxNow \in Nat
      /\ Wanted \subseteq Keys
  BY TskProxyAssumption
<1>1. CASE ForceFlush \/ ForceFlushFails
  <2>1. pc = "force" /\ UNCHANGED outsideFlush /\ Running
    BY <1>1 DEF ForceFlush, ForceFlushFails, Running, Exits
  <2>2. FORCE_FLUSH \in Times \cup {0}
    BY DEF FORCE_FLUSH
  <2>3. MaybeFlush(FORCE_FLUSH, "stats")
        \/ (MaybeFlushFails(FORCE_FLUSH) /\ pc' = "cleanup")
    BY <1>1 DEF ForceFlush, ForceFlushFails
  <2> QED
    BY <2>1, <2>2, <2>3, FlushStep
<1>2. CASE HandleMessage \/ HandleMessageFails
  <2>1. pc = "burst" /\ ev = "message" /\ UNCHANGED outsideFlush /\ Running
    BY <1>2 DEF HandleMessage, HandleMessageFails, Running, Exits
  <2>2. msg.time \in Times \cup {0} /\ eof_since_data < EofLimit
    BY <2>1 DEF PollInv, Message, RunInv
  <2>3. MaybeFlush(msg.time, "count")
        \/ (MaybeFlushFails(msg.time) /\ pc' = "cleanup")
    BY <1>2 DEF HandleMessage, HandleMessageFails
  <2> QED
    BY <2>1, <2>2, <2>3, FlushStep
<1>3. CASE Cleanup \/ CleanupFails
  <2>1. pc = "cleanup" /\ UNCHANGED outsideFlush /\ Running
    BY <1>3 DEF Cleanup, CleanupFails, Running, Exits
  <2>2. FORCE_FLUSH \in Times \cup {0}
    BY DEF FORCE_FLUSH
  <2>3. MaybeFlush(FORCE_FLUSH, "done")
        \/ (MaybeFlushFails(FORCE_FLUSH) /\ pc' = "done")
    BY <1>3 DEF Cleanup, CleanupFails
  <2> QED
    BY <2>1, <2>2, <2>3, FlushStep
<1>4. CASE OuterStats
  <2>1. StatInv'
    BY <1>4, StatsFlushStep DEF OuterStats, RunInv
  <2>2. DataInv' /\ PollInv'
    BY <1>4 DEF OuterStats, DataInv, PollInv, dataVars, pollVars
  <2>3. RunInv'
    BY <1>4 DEF OuterStats, RunInv, Running, Exits, pollVars
  <2> QED
    BY <2>1, <2>2, <2>3
<1>5. CASE BurstStats
  <2>1. StatInv'
    BY <1>5, StatsFlushStep DEF BurstStats, RunInv
  <2>2. DataInv' /\ PollInv'
    BY <1>5 DEF BurstStats, DataInv, PollInv, dataVars, pollVars
  <2>3. RunInv'
    BY <1>5 DEF BurstStats, RunInv, Running, Exits, pollVars
  <2> QED
    BY <2>1, <2>2, <2>3
<1>6. CASE CountMessage
  <2>1. StatInv'
    <3>1. {"messages_cnt", "messages_bytes"} \subseteq StatKeys
      BY DEF StatKeys
    <3>2. Len(msg.kvs) + 1 \in Nat
      <4>1. msg \in Message
        BY <1>6 DEF CountMessage, PollInv, RunInv
      <4>2. Len(msg.kvs) \in Nat
        BY <4>1, LenProperties DEF Message
      <4> QED
        BY <4>2
    <3> QED
      BY <1>6, <3>1, <3>2, CountStep DEF CountMessage
  <2>2. DataInv' /\ PollInv'
    BY <1>6 DEF CountMessage, DataInv, PollInv, dataVars, pollVars
  <2>3. RunInv'
    BY <1>6 DEF CountMessage, RunInv, Running, Exits, pollVars, dataVars
  <2> QED
    BY <2>1, <2>2, <2>3
<1>7. CASE ParseKeyValue
  <2> DEFINE k == Head(msg.kvs)[1]
             v == Head(msg.kvs)[2]
  <2>1. msg \in Message /\ ev = "message" /\ msg.kvs # << >>
    BY <1>7 DEF ParseKeyValue, PollInv, RunInv
  <2>2. k \in Keys /\ v \in Values /\ Tail(msg.kvs) \in Seq(Pairs)
    <3>1. msg.kvs \in Seq(Keys \X Values) /\ msg.kvs # << >>
      BY <2>1 DEF Message, Pairs
    <3>2. Head(msg.kvs) \in Keys \X Values /\ Tail(msg.kvs) \in Seq(Pairs)
      BY <3>1, HeadTailProperties DEF Pairs
    <3> QED
      BY <3>2
  <2>3. \/ kp' = Put(k, v) /\ latest' = [latest EXCEPT ![<<msg.time, k>>] = v]
        \/ UNCHANGED <<kp, latest>>
    BY <1>7 DEF ParseKeyValue
  <2>4. DataInv'
    <3>1. WellFormed(kp')
      BY <2>2, <2>3, PutEffect DEF DataInv
    <3> HIDE DEF k, v
    <3>2. latest' \in [Slots -> Values \cup {NoValue}]
      BY <2>2, <2>3 DEF DataInv
    <3> QED
      BY <1>7, <3>1, <3>2 DEF ParseKeyValue, DataInv
  <2>5. StatInv'
    BY <1>7 DEF ParseKeyValue, StatInv, statVars
  <2>6. msg' = [msg EXCEPT !.kvs = Tail(msg.kvs)]
    BY <1>7 DEF ParseKeyValue
  <2>7. msg' \in Message /\ msg'.time = msg.time
    BY <2>1, <2>2, <2>6 DEF Message
  <2>8. PollInv'
    BY <1>7, <2>7 DEF ParseKeyValue, PollInv
  <2>9. RunInv'
    BY <1>7, <2>7 DEF ParseKeyValue, RunInv, Running, Exits
  <2> QED
    BY <2>4, <2>5, <2>8, <2>9
<1>8. CASE ParseShortValue
  <2>1. msg \in Message
    BY <1>8 DEF ParseShortValue, PollInv, RunInv
  <2>2. PICK left \in 0 .. msg.tail - KeyLenSize :
          msg' = [msg EXCEPT !.tail = left]
    BY <1>8 DEF ParseShortValue
  <2>3. msg' \in Message /\ msg'.time = msg.time
    BY <2>1, <2>2 DEF Message
  <2>4. DataInv' /\ StatInv'
    BY <1>8 DEF ParseShortValue, DataInv, StatInv, dataVars, statVars
  <2>5. PollInv'
    BY <1>8, <2>3 DEF ParseShortValue, PollInv
  <2>6. RunInv'
    BY <1>8, <2>3 DEF ParseShortValue, RunInv, Running, Exits, dataVars
  <2> QED
    BY <2>4, <2>5, <2>6
<1>9. CASE FirstPoll \/ NextPoll
  <2>1. DataInv' /\ StatInv'
    BY <1>9 DEF FirstPoll, NextPoll, DataInv, StatInv, dataVars, statVars
  <2>2. PollInv'
    BY <1>0, <1>9, PollReturnsStep DEF FirstPoll, NextPoll, PollInv
  <2>3. RunInv'
    BY <1>0, <1>9 DEF FirstPoll, NextPoll, RunInv, Running, Exits, dataVars
  <2> QED
    BY <2>1, <2>2, <2>3
<1>10. CASE ParseEnds \/ ParseGivesUp \/ RejectMessage \/ PartitionEof
  <2>1. DataInv' /\ StatInv'
    BY <1>10 DEF ParseEnds, ParseGivesUp, RejectMessage, PartitionEof,
                 DataInv, StatInv, dataVars, statVars
  <2>2. PollInv'
    <3>1. eof_since_data' \in 0 .. EofLimit
      BY <1>0, <1>10 DEF ParseEnds, ParseGivesUp, RejectMessage, PartitionEof,
                         RunInv, PollInv
    <3> QED
      BY <1>10, <3>1 DEF ParseEnds, ParseGivesUp, RejectMessage, PartitionEof,
                         PollInv
  <2>3. RunInv'
    BY <1>0, <1>10 DEF ParseEnds, ParseGivesUp, RejectMessage, PartitionEof,
                       RunInv, PollInv, Running, Exits
  <2> QED
    BY <2>1, <2>2, <2>3
<1>11. CASE CheckShutdown \/ PollError \/ LeaveBurst
  <2>1. DataInv' /\ StatInv' /\ PollInv'
    BY <1>11 DEF CheckShutdown, PollError, LeaveBurst, DataInv, StatInv,
                 PollInv, dataVars, statVars, pollVars
  <2>2. RunInv'
    BY <1>11 DEF CheckShutdown, PollError, LeaveBurst, RunInv, Running, Exits,
                 pollVars, dataVars
  <2> QED
    BY <2>1, <2>2
<1>12. CASE Sigint \/ Tick
  <2>1. DataInv' /\ StatInv' /\ PollInv'
    BY <1>12 DEF Sigint, Tick, DataInv, StatInv, PollInv, dataVars, statVars,
                 pollVars
  <2>2. RunInv'
    BY <1>0, <1>12 DEF Sigint, Tick, RunInv, Running, Exits, SigintLimit,
                       pollVars, dataVars
  <2> QED
    BY <2>1, <2>2
<1>13. CASE UNCHANGED vars
  BY <1>13 DEF vars, DataInv, StatInv, PollInv, RunInv, Running
<1>14. CASE ParseSpins
  BY <1>13, <1>14 DEF ParseSpins
<1> QED
  BY <1>1, <1>2, <1>3, <1>4, <1>5, <1>6, <1>7, <1>8, <1>9, <1>10, <1>11, <1>12,
     <1>13, <1>14 DEF Next, Main

(* The states of the proxy satisfy the invariant.                          *)
LEMMA InvAlways == Spec => []Inv
  BY InvInit, InvStep, PTL DEF Spec

(* Every variable keeps its type, for every set of messages and whatever   *)
(* is lost, repeated or fails.                                             *)
THEOREM TypeCorrect == Spec => []TypeOK
<1>1. Inv => TypeOK
  BY DEF Inv, DataInv, StatInv, PollInv, RunInv, TypeOK, WellFormed,
         S!WellFormed, Exits
<1> QED
  BY <1>1, InvAlways, PTL

(* assert(timeseries_kp_enabled_size(kp) == 0) behind a successful flush   *)
(* never aborts: the counter is exact, so it is zero.                      *)
THEOREM AssertionHolds == Spec => []FlushAssertion
<1>1. Inv => FlushAssertion
  BY DEF Inv, RunInv, FlushAssertion
<1> QED
  BY <1>1, InvAlways, PTL

-----------------------------------------------------------------------------
(* Where the points are.  current_time is 0 when nothing is pending, which *)
(* cannot be told from a pending point of the time 0: what follows is for  *)
(* messages of other times.                                                *)

(* A key leads to the only info of its name, and the enabled infos hold    *)
(* the last value parsed for their key and the pending time.               *)
Unique == \A i \in Ids(kp) : GetKey(kp, kp.infos[i].key) = i
HoldsLatest ==
  \A i \in EnabledIds(kp) :
    /\ current_time # 0
    /\ latest[<<current_time, kp.infos[i].key>>] = kp.infos[i].value

(* Behind the forced flush nothing is enabled, and a stop begins there.    *)
Flushed ==
  /\ pc \in {"stats", "check", "poll"} => EnabledIds(kp) = {}
  /\ rc = 0 => pc \in {"cleanup", "done", "killed"} /\ EnabledIds(kp) = {}

StoredOrHeld ==
  \A s \in Slots : latest[s] = NoValue \/ store[s] = latest[s] \/ Held(s)

PointsInv == Unique /\ HoldsLatest /\ Flushed /\ StoredOrHeld /\ OnlyReceived

LEMMA PointsInit == Init => PointsInv
<1>1. Ids(EmptyTable) = {} /\ EnabledIds(EmptyTable) = {}
  BY DEF Ids, EnabledIds, EmptyTable
<1> QED
  BY <1>1 DEF Init, PointsInv, Unique, HoldsLatest, Flushed, StoredOrHeld,
              OnlyReceived

(* Nothing due: nothing is enabled, or the pending time stays.             *)
LEMMA NotDue ==
  ASSUME Inv, PointsInv, NEW t, ~Due(t)
  PROVE  EnabledIds(kp) = {} \/ (t = current_time /\ t # 0)
<1>1. kp.enabledCnt = Cardinality(EnabledIds(kp)) /\ kp \in Table
  BY DEF Inv, DataInv, WellFormed, CountExact
<1>2. CASE kp.enabledCnt > 0
  BY <1>2 DEF Due, PointsInv, HoldsLatest, FORCE_FLUSH
<1>3. CASE ~(kp.enabledCnt > 0)
  BY <1>1, <1>3, TableIds, FS_EmptySet
<1> QED
  BY <1>2, <1>3

(* A flush that writes as far as the first n infos moves only points that  *)
(* were parsed, with their own time and their last value.                  *)
LEMMA WrittenLatest ==
  ASSUME Inv, PointsInv, NEW n, NEW s \in Slots
  PROVE  /\ Written(n)[s] = store[s]
            \/ (Written(n)[s] = latest[s] /\ latest[s] # NoValue)
         /\ store[s] = latest[s] => Written(n)[s] = latest[s]
<1>1. CASE Written(n)[s] = store[s]
  BY <1>1
<1>2. CASE \E i \in EnabledIds(kp) :
             /\ s = <<current_time, kp.infos[i].key>>
             /\ Written(n)[s] = kp.infos[i].value
             /\ Written(n)[s] \in Values
  BY <1>2, TskProxyAssumption DEF PointsInv, HoldsLatest
<1> QED
  BY <1>1, <1>2, WrittenSlot DEF Inv

(* What is held is written by a flush that comes to the end.               *)
LEMMA HeldIsWritten ==
  ASSUME Inv, PointsInv, NEW s \in Slots, Held(s)
  PROVE  Written(Len(kp.infos))[s] = latest[s]
<1> DEFINE i == GetKey(kp, s[2])
           n == Len(kp.infos)
<1>1. i \in EnabledIds(kp) /\ s[1] = current_time
  BY DEF Held
<1>2. i \in Ids(kp) /\ i # NoId /\ s[2] \in Keys
  <2>1. kp \in Table
    BY DEF Inv, DataInv, WellFormed
  <2> QED
    BY <1>1, <2>1, TableIds DEF EnabledIds, NoId, Slots
<1>3. kp.infos[i].key = s[2]
  BY <1>2 DEF Inv, DataInv, WellFormed, LookupSound, GetKey
<1>4. i \in Writers(kp, s[2], n)
  BY <1>1, <1>2, <1>3 DEF Writers, Ids
<1>5. PICK j \in EnabledIds(kp) : /\ s = <<current_time, kp.infos[j].key>>
                                  /\ Written(n)[s] = kp.infos[j].value
  BY <1>1, <1>4, WrittenSlot DEF Inv
<1> QED
  BY <1>5 DEF PointsInv, HoldsLatest

(* A flush, successful or not, loses no point.                             *)
LEMMA PointsFlush ==
  ASSUME Inv, PointsInv, NEW t, NEW next, UNCHANGED outsideFlush,
         pc \in {"force", "burst", "cleanup"}, t = FORCE_FLUSH \/ pc = "burst",
         next = IF pc = "force" THEN "stats"
                ELSE IF pc = "burst" THEN "count" ELSE "done",
         \/ MaybeFlush(t, next) /\ pc' = next
         \/ MaybeFlushFails(t) /\ pc' \in {"cleanup", "done"}
  PROVE  PointsInv'
<1>0. UNCHANGED <<latest, rc, backend>>
  BY DEF outsideFlush
<1>1. CASE MaybeFlush(t, next) /\ ~Due(t)
  <2>1. UNCHANGED <<kp, store>> /\ current_time' = t /\ pc' = next
    BY <1>1 DEF MaybeFlush
  <2>2. EnabledIds(kp) = {} \/ current_time' = current_time
    BY <1>1, <2>1, NotDue
  <2>3. next # "count" => EnabledIds(kp) = {}
    BY <1>1, NotDue DEF FORCE_FLUSH
  <2>4. Unique' /\ OnlyReceived'
    BY <1>0, <2>1 DEF PointsInv, Unique, OnlyReceived
  <2>5. HoldsLatest'
    BY <1>0, <2>1, <2>2 DEF PointsInv, HoldsLatest
  <2>6. Flushed'
    BY <1>0, <2>1, <2>3 DEF PointsInv, Flushed
  <2>7. StoredOrHeld'
    BY <1>0, <2>1, <2>2 DEF PointsInv, StoredOrHeld, Held
  <2> QED
    BY <2>4, <2>5, <2>6, <2>7 DEF PointsInv
<1>2. CASE MaybeFlush(t, next) /\ Due(t)
  <2>1. /\ kp' = FlushDone(kp, backend, LooksUp, {"DISABLE"})
        /\ store' = Written(Len(kp.infos)) /\ pc' = next
    BY <1>2 DEF MaybeFlush
  <2>2. /\ EnabledIds(kp') = {} /\ kp'.hash = kp.hash /\ Ids(kp') = Ids(kp)
        /\ \A i \in Ids(kp) : kp'.infos[i].key = kp.infos[i].key
    BY <2>1, FlushDoneEffect DEF Inv, RunInv
  <2>3. Unique'
    BY <2>2 DEF PointsInv, Unique, GetKey
  <2>4. HoldsLatest'
    BY <2>2 DEF HoldsLatest
  <2>5. Flushed'
    BY <1>0, <2>1, <2>2 DEF PointsInv, Flushed
  <2>6. StoredOrHeld'
    <3> SUFFICES ASSUME NEW s \in Slots, latest[s] # NoValue
                 PROVE  store'[s] = latest[s]
      BY <1>0 DEF StoredOrHeld
    <3>1. store[s] = latest[s] \/ Held(s)
      BY DEF PointsInv, StoredOrHeld
    <3> QED
      BY <2>1, <3>1, WrittenLatest, HeldIsWritten
  <2>7. OnlyReceived'
    BY <1>0, <2>1, WrittenLatest DEF PointsInv, OnlyReceived
  <2> QED
    BY <2>3, <2>4, <2>5, <2>6, <2>7 DEF PointsInv
<1>3. CASE MaybeFlushFails(t) /\ pc' \in {"cleanup", "done"}
  <2>1. SamePoints(kp, kp')
    BY <1>3, FlushFailedEffect DEF Inv, RunInv
  <2>2. /\ UNCHANGED current_time
        /\ store' = store \/ \E n \in Int : store' = Written(n)
    BY <1>3 DEF MaybeFlushFails
  <2>3. Unique'
    BY <2>1 DEF PointsInv, Unique, SamePoints, GetKey
  <2>4. EnabledIds(kp) \subseteq Ids(kp)
    BY DEF EnabledIds
  <2>5. HoldsLatest'
    BY <1>0, <2>1, <2>2, <2>4 DEF PointsInv, HoldsLatest, SamePoints
  <2>6. Flushed'
    BY <1>0, <1>3, <2>1 DEF PointsInv, Flushed, SamePoints
  <2>7. ASSUME NEW s \in Slots
        PROVE  /\ store'[s] = store[s]
                  \/ (store'[s] = latest[s] /\ latest[s] # NoValue)
               /\ store[s] = latest[s] => store'[s] = latest[s]
    BY <2>2, WrittenLatest
  <2>8. ASSUME NEW s \in Slots, Held(s) PROVE Held(s)'
    BY <1>0, <2>1, <2>2, <2>4, <2>8 DEF Held, SamePoints, GetKey
  <2>9. StoredOrHeld'
    BY <1>0, <2>7, <2>8 DEF PointsInv, StoredOrHeld
  <2>10. OnlyReceived'
    BY <1>0, <2>7 DEF PointsInv, OnlyReceived
  <2> QED
    BY <2>3, <2>5, <2>6, <2>9, <2>10 DEF PointsInv
<1> QED
  BY <1>1, <1>2, <1>3

(* A parsed pair is held from then on, and what was held before still is.  *)
LEMMA PointsParse ==
  ASSUME 0 \notin Times, Inv, PointsInv, ParseKeyValue
  PROVE  PointsInv'
<1> DEFINE k == Head(msg.kvs)[1]
           v == Head(msg.kvs)[2]
<1>1. /\ msg \in Message /\ msg.kvs # << >> /\ current_time = msg.time
      /\ pc = "parse" /\ UNCHANGED <<current_time, store, rc, pc>>
  BY DEF ParseKeyValue, Inv, PollInv, RunInv
<1>2. current_time \in Times /\ current_time # 0
  BY <1>1 DEF Message
<1>3. k \in Keys /\ v \in Values
  <2>1. msg.kvs \in Seq(Keys \X Values) /\ msg.kvs # << >>
    BY <1>1 DEF Message, Pairs
  <2>2. Head(msg.kvs) \in Keys \X Values
    BY <2>1, HeadTailProperties
  <2> QED
    BY <2>2
<1>4. CASE UNCHANGED <<kp, latest>>
  <2>1. Unique' /\ OnlyReceived'
    BY <1>1, <1>4 DEF PointsInv, Unique, OnlyReceived
  <2>2. HoldsLatest'
    BY <1>1, <1>4 DEF PointsInv, HoldsLatest
  <2>3. Flushed'
    BY <1>1, <1>4 DEF PointsInv, Flushed
  <2>4. StoredOrHeld'
    BY <1>1, <1>4 DEF PointsInv, StoredOrHeld, Held
  <2> QED
    BY <2>1, <2>2, <2>3, <2>4 DEF PointsInv
<1>5. CASE /\ kp' = Put(k, v)
           /\ latest' = [latest EXCEPT ![<<msg.time, k>>] = v]
  <2> DEFINE i == GetKey(kp', k)
             slot == <<current_time, k>>
  <2> HIDE DEF k, v
  <2>1. /\ i \in Ids(kp') /\ i # NoId /\ kp'.infos[i].value = v
        /\ kp'.infos[i].key = k
        /\ \A j \in Ids(kp) \cup {i} :
             j # i => /\ kp'.infos[j].key = kp.infos[j].key
                      /\ kp'.infos[j].value = kp.infos[j].value
        /\ Ids(kp') = Ids(kp) \cup {i}
        /\ EnabledIds(kp') = EnabledIds(kp) \cup {i}
        /\ i = GetKey(kp, k) \/ (i \notin Ids(kp) /\ GetKey(kp, k) = NoId)
        /\ \A l \in Keys \ {k} : GetKey(kp', l) = GetKey(kp, l)
    BY <1>3, <1>5, PutEffect DEF Inv, DataInv
  <2> HIDE DEF i
  <2>2. /\ slot \in Slots /\ latest'[slot] = v /\ v # NoValue
        /\ \A s \in Slots : s # slot => latest'[s] = latest[s]
    BY <1>1, <1>2, <1>3, <1>5, TskProxyAssumption DEF Inv, DataInv, Slots
  <2>3. ASSUME NEW j \in Ids(kp), j # i
        PROVE  /\ kp.infos[j].key \in Keys \ {k}
               /\ GetKey(kp, kp.infos[j].key) = j
               /\ j \in Nat /\ j # NoId
    <3>1. kp \in Table
      BY DEF Inv, DataInv, WellFormed
    <3>2. kp.infos[j].key \in Keys /\ j \in Nat /\ j # NoId
      BY <3>1, TableIds DEF KeyInfo, NoId
    <3>3. GetKey(kp, kp.infos[j].key) = j
      BY DEF PointsInv, Unique
    <3> QED
      BY <2>1, <2>3, <3>2, <3>3
  <2>4. Unique'
    <3> SUFFICES ASSUME NEW j \in Ids(kp')
                 PROVE  GetKey(kp', kp'.infos[j].key) = j
      BY DEF Unique
    <3>1. CASE j = i
      BY <2>1, <3>1 DEF i
    <3>2. CASE j # i
      BY <2>1, <2>3, <3>2
    <3> QED
      BY <3>1, <3>2
  <2>5. HoldsLatest'
    <3> SUFFICES ASSUME NEW j \in EnabledIds(kp')
                 PROVE  latest'[<<current_time, kp'.infos[j].key>>]
                          = kp'.infos[j].value
      BY <1>1, <1>2 DEF HoldsLatest
    <3>1. CASE j = i
      BY <2>1, <2>2, <3>1
    <3>2. CASE j # i
      <4>1. j \in EnabledIds(kp) /\ j \in Ids(kp)
        BY <2>1, <3>2 DEF EnabledIds
      <4>2. <<current_time, kp.infos[j].key>> \in Slots
            /\ <<current_time, kp.infos[j].key>> # slot
        BY <1>2, <2>3, <3>2, <4>1 DEF Slots
      <4> QED
        BY <2>1, <2>2, <3>2, <4>1, <4>2 DEF PointsInv, HoldsLatest
    <3> QED
      BY <3>1, <3>2
  <2>6. Flushed'
    BY <1>1 DEF PointsInv, Flushed
  <2>7. StoredOrHeld'
    <3> SUFFICES ASSUME NEW s \in Slots
                 PROVE  \/ latest'[s] = NoValue \/ store'[s] = latest'[s]
                        \/ Held(s)'
      BY DEF StoredOrHeld
    <3>1. CASE s = slot
      BY <1>1, <2>1, <2>2, <3>1 DEF Held, i
    <3>2. CASE s # slot
      <4>1. latest'[s] = latest[s]
        BY <2>2, <3>2
      <4>2. ASSUME Held(s) PROVE Held(s)'
        <5> DEFINE j == GetKey(kp, s[2])
        <5>1. /\ s[1] = current_time /\ j \in EnabledIds(kp)
              /\ kp.infos[j].value = latest[s]
          BY <4>2 DEF Held
        <5>2. s[2] \in Keys \ {k}
          BY <3>2, <5>1 DEF Slots
        <5>3. j # i
          <6>1. j \in Ids(kp)
            BY <5>1 DEF EnabledIds
          <6>2. j # NoId
            <7>1. kp \in Table
              BY DEF Inv, DataInv, WellFormed
            <7> QED
              BY <6>1, <7>1, TableIds DEF NoId
          <6>3. kp.infos[j].key = s[2]
            BY <5>2, <6>2 DEF Inv, DataInv, WellFormed, LookupSound, GetKey
          <6>4. ASSUME j = GetKey(kp, k), GetKey(kp, k) # NoId
                PROVE  FALSE
            <7>1. kp.infos[j].key = k
              BY <1>3, <6>4 DEF Inv, DataInv, WellFormed, LookupSound, GetKey
            <7> QED
              BY <5>2, <6>3, <7>1
          <6> QED
            BY <2>1, <6>1, <6>2, <6>4
        <5>4. GetKey(kp', s[2]) = j /\ j \in EnabledIds(kp')
              /\ kp'.infos[j].value = kp.infos[j].value
          BY <2>1, <5>1, <5>2, <5>3 DEF EnabledIds
        <5> QED
          BY <1>1, <4>1, <5>1, <5>4 DEF Held
      <4> QED
        BY <1>1, <4>1, <4>2 DEF PointsInv, StoredOrHeld
    <3> QED
      BY <3>1, <3>2
  <2>8. OnlyReceived'
    BY <1>1, <2>2 DEF PointsInv, OnlyReceived
  <2> QED
    BY <2>4, <2>5, <2>6, <2>7, <2>8 DEF PointsInv
<1> QED
  BY <1>4, <1>5 DEF ParseKeyValue

(* The other steps leave package, database and history alone.              *)
LEMMA PointsElse ==
  ASSUME Inv, PointsInv, UNCHANGED dataVars, Flushed'
  PROVE  PointsInv'
<1>1. UNCHANGED <<kp, current_time, store, latest>>
  BY DEF dataVars
<1>2. Unique' /\ OnlyReceived'
  BY <1>1 DEF PointsInv, Unique, OnlyReceived
<1>3. HoldsLatest'
  BY <1>1 DEF PointsInv, HoldsLatest
<1>4. StoredOrHeld'
  BY <1>1 DEF PointsInv, StoredOrHeld, Held
<1> QED
  BY <1>2, <1>3, <1>4 DEF PointsInv

LEMMA PointsStep ==
  ASSUME 0 \notin Times
  PROVE  Inv /\ PointsInv /\ [Next]_vars => PointsInv'
<1> SUFFICES ASSUME Inv, PointsInv, [Next]_vars PROVE PointsInv'
  OBVIOUS
<1>1. CASE ForceFlush \/ ForceFlushFails
  <2>1. pc = "force" /\ UNCHANGED outsideFlush
    BY <1>1 DEF ForceFlush, ForceFlushFails
  <2>2. \/ MaybeFlush(FORCE_FLUSH, "stats") /\ pc' = "stats"
        \/ MaybeFlushFails(FORCE_FLUSH) /\ pc' = "cleanup"
    BY <1>1, <2>1, MaybeFlushStep DEF ForceFlush, ForceFlushFails, FORCE_FLUSH
  <2> QED
    BY <2>1, <2>2, PointsFlush
<1>2. CASE HandleMessage \/ HandleMessageFails
  <2>1. /\ pc = "burst" /\ UNCHANGED outsideFlush
        /\ msg.time \in Times \cup {0}
    BY <1>2 DEF HandleMessage, HandleMessageFails, Inv, PollInv, Message
  <2>2. \/ MaybeFlush(msg.time, "count") /\ pc' = "count"
        \/ MaybeFlushFails(msg.time) /\ pc' = "cleanup"
    BY <1>2, <2>1, MaybeFlushStep DEF HandleMessage, HandleMessageFails
  <2> QED
    BY <2>1, <2>2, PointsFlush
<1>3. CASE Cleanup \/ CleanupFails
  <2>1. pc = "cleanup" /\ UNCHANGED outsideFlush
    BY <1>3 DEF Cleanup, CleanupFails
  <2>2. \/ MaybeFlush(FORCE_FLUSH, "done") /\ pc' = "done"
        \/ MaybeFlushFails(FORCE_FLUSH) /\ pc' = "done"
    BY <1>3, <2>1, MaybeFlushStep DEF Cleanup, CleanupFails, FORCE_FLUSH
  <2> QED
    BY <2>1, <2>2, PointsFlush
<1>4. CASE ParseKeyValue
  BY <1>4, PointsParse
<1>5. CASE OuterStats \/ CheckShutdown \/ FirstPoll \/ CountMessage
           \/ ParseEnds \/ ParseGivesUp \/ ParseShortValue \/ RejectMessage
  <2>1. UNCHANGED dataVars
    BY <1>5 DEF OuterStats, CheckShutdown, FirstPoll, CountMessage, ParseEnds,
                ParseGivesUp, ParseShortValue, RejectMessage
  <2>2. Flushed'
    BY <1>5, <2>1 DEF OuterStats, CheckShutdown, FirstPoll, CountMessage,
                ParseEnds, ParseGivesUp, ParseShortValue, RejectMessage,
                PointsInv, Flushed, dataVars
  <2> QED
    BY <2>1, <2>2, PointsElse
<1>6. CASE PartitionEof \/ PollError \/ LeaveBurst \/ NextPoll \/ BurstStats
           \/ Sigint \/ Tick
  <2>1. UNCHANGED dataVars
    BY <1>6 DEF PartitionEof, PollError, LeaveBurst, NextPoll, BurstStats,
                Sigint, Tick
  <2>2. Flushed'
    BY <1>6, <2>1 DEF PartitionEof, PollError, LeaveBurst, NextPoll,
                BurstStats, Sigint, Tick, PointsInv, Flushed, dataVars
  <2> QED
    BY <2>1, <2>2, PointsElse
<1>7. CASE UNCHANGED vars \/ ParseSpins
  <2>1. UNCHANGED dataVars /\ Flushed'
    BY <1>7 DEF vars, ParseSpins, dataVars, PointsInv, Flushed
  <2> QED
    BY <2>1, PointsElse
<1> QED
  BY <1>1, <1>2, <1>3, <1>4, <1>5, <1>6, <1>7 DEF Next, Main

LEMMA PointsAlways ==
  ASSUME 0 \notin Times
  PROVE  Spec => []PointsInv
<1>1. Inv /\ PointsInv /\ [Next]_vars => (Inv /\ PointsInv)'
  BY InvStep, PointsStep
<1> QED
  BY InvInit, PointsInit, <1>1, PTL DEF Spec

(* While the proxy runs, the last value parsed for a time and a key is in  *)
(* the database or waits for a flush under this very time.                 *)
THEOREM LatestIsKept ==
  ASSUME 0 \notin Times
  PROVE  Spec => []LatestKept
<1>1. PointsInv => LatestKept
  BY DEF PointsInv, StoredOrHeld, LatestKept
<1> QED
  BY <1>1, PointsAlways, PTL

(* The database has a point only where one was parsed.                     *)
THEOREM StoresReceived ==
  ASSUME 0 \notin Times
  PROVE  Spec => []OnlyReceived
<1>1. PointsInv => OnlyReceived
  BY DEF PointsInv
<1> QED
  BY <1>1, PointsAlways, PTL

(* When run() returns 0, the database has the last value of everything.    *)
THEOREM CleanExitStoresAll ==
  ASSUME 0 \notin Times
  PROVE  Spec => []CleanExitStored
<1>1. Inv /\ PointsInv => CleanExitStored
  <2> SUFFICES ASSUME Inv, PointsInv, rc = 0
               PROVE  store = latest
    BY DEF CleanExitStored
  <2>1. EnabledIds(kp) = {}
    BY DEF PointsInv, Flushed
  <2>2. \A s \in Slots : store[s] = latest[s]
    BY <2>1 DEF PointsInv, StoredOrHeld, OnlyReceived, Held
  <2> QED
    BY <2>2 DEF Inv, DataInv
<1> QED
  BY <1>1, InvAlways, PointsAlways, PTL

-----------------------------------------------------------------------------
(* Sums over finite sets, for StatsConserved.  What an induction would say *)
(* is said of a smallest counterexample.                                   *)

(* A nonempty set of naturals has a least element.                         *)
LEMMA LeastElement ==
  ASSUME NEW M \in SUBSET Nat, M # {}
  PROVE  \E m \in M : \A n \in M : m <= n
<1> DEFINE R == OpToRel(<, Nat)
<1>1. IsWellFoundedOn(R, Nat)
  BY NatLessThanWellFounded
<1>2. \A x, y \in Nat : y < x => <<y, x>> \in R
  BY DEF OpToRel
<1> HIDE DEF R
<1>3. PICK m \in M : \A n \in M : <<n, m>> \notin R
  BY <1>1, WFMin
<1>4. \A n \in M : m <= n
  <2>1. TAKE n \in M
  <2>2. m \in Nat /\ n \in Nat /\ ~(n < m)
    BY <1>2, <1>3
  <2> QED
    BY <2>2
<1> QED
  BY <1>4

(* Among the subsets of a finite set that some condition singles out there *)
(* is one that fails it as soon as it loses an element.                    *)
LEMMA MinimalSubset ==
  ASSUME NEW T, IsFiniteSet(T), NEW C \in SUBSET SUBSET T, C # {}
  PROVE  \E s \in C : \A x \in s : s \ {x} \notin C
<1> DEFINE M == {Cardinality(s) : s \in C}
<1>1. \A s \in C : IsFiniteSet(s) /\ Cardinality(s) \in Nat
  BY FS_Subset, FS_CardinalityType
<1>2. M \in SUBSET Nat /\ M # {}
  BY <1>1
<1>3. PICK m \in M : \A n \in M : m <= n
  <2> HIDE DEF M
  <2> QED
    BY <1>2, LeastElement
<1>4. PICK s \in C : m = Cardinality(s)
  BY <1>3
<1>5. ASSUME NEW x \in s, s \ {x} \in C
      PROVE  FALSE
  <2>1. Cardinality(s \ {x}) = Cardinality(s) - 1
    BY <1>1, <1>5, FS_RemoveElement
  <2>2. Cardinality(s) <= Cardinality(s \ {x})
    BY <1>3, <1>4, <1>5
  <2> QED
    BY <1>1, <2>1, <2>2
<1> QED
  BY <1>5

(* How MapThenSumSet adds the counts of k in the intervals of s.           *)
Chosen(s) == CHOOSE x \in s : TRUE
Sums(F, k, T, g) ==
  g = [s \in SUBSET T |->
         IF s = {} THEN 0 ELSE F[Chosen(s)][k] + g[s \ {Chosen(s)}]]
SumOf(F, k, T) == CHOOSE g : Sums(F, k, T, g)

LEMMA SumOfIsSum ==
  ASSUME NEW F, NEW k, NEW T
  PROVE  LET count(t) == F[t][k]
         IN MapThenSumSet(count, T) = SumOf(F, k, T)[T]
BY DEF MapThenSumSet, MapThenFoldSet, SumOf, Sums, Chosen

LEMMA ChosenIn == ASSUME NEW s, s # {} PROVE Chosen(s) \in s
  BY DEF Chosen

(* There is such a function: as far as the sets of at most n elements, for *)
(* every n.                                                                *)
LEMMA SumExists ==
  ASSUME NEW F, NEW k, NEW T, IsFiniteSet(T)
  PROVE  Sums(F, k, T, SumOf(F, k, T))
<1> DEFINE P(n) == {s \in SUBSET T : Cardinality(s) <= n}
           Step(h, s) == IF s = {} THEN 0
                         ELSE F[Chosen(s)][k] + h[s \ {Chosen(s)}]
           Good(n) == \E h : h = [s \in P(n) |-> Step(h, s)]
           Bad == {n \in Nat : ~Good(n)}
<1>1. \A s \in SUBSET T : IsFiniteSet(s) /\ Cardinality(s) \in Nat
  BY FS_Subset, FS_CardinalityType
<1>2. ASSUME NEW n \in Nat, NEW s \in P(n), s # {}
      PROVE  /\ s \ {Chosen(s)} \in SUBSET T
             /\ Cardinality(s \ {Chosen(s)}) = Cardinality(s) - 1
  BY <1>1, <1>2, ChosenIn, FS_RemoveElement
<1>3. Good(0)
  <2> DEFINE h == [s \in P(0) |-> 0]
  <2>1. \A s \in P(0) : s = {}
    BY <1>1, FS_EmptySet
  <2>2. h = [s \in P(0) |-> Step(h, s)]
    BY <2>1
  <2> QED
    BY <2>2
<1>4. ASSUME NEW n \in Nat, Good(n)
      PROVE  Good(n + 1)
  <2>1. PICK h : h = [s \in P(n) |-> Step(h, s)]
    BY <1>4
  <2> DEFINE h2 == [s \in P(n + 1) |-> Step(h, s)]
  <2>2. P(n) \subseteq P(n + 1)
    BY <1>1
  <2>3. \A s \in P(n) : h2[s] = h[s]
    <3>1. TAKE s \in P(n)
    <3>2. h2[s] = Step(h, s)
      BY <2>2
    <3>3. h[s] = Step(h, s)
      <4> HIDE DEF Step, P
      <4> QED
        BY <2>1
    <3> QED
      BY <3>2, <3>3
  <2>4. \A s \in P(n + 1) : Step(h2, s) = Step(h, s)
    <3>1. TAKE s \in P(n + 1)
    <3>2. CASE s = {}
      BY <3>2
    <3>3. CASE s # {}
      <4>1. s \ {Chosen(s)} \in P(n)
        BY <1>1, <1>2, <3>3
      <4> HIDE DEF h2, P
      <4> QED
        BY <2>3, <4>1
    <3> QED
      BY <3>2, <3>3
  <2>5. h2 = [s \in P(n + 1) |-> Step(h2, s)]
    <3> HIDE DEF Step, P
    <3> QED
      BY <2>4
  <2> QED
    BY <2>5
<1>5. \A n \in Nat : Good(n)
  <2> SUFFICES ASSUME Bad # {} PROVE FALSE
    OBVIOUS
  <2>1. Bad \in SUBSET Nat
    OBVIOUS
  <2>2. PICK m \in Bad : \A n \in Bad : m <= n
    <3> HIDE DEF Bad
    <3> QED
      BY <2>1, LeastElement
  <2> HIDE DEF Good
  <2>3. m \in Nat /\ ~Good(m) /\ m # 0
    BY <1>3, <2>2
  <2>4. m - 1 \in Nat /\ m - 1 \notin Bad
    BY <2>2, <2>3
  <2>5. Good(m - 1 + 1)
    BY <1>4, <2>4
  <2> QED
    BY <2>3, <2>5
<1>6. P(Cardinality(T)) = SUBSET T
  <2>1. \A s \in SUBSET T : Cardinality(s) <= Cardinality(T)
    BY FS_Subset
  <2> QED
    BY <2>1
<1>7. PICK h : h = [s \in SUBSET T |-> Step(h, s)]
  <2>1. Good(Cardinality(T))
    <3> HIDE DEF Good
    <3> QED
      BY <1>1, <1>5
  <2> HIDE DEF P, Step
  <2> QED
    BY <1>6, <2>1
<1>8. Sums(F, k, T, h)
  BY <1>7 DEF Sums
<1> QED
  BY <1>8 DEF SumOf

(* What the function gives is a natural number.                            *)
LEMMA SumType ==
  ASSUME NEW F, NEW k, NEW T, IsFiniteSet(T),
         \A t \in T : F[t][k] \in Nat
  PROVE  \A s \in SUBSET T :
           /\ SumOf(F, k, T)[s] \in Nat
           /\ s = {} => SumOf(F, k, T)[s] = 0
           /\ s # {} => SumOf(F, k, T)[s] =
                          F[Chosen(s)][k] + SumOf(F, k, T)[s \ {Chosen(s)}]
<1> DEFINE g == SumOf(F, k, T)
           C == {u \in SUBSET T : g[u] \notin Nat}
<1>1. ASSUME NEW u \in SUBSET T
      PROVE  g[u] = IF u = {} THEN 0
                    ELSE F[Chosen(u)][k] + g[u \ {Chosen(u)}]
  <2>1. Sums(F, k, T, g)
    BY SumExists
  <2> HIDE DEF g
  <2> QED
    BY <2>1 DEF Sums
<1> HIDE DEF g
<1>2. C = {}
  <2> SUFFICES ASSUME C # {} PROVE FALSE
    OBVIOUS
  <2>1. PICK u \in C : \A x \in u : u \ {x} \notin C
    <3>1. C \in SUBSET SUBSET T
      OBVIOUS
    <3> HIDE DEF C
    <3> QED
      BY <3>1, MinimalSubset
  <2>2. u # {}
    <3>1. u = {} => g[u] = 0
      BY <1>1
    <3>2. g[u] # 0
      OBVIOUS
    <3> QED
      BY <3>1, <3>2
  <2> DEFINE c == Chosen(u)
             a == F[c][k]
             b == g[u \ {c}]
  <2>3. c \in u
    BY <2>2, ChosenIn
  <2>4. a \in Nat /\ b \in Nat
    BY <2>1, <2>3
  <2>5. g[u] = a + b
    BY <1>1, <2>2
  <2>6. a + b \in Nat
    <3> HIDE DEF a, b
    <3> QED
      BY <2>4
  <2> QED
    BY <2>5, <2>6
<1> QED
  BY <1>1, <1>2 DEF g

LEMMA SumEmpty ==
  ASSUME NEW F, NEW k, NEW T, IsFiniteSet(T),
         \A t \in T : F[t][k] \in Nat
  PROVE  SumOf(F, k, T)[{}] = 0
<1>1. {} \in SUBSET T
  OBVIOUS
<1>2. \A s \in SUBSET T : s = {} => SumOf(F, k, T)[s] = 0
  BY SumType
<1> QED
  BY <1>1, <1>2

(* The order does not matter: any element may be the last to be added.     *)
LEMMA SumStep ==
  ASSUME NEW F, NEW k, NEW T, IsFiniteSet(T),
         \A t \in T : F[t][k] \in Nat
  PROVE  \A s \in SUBSET T : \A y \in s :
           SumOf(F, k, T)[s] = F[y][k] + SumOf(F, k, T)[s \ {y}]
<1> DEFINE g == SumOf(F, k, T)
           Ok(u) == \A x \in u : g[u] = F[x][k] + g[u \ {x}]
           C == {u \in SUBSET T : ~Ok(u)}
<1>1. ASSUME NEW u \in SUBSET T
      PROVE  /\ g[u] \in Nat
             /\ u # {} => g[u] = F[Chosen(u)][k] + g[u \ {Chosen(u)}]
  BY SumType
<1> HIDE DEF g
<1>2. C = {}
  <2> SUFFICES ASSUME C # {} PROVE FALSE
    OBVIOUS
  <2>1. PICK u \in C : \A x \in u : u \ {x} \notin C
    <3>1. C \in SUBSET SUBSET T
      OBVIOUS
    <3> HIDE DEF C
    <3> QED
      BY <3>1, MinimalSubset
  <2>2. PICK x \in u : g[u] # F[x][k] + g[u \ {x}]
    OBVIOUS
  <2> DEFINE c == Chosen(u)
             p == g[u \ {c}]
             q == g[u \ {x}]
             r == g[(u \ {c}) \ {x}]
             fc == F[c][k]
             fx == F[x][k]
  <2>3. c \in u /\ g[u] = fc + p
    BY <1>1, <2>2, ChosenIn
  <2>4. x # c
    BY <2>2, <2>3
  <2>5. p = fx + r
    BY <2>1, <2>3, <2>4
  <2>6. q = fc + r
    <3>1. (u \ {c}) \ {x} = (u \ {x}) \ {c}
      OBVIOUS
    <3>2. q = fc + g[(u \ {x}) \ {c}]
      BY <2>1, <2>3, <2>4
    <3> QED
      BY <3>1, <3>2
  <2>7. r \in Nat /\ fc \in Nat /\ fx \in Nat
    BY <1>1, <2>3
  <2>8. g[u] = fx + q
    <3> HIDE DEF p, q, r, fc, fx
    <3> QED
      BY <2>3, <2>5, <2>6, <2>7
  <2> QED
    BY <2>2, <2>8
<1>3. \A s \in SUBSET T : Ok(s)
  BY <1>2
<1> QED
  BY <1>3 DEF g

(* Two sums agree on the intervals A if their counts do where both of them *)
(* add, and one of them counts only zeros where the other does not add.    *)
LEMMA SameSums ==
  ASSUME NEW F, NEW G, NEW k, NEW T, IsFiniteSet(T),
         \A t \in T : F[t][k] \in Nat,
         NEW U, IsFiniteSet(U),
         \A t \in U : G[t][k] \in Nat,
         NEW A \in SUBSET T,
         \A t \in A \cap U : F[t][k] = G[t][k],
         \A t \in A \ U : F[t][k] = 0
  PROVE  SumOf(F, k, T)[A] = SumOf(G, k, U)[A \cap U]
<1> DEFINE f == SumOf(F, k, T)
           g == SumOf(G, k, U)
           C == {s \in SUBSET A : f[s] # g[s \cap U]}
<1>1. C = {}
  <2> SUFFICES ASSUME C # {} PROVE FALSE
    OBVIOUS
  <2>1. PICK s \in C : \A x \in s : s \ {x} \notin C
    <3>1. C \in SUBSET SUBSET A
      OBVIOUS
    <3>2. IsFiniteSet(A)
      BY FS_Subset
    <3> HIDE DEF C
    <3> QED
      BY <3>1, <3>2, MinimalSubset
  <2>2. s # {}
    <3>1. ASSUME s = {} PROVE f[s] = 0 /\ g[s \cap U] = 0
      <4>1. s \cap U = {}
        BY <3>1
      <4>2. SumOf(F, k, T)[{}] = 0
        BY SumEmpty
      <4>3. SumOf(G, k, U)[{}] = 0
        BY SumEmpty
      <4> QED
        BY <3>1, <4>1, <4>2, <4>3
    <3> QED
      BY <3>1
  <2>3. PICK x \in s : TRUE
    BY <2>2
  <2>4. f[s \ {x}] = g[(s \ {x}) \cap U]
    BY <2>1, <2>3
  <2>5. f[s] = F[x][k] + f[s \ {x}]
    BY SumStep
  <2>6. CASE x \in U
    <3>1. (s \ {x}) \cap U = (s \cap U) \ {x} /\ x \in s \cap U
          /\ s \cap U \in SUBSET U
      BY <2>6
    <3>2. g[s \cap U] = G[x][k] + g[(s \cap U) \ {x}]
      BY <3>1, SumStep
    <3>3. F[x][k] = G[x][k]
      BY <2>6
    <3>4. f[s] = g[s \cap U]
      BY <2>4, <2>5, <3>1, <3>2, <3>3
    <3> QED
      BY <3>4
  <2>7. CASE x \notin U
    <3>1. (s \ {x}) \cap U = s \cap U
      BY <2>7
    <3>2. F[x][k] = 0
      BY <2>7
    <3>3. f[s \ {x}] \in Nat
      <4>1. s \ {x} \in SUBSET T
        OBVIOUS
      <4> QED
        BY <4>1, SumType
    <3> DEFINE a == f[s \ {x}]
    <3>4. 0 + a = a
      <4> HIDE DEF a
      <4> QED
        BY <3>3 DEF a
    <3>5. f[s] = g[s \cap U]
      BY <2>4, <2>5, <3>1, <3>2, <3>4
    <3> QED
      BY <3>5
  <2> QED
    BY <2>6, <2>7
<1>2. A \notin C /\ A \in SUBSET A
  BY <1>1
<1> QED
  BY <1>2

LEMMA OneMore ==
  ASSUME NEW F, NEW G, NEW k, NEW T, IsFiniteSet(T),
         \A t \in T : G[t][k] \in Nat,
         NEW U, IsFiniteSet(U),
         \A t \in U : F[t][k] \in Nat,
         NEW n \in T \ U, U \subseteq T,
         \A t \in U : G[t][k] = F[t][k],
         \A t \in T \ (U \cup {n}) : G[t][k] = 0
  PROVE  SumOf(G, k, T)[T] = G[n][k] + SumOf(F, k, U)[U]
<1> DEFINE A == T \ {n}
<1>1. A \in SUBSET T /\ A \in SUBSET A /\ T \in SUBSET T
  OBVIOUS
<1>2. A \cap U = U /\ A \ U = T \ (U \cup {n})
  OBVIOUS
<1>3. SumOf(G, k, T)[T] = G[n][k] + SumOf(G, k, T)[A]
  BY <1>1, SumStep
<1>4. SumOf(G, k, T)[A] = SumOf(F, k, U)[A \cap U]
  <2>1. \A t \in A \cap U : G[t][k] = F[t][k]
    OBVIOUS
  <2>2. \A t \in A \ U : G[t][k] = 0
    BY <1>2
  <2> HIDE DEF A
  <2> QED
    BY <1>1, <2>1, <2>2, SameSums
<1> QED
  BY <1>2, <1>3, <1>4

(* What was reported of k in the first n intervals, and what is added to   *)
(* it when interval n is closed and those up to m stay empty.              *)
Reported(F, k, n) == SumOf(F, k, 0 .. n - 1)[0 .. n - 1]

LEMMA Earlier ==
  ASSUME NEW N \in Nat, NEW n \in 0 .. N
  PROVE  IsFiniteSet(0 .. n - 1) /\ 0 .. n - 1 \subseteq 0 .. N
<1>1. n - 1 \in Int
  OBVIOUS
<1>2. IsFiniteSet(0 .. n - 1)
  BY <1>1, FS_Interval
<1> QED
  BY <1>2

LEMMA ReportedType ==
  ASSUME NEW N \in Nat, NEW F, NEW k,
         \A t \in 0 .. N : F[t][k] \in Nat, NEW n \in 0 .. N
  PROVE  Reported(F, k, n) \in Nat
<1> DEFINE T == 0 .. n - 1
<1>1. T \subseteq 0 .. N
  BY Earlier
<1>2. IsFiniteSet(T)
  BY Earlier
<1>3. \A t \in T : F[t][k] \in Nat
  BY <1>1
<1> HIDE DEF T
<1>4. \A s \in SUBSET T : SumOf(F, k, T)[s] \in Nat
  BY <1>2, <1>3, SumType
<1> QED
  BY <1>4 DEF Reported, T

LEMMA ReportedMore ==
  ASSUME NEW F, NEW G, NEW k, NEW n \in Nat, NEW m \in Nat, n < m,
         \A t \in 0 .. m : /\ F[t][k] \in Nat /\ G[t][k] \in Nat
                           /\ t < n => F[t][k] = G[t][k]
                           /\ n < t /\ t < m => G[t][k] = 0
  PROVE  Reported(G, k, m) = Reported(F, k, n) + G[n][k]
<1> DEFINE T == 0 .. m - 1
           U == 0 .. n - 1
<1>0. n \in 0 .. m /\ m \in 0 .. m
  OBVIOUS
<1>1. IsFiniteSet(T) /\ T \subseteq 0 .. m
  BY <1>0, Earlier
<1>2. IsFiniteSet(U) /\ U \subseteq 0 .. m
  BY <1>0, Earlier
<1>3. n \in T \ U /\ U \subseteq T
  OBVIOUS
<1>4. \A t \in U : G[t][k] = F[t][k]
  OBVIOUS
<1>5. \A t \in T \ (U \cup {n}) : G[t][k] = 0
  OBVIOUS
<1>6. \A t \in T : G[t][k] \in Nat
  BY <1>1
<1>7. \A t \in U : F[t][k] \in Nat
  BY <1>2
<1>8. IsFiniteSet(T)
  BY <1>1
<1>9. IsFiniteSet(U)
  BY <1>2
<1> HIDE DEF T, U
<1>10. SumOf(G, k, T)[T] = G[n][k] + SumOf(F, k, U)[U]
  <2>1. U \subseteq T
    BY <1>3
  <2>2. ASSUME NEW x, x \in T \ U, \A t \in T \ (U \cup {x}) : G[t][k] = 0
        PROVE  SumOf(G, k, T)[T] = G[x][k] + SumOf(F, k, U)[U]
    BY <1>4, <1>6, <1>7, <1>8, <1>9, <2>1, <2>2, OneMore
  <2> QED
    BY <1>3, <1>5, <2>2
<1>11. Reported(G, k, m) = G[n][k] + Reported(F, k, n)
  BY <1>10 DEF Reported, T, U
<1>12. G[n][k] \in Nat /\ Reported(F, k, n) \in Nat
  BY <1>0, ReportedType
<1> QED
  BY <1>11, <1>12

LEMMA ReportedSame ==
  ASSUME NEW N \in Nat, NEW F, NEW G, NEW k,
         \A t \in 0 .. N : F[t][k] \in Nat /\ G[t][k] \in Nat,
         NEW n \in 0 .. N,
         \A t \in 0 .. n - 1 : G[t] = F[t]
  PROVE  Reported(G, k, n) = Reported(F, k, n)
<1> DEFINE T == 0 .. n - 1
<1>1. IsFiniteSet(T)
  BY Earlier
<1>2. \A t \in T : G[t][k] \in Nat
  BY Earlier
<1>3. \A t \in T : F[t][k] \in Nat
  BY Earlier
<1>4. \A t \in T \cap T : G[t][k] = F[t][k]
  OBVIOUS
<1>5. \A t \in T \ T : G[t][k] = 0
  OBVIOUS
<1>6. T \in SUBSET T /\ T \cap T = T
  OBVIOUS
<1> HIDE DEF T
<1>7. SumOf(G, k, T)[T] = SumOf(F, k, T)[T \cap T]
  BY <1>1, <1>2, <1>3, <1>4, <1>5, <1>6, SameSums
<1> QED
  BY <1>6, <1>7 DEF Reported, T

-----------------------------------------------------------------------------
(* Where the counts are.  The table of the statistics has one info for     *)
(* each name, always enabled; what it holds for k is not reported yet.     *)
StatTable(t) ==
  /\ S!WellFormed(t)
  /\ S!EnabledIds(t) = S!Ids(t)
  /\ \A i \in S!Ids(t) : S!GetKey(t, t.infos[i].key) = i

Open(t, k) ==
  IF S!GetKey(t, k) = NoId THEN 0 ELSE t.infos[S!GetKey(t, k)].value

(* The intervals behind the current one are untouched, and so is, in the   *)
(* current one, every statistic that has no info yet.                      *)
LaterEmpty ==
  \A k \in StatKeys :
    /\ \A t \in 0 .. MaxNow : t > stats_time => statStore[t][k] = 0
    /\ S!GetKey(stats_kp, k) = NoId => statStore[stats_time][k] = 0

CountsKept ==
  \A k \in StatKeys :
    total[k] <= IntMax =>
      total[k] = Reported(statStore, k, stats_time) + Open(stats_kp, k)

CountsInv ==
  StatTable(stats_kp) /\ stats_time <= now /\ LaterEmpty /\ CountsKept

(* That is the property, with its sum spelled out.                         *)
LEMMA CountsKeptIsConserved == CountsKept => StatsConserved
BY DEF CountsKept, StatsConserved, Reported, SumOf, Sums, Chosen, Open,
       MapThenSumSet, MapThenFoldSet

(* What an info of the statistics holds.                                   *)
LEMMA OpenType ==
  ASSUME NEW t, S!WellFormed(t), NEW k \in StatKeys
  PROVE  Open(t, k) \in Nat
<1>1. CASE S!GetKey(t, k) = NoId
  BY <1>1 DEF Open
<1>2. CASE S!GetKey(t, k) # NoId
  <2>1. SP!WellFormed(t)
    BY SameWellFormed
  <2>2. t.hash[k] \in SP!Ids(t) /\ t \in SP!Table
    BY <1>2, <2>1 DEF SP!WellFormed, SP!LookupSound, S!GetKey, SP!NoId, NoId
  <2>3. t.infos[t.hash[k]] \in SP!KeyInfo
    BY <2>2, SP!TableIds, LastIdAssumption
  <2> QED
    BY <1>2, <2>3 DEF Open, S!GetKey, SP!KeyInfo
<1> QED
  BY <1>1, <1>2

(* inc_stat adds to one statistic and leaves the others alone.             *)
LEMMA IncStatEffect ==
  ASSUME NEW t, StatTable(t), NEW k \in StatKeys, NEW v \in Nat
  PROVE  LET u == IncStat(t, k, v)
         IN /\ StatTable(u)
            /\ Open(u, k) = ThroughInt(Open(t, k) + v)
            /\ \A l \in StatKeys \ {k} : Open(u, l) = Open(t, l)
            /\ \A l \in StatKeys :
                 S!GetKey(u, l) = NoId => S!GetKey(t, l) = NoId
<1> DEFINE with == IF S!GetKey(t, k) = NoId THEN S!AddKey(t, k) ELSE t
           i == S!GetKey(with, k)
           w == ThroughInt(with.infos[i].value + v)
           u == SP!SetValue(with, i, w)
<1>0. /\ SP!WellFormed(t) /\ t.hash \in [StatKeys -> Nat]
      /\ SP!EnabledIds(t) = SP!Ids(t)
      /\ \A j \in SP!Ids(t) : t.hash[t.infos[j].key] = j
  <2>1. SP!WellFormed(t)
    BY SameWellFormed DEF StatTable
  <2>2. t.hash \in [StatKeys -> Nat]
    BY <2>1 DEF SP!WellFormed, SP!Table
  <2> QED
    BY <2>1, <2>2, SameBasics DEF StatTable, S!GetKey
<1>1. /\ SP!WellFormed(with) /\ with.hash \in [StatKeys -> Nat]
      /\ SP!EnabledIds(with) = SP!Ids(with)
      /\ \A j \in SP!Ids(with) : with.hash[with.infos[j].key] = j
      /\ i \in SP!Ids(with) /\ i # NoId /\ with.infos[i].key = k
      /\ with.infos[i].value = Open(t, k)
      /\ \A l \in StatKeys \ {k} :
           /\ with.hash[l] = t.hash[l]
           /\ with.hash[l] # NoId =>
                /\ with.hash[l] \in SP!Ids(t)
                /\ with.infos[with.hash[l]] = t.infos[with.hash[l]]
                /\ with.infos[with.hash[l]].key = l
  <2>1. CASE S!GetKey(t, k) = NoId
    <3> DEFINE n == Len(t.infos) + 1
    <3>1. with = SP!AddKey(t, k)
      BY <2>1, SameOperations
    <3>2. SP!WellFormed(with)
      BY <1>0, <3>1, SP!AddKeyWellFormed, LastIdAssumption
    <3>3. /\ n \in Nat /\ n \notin SP!Ids(t)
          /\ SP!Ids(with) = SP!Ids(t) \cup {n}
          /\ SP!EnabledIds(with) = SP!EnabledIds(t) \cup {n}
          /\ with.hash = [t.hash EXCEPT ![k] = n]
          /\ with.infos[n] = SP!FreshInfo(k)
          /\ \A j \in SP!Ids(t) : with.infos[j] = t.infos[j]
      BY <1>0, <3>1, SP!AddKeyEffect, LastIdAssumption
    <3>4. n # NoId
      <4>1. Len(t.infos) \in Nat
        BY <1>0, SP!TableIds, LastIdAssumption DEF SP!WellFormed
      <4> QED
        BY <4>1 DEF NoId
    <3> HIDE DEF with, n
    <3>5. i = n
      BY <1>0, <3>3 DEF S!GetKey
    <3>6. \A l \in StatKeys : t.hash[l] # NoId =>
            t.hash[l] \in SP!Ids(t) /\ t.infos[t.hash[l]].key = l
      BY <1>0 DEF SP!WellFormed, SP!LookupSound, SP!NoId, NoId
    <3>7. \A l \in StatKeys \ {k} : with.hash[l] = t.hash[l]
      BY <1>0, <3>3
    <3>8. \A j \in SP!Ids(t) : t.infos[j].key \in StatKeys
      BY <1>0, SP!TableIds, LastIdAssumption DEF SP!WellFormed, SP!KeyInfo
    <3>9. ASSUME NEW j \in SP!Ids(with)
          PROVE  with.hash[with.infos[j].key] = j
      <4>1. CASE j = n
        BY <1>0, <3>3, <4>1 DEF SP!FreshInfo
      <4>2. CASE j # n
        <5>1. j \in SP!Ids(t) /\ with.infos[j] = t.infos[j]
          BY <3>3, <4>2
        <5>2. t.hash[t.infos[j].key] = j /\ j # NoId
          <6>1. SP!Ids(t) \subseteq Nat \ {0}
            BY <1>0, SP!TableIds, LastIdAssumption DEF SP!WellFormed
          <6> QED
            BY <1>0, <5>1, <6>1 DEF NoId
        <5>3. t.infos[j].key # k
          BY <2>1, <5>2 DEF S!GetKey
        <5> QED
          BY <3>7, <3>8, <5>1, <5>2, <5>3
      <4> QED
        BY <4>1, <4>2
    <3>10. with.infos[n].key = k /\ with.infos[n].value = 0
      BY <3>3 DEF SP!FreshInfo
    <3>11. Open(t, k) = 0
      BY <2>1 DEF Open
    <3>12. SP!EnabledIds(with) = SP!Ids(with) /\ with.hash \in [StatKeys -> Nat]
      BY <1>0, <3>3
    <3> HIDE DEF i
    <3>13. \A l \in StatKeys \ {k} :
             /\ with.hash[l] = t.hash[l]
             /\ with.hash[l] # NoId =>
                  /\ with.hash[l] \in SP!Ids(t)
                  /\ with.infos[with.hash[l]] = t.infos[with.hash[l]]
                  /\ with.infos[with.hash[l]].key = l
      <4>1. TAKE l \in StatKeys \ {k}
      <4> QED
        BY <3>3, <3>6, <3>7
    <3>14. n \in SP!Ids(with)
      BY <3>3
    <3> QED
      BY <3>2, <3>4, <3>5, <3>9, <3>10, <3>11, <3>12, <3>13, <3>14
  <2>2. CASE S!GetKey(t, k) # NoId
    <3>1. with = t
      BY <2>2
    <3>2. \A l \in StatKeys : t.hash[l] # NoId =>
            t.hash[l] \in SP!Ids(t) /\ t.infos[t.hash[l]].key = l
      BY <1>0 DEF SP!WellFormed, SP!LookupSound, SP!NoId, NoId
    <3> HIDE DEF with
    <3> QED
      BY <1>0, <2>2, <3>1, <3>2 DEF S!GetKey, Open
  <2> QED
    BY <2>1, <2>2
<1> HIDE DEF with
<1>2. w \in Nat
  <2>1. Open(t, k) \in Nat
    BY OpenType DEF StatTable
  <2> QED
    BY <1>1, <2>1, ThroughIntIsNat
<1>3. w = ThroughInt(Open(t, k) + v)
  BY <1>1
<1> HIDE DEF w
<1>4. SP!WellFormed(u)
  BY <1>1, <1>2, SP!SetValueWellFormed, LastIdAssumption
<1>5. /\ u.hash = with.hash /\ SP!Ids(u) = SP!Ids(with)
      /\ SP!EnabledIds(u) = SP!EnabledIds(with)
      /\ \A j \in SP!Ids(with) :
           /\ u.infos[j].key = with.infos[j].key
           /\ u.infos[j].value = IF j = i THEN w ELSE with.infos[j].value
  BY <1>1, <1>2, SP!SetValueEffect, LastIdAssumption
<1>6. u = IncStat(t, k, v)
  BY SameOperations DEF IncStat, with, w
<1> HIDE DEF u
<1>7. StatTable(u)
  <2>1. S!WellFormed(u)
    BY <1>4, SameWellFormed
  <2>2. S!EnabledIds(u) = S!Ids(u)
    BY <1>1, <1>5, SameBasics
  <2>3. \A j \in S!Ids(u) : S!GetKey(u, u.infos[j].key) = j
    BY <1>1, <1>5, SameBasics DEF S!GetKey
  <2> QED
    BY <2>1, <2>2, <2>3 DEF StatTable
<1>8. i = with.hash[k]
  BY DEF S!GetKey
<1> HIDE DEF i
<1>9. Open(u, k) = w
  BY <1>1, <1>5, <1>8 DEF Open, S!GetKey
<1>10. ASSUME NEW l \in StatKeys \ {k}
       PROVE  /\ Open(u, l) = Open(t, l)
              /\ S!GetKey(u, l) = S!GetKey(t, l)
  <2>1. u.hash[l] = t.hash[l]
    BY <1>1, <1>5
  <2>2. ASSUME t.hash[l] # NoId
        PROVE  u.infos[t.hash[l]].value = t.infos[t.hash[l]].value
    <3>1. /\ with.hash[l] = t.hash[l] /\ t.hash[l] \in SP!Ids(t)
          /\ with.infos[t.hash[l]] = t.infos[t.hash[l]]
          /\ with.infos[t.hash[l]].key = l
      BY <1>1, <2>2
    <3>2. t.hash[l] # i
      BY <1>1, <3>1
    <3>3. t.hash[l] \in SP!Ids(with)
      <4>1. with.hash[l] \in SP!Ids(with)
        BY <1>1, <2>2, <3>1 DEF SP!WellFormed, SP!LookupSound, SP!NoId, NoId
      <4> QED
        BY <3>1, <4>1
    <3> QED
      BY <1>5, <3>1, <3>2, <3>3
  <2> QED
    BY <2>1, <2>2 DEF Open, S!GetKey
<1>11. S!GetKey(u, k) # NoId
  BY <1>1, <1>5, <1>8 DEF S!GetKey
<1> QED
  BY <1>3, <1>6, <1>7, <1>9, <1>10, <1>11

(* Two calls of inc_stat, while the sum fits into an int.                  *)
LEMMA CountKeeps ==
  ASSUME StatInv, CountsInv,
         NEW k1 \in StatKeys, NEW v1 \in Nat,
         NEW k2 \in StatKeys, NEW v2 \in Nat, k1 # k2,
         Count(k1, v1, k2, v2), UNCHANGED <<stats_time, statStore, now>>
  PROVE  CountsInv'
<1> DEFINE m == IncStat(stats_kp, k1, v1)
           u == IncStat(m, k2, v2)
<1>1. /\ StatTable(m)
      /\ Open(m, k1) = ThroughInt(Open(stats_kp, k1) + v1)
      /\ \A l \in StatKeys \ {k1} : Open(m, l) = Open(stats_kp, l)
      /\ \A l \in StatKeys : S!GetKey(m, l) = NoId => S!GetKey(stats_kp, l) = NoId
  BY IncStatEffect DEF CountsInv
<1> HIDE DEF m
<1>2. /\ StatTable(u)
      /\ Open(u, k2) = ThroughInt(Open(m, k2) + v2)
      /\ \A l \in StatKeys \ {k2} : Open(u, l) = Open(m, l)
      /\ \A l \in StatKeys : S!GetKey(u, l) = NoId => S!GetKey(m, l) = NoId
  BY <1>1, IncStatEffect
<1> HIDE DEF u
<1>3. /\ stats_kp' = u
      /\ total' = [total EXCEPT ![k1] = Counted(total[k1] + v1),
                                ![k2] = Counted(total[k2] + v2)]
      /\ stats_time' = stats_time /\ statStore' = statStore /\ now' = now
  BY DEF Count, u, m
<1>4. ASSUME NEW k \in StatKeys, NEW v \in Nat, total'[k] = total[k] + v,
             v = 0 => Open(u, k) = Open(stats_kp, k),
             v # 0 => Open(u, k) = ThroughInt(Open(stats_kp, k) + v),
             total'[k] <= IntMax
      PROVE  total'[k] = Reported(statStore, k, stats_time) + Open(u, k)
  <2> DEFINE tk == total[k]
             r == Reported(statStore, k, stats_time)
             o == Open(stats_kp, k)
  <2>1. tk \in Nat /\ IntMax \in Nat
    BY TskProxyAssumption DEF StatInv
  <2>2. r \in Nat
    <3>1. \A t \in 0 .. MaxNow : statStore[t][k] \in Nat
      BY DEF StatInv
    <3>2. MaxNow \in Nat /\ stats_time \in 0 .. MaxNow
      BY TskProxyAssumption DEF StatInv
    <3> QED
      BY <3>1, <3>2, ReportedType
  <2>3. o \in Nat
    BY OpenType DEF StatInv
  <2>4. tk <= IntMax => tk = r + o
    BY DEF CountsInv, CountsKept
  <2>5. total'[k] = tk + v
    BY <1>4
  <2> HIDE DEF tk, r, o
  <2>6. tk = r + o /\ o + v <= IntMax
    BY <1>4, <2>1, <2>2, <2>3, <2>4, <2>5
  <2>7. ThroughInt(o + v) = o + v
    BY <2>6 DEF ThroughInt
  <2>8. Open(u, k) = o + v
    BY <1>4, <2>3, <2>7 DEF o
  <2>9. total'[k] = r + Open(u, k)
    BY <2>2, <2>3, <2>5, <2>6, <2>8
  <2> QED
    BY <2>9 DEF r
<1>5. ASSUME NEW k \in StatKeys, total'[k] <= IntMax
      PROVE  total'[k] = Reported(statStore, k, stats_time) + Open(u, k)
  <2>1. ThroughInt(Open(stats_kp, k) + 0) = Open(stats_kp, k)
        \/ ~(Open(stats_kp, k) <= IntMax)
    <3>1. Open(stats_kp, k) \in Nat
      BY OpenType DEF StatInv
    <3> QED
      BY <3>1 DEF ThroughInt
  <2>2. total[k] \in Nat /\ total \in [StatKeys -> Nat]
    BY DEF StatInv
  <2>3. PICK v \in Nat : total'[k] = total[k] + v
          /\ \/ k = k1 /\ v = v1
             \/ k = k2 /\ v = v2
             \/ k \notin {k1, k2} /\ v = 0
    <3>1. CASE k = k1
      <4>1. total'[k] = Counted(total[k] + v1) /\ total[k] + v1 \in Nat
        BY <1>3, <2>2, <3>1
      <4> QED
        BY <1>5, <3>1, <4>1, CountedExact
    <3>2. CASE k = k2
      <4>1. total'[k] = Counted(total[k] + v2) /\ total[k] + v2 \in Nat
        BY <1>3, <2>2, <3>2
      <4> QED
        BY <1>5, <3>2, <4>1, CountedExact
    <3>3. CASE k \notin {k1, k2}
      BY <1>3, <2>2, <3>3
    <3> QED
      BY <3>1, <3>2, <3>3
  <2>4. \/ Open(u, k) = ThroughInt(Open(stats_kp, k) + v)
        \/ v = 0 /\ Open(u, k) = Open(stats_kp, k)
    BY <1>1, <1>2, <2>3
  <2>5. CASE v = 0 /\ Open(u, k) = Open(stats_kp, k)
    BY <1>4, <1>5, <2>3, <2>5
  <2>6. CASE Open(u, k) = ThroughInt(Open(stats_kp, k) + v)
    <3>1. CASE v # 0
      BY <1>4, <1>5, <2>3, <2>6, <3>1
    <3>2. CASE v = 0
      <4> DEFINE o == Open(stats_kp, k)
                 r == Reported(statStore, k, stats_time)
      <4>1. o \in Nat /\ IntMax \in Nat
        BY OpenType, TskProxyAssumption DEF StatInv
      <4>2. r \in Nat
        <5>1. \A t \in 0 .. MaxNow : statStore[t][k] \in Nat
          BY DEF StatInv
        <5>2. MaxNow \in Nat /\ stats_time \in 0 .. MaxNow
          BY TskProxyAssumption DEF StatInv
        <5> QED
          BY <5>1, <5>2, ReportedType
      <4>3. total[k] <= IntMax
        BY <1>5, <2>2, <2>3, <3>2
      <4>4. total[k] = r + o
        BY <4>3 DEF CountsInv, CountsKept
      <4>5. o <= IntMax
        <5> HIDE DEF o, r
        <5> QED
          BY <4>1, <4>2, <4>3, <4>4
      <4>6. Open(u, k) = o
        BY <2>1, <2>6, <3>2, <4>5
      <4> QED
        BY <1>4, <1>5, <2>3, <3>2, <4>6
    <3> QED
      BY <3>1, <3>2
  <2> QED
    BY <2>4, <2>5, <2>6
<1>6. CountsKept'
  BY <1>3, <1>5 DEF CountsKept
<1>7. LaterEmpty'
  BY <1>1, <1>2, <1>3 DEF CountsInv, LaterEmpty
<1> QED
  BY <1>2, <1>3, <1>6, <1>7 DEF CountsInv

(* What a flush that succeeds writes of k is what the package held.        *)
LEMMA AllWritten ==
  ASSUME StatInv, CountsInv, NEW k \in StatKeys
  PROVE  StatsWritten(Len(stats_kp.infos))[stats_time][k] = Open(stats_kp, k)
<1> DEFINE n == Len(stats_kp.infos)
           W == S!Writers(stats_kp, k, n)
           h == stats_kp.hash[k]
<1>0. /\ SP!WellFormed(stats_kp) /\ stats_kp \in SP!Table
      /\ S!EnabledIds(stats_kp) = S!Ids(stats_kp)
      /\ \A i \in S!Ids(stats_kp) : stats_kp.hash[stats_kp.infos[i].key] = i
  BY SameWellFormed DEF CountsInv, StatTable, SP!WellFormed, S!GetKey
<1>1. StatsWritten(n)[stats_time][k] =
        IF W # {} THEN S!WrittenValue(stats_kp, k, n) ELSE statStore[stats_time][k]
  BY DEF StatsWritten, StatInv
<1>2. \A i \in W : i = h /\ i # NoId
  <2>1. SP!Ids(stats_kp) \subseteq Nat \ {0}
    BY <1>0, SP!TableIds, LastIdAssumption
  <2> QED
    BY <1>0, <2>1, SameBasics DEF S!Writers, NoId
<1>3. h # NoId => h \in W
  <2>1. n \in Nat
    BY <1>0, SP!TableIds, LastIdAssumption
  <2>2. h # NoId => h \in S!Ids(stats_kp) /\ stats_kp.infos[h].key = k
    BY <1>0, SameBasics DEF SP!WellFormed, SP!LookupSound, SP!NoId, NoId
  <2> QED
    BY <1>0, <2>1, <2>2 DEF S!Writers, S!Ids
<1> HIDE DEF n
<1>4. CASE h = NoId
  BY <1>1, <1>2, <1>4 DEF Open, S!GetKey, CountsInv, LaterEmpty, n
<1>5. CASE h # NoId
  <2>1. W # {}
    BY <1>3, <1>5
  <2>2. PICK i \in W : S!WrittenValue(stats_kp, k, n) = stats_kp.infos[i].value
    BY <1>0, <2>1, SP!WrittenValueSource, SameOperations, LastIdAssumption
  <2>3. i = h
    BY <1>2
  <2> QED
    BY <1>1, <1>5, <2>1, <2>2, <2>3 DEF Open, S!GetKey, n
<1> QED
  BY <1>4, <1>5

LEMMA IntervalClosed ==
  ASSUME NEW k, stats_time \in Nat, now \in Nat, stats_time < now,
         \A t \in 0 .. now :
           /\ statStore[t][k] \in Nat /\ statStore'[t][k] \in Nat
           /\ t < stats_time => statStore[t][k] = statStore'[t][k]
           /\ stats_time < t /\ t < now => statStore'[t][k] = 0
  PROVE  Reported(statStore', k, now) =
           Reported(statStore, k, stats_time) + statStore'[stats_time][k]
BY ReportedMore

(* maybe_flush_stats: an interval is closed with what the package held, or *)
(* stays open and is written anew with the next flush.                     *)
LEMMA StatsFlushKeeps ==
  ASSUME StatInv, CountsInv, now \in 0 .. MaxNow, MaybeFlushStats,
         UNCHANGED <<total, now>>
  PROVE  CountsInv'
<1>0. MaxNow \in Nat /\ stats_time \in 0 .. MaxNow
  BY TskProxyAssumption DEF StatInv
<1>1. \A n : \A t \in 0 .. MaxNow : t # stats_time =>
        StatsWritten(n)[t] = statStore[t]
  BY DEF StatsWritten, StatInv
<1>2. CASE UNCHANGED <<stats_kp, stats_time, statStore>>
  BY <1>2 DEF CountsInv, CountsKept, LaterEmpty
<1>3. CASE /\ now >= stats_time + 1
           /\ statStore' = StatsWritten(Len(stats_kp.infos))
           /\ stats_kp' = S!FlushDone(stats_kp, StatsBackend, FALSE, {"RESET"})
           /\ stats_time' = now
  <2> DEFINE clean == [stats_kp EXCEPT !.dirty = FALSE]
             u == SP!ResetDisable(clean, {"RESET"})
  <2>1. SP!WellFormed(stats_kp)
    BY SameWellFormed DEF StatInv
  <2>2. SP!WellFormed(clean)
    BY <2>1, SP!DirtyWellFormed, LastIdAssumption
  <2>3. clean.hash = stats_kp.hash /\ clean.infos = stats_kp.infos
    BY <2>1 DEF SP!WellFormed, SP!Table
  <2> HIDE DEF clean
  <2>4. SP!WellFormed(u)
    BY <2>2, SP!ResetDisableWellFormed, LastIdAssumption DEF SP!FlagSet
  <2>5. /\ u.hash = clean.hash /\ SP!Ids(u) = SP!Ids(clean)
        /\ \A i \in SP!Ids(clean) : /\ u.infos[i].key = clean.infos[i].key
                                    /\ u.infos[i].value = 0
        /\ SP!EnabledIds(u) = SP!EnabledIds(clean)
    BY <2>2, SP!ResetDisableEffect, LastIdAssumption DEF SP!FlagSet
  <2>6. /\ SP!Ids(clean) = SP!Ids(stats_kp)
        /\ SP!EnabledIds(clean) = SP!EnabledIds(stats_kp)
    BY <2>3 DEF SP!Ids, SP!EnabledIds
  <2>7. u = stats_kp'
    BY <1>3, SameOperations DEF S!FlushDone, S!LookedUp, clean
  <2> HIDE DEF u
  <2>8. StatTable(u)
    <3>1. S!WellFormed(u)
      BY <2>4, SameWellFormed
    <3>2. S!EnabledIds(u) = S!Ids(u)
      BY <2>5, <2>6, SameBasics DEF CountsInv, StatTable
    <3>3. \A i \in S!Ids(u) : S!GetKey(u, u.infos[i].key) = i
      BY <2>3, <2>5, <2>6, SameBasics DEF CountsInv, StatTable, S!GetKey
    <3> QED
      BY <3>1, <3>2, <3>3 DEF StatTable
  <2>9. \A k \in StatKeys : Open(u, k) = 0
    <3>1. \A k \in StatKeys : u.hash[k] # NoId => u.hash[k] \in SP!Ids(clean)
      BY <2>4, <2>5 DEF SP!WellFormed, SP!LookupSound, SP!NoId, NoId
    <3> QED
      BY <2>5, <3>1 DEF Open, S!GetKey
  <2>10. \A k \in StatKeys : \A t \in 0 .. MaxNow :
           t > stats_time => statStore'[t][k] = 0
    BY <1>1, <1>3 DEF CountsInv, LaterEmpty
  <2>11. LaterEmpty'
    <3>1. \A k \in StatKeys : \A t \in 0 .. MaxNow :
            t > now => statStore'[t][k] = 0
      BY <1>0, <1>3, <2>10
    <3>2. \A k \in StatKeys : statStore'[now][k] = 0
      BY <1>0, <1>3, <2>10
    <3> QED
      BY <1>3, <3>1, <3>2 DEF LaterEmpty
  <2>12. ASSUME NEW k \in StatKeys, total[k] <= IntMax
         PROVE  total[k] = Reported(statStore', k, now) + 0
    <3>1. total[k] = Reported(statStore, k, stats_time) + Open(stats_kp, k)
      BY <2>12 DEF CountsInv, CountsKept
    <3>2. statStore'[stats_time][k] = Open(stats_kp, k)
      BY <1>3, AllWritten
    <3>3. \A t \in 0 .. MaxNow : statStore[t][k] \in Nat /\ statStore'[t][k] \in Nat
      <4>1. Len(stats_kp.infos) \in Nat
        BY <2>1, SP!TableIds, LastIdAssumption DEF SP!WellFormed
      <4>2. statStore' \in [0 .. MaxNow -> [StatKeys -> Nat]]
        BY <1>3, <4>1, StatsWrittenType
      <4> QED
        BY <4>2 DEF StatInv
    <3>4. \A t \in 0 .. stats_time - 1 : statStore[t][k] = statStore'[t][k]
      BY <1>0, <1>1, <1>3
    <3>5. \A t \in stats_time + 1 .. now - 1 : statStore'[t][k] = 0
      BY <1>0, <2>10
    <3>6. now \in stats_time + 1 .. MaxNow
      BY <1>0, <1>3
    <3>7. Reported(statStore', k, now) =
            Reported(statStore, k, stats_time) + statStore'[stats_time][k]
      <4>1. stats_time \in Nat /\ now \in Nat /\ stats_time < now
        BY <1>0, <3>6
      <4>2. \A t \in 0 .. now :
              /\ statStore[t][k] \in Nat /\ statStore'[t][k] \in Nat
              /\ t < stats_time => statStore[t][k] = statStore'[t][k]
              /\ stats_time < t /\ t < now => statStore'[t][k] = 0
        BY <1>0, <3>3, <3>4, <3>5, <3>6
      <4> QED
        BY <4>1, <4>2, IntervalClosed
    <3>8. Reported(statStore, k, stats_time) \in Nat
      BY <1>0, <3>3, ReportedType
    <3>9. Open(stats_kp, k) \in Nat
      BY OpenType DEF StatInv
    <3> QED
      BY <3>1, <3>2, <3>7, <3>8, <3>9
  <2>13. CountsKept'
    BY <1>3, <2>7, <2>9, <2>12 DEF CountsKept
  <2>14. stats_time' <= now'
    BY <1>3
  <2> QED
    BY <2>7, <2>8, <2>11, <2>13, <2>14 DEF CountsInv
<1>4. CASE /\ \E n \in 0 .. Len(stats_kp.infos) : statStore' = StatsWritten(n)
           /\ stats_kp' = S!WriteFailed(stats_kp, StatsBackend, FALSE)
           /\ UNCHANGED stats_time
  <2> DEFINE u == [stats_kp EXCEPT !.dirty = FALSE]
  <2>1. PICK n \in Nat : statStore' = StatsWritten(n)
    BY <1>4
  <2>2. SP!WellFormed(stats_kp)
    BY SameWellFormed DEF StatInv
  <2>3. SP!WellFormed(u)
    BY <2>2, SP!DirtyWellFormed, LastIdAssumption
  <2>4. u.hash = stats_kp.hash /\ u.infos = stats_kp.infos
    BY <2>2 DEF SP!WellFormed, SP!Table
  <2>5. u = stats_kp'
    BY <1>4 DEF S!WriteFailed, S!LookedUp
  <2> HIDE DEF u
  <2>6. StatTable(u)
    <3>1. S!WellFormed(u)
      BY <2>3, SameWellFormed
    <3>2. S!EnabledIds(u) = S!Ids(u)
      BY <2>4 DEF CountsInv, StatTable, S!EnabledIds, S!Ids
    <3>3. \A i \in S!Ids(u) : S!GetKey(u, u.infos[i].key) = i
      BY <2>4 DEF CountsInv, StatTable, S!GetKey, S!Ids
    <3> QED
      BY <3>1, <3>2, <3>3 DEF StatTable
  <2>7. \A k \in StatKeys : Open(u, k) = Open(stats_kp, k)
                            /\ S!GetKey(u, k) = S!GetKey(stats_kp, k)
    BY <2>4 DEF Open, S!GetKey
  <2>8. ASSUME NEW k \in StatKeys, S!GetKey(stats_kp, k) = NoId
        PROVE  statStore'[stats_time][k] = 0
    <3>1. S!Writers(stats_kp, k, n) = {}
      <4>1. \A i \in S!Ids(stats_kp) : stats_kp.hash[stats_kp.infos[i].key] = i
        BY DEF CountsInv, StatTable, S!GetKey
      <4>2. S!Ids(stats_kp) \subseteq Nat \ {0}
        BY <2>2, SP!TableIds, LastIdAssumption, SameBasics DEF SP!WellFormed
      <4> QED
        BY <2>8, <4>1, <4>2 DEF S!Writers, S!EnabledIds, S!GetKey, NoId
    <3>2. statStore'[stats_time][k] = statStore[stats_time][k]
      BY <2>1, <3>1 DEF StatsWritten, StatInv
    <3> QED
      BY <2>8, <3>2 DEF CountsInv, LaterEmpty
  <2>9. LaterEmpty'
    <3>1. \A k \in StatKeys : \A t \in 0 .. MaxNow :
            t > stats_time => statStore'[t][k] = 0
      BY <1>0, <1>1, <2>1 DEF CountsInv, LaterEmpty
    <3> QED
      BY <1>4, <2>5, <2>7, <2>8, <3>1 DEF LaterEmpty
  <2>10. \A k \in StatKeys :
           Reported(statStore', k, stats_time) = Reported(statStore, k, stats_time)
    <3>1. TAKE k \in StatKeys
    <3>2. \A t \in 0 .. stats_time - 1 : statStore'[t] = statStore[t]
      BY <1>0, <1>1, <2>1
    <3>3. \A t \in 0 .. MaxNow : statStore[t][k] \in Nat /\ statStore'[t][k] \in Nat
      <4>1. statStore' \in [0 .. MaxNow -> [StatKeys -> Nat]]
        BY <2>1, StatsWrittenType
      <4> QED
        BY <4>1 DEF StatInv
    <3> QED
      BY <1>0, <3>2, <3>3, ReportedSame
  <2>11. CountsKept'
    BY <1>4, <2>5, <2>7, <2>10 DEF CountsInv, CountsKept
  <2> QED
    BY <1>4, <2>5, <2>6, <2>9, <2>11 DEF CountsInv
<1> QED
  BY <1>2, <1>3, <1>4 DEF MaybeFlushStats

LEMMA CountsStart == Init => CountsInv
<1> SUFFICES ASSUME Init PROVE CountsInv
  OBVIOUS
<1>1. stats_kp = S!EmptyTable /\ stats_time = 0 /\ now = 0
      /\ statStore = [t \in 0 .. MaxNow |-> [k \in StatKeys |-> 0]]
      /\ total = [k \in StatKeys |-> 0]
  BY DEF Init
<1>2. S!Ids(S!EmptyTable) = {}
  BY DEF S!Ids, S!EmptyTable
<1>3. StatTable(stats_kp)
  BY <1>1, <1>2, StatsStart DEF StatTable, S!EnabledIds
<1>4. \A k \in StatKeys : Open(stats_kp, k) = 0
  BY <1>1 DEF Open, S!GetKey, S!EmptyTable, S!NoId, NoId
<1>5. 0 \in 0 .. MaxNow
  BY TskProxyAssumption
<1>6. LaterEmpty
  BY <1>1, <1>5 DEF LaterEmpty
<1>7. \A k \in StatKeys : Reported(statStore, k, stats_time) = 0
  <2>1. TAKE k \in StatKeys
  <2>2. 0 .. stats_time - 1 = {}
    BY <1>1
  <2>3. IsFiniteSet({})
    BY FS_EmptySet
  <2>4. SumOf(statStore, k, {})[{}] = 0
    BY <2>3, SumEmpty
  <2> QED
    BY <2>2, <2>4 DEF Reported
<1>8. CountsKept
  <2>1. \A k \in StatKeys : total[k] = 0
    BY <1>1
  <2>2. \A k \in StatKeys :
          total[k] = Reported(statStore, k, stats_time) + Open(stats_kp, k)
    <3>1. TAKE k \in StatKeys
    <3>2. total[k] = 0 /\ Reported(statStore, k, stats_time) = 0
          /\ Open(stats_kp, k) = 0
      BY <1>4, <1>7, <2>1
    <3> QED
      BY <3>2
  <2> QED
    BY <2>2 DEF CountsKept
<1> QED
  BY <1>1, <1>3, <1>6, <1>8 DEF CountsInv

(* A flush of the data counts itself and its points.                       *)
LEMMA FlushCounts ==
  ASSUME Inv, CountsInv, CountFlush, UNCHANGED <<stats_time, statStore, now>>
  PROVE  CountsInv'
<1>1. kp.enabledCnt \in Nat
  BY TableIds DEF Inv, DataInv, WellFormed, CountExact
<1>2. /\ "flush_cnt" \in StatKeys /\ "flushed_key_cnt" \in StatKeys
      /\ "flush_cnt" # "flushed_key_cnt"
  BY DEF StatKeys
<1> QED
  BY <1>1, <1>2, CountKeeps DEF Inv, CountFlush

LEMMA CountsStep == Inv /\ CountsInv /\ [Next]_vars => CountsInv'
<1> SUFFICES ASSUME Inv, CountsInv, [Next]_vars PROVE CountsInv'
  OBVIOUS
<1>1. CASE ForceFlush \/ ForceFlushFails \/ HandleMessage \/ HandleMessageFails
           \/ Cleanup \/ CleanupFails
  <2>1. UNCHANGED <<stats_time, statStore, now>>
    BY <1>1 DEF ForceFlush, ForceFlushFails, HandleMessage, HandleMessageFails,
                Cleanup, CleanupFails, outsideFlush
  <2>2. CountFlush \/ UNCHANGED <<stats_kp, total>>
    BY <1>1 DEF ForceFlush, ForceFlushFails, HandleMessage, HandleMessageFails,
                Cleanup, CleanupFails, MaybeFlush, MaybeFlushFails
  <2>3. CASE UNCHANGED <<stats_kp, total>>
    BY <2>1, <2>3 DEF CountsInv, CountsKept, LaterEmpty
  <2> QED
    BY <2>1, <2>2, <2>3, FlushCounts
<1>2. CASE OuterStats \/ BurstStats
  BY <1>2, StatsFlushKeeps DEF OuterStats, BurstStats, Inv, RunInv
<1>3. CASE CountMessage
  <2>1. /\ "messages_cnt" \in StatKeys /\ "messages_bytes" \in StatKeys
        /\ "messages_cnt" # "messages_bytes"
    BY DEF StatKeys
  <2>2. Len(msg.kvs) + 1 \in Nat
    <3>1. msg \in Message
      BY <1>3 DEF CountMessage, Inv, PollInv, RunInv
    <3>2. Len(msg.kvs) \in Nat
      BY <3>1, LenProperties DEF Message
    <3> QED
      BY <3>2
  <2> QED
    BY <1>3, <2>1, <2>2, CountKeeps DEF CountMessage, Inv
<1>4. CASE UNCHANGED <<statVars, now>>
  BY <1>4 DEF statVars, CountsInv, CountsKept, LaterEmpty
<1>5. CASE Tick
  <2>1. stats_time <= now'
    BY <1>5 DEF Tick, CountsInv, Inv, RunInv, StatInv
  <2> QED
    BY <1>5, <2>1 DEF Tick, statVars, CountsInv, CountsKept, LaterEmpty
<1>6. CASE \/ CheckShutdown \/ FirstPoll \/ ParseKeyValue \/ ParseEnds
           \/ ParseGivesUp \/ ParseShortValue \/ ParseSpins \/ RejectMessage
           \/ PartitionEof \/ PollError \/ LeaveBurst \/ NextPoll \/ Sigint
           \/ UNCHANGED vars
  BY <1>4, <1>6
  DEF CheckShutdown, FirstPoll, ParseKeyValue, ParseEnds, ParseGivesUp,
      ParseShortValue, ParseSpins, RejectMessage, PartitionEof, PollError,
      LeaveBurst, NextPoll, Sigint, vars, statVars
<1> QED
  BY <1>1, <1>2, <1>3, <1>5, <1>6 DEF Next, Main

(* No count is lost or reported twice: the intervals that are closed and   *)
(* the package add up to all that inc_stat was given, through flushes that *)
(* fail, are tried again and write some of the statistics twice, for as    *)
(* long as the sum fits into the int that inc_stat adds in.                *)
THEOREM Conserves == Spec => []StatsConserved
<1>1. Inv /\ CountsInv => StatsConserved
  BY CountsKeptIsConserved DEF CountsInv
<1> QED
  BY <1>1, InvAlways, CountsStart, CountsStep, PTL DEF Spec

=============================================================================
