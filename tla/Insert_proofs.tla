--------------------------- MODULE Insert_proofs ---------------------------
(***************************************************************************)
(* timeseries-insert for every input, list of options, set of backends and *)
(* number of lines: the types and the loop that connects to Kafka, that    *)
(* the backends differ in the points of one write at most, that they get   *)
(* nothing that was not read, and that a run that returns 0 has stored     *)
(* everything.                                                             *)
(***************************************************************************)
EXTENDS Insert, KeyPackage_proofs

-----------------------------------------------------------------------------
(* Constants                                                               *)

LEMMA LineNumbers == MaxLines \in Nat /\ 0 .. MaxLines \subseteq Values
BY InsertAssumption

LEMMA TimesOfLines ==
  /\ 0 \in Times
  /\ \A raw \in RawTimes : TimeOf(raw) \in Times /\ TimeOf(raw) \in Nat
<1>1. TimeRange \in Nat \ {0} /\ RawTimes \subseteq Nat
  BY InsertAssumption
<1>2. \A raw \in RawTimes : raw % TimeRange \in Nat
  BY <1>1
<1> QED
  BY <1>2, InsertAssumption DEF TimeOf

LEMMA OptionTypes == OptionLists \subseteq Seq(Backends \cup {0})
BY InsertAssumption

LEMMA BuiltBackends == KAFKA \in Built /\ Built \subseteq Backends
BY FrameworkAssumption

LEMMA WaitTimes ==
  /\ CONNECT_MAX_RETRIES \in Nat \ {0}
  /\ FirstWait \in Nat /\ MaxWait \in Nat /\ FirstWait <= MaxWait
BY FrameworkAssumption

-----------------------------------------------------------------------------
(* The key package under timeseries-insert                                 *)

(* The steps of the library that the program takes: it enables a backend,  *)
(* ...                                                                     *)
Enables ==
  /\ main = "enable"
  /\ \E b \in Built : enabled' = enabled \cup {b}
  /\ UNCHANGED notEnabled

(* ... it is in the loop of timeseries_set_single, ...                     *)
Singles ==
  /\ main \in {"read", "single"}
  /\ UNCHANGED <<kp, flags, enabled, pc, wasDirty, ftime>>
  /\ \/ cur' = 1 /\ store' = store
     \/ \E b \in enabled : \E w \in Values :
          /\ cur' = b + 1
          /\ store' = [store EXCEPT ![b][SlotOf(Len(input))] = w]

(* ... or in timeseries_kp_flush.                                          *)
Flushes ==
  \/ main = "read" /\ FlushBegin(gtime)
  \/ main \in {"flush", "final"} /\ (SkipBackend \/ UpdateBackend \/ WriteBackend)
  \/ main \in {"flush", "final"} /\ (FlushFails \/ FlushEnd)

Fresh ==
  /\ input = << >> /\ gtime = 0 /\ points_pending = 0
  /\ kp = EmptyTable
  /\ \A b \in Backends, s \in Slots : store[b][s] = NoValue

(* Where the program is, and what it has got by then.                      *)
ControlInv ==
  /\ main # "exit" => rc = -1
  /\ flags = {"RESET"}
  /\ gtime \in Nat
  /\ main \in {"options", "enable", "open"} => Fresh
  /\ main = "enable" => opts # << >>
  /\ main \in {"single", "flush", "put"} => input # << >> /\ Len(input) \in Taken
  /\ main = "single" => ~batch_mode
  /\ main \in {"flush", "put"} => points_pending < Len(input)
  /\ main = "put" => batch_mode /\ gtime = ThisTime
  /\ main = "flush" => gtime # 0 /\ gtime # ThisTime
  /\ main \in {"flush", "final"} =>
       batch_mode /\ ftime = gtime /\ pc \in {"update", "write"}

(* The loop in kafka_connect is entered without a fatal error and left at  *)
(* once with one.                                                          *)
ConnectInv == connecting => ~fatal_error /\ KAFKA \notin enabled

ProgInv == InsertTypeOK /\ KpInv /\ RowsInv /\ ConnectInv /\ ControlInv

-----------------------------------------------------------------------------
(* Which steps do what                                                     *)

LEMMA TypesNow ==
  ASSUME ProgInv
  PROVE  /\ input \in Seq(Line) /\ Len(input) \in Nat
         /\ \A n \in 1 .. Len(input) : /\ input[n].key \in Keys
                                       /\ input[n].raw \in RawTimes
                                       /\ TimeOf(input[n].raw) \in Times
                                       /\ TimeOf(input[n].raw) \in Nat
                                       /\ SlotOf(n) \in Slots
         /\ Len(input) <= MaxLines
         /\ Len(input) \in Values
<1>1. input \in Seq(Line) /\ Len(input) <= MaxLines
  BY DEF ProgInv, InsertTypeOK
<1>2. Len(input) \in Nat
  BY <1>1, LenProperties
<1>3. ASSUME NEW n \in 1 .. Len(input)
      PROVE  input[n].key \in Keys /\ input[n].raw \in RawTimes
  <2>1. input[n] \in Line
    BY <1>1, <1>3, ElementOfSeq
  <2> QED
    BY <2>1 DEF Line
<1>4. ASSUME NEW n \in 1 .. Len(input)
      PROVE  /\ TimeOf(input[n].raw) \in Times
             /\ TimeOf(input[n].raw) \in Nat
  BY <1>3, TimesOfLines
<1>5. ASSUME NEW n \in 1 .. Len(input) PROVE SlotOf(n) \in Slots
  BY <1>3, <1>4 DEF SlotOf, Slots
<1>6. Len(input) \in Values
  BY <1>1, <1>2, LineNumbers
<1> QED
  BY <1>1, <1>2, <1>3, <1>4, <1>5, <1>6

LEMMA NowWriting ==
  ASSUME ProgInv, main \in {"single", "flush", "put"}
  PROVE  /\ Len(input) \in 1 .. Len(input) /\ Len(input) \in Taken
         /\ ThisLine.key \in Keys /\ ThisTime \in Times /\ ThisTime \in Nat
         /\ SlotOf(Len(input)) = <<ThisTime, ThisLine.key>>
<1>1. Len(input) \in Taken
  BY DEF ProgInv, ControlInv
<1>2. Len(input) \in 1 .. Len(input)
  BY <1>1, TypesNow, LenProperties DEF Taken
<1> QED
  BY <1>1, <1>2, TypesNow DEF ThisLine, ThisTime, SlotOf

(* No line is read in the middle of a flush.                               *)
LEMMA IdleOutside ==
  ASSUME ProgInv, main \notin {"flush", "final"}
  PROVE  pc = "idle"
BY DEF ProgInv, InsertTypeOK

LEMMA KpInvEnables ==
  ASSUME ProgInv, Enables
  PROVE  KpInv'
<1>1. enabled' \in SUBSET Backends /\ UNCHANGED <<kp, flags, pc, cur, wasDirty,
                                                  ftime, store>>
      /\ pc = "idle"
  BY BuiltBackends, IdleOutside DEF Enables, notEnabled, ProgInv, KpInv, TypeOK
<1> QED
  BY <1>1 DEF ProgInv, KpInv, TypeOK, CounterExact, LookupExact

LEMMA KpInvSingles ==
  ASSUME ProgInv, Singles
  PROVE  KpInv'
<1>1. UNCHANGED <<kp, flags, enabled, pc, wasDirty, ftime>> /\ pc = "idle"
  BY IdleOutside DEF Singles
<1>2. CASE cur' = 1 /\ store' = store
  BY <1>1, <1>2, LastIdAssumption
     DEF ProgInv, KpInv, TypeOK, CounterExact, LookupExact
<1>3. ASSUME NEW b \in enabled, NEW w \in Values, cur' = b + 1,
             store' = [store EXCEPT ![b][SlotOf(Len(input))] = w]
      PROVE  KpInv'
  <2>1. b \in Backends /\ store \in [Backends -> [Slots -> Values \cup {NoValue}]]
    BY DEF ProgInv, KpInv, TypeOK
  <2>2. cur' \in 1 .. LastId + 1
    BY <1>3, <2>1, LastIdAssumption DEF Backends
  <2>3. store[b] \in [Slots -> Values \cup {NoValue}]
    BY <2>1
  <2>4. store' \in [Backends -> [Slots -> Values \cup {NoValue}]]
    BY <1>3, <2>1, <2>3
  <2> QED
    BY <1>1, <2>2, <2>4 DEF ProgInv, KpInv, TypeOK, CounterExact, LookupExact
<1> QED
  BY <1>2, <1>3 DEF Singles

LEMMA KpInvFlushes ==
  ASSUME ProgInv, Flushes
  PROVE  KpInv'
<1>1. gtime \in Times
  BY DEF ProgInv, InsertTypeOK
<1>2. Next
  BY <1>1 DEF Flushes, FlushFails, Next
<1> QED
  BY <1>2, KpInvStep DEF ProgInv

(* The infos after timeseries_kp_add_key, if it had to be called, and      *)
(* timeseries_kp_set.                                                      *)
Known(k) == IF GetKey(kp, k) = NoId THEN AddKey(kp, k) ELSE kp

LEMMA KnownRow ==
  ASSUME WellFormed(kp), Unique(kp), NEW k \in Keys
  PROVE  /\ WellFormed(Known(k)) /\ Unique(Known(k))
         /\ Known(k).hash[k] \in Ids(Known(k))
         /\ Known(k).infos[Known(k).hash[k]].key = k
<1>1. CASE GetKey(kp, k) = NoId
  <2>1. kp.hash[k] = NoId
    BY <1>1 DEF GetKey
  <2>2. WellFormed(AddKey(kp, k)) /\ Unique(AddKey(kp, k))
    BY <2>1, AddKeyWellFormed, RowsAdd
  <2>3. AddKey(kp, k).hash[k] # NoId
    <3>1. kp.hash \in [Keys -> Nat] /\ Len(kp.infos) \in Nat
      BY TableIds DEF WellFormed, Table
    <3>2. AddKey(kp, k).hash = [kp.hash EXCEPT ![k] = Len(kp.infos) + 1]
      BY DEF AddKey
    <3> QED
      BY <3>1, <3>2 DEF NoId
  <2> QED
    BY <1>1, <2>2, <2>3, RowPresent DEF Known
<1>2. CASE GetKey(kp, k) # NoId
  BY <1>2, RowPresent DEF Known, GetKey
<1> QED
  BY <1>1, <1>2

(* PutLine keeps the table as it should be, with one row more or changed.  *)
LEMMA KpInvPut ==
  ASSUME ProgInv, PutLine
  PROVE  KpInv' /\ RowsInv'
<1> DEFINE k == ThisLine.key
           t == Known(k)
           v == Len(input)
<1>1. /\ main = "put" /\ pc = "idle" /\ kp' = SetValue(t, t.hash[k], v)
      /\ UNCHANGED <<flags, enabled, pc, cur, wasDirty, ftime, store>>
  BY DEF PutLine, Client, Known, GetKey
<1>2. k \in Keys /\ v \in Values
  BY <1>1, NowWriting, TypesNow
<1>3. WellFormed(kp) /\ Unique(kp)
  BY KpInvWellFormed DEF ProgInv, RowsInv
<1> HIDE DEF k, v
<1>4. WellFormed(t) /\ Unique(t) /\ t.hash[k] \in Ids(t)
  BY <1>2, <1>3, KnownRow
<1> HIDE DEF t
<1>5. WellFormed(kp') /\ Unique(kp')
  BY <1>1, <1>2, <1>4, SetValueWellFormed, RowsSet
<1>6. KpInv'
  BY <1>1, <1>5
     DEF ProgInv, KpInv, TypeOK, CounterExact, LookupExact, WellFormed
<1>7. RowsInv'
  BY <1>1, <1>5 DEF RowsInv
<1> QED
  BY <1>6, <1>7

LEMMA LibraryStep ==
  ASSUME ProgInv, UNCHANGED vars \/ Enables \/ Singles \/ Flushes \/ PutLine
  PROVE  KpInv' /\ RowsInv'
<1>1. CASE UNCHANGED vars
  BY <1>1 DEF vars, ProgInv, KpInv, TypeOK, CounterExact, LookupExact, RowsInv,
              Delivered
<1>2. CASE Enables
  <2>1. pc' = "idle" /\ kp' = kp
    BY <1>2, IdleOutside DEF Enables, notEnabled
  <2> QED
    BY <1>2, <2>1, KpInvEnables DEF ProgInv, RowsInv
<1>3. CASE Singles
  <2>1. pc' = "idle" /\ kp' = kp
    BY <1>3, IdleOutside DEF Singles
  <2> QED
    BY <1>3, <2>1, KpInvSingles DEF ProgInv, RowsInv
<1>4. CASE Flushes
  <2>1. gtime \in Times
    BY DEF ProgInv, InsertTypeOK
  <2>2. OnTheWay \/ FlushEnd
    BY <1>4, <2>1 DEF Flushes, FlushFails, OnTheWay
  <2> QED
    BY <1>4, <2>2, KpInvFlushes, RowsInvFlush DEF ProgInv
<1>5. CASE PutLine
  BY <1>5, KpInvPut
<1> QED
  BY <1>1, <1>2, <1>3, <1>4, <1>5

LEMMA SetLineIsSingles ==
  ASSUME ProgInv, NEW b, main = "single",
         SetSingle(b, ThisLine.key, Len(input), ThisTime)
  PROVE  Singles
<1>1. PICK w \in IF b \in Indeterminate THEN Values ELSE {Len(input)} :
        store' = [store EXCEPT ![b][<<ThisTime, ThisLine.key>>] = w]
  BY DEF SetSingle
<1>2. w \in Values
  BY <1>1, TypesNow
<1>3. /\ b \in enabled /\ cur' = b + 1
      /\ UNCHANGED <<kp, flags, enabled, pc, wasDirty, ftime>>
  BY DEF SetSingle, AtBackend
<1>4. SlotOf(Len(input)) = <<ThisTime, ThisLine.key>>
  BY NowWriting
<1>5. store' = [store EXCEPT ![b][SlotOf(Len(input))] = w]
  BY <1>1, <1>4
<1> QED
  BY <1>2, <1>3, <1>5 DEF Singles

LEMMA StepClass ==
  ASSUME ProgInv, Step
  PROVE  UNCHANGED vars \/ Enables \/ Singles \/ Flushes \/ PutLine
<1>1. CASE Options \/ EnableFails \/ OpenInput \/ Free
  BY <1>1 DEF Options, EnableFails, OpenInput, Free, libraryVars, InitFails,
              ProducerFails, ConnectFails
<1>2. CASE Enable
  BY <1>2, BuiltBackends
     DEF Enable, Enables, EnableAgain, InitSucceeds, KafkaInitBegins,
         ProducerConnects, KafkaInitSucceeds
<1>3. CASE SetLine
  BY <1>3, SetLineIsSingles DEF SetLine, SetSingleFails, libraryVars
<1>4. CASE FlushStep \/ Flushed \/ LineFlushFails \/ FinalFlushEnds
           \/ FinalFlushFails
  BY <1>4 DEF FlushStep, Flushed, LineFlushFails, FinalFlushEnds,
              FinalFlushFails, Flushes
<1>5. CASE InputEnds
  BY <1>5 DEF InputEnds, Flushes, libraryVars
<1> QED
  BY <1>1, <1>2, <1>3, <1>4, <1>5 DEF Step

LEMMA LineClass ==
  ASSUME ProgInv, NEW k \in Keys, NEW raw \in RawTimes,
         RefuseLine(k, raw) \/ SingleLine(k, raw) \/ BatchLine(k, raw)
  PROVE  UNCHANGED vars \/ Singles \/ Flushes
<1>1. CASE RefuseLine(k, raw)
  BY <1>1 DEF RefuseLine, libraryVars
<1>2. CASE SingleLine(k, raw)
  BY <1>2 DEF SingleLine, TakeLine, Append1, SingleBegins, Singles
<1>3. CASE BatchLine(k, raw)
  <2>1. main = "read"
    BY <1>3 DEF BatchLine, TakeLine, Append1
  <2>2. CASE gtime = 0
    BY <1>3, <2>2 DEF BatchLine, libraryVars
  <2>3. CASE gtime # 0
    BY <1>3, <2>1, <2>3 DEF BatchLine, libraryVars, Flushes
  <2> QED
    BY <2>2, <2>3
<1> QED
  BY <1>1, <1>2, <1>3

LEMMA LibraryInv ==
  ASSUME ProgInv, [InsertNext]_insertVars
  PROVE  KpInv' /\ RowsInv'
<1>1. CASE Step
  BY <1>1, StepClass, LibraryStep
<1>2. CASE OutOfRange \/ OtherError \/ KafkaError \/ UNCHANGED insertVars
  <2>1. UNCHANGED vars
    BY <1>2 DEF OutOfRange, OtherError, KafkaError, ErrorCallback, insertVars,
                libraryVars
  <2> QED
    BY <2>1, LibraryStep
<1>3. ASSUME NEW k \in Keys, NEW raw \in RawTimes,
             RefuseLine(k, raw) \/ SingleLine(k, raw) \/ BatchLine(k, raw)
      PROVE  KpInv' /\ RowsInv'
  BY <1>3, LineClass, LibraryStep
<1> QED
  BY <1>1, <1>2, <1>3 DEF InsertNext

-----------------------------------------------------------------------------
(* The connection of the Kafka backend                                     *)

ConnInv == FrameworkTypeOK /\ ConnectInv

LEMMA ConnectBounds ==
  /\ 0 \in 0 .. CONNECT_MAX_RETRIES
  /\ CONNECT_MAX_RETRIES \in 0 .. CONNECT_MAX_RETRIES
  /\ 0 \in 0 .. MaxWait /\ FirstWait \in 0 .. MaxWait
BY WaitTimes

LEMMA ConnectInit == InsertInit => ConnInv
BY ConnectBounds
   DEF InsertInit, FrameworkInit, ConnInv, FrameworkTypeOK, ConnectInv

(* The next round of the loop: one attempt less, at most twice the wait.   *)
LEMMA NextAttempt ==
  ASSUME FrameworkTypeOK, ProducerConnects
  PROVE  connect_retries' \in 0 .. CONNECT_MAX_RETRIES /\ wait' \in 0 .. MaxWait
<1>1. connect_retries \in 0 .. CONNECT_MAX_RETRIES /\ connect_retries > 0
      /\ connect_retries' = connect_retries - 1 /\ wait \in 0 .. MaxWait
  BY DEF FrameworkTypeOK, ProducerConnects, Trying
<1>2. connect_retries' \in 0 .. CONNECT_MAX_RETRIES
  BY <1>1, WaitTimes
<1>3. \/ wait' = wait
      \/ wait' = MaxWait
      \/ wait' = 2 * wait /\ ~(2 * wait > MaxWait)
  BY DEF ProducerConnects
<1>4. wait' \in 0 .. MaxWait
  BY <1>1, <1>3, WaitTimes
<1> QED
  BY <1>2, <1>4

LEMMA ConnectRound ==
  ASSUME ConnInv, ProducerConnects
  PROVE  ConnInv'
<1>1. /\ connected' \in BOOLEAN
      /\ UNCHANGED <<enabled, connecting, fatal_error>>
  BY DEF ProducerConnects, vars
<1> QED
  BY <1>1, NextAttempt DEF ConnInv, FrameworkTypeOK, ConnectInv

LEMMA ConnectSame ==
  ASSUME ConnInv, UNCHANGED <<enabled, connVars>>
  PROVE  ConnInv'
<1>1. UNCHANGED <<enabled, connecting, connected, fatal_error,
                  connect_retries, wait>>
  BY DEF connVars, stateVars
<1> QED
  BY <1>1 DEF ConnInv, FrameworkTypeOK, ConnectInv

LEMMA ConnectBegins ==
  ASSUME ConnInv, KafkaInitBegins
  PROVE  ConnInv'
<1>1. /\ enabled' = enabled /\ KAFKA \notin enabled
      /\ connecting' = TRUE /\ connected' = FALSE /\ fatal_error' = FALSE
      /\ connect_retries' = CONNECT_MAX_RETRIES /\ wait' = FirstWait
  BY DEF KafkaInitBegins, vars
<1> QED
  BY <1>1, ConnectBounds DEF ConnInv, FrameworkTypeOK, ConnectInv

(* kafka_connect returns, in whatever state.                               *)
LEMMA ConnectLeaves ==
  ASSUME ConnInv, LeaveConnect, connected' \in BOOLEAN, fatal_error' \in BOOLEAN,
         enabled' = enabled \/ enabled' = enabled \cup {KAFKA}
  PROVE  ConnInv'
<1>1. connecting' = FALSE /\ connect_retries' = 0 /\ wait' = 0
  BY DEF LeaveConnect
<1>2. enabled' \subseteq Built
  BY BuiltBackends DEF ConnInv, FrameworkTypeOK
<1> QED
  BY <1>1, <1>2, ConnectBounds DEF ConnInv, FrameworkTypeOK, ConnectInv

LEMMA ConnectEnable ==
  ASSUME ConnInv, Enable
  PROVE  ConnInv'
<1>0. connected \in BOOLEAN /\ fatal_error \in BOOLEAN
  BY DEF ConnInv, FrameworkTypeOK
<1>1. CASE EnableAgain(Head(opts))
  BY <1>1, ConnectSame DEF EnableAgain, vars
<1>2. ASSUME NEW b, InitSucceeds(b) PROVE ConnInv'
  <2>1. /\ b \in Built /\ b # KAFKA /\ enabled' = enabled \cup {b}
        /\ UNCHANGED <<connecting, connected, fatal_error, connect_retries,
                       wait>>
    BY <1>2 DEF InitSucceeds, connVars, stateVars
  <2> QED
    BY <2>1 DEF ConnInv, FrameworkTypeOK, ConnectInv
<1>3. CASE KafkaInitSucceeds
  BY <1>0, <1>3, ConnectLeaves DEF KafkaInitSucceeds, stateVars
<1> QED
  BY <1>1, <1>2, <1>3, ConnectBegins, ConnectRound DEF Enable

LEMMA ConnectEnableFails ==
  ASSUME ConnInv, EnableFails
  PROVE  ConnInv'
<1>0. connected \in BOOLEAN /\ fatal_error \in BOOLEAN
  BY DEF ConnInv, FrameworkTypeOK
<1>1. CASE UNCHANGED <<vars, connVars>>
  BY <1>1, ConnectSame DEF vars
<1>2. CASE ProducerFails
  BY <1>0, <1>2, ConnectLeaves DEF ProducerFails, vars, stateVars
<1>3. CASE ConnectFails
  BY <1>0, <1>3, ConnectLeaves DEF ConnectFails, vars, stateVars
<1> QED
  BY <1>1, <1>2, <1>3 DEF EnableFails, InitFails, libraryVars

LEMMA ConnectError ==
  ASSUME ConnInv, ErrorCallback
  PROVE  ConnInv'
<1>1. /\ KAFKA \in enabled /\ connected' = FALSE
      /\ fatal_error' \in {fatal_error, TRUE}
      /\ UNCHANGED <<enabled, connecting, connect_retries, wait>>
  BY DEF ErrorCallback, vars
<1> QED
  BY <1>1 DEF ConnInv, FrameworkTypeOK, ConnectInv

(* Nothing else touches the backends and the connection.                   *)
LEMMA ConnectOnly ==
  ASSUME [InsertNext]_insertVars
  PROVE  Enable \/ EnableFails \/ ErrorCallback \/ UNCHANGED <<enabled, connVars>>
<1>1. CASE Options \/ OpenInput \/ Free \/ OutOfRange \/ OtherError
           \/ UNCHANGED insertVars
  <2>1. UNCHANGED libraryVars
    BY <1>1 DEF Options, OpenInput, Free, OutOfRange, OtherError, insertVars
  <2> QED
    BY <2>1 DEF libraryVars, vars
<1>2. CASE SetLine
  BY <1>2 DEF SetLine, SetSingle, SetSingleFails, libraryVars, vars
<1>3. CASE FlushStep \/ PutLine
  BY <1>3 DEF FlushStep, SkipBackend, UpdateBackend, WriteBackend, PutLine,
              Client
<1>4. CASE Flushed \/ LineFlushFails \/ FinalFlushEnds \/ FinalFlushFails
  BY <1>4 DEF Flushed, LineFlushFails, FinalFlushEnds, FinalFlushFails,
              FlushFails, FlushEnd, UpdateFails, WriteFails
<1>5. CASE InputEnds
  BY <1>5 DEF InputEnds, FlushBegin, libraryVars, vars
<1>6. ASSUME NEW k \in Keys, NEW raw \in RawTimes,
             RefuseLine(k, raw) \/ SingleLine(k, raw) \/ BatchLine(k, raw)
      PROVE  UNCHANGED <<enabled, connVars>>
  BY <1>6 DEF RefuseLine, SingleLine, BatchLine, SingleBegins, FlushBegin,
              libraryVars, vars
<1>7. CASE KafkaError
  BY <1>7 DEF KafkaError
<1> QED
  BY <1>1, <1>2, <1>3, <1>4, <1>5, <1>6, <1>7 DEF InsertNext, Step

LEMMA ConnectStep ==
  ASSUME ConnInv, [InsertNext]_insertVars
  PROVE  ConnInv'
BY ConnectOnly, ConnectEnable, ConnectEnableFails, ConnectError, ConnectSame

-----------------------------------------------------------------------------
(* The program                                                             *)

ProgTypes ==
  /\ main \in {"options", "enable", "open", "read", "single", "flush", "put",
               "final", "free", "err", "exit"}
  /\ pc # "idle" => main \in {"flush", "final"}
  /\ rc \in {-1, 0}
  /\ opts \in Seq(Backends \cup {0}) /\ batch_mode \in BOOLEAN
  /\ gtime \in Times /\ points_pending \in 0 .. Len(input)
  /\ errno \in {"other", "ERANGE"} /\ poisoned \in BOOLEAN
  /\ input \in Seq(Line) /\ Len(input) <= MaxLines

LEMMA ProgInvParts ==
  ProgInv <=> KpInv /\ RowsInv /\ ConnInv /\ ProgTypes /\ ControlInv
BY DEF ProgInv, ConnInv, ProgTypes, InsertTypeOK, KpInv

LEMMA SameInput ==
  ASSUME input' = input
  PROVE  /\ Taken' = Taken /\ ThisTime' = ThisTime /\ ThisLine' = ThisLine
         /\ \A n : SlotOf(n)' = SlotOf(n)
BY DEF Taken, ThisTime, ThisLine, SlotOf

(* A line more.                                                            *)
LEMMA InputGrows ==
  ASSUME ProgTypes, NEW k \in Keys, NEW raw \in RawTimes, NEW taken \in BOOLEAN,
         Append1(k, raw, taken)
  PROVE  /\ input' \in Seq(Line) /\ Len(input') = Len(input) + 1
         /\ Len(input) \in Nat /\ Len(input') <= MaxLines /\ input' # << >>
         /\ \A n \in 1 .. Len(input) : input'[n] = input[n]
         /\ ThisLine' = [key |-> k, raw |-> raw, taken |-> taken]
         /\ ThisTime' = TimeOf(raw)
         /\ Taken' = IF taken THEN Taken \cup {Len(input')} ELSE Taken
<1> DEFINE r == [key |-> k, raw |-> raw, taken |-> taken]
<1>1. input' = Append(input, r) /\ Len(input) < MaxLines /\ r \in Line
  BY DEF Append1, Line
<1>2. input \in Seq(Line) /\ Len(input) \in Nat
  BY LenProperties DEF ProgTypes
<1>3. r.taken = taken /\ r.raw = raw
  OBVIOUS
<1> HIDE DEF r
<1>4. /\ input' \in Seq(Line) /\ Len(input') = Len(input) + 1
      /\ \A n \in 1 .. Len(input) : input'[n] = input[n]
      /\ input'[Len(input) + 1] = r
  BY <1>1, <1>2, AppendProperties
<1>5. Len(input') <= MaxLines /\ input' # << >>
  BY <1>1, <1>2, <1>4, LineNumbers, EmptySeq
<1>6. ThisLine' = r
  BY <1>4 DEF ThisLine
<1>7. DOMAIN input = 1 .. Len(input) /\ DOMAIN input' = 1 .. Len(input')
  BY <1>2, <1>4, LenProperties
<1>8. Taken' = IF taken THEN Taken \cup {Len(input')} ELSE Taken
  BY <1>2, <1>3, <1>4, <1>7 DEF Taken
<1> QED
  BY <1>2, <1>3, <1>4, <1>5, <1>6, <1>8 DEF r, ThisTime

LEMMA ProgramInit == InsertInit => ProgTypes /\ ControlInv
<1> SUFFICES ASSUME InsertInit PROVE ProgTypes /\ ControlInv
  OBVIOUS
<1>1. << >> \in Seq(Line) /\ Len(<< >>) = 0
  BY EmptySeq
<1>2. /\ main = "options" /\ pc = "idle" /\ rc = -1 /\ batch_mode \in BOOLEAN
      /\ gtime = 0 /\ points_pending = 0 /\ errno = "other"
      /\ poisoned = FALSE /\ input = << >> /\ opts \in Seq(Backends \cup {0})
  BY OptionTypes DEF InsertInit, FrameworkInit, Init
<1>5. points_pending \in 0 .. Len(input) /\ Len(input) <= MaxLines
  BY <1>1, <1>2, LineNumbers
<1>6. ProgTypes
  BY <1>1, <1>2, <1>5, TimesOfLines DEF ProgTypes
<1>3. Fresh
  BY DEF InsertInit, FrameworkInit, Init, Fresh
<1>4. ControlInv
  BY <1>3 DEF InsertInit, ControlInv
<1> QED
  BY <1>4, <1>6

(* Steps of the library that the program takes without moving on.          *)
LEMMA ProgramStays ==
  ASSUME ProgTypes, ControlInv, UNCHANGED <<programVars, flags, ftime>>,
         \/ UNCHANGED <<kp, pc, store>>
         \/ main \in {"flush", "final"} /\ pc' \in {"update", "write"}
         \/ main = "single" /\ pc' = pc
  PROVE  ProgTypes' /\ ControlInv'
<1>1. UNCHANGED <<main, rc, opts, batch_mode, gtime, points_pending, errno,
                  input, poisoned>>
  BY DEF programVars
<1>2. ProgTypes'
  BY <1>1 DEF ProgTypes
<1>3. Taken' = Taken /\ ThisTime' = ThisTime
  BY <1>1, SameInput
<1>4. Fresh /\ main \in {"options", "enable", "open"} => Fresh'
  BY <1>1 DEF Fresh
<1>5. ControlInv'
  BY <1>1, <1>3, <1>4 DEF ControlInv
<1> QED
  BY <1>2, <1>5

(* The program goes on to where it is not in the middle of anything.       *)
LEMMA ProgramGoesOn ==
  ASSUME ProgTypes, ControlInv, main # "exit", pc' = "idle", flags' = flags,
         NEW next \in {"read", "free", "err", "exit"}, GoTo(next)
  PROVE  ProgTypes' /\ ControlInv'
<1>1. /\ main' = next
      /\ UNCHANGED <<rc, opts, batch_mode, gtime, points_pending, errno, input,
                     poisoned>>
  BY DEF GoTo
<1>2. ProgTypes'
  BY <1>1 DEF ProgTypes
<1>3. ControlInv'
  BY <1>1 DEF ControlInv
<1> QED
  BY <1>2, <1>3

LEMMA OptionsStep ==
  ASSUME ProgTypes, ControlInv, Options \/ Enable
  PROVE  ProgTypes' /\ ControlInv'
<1>1. main \in {"options", "enable"} /\ pc = "idle" /\ Fresh /\ rc = -1
      /\ opts \in Seq(Backends \cup {0})
  BY DEF Options, Enable, ProgTypes, ControlInv
<1>2. Fresh' /\ pc' = "idle" /\ UNCHANGED <<flags, ftime>>
      /\ UNCHANGED <<rc, batch_mode, gtime, points_pending, errno, input,
                     poisoned>>
  <2>1. UNCHANGED <<kp, flags, pc, store, ftime>>
    BY DEF Options, Enable, libraryVars, vars, EnableAgain, InitSucceeds,
           KafkaInitBegins, ProducerConnects, KafkaInitSucceeds, notEnabled
  <2>2. UNCHANGED <<rc, batch_mode, gtime, points_pending, errno, input,
                    poisoned>>
    BY DEF Options, Enable, Enabled, GoTo, programVars
  <2> QED
    BY <1>1, <2>1, <2>2 DEF Fresh
<1>3. /\ opts' \in Seq(Backends \cup {0})
      /\ main' \in {"enable", "open", "exit"}
      /\ main' = "enable" => opts' # << >>
  <2>1. CASE Options
    <3>1. main' = (IF Len(opts) \in 1 .. LastId - 1 THEN "enable" ELSE "exit")
          /\ opts' = opts
      BY <2>1 DEF Options, GoTo
    <3>2. Len(opts) \in 1 .. LastId - 1 => opts # << >>
      BY EmptySeq, LastIdAssumption
    <3> QED
      BY <1>1, <3>1, <3>2
  <2>2. CASE Enable /\ Enabled
    <3>1. opts # << >>
      BY <2>2 DEF Enable, ControlInv
    <3>2. Tail(opts) \in Seq(Backends \cup {0})
      BY <1>1, <3>1, HeadTailProperties
    <3> QED
      BY <2>2, <3>2 DEF Enabled
  <2>3. CASE Enable /\ UNCHANGED programVars
    BY <1>1, <2>3 DEF Enable, ControlInv, programVars
  <2> QED
    BY <2>1, <2>2, <2>3 DEF Enable
<1>4. ProgTypes'
  BY <1>2, <1>3 DEF ProgTypes
<1>5. ControlInv'
  BY <1>1, <1>2, <1>3 DEF ControlInv
<1> QED
  BY <1>4, <1>5

LEMMA ReadStep ==
  ASSUME ProgTypes, ControlInv, OutOfRange \/ OtherError \/ Free
  PROVE  ProgTypes' /\ ControlInv'
<1>1. /\ main \in {"read", "free", "err"} /\ main' \in {"read", "exit"}
      /\ main' = "read" => rc' = rc
      /\ rc' \in {-1, 0} /\ rc = -1 /\ pc' = pc /\ pc = "idle"
      /\ errno' \in {"other", "ERANGE"} /\ poisoned' \in BOOLEAN
      /\ UNCHANGED <<flags, opts, batch_mode, gtime, points_pending, input>>
  BY DEF OutOfRange, OtherError, Free, ProgTypes, ControlInv, libraryVars, vars
<1>2. ProgTypes'
  BY <1>1 DEF ProgTypes
<1>3. ControlInv'
  BY <1>1 DEF ControlInv
<1> QED
  BY <1>2, <1>3

LEMMA RefuseLineStep ==
  ASSUME ProgTypes, ControlInv, NEW k \in Keys, NEW raw \in RawTimes,
         RefuseLine(k, raw)
  PROVE  ProgTypes' /\ ControlInv'
<1>1. /\ input' \in Seq(Line) /\ Len(input') = Len(input) + 1
      /\ Len(input) \in Nat /\ Len(input') <= MaxLines
  BY InputGrows DEF RefuseLine
<1>2. /\ main = "read" /\ pc = "idle"
      /\ UNCHANGED <<main, rc, opts, batch_mode, gtime, points_pending, errno,
                     poisoned, flags, pc>>
  BY DEF RefuseLine, Append1, libraryVars, vars, ProgTypes
<1>3. points_pending' \in 0 .. Len(input')
  BY <1>1, <1>2 DEF ProgTypes
<1>4. ProgTypes'
  BY <1>1, <1>2, <1>3 DEF ProgTypes
<1>5. ControlInv'
  BY <1>2 DEF ControlInv
<1> QED
  BY <1>4, <1>5

(* What a line that is taken leads to: the loop of timeseries_set_single,  *)
(* the package, or a flush before the package.                             *)
LEMMA TakeLineStep ==
  ASSUME ProgTypes, ControlInv, NEW k \in Keys, NEW raw \in RawTimes,
         SingleLine(k, raw) \/ BatchLine(k, raw)
  PROVE  /\ UNCHANGED <<rc, opts, batch_mode, errno, poisoned, points_pending,
                        flags>>
         /\ main = "read" /\ pc = "idle"
         /\ \/ main' = "single" /\ ~batch_mode /\ pc' = pc /\ gtime' = gtime
            \/ /\ main' = "put" /\ batch_mode /\ pc' = pc
               /\ gtime' = TimeOf(raw) /\ gtime \in {0, gtime'}
               /\ UNCHANGED store
            \/ /\ main' = "flush" /\ batch_mode /\ pc' = "update"
               /\ gtime # 0 /\ gtime # TimeOf(raw)
               /\ gtime' = gtime /\ ftime' = gtime
               /\ UNCHANGED store
<1>1. /\ UNCHANGED <<rc, opts, batch_mode, errno, poisoned>>
      /\ main = "read" /\ pc = "idle"
  BY DEF SingleLine, BatchLine, TakeLine, Append1, ProgTypes
<1>2. CASE SingleLine(k, raw)
  BY <1>1, <1>2 DEF SingleLine, SingleBegins
<1>3. CASE BatchLine(k, raw) /\ gtime = 0
  BY <1>1, <1>3 DEF BatchLine, libraryVars, vars
<1>4. CASE BatchLine(k, raw) /\ gtime = TimeOf(raw)
  BY <1>1, <1>4 DEF BatchLine, libraryVars, vars
<1>5. CASE BatchLine(k, raw) /\ gtime # 0 /\ gtime # TimeOf(raw)
  BY <1>1, <1>5 DEF BatchLine, FlushBegin
<1> QED
  BY <1>1, <1>2, <1>3, <1>4, <1>5

LEMMA TakenLineStep ==
  ASSUME ProgTypes, ControlInv, NEW k \in Keys, NEW raw \in RawTimes,
         SingleLine(k, raw) \/ BatchLine(k, raw)
  PROVE  ProgTypes' /\ ControlInv'
<1>1. /\ input' \in Seq(Line) /\ Len(input') = Len(input) + 1
      /\ Len(input) \in Nat /\ Len(input') <= MaxLines /\ input' # << >>
      /\ ThisTime' = TimeOf(raw) /\ Len(input') \in Taken'
  BY InputGrows DEF SingleLine, BatchLine, TakeLine
<1>2. points_pending \in 0 .. Len(input') /\ points_pending < Len(input')
  BY <1>1 DEF ProgTypes
<1>3. TimeOf(raw) \in Times /\ TimeOf(raw) \in Nat
  BY TimesOfLines
<1>4. gtime' \in Times /\ gtime' \in Nat
  BY <1>3, TakeLineStep DEF ProgTypes, ControlInv
<1>5. ProgTypes'
  BY <1>1, <1>2, <1>4, TakeLineStep DEF ProgTypes
<1>6. ControlInv'
  BY <1>1, <1>2, <1>4, TakeLineStep DEF ControlInv
<1> QED
  BY <1>5, <1>6

LEMMA SetLineStep ==
  ASSUME ProgTypes, ControlInv, SetLine
  PROVE  ProgTypes' /\ ControlInv'
<1>1. main = "single" /\ pc = "idle"
  BY DEF SetLine, ProgTypes
<1>2. UNCHANGED <<pc, flags, ftime>>
  BY DEF SetLine, SetSingle, SetSingleFails, libraryVars, vars
<1>3. CASE UNCHANGED programVars
  BY <1>1, <1>2, <1>3, ProgramStays
<1>4. CASE GoTo("read") \/ GoTo("err")
  BY <1>1, <1>2, <1>4, ProgramGoesOn
<1> QED
  BY <1>3, <1>4 DEF SetLine

LEMMA FlushStepStep ==
  ASSUME ProgTypes, ControlInv, FlushStep
  PROVE  ProgTypes' /\ ControlInv'
<1>1. main \in {"flush", "final"} /\ pc \in {"update", "write"}
      /\ UNCHANGED programVars
  BY DEF FlushStep, ControlInv
<1>2. pc' \in {"update", "write"} /\ UNCHANGED <<flags, ftime>>
  BY <1>1 DEF FlushStep, SkipBackend, UpdateBackend, WriteBackend
<1> QED
  BY <1>1, <1>2, ProgramStays

LEMMA FlushedStep ==
  ASSUME ProgTypes, ControlInv, Flushed
  PROVE  ProgTypes' /\ ControlInv'
<1>1. /\ main = "flush" /\ main' = "put" /\ pc' = "idle" /\ flags' = flags
      /\ gtime' = ThisTime /\ points_pending' = 0
      /\ UNCHANGED <<rc, opts, batch_mode, errno, input, poisoned>>
      /\ batch_mode /\ rc = -1 /\ Len(input) \in Taken /\ input # << >>
  BY DEF Flushed, FlushEnd, ControlInv
<1>2. Len(input) \in Nat /\ Len(input) # 0
  BY <1>1, EmptySeq, LenProperties DEF ProgTypes
<1>3. ThisTime \in Times /\ ThisTime \in Nat
  <2>1. Len(input) \in 1 .. Len(input) /\ input \in Seq(Line)
    BY <1>2 DEF ProgTypes
  <2>2. ThisLine \in Line
    BY <2>1, ElementOfSeq DEF ThisLine
  <2> QED
    BY <2>2, TimesOfLines DEF Line, ThisTime
<1>4. ThisTime' = ThisTime /\ Taken' = Taken
  BY <1>1, SameInput
<1>5. points_pending' \in 0 .. Len(input') /\ points_pending' < Len(input')
  BY <1>1, <1>2
<1>6. ProgTypes'
  BY <1>1, <1>3, <1>5 DEF ProgTypes
<1>7. ControlInv'
  BY <1>1, <1>3, <1>4, <1>5 DEF ControlInv
<1> QED
  BY <1>6, <1>7

LEMMA PutLineStep ==
  ASSUME ProgTypes, ControlInv, PutLine
  PROVE  ProgTypes' /\ ControlInv'
<1>1. /\ main = "put" /\ main' = "read" /\ pc = "idle" /\ pc' = pc
      /\ flags' = flags /\ points_pending' = points_pending + 1
      /\ UNCHANGED <<rc, opts, batch_mode, gtime, errno, input, poisoned>>
  BY DEF PutLine, Client
<1>2. points_pending < Len(input)
  BY <1>1 DEF ControlInv
<1>3. points_pending' \in 0 .. Len(input')
  <2>1. points_pending \in 0 .. Len(input) /\ Len(input) \in Nat
    BY LenProperties DEF ProgTypes
  <2> QED
    BY <2>1, <1>1, <1>2
<1>4. ProgTypes'
  BY <1>1, <1>3 DEF ProgTypes
<1>5. ControlInv'
  BY <1>1 DEF ControlInv
<1> QED
  BY <1>4, <1>5

LEMMA InputEndsStep ==
  ASSUME ProgTypes, ControlInv, InputEnds
  PROVE  ProgTypes' /\ ControlInv'
<1>1. main = "read" /\ pc = "idle"
  BY DEF InputEnds, ProgTypes
<1>2. CASE batch_mode /\ points_pending > 0
  <2>1. /\ main' = "final" /\ pc' = "update" /\ ftime' = gtime
        /\ flags' = flags
        /\ UNCHANGED <<rc, opts, batch_mode, gtime, points_pending, errno,
                       input, poisoned>>
    BY <1>2 DEF InputEnds, FlushBegin, GoTo
  <2>2. ProgTypes'
    BY <2>1 DEF ProgTypes
  <2>3. ControlInv'
    BY <1>1, <1>2, <2>1 DEF ControlInv
  <2> QED
    BY <2>2, <2>3
<1>3. CASE ~(batch_mode /\ points_pending > 0)
  <2>1. GoTo("free") /\ UNCHANGED <<pc, flags>>
    BY <1>3 DEF InputEnds, libraryVars, vars
  <2> QED
    BY <1>1, <2>1, ProgramGoesOn
<1> QED
  BY <1>2, <1>3

LEMMA FlushOverStep ==
  ASSUME ProgTypes, ControlInv,
         LineFlushFails \/ FinalFlushEnds \/ FinalFlushFails
  PROVE  ProgTypes' /\ ControlInv'
<1>1. main # "exit" /\ pc' = "idle" /\ flags' = flags
  BY DEF LineFlushFails, FinalFlushEnds, FinalFlushFails, FlushFails,
         UpdateFails, WriteFails, FlushEnd
<1>2. GoTo("err") \/ GoTo("free") \/ GoTo("exit")
  BY DEF LineFlushFails, FinalFlushEnds, FinalFlushFails
<1> QED
  BY <1>1, <1>2, ProgramGoesOn

LEMMA FailedStartStep ==
  ASSUME ProgTypes, ControlInv, EnableFails \/ OpenInput
  PROVE  ProgTypes' /\ ControlInv'
<1>1. main \in {"enable", "open"} /\ UNCHANGED vars
  BY DEF EnableFails, OpenInput, libraryVars, InitFails, ProducerFails,
         ConnectFails
<1>2. pc' = "idle" /\ flags' = flags
  BY <1>1 DEF vars, ProgTypes
<1>3. GoTo("err") \/ GoTo("read")
  BY DEF EnableFails, OpenInput
<1> QED
  BY <1>1, <1>2, <1>3, ProgramGoesOn

LEMMA ProgramStep ==
  ASSUME ProgTypes, ControlInv, [InsertNext]_insertVars
  PROVE  ProgTypes' /\ ControlInv'
<1>1. CASE Step
  BY <1>1, OptionsStep, ReadStep, SetLineStep, FlushStepStep, FlushedStep,
     PutLineStep, InputEndsStep, FlushOverStep, FailedStartStep DEF Step
<1>2. CASE KafkaError
  BY <1>2, ProgramStays DEF KafkaError, ErrorCallback, vars
<1>3. CASE UNCHANGED insertVars
  BY <1>3, ProgramStays DEF insertVars, libraryVars, vars
<1> QED
  BY <1>1, <1>2, <1>3, ReadStep, RefuseLineStep, TakenLineStep DEF InsertNext

LEMMA ProgInvInit == InsertInit => ProgInv
<1>1. InsertInit => Init
  BY DEF InsertInit, FrameworkInit
<1> QED
  BY <1>1, KpInvInit, RowsInvInit, ConnectInit, ProgramInit, ProgInvParts

LEMMA ProgInvStep == ProgInv /\ [InsertNext]_insertVars => ProgInv'
<1> SUFFICES ASSUME ProgInv, [InsertNext]_insertVars PROVE ProgInv'
  OBVIOUS
<1>1. ConnInv /\ ProgTypes /\ ControlInv
  BY ProgInvParts
<1>2. KpInv' /\ RowsInv' /\ ConnInv' /\ ProgTypes' /\ ControlInv'
  BY <1>1, LibraryInv, ConnectStep, ProgramStep
<1> QED
  BY <1>2 DEF ProgInv, ConnInv, ProgTypes, InsertTypeOK, KpInv

(* All variables of timeseries-insert, of the key package and of the       *)
(* connection keep their types, whatever the options and the input are; no *)
(* flush is in progress but where main() or insert() calls it.             *)
THEOREM InsertTypeCorrect == InsertSpec => []InsertTypeOK
<1>1. ProgInv => InsertTypeOK
  BY DEF ProgInv
<1> QED
  BY ProgInvInit, ProgInvStep, <1>1, PTL DEF InsertSpec

LEMMA KafkaReadyStep ==
  ASSUME ProgInv, [InsertNext]_insertVars, KAFKA \in enabled' \ enabled
  PROVE  connected' /\ ~fatal_error'
<1>1. enabled' # enabled
  OBVIOUS
<1>2. Enable
  BY <1>1, ConnectOnly DEF EnableFails, InitFails, ProducerFails, ConnectFails,
                           ErrorCallback, libraryVars, vars
<1>3. KafkaInitSucceeds
  BY <1>2 DEF Enable, EnableAgain, InitSucceeds, KafkaInitBegins,
              ProducerConnects, vars
<1> QED
  BY <1>3 DEF KafkaInitSucceeds, stateVars, ProgInv, ConnectInv

(* The Kafka backend gets enabled only with a connection and without a     *)
(* fatal error, whatever the attempts to connect and the callbacks did.    *)
THEOREM KafkaIsReady == InsertSpec => KafkaReady
<1>1. ProgInv /\ [InsertNext]_insertVars =>
        [(KAFKA \in enabled' \ enabled) => (connected' /\ ~fatal_error')]_enabled
  BY KafkaReadyStep
<1> QED
  BY ProgInvInit, ProgInvStep, <1>1, PTL DEF InsertSpec, KafkaReady

-----------------------------------------------------------------------------
(* What a flush does to the backends                                       *)

(* The rows of the package; the slots that the flush in progress writes.   *)
On(k) == Rows(kp)[k].on
Val(k) == Rows(kp)[k].value
InBatch(s) == s[1] = ftime /\ On(s[2])

LEMMA RowsSame ==
  ASSUME Rows(kp') = Rows(kp), NEW k
  PROVE  On(k)' = On(k) /\ Val(k)' = Val(k)
BY DEF On, Val

(* Of the first n infos, a backend gets some of the points of the flush, ..*)
LEMMA SomeWritten ==
  ASSUME KpInv, Unique(kp), NEW b \in Backends, NEW n, NEW c \in Backends,
         NEW s \in Slots
  PROVE  \/ Written(b, n)[c][s] = store[c][s]
         \/ c = b /\ InBatch(s) /\ Written(b, n)[c][s] = Val(s[2])
<1>1. WellFormed(kp) /\ store \in [Backends -> [Slots -> Values \cup {NoValue}]]
  BY KpInvWellFormed DEF KpInv, TypeOK
<1>2. Written(b, n) = [store EXCEPT ![b] = RowsWritten(b, Reached(n))]
  BY <1>1, WrittenRows
<1>3. CASE c # b
  BY <1>1, <1>2, <1>3
<1>4. CASE c = b
  <2>1. s \in Times \X Keys /\ s[2] \in Keys
    BY DEF Slots
  <2>2. Written(b, n)[c] = RowsWritten(b, Reached(n))
    BY <1>1, <1>2, <1>4
  <2>3. CASE s[1] = ftime /\ s[2] \in Reached(n)
    <3>1. Written(b, n)[c][s] = Val(s[2])
      BY <2>1, <2>2, <2>3 DEF RowsWritten, Val
    <3>2. On(s[2])
      BY <1>1, <2>1, <2>3, WriterIsRow DEF Reached, On
    <3> QED
      BY <1>4, <2>3, <3>1, <3>2 DEF InBatch
  <2>4. CASE ~(s[1] = ftime /\ s[2] \in Reached(n))
    BY <1>4, <2>1, <2>2, <2>4 DEF RowsWritten
  <2> QED
    BY <2>3, <2>4
<1> QED
  BY <1>3, <1>4

(* ... and of all infos it gets them all.                                  *)
LEMMA AllWritten ==
  ASSUME KpInv, Unique(kp), NEW b \in Backends, NEW s \in Slots
  PROVE  Written(b, Len(kp.infos))[b][s] =
           IF InBatch(s) THEN Val(s[2]) ELSE store[b][s]
<1> DEFINE n == Len(kp.infos)
<1>1. WellFormed(kp) /\ store \in [Backends -> [Slots -> Values \cup {NoValue}]]
      /\ s[2] \in Keys /\ s \in Times \X Keys
  BY KpInvWellFormed DEF KpInv, TypeOK, Slots
<1>2. CASE InBatch(s)
  <2>1. s[2] \in Reached(n)
    BY <1>1, <1>2, RowIsWritten DEF Reached, InBatch, On
  <2>2. Written(b, n) = [store EXCEPT ![b] = RowsWritten(b, Reached(n))]
    BY <1>1, WrittenRows
  <2> HIDE DEF n
  <2>3. Written(b, n)[b] = RowsWritten(b, Reached(n))
    BY <1>1, <2>2
  <2>4. Written(b, n)[b][s] = Val(s[2])
    BY <1>1, <1>2, <2>1, <2>3 DEF RowsWritten, Val, InBatch
  <2> QED
    BY <1>2, <2>4 DEF n
<1>3. CASE ~InBatch(s)
  BY <1>3, SomeWritten
<1> QED
  BY <1>2, <1>3

(* The backends behind the flush have them.                                *)
LEMMA DeliveredRows ==
  ASSUME KpInv, Unique(kp), NEW b, Delivered(b), NEW s \in Slots, InBatch(s)
  PROVE  store[b][s] = Val(s[2])
<1>1. WellFormed(kp) /\ s[2] \in Keys /\ s = <<ftime, s[2]>>
  BY KpInvWellFormed DEF InBatch, Slots
<1> DEFINE k == s[2]
           i == kp.hash[k]
<1>2. kp.hash[k] # NoId
  BY <1>1 DEF InBatch, On, Rows, RowOf
<1>3. /\ kp.hash[k] \in Ids(kp) /\ kp.infos[kp.hash[k]].key = k
      /\ Rows(kp)[k].value = kp.infos[kp.hash[k]].value
      /\ Rows(kp)[k].on = (kp.hash[k] \in EnabledIds(kp))
  BY <1>1, <1>2, RowPresent
<1>4. i \in EnabledIds(kp) /\ kp.infos[i].key = k /\ Val(k) = kp.infos[i].value
  BY <1>3 DEF InBatch, On, Val
<1> HIDE DEF i, k
<1>5. store[b][<<ftime, kp.infos[i].key>>] = kp.infos[i].value
  BY <1>4 DEF Delivered
<1> QED
  BY <1>1, <1>4, <1>5 DEF k

(* A flush goes on: at most one backend more has got its points.           *)
LEMMA FlushMoves ==
  ASSUME ProgInv, FlushStep
  PROVE  /\ UNCHANGED <<programVars, enabled, ftime>>
         /\ Rows(kp') = Rows(kp)
         /\ \A b \in enabled :
              \/ (b < cur <=> b < cur') /\ store'[b] = store[b]
              \/ /\ ~(b < cur) /\ b < cur'
                 /\ \A s \in Slots :
                      store'[b][s] = IF InBatch(s) THEN Val(s[2])
                                     ELSE store[b][s]
<1>1. KpInv /\ Unique(kp) /\ WellFormed(kp) /\ cur \in Int
      /\ enabled \in SUBSET Backends /\ Backends \subseteq Int
      /\ store \in [Backends -> [Slots -> Values \cup {NoValue}]]
  BY KpInvWellFormed DEF ProgInv, RowsInv, KpInv, TypeOK, Backends
<1>2. UNCHANGED <<programVars, enabled, ftime>>
  BY DEF FlushStep, SkipBackend, UpdateBackend, WriteBackend
<1>3. Rows(kp') = Rows(kp)
  <2>1. OnTheWay
    BY DEF FlushStep, OnTheWay
  <2> QED
    BY <1>1, <2>1, SamePointsStep, SameRows
<1>4. ASSUME NEW b \in enabled
      PROVE  \/ (b < cur <=> b < cur') /\ store'[b] = store[b]
             \/ /\ ~(b < cur) /\ b < cur'
                /\ \A s \in Slots :
                     store'[b][s] = IF InBatch(s) THEN Val(s[2])
                                    ELSE store[b][s]
  <2>1. CASE SkipBackend
    <3>1. b # cur /\ cur' = cur + 1 /\ store' = store
      BY <2>1 DEF SkipBackend
    <3> QED
      BY <1>1, <3>1
  <2>2. CASE UpdateBackend
    BY <2>2 DEF UpdateBackend
  <2>3. CASE WriteBackend
    <3>1. cur' = cur + 1 /\ store' = Written(cur, Len(kp.infos))
          /\ cur \in Backends
      BY <2>3 DEF WriteBackend, ProgInv, KpInv, TypeOK
    <3>2. CASE b = cur
      <4>1. \A s \in Slots : store'[b][s] = IF InBatch(s) THEN Val(s[2])
                                            ELSE store[b][s]
        BY <1>1, <3>1, <3>2, AllWritten
      <4> QED
        BY <1>1, <3>1, <3>2, <4>1
    <3>3. CASE b # cur
      <4>1. store'[b] = store[b]
        BY <1>1, <3>1, <3>3 DEF Written
      <4>2. b < cur <=> b < cur'
        <5>1. b \in Int
          BY <1>1
        <5> QED
          BY <1>1, <3>1, <3>3, <5>1
      <4> QED
        BY <4>1, <4>2
    <3> QED
      BY <3>2, <3>3
  <2> QED
    BY <2>1, <2>2, <2>3 DEF FlushStep
<1> QED
  BY <1>2, <1>3, <1>4

(* It fails: one backend may have got some of the points.                  *)
LEMMA FlushGivesUp ==
  ASSUME ProgInv, FlushFails
  PROVE  /\ UNCHANGED <<enabled, ftime>>
         /\ Rows(kp') = Rows(kp)
         /\ \A b \in enabled, s \in Slots :
              \/ store'[b][s] = store[b][s]
              \/ InBatch(s) /\ store'[b][s] = Val(s[2])
<1>1. KpInv /\ Unique(kp) /\ WellFormed(kp) /\ enabled \in SUBSET Backends
  BY KpInvWellFormed DEF ProgInv, RowsInv, KpInv, TypeOK
<1>2. UNCHANGED <<enabled, ftime>>
  BY DEF FlushFails, UpdateFails, WriteFails
<1>3. Rows(kp') = Rows(kp)
  <2>1. OnTheWay
    BY DEF FlushFails, OnTheWay
  <2> QED
    BY <1>1, <2>1, SamePointsStep, SameRows
<1>4. ASSUME NEW b \in enabled, NEW s \in Slots
      PROVE  \/ store'[b][s] = store[b][s]
             \/ InBatch(s) /\ store'[b][s] = Val(s[2])
  <2>1. ASSUME NEW n, WriteFails(n)
        PROVE  \/ store'[b][s] = store[b][s]
               \/ InBatch(s) /\ store'[b][s] = Val(s[2])
    <3>1. cur \in Backends /\ store' = Written(cur, n)
      BY <2>1 DEF WriteFails, ProgInv, KpInv, TypeOK
    <3> QED
      BY <1>1, <3>1, SomeWritten
  <2> QED
    BY <2>1 DEF FlushFails, UpdateFails
<1> QED
  BY <1>2, <1>3, <1>4

(* It is through: all backends are behind it, and the rows are reset.      *)
LEMMA FlushIsOver ==
  ASSUME ProgInv, FlushEnd
  PROVE  /\ UNCHANGED <<enabled, ftime, store>>
         /\ \A b \in enabled : b < cur
         /\ \A k \in Keys : On(k)' <=> On(k)
         /\ \A k \in Keys : On(k) => Val(k)' = 0
         /\ \A k \in Keys : Val(k)' # NoValue => Val(k) # NoValue
<1>1. UNCHANGED <<enabled, ftime, store>> /\ kp' = ResetDisable(kp, {"RESET"})
  BY DEF FlushEnd, ProgInv, ControlInv
<1>2. \A b \in enabled : b < cur
  BY LastIdAssumption DEF FlushEnd, ProgInv, KpInv, TypeOK, Backends
<1>3. WellFormed(kp) /\ Unique(kp)
  BY KpInvWellFormed DEF ProgInv, RowsInv
<1>4. Rows(kp') = RowsAfter(Rows(kp), {"RESET"})
  BY <1>1, <1>3, RowsReset DEF FlagSet
<1>5. ASSUME NEW k \in Keys
      PROVE  /\ On(k)' <=> On(k)
             /\ On(k) => Val(k)' = 0
             /\ Val(k)' # NoValue => Val(k) # NoValue
  <2> DEFINE none == [value |-> NoValue, on |-> FALSE]
             r == Rows(kp)[k]
  <2>1. Rows(kp')[k] = IF r = none THEN none ELSE
                       [value |-> IF "RESET" \in {"RESET"} THEN 0 ELSE r.value,
                        on |-> r.on /\ "DISABLE" \notin {"RESET"}]
    BY <1>4 DEF RowsAfter
  <2>2. CASE r = none
    BY <2>1, <2>2 DEF On, Val
  <2>3. CASE r # none
    <3>1. Rows(kp')[k].value = 0
      BY <2>1, <2>3
    <3>2. Rows(kp')[k].on = (r.on /\ "DISABLE" \notin {"RESET"})
      BY <2>1, <2>3
    <3>3. Rows(kp')[k].on <=> r.on
      BY <3>2
    <3>4. kp.hash[k] # NoId
      BY <2>3 DEF Rows, RowOf
    <3>5. r.value # NoValue
      BY <1>3, <3>4, RowPresent
    <3> QED
      BY <3>1, <3>3, <3>5 DEF On, Val
  <2> QED
    BY <2>2, <2>3
<1> QED
  BY <1>1, <1>2, <1>5

-----------------------------------------------------------------------------
(* The backends agree                                                      *)

AllAgree == \A b, c \in Faithful, s \in Slots : store[b][s] = store[c][s]

(* In the loop of timeseries_set_single, the backends behind it have the   *)
(* value of the line; in that of timeseries_kp_flush, only a backend that  *)
(* is behind it and one that is not may differ, in a slot that the flush   *)
(* writes.                                                                 *)
AgreeInv ==
  /\ BackendsAgree
  /\ main = "single" => \A b \in Faithful : b < cur =>
                          store[b][SlotOf(Len(input))] = Len(input)
  /\ main \in {"flush", "final"} =>
       \A b, c \in enabled, s \in Slots :
         store[b][s] # store[c][s] => InBatch(s) /\ ~(b < cur <=> c < cur)

LEMMA BackendIds == Backends \subseteq Int /\ \A b \in Backends : ~(b < 1)
BY LastIdAssumption DEF Backends

LEMMA FaithfulType ==
  ASSUME ProgInv
  PROVE  /\ Faithful \subseteq enabled /\ Faithful \subseteq Backends
         /\ enabled \subseteq Backends /\ cur \in Int
<1>1. enabled \subseteq Backends /\ cur \in 1 .. LastId + 1
  BY DEF ProgInv, KpInv, TypeOK
<1>2. cur \in Int
  BY <1>1
<1> QED
  BY <1>1, <1>2 DEF Faithful

LEMMA AgreeNow ==
  ASSUME AgreeInv, ~InWrite
  PROVE  AllAgree
BY DEF AgreeInv, BackendsAgree, AllAgree

LEMMA AgreeAgain ==
  ASSUME ProgInv', AllAgree', main' = "single" => cur' = 1,
         main' \in {"flush", "final"} => batch_mode'
  PROVE  AgreeInv'
<1>1. Faithful' \subseteq Backends
  BY DEF Faithful, ProgInv, KpInv, TypeOK
<1>2. BackendsAgree'
  BY DEF AllAgree, BackendsAgree
<1>3. main' \in {"flush", "final"} => Faithful' = enabled'
  BY DEF Faithful
<1> QED
  BY <1>1, <1>2, <1>3, BackendIds DEF AgreeInv, AllAgree

(* Steps that leave the backends as they are.                              *)
LEMMA AgreeSame ==
  ASSUME ProgInv, ProgInv', AgreeInv, UNCHANGED <<store, enabled, batch_mode>>,
         main \in {"read", "put", "free"}, main' = "single" => cur' = 1,
         main' \in {"flush", "final"} => batch_mode'
  PROVE  AgreeInv'
<1>1. AllAgree
  BY AgreeNow DEF InWrite
<1>2. AllAgree'
  BY <1>1 DEF AllAgree, Faithful
<1> QED
  BY <1>2, AgreeAgain

LEMMA AgreeStarts ==
  ASSUME ProgInv, ProgInv', main \in {"options", "enable", "open"},
         store' = store, main' \notin {"single", "flush", "final"}
  PROVE  AgreeInv'
<1>1. \A b \in Backends, s \in Slots : store'[b][s] = NoValue
  BY DEF ProgInv, ControlInv, Fresh
<1>2. Faithful' \subseteq Backends
  BY DEF Faithful, ProgInv, KpInv, TypeOK
<1>3. AllAgree'
  BY <1>1, <1>2 DEF AllAgree
<1> QED
  BY <1>3, AgreeAgain

LEMMA AgreeStays ==
  ASSUME AgreeInv,
         UNCHANGED <<kp, store, enabled, batch_mode, input, gtime, ftime, cur>>,
         \/ main' = main /\ rc' = rc
         \/ main \in {"single", "err"} /\ main' = "err"
         \/ main = "err" /\ main' = "exit" /\ rc' = -1
  PROVE  AgreeInv'
<1>1. /\ InWrite => InWrite'
      /\ \A s : InHand(s)' = InHand(s) /\ InBatch(s)' = InBatch(s)
      /\ SlotOf(Len(input))' = SlotOf(Len(input))
      /\ Faithful' = Faithful
  BY DEF InWrite, InHand, InBatch, On, SlotOf, Faithful
<1>2. BackendsAgree'
  BY <1>1 DEF AgreeInv, BackendsAgree
<1> QED
  BY <1>1, <1>2 DEF AgreeInv

(* timeseries_set_single                                                   *)
LEMMA AgreeSingle ==
  ASSUME ProgInv, AgreeInv, main = "single", UNCHANGED programVars,
         NEW b \in enabled,
         SetSingle(b, ThisLine.key, Len(input), ThisTime)
  PROVE  AgreeInv'
<1> DEFINE l == SlotOf(Len(input))
           v == Len(input)
<1>1. PICK w \in IF b \in Indeterminate THEN Values ELSE {v} :
        store' = [store EXCEPT ![b][<<ThisTime, ThisLine.key>>] = w]
  BY DEF SetSingle
<1>2. <<ThisTime, ThisLine.key>> = l /\ l \in Slots
  BY NowWriting, TypesNow
<1>3. ~batch_mode /\ UNCHANGED <<main, rc, batch_mode, enabled, input>>
  BY DEF ProgInv, ControlInv, programVars, SetSingle
<1>4. Faithful = enabled \ Indeterminate /\ Faithful' = Faithful
  BY <1>3 DEF Faithful
<1>5. b \in Backends /\ store \in [Backends -> [Slots -> Values \cup {NoValue}]]
      /\ Faithful \subseteq Backends /\ Faithful \subseteq enabled
  BY FaithfulType DEF ProgInv, KpInv, TypeOK
<1> HIDE DEF l, v
<1>6. /\ \A c \in Backends, s \in Slots : c # b \/ s # l =>
           store'[c][s] = store[c][s]
      /\ store'[b][l] = w
  <2>1. store' = [store EXCEPT ![b][l] = w]
    BY <1>1, <1>2
  <2>2. store[b] \in [Slots -> Values \cup {NoValue}]
    BY <1>5
  <2> QED
    BY <1>2, <1>5, <2>1, <2>2
<1>7. l' = l /\ v' = v
  BY <1>3 DEF l, v, SlotOf
<1>8. ASSUME NEW c \in Faithful, c < cur' PROVE store'[c][l] = v
  <2>1. CASE c = b
    BY <1>1, <1>4, <1>6, <2>1
  <2>2. CASE c # b
    <3>1. c < b
      BY <1>5, <1>8, <2>2, BackendIds DEF SetSingle
    <3>2. c < cur
      BY <1>5, <3>1 DEF SetSingle, AtBackend
    <3>3. store[c][l] = v
      BY <3>2 DEF AgreeInv, l, v
    <3> QED
      BY <1>2, <1>5, <1>6, <2>2, <3>3
  <2> QED
    BY <2>1, <2>2
<1>9. ASSUME NEW c \in Faithful, NEW d \in Faithful, NEW s \in Slots, s # l
      PROVE  store'[c][s] = store'[d][s]
  <2>1. store'[c][s] = store[c][s] /\ store'[d][s] = store[d][s]
    BY <1>5, <1>6, <1>9
  <2>2. store[c][s] = store[d][s]
    BY <1>3, <1>9 DEF AgreeInv, BackendsAgree, InHand, l
  <2> QED
    BY <2>1, <2>2
<1>10. BackendsAgree'
  <2>1. InWrite' /\ \A s : (s = l) => InHand(s)'
    BY <1>3, <1>7 DEF InWrite, InHand, l
  <2> QED
    BY <1>4, <1>9, <2>1 DEF BackendsAgree
<1>11. \A c \in Faithful' : c < cur' =>
         store'[c][SlotOf(Len(input))'] = Len(input')
  BY <1>4, <1>7, <1>8 DEF l, v
<1> QED
  BY <1>3, <1>10, <1>11 DEF AgreeInv

(* The loop of timeseries_set_single is through, or gives up.              *)
LEMMA AgreeSingleEnds ==
  ASSUME ProgInv, ProgInv', AgreeInv, main = "single",
         LoopEnds, GoTo("read"), UNCHANGED libraryVars
  PROVE  AgreeInv'
<1>1. /\ main' = "read" /\ ~batch_mode
      /\ UNCHANGED <<store, enabled, batch_mode>>
  BY DEF GoTo, libraryVars, vars, ProgInv, ControlInv
<1>2. Faithful \subseteq enabled /\ Faithful' = Faithful
  BY <1>1, FaithfulType DEF Faithful
<1>3. \A b \in Faithful : store[b][SlotOf(Len(input))] = Len(input)
  BY <1>2 DEF LoopEnds, AgreeInv
<1>4. ASSUME NEW b \in Faithful, NEW c \in Faithful, NEW s \in Slots
      PROVE  store[b][s] = store[c][s]
  <2>1. CASE s = SlotOf(Len(input))
    BY <1>3, <2>1
  <2>2. CASE s # SlotOf(Len(input))
    BY <1>1, <2>2 DEF AgreeInv, BackendsAgree, InHand
  <2> QED
    BY <2>1, <2>2
<1>5. AllAgree'
  BY <1>1, <1>2, <1>4 DEF AllAgree
<1> QED
  BY <1>1, <1>5, AgreeAgain

(* timeseries_kp_flush                                                     *)
LEMMA AgreeFlushMoves ==
  ASSUME ProgInv, AgreeInv, FlushStep
  PROVE  AgreeInv'
<1>1. /\ UNCHANGED <<main, rc, batch_mode, gtime, input, enabled, ftime>>
      /\ main \in {"flush", "final"} /\ batch_mode /\ gtime = ftime
      /\ Rows(kp') = Rows(kp)
  BY FlushMoves DEF programVars, FlushStep, ProgInv, ControlInv
<1>2. /\ \A b \in enabled : b < cur => Delivered(b)
      /\ KpInv /\ Unique(kp)
  BY <1>1 DEF ProgInv, ControlInv, RowsInv
<1>3. \A s : InBatch(s)' <=> InBatch(s)
  BY <1>1, RowsSame DEF InBatch
<1>4. ASSUME NEW b \in enabled, NEW s \in Slots, b < cur', InBatch(s)
      PROVE  store'[b][s] = Val(s[2])
  <2>1. CASE b < cur
    <3>1. store[b][s] = Val(s[2])
      BY <1>2, <1>4, <2>1, DeliveredRows
    <3>2. store'[b] = store[b]
      BY <2>1, FlushMoves
    <3> QED
      BY <3>1, <3>2
  <2>2. CASE ~(b < cur)
    BY <1>4, <2>2, FlushMoves
  <2> QED
    BY <2>1, <2>2
<1>5. \A b \in enabled, s \in Slots : ~InBatch(s) => store'[b][s] = store[b][s]
  BY FlushMoves
<1>6. \A b \in enabled : ~(b < cur') => ~(b < cur) /\ store'[b] = store[b]
  BY FlushMoves
<1>7. ASSUME NEW b \in enabled, NEW c \in enabled, NEW s \in Slots,
             store'[b][s] # store'[c][s]
      PROVE  InBatch(s) /\ ~(b < cur' <=> c < cur')
  <2>1. InBatch(s)
    BY <1>1, <1>5, <1>7 DEF AgreeInv
  <2>2. ASSUME b < cur', c < cur' PROVE FALSE
    BY <1>4, <1>7, <2>1, <2>2
  <2>3. ASSUME ~(b < cur'), ~(c < cur') PROVE FALSE
    <3>1. store[b][s] # store[c][s] /\ ~(b < cur) /\ ~(c < cur)
      BY <1>6, <1>7, <2>3
    <3> QED
      BY <1>1, <3>1 DEF AgreeInv
  <2> QED
    BY <2>1, <2>2, <2>3
<1>8. Faithful' = enabled'
  BY <1>1 DEF Faithful
<1>9. InWrite' /\ \A s : InBatch(s) => InHand(s)'
  BY <1>1 DEF InWrite, InHand, InBatch
<1>10. BackendsAgree'
  BY <1>1, <1>7, <1>8, <1>9 DEF BackendsAgree
<1> QED
  BY <1>1, <1>3, <1>7, <1>10 DEF AgreeInv

LEMMA AgreeFlushFails ==
  ASSUME ProgInv, AgreeInv, LineFlushFails \/ FinalFlushFails
  PROVE  AgreeInv'
<1>1. /\ main \in {"flush", "final"} /\ main' \in {"err", "exit"}
      /\ main' = "exit" => rc' = -1
      /\ UNCHANGED <<batch_mode, gtime>>
      /\ batch_mode /\ gtime = ftime /\ FlushFails
  BY DEF LineFlushFails, FinalFlushFails, GoTo, ProgInv, ControlInv
<1>2. enabled' = enabled /\ Faithful' = enabled
  BY <1>1, FlushGivesUp DEF Faithful
<1>3. \A b \in enabled, s \in Slots : ~InBatch(s) => store'[b][s] = store[b][s]
  BY <1>1, FlushGivesUp
<1>4. \A b, c \in enabled, s \in Slots :
        store'[b][s] # store'[c][s] => InBatch(s)
  BY <1>1, <1>3 DEF AgreeInv
<1>5. InWrite' /\ \A s : InBatch(s) => InHand(s)'
  BY <1>1 DEF InWrite, InHand, InBatch
<1>6. BackendsAgree'
  BY <1>2, <1>4, <1>5 DEF BackendsAgree
<1> QED
  BY <1>1, <1>6 DEF AgreeInv

LEMMA AgreeFlushed ==
  ASSUME ProgInv, ProgInv', AgreeInv, Flushed \/ FinalFlushEnds
  PROVE  AgreeInv'
<1>1. /\ main \in {"flush", "final"} /\ main' \in {"put", "free"}
      /\ batch_mode /\ batch_mode' = batch_mode /\ FlushEnd
  BY DEF Flushed, FinalFlushEnds, GoTo, ProgInv, ControlInv
<1>2. UNCHANGED <<enabled, store>> /\ \A b \in enabled : b < cur
  BY <1>1, FlushIsOver
<1>3. AllAgree'
  BY <1>1, <1>2 DEF AllAgree, AgreeInv, Faithful
<1> QED
  BY <1>1, <1>3, AgreeAgain

LEMMA AgreeStep ==
  ASSUME ProgInv, ProgInv', AgreeInv, [InsertNext]_insertVars
  PROVE  AgreeInv'
<1>1. CASE Options \/ Enable \/ EnableFails \/ OpenInput
  <2>1. main \in {"options", "enable", "open"}
        /\ main' \notin {"single", "flush", "final"}
    BY <1>1 DEF Options, Enable, EnableFails, OpenInput, GoTo, Enabled,
                programVars
  <2>2. store' = store
    BY <1>1 DEF Options, Enable, EnableFails, OpenInput, libraryVars, vars,
                InitFails, ProducerFails, ConnectFails, EnableAgain,
                InitSucceeds, KafkaInitBegins, ProducerConnects,
                KafkaInitSucceeds, notEnabled
  <2> QED
    BY <2>1, <2>2, AgreeStarts
<1>2. CASE OutOfRange \/ OtherError \/ (Free /\ main = "free")
  <2>1. /\ UNCHANGED <<store, enabled, batch_mode>>
        /\ main \in {"read", "free"} /\ main' \in {"read", "exit"}
    BY <1>2 DEF OutOfRange, OtherError, Free, libraryVars, vars
  <2> QED
    BY <2>1, AgreeSame
<1>3. CASE KafkaError \/ (Free /\ main = "err") \/ UNCHANGED insertVars
  BY <1>3, AgreeStays DEF KafkaError, ErrorCallback, Free, insertVars,
                          libraryVars, programVars, vars
<1>4. CASE InputEnds
  <2>1. /\ UNCHANGED <<store, enabled, batch_mode>> /\ main = "read"
        /\ main' \in {"final", "free"} /\ (main' = "final" => batch_mode)
    BY <1>4 DEF InputEnds, FlushBegin, GoTo, libraryVars, vars
  <2> QED
    BY <2>1, AgreeSame
<1>5. CASE PutLine
  <2>1. /\ UNCHANGED <<store, enabled, batch_mode>> /\ main = "put"
        /\ main' = "read"
    BY <1>5 DEF PutLine, Client
  <2> QED
    BY <2>1, AgreeSame
<1>6. CASE SetLine
  <2>1. CASE SetSingleFails /\ GoTo("err")
    BY <1>6, <2>1, AgreeStays DEF SetLine, SetSingleFails, GoTo, vars
  <2> QED
    BY <1>6, <2>1, AgreeSingle, AgreeSingleEnds DEF SetLine
<1>7. ASSUME NEW k \in Keys, NEW raw \in RawTimes,
             RefuseLine(k, raw) \/ SingleLine(k, raw) \/ BatchLine(k, raw)
      PROVE  AgreeInv'
  <2>1. UNCHANGED <<store, enabled, batch_mode>> /\ main = "read"
    BY <1>7 DEF RefuseLine, SingleLine, BatchLine, TakeLine, Append1,
                SingleBegins, FlushBegin, libraryVars, vars
  <2>2. main' = "single" => cur' = 1
    BY <1>7, <2>1 DEF RefuseLine, SingleLine, BatchLine, SingleBegins
  <2>3. main' \in {"flush", "final"} => batch_mode'
    BY <1>7, <2>1 DEF RefuseLine, SingleLine, BatchLine
  <2> QED
    BY <2>1, <2>2, <2>3, AgreeSame
<1> QED
  BY <1>1, <1>2, <1>3, <1>4, <1>5, <1>6, <1>7, AgreeFlushMoves,
     AgreeFlushFails, AgreeFlushed DEF InsertNext, Step, Free

LEMMA AgreeInit == InsertInit => AgreeInv
<1> SUFFICES ASSUME InsertInit PROVE AgreeInv
  OBVIOUS
<1>1. main = "options" /\ enabled = {}
  BY DEF InsertInit, FrameworkInit
<1> QED
  BY <1>1 DEF AgreeInv, BackendsAgree, Faithful

(* All backends that keep what they get hold the same points but for those *)
(* of one write, in every state of every run, with failures in it or not.  *)
THEOREM BackendsDoAgree == InsertSpec => []BackendsAgree
<1>1. ProgInv /\ AgreeInv /\ [InsertNext]_insertVars => (ProgInv /\ AgreeInv)'
  BY ProgInvStep, AgreeStep
<1>2. AgreeInv => BackendsAgree
  BY DEF AgreeInv
<1> QED
  BY ProgInvInit, AgreeInit, <1>1, <1>2, PTL DEF InsertSpec

-----------------------------------------------------------------------------
(* Only what was read is stored                                            *)

(* A value that may be in a slot: see OnlyLines.                           *)
Sound(v, s) ==
  \/ v = NoValue
  \/ v \in Taken /\ SlotOf(v) = s
  \/ v = 0 /\ batch_mode /\ \E n \in Taken : input[n].key = s[2]

(* The rows of the package have the values of lines with the time gtime,   *)
(* or 0 if there is a line of their key only with another time.            *)
LinesInv ==
  NoTimeZero =>
    /\ \A b \in Faithful, s \in Slots : Sound(store[b][s], s)
    /\ batch_mode => \A k \in Keys : On(k) =>
         gtime # 0 /\ Sound(Val(k), <<gtime, k>>)
           /\ \E n \in Taken : input[n].key = k

(* The lines that were read remain.                                        *)
Extends ==
  /\ batch_mode' = batch_mode
  /\ Taken \subseteq Taken'
  /\ \A n \in Taken : input'[n] = input[n]

LEMMA ExtendsStep ==
  ASSUME ProgInv, [InsertNext]_insertVars
  PROVE  Extends
<1>1. ASSUME input' = input, batch_mode' = batch_mode PROVE Extends
  BY <1>1, SameInput DEF Extends
<1>2. ASSUME NEW k \in Keys, NEW raw \in RawTimes,
             RefuseLine(k, raw) \/ SingleLine(k, raw) \/ BatchLine(k, raw)
      PROVE  Extends
  <2>1. ProgTypes
    BY ProgInvParts
  <2>2. Append1(k, raw, TRUE) \/ Append1(k, raw, FALSE)
    BY <1>2 DEF RefuseLine, SingleLine, BatchLine, TakeLine
  <2>3. /\ \A n \in 1 .. Len(input) : input'[n] = input[n]
        /\ Taken \subseteq Taken'
    BY <2>1, <2>2, InputGrows
  <2>4. Taken \subseteq 1 .. Len(input)
    BY <2>1, LenProperties DEF Taken, ProgTypes
  <2>5. batch_mode' = batch_mode
    BY <2>2 DEF Append1
  <2> QED
    BY <2>3, <2>4, <2>5 DEF Extends
<1>3. CASE Options \/ Enable \/ EnableFails \/ OpenInput
  BY <1>1, <1>3 DEF Options, Enable, EnableFails, OpenInput, GoTo, Enabled,
                    programVars
<1>4. CASE SetLine \/ FlushStep \/ Flushed \/ LineFlushFails \/ PutLine
  BY <1>1, <1>4 DEF SetLine, FlushStep, Flushed, LineFlushFails, PutLine,
                    GoTo, programVars
<1>5. CASE InputEnds \/ FinalFlushEnds \/ FinalFlushFails \/ Free
  BY <1>1, <1>5 DEF InputEnds, FinalFlushEnds, FinalFlushFails, Free, GoTo
<1>6. CASE OutOfRange \/ OtherError \/ KafkaError \/ UNCHANGED insertVars
  BY <1>1, <1>6 DEF OutOfRange, OtherError, KafkaError, programVars, insertVars
<1> QED
  BY <1>2, <1>3, <1>4, <1>5, <1>6 DEF InsertNext, Step

LEMMA SoundKept ==
  ASSUME Extends, NEW v, NEW s, Sound(v, s)
  PROVE  Sound(v, s)'
BY DEF Extends, Sound, SlotOf

LEMMA ExtendsKeeps ==
  ASSUME Extends
  PROVE  /\ NoTimeZero' => NoTimeZero
         /\ \A k : (\E n \in Taken : input[n].key = k) =>
                     \E n \in Taken' : input'[n].key = k
BY DEF Extends, NoTimeZero

(* Steps that leave the backends and the rows as they are; gtime may be    *)
(* set by the first line.                                                  *)
LEMMA LinesSame ==
  ASSUME LinesInv, Extends, UNCHANGED <<enabled, store>>,
         Rows(kp') = Rows(kp), gtime' = gtime \/ gtime = 0
  PROVE  LinesInv'
<1> SUFFICES ASSUME NoTimeZero'
             PROVE  /\ \A b \in Faithful', s \in Slots :
                         Sound(store[b][s], s)'
                    /\ batch_mode' => \A k \in Keys : On(k)' =>
                         gtime' # 0 /\ Sound(Val(k), <<gtime, k>>)'
                           /\ \E n \in Taken' : input'[n].key = k
  BY DEF LinesInv
<1>1. NoTimeZero
  BY ExtendsKeeps
<1>2. Faithful' = Faithful /\ batch_mode' = batch_mode
  BY DEF Faithful, Extends
<1>3. ASSUME NEW b \in Faithful, NEW s \in Slots
      PROVE  Sound(store[b][s], s)'
  <2>1. Sound(store[b][s], s)
    BY <1>1 DEF LinesInv
  <2>2. store'[b][s] = store[b][s]
    OBVIOUS
  <2> QED
    BY <2>1, <2>2, SoundKept
<1>4. ASSUME batch_mode, NEW k \in Keys, On(k)'
      PROVE  /\ gtime' # 0 /\ Sound(Val(k), <<gtime, k>>)'
             /\ \E n \in Taken' : input'[n].key = k
  <2>1. On(k) /\ Val(k)' = Val(k)
    BY <1>4, RowsSame
  <2>2. gtime # 0 /\ Sound(Val(k), <<gtime, k>>)
        /\ \E n \in Taken : input[n].key = k
    BY <1>1, <1>4, <2>1 DEF LinesInv
  <2>3. gtime' = gtime
    BY <2>2
  <2> QED
    BY <2>1, <2>2, <2>3, SoundKept, ExtendsKeeps
<1> QED
  BY <1>2, <1>3, <1>4

(* Steps in which backends get points of the flush.                        *)
LEMMA LinesWrites ==
  ASSUME ProgInv, LinesInv, Extends, batch_mode,
         UNCHANGED <<enabled, gtime>>, gtime = ftime, Rows(kp') = Rows(kp),
         \A b \in enabled, s \in Slots :
           \/ store'[b][s] = store[b][s]
           \/ InBatch(s) /\ store'[b][s] = Val(s[2])
  PROVE  LinesInv'
<1> SUFFICES ASSUME NoTimeZero'
             PROVE  /\ \A b \in Faithful', s \in Slots :
                         Sound(store[b][s], s)'
                    /\ batch_mode' => \A k \in Keys : On(k)' =>
                         gtime' # 0 /\ Sound(Val(k), <<gtime, k>>)'
                           /\ \E n \in Taken' : input'[n].key = k
  BY DEF LinesInv
<1>1. NoTimeZero
  BY ExtendsKeeps
<1>2. Faithful' = Faithful /\ batch_mode' = batch_mode /\ Faithful = enabled
  BY DEF Faithful, Extends
<1>3. ASSUME NEW b \in enabled, NEW s \in Slots
      PROVE  Sound(store[b][s], s)'
  <2>1. CASE store'[b][s] = store[b][s]
    <3>1. Sound(store[b][s], s)
      BY <1>1, <1>2 DEF LinesInv
    <3> QED
      BY <2>1, <3>1, SoundKept
  <2>2. CASE InBatch(s) /\ store'[b][s] = Val(s[2])
    <3>1. s = <<gtime, s[2]>> /\ s[2] \in Keys /\ On(s[2])
      BY <2>2 DEF Slots, InBatch
    <3>2. Sound(Val(s[2]), s)
      BY <1>1, <3>1 DEF LinesInv
    <3> QED
      BY <2>2, <3>2, SoundKept
  <2> QED
    BY <2>1, <2>2
<1>4. ASSUME NEW k \in Keys, On(k)'
      PROVE  /\ gtime' # 0 /\ Sound(Val(k), <<gtime, k>>)'
             /\ \E n \in Taken' : input'[n].key = k
  <2>1. On(k) /\ Val(k)' = Val(k)
    BY <1>4, RowsSame
  <2>2. gtime # 0 /\ Sound(Val(k), <<gtime, k>>)
        /\ \E n \in Taken : input[n].key = k
    BY <1>1, <2>1 DEF LinesInv
  <2> QED
    BY <2>1, <2>2, SoundKept, ExtendsKeeps
<1> QED
  BY <1>2, <1>3, <1>4

LEMMA LinesFresh ==
  ASSUME ProgInv', LinesInv, main \in {"options", "enable", "open"},
         UNCHANGED <<kp, store>>, ProgInv
  PROVE  LinesInv'
<1>1. /\ \A b \in Backends, s \in Slots : store'[b][s] = NoValue
      /\ kp' = EmptyTable
  BY DEF ProgInv, ControlInv, Fresh
<1>2. Faithful' \subseteq Backends
  BY DEF Faithful, ProgInv, KpInv, TypeOK
<1>3. \A k \in Keys : ~On(k)'
  BY <1>1 DEF On, Rows, RowOf, EmptyTable
<1> QED
  BY <1>1, <1>2, <1>3 DEF LinesInv, Sound

LEMMA LinesSingle ==
  ASSUME ProgInv, LinesInv, Extends, main = "single", UNCHANGED programVars,
         NEW b \in enabled,
         SetSingle(b, ThisLine.key, Len(input), ThisTime)
  PROVE  LinesInv'
<1> DEFINE l == SlotOf(Len(input))
           v == Len(input)
<1>1. PICK w \in IF b \in Indeterminate THEN Values ELSE {v} :
        store' = [store EXCEPT ![b][<<ThisTime, ThisLine.key>>] = w]
  BY DEF SetSingle
<1>2. <<ThisTime, ThisLine.key>> = l /\ l \in Slots /\ v \in Taken
  BY NowWriting, TypesNow
<1>3. ~batch_mode /\ batch_mode' = batch_mode /\ enabled' = enabled
  BY DEF ProgInv, ControlInv, programVars, SetSingle
<1>4. Faithful = enabled \ Indeterminate /\ Faithful' = Faithful
      /\ Faithful \subseteq Backends
  BY <1>3, FaithfulType DEF Faithful
<1>5. b \in Backends /\ store \in [Backends -> [Slots -> Values \cup {NoValue}]]
  BY FaithfulType DEF ProgInv, KpInv, TypeOK
<1>6. Sound(v, l)
  BY <1>2 DEF Sound, l, v
<1> HIDE DEF l, v
<1>7. ASSUME NoTimeZero', NEW c \in Faithful, NEW s \in Slots
      PROVE  Sound(store[c][s], s)'
  <2>1. CASE c = b /\ s = l
    <3>1. store'[c][s] = v
      <4>1. w = v /\ store' = [store EXCEPT ![b][l] = w]
        BY <1>1, <1>2, <1>4, <2>1
      <4>2. store[b] \in [Slots -> Values \cup {NoValue}]
        BY <1>5
      <4> QED
        BY <1>2, <1>5, <2>1, <4>1, <4>2
    <3> QED
      BY <1>6, <2>1, <3>1, SoundKept
  <2>2. CASE ~(c = b /\ s = l)
    <3>1. store'[c][s] = store[c][s]
      BY <1>1, <1>2, <1>4, <1>5, <2>2
    <3>2. Sound(store[c][s], s)
      BY <1>7, ExtendsKeeps DEF LinesInv
    <3> QED
      BY <3>1, <3>2, SoundKept
  <2> QED
    BY <2>1, <2>2
<1> QED
  BY <1>3, <1>4, <1>7 DEF LinesInv

(* The flush is through: the rows are reset, for the time of the new line. *)
LEMMA LinesFlushed ==
  ASSUME ProgInv, ProgInv', LinesInv, Extends, Flushed \/ FinalFlushEnds
  PROVE  LinesInv'
<1>1. /\ main \in {"flush", "final"} /\ batch_mode /\ FlushEnd
      /\ \/ gtime' = gtime
         \/ main = "flush" /\ gtime' = ThisTime /\ input' = input
  BY DEF Flushed, FinalFlushEnds, GoTo, ProgInv, ControlInv
<1>2. /\ UNCHANGED <<enabled, store>>
      /\ \A k \in Keys : On(k)' <=> On(k)
      /\ \A k \in Keys : On(k) => Val(k)' = 0
  BY <1>1, FlushIsOver
<1> SUFFICES ASSUME NoTimeZero'
             PROVE  /\ \A b \in Faithful', s \in Slots :
                         Sound(store[b][s], s)'
                    /\ batch_mode' => \A k \in Keys : On(k)' =>
                         gtime' # 0 /\ Sound(Val(k), <<gtime, k>>)'
                           /\ \E n \in Taken' : input'[n].key = k
  BY DEF LinesInv
<1>3. NoTimeZero
  BY ExtendsKeeps
<1>4. Faithful' = Faithful /\ batch_mode' = batch_mode
  BY <1>2 DEF Faithful, Extends
<1>5. ASSUME NEW b \in Faithful, NEW s \in Slots
      PROVE  Sound(store[b][s], s)'
  <2>1. Sound(store[b][s], s)
    BY <1>3 DEF LinesInv
  <2>2. store'[b][s] = store[b][s]
    BY <1>2
  <2> QED
    BY <2>1, <2>2, SoundKept
<1>6. ASSUME NEW k \in Keys, On(k)'
      PROVE  /\ gtime' # 0 /\ Sound(Val(k), <<gtime, k>>)'
             /\ \E n \in Taken' : input'[n].key = k
  <2>1. On(k) /\ Val(k)' = 0
    BY <1>2, <1>6
  <2>2. gtime # 0 /\ \E n \in Taken : input[n].key = k
    BY <1>1, <1>3, <2>1 DEF LinesInv
  <2>3. \E n \in Taken' : input'[n].key = k
    BY <2>2, ExtendsKeeps
  <2>4. gtime' # 0
    <3>1. CASE gtime' = gtime
      BY <2>2, <3>1
    <3>2. CASE main = "flush" /\ gtime' = ThisTime
      <4>1. Len(input) \in Taken
        BY <3>2, NowWriting
      <4> QED
        BY <1>3, <3>2, <4>1 DEF NoTimeZero, ThisTime, ThisLine
    <3> QED
      BY <1>1, <3>1, <3>2
  <2>5. Sound(Val(k), <<gtime, k>>)'
    BY <1>1, <1>4, <2>1, <2>3 DEF Sound
  <2> QED
    BY <2>1, <2>3, <2>4, <2>5
<1> QED
  BY <1>4, <1>5, <1>6

(* timeseries_kp_add_key, if the key is new, and timeseries_kp_set.        *)
LEMMA KnownRows ==
  ASSUME WellFormed(kp), Unique(kp), NEW j \in Keys
  PROVE  /\ \A k \in Keys : k # j => Rows(Known(j))[k] = Rows(kp)[k]
         /\ Val(j) = NoValue => Rows(Known(j))[j].on
         /\ Val(j) # NoValue => Rows(Known(j))[j] = Rows(kp)[j]
<1>1. CASE kp.hash[j] = NoId
  <2>1. Rows(AddKey(kp, j)) =
          [Rows(kp) EXCEPT ![j] = [value |-> 0, on |-> TRUE]]
    BY <1>1, RowsAdd
  <2>2. Known(j) = AddKey(kp, j)
    BY <1>1 DEF Known, GetKey
  <2>3. Val(j) = NoValue
    BY <1>1 DEF Val, Rows, RowOf
  <2>4. Rows(kp) = [k \in Keys |-> Rows(kp)[k]]
    BY DEF Rows
  <2> QED
    BY <2>1, <2>2, <2>3, <2>4
<1>2. CASE kp.hash[j] # NoId
  <2>1. Val(j) # NoValue
    BY <1>2, RowPresent DEF Val
  <2>2. Known(j) = kp
    BY <1>2 DEF Known, GetKey
  <2> QED
    BY <2>1, <2>2
<1> QED
  BY <1>1, <1>2

LEMMA PutRows ==
  ASSUME ProgInv, PutLine
  PROVE  /\ \A k \in Keys : k # ThisLine.key =>
              On(k)' = On(k) /\ Val(k)' = Val(k)
         /\ Val(ThisLine.key)' = Len(input)
         /\ Val(ThisLine.key) = NoValue \/ On(ThisLine.key) =>
              On(ThisLine.key)'
<1> DEFINE j == ThisLine.key
           t == Known(j)
           i == t.hash[j]
           v == Len(input)
<1>1. kp' = SetValue(t, i, v) /\ main = "put" /\ input' = input
  BY DEF PutLine, Client, Known, GetKey
<1>2. j \in Keys /\ v \in Values /\ j' = j
  BY <1>1, NowWriting, TypesNow, SameInput
<1>3. WellFormed(kp) /\ Unique(kp)
  BY KpInvWellFormed DEF ProgInv, RowsInv
<1> HIDE DEF j, v
<1>4. WellFormed(t) /\ Unique(t) /\ i \in Ids(t) /\ t.infos[i].key = j
  BY <1>2, <1>3, KnownRow
<1>5. /\ \A k \in Keys : k # j => Rows(t)[k] = Rows(kp)[k]
      /\ Val(j) = NoValue => Rows(t)[j].on
      /\ Val(j) # NoValue => Rows(t)[j] = Rows(kp)[j]
  BY <1>2, <1>3, KnownRows
<1> HIDE DEF i, t
<1>6. OneRowSet(Rows(t), Rows(kp'), j, v)
  BY <1>1, <1>2, <1>4, RowsSet
<1>7. /\ \A k \in Keys : k # j => Rows(kp')[k] = Rows(t)[k]
      /\ Rows(kp')[j].value = v
      /\ Rows(kp')[j].on = Rows(t)[j].on
  BY <1>6 DEF OneRowSet
<1>8. \A k \in Keys : k # j => Rows(kp')[k] = Rows(kp)[k]
  BY <1>5, <1>7
<1>9. Val(j) = NoValue \/ On(j) => Rows(kp')[j].on
  BY <1>5, <1>7 DEF On
<1> QED
  BY <1>2, <1>7, <1>8, <1>9 DEF On, Val, j, v

LEMMA LinesPut ==
  ASSUME ProgInv, LinesInv, Extends, PutLine
  PROVE  LinesInv'
<1>1. main = "put" /\ UNCHANGED <<enabled, store, input, gtime, batch_mode>>
      /\ gtime = ThisTime
  BY DEF PutLine, Client, ProgInv, ControlInv
<1> SUFFICES ASSUME NoTimeZero'
             PROVE  /\ \A b \in Faithful', s \in Slots :
                         Sound(store[b][s], s)'
                    /\ batch_mode' => \A k \in Keys : On(k)' =>
                         gtime' # 0 /\ Sound(Val(k), <<gtime, k>>)'
                           /\ \E n \in Taken' : input'[n].key = k
  BY DEF LinesInv
<1>2. NoTimeZero
  BY ExtendsKeeps
<1>3. Faithful' = Faithful
  BY <1>1 DEF Faithful
<1>4. ASSUME NEW b \in Faithful, NEW s \in Slots
      PROVE  Sound(store[b][s], s)'
  <2>1. Sound(store[b][s], s)
    BY <1>2 DEF LinesInv
  <2> QED
    BY <1>1, <2>1, SoundKept
<1>5. ASSUME NEW k \in Keys, batch_mode, On(k)'
      PROVE  /\ gtime' # 0 /\ Sound(Val(k), <<gtime, k>>)'
             /\ \E n \in Taken' : input'[n].key = k
  <2>1. CASE k = ThisLine.key
    <3>1. /\ Len(input) \in Taken /\ SlotOf(Len(input)) = <<gtime, k>>
          /\ Val(k)' = Len(input)
      BY <1>1, <2>1, NowWriting, PutRows, SameInput
    <3>2. Taken' = Taken /\ \A n : SlotOf(n)' = SlotOf(n)
      BY <1>1, SameInput
    <3>3. Sound(Val(k), <<gtime, k>>)'
      BY <1>1, <3>1, <3>2 DEF Sound
    <3>4. gtime' # 0
      BY <1>1, <1>2, <3>1 DEF NoTimeZero, ThisTime, ThisLine
    <3>5. \E n \in Taken' : input'[n].key = k
      BY <1>1, <2>1, <3>1, <3>2 DEF ThisLine
    <3> QED
      BY <3>3, <3>4, <3>5
  <2>2. CASE k # ThisLine.key
    <3>1. On(k) /\ Val(k)' = Val(k)
      BY <1>5, <2>2, PutRows
    <3>2. gtime # 0 /\ Sound(Val(k), <<gtime, k>>)
          /\ \E n \in Taken : input[n].key = k
      BY <1>2, <1>5, <3>1 DEF LinesInv
    <3> QED
      BY <1>1, <3>1, <3>2, SoundKept, ExtendsKeeps
  <2> QED
    BY <2>1, <2>2
<1> QED
  BY <1>1, <1>3, <1>4, <1>5

(* What the other steps leave alone: a flush may begin, which copies a     *)
(* flag of the package.                                                    *)
LEMMA QuietSteps ==
  ASSUME ProgInv, [InsertNext]_insertVars, ~Step
  PROVE  /\ UNCHANGED <<enabled, store>> /\ Rows(kp') = Rows(kp)
         /\ gtime' = gtime \/ gtime = 0
<1>1. WellFormed(kp) /\ \A t : SamePoints(kp, t) => Rows(t) = Rows(kp)
  BY KpInvWellFormed, SameRows DEF ProgInv
<1>2. CASE OutOfRange \/ OtherError \/ KafkaError \/ UNCHANGED insertVars
  <2>1. UNCHANGED <<enabled, store, kp, gtime>>
    BY <1>2 DEF OutOfRange, OtherError, KafkaError, ErrorCallback, insertVars,
                libraryVars, programVars, vars
  <2> QED
    BY <2>1
<1>3. ASSUME NEW k \in Keys, NEW raw \in RawTimes,
             RefuseLine(k, raw) \/ SingleLine(k, raw)
      PROVE  UNCHANGED <<enabled, store, kp, gtime>>
  BY <1>3 DEF RefuseLine, SingleLine, SingleBegins, libraryVars, vars
<1>4. ASSUME NEW k \in Keys, NEW raw \in RawTimes, BatchLine(k, raw)
      PROVE  /\ UNCHANGED <<enabled, store>> /\ Rows(kp') = Rows(kp)
             /\ gtime' = gtime \/ gtime = 0
  <2>1. CASE gtime = 0
    BY <1>4, <2>1 DEF BatchLine, libraryVars, vars
  <2>2. CASE gtime # 0
    <3>1. /\ UNCHANGED <<enabled, store>> /\ gtime' = gtime
          /\ kp' = kp \/ kp' = [kp EXCEPT !.dirty = FALSE]
      BY <1>4, <2>2 DEF BatchLine, FlushBegin, libraryVars, vars
    <3>2. Rows(kp') = Rows(kp)
      BY <1>1, <3>1, DirtySame
    <3> QED
      BY <3>1, <3>2
  <2> QED
    BY <2>1, <2>2
<1> QED
  BY <1>2, <1>3, <1>4 DEF InsertNext

LEMMA LinesStep ==
  ASSUME ProgInv, ProgInv', LinesInv, [InsertNext]_insertVars
  PROVE  LinesInv'
<1>1. Extends
  BY ExtendsStep
<1>2. CASE ~Step
  BY <1>1, <1>2, QuietSteps, LinesSame
<1>3. CASE Options \/ Enable \/ EnableFails \/ OpenInput
  <2>1. /\ main \in {"options", "enable", "open"}
        /\ UNCHANGED <<kp, store>>
    BY <1>3 DEF Options, Enable, EnableFails, OpenInput, libraryVars, vars,
                InitFails, ProducerFails, ConnectFails, EnableAgain,
                InitSucceeds, KafkaInitBegins, ProducerConnects,
                KafkaInitSucceeds, notEnabled
  <2> QED
    BY <2>1, LinesFresh
<1>4. CASE SetLine
  <2>1. CASE UNCHANGED libraryVars /\ (GoTo("read") \/ GoTo("err"))
    BY <1>1, <2>1, LinesSame DEF libraryVars, vars, GoTo
  <2>2. CASE SetSingleFails /\ GoTo("err")
    BY <1>1, <2>2, LinesSame DEF SetSingleFails, vars, GoTo
  <2> QED
    BY <1>1, <1>4, <2>1, <2>2, LinesSingle DEF SetLine
<1>5. CASE FlushStep
  <2>1. batch_mode /\ gtime' = gtime /\ gtime = ftime
    BY <1>5 DEF FlushStep, programVars, ProgInv, ControlInv
  <2> QED
    BY <1>1, <1>5, <2>1, FlushMoves, LinesWrites
<1>6. CASE LineFlushFails \/ FinalFlushFails
  <2>1. batch_mode /\ gtime' = gtime /\ gtime = ftime /\ FlushFails
    BY <1>6 DEF LineFlushFails, FinalFlushFails, GoTo, ProgInv, ControlInv
  <2> QED
    BY <1>1, <2>1, FlushGivesUp, LinesWrites
<1>7. CASE InputEnds
  <2>1. /\ UNCHANGED <<enabled, store, gtime>>
        /\ kp' = kp \/ kp' = [kp EXCEPT !.dirty = FALSE]
    BY <1>7 DEF InputEnds, FlushBegin, GoTo, libraryVars, vars
  <2>2. Rows(kp') = Rows(kp)
    BY <2>1, DirtySame, SameRows, KpInvWellFormed DEF ProgInv
  <2> QED
    BY <1>1, <2>1, <2>2, LinesSame
<1>8. CASE Free
  BY <1>1, <1>8, LinesSame DEF Free, libraryVars, vars
<1> QED
  BY <1>1, <1>2, <1>3, <1>4, <1>5, <1>6, <1>7, <1>8, LinesFlushed, LinesPut
     DEF Step

LEMMA LinesInit == InsertInit => LinesInv
<1> SUFFICES ASSUME InsertInit PROVE LinesInv
  OBVIOUS
<1>1. enabled = {} /\ kp = EmptyTable
  BY DEF InsertInit, FrameworkInit, Init
<1>2. \A k \in Keys : ~On(k)
  BY <1>1 DEF On, Rows, RowOf, EmptyTable
<1> QED
  BY <1>1, <1>2 DEF LinesInv, Faithful

(* If no line has the time 0, a backend that keeps what it gets never has  *)
(* a point that was not read, but for the zeros of batch mode, whatever    *)
(* the order of the lines and whatever fails.                              *)
THEOREM OnlyLinesStored == InsertSpec => []OnlyLines
<1>1. ProgInv /\ LinesInv /\ [InsertNext]_insertVars => (ProgInv /\ LinesInv)'
  BY ProgInvStep, LinesStep
<1>2. LinesInv => OnlyLines
  BY DEF LinesInv, OnlyLines, Sound
<1> QED
  BY ProgInvInit, LinesInit, <1>1, <1>2, PTL DEF InsertSpec

-----------------------------------------------------------------------------
(* Everything that was read is stored                                      *)

LineTime(n) == TimeOf(input[n].raw)

(* gtime is the time of some line; the rows of the package are all on; and *)
(* while no number has been out of range, every line is taken.             *)
HistoryInv ==
  /\ gtime # 0 => \E n \in Taken : LineTime(n) = gtime
  /\ \A k \in Keys : Val(k) # NoValue => On(k)
  /\ ~poisoned => errno = "other" /\ Taken = DOMAIN input
  /\ batch_mode /\ main = "read" /\ Taken # {} => points_pending > 0

LEMMA RowsStayOn ==
  ASSUME ProgInv, HistoryInv, [InsertNext]_insertVars
  PROVE  \A k \in Keys : Val(k)' # NoValue => On(k)'
<1>1. CASE Rows(kp') = Rows(kp)
  BY <1>1, RowsSame DEF HistoryInv
<1>2. CASE Flushed \/ FinalFlushEnds
  <2>1. FlushEnd
    BY <1>2 DEF Flushed, FinalFlushEnds
  <2> QED
    BY <2>1, FlushIsOver DEF HistoryInv
<1>3. CASE PutLine
  <2>1. main = "put" /\ ThisLine.key \in Keys
    BY <1>3, NowWriting DEF PutLine
  <2>2. ThisLine' = ThisLine
    BY <1>3, SameInput DEF PutLine
  <2>3. On(ThisLine.key)'
    BY <1>3, <2>1, PutRows DEF HistoryInv
  <2> QED
    BY <1>3, <2>1, <2>2, <2>3, PutRows DEF HistoryInv
<1>4. CASE Step /\ ~(Flushed \/ FinalFlushEnds \/ PutLine)
  <2>1. CASE FlushStep
    BY <1>1, <2>1, FlushMoves
  <2>2. CASE LineFlushFails \/ FinalFlushFails
    BY <1>1, <2>2, FlushGivesUp DEF LineFlushFails, FinalFlushFails
  <2>3. CASE InputEnds
    <3>1. kp' = kp \/ kp' = [kp EXCEPT !.dirty = FALSE]
      BY <2>3 DEF InputEnds, FlushBegin, libraryVars, vars
    <3> QED
      BY <1>1, <3>1, DirtySame, SameRows, KpInvWellFormed DEF ProgInv
  <2>4. CASE Options \/ Enable \/ EnableFails \/ OpenInput
    BY <1>1, <2>4 DEF Options, Enable, EnableFails, OpenInput, libraryVars,
                vars, InitFails, ProducerFails, ConnectFails, EnableAgain,
                InitSucceeds, KafkaInitBegins, ProducerConnects,
                KafkaInitSucceeds, notEnabled
  <2>5. CASE SetLine \/ Free
    BY <1>1, <2>5 DEF SetLine, SetSingle, SetSingleFails, Free, libraryVars,
                      vars
  <2> QED
    BY <1>4, <2>1, <2>2, <2>3, <2>4, <2>5 DEF Step
<1> QED
  BY <1>1, <1>2, <1>3, <1>4, QuietSteps

LEMMA GtimeStep ==
  ASSUME ProgInv, [InsertNext]_insertVars
  PROVE  gtime' = gtime \/ (gtime' = ThisTime' /\ Len(input') \in Taken')
<1>1. ASSUME NEW k \in Keys, NEW raw \in RawTimes, BatchLine(k, raw)
      PROVE  gtime' = gtime \/ (gtime' = ThisTime' /\ Len(input') \in Taken')
  <2>1. ThisTime' = TimeOf(raw) /\ Len(input') \in Taken'
    BY <1>1, ProgInvParts, InputGrows DEF BatchLine, TakeLine
  <2> QED
    BY <1>1, <2>1, ProgInvParts, TakeLineStep
<1>2. CASE Flushed
  BY <1>2, NowWriting, SameInput DEF Flushed
<1>3. CASE Step /\ ~Flushed
  BY <1>3 DEF Step, Options, Enable, EnableFails, OpenInput, SetLine,
              FlushStep, LineFlushFails, PutLine, InputEnds, FinalFlushEnds,
              FinalFlushFails, Free, GoTo, Enabled, programVars
<1>4. ASSUME NEW k \in Keys, NEW raw \in RawTimes,
             RefuseLine(k, raw) \/ SingleLine(k, raw)
      PROVE  gtime' = gtime
  BY <1>4 DEF RefuseLine, SingleLine
<1>5. CASE OutOfRange \/ OtherError \/ KafkaError \/ UNCHANGED insertVars
  BY <1>5 DEF OutOfRange, OtherError, KafkaError, programVars, insertVars
<1> QED
  BY <1>1, <1>2, <1>3, <1>4, <1>5 DEF InsertNext

(* The steps of the program as to what has been out of range.              *)
LEMMA PoisonStep ==
  ASSUME ProgInv, HistoryInv, [InsertNext]_insertVars, ~poisoned'
  PROVE  ~poisoned /\ errno' = "other" /\ Taken' = DOMAIN input'
<1>1. CASE UNCHANGED <<poisoned, errno, input>>
  BY <1>1, SameInput DEF HistoryInv
<1>2. CASE OutOfRange \/ OtherError
  BY <1>2 DEF OutOfRange, OtherError, HistoryInv
<1>3. CASE Step
  BY <1>1, <1>3 DEF Step, Options, Enable, EnableFails, OpenInput, SetLine,
                    FlushStep, Flushed, LineFlushFails, PutLine, InputEnds,
                    FinalFlushEnds, FinalFlushFails, Free, GoTo, Enabled,
                    programVars
<1>4. ASSUME NEW k \in Keys, NEW raw \in RawTimes,
             RefuseLine(k, raw) \/ SingleLine(k, raw) \/ BatchLine(k, raw)
      PROVE  ~poisoned /\ errno' = "other" /\ Taken' = DOMAIN input'
  <2>1. ~poisoned /\ errno = "other" /\ Taken = DOMAIN input
        /\ Append1(k, raw, TRUE)
    BY <1>4 DEF RefuseLine, SingleLine, BatchLine, TakeLine, Append1, HistoryInv
  <2>2. errno' = errno
    BY <2>1 DEF Append1
  <2>3. /\ input' \in Seq(Line) /\ Len(input') = Len(input) + 1
        /\ input \in Seq(Line) /\ Len(input) \in Nat
        /\ Taken' = Taken \cup {Len(input')}
    BY <2>1, ProgInvParts, InputGrows, TypesNow
  <2>4. DOMAIN input = 1 .. Len(input) /\ DOMAIN input' = 1 .. Len(input')
    BY <2>3, LenProperties
  <2>5. Taken' = DOMAIN input'
    BY <2>1, <2>3, <2>4
  <2> QED
    BY <2>1, <2>2, <2>5
<1>5. CASE KafkaError \/ UNCHANGED insertVars
  BY <1>1, <1>5 DEF KafkaError, programVars, insertVars
<1> QED
  BY <1>2, <1>3, <1>4, <1>5 DEF InsertNext

LEMMA PendingStep ==
  ASSUME ProgInv, HistoryInv, [InsertNext]_insertVars,
         batch_mode', main' = "read", Taken' # {}
  PROVE  points_pending' > 0
<1>1. CASE main = "read" /\ UNCHANGED <<batch_mode, input, points_pending>>
  BY <1>1, SameInput DEF HistoryInv
<1>2. CASE PutLine
  <2>1. points_pending \in 0 .. Len(input) /\ points_pending' = points_pending + 1
    BY <1>2, ProgInvParts DEF ProgTypes, PutLine
  <2> QED
    BY <2>1
<1>3. CASE OpenInput
  <2>1. input' = << >>
    BY <1>3 DEF OpenInput, GoTo, ProgInv, ControlInv, Fresh
  <2> QED
    BY <2>1 DEF Taken
<1>4. CASE Step /\ ~PutLine /\ ~OpenInput
  <2>1. CASE SetLine
    BY <2>1 DEF SetLine, programVars, GoTo, ProgInv, ControlInv
  <2> QED
    BY <1>4, <2>1 DEF Step, Options, Enable, EnableFails, FlushStep, Flushed,
                      LineFlushFails, InputEnds, FinalFlushEnds,
                      FinalFlushFails, Free, GoTo, Enabled, programVars
<1>5. ASSUME NEW k \in Keys, NEW raw \in RawTimes, RefuseLine(k, raw)
      PROVE  points_pending' > 0
  <2>1. Taken' = Taken /\ UNCHANGED <<batch_mode, points_pending, main>>
    BY <1>5, ProgInvParts, InputGrows DEF RefuseLine, Append1
  <2> QED
    BY <2>1 DEF HistoryInv
<1>6. ASSUME NEW k \in Keys, NEW raw \in RawTimes,
             SingleLine(k, raw) \/ BatchLine(k, raw)
      PROVE  FALSE
  BY <1>6 DEF SingleLine, BatchLine
<1>7. CASE OutOfRange \/ OtherError \/ KafkaError \/ UNCHANGED insertVars
  BY <1>1, <1>7 DEF OutOfRange, OtherError, KafkaError, programVars, insertVars
<1> QED
  BY <1>2, <1>3, <1>4, <1>5, <1>6, <1>7 DEF InsertNext

LEMMA HistoryStep ==
  ASSUME ProgInv, HistoryInv, [InsertNext]_insertVars
  PROVE  HistoryInv'
<1>1. ASSUME gtime' # 0 PROVE \E n \in Taken' : LineTime(n)' = gtime'
  <2>1. CASE gtime' = gtime
    BY <1>1, <2>1, ExtendsStep DEF HistoryInv, Extends, LineTime
  <2>2. CASE gtime' = ThisTime' /\ Len(input') \in Taken'
    BY <2>2 DEF ThisTime, ThisLine, LineTime
  <2> QED
    BY <2>1, <2>2, GtimeStep
<1> QED
  BY <1>1, RowsStayOn, PoisonStep, PendingStep DEF HistoryInv

LEMMA HistoryInit == InsertInit => HistoryInv
<1> SUFFICES ASSUME InsertInit PROVE HistoryInv
  OBVIOUS
<1>1. kp = EmptyTable /\ gtime = 0 /\ errno = "other" /\ input = << >>
      /\ main = "options"
  BY DEF InsertInit, FrameworkInit, Init
<1>2. \A k \in Keys : Val(k) = NoValue
  BY <1>1 DEF Val, Rows, RowOf, EmptyTable
<1>3. Taken = DOMAIN input
  BY <1>1 DEF Taken
<1> QED
  BY <1>1, <1>2, <1>3 DEF HistoryInv

(* The last line of its slot; the program has not failed.                  *)
Last(n) == n \in DOMAIN input
             /\ \A m \in DOMAIN input : m > n => SlotOf(m) # SlotOf(n)
Succeeding == main # "err" /\ (main = "exit" => rc = 0)

LEMMA LastKept ==
  ASSUME ProgInv, HistoryInv, [InsertNext]_insertVars, ~poisoned',
         NEW n \in DOMAIN input, Last(n)'
  PROVE  Last(n) /\ SlotOf(n)' = SlotOf(n) /\ LineTime(n)' = LineTime(n)
<1>1. /\ Taken = DOMAIN input /\ Taken' = DOMAIN input'
      /\ Taken \subseteq Taken' /\ \A m \in Taken : input'[m] = input[m]
  BY PoisonStep, ExtendsStep DEF HistoryInv, Extends
<1>2. \A m \in DOMAIN input : SlotOf(m)' = SlotOf(m)
  BY <1>1 DEF SlotOf
<1>3. LineTime(n)' = LineTime(n)
  BY <1>1 DEF LineTime
<1> QED
  BY <1>1, <1>2, <1>3 DEF Last

(* Without -b.                                                             *)
SingleInv ==
  ~poisoned /\ ~batch_mode /\ Succeeding =>
    \A b \in Faithful, n \in DOMAIN input : Last(n) =>
      \/ store[b][SlotOf(n)] = n
      \/ main = "single" /\ n = Len(input) /\ ~(b < cur)

(* Steps that leave the backends as they are, and do not take the program  *)
(* back from a failure.                                                    *)
LEMMA SingleSame ==
  ASSUME ProgInv, HistoryInv, SingleInv, [InsertNext]_insertVars,
         UNCHANGED <<enabled, store, input>>,
         Succeeding' => Succeeding,
         \/ main # "single"
         \/ main' = "single" /\ cur' = cur
         \/ \A c \in enabled : c < cur
  PROVE  SingleInv'
<1> SUFFICES ASSUME ~poisoned', ~batch_mode', Succeeding',
                    NEW b \in Faithful', NEW n \in DOMAIN input', Last(n)'
             PROVE  \/ store'[b][SlotOf(n)'] = n
                    \/ main' = "single" /\ n = Len(input') /\ ~(b < cur')
  BY DEF SingleInv
<1>1. ~poisoned /\ ~batch_mode /\ Succeeding /\ Faithful' = Faithful
      /\ Faithful \subseteq enabled
  BY PoisonStep, ExtendsStep, FaithfulType DEF Extends, Faithful
<1>2. Last(n) /\ SlotOf(n)' = SlotOf(n)
  BY LastKept
<1>3. \/ store[b][SlotOf(n)] = n
      \/ main = "single" /\ n = Len(input) /\ ~(b < cur)
  BY <1>1, <1>2 DEF SingleInv
<1> QED
  BY <1>1, <1>2, <1>3

LEMMA SingleTakes ==
  ASSUME ProgInv, ProgInv', HistoryInv, SingleInv, [InsertNext]_insertVars,
         NEW k \in Keys, NEW raw \in RawTimes, SingleLine(k, raw)
  PROVE  SingleInv'
<1> SUFFICES ASSUME ~poisoned', ~batch_mode',
                    NEW b \in Faithful', NEW n \in DOMAIN input', Last(n)'
             PROVE  \/ store'[b][SlotOf(n)'] = n
                    \/ main' = "single" /\ n = Len(input') /\ ~(b < cur')
  BY DEF SingleInv
<1>1. /\ main = "read" /\ main' = "single" /\ cur' = 1
      /\ UNCHANGED <<enabled, store, batch_mode>>
  BY DEF SingleLine, SingleBegins, TakeLine, Append1
<1>2. ~poisoned /\ ~batch_mode /\ Succeeding /\ Faithful' = Faithful
  BY <1>1, PoisonStep DEF Faithful, Succeeding
<1>3. ~(b < cur')
  <2>1. b \in Backends
    BY FaithfulType, <1>2
  <2> QED
    BY <1>1, <2>1, BackendIds
<1>4. CASE n = Len(input')
  BY <1>1, <1>3, <1>4
<1>5. CASE n # Len(input')
  <2>1. n \in DOMAIN input
    <3>1. /\ input' \in Seq(Line) /\ Len(input') = Len(input) + 1
          /\ input \in Seq(Line) /\ Len(input) \in Nat
      BY ProgInvParts, InputGrows, TypesNow DEF SingleLine, TakeLine
    <3>2. DOMAIN input = 1 .. Len(input) /\ DOMAIN input' = 1 .. Len(input')
      BY <3>1, LenProperties
    <3> QED
      BY <1>5, <3>1, <3>2
  <2>2. Last(n) /\ SlotOf(n)' = SlotOf(n)
    BY <2>1, LastKept
  <2>3. store[b][SlotOf(n)] = n
    BY <1>1, <1>2, <2>1, <2>2 DEF SingleInv
  <2> QED
    BY <1>1, <2>2, <2>3
<1> QED
  BY <1>4, <1>5

LEMMA SingleSets ==
  ASSUME ProgInv, HistoryInv, SingleInv, [InsertNext]_insertVars,
         main = "single", UNCHANGED programVars, NEW b \in enabled,
         SetSingle(b, ThisLine.key, Len(input), ThisTime)
  PROVE  SingleInv'
<1> DEFINE l == SlotOf(Len(input))
           v == Len(input)
<1> SUFFICES ASSUME ~poisoned', NEW c \in Faithful', NEW n \in DOMAIN input',
                    Last(n)'
             PROVE  \/ store'[c][SlotOf(n)'] = n
                    \/ main' = "single" /\ n = Len(input') /\ ~(c < cur')
  BY DEF SingleInv
<1>1. PICK w \in IF b \in Indeterminate THEN Values ELSE {v} :
        store' = [store EXCEPT ![b][<<ThisTime, ThisLine.key>>] = w]
  BY DEF SetSingle
<1>2. <<ThisTime, ThisLine.key>> = l /\ l \in Slots /\ v \in Taken
  BY NowWriting, TypesNow
<1>3. /\ ~batch_mode /\ UNCHANGED <<main, batch_mode, enabled, input>>
      /\ cur' = b + 1 /\ AtBackend(b)
  BY DEF ProgInv, ControlInv, programVars, SetSingle
<1>4. Faithful = enabled \ Indeterminate /\ Faithful' = Faithful
      /\ Faithful \subseteq Backends
  BY <1>3, FaithfulType DEF Faithful
<1>5. b \in Backends /\ store \in [Backends -> [Slots -> Values \cup {NoValue}]]
  BY FaithfulType DEF ProgInv, KpInv, TypeOK
<1>6. n \in DOMAIN input /\ Last(n) /\ SlotOf(n)' = SlotOf(n)
  BY <1>3, LastKept
<1>7. \/ store[c][SlotOf(n)] = n
      \/ n = v /\ ~(c < cur)
  <2>1. ~poisoned /\ Succeeding
    BY PoisonStep DEF Succeeding
  <2> QED
    BY <1>3, <1>4, <1>6, <2>1 DEF SingleInv
<1>8. n = v \/ SlotOf(n) # l
  <2>1. n \in 1 .. Len(input) /\ v \in 1 .. Len(input) /\ v \in DOMAIN input
    BY <1>2, <1>6, TypesNow, LenProperties, NowWriting DEF Taken
  <2>2. n = v \/ v > n
    BY <2>1
  <2> QED
    BY <1>6, <2>1, <2>2 DEF Last
<1>9. SlotOf(n) \in Slots
  BY <1>6, TypesNow, LenProperties
<1> HIDE DEF l
<1>10. CASE c = b /\ SlotOf(n) = l
  <2>1. w = v
    BY <1>1, <1>4, <1>10
  <2>2. store[b] \in [Slots -> Values \cup {NoValue}]
    BY <1>5
  <2>3. store'[c][SlotOf(n)] = v
    BY <1>1, <1>2, <1>5, <1>10, <2>1, <2>2
  <2> QED
    BY <1>6, <1>8, <1>10, <2>3
<1>11. CASE ~(c = b /\ SlotOf(n) = l)
  <2>1. store'[c][SlotOf(n)] = store[c][SlotOf(n)]
    BY <1>1, <1>2, <1>4, <1>5, <1>9, <1>11
  <2>2. CASE store[c][SlotOf(n)] = n
    BY <1>6, <2>1, <2>2
  <2>3. CASE n = v /\ ~(c < cur)
    <3>1. c # b
      BY <1>11, <2>3 DEF l
    <3>2. ~(c < b)
      BY <1>3, <1>4, <2>3 DEF AtBackend
    <3>3. c \in Int /\ b \in Int
      BY <1>4, <1>5, BackendIds
    <3>4. ~(c < cur')
      BY <1>3, <3>1, <3>2, <3>3
    <3> QED
      BY <1>3, <2>3, <3>4
  <2> QED
    BY <1>7, <2>2, <2>3
<1> QED
  BY <1>10, <1>11

LEMMA NoLinesYet ==
  ASSUME ProgInv, Options \/ Enable \/ EnableFails \/ OpenInput
  PROVE  input' = << >> /\ DOMAIN input' = {}
<1>1. input = << >>
  BY DEF ProgInv, ControlInv, Fresh, Options, Enable, EnableFails, OpenInput
<1>2. input' = input
  BY DEF Options, Enable, EnableFails, OpenInput, GoTo, Enabled, programVars
<1> QED
  BY <1>1, <1>2

LEMMA SingleStep ==
  ASSUME ProgInv, ProgInv', HistoryInv, SingleInv, [InsertNext]_insertVars
  PROVE  SingleInv'
<1> SUFFICES ASSUME ~batch_mode, ~poisoned', Succeeding' PROVE SingleInv'
  BY ExtendsStep DEF SingleInv, Extends
<1>1. CASE Options \/ Enable \/ EnableFails \/ OpenInput
  BY <1>1, NoLinesYet DEF SingleInv
<1>2. CASE OutOfRange \/ OtherError \/ KafkaError \/ UNCHANGED insertVars
  <2>1. UNCHANGED <<enabled, store, input, main, rc, cur>>
    BY <1>2 DEF OutOfRange, OtherError, KafkaError, ErrorCallback, insertVars,
                libraryVars, programVars, vars
  <2> QED
    BY <2>1, SingleSame DEF Succeeding
<1>3. CASE InputEnds \/ Free
  <2>1. /\ UNCHANGED <<enabled, store, input>> /\ main # "single"
        /\ Succeeding
    BY <1>3 DEF InputEnds, Free, GoTo, libraryVars, vars, Succeeding
  <2> QED
    BY <2>1, SingleSame
<1>4. CASE SetLine
  <2>1. CASE LoopEnds /\ GoTo("read") /\ UNCHANGED libraryVars
    <3>1. /\ UNCHANGED <<enabled, store, input>> /\ \A c \in enabled : c < cur
          /\ main = "single"
      BY <1>4, <2>1 DEF SetLine, GoTo, LoopEnds, libraryVars, vars
    <3> QED
      BY <3>1, SingleSame DEF Succeeding
  <2>2. CASE GoTo("err")
    BY <2>2 DEF GoTo, Succeeding
  <2> QED
    BY <1>4, <2>1, <2>2, SingleSets DEF SetLine
<1>5. CASE FlushStep \/ Flushed \/ LineFlushFails \/ PutLine
           \/ FinalFlushEnds \/ FinalFlushFails
  BY <1>5 DEF FlushStep, Flushed, LineFlushFails, PutLine, FinalFlushEnds,
              FinalFlushFails, ProgInv, ControlInv
<1>6. ASSUME NEW k \in Keys, NEW raw \in RawTimes,
             RefuseLine(k, raw) \/ SingleLine(k, raw) \/ BatchLine(k, raw)
      PROVE  SingleInv'
  <2>1. ~RefuseLine(k, raw)
    BY PoisonStep DEF RefuseLine, HistoryInv
  <2>2. ~BatchLine(k, raw)
    BY DEF BatchLine
  <2> QED
    BY <1>6, <2>1, <2>2, SingleTakes
<1> QED
  BY <1>1, <1>2, <1>3, <1>4, <1>5, <1>6 DEF InsertNext, Step

(* With -b: the last line of a slot is about to be put into the package,   *)
(* it is the row of its key, or it is stored, with a time before gtime.    *)
Busy == main \in {"read", "flush", "put", "final"}
Pending(n) == LineTime(n) = gtime /\ On(input[n].key) /\ Val(input[n].key) = n
Stored(n) == \A b \in Faithful : store[b][SlotOf(n)] = n

BatchInv ==
  ~poisoned /\ batch_mode /\ Sorted /\ NoTimeZero /\ Succeeding =>
    \A n \in DOMAIN input : Last(n) =>
      \/ n = Len(input) /\ main \in {"flush", "put"}
      \/ Busy /\ Pending(n)
      \/ Stored(n) /\ (Busy => LineTime(n) < gtime)

LEMMA SortedKept ==
  ASSUME ProgInv, [InsertNext]_insertVars
  PROVE  /\ Sorted' => Sorted
         /\ NoTimeZero' => NoTimeZero
BY ExtendsStep, ExtendsKeeps DEF Extends, Sorted

(* What is to be shown of a step in batch mode, and what may be used.      *)
LEMMA BatchGoal ==
  ASSUME ProgInv, HistoryInv, BatchInv, [InsertNext]_insertVars,
         Succeeding' => Succeeding,
         ASSUME ~poisoned, batch_mode, Sorted, NoTimeZero, Sorted', NoTimeZero',
                Succeeding, Succeeding', Taken = DOMAIN input,
                Taken' = DOMAIN input',
                NEW n \in DOMAIN input', Last(n)'
         PROVE  \/ n = Len(input') /\ main' \in {"flush", "put"}
                \/ Busy' /\ Pending(n)'
                \/ Stored(n)' /\ (Busy' => LineTime(n)' < gtime')
  PROVE  BatchInv'
<1>1. ASSUME ~poisoned', batch_mode', Sorted', NoTimeZero', Succeeding',
             NEW n \in DOMAIN input', Last(n)'
      PROVE  \/ n = Len(input') /\ main' \in {"flush", "put"}
             \/ Busy' /\ Pending(n)'
             \/ Stored(n)' /\ (Busy' => LineTime(n)' < gtime')
  <2>1. ~poisoned /\ Taken' = DOMAIN input' /\ Taken = DOMAIN input
    BY <1>1, PoisonStep DEF HistoryInv
  <2>2. Sorted /\ NoTimeZero /\ batch_mode /\ Succeeding
    BY <1>1, SortedKept, ExtendsStep DEF Extends
  <2> QED
    BY <1>1, <2>1, <2>2
<1> QED
  BY <1>1 DEF BatchInv

LEMMA BatchSame ==
  ASSUME ProgInv, HistoryInv, BatchInv, [InsertNext]_insertVars,
         UNCHANGED <<enabled, store, gtime, input>>, Rows(kp') = Rows(kp),
         Succeeding' => Succeeding, Busy' <=> Busy,
         main \in {"flush", "put"} => main' = main
  PROVE  BatchInv'
<1> SUFFICES ASSUME ~poisoned, batch_mode, Sorted, NoTimeZero, Sorted',
                    NoTimeZero', Succeeding, Succeeding', Taken = DOMAIN input,
                    Taken' = DOMAIN input',
                    NEW n \in DOMAIN input', Last(n)'
             PROVE  \/ n = Len(input') /\ main' \in {"flush", "put"}
                    \/ Busy' /\ Pending(n)'
                    \/ Stored(n)' /\ (Busy' => LineTime(n)' < gtime')
  BY BatchGoal
<1>1. Last(n) /\ SlotOf(n)' = SlotOf(n) /\ LineTime(n)' = LineTime(n)
  BY SameInput DEF Last, LineTime
<1>2. \/ n = Len(input) /\ main \in {"flush", "put"}
      \/ Busy /\ Pending(n)
      \/ Stored(n) /\ (Busy => LineTime(n) < gtime)
  BY <1>1 DEF BatchInv
<1>3. Pending(n)' <=> Pending(n)
  BY <1>1, RowsSame DEF Pending
<1>4. Stored(n)' <=> Stored(n)
  <2>1. Faithful' = Faithful
    BY ExtendsStep DEF Extends, Faithful
  <2> QED
    BY <1>1, <2>1 DEF Stored
<1> QED
  BY <1>1, <1>2, <1>3, <1>4

LEMMA BatchTakes ==
  ASSUME ProgInv, HistoryInv, BatchInv, [InsertNext]_insertVars,
         NEW k \in Keys, NEW raw \in RawTimes, BatchLine(k, raw)
  PROVE  BatchInv'
<1>1. /\ main = "read" /\ main' \in {"put", "flush"}
      /\ gtime' = gtime \/ gtime = 0
      /\ UNCHANGED <<enabled, store, poisoned>> /\ Rows(kp') = Rows(kp)
  <2>1. ~Step
    BY DEF Step, Options, Enable, EnableFails, OpenInput, SetLine, FlushStep,
           Flushed, LineFlushFails, PutLine, InputEnds, FinalFlushEnds,
           FinalFlushFails, Free, GoTo, BatchLine, TakeLine, Append1
  <2> QED
    BY <2>1, QuietSteps DEF BatchLine, TakeLine, Append1
<1> SUFFICES ASSUME ~poisoned, batch_mode, Sorted, NoTimeZero, Sorted',
                    NoTimeZero', Succeeding, Succeeding', Taken = DOMAIN input,
                    Taken' = DOMAIN input',
                    NEW n \in DOMAIN input', Last(n)'
             PROVE  \/ n = Len(input') /\ main' \in {"flush", "put"}
                    \/ Busy' /\ Pending(n)'
                    \/ Stored(n)' /\ (Busy' => LineTime(n)' < gtime')
  BY <1>1, BatchGoal DEF Succeeding
<1>2. CASE n = Len(input')
  BY <1>1, <1>2
<1>3. CASE n # Len(input')
  <2>1. n \in DOMAIN input
    <3>1. /\ input' \in Seq(Line) /\ Len(input') = Len(input) + 1
          /\ input \in Seq(Line) /\ Len(input) \in Nat
      BY ProgInvParts, InputGrows, TypesNow DEF BatchLine, TakeLine
    <3>2. DOMAIN input = 1 .. Len(input) /\ DOMAIN input' = 1 .. Len(input')
      BY <3>1, LenProperties
    <3> QED
      BY <1>3, <3>1, <3>2
  <2>2. /\ Last(n) /\ SlotOf(n)' = SlotOf(n) /\ LineTime(n)' = LineTime(n)
        /\ input'[n] = input[n]
    BY <1>1, <2>1, LastKept, ExtendsStep DEF Extends
  <2>3. Pending(n) \/ (Stored(n) /\ LineTime(n) < gtime)
    BY <1>1, <2>1, <2>2 DEF BatchInv, Busy
  <2>4. gtime' = gtime
    <3>1. LineTime(n) \in Nat /\ LineTime(n) # 0
      BY <2>1, TypesNow, LenProperties DEF NoTimeZero, LineTime
    <3>2. gtime # 0
      BY <2>3, <3>1 DEF Pending
    <3> QED
      BY <1>1, <3>2
  <2>5. Pending(n) => Pending(n)'
    BY <1>1, <2>2, <2>4, RowsSame DEF Pending
  <2>6. Stored(n) => Stored(n)'
    <3>1. Faithful' = Faithful
      BY <1>1, ExtendsStep DEF Extends, Faithful
    <3> QED
      BY <1>1, <2>2, <3>1 DEF Stored
  <2> QED
    BY <1>1, <2>2, <2>3, <2>4, <2>5, <2>6 DEF Busy
<1> QED
  BY <1>2, <1>3

LEMMA BatchWrites ==
  ASSUME ProgInv, HistoryInv, BatchInv, [InsertNext]_insertVars, FlushStep
  PROVE  BatchInv'
<1>1. /\ UNCHANGED <<main, rc, batch_mode, gtime, input, enabled, ftime>>
      /\ main \in {"flush", "final"} /\ gtime = ftime
      /\ Rows(kp') = Rows(kp)
      /\ \A b \in enabled, s \in Slots :
           ~InBatch(s) => store'[b][s] = store[b][s]
  BY FlushMoves DEF programVars, FlushStep, ProgInv, ControlInv
<1> SUFFICES ASSUME ~poisoned, batch_mode, Sorted, NoTimeZero, Sorted',
                    NoTimeZero', Succeeding, Succeeding', Taken = DOMAIN input,
                    Taken' = DOMAIN input',
                    NEW n \in DOMAIN input', Last(n)'
             PROVE  \/ n = Len(input') /\ main' \in {"flush", "put"}
                    \/ Busy' /\ Pending(n)'
                    \/ Stored(n)' /\ (Busy' => LineTime(n)' < gtime')
  BY <1>1, BatchGoal DEF Succeeding
<1>2. Last(n) /\ SlotOf(n)' = SlotOf(n) /\ LineTime(n)' = LineTime(n)
  BY <1>1, SameInput DEF Last, LineTime
<1>3. \/ n = Len(input) /\ main \in {"flush", "put"}
      \/ Pending(n)
      \/ Stored(n) /\ LineTime(n) < gtime
  BY <1>1, <1>2 DEF BatchInv, Busy
<1>4. Pending(n)' <=> Pending(n)
  BY <1>1, <1>2, RowsSame DEF Pending
<1>5. Stored(n) /\ LineTime(n) < gtime => Stored(n)'
  <2>1. SlotOf(n) \in Slots /\ SlotOf(n)[1] = LineTime(n)
        /\ LineTime(n) \in Nat
    BY <1>1, TypesNow, LenProperties DEF SlotOf, LineTime
  <2>2. LineTime(n) < gtime => ~InBatch(SlotOf(n))
    BY <1>1, <2>1 DEF InBatch
  <2>3. Faithful' = enabled /\ Faithful = enabled
    BY <1>1 DEF Faithful
  <2> QED
    BY <1>1, <1>2, <2>1, <2>2, <2>3 DEF Stored
<1> QED
  BY <1>1, <1>2, <1>3, <1>4, <1>5 DEF Busy

(* When the flush is through, the backends have what was pending, and the  *)
(* time goes up.                                                           *)
LEMMA BatchFlushed ==
  ASSUME ProgInv, HistoryInv, BatchInv, [InsertNext]_insertVars,
         Flushed \/ FinalFlushEnds
  PROVE  BatchInv'
<1>1. /\ main \in {"flush", "final"} /\ FlushEnd /\ gtime = ftime
      /\ UNCHANGED <<input, batch_mode, rc>>
      /\ pc \in {"update", "write"} /\ rc = -1
      /\ \/ main = "flush" /\ main' = "put" /\ gtime' = ThisTime
            /\ gtime # ThisTime
         \/ main = "final" /\ main' = "free"
  BY DEF Flushed, FinalFlushEnds, GoTo, ProgInv, ControlInv
<1>2. UNCHANGED <<enabled, store>> /\ \A b \in enabled : b < cur
  BY <1>1, FlushIsOver
<1> SUFFICES ASSUME ~poisoned, batch_mode, Sorted, NoTimeZero, Sorted',
                    NoTimeZero', Succeeding, Succeeding', Taken = DOMAIN input,
                    Taken' = DOMAIN input',
                    NEW n \in DOMAIN input', Last(n)'
             PROVE  \/ n = Len(input') /\ main' \in {"flush", "put"}
                    \/ Busy' /\ Pending(n)'
                    \/ Stored(n)' /\ (Busy' => LineTime(n)' < gtime')
  BY <1>1, BatchGoal DEF Succeeding
<1>3. Last(n) /\ SlotOf(n)' = SlotOf(n) /\ LineTime(n)' = LineTime(n)
  BY <1>1, SameInput DEF Last, LineTime
<1>4. CASE n = Len(input) /\ main = "flush"
  BY <1>1, <1>4
<1>5. CASE ~(n = Len(input) /\ main = "flush")
  <2>1. Pending(n) \/ (Stored(n) /\ LineTime(n) < gtime)
    BY <1>1, <1>3, <1>5 DEF BatchInv, Busy
  <2>2. SlotOf(n) \in Slots /\ SlotOf(n) = <<LineTime(n), input[n].key>>
        /\ LineTime(n) \in Nat /\ n \in 1 .. Len(input)
    BY <1>1, TypesNow, LenProperties DEF SlotOf, LineTime
  <2>3. Stored(n)
    <3>1. CASE Pending(n)
      <4>1. InBatch(SlotOf(n)) /\ Val(input[n].key) = n
        BY <1>1, <2>2, <3>1 DEF Pending, InBatch
      <4>2. \A b \in enabled : Delivered(b)
        BY <1>1, <1>2 DEF ProgInv, RowsInv
      <4>3. KpInv /\ Unique(kp)
        BY DEF ProgInv, RowsInv
      <4>4. ASSUME NEW b \in enabled
            PROVE  store[b][SlotOf(n)] = Val(SlotOf(n)[2])
        BY <2>2, <4>1, <4>2, <4>3, DeliveredRows
      <4>5. SlotOf(n)[2] = input[n].key
        BY <2>2
      <4> QED
        BY <4>1, <4>4, <4>5 DEF Stored, Faithful
    <3> QED
      BY <2>1, <3>1
  <2>4. Stored(n)'
    <3>1. Faithful' = Faithful
      BY <1>1, <1>2 DEF Faithful
    <3> QED
      BY <1>2, <1>3, <2>3, <3>1 DEF Stored
  <2>5. CASE main = "flush"
    <3>1. /\ Len(input) \in Taken /\ ThisTime = LineTime(Len(input))
          /\ ThisTime \in Nat /\ gtime \in Nat /\ gtime # 0
      BY <2>5, NowWriting DEF ThisTime, ThisLine, LineTime, ProgInv, ControlInv
    <3>2. PICK m \in Taken : LineTime(m) = gtime
      BY <3>1 DEF HistoryInv
    <3>3. m \in 1 .. Len(input) /\ m # Len(input)
      BY <1>1, <2>5, <3>1, <3>2, TypesNow, LenProperties
    <3>4. gtime <= ThisTime
      BY <3>1, <3>2, <3>3, TypesNow DEF Sorted, LineTime
    <3>5. gtime < ThisTime
      BY <1>1, <2>5, <3>1, <3>4
    <3>6. LineTime(n) < ThisTime
      BY <2>1, <2>2, <3>1, <3>5 DEF Pending
    <3> QED
      BY <1>1, <1>3, <2>4, <2>5, <3>6
  <2>6. CASE main = "final"
    BY <1>1, <2>4, <2>6 DEF Busy
  <2> QED
    BY <1>1, <2>5, <2>6
<1> QED
  BY <1>4, <1>5

LEMMA BatchPuts ==
  ASSUME ProgInv, HistoryInv, BatchInv, [InsertNext]_insertVars, PutLine
  PROVE  BatchInv'
<1>1. /\ main = "put" /\ main' = "read" /\ gtime = ThisTime
      /\ UNCHANGED <<enabled, store, input, gtime, batch_mode, rc>>
  BY DEF PutLine, Client, ProgInv, ControlInv
<1> SUFFICES ASSUME ~poisoned, batch_mode, Sorted, NoTimeZero, Sorted',
                    NoTimeZero', Succeeding, Succeeding', Taken = DOMAIN input,
                    Taken' = DOMAIN input',
                    NEW n \in DOMAIN input', Last(n)'
             PROVE  \/ n = Len(input') /\ main' \in {"flush", "put"}
                    \/ Busy' /\ Pending(n)'
                    \/ Stored(n)' /\ (Busy' => LineTime(n)' < gtime')
  BY <1>1, BatchGoal DEF Succeeding
<1>2. Last(n) /\ SlotOf(n)' = SlotOf(n) /\ LineTime(n)' = LineTime(n)
      /\ ThisLine' = ThisLine
  BY <1>1, SameInput DEF Last, LineTime
<1>3. Busy' /\ Len(input) \in 1 .. Len(input)
      /\ SlotOf(Len(input)) = <<gtime, ThisLine.key>>
      /\ ThisLine.key \in Keys
  BY <1>1, NowWriting DEF Busy
<1>4. CASE n = Len(input)
  <2>1. input[n] = ThisLine /\ LineTime(n) = gtime
    BY <1>1, <1>4 DEF ThisLine, ThisTime, LineTime
  <2>2. On(ThisLine.key)' /\ Val(ThisLine.key)' = Len(input)
    BY <1>3, PutRows DEF HistoryInv
  <2>3. Pending(n)'
    BY <1>1, <1>2, <1>4, <2>1, <2>2 DEF Pending
  <2> QED
    BY <1>3, <2>3
<1>5. CASE n # Len(input)
  <2>1. Pending(n) \/ (Stored(n) /\ LineTime(n) < gtime)
    BY <1>1, <1>2, <1>5 DEF BatchInv, Busy
  <2>2. n \in 1 .. Len(input) /\ DOMAIN input = 1 .. Len(input)
        /\ SlotOf(n) = <<LineTime(n), input[n].key>> /\ input[n].key \in Keys
    BY <1>1, TypesNow, LenProperties DEF SlotOf, LineTime
  <2>3. Pending(n) => Pending(n)'
    <3>1. SlotOf(Len(input)) # SlotOf(n)
      BY <1>2, <1>3, <1>5, <2>2 DEF Last
    <3>2. Pending(n) => input[n].key # ThisLine.key
      BY <1>3, <2>2, <3>1 DEF Pending
    <3>3. input[n].key # ThisLine.key =>
            /\ On(input[n].key)' = On(input[n].key)
            /\ Val(input[n].key)' = Val(input[n].key)
      BY <1>1, <2>2, PutRows
    <3> QED
      BY <1>1, <1>2, <3>2, <3>3 DEF Pending
  <2>4. Stored(n) => Stored(n)'
    <3>1. Faithful' = Faithful
      BY <1>1 DEF Faithful
    <3> QED
      BY <1>1, <1>2, <3>1 DEF Stored
  <2> QED
    BY <1>1, <1>2, <1>3, <2>1, <2>3, <2>4
<1> QED
  BY <1>4, <1>5

LEMMA BatchEnds ==
  ASSUME ProgInv, HistoryInv, BatchInv, [InsertNext]_insertVars, InputEnds
  PROVE  BatchInv'
<1>1. CASE batch_mode /\ points_pending > 0
  <2>1. /\ main = "read" /\ main' = "final"
        /\ UNCHANGED <<enabled, store, gtime, input>>
        /\ kp' = [kp EXCEPT !.dirty = FALSE]
    BY <1>1 DEF InputEnds, FlushBegin, GoTo
  <2>2. Rows(kp') = Rows(kp)
    BY <2>1, DirtySame, SameRows, KpInvWellFormed DEF ProgInv
  <2> QED
    BY <2>1, <2>2, BatchSame DEF Busy, Succeeding
<1>2. CASE ~batch_mode
  BY <1>2, ExtendsStep DEF Extends, BatchInv
<1>3. CASE batch_mode /\ ~(points_pending > 0)
  <2>1. main = "read" /\ input' = input
    BY <1>3 DEF InputEnds, GoTo
  <2>2. Taken = {}
    BY <1>3, <2>1 DEF HistoryInv
  <2>3. ~poisoned' => DOMAIN input' = {}
    BY <2>1, <2>2, PoisonStep DEF HistoryInv
  <2> QED
    BY <2>3 DEF BatchInv
<1> QED
  BY <1>1, <1>2, <1>3

LEMMA BatchStep ==
  ASSUME ProgInv, HistoryInv, BatchInv, [InsertNext]_insertVars
  PROVE  BatchInv'
<1> SUFFICES ASSUME batch_mode, ~poisoned', Succeeding' PROVE BatchInv'
  BY ExtendsStep DEF BatchInv, Extends
<1>1. CASE Options \/ Enable \/ EnableFails \/ OpenInput
  BY <1>1, NoLinesYet DEF BatchInv
<1>2. CASE OutOfRange \/ OtherError \/ KafkaError \/ UNCHANGED insertVars
  <2>1. UNCHANGED <<enabled, store, gtime, input, main, rc, kp>>
    BY <1>2 DEF OutOfRange, OtherError, KafkaError, ErrorCallback, insertVars,
                libraryVars, programVars, vars
  <2>2. Rows(kp') = Rows(kp)
    BY <2>1
  <2> QED
    BY <2>1, <2>2, BatchSame DEF Succeeding, Busy
<1>3. CASE Free
  <2>1. /\ UNCHANGED <<enabled, store, gtime, input, kp>> /\ main' = "exit"
        /\ main \in {"free", "err"} /\ (main = "err" => rc' = -1)
    BY <1>3 DEF Free, libraryVars, vars
  <2>2. Rows(kp') = Rows(kp)
    BY <2>1
  <2> QED
    BY <2>1, <2>2, BatchSame DEF Succeeding, Busy
<1>4. CASE SetLine \/ LineFlushFails \/ FinalFlushFails
  <2>1. ~SetLine
    BY DEF SetLine, ProgInv, ControlInv
  <2>2. ~LineFlushFails
    BY DEF LineFlushFails, GoTo, Succeeding
  <2>3. ASSUME FinalFlushFails PROVE FALSE
    <3>1. main = "final" /\ main' = "exit" /\ rc' = rc
      BY <2>3 DEF FinalFlushFails, GoTo
    <3>2. rc = -1
      BY <3>1 DEF ProgInv, ControlInv
    <3> QED
      BY <3>1, <3>2 DEF Succeeding
  <2> QED
    BY <1>4, <2>1, <2>2, <2>3
<1>5. ASSUME NEW k \in Keys, NEW raw \in RawTimes,
             RefuseLine(k, raw) \/ SingleLine(k, raw) \/ BatchLine(k, raw)
      PROVE  BatchInv'
  <2>1. ~RefuseLine(k, raw)
    BY PoisonStep DEF RefuseLine, HistoryInv
  <2>2. ~SingleLine(k, raw)
    BY DEF SingleLine
  <2> QED
    BY <1>5, <2>1, <2>2, BatchTakes
<1> QED
  BY <1>1, <1>2, <1>3, <1>4, <1>5, BatchWrites, BatchFlushed, BatchPuts,
     BatchEnds DEF InsertNext, Step

StoredInv == HistoryInv /\ SingleInv /\ BatchInv

LEMMA StoredInit == InsertInit => StoredInv
<1> SUFFICES ASSUME InsertInit PROVE StoredInv
  OBVIOUS
<1>1. DOMAIN input = {}
  BY DEF InsertInit
<1> QED
  BY <1>1, HistoryInit DEF StoredInv, SingleInv, BatchInv

(* A run that returns 0 has stored the last value of each key and time in  *)
(* every backend that keeps what it gets, unless a number was out of range *)
(* or, in batch mode, the lines were not in the order of their times or    *)
(* one of them had the time 0.                                             *)
THEOREM AllLinesStored == InsertSpec => []AllStored
<1>1. ProgInv /\ StoredInv /\ [InsertNext]_insertVars => (ProgInv /\ StoredInv)'
  <2> SUFFICES ASSUME ProgInv, StoredInv, [InsertNext]_insertVars
               PROVE  (ProgInv /\ StoredInv)'
    OBVIOUS
  <2>1. ProgInv'
    BY ProgInvStep
  <2> QED
    BY <2>1, HistoryStep, SingleStep, BatchStep DEF StoredInv
<1>2. StoredInv => AllStored
  <2>1. SUFFICES ASSUME StoredInv, main = "exit", rc = 0, ~poisoned,
                        batch_mode => Sorted /\ NoTimeZero,
                        NEW b \in Faithful, NEW n \in DOMAIN input, Last(n)
                 PROVE  store[b][SlotOf(n)] = n
    BY DEF AllStored, Last
  <2>2. CASE batch_mode
    BY <2>1, <2>2 DEF StoredInv, BatchInv, Busy, Succeeding, Stored
  <2>3. CASE ~batch_mode
    BY <2>1, <2>3 DEF StoredInv, SingleInv, Succeeding
  <2> QED
    BY <2>2, <2>3
<1> QED
  BY ProgInvInit, StoredInit, <1>1, <1>2, PTL DEF InsertSpec

=============================================================================
