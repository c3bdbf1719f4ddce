------------------------------- MODULE Insert -------------------------------
(***************************************************************************)
(* timeseries-insert: reads lines "<key> <value> <time>" and writes them,  *)
(* one by one, or in batch mode through a key package that is flushed when *)
(* the time changes.  `main' is the next statement of main() or insert();  *)
(* inside a flush the steps are those of KeyPackage, inside an init or a   *)
(* timeseries_set_single those of Framework.                               *)
(*                                                                         *)
(* The value of a line is its number among the well formed lines.          *)
(***************************************************************************)
EXTENDS Framework

CONSTANTS
  OptionLists,  \* the -t options; 0 is a name that no backend has
  RawTimes,     \* numbers in the time column
  TimeRange,    \* 2^32, what a uint32_t holds
  MaxLines      \* bound: well formed lines

TimeOf(raw) == raw % TimeRange

ASSUME InsertAssumption ==
  /\ OptionLists \subseteq Seq(Backends \cup {0})
  /\ TimeRange \in Nat \ {0} /\ RawTimes \subseteq Nat
  /\ {TimeOf(raw) : raw \in RawTimes} \cup {0} \subseteq Times
  /\ MaxLines \in Nat /\ 0 .. MaxLines \subseteq Values

VARIABLES
  main,            \* where the program is
  rc,              \* what main() returns
  opts,            \* -t options that have still to be looked at
  batch_mode,
  gtime,
  points_pending,
  errno,           \* is errno ERANGE
  input,           \* history: the well formed lines; was each of them taken
  poisoned         \* history: has there been a number out of range

programVars == <<main, rc, opts, batch_mode, gtime, points_pending, errno,
                 input, poisoned>>
libraryVars == <<vars, connVars>>
insertVars == <<libraryVars, programVars>>

InsertInit ==
  /\ FrameworkInit
  /\ flags = {"RESET"} /\ ftime = 0
  /\ main = "options" /\ rc = -1
  /\ opts \in OptionLists /\ batch_mode \in BOOLEAN
  /\ gtime = 0 /\ points_pending = 0 /\ errno = "other"
  /\ input = << >> /\ poisoned = FALSE

GoTo(next) ==
  /\ main' = next
  /\ UNCHANGED <<rc, opts, batch_mode, gtime, points_pending, errno, input,
                 poisoned>>

-----------------------------------------------------------------------------
(* Options and backends                                                    *)

Options ==
  /\ main = "options"
  /\ GoTo(IF Len(opts) \in 1 .. LastId - 1 THEN "enable" ELSE "exit")
  /\ UNCHANGED libraryVars

(* init_timeseries of the first option is through.                         *)
Enabled ==
  /\ main' = IF Tail(opts) = << >> THEN "open" ELSE "enable"
  /\ opts' = Tail(opts)
  /\ UNCHANGED <<rc, batch_mode, gtime, points_pending, errno, input, poisoned>>

Enable ==
  /\ main = "enable"
  /\ \/ Enabled /\ (EnableAgain(Head(opts)) \/ InitSucceeds(Head(opts)))
     \/ KafkaInitBegins /\ Head(opts) = KAFKA /\ UNCHANGED programVars
     \/ ProducerConnects /\ UNCHANGED programVars
     \/ Enabled /\ KafkaInitSucceeds

EnableFails ==
  /\ main = "enable"
  /\ \/ Head(opts) \notin Built /\ UNCHANGED libraryVars
     \/ InitFails(Head(opts))
     \/ ProducerFails
     \/ ConnectFails
  /\ GoTo("err")

(* timeseries_kp_init with the flag 1, wandio_create                       *)
OpenInput ==
  /\ main = "open"
  /\ GoTo("read") \/ GoTo("err")
  /\ UNCHANGED libraryVars

-----------------------------------------------------------------------------
(* insert()                                                                *)

ThisLine == input[Len(input)]
ThisTime == TimeOf(ThisLine.raw)

(* A number out of range, which strtoull or strtoul leave a mark of.       *)
OutOfRange ==
  /\ main = "read"
  /\ errno' = "ERANGE" /\ poisoned' = TRUE
  /\ UNCHANGED <<libraryVars, main, rc, opts, batch_mode, gtime,
                 points_pending, input>>

(* Nothing clears the mark, but some other call may set errno, too.        *)
OtherError ==
  /\ main = "read" /\ errno = "ERANGE"
  /\ errno' = "other"
  /\ UNCHANGED <<libraryVars, main, rc, opts, batch_mode, gtime,
                 points_pending, input, poisoned>>

Append1(k, raw, taken) ==
  /\ main = "read"
  /\ Len(input) < MaxLines
  /\ input' = Append(input, [key |-> k, raw |-> raw, taken |-> taken])
  /\ UNCHANGED <<rc, opts, batch_mode, errno, poisoned>>

(* While the mark is there, every line is called invalid.                  *)
RefuseLine(k, raw) ==
  /\ errno = "ERANGE"
  /\ Append1(k, raw, FALSE)
  /\ UNCHANGED <<libraryVars, main, gtime, points_pending>>

TakeLine(k, raw) ==
  /\ errno # "ERANGE"
  /\ Append1(k, raw, TRUE)

SingleLine(k, raw) ==
  /\ ~batch_mode
  /\ TakeLine(k, raw)
  /\ main' = "single"
  /\ SingleBegins
  /\ UNCHANGED <<gtime, points_pending>>

BatchLine(k, raw) ==
  /\ batch_mode
  /\ TakeLine(k, raw)
  /\ LET g == IF gtime = 0 THEN TimeOf(raw) ELSE gtime
     IN IF g = TimeOf(raw)
        THEN /\ main' = "put" /\ gtime' = g
             /\ UNCHANGED libraryVars
        ELSE /\ main' = "flush" /\ UNCHANGED gtime
             /\ FlushBegin(g) /\ UNCHANGED connVars
  /\ UNCHANGED points_pending

SetLine ==
  /\ main = "single"
  /\ \/ /\ \E b \in enabled : SetSingle(b, ThisLine.key, Len(input), ThisTime)
        /\ UNCHANGED programVars
     \/ LoopEnds /\ GoTo("read") /\ UNCHANGED libraryVars
     \/ SetSingleFails /\ GoTo("err")

(* A flush on its way, at whose end main goes on to `next'.                *)
FlushStep ==
  /\ main \in {"flush", "final"}
  /\ SkipBackend \/ UpdateBackend \/ WriteBackend
  /\ UNCHANGED <<connVars, programVars>>

(* The producer is polled by the writes of the Kafka backend.              *)
KafkaError ==
  /\ main \in {"single", "flush", "final"} /\ AtBackend(KAFKA)
  /\ ErrorCallback /\ UNCHANGED programVars

FlushFails ==
  \/ \E i \in Ids(kp) : UpdateFails(i)
  \/ \E n \in 0 .. Len(kp.infos) : WriteFails(n)

(* Mutant: the points go under the old time.                               *)
Flushed_OldTime ==
  /\ main = "flush"
  /\ FlushEnd
  /\ main' = "put"
  /\ points_pending' = 0
  /\ UNCHANGED <<connVars, rc, opts, batch_mode, gtime, errno, input, poisoned>>

Flushed ==
  /\ main = "flush"
  /\ FlushEnd
  /\ main' = "put"
  /\ gtime' = ThisTime /\ points_pending' = 0
  /\ UNCHANGED <<connVars, rc, opts, batch_mode, errno, input, poisoned>>

(* Mutant: a failed flush is not looked at.                                *)
LineFlushFails_GoesOn ==
  /\ main = "flush"
  /\ FlushFails /\ UNCHANGED connVars
  /\ main' = "put"
  /\ gtime' = ThisTime /\ points_pending' = 0
  /\ UNCHANGED <<rc, opts, batch_mode, errno, input, poisoned>>

LineFlushFails ==
  /\ main = "flush"
  /\ FlushFails /\ UNCHANGED connVars
  /\ GoTo("err")

PutLine ==
  /\ main = "put"
  /\ LET k == ThisLine.key
         with == IF GetKey(kp, k) = NoId THEN AddKey(kp, k) ELSE kp
     IN Client(SetValue(with, GetKey(with, k), Len(input)))
  /\ points_pending' = points_pending + 1
  /\ main' = "read"
  /\ UNCHANGED <<connVars, rc, opts, batch_mode, gtime, errno, input, poisoned>>

-----------------------------------------------------------------------------
(* The end                                                                 *)

(* Mutant: a single point is forgotten.                                    *)
InputEnds_OffByOne ==
  /\ main = "read"
  /\ IF batch_mode /\ points_pending > 1
     THEN GoTo("final") /\ FlushBegin(gtime) /\ UNCHANGED connVars
     ELSE GoTo("free") /\ UNCHANGED libraryVars

(* The end of the file; an error in reading it looks the same.             *)
InputEnds ==
  /\ main = "read"
  /\ IF batch_mode /\ points_pending > 0
     THEN GoTo("final") /\ FlushBegin(gtime) /\ UNCHANGED connVars
     ELSE GoTo("free") /\ UNCHANGED libraryVars

FinalFlushEnds ==
  /\ main = "final"
  /\ FlushEnd /\ UNCHANGED connVars
  /\ GoTo("free")

(* Returns at once: the backends are not freed.                            *)
FinalFlushFails ==
  /\ main = "final"
  /\ FlushFails /\ UNCHANGED connVars
  /\ GoTo("exit")

(* timeseries_kp_free and timeseries_free                                  *)
Free ==
  /\ main \in {"free", "err"}
  /\ rc' = IF main = "free" THEN 0 ELSE -1
  /\ main' = "exit"
  /\ UNCHANGED <<libraryVars, opts, batch_mode, gtime, points_pending, errno,
                 input, poisoned>>

-----------------------------------------------------------------------------
Step ==
  \/ Options \/ Enable \/ EnableFails \/ OpenInput
  \/ SetLine \/ FlushStep \/ Flushed \/ LineFlushFails \/ PutLine
  \/ InputEnds \/ FinalFlushEnds \/ FinalFlushFails \/ Free

InsertNext ==
  \/ Step
  \/ OutOfRange \/ OtherError \/ KafkaError
  \/ \E k \in Keys, raw \in RawTimes :
       RefuseLine(k, raw) \/ SingleLine(k, raw) \/ BatchLine(k, raw)

(* The thread runs on, and the input is finite.                            *)
InsertSpec == InsertInit /\ [][InsertNext]_insertVars /\ WF_insertVars(Step)

-----------------------------------------------------------------------------
(* Properties                                                              *)

Line == [key : Keys, raw : RawTimes, taken : BOOLEAN]

InsertTypeOK ==
  /\ TypeOK /\ FrameworkTypeOK
  /\ main \in {"options", "enable", "open", "read", "single", "flush", "put",
               "final", "free", "err", "exit"}
  /\ pc # "idle" => main \in {"flush", "final"}
  /\ rc \in {-1, 0}
  /\ opts \in Seq(Backends \cup {0}) /\ batch_mode \in BOOLEAN
  /\ gtime \in Times /\ points_pending \in 0 .. Len(input)
  /\ errno \in {"other", "ERANGE"} /\ poisoned \in BOOLEAN
  /\ input \in Seq(Line) /\ Len(input) <= MaxLines

SlotOf(n) == <<TimeOf(input[n].raw), input[n].key>>
Taken == {n \in DOMAIN input : input[n].taken}

(* Backends that keep the values they are given.                           *)
Faithful == IF batch_mode THEN enabled ELSE enabled \ Indeterminate

(* A write is in the middle of its loop over the backends, or failed there *)
(* and was the program's last; of which slots it has points.               *)
InWrite == main \in {"single", "flush", "final"} \/ (main = "exit" /\ rc = -1)
             \/ main = "err"
InHand(s) == IF batch_mode THEN s[1] = gtime ELSE s = SlotOf(Len(input))

(* The backends hold the same points but for those of one write, a line or *)
(* a batch: behind a failure nothing more is written.                      *)
BackendsAgree ==
  \A b, c \in Faithful : \A s \in Slots :
    store[b][s] # store[c][s] => InWrite /\ InHand(s)

NoTimeZero == \A n \in Taken : TimeOf(input[n].raw) # 0

(* A stored value is that of a line with this key and this time, or a 0    *)
(* that the package has for a key of another time, unless a time is 0,     *)
(* which insert() takes for no time at all.                                *)
OnlyLines ==
  NoTimeZero =>
    \A b \in Faithful, s \in Slots :
      LET v == store[b][s]
      IN \/ v = NoValue
         \/ v \in Taken /\ SlotOf(v) = s
         \/ v = 0 /\ batch_mode /\ \E n \in Taken : input[n].key = s[2]

Sorted ==
  \A m, n \in Taken : m < n => TimeOf(input[m].raw) <= TimeOf(input[n].raw)

(* When the program returns 0, every backend has the last value of each    *)
(* key and time that was read, although batch mode writes the keys it      *)
(* knows again with each new time, with a 0 if there is nothing else: not  *)
(* if a number was out of range, nor, in batch mode, if the lines are not  *)
(* in the order of their times or a time is 0.                             *)
AllStored ==
  (/\ main = "exit" /\ rc = 0 /\ ~poisoned
   /\ batch_mode => Sorted /\ NoTimeZero) =>
    \A b \in Faithful, n \in DOMAIN input :
      (\A m \in DOMAIN input : m > n => SlotOf(m) # SlotOf(n)) =>
        store[b][SlotOf(n)] = n

(* The program comes to its end, also without a broker to connect to.      *)
Terminates == <>(main = "exit")

=============================================================================
