-------------------------- MODULE ProxyStart_proofs --------------------------
(***************************************************************************)
(* Proofs about the start of tsk-proxy, for files of any length and any    *)
(* set of required options.                                                *)
(***************************************************************************)
EXTENDS ProxyStart, SequenceTheorems, TLAPS

(* Where the two pointers point: to the key of the line, or to an option   *)
(* whose value did not come, or, a number's, went into a text instead.     *)
PointersInv ==
  /\ at = "value" =>
       /\ key \in Required \cup {Filter} => textp = key
       /\ key \in Numbers => intp = key
  /\ textp \in {Nowhere, key} \cup empty
  /\ at = "key" => textp \in {Nowhere} \cup empty
  /\ empty \subseteq Numbers =>
       /\ intp \in {Nowhere, key} \cup empty
       /\ at = "key" => intp \in {Nowhere} \cup empty
  /\ textp = Filter => filters # << >>

(* What has been stored, also between a key and its value.                 *)
StoredInv ==
  /\ \A o \in Required \ empty : cfg[o] = given[o]
  /\ empty \subseteq Numbers => \A o \in Numbers \ empty : cfg[o] = given[o]
  /\ Filter \notin empty =>
       filters = IF at = "value" /\ key = Filter
                 THEN Append(givenFilters, Unset) ELSE givenFilters

Inv ==
  /\ TypeOK
  /\ givenFilters \in Seq(0 .. MaxLines)
  /\ PointersInv
  /\ StoredInv

(* The names are different from each other.                                *)
LEMMA Names ==
  /\ Filter \notin Required /\ Filter \notin Numbers
  /\ Unsupported \notin Required /\ Unsupported \notin Numbers
  /\ Nowhere \notin Required /\ Nowhere \notin Numbers
  /\ Filter # Unsupported /\ Filter # Nowhere /\ Unsupported # Nowhere
  /\ \A o \in Numbers : o \notin Required
  BY ProxyStartAssumption DEF Filter, Unsupported, Nowhere, Numbers

(* Nothing is stored, and nothing was given.                               *)
LEMMA InvInit == Init => Inv
<1> SUFFICES ASSUME Init PROVE Inv
  OBVIOUS
<1>1. 0 \in 0 .. MaxLines /\ MaxLines \in Nat /\ MaxFilters \in Nat
  BY ProxyStartAssumption
<1>2. << >> \in Seq(0 .. MaxLines) /\ Len(<< >>) = 0
  BY EmptySeq
<1>3. cfg \in [Options -> 0 .. MaxLines] /\ given = cfg
  BY <1>1 DEF Init, Unset
<1>4. TypeOK
  BY <1>1, <1>2, <1>3 DEF Init, TypeOK
<1>5. PointersInv /\ StoredInv
  BY Names DEF Init, PointersInv, StoredInv
<1> QED
  BY <1>2, <1>4, <1>5 DEF Init, Inv

(* A key sets the pointer of its kind and moves no value.                  *)
LEMMA InvKey ==
  ASSUME Inv, NEW o \in Options \cup {Filter, Unsupported}, Key(o)
  PROVE  Inv'
<1>1. /\ at = "key" /\ at' = "value" /\ key' = o /\ line' = line + 1
      /\ line < MaxLines
      /\ UNCHANGED <<phase, cfg, given, givenFilters, empty>>
      /\ textp' = IF o \in Required \cup {Filter} THEN o ELSE textp
      /\ intp' = IF o \in Numbers THEN o ELSE intp
      /\ filters' = IF o = Filter THEN Append(filters, Unset) ELSE filters
      /\ o = Filter => Len(filters) < MaxFilters
  BY DEF Key, NextLine
<1>2. filters' \in Seq(0 .. MaxLines) /\ Len(filters') <= MaxFilters
  <2>1. filters \in Seq(0 .. MaxLines) /\ Len(filters) \in Nat
        /\ Len(filters) <= MaxFilters /\ Unset \in 0 .. MaxLines
    BY ProxyStartAssumption, LenProperties DEF Inv, TypeOK, Unset
  <2>2. CASE o = Filter
    BY <1>1, <2>1, <2>2, ProxyStartAssumption, AppendProperties
  <2>3. CASE o # Filter
    BY <1>1, <2>1, <2>3
  <2> QED
    BY <2>2, <2>3
<1>3. TypeOK'
  BY <1>1, <1>2, ProxyStartAssumption DEF Inv, TypeOK, Options
<1>4. PointersInv'
  <2>1. o = Filter => filters' # << >>
    <3>1. filters \in Seq(0 .. MaxLines) /\ Unset \in 0 .. MaxLines
      BY ProxyStartAssumption DEF Inv, TypeOK, Unset
    <3>2. Append(filters, Unset) # << >>
      BY <3>1, AppendProperties
    <3> QED
      BY <1>1, <3>2
  <2> QED
    BY <1>1, <2>1, Names DEF Inv, PointersInv
<1>5. StoredInv'
  BY <1>1 DEF Inv, StoredInv
<1> QED
  BY <1>1, <1>3, <1>4, <1>5 DEF Inv

(* Appending an element and then replacing it.                             *)
LEMMA AppendTwice ==
  ASSUME NEW S, NEW s \in Seq(S), NEW a \in S, NEW b \in S
  PROVE  [Append(s, a) EXCEPT ![Len(Append(s, a))] = b] = Append(s, b)
<1> DEFINE t == Append(s, a)
           u == Append(s, b)
<1>1. /\ Len(s) \in Nat
      /\ t \in Seq(S) /\ Len(t) = Len(s) + 1
      /\ \A i \in 1 .. Len(s) : t[i] = s[i]
      /\ u \in Seq(S) /\ Len(u) = Len(s) + 1
      /\ \A i \in 1 .. Len(s) : u[i] = s[i]
      /\ u[Len(s) + 1] = b
  BY AppendProperties, LenProperties
<1> HIDE DEF t, u
<1> DEFINE v == [t EXCEPT ![Len(t)] = b]
<1>2. /\ v \in Seq(S) /\ Len(v) = Len(t)
      /\ \A j \in 1 .. Len(t) : v[j] = IF j = Len(t) THEN b ELSE t[j]
  <2>1. Len(t) \in 1 .. Len(t)
    BY <1>1
  <2> QED
    BY <1>1, <2>1, ExceptSeq
<1> HIDE DEF v
<1>3. \A i \in 1 .. Len(v) : v[i] = u[i]
  BY <1>1, <1>2
<1>4. v = u
  BY <1>1, <1>2, <1>3, SeqEqual
<1> QED
  BY <1>4 DEF t, u, v

(* A value goes to the option of its line, or replaces that of an option   *)
(* which has been left without one.                                        *)
LEMMA InvValue ==
  ASSUME Inv, Value
  PROVE  Inv'
<1>1. /\ at = "value" /\ at' = "key" /\ UNCHANGED <<phase, key, line, empty>>
      /\ given' = IF key \in Options THEN [given EXCEPT ![key] = line]
                  ELSE given
      /\ givenFilters' = IF key = Filter THEN Append(givenFilters, line)
                         ELSE givenFilters
      /\ TextValue \/ NumberValue \/ IgnoredValue
  BY DEF Value
<1>2. /\ line \in 0 .. MaxLines /\ Unset \in 0 .. MaxLines
      /\ filters \in Seq(0 .. MaxLines)
      /\ givenFilters \in Seq(0 .. MaxLines) /\ Len(filters) <= MaxFilters
      /\ {cfg, given} \subseteq [Options -> 0 .. MaxLines]
  BY ProxyStartAssumption DEF Inv, TypeOK, Unset
<1>3. givenFilters' \in Seq(0 .. MaxLines)
  BY <1>1, <1>2, AppendProperties
<1>4. CASE TextValue /\ textp = Filter
  <2>1. /\ filters' = [filters EXCEPT ![Len(filters)] = line]
        /\ UNCHANGED <<cfg, intp>> /\ textp' = Nowhere
    BY <1>4 DEF TextValue
  <2>2. key \notin Required
    BY <1>1, <1>4, Names DEF Inv, PointersInv
  <2>3. filters' \in Seq(0 .. MaxLines) /\ Len(filters') = Len(filters)
    <3>1. Len(filters) \in 1 .. Len(filters)
      BY <1>2, <1>4, EmptySeq, LenProperties DEF Inv, PointersInv
    <3> QED
      BY <1>2, <2>1, <3>1, ExceptSeq
  <2>4. TypeOK'
    BY <1>1, <1>2, <2>1, <2>3 DEF Inv, TypeOK
  <2>5. PointersInv'
    BY <1>1, <1>4, <2>1, Names DEF Inv, TypeOK, PointersInv
  <2>6. Filter \notin empty => filters' = givenFilters'
    <3> SUFFICES ASSUME Filter \notin empty PROVE filters' = givenFilters'
      OBVIOUS
    <3>1. key = Filter
      BY <1>4, Names DEF Inv, PointersInv
    <3>2. filters = Append(givenFilters, Unset)
          /\ givenFilters' = Append(givenFilters, line)
      BY <1>1, <3>1 DEF Inv, StoredInv
    <3>3. [Append(givenFilters, Unset)
             EXCEPT ![Len(Append(givenFilters, Unset))] = line]
          = Append(givenFilters, line)
      <4> DEFINE V == 0 .. MaxLines
      <4>1. givenFilters \in Seq(V) /\ Unset \in V /\ line \in V
        BY <1>2
      <4> HIDE DEF V
      <4> QED
        BY <4>1, AppendTwice
    <3> QED
      BY <2>1, <3>2, <3>3
  <2>7. StoredInv'
    BY <1>1, <1>2, <1>4, <2>1, <2>2, <2>6, Names
       DEF Inv, StoredInv, PointersInv, Options
  <2> QED
    BY <1>3, <2>4, <2>5, <2>7 DEF Inv
<1>5. CASE TextValue /\ textp # Filter
  <2>1. /\ cfg' = [cfg EXCEPT ![textp] = line]
        /\ UNCHANGED <<filters, intp>> /\ textp' = Nowhere
        /\ textp \in Required /\ textp \in Options
    BY <1>5 DEF TextValue, Inv, TypeOK, Options
  <2>2. key # Filter
    BY <1>1, <1>5 DEF Inv, PointersInv
  <2>3. key \in Required => textp = key
    BY <1>1 DEF Inv, PointersInv
  <2>4. textp = key \/ textp \in empty
    BY <2>1, Names DEF Inv, PointersInv
  <2>5. TypeOK'
    BY <1>1, <1>2, <2>1 DEF Inv, TypeOK
  <2>6. PointersInv'
    BY <1>1, <2>1, <2>4, Names DEF Inv, TypeOK, PointersInv
  <2>7. ASSUME NEW o \in Required \ empty PROVE cfg'[o] = given'[o]
    BY <1>1, <1>2, <2>1, <2>3, <2>4, <2>7 DEF Inv, StoredInv, Options
  <2>8. ASSUME empty \subseteq Numbers, NEW o \in Numbers \ empty
        PROVE  cfg'[o] = given'[o]
    <3>1. textp = key
      BY <2>1, <2>4, <2>8, Names
    <3> QED
      BY <1>1, <1>2, <2>1, <2>8, <3>1, Names DEF Inv, StoredInv, Options
  <2>9. StoredInv'
    BY <1>1, <2>1, <2>2, <2>7, <2>8 DEF Inv, StoredInv
  <2> QED
    BY <1>3, <2>5, <2>6, <2>9 DEF Inv
<1>6. CASE NumberValue
  <2>1. /\ cfg' = [cfg EXCEPT ![intp] = line] /\ textp = Nowhere
        /\ UNCHANGED <<filters, textp>> /\ intp' = Nowhere
        /\ intp \in Numbers /\ intp \in Options
    BY <1>6 DEF NumberValue, Inv, TypeOK, Options
  <2>2. key \notin Required /\ key # Filter
    BY <1>1, <2>1, Names DEF Inv, PointersInv
  <2>3. key \in Numbers => intp = key
    BY <1>1 DEF Inv, PointersInv
  <2>4. empty \subseteq Numbers => intp = key \/ intp \in empty
    BY <2>1, Names DEF Inv, PointersInv
  <2>5. TypeOK'
    BY <1>1, <1>2, <2>1 DEF Inv, TypeOK
  <2>6. PointersInv'
    BY <1>1, <2>1, Names DEF Inv, PointersInv
  <2>7. ASSUME NEW o \in Required \ empty PROVE cfg'[o] = given'[o]
    BY <1>1, <1>2, <2>1, <2>2, <2>7, Names DEF Inv, StoredInv, Options
  <2>8. ASSUME empty \subseteq Numbers, NEW o \in Numbers \ empty
        PROVE  cfg'[o] = given'[o]
    BY <1>1, <1>2, <2>1, <2>3, <2>4, <2>8 DEF Inv, StoredInv, Options
  <2>9. StoredInv'
    BY <1>1, <2>1, <2>2, <2>7, <2>8 DEF Inv, StoredInv
  <2> QED
    BY <1>3, <2>5, <2>6, <2>9 DEF Inv
<1>7. CASE IgnoredValue
  <2>1. UNCHANGED <<textp, intp, cfg, filters>> /\ textp = Nowhere
        /\ intp = Nowhere
    BY <1>7 DEF IgnoredValue
  <2>2. key \notin Options /\ key # Filter
    BY <1>1, <2>1, Names DEF Inv, PointersInv, Options
  <2>3. TypeOK'
    BY <1>1, <1>2, <2>1, <2>2 DEF Inv, TypeOK
  <2>4. PointersInv' /\ StoredInv'
    BY <1>1, <2>1, <2>2 DEF Inv, PointersInv, StoredInv
  <2> QED
    BY <1>3, <2>3, <2>4 DEF Inv
<1> QED
  BY <1>1, <1>4, <1>5, <1>6, <1>7

(* An option that gets no value is no longer spoken of.                    *)
LEMMA InvNoValue ==
  ASSUME Inv, NoValue
  PROVE  Inv'
<1>1. /\ at = "value" /\ at' = "key"
      /\ empty' = IF key = Unsupported THEN empty ELSE empty \cup {key}
      /\ UNCHANGED <<phase, key, textp, intp, cfg, filters, line, given,
                     givenFilters>>
  BY DEF NoValue
<1>2. empty \subseteq empty' /\ (key # Unsupported => key \in empty')
  BY <1>1
<1>3. TypeOK'
  BY <1>1 DEF Inv, TypeOK
<1>4. PointersInv'
  <2>1. textp # Unsupported /\ intp # Unsupported
    BY Names DEF Inv, TypeOK
  <2> QED
    BY <1>1, <1>2, <2>1 DEF Inv, PointersInv
<1>5. StoredInv'
  BY <1>1, <1>2, Names DEF Inv, StoredInv
<1> QED
  BY <1>1, <1>3, <1>4, <1>5 DEF Inv

(* Every step keeps the invariant.                                         *)
LEMMA InvStep == Inv /\ [Next]_vars => Inv'
<1> SUFFICES ASSUME Inv, [Next]_vars PROVE Inv'
  OBVIOUS
<1>1. ASSUME UNCHANGED <<parserVars, given, givenFilters, empty>>,
             phase' \in {"parsing", "aborted", "NULL", "parsed", "failed",
                         "valid", "consumer", "package", "SIGFPE", "running"},
             line' \in 0 .. MaxLines
      PROVE  Inv'
  BY <1>1 DEF parserVars, Inv, TypeOK, PointersInv, StoredInv
<1>2. line \in 0 .. MaxLines /\ MaxLines \in Nat
      /\ phase \in {"parsing", "aborted", "NULL", "parsed", "failed",
                    "valid", "consumer", "package", "SIGFPE", "running"}
  BY ProxyStartAssumption DEF Inv, TypeOK
<1>3. ASSUME NEW o \in Options \cup {Filter, Unsupported}, Key(o)
      PROVE  Inv'
  BY <1>3, InvKey
<1>4. CASE TooManyFilters
  BY <1>1, <1>2, <1>4 DEF TooManyFilters, NextLine
<1>5. CASE Value
  BY <1>5, InvValue
<1>6. CASE NoValue
  BY <1>6, InvNoValue
<1>7. CASE StreamEnds
  BY <1>1, <1>2, <1>7 DEF StreamEnds, fileVars
<1>8. CASE IsValidConfig
  BY <1>1, <1>2, <1>8 DEF IsValidConfig, fileVars
<1>9. CASE InitKafka \/ InitTimeseries
  BY <1>1, <1>2, <1>9 DEF InitKafka, InitTimeseries, fileVars
<1>10. CASE InitStatsTimeseries
  BY <1>1, <1>2, <1>10 DEF InitStatsTimeseries, fileVars
<1>11. CASE UNCHANGED vars
  BY <1>1, <1>2, <1>11 DEF vars, fileVars
<1> QED
  BY <1>3, <1>4, <1>5, <1>6, <1>7, <1>8, <1>9, <1>10, <1>11 DEF Next

(* The invariant holds throughout.                                         *)
LEMMA InvAlways == Spec => []Inv
  BY InvInit, InvStep, PTL DEF Spec

(* The parser is type correct, and never stores more prefixes than there   *)
(* is room for.                                                            *)
THEOREM TypeCorrect == Spec => []TypeOK
<1>1. Inv => TypeOK
  BY DEF Inv
<1> QED
  BY <1>1, InvAlways, PTL

(* Each option that always stands there with a value has its own, for      *)
(* every file, but numbers only if no text is left without a value.        *)
THEOREM ValuesAreOwn == Spec => []OwnValue
<1>1. Inv => OwnValue
  BY DEF Inv, StoredInv, OwnValue
<1> QED
  BY <1>1, InvAlways, PTL

(* How far main() has come, and what the configuration has then.           *)
StartInv ==
  /\ phase \in {"parsed", "valid", "consumer", "package", "running"} =>
       at = "key"
  /\ phase \in {"valid", "consumer", "package", "running"} => Complete
  /\ phase = "running" => cfg["stats-interval"] # 0

(* Behind the parser nothing changes the configuration any more.           *)
LEMMA StartStep == StartInv /\ [Next]_vars => StartInv'
<1> SUFFICES ASSUME StartInv, [Next]_vars PROVE StartInv'
  OBVIOUS
<1>1. CASE phase' \in {"parsing", "aborted"}
  BY <1>1 DEF StartInv
<1>2. CASE StreamEnds
  BY <1>2 DEF StreamEnds, parserVars, StartInv
<1>3. CASE IsValidConfig
  BY <1>3 DEF IsValidConfig, parserVars, StartInv, Complete
<1>4. CASE InitKafka
  BY <1>4 DEF InitKafka, parserVars, StartInv, Complete
<1>5. CASE InitTimeseries
  BY <1>5 DEF InitTimeseries, parserVars, StartInv, Complete
<1>6. CASE InitStatsTimeseries
  BY <1>6 DEF InitStatsTimeseries, parserVars, StartInv, Complete
<1>7. CASE UNCHANGED vars
  BY <1>7 DEF vars, parserVars, StartInv, Complete
<1> QED
  BY <1>1, <1>2, <1>3, <1>4, <1>5, <1>6, <1>7
     DEF Next, Key, NextLine, TooManyFilters, Value, NoValue

(* If no option stands there without a value, then run() is reached only   *)
(* with all options that it and the statistics need.                       *)
THEOREM RunsWithAll == Spec => []RunsComplete
<1>1. Init => StartInv
  BY DEF Init, StartInv
<1>2. Inv /\ StartInv => RunsComplete
  <2> SUFFICES ASSUME Inv, StartInv, phase = "running", empty = {},
                      NEW o \in Required \cup {"stats-interval"}
               PROVE  given[o] # Unset
    BY DEF RunsComplete
  <2>1. cfg[o] # Unset
    BY DEF StartInv, Complete, Unset
  <2>2. cfg[o] = given[o]
    BY DEF Inv, StoredInv, Numbers
  <2> QED
    BY <2>1, <2>2
<1> QED
  BY <1>1, <1>2, StartStep, InvAlways, PTL DEF Spec
=============================================================================
