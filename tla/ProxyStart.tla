----------------------------- MODULE ProxyStart -----------------------------
(***************************************************************************)
(* How tsk-proxy starts: the configuration file as a stream of YAML        *)
(* tokens, the check of what it says, and the connections that are made    *)
(* before run().  The parser keeps two pointers, one to the text and one   *)
(* to the number that the next value is for.                               *)
(*                                                                         *)
(* A line of the file is a key and a value, which may be empty: then the   *)
(* scanner returns no token for it.  A value is the number of its line.    *)
(***************************************************************************)
EXTENDS Integers, Sequences

CONSTANTS
  Required,    \* the options that is_valid_config asks for, all texts
  MaxFilters,  \* MAX_FILTERS
  MaxLines     \* bound: lines of the file

Numbers == {"log-level", "stats-interval"}
Filter == "filter-prefix"
Unsupported == "no option"
Options == Required \cup Numbers
Unset == 0
Nowhere == "nowhere"

ASSUME ProxyStartAssumption ==
  /\ Required \cap (Numbers \cup {Filter, Unsupported, Nowhere}) = {}
  /\ MaxFilters \in Nat /\ MaxLines \in Nat

VARIABLES
  phase,        \* how far main() has come
  at,           \* `state': what the next scalar is, a "key" or a "value"
  key,          \* history: the key of the line
  textp,        \* the option that textp points to; Filter: the last filter
  intp,         \* the option that intp points to
  cfg,          \* the value of each option
  filters,      \* the prefixes; Unset: NULL
  line,         \* the number of the line
  given,        \* history: the last value that each option was given
  givenFilters, \* history: the prefixes in the file
  empty         \* history: the keys that were left without a value

fileVars == <<line, given, givenFilters, empty>>
parserVars == <<at, key, textp, intp, cfg, filters>>
vars == <<phase, parserVars, fileVars>>

Init ==
  /\ phase = "parsing"
  /\ at = "key" /\ key = Unsupported
  /\ textp = Nowhere /\ intp = Nowhere
  /\ cfg = [o \in Options |-> Unset] /\ filters = << >>
  /\ line = 0
  /\ given = cfg /\ givenFilters = << >> /\ empty = {}

-----------------------------------------------------------------------------
(* parse_config_file                                                       *)

NextLine ==
  /\ phase = "parsing" /\ at = "key"
  /\ line < MaxLines
  /\ line' = line + 1

(* Mutant: one prefix too many.                                            *)
Key_OneMore(o) ==
  /\ NextLine
  /\ o = Filter => Len(filters) <= MaxFilters
  /\ at' = "value" /\ key' = o
  /\ textp' = IF o \in Required \cup {Filter} THEN o ELSE textp
  /\ intp' = IF o \in Numbers THEN o ELSE intp
  /\ filters' = IF o = Filter THEN Append(filters, Unset) ELSE filters
  /\ UNCHANGED <<phase, cfg, given, givenFilters, empty>>

Key(o) ==
  /\ NextLine
  /\ o = Filter => Len(filters) < MaxFilters
  /\ at' = "value" /\ key' = o
  /\ textp' = IF o \in Required \cup {Filter} THEN o ELSE textp
  /\ intp' = IF o \in Numbers THEN o ELSE intp
  /\ filters' = IF o = Filter THEN Append(filters, Unset) ELSE filters
  /\ UNCHANGED <<phase, cfg, given, givenFilters, empty>>

(* assert(filters_cnt < MAX_FILTERS)                                       *)
TooManyFilters ==
  /\ NextLine
  /\ Len(filters) >= MaxFilters
  /\ phase' = "aborted"
  /\ UNCHANGED <<parserVars, given, givenFilters, empty>>

(* Mutant: the pointer still points there when the next value comes.       *)
TextValue_KeepsPointer ==
  /\ textp # Nowhere
  /\ IF textp = Filter
     THEN filters' = [filters EXCEPT ![Len(filters)] = line] /\ UNCHANGED cfg
     ELSE cfg' = [cfg EXCEPT ![textp] = line] /\ UNCHANGED filters
  /\ UNCHANGED <<textp, intp>>

TextValue ==
  /\ textp # Nowhere
  /\ IF textp = Filter
     THEN filters' = [filters EXCEPT ![Len(filters)] = line] /\ UNCHANGED cfg
     ELSE cfg' = [cfg EXCEPT ![textp] = line] /\ UNCHANGED filters
  /\ textp' = Nowhere
  /\ UNCHANGED intp

NumberValue ==
  /\ textp = Nowhere /\ intp # Nowhere
  /\ cfg' = [cfg EXCEPT ![intp] = line]
  /\ intp' = Nowhere
  /\ UNCHANGED <<textp, filters>>

IgnoredValue ==
  /\ textp = Nowhere /\ intp = Nowhere
  /\ UNCHANGED <<textp, intp, cfg, filters>>

Value ==
  /\ phase = "parsing" /\ at = "value"
  /\ at' = "key"
  /\ TextValue \/ NumberValue \/ IgnoredValue
  /\ given' = IF key \in Options THEN [given EXCEPT ![key] = line] ELSE given
  /\ givenFilters' =
       IF key = Filter THEN Append(givenFilters, line) ELSE givenFilters
  /\ UNCHANGED <<phase, key, line, empty>>

NoValue ==
  /\ phase = "parsing" /\ at = "value"
  /\ at' = "key"
  /\ empty' = IF key = Unsupported THEN empty ELSE empty \cup {key}
  /\ UNCHANGED <<phase, key, textp, intp, cfg, filters, line, given,
                 givenFilters>>

(* The end of the file; strlen of each prefix.                             *)
StreamEnds ==
  /\ phase = "parsing" /\ at = "key"
  /\ phase' = IF \E i \in DOMAIN filters : filters[i] = Unset
              THEN "NULL" ELSE "parsed"
  /\ UNCHANGED <<parserVars, fileVars>>

-----------------------------------------------------------------------------
(* main                                                                    *)

(* Mutant: one missing option is taken for good.                           *)
Complete_AnyOne == \E o \in Required : cfg[o] # Unset

Complete == \A o \in Required : cfg[o] # Unset

IsValidConfig ==
  /\ phase = "parsed"
  /\ phase' = IF Complete THEN "valid" ELSE "failed"
  /\ UNCHANGED <<parserVars, fileVars>>

(* The consumer, and the package for the data.                             *)
InitKafka ==
  /\ phase = "valid"
  /\ phase' \in {"consumer", "failed"}
  /\ UNCHANGED <<parserVars, fileVars>>

InitTimeseries ==
  /\ phase = "consumer"
  /\ phase' \in {"package", "failed"}
  /\ UNCHANGED <<parserVars, fileVars>>

(* The package for the statistics; then STATS_INTERVAL_NOW divides.        *)
InitStatsTimeseries ==
  /\ phase = "package"
  /\ phase' \in {"failed", IF cfg["stats-interval"] = 0 THEN "SIGFPE"
                           ELSE "running"}
  /\ UNCHANGED <<parserVars, fileVars>>

Next ==
  \/ \E o \in Options \cup {Filter, Unsupported} : Key(o)
  \/ TooManyFilters \/ Value \/ NoValue \/ StreamEnds
  \/ IsValidConfig \/ InitKafka \/ InitTimeseries \/ InitStatsTimeseries

Spec == Init /\ [][Next]_vars

-----------------------------------------------------------------------------
(* Properties                                                              *)

(* Types; in particular filters_cnt stays within the array.                *)
TypeOK ==
  /\ phase \in {"parsing", "aborted", "NULL", "parsed", "failed", "valid",
                "consumer", "package", "SIGFPE", "running"}
  /\ at \in {"key", "value"}
  /\ key \in Options \cup {Filter, Unsupported}
  /\ textp \in Required \cup {Filter, Nowhere}
  /\ intp \in Numbers \cup {Nowhere}
  /\ {cfg, given} \subseteq [Options -> 0 .. MaxLines]
  /\ filters \in Seq(0 .. MaxLines) /\ Len(filters) <= MaxFilters
  /\ line \in 0 .. MaxLines
  /\ empty \subseteq Options \cup {Filter}

(* An option that never stands there without a value has the last value    *)
(* that it was given, whatever other lines lack theirs, repeat it or are   *)
(* not supported.  Numbers are less safe than texts: a text without a      *)
(* value takes that of the next number.                                    *)
OwnValue ==
  at = "key" =>
    /\ \A o \in Required \ empty : cfg[o] = given[o]
    /\ Filter \notin empty => filters = givenFilters
    /\ empty \subseteq Numbers => \A o \in Numbers \ empty : cfg[o] = given[o]

(* A number that is left out is 0; a text that is left out is refused.     *)
RunsComplete ==
  phase = "running" /\ empty = {} =>
    \A o \in Required \cup {"stats-interval"} : given[o] # Unset

=============================================================================
