------------------------------- MODULE KpTable -------------------------------
(***************************************************************************)
(* The table inside a key package (struct timeseries_kp): an array of key  *)
(* infos, a hash from key name to array index, a cached count of the       *)
(* enabled infos and the dirty flag.  Every operation of                   *)
(* lib/timeseries_kp.c that touches the table is an operator from a table  *)
(* to the table it leaves, so that the key package itself, tsk-proxy and   *)
(* timeseries-insert are all built from the same definitions.              *)
(*                                                                         *)
(* Array indices start at 1 here and at 0 in the code; the code's -1 for   *)
(* "no such key" is NoId.  Allocation is assumed to succeed.               *)
(***************************************************************************)
EXTENDS Integers, Sequences, FiniteSets

CONSTANTS
  Keys,     \* key names
  Values,   \* 64 bit values; 0 is the value a fresh or a reset key has
  LastId    \* TIMESERIES_BACKEND_ID_LAST

ASSUME ValuesAssumption == 0 \in Values
ASSUME LastIdAssumption == LastId \in Nat \ {0}

Backends == 1 .. LastId
NoId == 0
FlagSet == {"RESET", "DISABLE"}

(* struct timeseries_kp_ki; of backend_state only "is it set" matters.     *)
KeyInfo == [key : Keys, value : Values, disabled : BOOLEAN,
            resolved : SUBSET Backends]

Table == [infos : Seq(KeyInfo), hash : [Keys -> Nat], enabledCnt : Int,
          dirty : BOOLEAN]

EmptyTable == [infos |-> << >>, hash |-> [k \in Keys |-> NoId],
               enabledCnt |-> 0, dirty |-> FALSE]

Ids(kp) == 1 .. Len(kp.infos)
EnabledIds(kp) == {i \in Ids(kp) : ~kp.infos[i].disabled}

GetKey(kp, k) == kp.hash[k]

(* kp_ki_init                                                              *)
FreshInfo(k) == [key |-> k, value |-> 0, disabled |-> FALSE, resolved |-> {}]

(* Mutants of AddKey: the index is taken after the counter has gone up;    *)
(* `dirty' is set only for the first key.                                  *)
AddKey_LateIndex(kp, k) ==
  [infos |-> Append(kp.infos, FreshInfo(k)),
   hash |-> [kp.hash EXCEPT ![k] = Len(kp.infos) + 2],
   enabledCnt |-> kp.enabledCnt + 1,
   dirty |-> TRUE]
AddKey_DirtyOnce(kp, k) ==
  [infos |-> Append(kp.infos, FreshInfo(k)),
   hash |-> [kp.hash EXCEPT ![k] = Len(kp.infos) + 1],
   enabledCnt |-> kp.enabledCnt + 1,
   dirty |-> kp.infos = << >> \/ kp.dirty]

(* timeseries_kp_add_key does not look for an info of the same name.       *)
AddKey(kp, k) ==
  [infos |-> Append(kp.infos, FreshInfo(k)),
   hash |-> [kp.hash EXCEPT ![k] = Len(kp.infos) + 1],
   enabledCnt |-> kp.enabledCnt + 1,
   dirty |-> TRUE]

(* Mutant: no test of the flag before the counter goes down.               *)
DisableKey_Untested(kp, i) ==
  [kp EXCEPT !.infos[i].disabled = TRUE, !.enabledCnt = @ - 1]

DisableKey(kp, i) ==
  IF kp.infos[i].disabled THEN kp
  ELSE [kp EXCEPT !.infos[i].disabled = TRUE, !.enabledCnt = @ - 1]

EnableKey(kp, i) ==
  IF kp.infos[i].disabled
  THEN [kp EXCEPT !.infos[i].disabled = FALSE, !.enabledCnt = @ + 1]
  ELSE kp

SetValue(kp, i, v) == [kp EXCEPT !.infos[i].value = v]

(* Mutant: the counter goes down for the disabled infos, too.              *)
ResetDisable_CountsAll(kp, flags) ==
  [kp EXCEPT
     !.infos = [i \in Ids(kp) |->
                  [kp.infos[i] EXCEPT
                     !.value = IF "RESET" \in flags THEN 0 ELSE @,
                     !.disabled = @ \/ "DISABLE" \in flags]],
     !.enabledCnt = IF "DISABLE" \in flags THEN @ - Len(kp.infos) ELSE @]

(* kp_reset_disable: the counter goes down once for each info that the     *)
(* loop finds enabled.                                                     *)
ResetDisable(kp, flags) ==
  [kp EXCEPT
     !.infos = [i \in Ids(kp) |->
                  [kp.infos[i] EXCEPT
                     !.value = IF "RESET" \in flags THEN 0 ELSE @,
                     !.disabled = @ \/ "DISABLE" \in flags]],
     !.enabledCnt = IF "DISABLE" \in flags
                    THEN @ - Cardinality(EnabledIds(kp)) ELSE @]

(* The infos a resolving backend's kp_ki_update still has to look up.      *)
Unresolved(kp, b) == {i \in EnabledIds(kp) : b \notin kp.infos[i].resolved}

(* kp_ki_update of resolving backend b, as far as the first n infos: the   *)
(* loop skips the disabled infos and those whose state is already set.     *)
KiUpdate(kp, b, n) ==
  [kp EXCEPT !.infos = [i \in Ids(kp) |->
     IF i <= n /\ i \in Unresolved(kp, b)
     THEN [kp.infos[i] EXCEPT !.resolved = @ \cup {b}] ELSE kp.infos[i]]]

(* What kp_flush writes for key k when it gets as far as the first n       *)
(* infos: the value of the last enabled info of that name.                 *)
Writers(kp, k, n) == {i \in EnabledIds(kp) : i <= n /\ kp.infos[i].key = k}
WrittenValue(kp, k, n) ==
  kp.infos[CHOOSE i \in Writers(kp, k, n) :
             \A j \in Writers(kp, k, n) : j <= i].value

(* timeseries_kp_flush as one step, for a program with one backend b that  *)
(* may or may not look keys up: the table after success, after a failed    *)
(* lookup of info i and after a failed write.                              *)
LookedUp(kp, b, looksUp) ==
  [IF kp.dirty /\ looksUp THEN KiUpdate(kp, b, Len(kp.infos)) ELSE kp
     EXCEPT !.dirty = FALSE]
FlushDone(kp, b, looksUp, flags) == ResetDisable(LookedUp(kp, b, looksUp), flags)
LookupFailed(kp, b, i) == [KiUpdate(kp, b, i - 1) EXCEPT !.dirty = TRUE]
WriteFailed(kp, b, looksUp) == LookedUp(kp, b, looksUp)

-----------------------------------------------------------------------------
(* The cached counter agrees with the flags of the infos.                  *)
CountExact(kp) == kp.enabledCnt = Cardinality(EnabledIds(kp))

(* A key in the hash leads to the newest info of its name, and every info  *)
(* is behind some hash entry of the same name or an older duplicate of it. *)
LookupSound(kp) ==
  /\ \A k \in Keys : kp.hash[k] # NoId =>
       /\ kp.hash[k] \in Ids(kp)
       /\ kp.infos[kp.hash[k]].key = k
  /\ \A i \in Ids(kp) : i <= kp.hash[kp.infos[i].key]

WellFormed(kp) == kp \in Table /\ CountExact(kp) /\ LookupSound(kp)

=============================================================================
