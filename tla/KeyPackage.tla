----------------------------- MODULE KeyPackage -----------------------------
(***************************************************************************)
(* A key package and the backends it is flushed to.  A single thread calls *)
(* the library; timeseries_kp_flush and timeseries_kp_resolve run through  *)
(* the enabled backends in the order of their ids, and any backend may     *)
(* fail on the way, so the two calls are modelled one backend at a time.   *)
(***************************************************************************)
EXTENDS KpTable

CONSTANTS
  Times,          \* timestamps the caller flushes with
  NoValue,        \* "no point stored"
  Resolvers,      \* backends that keep state per key (DBATS)
  Transactional,  \* backends whose failed flush leaves nothing behind (DBATS)
  MayFail,        \* backends whose kp_flush can return -1 (DBATS, Kafka)
  Configurations, \* sets of backends that are enabled before kp_init
  Calls,          \* optional API calls that the program using the package makes
  MaxInfos        \* bound: infos in the package

OptionalCalls == {"add_again", "disable", "enable", "resolve", "enable_backend"}

ASSUME KeyPackageAssumption ==
  /\ Resolvers \subseteq Backends
  /\ Transactional \subseteq Backends
  /\ MayFail \subseteq Backends
  /\ Configurations \subseteq SUBSET Backends
  /\ Calls \subseteq OptionalCalls
  /\ NoValue \notin Values
  /\ MaxInfos \in Nat

VARIABLES
  kp,        \* the table (struct timeseries_kp)
  flags,     \* kp->reset and kp->disable
  enabled,   \* backends whose `enabled' field is set
  pc,        \* where the call in progress is
  cur,       \* `id' of the loop over the backends
  wasDirty,  \* local `dirty' of timeseries_kp_flush
  ftime,     \* argument `time' of timeseries_kp_flush
  store      \* what each backend has accepted: time and key to value

vars == <<kp, flags, enabled, pc, cur, wasDirty, ftime, store>>

Slots == Times \X Keys

(* timeseries_kp_init                                                      *)
Init ==
  /\ kp = EmptyTable
  /\ flags \in SUBSET FlagSet
  /\ enabled \in Configurations
  /\ pc = "idle" /\ cur = 1 /\ wasDirty = FALSE
  /\ ftime \in Times
  /\ store = [b \in Backends |-> [s \in Slots |-> NoValue]]

-----------------------------------------------------------------------------
(* Calls that change the table at once.                                    *)

Client(newKp) ==
  /\ pc = "idle"
  /\ kp' = newKp
  /\ UNCHANGED <<flags, enabled, pc, cur, wasDirty, ftime, store>>

(* Every caller in the repository asks timeseries_kp_get_key first.        *)
CallAddKey(k) ==
  /\ Len(kp.infos) < MaxInfos
  /\ GetKey(kp, k) = NoId \/ "add_again" \in Calls
  /\ Client(AddKey(kp, k))

CallSet(i, v) == Client(SetValue(kp, i, v))

CallEnable(i) == "enable" \in Calls /\ Client(EnableKey(kp, i))

CallDisable(i) == "disable" \in Calls /\ Client(DisableKey(kp, i))

(* timeseries_enable_backend may be called at any time.                    *)
EnableBackend(b) ==
  /\ "enable_backend" \in Calls
  /\ pc = "idle"
  /\ enabled' = enabled \cup {b}
  /\ UNCHANGED <<kp, flags, pc, cur, wasDirty, ftime, store>>

-----------------------------------------------------------------------------
(* timeseries_kp_flush                                                     *)

(* Mutant: the loop over the backends starts below the first id.           *)
FlushBegin_FromZero(t) ==
  /\ pc = "idle"
  /\ pc' = "update"
  /\ cur' = 0
  /\ ftime' = t
  /\ wasDirty' = kp.dirty
  /\ kp' = [kp EXCEPT !.dirty = FALSE]
  /\ UNCHANGED <<flags, enabled, store>>

FlushBegin(t) ==
  /\ pc = "idle"
  /\ pc' = "update"
  /\ cur' = 1
  /\ ftime' = t
  /\ wasDirty' = kp.dirty
  /\ kp' = [kp EXCEPT !.dirty = FALSE]
  /\ UNCHANGED <<flags, enabled, store>>

(* TIMESERIES_FOREACH_ENABLED_BACKEND passes over the other backends.      *)
SkipBackend ==
  /\ pc \in {"update", "resolve"}
  /\ cur \in Backends \ enabled
  /\ cur' = cur + 1
  /\ UNCHANGED <<kp, flags, enabled, pc, wasDirty, ftime, store>>

(* kp_ki_update succeeds, or is not called because nothing was added.      *)
UpdateBackend ==
  /\ pc = "update"
  /\ cur \in enabled
  /\ kp' = IF wasDirty /\ cur \in Resolvers
           THEN KiUpdate(kp, cur, Len(kp.infos)) ELSE kp
  /\ pc' = "write"
  /\ UNCHANGED <<flags, enabled, cur, wasDirty, ftime, store>>

(* Mutant: the failed update leaves `dirty' cleared.                       *)
UpdateFails_Clean(i) ==
  /\ pc = "update"
  /\ cur \in enabled \cap Resolvers
  /\ wasDirty
  /\ i \in Unresolved(kp, cur)
  /\ kp' = KiUpdate(kp, cur, i - 1)
  /\ pc' = "idle"
  /\ UNCHANGED <<flags, enabled, cur, wasDirty, ftime, store>>

(* The lookup of info i fails; the flush gives up and restores `dirty'.    *)
UpdateFails(i) ==
  /\ pc = "update"
  /\ cur \in enabled \cap Resolvers
  /\ wasDirty
  /\ i \in Unresolved(kp, cur)
  /\ kp' = [KiUpdate(kp, cur, i - 1) EXCEPT !.dirty = TRUE]
  /\ pc' = "idle"
  /\ UNCHANGED <<flags, enabled, cur, wasDirty, ftime, store>>

(* The points of the first n infos reach backend b.                        *)
Written(b, n) ==
  [store EXCEPT ![b] = [s \in Slots |->
     IF s[1] = ftime /\ Writers(kp, s[2], n) # {}
     THEN WrittenValue(kp, s[2], n) ELSE @[s]]]

NullState == cur \in Resolvers /\ Unresolved(kp, cur) # {}

WriteBackend ==
  /\ pc = "write"
  /\ ~NullState
  /\ store' = Written(cur, Len(kp.infos))
  /\ pc' = "update"
  /\ cur' = cur + 1
  /\ UNCHANGED <<kp, flags, enabled, wasDirty, ftime>>

(* Mutant: the values are reset although the flush has failed.             *)
WriteFails_Resets(n) ==
  /\ pc = "write"
  /\ cur \in MayFail
  /\ cur \in Transactional => n = 0
  /\ store' = Written(cur, n)
  /\ kp' = ResetDisable(kp, flags)
  /\ pc' = "idle"
  /\ UNCHANGED <<flags, enabled, cur, wasDirty, ftime>>

(* kp_flush returns -1 after the points of n infos have left.              *)
WriteFails(n) ==
  /\ pc = "write"
  /\ cur \in MayFail
  /\ cur \in Transactional => n = 0
  /\ store' = Written(cur, n)
  /\ pc' = "idle"
  /\ UNCHANGED <<kp, flags, enabled, cur, wasDirty, ftime>>

(* The DBATS backend dereferences the state of every enabled info.         *)
WriteCrashes ==
  /\ pc = "write"
  /\ NullState
  /\ pc' = "crashed"
  /\ UNCHANGED <<kp, flags, enabled, cur, wasDirty, ftime, store>>

FlushEnd ==
  /\ pc = "update"
  /\ cur > LastId
  /\ kp' = ResetDisable(kp, flags)
  /\ pc' = "idle"
  /\ UNCHANGED <<flags, enabled, cur, wasDirty, ftime, store>>

-----------------------------------------------------------------------------
(* timeseries_kp_resolve                                                   *)

ResolveBegin ==
  /\ "resolve" \in Calls
  /\ pc = "idle"
  /\ pc' = "resolve"
  /\ cur' = 1
  /\ kp' = [kp EXCEPT !.dirty = FALSE]
  /\ UNCHANGED <<flags, enabled, wasDirty, ftime, store>>

ResolveBackend ==
  /\ pc = "resolve"
  /\ cur \in enabled
  /\ kp' = IF cur \in Resolvers THEN KiUpdate(kp, cur, Len(kp.infos)) ELSE kp
  /\ cur' = cur + 1
  /\ UNCHANGED <<flags, enabled, pc, wasDirty, ftime, store>>

(* Unlike the flush, a failed resolve leaves `dirty' cleared.              *)
ResolveFails(i) ==
  /\ pc = "resolve"
  /\ cur \in enabled \cap Resolvers
  /\ i \in Unresolved(kp, cur)
  /\ kp' = KiUpdate(kp, cur, i - 1)
  /\ pc' = "idle"
  /\ UNCHANGED <<flags, enabled, cur, wasDirty, ftime, store>>

ResolveEnd ==
  /\ pc = "resolve"
  /\ cur > LastId
  /\ pc' = "idle"
  /\ UNCHANGED <<kp, flags, enabled, cur, wasDirty, ftime, store>>

-----------------------------------------------------------------------------
Next ==
  \/ \E k \in Keys : CallAddKey(k)
  \/ \E i \in Ids(kp) : \E v \in Values : CallSet(i, v)
  \/ \E i \in Ids(kp) : CallEnable(i)
  \/ \E i \in Ids(kp) : CallDisable(i)
  \/ \E b \in Backends : EnableBackend(b)
  \/ \E t \in Times : FlushBegin(t)
  \/ SkipBackend
  \/ UpdateBackend
  \/ \E i \in Ids(kp) : UpdateFails(i)
  \/ WriteBackend
  \/ \E n \in 0 .. Len(kp.infos) : WriteFails(n)
  \/ WriteCrashes
  \/ FlushEnd
  \/ ResolveBegin
  \/ ResolveBackend
  \/ \E i \in Ids(kp) : ResolveFails(i)
  \/ ResolveEnd

Spec == Init /\ [][Next]_vars

-----------------------------------------------------------------------------
(* Properties                                                              *)

TypeOK ==
  /\ kp \in Table
  /\ flags \in SUBSET FlagSet
  /\ enabled \in SUBSET Backends
  /\ pc \in {"idle", "update", "write", "resolve", "crashed"}
  /\ cur \in 1 .. LastId + 1
  /\ pc = "write" => cur \in enabled
  /\ wasDirty \in BOOLEAN
  /\ ftime \in Times
  /\ store \in [Backends -> [Slots -> Values \cup {NoValue}]]

(* timeseries_kp_enabled_size, by which tsk-proxy decides whether to flush *)
(* and which it asserts to be 0 behind a flush, is the number of points    *)
(* that kp_flush writes, whatever mix of enables, disables, additions and  *)
(* DISABLE flushes ran.                                                    *)
CounterExact == CountExact(kp)

(* The index that timeseries_kp_get_key returns is in the array and leads  *)
(* to the newest info of that name, also between the steps of a flush.     *)
LookupExact == LookupSound(kp)

(* What `dirty' stands for between calls: when it is clear, a flush may    *)
(* skip kp_ki_update, because no enabled key lacks the state of an enabled *)
(* resolving backend, even after flushes that failed half way.             *)
CleanMeansResolved ==
  pc = "idle" /\ ~kp.dirty =>
    \A b \in enabled \cap Resolvers : Unresolved(kp, b) = {}

(* kp_flush of the DBATS backend never finds an enabled key whose state is *)
(* still NULL.                                                             *)
NoCrash == pc # "crashed"

(* The package as its user sees it: a table of rows, one for each name.    *)
Row(k) ==
  IF GetKey(kp, k) = NoId THEN [value |-> NoValue, on |-> FALSE]
  ELSE [value |-> kp.infos[GetKey(kp, k)].value,
        on |-> ~kp.infos[GetKey(kp, k)].disabled]

PT == INSTANCE PointTable WITH table <- [k \in Keys |-> Row(k)],
                               live <- enabled

(* Provided that no name is added twice, the package implements the point  *)
(* table: a flush that fails, at whatever backend and whatever info, keeps *)
(* every value and every flag, and the rows are reset or switched off only *)
(* when each enabled backend holds the points of all enabled rows.         *)
PointTableSpec == PT!Spec

=============================================================================
