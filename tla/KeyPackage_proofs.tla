------------------------- MODULE KeyPackage_proofs -------------------------
(***************************************************************************)
(* What holds of the key package whatever the client calls (KpInv); why a  *)
(* client that only adds, sets, enables and flushes never makes the DBATS  *)
(* backend use a key it has not looked up (NoCrash); and that the package  *)
(* implements the point table for a client that adds no name twice.        *)
(***************************************************************************)
EXTENDS KeyPackage, KpTable_proofs

-----------------------------------------------------------------------------
(* Every client.                                                           *)

KpInv == TypeOK /\ CounterExact /\ LookupExact

(* The invariant is the table's well-formedness and the type of the rest.  *)
LEMMA KpInvWellFormed == KpInv => WellFormed(kp)
BY DEF KpInv, TypeOK, CounterExact, LookupExact, WellFormed

(* What a flush leaves in a store is made of values of the table.          *)
LEMMA WrittenType ==
  ASSUME KpInv, NEW b \in Backends, NEW n
  PROVE  Written(b, n) \in [Backends -> [Slots -> Values \cup {NoValue}]]
<1>1. ASSUME NEW s \in Slots
      PROVE  (IF s[1] = ftime /\ Writers(kp, s[2], n) # {}
              THEN WrittenValue(kp, s[2], n) ELSE store[b][s])
             \in Values \cup {NoValue}
  <2>1. store[b][s] \in Values \cup {NoValue}
    BY DEF KpInv, TypeOK
  <2>2. Writers(kp, s[2], n) # {} => WrittenValue(kp, s[2], n) \in Values
    BY WrittenValueSource DEF KpInv, TypeOK
  <2> QED
    BY <2>1, <2>2
<1>2. [s \in Slots |-> IF s[1] = ftime /\ Writers(kp, s[2], n) # {}
                       THEN WrittenValue(kp, s[2], n) ELSE store[b][s]]
      \in [Slots -> Values \cup {NoValue}]
  BY <1>1
<1>3. store \in [Backends -> [Slots -> Values \cup {NoValue}]]
  BY DEF KpInv, TypeOK
<1> QED
  BY <1>2, <1>3 DEF Written

(* A package fresh from timeseries_kp_init satisfies the invariant.        *)
LEMMA KpInvInit == Init => KpInv
<1> SUFFICES ASSUME Init PROVE KpInv
  OBVIOUS
<1>1. WellFormed(kp)
  BY EmptyTableWellFormed DEF Init
<1>2. 1 \in 1 .. LastId + 1
  BY LastIdAssumption
<1>3. TypeOK
  BY <1>1, <1>2, KeyPackageAssumption DEF Init, TypeOK, WellFormed
<1> QED
  BY <1>1, <1>3 DEF KpInv, WellFormed, CounterExact, LookupExact

(* One step for each action: the new table is well formed by the lemma on  *)
(* the table operation that the action applies.                            *)
LEMMA KpInvStep == KpInv /\ [Next]_vars => KpInv'
<1> SUFFICES ASSUME KpInv, [Next]_vars PROVE KpInv'
  OBVIOUS
<1> USE DEF KpInv
<1>0. WellFormed(kp) /\ kp \in Table /\ Len(kp.infos) \in Nat
      /\ Ids(kp) \subseteq Nat \ {0}
  BY KpInvWellFormed, TableIds DEF WellFormed
<1> DEFINE Rest == /\ flags' \in SUBSET FlagSet
                   /\ enabled' \in SUBSET Backends
                   /\ pc' \in {"idle", "update", "write", "resolve", "crashed"}
                   /\ cur' \in 1 .. LastId + 1
                   /\ pc' = "write" => cur' \in enabled'
                   /\ wasDirty' \in BOOLEAN
                   /\ ftime' \in Times
                   /\ store' \in [Backends -> [Slots -> Values \cup {NoValue}]]
<1>a. ASSUME WellFormed(kp'), Rest PROVE KpInv'
  BY <1>a DEF WellFormed, TypeOK, CounterExact, LookupExact
<1>b. ASSUME NEW nkp, WellFormed(nkp), Client(nkp) PROVE KpInv'
  BY <1>a, <1>b DEF Client, TypeOK
<1>c. cur \in Backends => cur + 1 \in 1 .. LastId + 1
  BY LastIdAssumption DEF Backends
<1>d. 1 \in 1 .. LastId + 1
  BY LastIdAssumption
<1>1. ASSUME NEW k \in Keys, CallAddKey(k) PROVE KpInv'
  BY <1>0, <1>1, <1>b, AddKeyWellFormed DEF CallAddKey
<1>2. ASSUME NEW i \in Ids(kp), NEW v \in Values, CallSet(i, v) PROVE KpInv'
  BY <1>0, <1>2, <1>b, SetValueWellFormed DEF CallSet
<1>3. ASSUME NEW i \in Ids(kp), CallEnable(i) PROVE KpInv'
  BY <1>0, <1>3, <1>b, EnableKeyWellFormed DEF CallEnable
<1>4. ASSUME NEW i \in Ids(kp), CallDisable(i) PROVE KpInv'
  BY <1>0, <1>4, <1>b, DisableKeyWellFormed DEF CallDisable
<1>5. ASSUME NEW b \in Backends, EnableBackend(b) PROVE KpInv'
  BY <1>0, <1>5, <1>a DEF EnableBackend, TypeOK
<1>6. ASSUME NEW t \in Times, FlushBegin(t) PROVE KpInv'
  <2>1. WellFormed(kp')
    BY <1>0, <1>6, DirtyWellFormed DEF FlushBegin
  <2>2. kp.dirty \in BOOLEAN
    BY <1>0 DEF Table
  <2>3. Rest
    BY <1>6, <1>d, <2>2 DEF FlushBegin, TypeOK
  <2> QED
    BY <2>1, <2>3, <1>a
<1>7. CASE SkipBackend
  BY <1>0, <1>7, <1>a, <1>c DEF SkipBackend, TypeOK
<1>8. CASE UpdateBackend
  <2>1. WellFormed(kp')
    BY <1>0, <1>8, KiUpdateWellFormed DEF UpdateBackend, TypeOK
  <2> QED
    BY <2>1, <1>8, <1>a DEF UpdateBackend, TypeOK
<1>9. ASSUME NEW i \in Ids(kp), UpdateFails(i) PROVE KpInv'
  <2>1. i - 1 \in Int /\ cur \in Backends
    BY <1>0, <1>9 DEF UpdateFails, TypeOK
  <2>2. WellFormed(kp')
    BY <1>0, <1>9, <2>1, KiUpdateWellFormed, DirtyWellFormed DEF UpdateFails
  <2> QED
    BY <2>2, <1>9, <1>a DEF UpdateFails, TypeOK
<1>10. CASE WriteBackend
  <2>1. cur \in Backends
    BY <1>10 DEF WriteBackend, TypeOK
  <2>2. store' \in [Backends -> [Slots -> Values \cup {NoValue}]]
    BY <1>10, <2>1, WrittenType DEF WriteBackend
  <2> QED
    BY <2>1, <2>2, <1>0, <1>10, <1>a, <1>c DEF WriteBackend, TypeOK
<1>11. ASSUME NEW n \in 0 .. Len(kp.infos), WriteFails(n) PROVE KpInv'
  <2>1. cur \in Backends
    BY <1>11 DEF WriteFails, TypeOK
  <2>2. store' \in [Backends -> [Slots -> Values \cup {NoValue}]]
    BY <1>11, <2>1, WrittenType DEF WriteFails
  <2> QED
    BY <2>2, <1>0, <1>11, <1>a DEF WriteFails, TypeOK
<1>12. CASE WriteCrashes
  BY <1>0, <1>12, <1>a DEF WriteCrashes, TypeOK
<1>13. CASE FlushEnd
  <2>1. WellFormed(kp')
    BY <1>0, <1>13, ResetDisableWellFormed DEF FlushEnd, TypeOK
  <2> QED
    BY <2>1, <1>13, <1>a DEF FlushEnd, TypeOK
<1>14. CASE ResolveBegin
  <2>1. WellFormed(kp')
    BY <1>0, <1>14, DirtyWellFormed DEF ResolveBegin
  <2> QED
    BY <2>1, <1>14, <1>a, <1>d DEF ResolveBegin, TypeOK
<1>15. CASE ResolveBackend
  <2>1. cur \in Backends
    BY <1>15 DEF ResolveBackend, TypeOK
  <2>2. WellFormed(kp')
    BY <2>1, <1>0, <1>15, KiUpdateWellFormed DEF ResolveBackend
  <2> QED
    BY <2>1, <2>2, <1>15, <1>a, <1>c DEF ResolveBackend, TypeOK
<1>16. ASSUME NEW i \in Ids(kp), ResolveFails(i) PROVE KpInv'
  <2>1. i - 1 \in Int /\ cur \in Backends
    BY <1>0, <1>16 DEF ResolveFails, TypeOK
  <2>2. WellFormed(kp')
    BY <1>0, <1>16, <2>1, KiUpdateWellFormed DEF ResolveFails
  <2> QED
    BY <2>2, <1>16, <1>a DEF ResolveFails, TypeOK
<1>17. CASE ResolveEnd
  BY <1>0, <1>17, <1>a DEF ResolveEnd, TypeOK
<1>18. CASE UNCHANGED vars
  BY <1>0, <1>18, <1>a DEF vars, TypeOK
<1> QED
  BY <1>1, <1>2, <1>3, <1>4, <1>5, <1>6, <1>7, <1>8, <1>9, <1>10, <1>11,
     <1>12, <1>13, <1>14, <1>15, <1>16, <1>17, <1>18 DEF Next

(* All variables of the key package keep their types, for any client, any  *)
(* set of backends and any number of keys.                                 *)
THEOREM TypeCorrect == Spec => []TypeOK
<1>1. KpInv => TypeOK
  BY DEF KpInv
<1> QED
  BY KpInvInit, KpInvStep, <1>1, PTL DEF Spec

(* timeseries_kp_enabled_size is exact in every state of every client.     *)
THEOREM CounterIsExact == Spec => []CounterExact
<1>1. KpInv => CounterExact
  BY DEF KpInv
<1> QED
  BY KpInvInit, KpInvStep, <1>1, PTL DEF Spec

(* timeseries_kp_get_key is exact in every state of every client, names    *)
(* that were added twice included.                                         *)
THEOREM LookupIsExact == Spec => []LookupExact
<1>1. KpInv => LookupExact
  BY DEF KpInv
<1> QED
  BY KpInvInit, KpInvStep, <1>1, PTL DEF Spec
-----------------------------------------------------------------------------
(* The careful client of tsk-proxy and timeseries-insert.                  *)

(* The client never disables a key itself, never forces a resolve and      *)
(* enables its backends before it creates the package ...                  *)
CarefulClient == Calls \cap {"disable", "resolve", "enable_backend"} = {}

(* ... and no backend whose flush may fail comes before a backend that     *)
(* still has keys to look up: a flush that gives up at the first clears    *)
(* `dirty' before the second has been asked.                               *)
FaultOrder == \A a \in MayFail, b \in Resolvers : ~(a < b)

Live == enabled \cap Resolvers
AllResolved(b) == \A i \in Ids(kp) : b \in kp.infos[i].resolved

(* Only a completed flush disables a key, so a disabled key is resolved;   *)
(* a flush in progress has resolved every key for the backends behind it;  *)
(* and `dirty', or the flush's copy of it, is clear only when all are.     *)
ResolutionInv ==
  /\ pc \in {"idle", "update", "write"}
  /\ \A b \in Live : \A i \in Ids(kp) :
       kp.infos[i].disabled => b \in kp.infos[i].resolved
  /\ pc = "update" => \A b \in Live : b < cur => AllResolved(b)
  /\ pc = "write" => \A b \in Live : b <= cur => AllResolved(b)
  /\ pc = "idle" /\ ~kp.dirty => \A b \in Live : AllResolved(b)
  /\ pc # "idle" /\ ~wasDirty => \A b \in Live : AllResolved(b)

(* An interrupted lookup only adds to what is resolved.                    *)
LEMMA ResolvedGrows ==
  ASSUME NEW t, WellFormed(t), NEW b \in Backends, NEW n \in Int
  PROVE  /\ WellFormed(KiUpdate(t, b, n)) /\ Ids(KiUpdate(t, b, n)) = Ids(t)
         /\ \A i \in Ids(t) :
              /\ KiUpdate(t, b, n).infos[i].disabled = t.infos[i].disabled
              /\ t.infos[i].resolved \subseteq KiUpdate(t, b, n).infos[i].resolved
<1> DEFINE u == KiUpdate(t, b, n)
<1>1. /\ WellFormed(u) /\ Ids(u) = Ids(t)
      /\ \A i \in Ids(t) :
           /\ u.infos[i].disabled = t.infos[i].disabled
           /\ u.infos[i].resolved =
                IF i <= n /\ i \in Unresolved(t, b)
                THEN t.infos[i].resolved \cup {b} ELSE t.infos[i].resolved
  BY KiUpdateWellFormed
<1> HIDE DEF u
<1>2. \A i \in Ids(t) : t.infos[i].resolved \subseteq u.infos[i].resolved
  BY <1>1
<1> QED
  BY <1>1, <1>2 DEF u

(* What the careful client's table operations do to the fields that        *)
(* ResolutionInv reads: a value may change, a key may be enabled.          *)
LEMMA TableUpdates ==
  ASSUME WellFormed(kp), NEW i \in Ids(kp)
  PROVE  /\ \A v \in Values :
              /\ Ids(SetValue(kp, i, v)) = Ids(kp)
              /\ SetValue(kp, i, v).dirty = kp.dirty
              /\ \A j \in Ids(kp) :
                   /\ SetValue(kp, i, v).infos[j].disabled = kp.infos[j].disabled
                   /\ SetValue(kp, i, v).infos[j].resolved = kp.infos[j].resolved
         /\ /\ Ids(EnableKey(kp, i)) = Ids(kp)
            /\ EnableKey(kp, i).dirty = kp.dirty
            /\ \A j \in Ids(kp) :
                 /\ EnableKey(kp, i).infos[j].disabled => kp.infos[j].disabled
                 /\ EnableKey(kp, i).infos[j].resolved = kp.infos[j].resolved
<1>1. kp \in Table /\ Ids(kp) = 1 .. Len(kp.infos) /\ kp.infos \in Seq(KeyInfo)
  BY DEF WellFormed, Table, Ids
<1>2. ASSUME NEW j \in Ids(kp) PROVE kp.infos[j] \in KeyInfo
  BY <1>1, TableIds
<1>3. ASSUME NEW v \in Values
      PROVE  /\ Ids(SetValue(kp, i, v)) = Ids(kp)
             /\ SetValue(kp, i, v).dirty = kp.dirty
             /\ \A j \in Ids(kp) :
                  /\ SetValue(kp, i, v).infos[j].disabled = kp.infos[j].disabled
                  /\ SetValue(kp, i, v).infos[j].resolved = kp.infos[j].resolved
  <2> DEFINE ki == [kp.infos[i] EXCEPT !.value = v]
             s == [kp.infos EXCEPT ![i] = ki]
  <2>1. /\ ki \in KeyInfo /\ ki.disabled = kp.infos[i].disabled
        /\ ki.resolved = kp.infos[i].resolved
    BY <1>2 DEF KeyInfo
  <2>2. SetValue(kp, i, v).infos = s /\ SetValue(kp, i, v).dirty = kp.dirty
    BY <1>1 DEF SetValue, Table
  <2>3. /\ Len(s) = Len(kp.infos)
        /\ \A j \in Ids(kp) : s[j] = IF j = i THEN ki ELSE kp.infos[j]
    BY <1>1, <2>1, ExceptSeq
  <2> HIDE DEF ki, s
  <2> QED
    BY <2>1, <2>2, <2>3 DEF Ids
<1>4. /\ Ids(EnableKey(kp, i)) = Ids(kp)
      /\ EnableKey(kp, i).dirty = kp.dirty
      /\ \A j \in Ids(kp) :
           /\ EnableKey(kp, i).infos[j].disabled => kp.infos[j].disabled
           /\ EnableKey(kp, i).infos[j].resolved = kp.infos[j].resolved
  <2>0. CASE ~kp.infos[i].disabled
    BY <2>0 DEF EnableKey
  <2>1. CASE kp.infos[i].disabled
    <3> DEFINE ki == [kp.infos[i] EXCEPT !.disabled = FALSE]
               s == [kp.infos EXCEPT ![i] = ki]
    <3>1. ki \in KeyInfo /\ ki.resolved = kp.infos[i].resolved
      BY <1>2 DEF KeyInfo
    <3>2. EnableKey(kp, i).infos = s /\ EnableKey(kp, i).dirty = kp.dirty
      BY <2>1, <1>1 DEF EnableKey, Table
    <3>3. /\ Len(s) = Len(kp.infos)
          /\ \A j \in Ids(kp) : s[j] = IF j = i THEN ki ELSE kp.infos[j]
      BY <1>1, <3>1, ExceptSeq
    <3> HIDE DEF ki, s
    <3> QED
      BY <2>1, <3>1, <3>2, <3>3 DEF Ids
  <2> QED
    BY <2>0, <2>1
<1> QED
  BY <1>3, <1>4

(* kp_reset_disable leaves the per-key state of the backends alone.        *)
LEMMA ResetDisableKeeps ==
  ASSUME WellFormed(kp), NEW fl
  PROVE  /\ Ids(ResetDisable(kp, fl)) = Ids(kp)
         /\ ResetDisable(kp, fl).dirty = kp.dirty
         /\ \A j \in Ids(kp) :
              ResetDisable(kp, fl).infos[j].resolved = kp.infos[j].resolved
<1> DEFINE ki(i) == [kp.infos[i] EXCEPT
                       !.value = IF "RESET" \in fl THEN 0
                                 ELSE kp.infos[i].value,
                       !.disabled = kp.infos[i].disabled \/ "DISABLE" \in fl]
           s == [i \in Ids(kp) |-> ki(i)]
<1>1. kp \in Table /\ Len(kp.infos) \in Nat /\ Ids(kp) = 1 .. Len(kp.infos)
  BY TableIds DEF WellFormed, Ids
<1>2. ResetDisable(kp, fl).infos = s /\ ResetDisable(kp, fl).dirty = kp.dirty
  BY <1>1 DEF ResetDisable, Table
<1>3. ASSUME NEW i \in Ids(kp) PROVE ki(i).resolved = kp.infos[i].resolved
  BY <1>1, TableIds DEF KeyInfo
<1> HIDE DEF ki
<1>4. Len(s) = Len(kp.infos)
  <2>1. s \in [1 .. Len(kp.infos) -> {ki(i) : i \in Ids(kp)}]
    BY <1>1
  <2> QED
    BY <2>1, <1>1, FunctionIsSeq
<1> QED
  BY <1>1, <1>2, <1>3, <1>4 DEF Ids

(* A fresh package has no keys.                                            *)
LEMMA ResolutionInit == Init => ResolutionInv
<1>1. Ids(EmptyTable) = {}
  BY EmptySeq DEF EmptyTable, Ids
<1> QED
  BY <1>1 DEF Init, ResolutionInv, AllResolved

(* One step for each action of the careful client.                         *)
LEMMA ResolutionStep ==
  ASSUME CarefulClient, FaultOrder
  PROVE  KpInv /\ ResolutionInv /\ [Next]_vars => ResolutionInv'
<1> SUFFICES ASSUME KpInv, ResolutionInv, [Next]_vars PROVE ResolutionInv'
  OBVIOUS
<1> USE DEF AllResolved, Live
<1>0. WellFormed(kp) /\ kp \in Table /\ Ids(kp) = 1 .. Len(kp.infos)
      /\ Ids(kp) \subseteq Nat /\ Len(kp.infos) \in Nat
  BY KpInvWellFormed, TableIds DEF WellFormed, Ids
<1>1. ASSUME NEW k \in Keys, CallAddKey(k) PROVE ResolutionInv'
  <2> DEFINE ki == FreshInfo(k)
  <2>1. /\ kp'.infos = Append(kp.infos, ki) /\ kp'.dirty = TRUE
        /\ pc = "idle" /\ pc' = pc /\ enabled' = enabled
    BY <1>1 DEF CallAddKey, Client, AddKey
  <2>2. ki \in KeyInfo /\ kp.infos \in Seq(KeyInfo)
    BY <1>0, ValuesAssumption DEF KeyInfo, Table, FreshInfo
  <2>3. /\ Ids(kp') = Ids(kp) \cup {Len(kp.infos) + 1}
        /\ \A j \in Ids(kp) : kp'.infos[j] = kp.infos[j]
        /\ ~kp'.infos[Len(kp.infos) + 1].disabled
    BY <1>0, <2>1, <2>2, AppendProperties DEF Ids, FreshInfo
  <2> QED
    BY <2>1, <2>3 DEF ResolutionInv
<1>2. ASSUME NEW i \in Ids(kp), NEW v \in Values, CallSet(i, v)
      PROVE  ResolutionInv'
  <2>1. /\ Ids(kp') = Ids(kp) /\ kp'.dirty = kp.dirty
        /\ \A j \in Ids(kp) : /\ kp'.infos[j].disabled = kp.infos[j].disabled
                              /\ kp'.infos[j].resolved = kp.infos[j].resolved
    BY <1>0, <1>2, TableUpdates DEF CallSet, Client
  <2>2. UNCHANGED <<pc, enabled, cur, wasDirty>>
    BY <1>2 DEF CallSet, Client
  <2> QED
    BY <2>1, <2>2 DEF ResolutionInv
<1>3. ASSUME NEW i \in Ids(kp), CallEnable(i) PROVE ResolutionInv'
  <2>1. /\ Ids(kp') = Ids(kp) /\ kp'.dirty = kp.dirty
        /\ \A j \in Ids(kp) : /\ kp'.infos[j].disabled => kp.infos[j].disabled
                              /\ kp'.infos[j].resolved = kp.infos[j].resolved
    BY <1>0, <1>3, TableUpdates DEF CallEnable, Client
  <2>2. UNCHANGED <<pc, enabled, cur, wasDirty>>
    BY <1>3 DEF CallEnable, Client
  <2> QED
    BY <2>1, <2>2 DEF ResolutionInv
<1>4. ASSUME NEW t \in Times, FlushBegin(t) PROVE ResolutionInv'
  <2>1. /\ kp'.infos = kp.infos /\ wasDirty' = kp.dirty /\ cur' = 1
        /\ pc = "idle" /\ pc' = "update" /\ enabled' = enabled
    BY <1>0, <1>4 DEF FlushBegin, Table
  <2>2. \A b \in Live : ~(b < 1)
    BY DEF KpInv, TypeOK, Backends
  <2> QED
    BY <2>1, <2>2 DEF ResolutionInv, Ids
<1>5. CASE SkipBackend
  <2>1. /\ UNCHANGED <<kp, pc, enabled, wasDirty>> /\ cur' = cur + 1
        /\ pc = "update" /\ cur \notin enabled /\ cur \in Int
    BY <1>5 DEF SkipBackend, ResolutionInv, Backends
  <2>2. \A b \in Live : b < cur + 1 => b < cur
    BY <2>1 DEF KpInv, TypeOK, Backends
  <2> QED
    BY <2>1, <2>2 DEF ResolutionInv
<1>6. CASE UpdateBackend
  <2>1. /\ UNCHANGED <<enabled, wasDirty, cur>> /\ pc = "update" /\ pc' = "write"
        /\ cur \in enabled
    BY <1>6 DEF UpdateBackend
  <2>2. cur \in Backends /\ \A b \in Live : b \in Int /\ cur \in Int
    BY <2>1 DEF KpInv, TypeOK, Backends
  <2>3. \A b \in Live : b <= cur => b < cur \/ b = cur
    BY <2>2
  <2>4. CASE wasDirty /\ cur \in Resolvers
    <3>1. kp' = KiUpdate(kp, cur, Len(kp.infos))
      BY <1>6, <2>4 DEF UpdateBackend
    <3>2. /\ Ids(kp') = Ids(kp)
          /\ \A j \in Ids(kp) :
               /\ kp'.infos[j].disabled = kp.infos[j].disabled
               /\ kp'.infos[j].resolved =
                    IF j <= Len(kp.infos) /\ j \in Unresolved(kp, cur)
                    THEN kp.infos[j].resolved \cup {cur}
                    ELSE kp.infos[j].resolved
      <4> DEFINE kq == KiUpdate(kp, cur, Len(kp.infos))
      <4>1. /\ Ids(kq) = Ids(kp)
            /\ \A j \in Ids(kp) :
                 /\ kq.infos[j].disabled = kp.infos[j].disabled
                 /\ kq.infos[j].resolved =
                      IF j <= Len(kp.infos) /\ j \in Unresolved(kp, cur)
                      THEN kp.infos[j].resolved \cup {cur}
                      ELSE kp.infos[j].resolved
        <5>1. Len(kp.infos) \in Int
          BY <1>0
        <5> QED
          BY <5>1, <2>2, <1>0, KiUpdateWellFormed
      <4> HIDE DEF kq
      <4>2. kp' = kq
        BY <3>1 DEF kq
      <4> QED
        BY <4>1, <4>2
    <3>3. \A j \in Ids(kp) : cur \in kp'.infos[j].resolved
      <4> TAKE j \in Ids(kp)
      <4>1. j <= Len(kp.infos)
        BY <1>0
      <4>2. CASE j \in Unresolved(kp, cur)
        BY <4>1, <4>2, <3>2
      <4>3. CASE j \notin Unresolved(kp, cur)
        <5>1. kp.infos[j].disabled \/ cur \in kp.infos[j].resolved
          BY <4>3 DEF Unresolved, EnabledIds
        <5>2. cur \in kp.infos[j].resolved
          BY <5>1, <2>1, <2>4 DEF ResolutionInv
        <5> QED
          BY <5>2, <4>3, <3>2
      <4> QED
        BY <4>2, <4>3
    <3>4. \A b \in Live : \A j \in Ids(kp) :
            b \in kp.infos[j].resolved => b \in kp'.infos[j].resolved
      BY <3>2
    <3>5. \A b \in Live : \A j \in Ids(kp') :
            kp'.infos[j].disabled => b \in kp'.infos[j].resolved
      BY <3>2, <3>4 DEF ResolutionInv
    <3>6. \A b \in Live : b <= cur =>
            \A j \in Ids(kp') : b \in kp'.infos[j].resolved
      BY <2>1, <2>3, <3>2, <3>3, <3>4 DEF ResolutionInv
    <3> QED
      BY <2>1, <2>4, <3>5, <3>6 DEF ResolutionInv
  <2>5. CASE ~(wasDirty /\ cur \in Resolvers)
    <3>1. kp' = kp
      BY <1>6, <2>5 DEF UpdateBackend
    <3> QED
      BY <3>1, <2>1, <2>3, <2>5 DEF ResolutionInv
  <2> QED
    BY <2>4, <2>5
<1>7. ASSUME NEW i \in Ids(kp), UpdateFails(i) PROVE ResolutionInv'
  <2> DEFINE kq == KiUpdate(kp, cur, i - 1)
  <2>1. i - 1 \in Int /\ cur \in Backends
    BY <1>0, <1>7 DEF UpdateFails, KpInv, TypeOK
  <2>2. /\ WellFormed(kq) /\ Ids(kq) = Ids(kp)
        /\ \A j \in Ids(kp) :
             /\ kq.infos[j].disabled = kp.infos[j].disabled
             /\ kp.infos[j].resolved \subseteq kq.infos[j].resolved
    BY <1>0, <2>1, ResolvedGrows
  <2> HIDE DEF kq
  <2>3. kp'.infos = kq.infos /\ kp'.dirty = TRUE /\ pc' = "idle"
        /\ enabled' = enabled
    BY <1>7, <2>2 DEF UpdateFails, WellFormed, Table, kq
  <2> QED
    BY <2>2, <2>3 DEF ResolutionInv, Ids
<1>8. CASE WriteBackend
  <2>1. /\ UNCHANGED <<kp, enabled, wasDirty>> /\ pc = "write" /\ pc' = "update"
        /\ cur' = cur + 1
    BY <1>8 DEF WriteBackend
  <2>2. \A b \in Live : b < cur + 1 => b <= cur
    BY DEF KpInv, TypeOK, Backends
  <2> QED
    BY <2>1, <2>2 DEF ResolutionInv
<1>9. ASSUME NEW n \in 0 .. Len(kp.infos), WriteFails(n) PROVE ResolutionInv'
  <2>1. /\ UNCHANGED <<kp, enabled>> /\ pc = "write" /\ pc' = "idle"
        /\ cur \in MayFail
    BY <1>9 DEF WriteFails
  <2>2. \A b \in Live : b <= cur
    BY <2>1, KeyPackageAssumption DEF FaultOrder, KpInv, TypeOK, Backends
  <2> QED
    BY <2>1, <2>2 DEF ResolutionInv
<1>10. CASE WriteCrashes
  <2>1. pc = "write" /\ cur \in Resolvers /\ Unresolved(kp, cur) # {}
    BY <1>10 DEF WriteCrashes, NullState
  <2>2. cur \in Live /\ cur \in Int
    BY <2>1 DEF KpInv, TypeOK, Backends
  <2>3. AllResolved(cur)
    BY <2>1, <2>2 DEF ResolutionInv
  <2> QED
    BY <2>1, <2>3 DEF Unresolved, EnabledIds
<1>11. CASE FlushEnd
  <2>1. /\ kp' = ResetDisable(kp, flags) /\ pc = "update" /\ pc' = "idle"
        /\ cur > LastId /\ enabled' = enabled
    BY <1>11 DEF FlushEnd
  <2>2. /\ Ids(kp') = Ids(kp)
        /\ \A j \in Ids(kp) : kp'.infos[j].resolved = kp.infos[j].resolved
    BY <1>0, <2>1, ResetDisableKeeps
  <2>3. \A b \in Live : b < cur
    BY <2>1, LastIdAssumption DEF KpInv, TypeOK, Backends
  <2>4. \A b \in Live : AllResolved(b)
    BY <2>1, <2>3 DEF ResolutionInv
  <2> QED
    BY <2>1, <2>2, <2>4 DEF ResolutionInv
<1>12. CASE UNCHANGED vars
  BY <1>12 DEF vars, ResolutionInv
<1>13. ASSUME NEW i \in Ids(kp), CallDisable(i) PROVE FALSE
  BY <1>13 DEF CallDisable, CarefulClient
<1>14. ASSUME NEW b \in Backends, EnableBackend(b) PROVE FALSE
  BY <1>14 DEF EnableBackend, CarefulClient
<1>15. ~ResolveBegin /\ ~ResolveBackend /\ ~ResolveEnd
       /\ \A i \in Ids(kp) : ~ResolveFails(i)
  BY DEF ResolveBegin, ResolveBackend, ResolveEnd, ResolveFails, CarefulClient,
         ResolutionInv
<1> QED
  BY <1>1, <1>2, <1>3, <1>4, <1>5, <1>6, <1>7, <1>8, <1>9, <1>10, <1>11,
     <1>12, <1>13, <1>14, <1>15 DEF Next

(* For a careful client, with the fallible backends behind the resolving   *)
(* ones, no sequence of failed and repeated flushes, additions and         *)
(* re-enabled keys makes the DBATS backend dereference a missing key id.   *)
THEOREM CarefulClientSafe ==
  ASSUME CarefulClient, FaultOrder
  PROVE  Spec => []NoCrash
<1>1. ResolutionInv => NoCrash
  BY DEF ResolutionInv, NoCrash
<1>2. KpInv /\ ResolutionInv /\ [Next]_vars => (KpInv /\ ResolutionInv)'
  BY KpInvStep, ResolutionStep
<1> QED
  BY KpInvInit, ResolutionInit, <1>1, <1>2, PTL DEF Spec

(* For the same client `dirty' is clear between calls only when every      *)
(* enabled key has been looked up by every enabled resolving backend.      *)
THEOREM CleanIsResolved ==
  ASSUME CarefulClient, FaultOrder
  PROVE  Spec => []CleanMeansResolved
<1>1. ResolutionInv => CleanMeansResolved
  BY DEF ResolutionInv, CleanMeansResolved, Live, AllResolved, Unresolved,
         EnabledIds
<1>2. KpInv /\ ResolutionInv /\ [Next]_vars => (KpInv /\ ResolutionInv)'
  BY KpInvStep, ResolutionStep
<1> QED
  BY KpInvInit, ResolutionInit, <1>1, <1>2, PTL DEF Spec

-----------------------------------------------------------------------------
(* The package implements the point table, for a client that adds no name  *)
(* twice.                                                                  *)

(* The rows of a table.                                                    *)
RowOf(t, k) ==
  IF t.hash[k] = NoId THEN [value |-> NoValue, on |-> FALSE]
  ELSE [value |-> t.infos[t.hash[k]].value, on |-> t.hash[k] \in EnabledIds(t)]
Rows(t) == [k \in Keys |-> RowOf(t, k)]

Unique(t) == \A i \in Ids(t) : t.hash[t.infos[i].key] = i

(* What the abstract table is, before and after a step.                    *)
Seen == [k \in Keys |-> Row(k)]

LEMMA RowsRead ==
  ASSUME NEW t, WellFormed(t)
  PROVE  [k \in Keys |->
            IF t.hash[k] = NoId THEN [value |-> NoValue, on |-> FALSE]
            ELSE [value |-> t.infos[t.hash[k]].value,
                  on |-> ~t.infos[t.hash[k]].disabled]] = Rows(t)
<1>1. ASSUME NEW k \in Keys, t.hash[k] # NoId
      PROVE  (t.hash[k] \in EnabledIds(t)) = ~t.infos[t.hash[k]].disabled
  <2>1. t.hash[k] \in Ids(t)
    BY <1>1 DEF WellFormed, LookupSound
  <2>2. t.infos[t.hash[k]].disabled \in BOOLEAN
    BY <2>1, TableIds DEF WellFormed, KeyInfo
  <2> QED
    BY <2>1, <2>2 DEF EnabledIds
<1> QED
  BY <1>1 DEF Rows, RowOf

LEMMA SeenNow == WellFormed(kp) => Seen = Rows(kp)
BY RowsRead DEF Seen, Row, GetKey

LEMMA SeenNext == WellFormed(kp') => Seen' = Rows(kp')
BY RowsRead DEF Seen, Row, GetKey

(* A name is in the table if and only if it has an info, whose value can   *)
(* be told from that of a name that has none.                              *)
LEMMA RowPresent ==
  ASSUME NEW t, WellFormed(t), NEW k \in Keys, t.hash[k] # NoId
  PROVE  /\ t.hash[k] \in Ids(t) /\ t.infos[t.hash[k]].key = k
         /\ Rows(t)[k] = [value |-> t.infos[t.hash[k]].value,
                          on |-> t.hash[k] \in EnabledIds(t)]
         /\ Rows(t)[k].value = t.infos[t.hash[k]].value
         /\ Rows(t)[k].value # NoValue
         /\ Rows(t)[k].on = (t.hash[k] \in EnabledIds(t))
<1>1. t.hash[k] \in Ids(t) /\ t.infos[t.hash[k]].key = k
  BY DEF WellFormed, LookupSound
<1>2. t.infos[t.hash[k]].value \in Values
  BY <1>1, TableIds DEF WellFormed, KeyInfo
<1>3. Rows(t)[k] = [value |-> t.infos[t.hash[k]].value,
                    on |-> t.hash[k] \in EnabledIds(t)]
  BY DEF Rows, RowOf
<1>4. Rows(t)[k].on = (t.hash[k] \in EnabledIds(t))
  BY <1>3
<1> QED
  BY <1>1, <1>2, <1>3, <1>4, KeyPackageAssumption

(* The name of an info is in the table.                                    *)
LEMMA InfoPresent ==
  ASSUME NEW t, WellFormed(t), Unique(t), NEW i \in Ids(t)
  PROVE  /\ t.infos[i].key \in Keys /\ t.hash[t.infos[i].key] = i
         /\ i # NoId
<1>1. t.infos[i].key \in Keys /\ i \in Nat \ {0}
  BY TableIds DEF WellFormed, KeyInfo
<1> QED
  BY <1>1 DEF Unique, NoId

(* The row of an info.                                                     *)
LEMMA InfoRow ==
  ASSUME NEW t, WellFormed(t), Unique(t), NEW i \in Ids(t)
  PROVE  /\ Rows(t)[t.infos[i].key].value = t.infos[i].value
         /\ Rows(t)[t.infos[i].key].on = (i \in EnabledIds(t))
<1> DEFINE k == t.infos[i].key
<1>1. k \in Keys /\ t.hash[k] = i /\ i # NoId
  BY InfoPresent
<1> HIDE DEF k
<1>2. /\ Rows(t)[k].value = t.infos[t.hash[k]].value
      /\ Rows(t)[k].on = (t.hash[k] \in EnabledIds(t))
  BY <1>1, RowPresent
<1> QED
  BY <1>1, <1>2 DEF k

(* Backends' states are no part of a row.                                  *)
LEMMA SameRows ==
  ASSUME NEW t, NEW u, WellFormed(t), SamePoints(t, u)
  PROVE  Rows(u) = Rows(t) /\ (Unique(t) => Unique(u))
<1>1. \A k \in Keys : t.hash[k] # NoId => t.hash[k] \in Ids(t)
  BY DEF WellFormed, LookupSound
<1>2. \A k \in Keys : RowOf(u, k) = RowOf(t, k)
  BY <1>1 DEF RowOf, SamePoints
<1> QED
  BY <1>2 DEF Rows, Unique, SamePoints

(* timeseries_kp_add_key for a new name.                                   *)
LEMMA RowsAdd ==
  ASSUME NEW t, WellFormed(t), Unique(t), NEW k \in Keys, t.hash[k] = NoId
  PROVE  /\ Unique(AddKey(t, k))
         /\ Rows(AddKey(t, k)) = [Rows(t) EXCEPT ![k] = [value |-> 0, on |-> TRUE]]
<1> DEFINE u == AddKey(t, k)
           n == Len(t.infos) + 1
<1>1. /\ n \in Nat /\ n \notin Ids(t) /\ n # NoId
      /\ Ids(u) = Ids(t) \cup {n} /\ EnabledIds(u) = EnabledIds(t) \cup {n}
      /\ u.hash = [t.hash EXCEPT ![k] = n] /\ u.infos[n] = FreshInfo(k)
      /\ \A i \in Ids(t) : u.infos[i] = t.infos[i]
  <2>1. Len(t.infos) \in Nat
    BY TableIds DEF WellFormed
  <2> QED
    BY <2>1, AddKeyEffect DEF NoId
<1>2. t.hash \in [Keys -> Nat]
  BY DEF WellFormed, Table
<1> HIDE DEF u, n
<1>3. u.hash[k] = n /\ \A j \in Keys \ {k} : u.hash[j] = t.hash[j]
  BY <1>1, <1>2
<1>4. RowOf(u, k) = [value |-> 0, on |-> TRUE]
  <2>1. u.hash[k] # NoId /\ n \in EnabledIds(u) /\ u.infos[n].value = 0
    BY <1>1, <1>3 DEF FreshInfo
  <2> QED
    BY <1>3, <2>1 DEF RowOf
<1>5. ASSUME NEW j \in Keys \ {k} PROVE RowOf(u, j) = RowOf(t, j)
  <2>1. CASE t.hash[j] = NoId
    BY <1>3, <2>1 DEF RowOf
  <2>2. CASE t.hash[j] # NoId
    <3>1. t.hash[j] \in Ids(t)
      BY <2>2 DEF WellFormed, LookupSound
    <3> QED
      BY <1>1, <1>3, <2>2, <3>1 DEF RowOf
  <2> QED
    BY <2>1, <2>2
<1>6. Rows(u) = [Rows(t) EXCEPT ![k] = [value |-> 0, on |-> TRUE]]
  BY <1>4, <1>5 DEF Rows
<1>7. Unique(u)
  <2> SUFFICES ASSUME NEW i \in Ids(u) PROVE u.hash[u.infos[i].key] = i
    BY DEF Unique
  <2>1. CASE i = n
    BY <1>1, <1>3, <2>1 DEF FreshInfo
  <2>2. CASE i \in Ids(t)
    <3>1. /\ t.infos[i].key \in Keys /\ t.hash[t.infos[i].key] = i /\ i # NoId
      BY <2>2, InfoPresent
    <3>2. t.infos[i].key # k
      BY <3>1
    <3> QED
      BY <1>1, <1>3, <2>2, <3>1, <3>2
  <2> QED
    BY <1>1, <2>1, <2>2
<1> QED
  BY <1>6, <1>7 DEF u

(* timeseries_kp_set.                                                      *)
OneRowSet(r, q, k, v) ==
  /\ \A j \in Keys \ {k} : q[j] = r[j]
  /\ q[k].value = v /\ q[k].on = r[k].on

LEMMA RowsSet ==
  ASSUME NEW t, WellFormed(t), Unique(t), NEW i \in Ids(t), NEW v \in Values
  PROVE  /\ Unique(SetValue(t, i, v))
         /\ Rows(SetValue(t, i, v)) =
              [Rows(t) EXCEPT ![t.infos[i].key].value = v]
         /\ OneRowSet(Rows(t), Rows(SetValue(t, i, v)), t.infos[i].key, v)
<1> DEFINE u == SetValue(t, i, v)
           k == t.infos[i].key
<1>1. /\ u.hash = t.hash /\ Ids(u) = Ids(t) /\ EnabledIds(u) = EnabledIds(t)
      /\ \A j \in Ids(t) : /\ u.infos[j].key = t.infos[j].key
                           /\ u.infos[j].value = IF j = i THEN v ELSE t.infos[j].value
  BY SetValueEffect
<1>2. k \in Keys /\ t.hash[k] = i /\ i # NoId
  BY InfoPresent
<1> HIDE DEF u, k
<1>3. RowOf(u, k) = [RowOf(t, k) EXCEPT !.value = v]
  BY <1>1, <1>2 DEF RowOf
<1>4. ASSUME NEW j \in Keys \ {k} PROVE RowOf(u, j) = RowOf(t, j)
  <2>1. CASE t.hash[j] = NoId
    BY <1>1, <2>1 DEF RowOf
  <2>2. CASE t.hash[j] # NoId
    <3>1. t.hash[j] \in Ids(t) /\ t.infos[t.hash[j]].key = j
      BY <2>2, RowPresent
    <3>2. t.hash[j] # i
      BY <3>1 DEF k
    <3> QED
      BY <1>1, <2>2, <3>1, <3>2 DEF RowOf
  <2> QED
    BY <2>1, <2>2
<1>5. Rows(u) = [Rows(t) EXCEPT ![k].value = v]
  BY <1>2, <1>3, <1>4 DEF Rows
<1>6. Unique(u)
  BY <1>1 DEF Unique
<1>7. /\ \A j \in Keys \ {k} : Rows(u)[j] = Rows(t)[j]
      /\ Rows(u)[k] = [Rows(t)[k] EXCEPT !.value = v]
  BY <1>2, <1>3, <1>4 DEF Rows
<1>8. Rows(u)[k].value = v /\ Rows(u)[k].on = Rows(t)[k].on
  BY <1>2, <1>7 DEF Rows, RowOf
<1> QED
  BY <1>5, <1>6, <1>7, <1>8 DEF u, k, OneRowSet

(* timeseries_kp_enable_key and _disable_key.                              *)
Switched(t, u, i, on) ==
  /\ u.hash = t.hash /\ Ids(u) = Ids(t)
  /\ EnabledIds(u) = IF on THEN EnabledIds(t) \cup {i} ELSE EnabledIds(t) \ {i}
  /\ \A j \in Ids(t) : /\ u.infos[j].key = t.infos[j].key
                       /\ u.infos[j].value = t.infos[j].value

RowsSwitched(t, u, i, on) ==
  Unique(u) /\ Rows(u) = [Rows(t) EXCEPT ![t.infos[i].key].on = on]

LEMMA RowsSwitch ==
  ASSUME NEW t, WellFormed(t), Unique(t), NEW i \in Ids(t), NEW u,
         NEW on \in BOOLEAN, Switched(t, u, i, on)
  PROVE  RowsSwitched(t, u, i, on)
<1> USE DEF Switched
<1> DEFINE k == t.infos[i].key
<1>1. k \in Keys /\ t.hash[k] = i /\ i # NoId
  BY InfoPresent
<1>2. (i \in EnabledIds(u)) = on
  OBVIOUS
<1>3. RowOf(u, k) = [RowOf(t, k) EXCEPT !.on = on]
  <2>1. /\ RowOf(u, k) = [value |-> u.infos[i].value, on |-> i \in EnabledIds(u)]
        /\ RowOf(t, k) = [value |-> t.infos[i].value, on |-> i \in EnabledIds(t)]
    BY <1>1 DEF RowOf
  <2> QED
    BY <1>2, <2>1
<1>4. ASSUME NEW j \in Keys \ {k} PROVE RowOf(u, j) = RowOf(t, j)
  <2>1. CASE t.hash[j] = NoId
    BY <2>1 DEF RowOf
  <2>2. CASE t.hash[j] # NoId
    <3>1. t.hash[j] \in Ids(t) /\ t.infos[t.hash[j]].key = j
      BY <2>2 DEF WellFormed, LookupSound
    <3>2. t.hash[j] # i
      BY <3>1
    <3> DEFINE m == t.hash[j]
    <3>3. (m \in EnabledIds(u)) = (m \in EnabledIds(t))
      BY <3>2
    <3>4. u.infos[m].value = t.infos[m].value /\ u.hash[j] = m /\ m # NoId
      BY <2>2, <3>1
    <3> HIDE DEF m
    <3>5. /\ RowOf(u, j) = [value |-> u.infos[m].value, on |-> m \in EnabledIds(u)]
          /\ RowOf(t, j) = [value |-> t.infos[m].value, on |-> m \in EnabledIds(t)]
      BY <3>4 DEF RowOf, m
    <3> QED
      BY <3>3, <3>4, <3>5
  <2> QED
    BY <2>1, <2>2
<1> HIDE DEF k
<1>5. Rows(u) = [Rows(t) EXCEPT ![k].on = on]
  BY <1>1, <1>3, <1>4 DEF Rows
<1>6. Unique(u)
  BY DEF Unique
<1> QED
  BY <1>5, <1>6 DEF k, RowsSwitched

(* kp_reset_disable.                                                       *)
RowsAfter(r, fl) ==
  [k \in Keys |->
     IF r[k] = [value |-> NoValue, on |-> FALSE]
     THEN [value |-> NoValue, on |-> FALSE]
     ELSE [value |-> IF "RESET" \in fl THEN 0 ELSE r[k].value,
           on |-> r[k].on /\ "DISABLE" \notin fl]]

LEMMA RowsReset ==
  ASSUME NEW t, WellFormed(t), Unique(t), NEW fl \in SUBSET FlagSet
  PROVE  /\ Unique(ResetDisable(t, fl))
         /\ Rows(ResetDisable(t, fl)) = RowsAfter(Rows(t), fl)
<1> DEFINE u == ResetDisable(t, fl)
<1>1. /\ u.hash = t.hash /\ Ids(u) = Ids(t)
      /\ \A i \in Ids(t) :
           /\ u.infos[i].key = t.infos[i].key
           /\ u.infos[i].value = IF "RESET" \in fl THEN 0 ELSE t.infos[i].value
      /\ EnabledIds(u) = IF "DISABLE" \in fl THEN {} ELSE EnabledIds(t)
  BY ResetDisableEffect
<1> HIDE DEF u
<1>2. ASSUME NEW k \in Keys
      PROVE  RowOf(u, k) =
               IF Rows(t)[k] = [value |-> NoValue, on |-> FALSE]
               THEN [value |-> NoValue, on |-> FALSE]
               ELSE [value |-> IF "RESET" \in fl THEN 0 ELSE Rows(t)[k].value,
                     on |-> Rows(t)[k].on /\ "DISABLE" \notin fl]
  <2>1. CASE t.hash[k] = NoId
    BY <1>1, <2>1 DEF Rows, RowOf
  <2>2. CASE t.hash[k] # NoId
    <3>1. /\ t.hash[k] \in Ids(t)
          /\ Rows(t)[k] = [value |-> t.infos[t.hash[k]].value,
                           on |-> t.hash[k] \in EnabledIds(t)]
          /\ Rows(t)[k].value # NoValue
      BY <2>2, RowPresent
    <3>2. Rows(t)[k] # [value |-> NoValue, on |-> FALSE]
      BY <3>1
    <3>3. RowOf(u, k) = [value |-> u.infos[t.hash[k]].value,
                         on |-> t.hash[k] \in EnabledIds(u)]
      BY <1>1, <2>2 DEF RowOf
    <3>4. u.infos[t.hash[k]].value = IF "RESET" \in fl THEN 0 ELSE Rows(t)[k].value
      BY <1>1, <3>1
    <3>5. Rows(t)[k].on = (t.hash[k] \in EnabledIds(t))
      BY <2>2, RowPresent
    <3>6. (t.hash[k] \in EnabledIds(u)) = (Rows(t)[k].on /\ "DISABLE" \notin fl)
      <4>1. CASE "DISABLE" \in fl
        <5>1. t.hash[k] \notin EnabledIds(u)
          BY <1>1, <4>1
        <5> QED
          BY <4>1, <5>1
      <4>2. CASE "DISABLE" \notin fl
        <5>1. EnabledIds(u) = EnabledIds(t)
          BY <1>1, <4>2
        <5>2. Rows(t)[k].on \in BOOLEAN
          BY <3>5
        <5> QED
          BY <3>5, <4>2, <5>1, <5>2
      <4> QED
        BY <4>1, <4>2
    <3> QED
      BY <3>2, <3>3, <3>4, <3>6
  <2> QED
    BY <2>1, <2>2
<1>3. Unique(u)
  BY <1>1 DEF Unique
<1>4. Rows(u) = RowsAfter(Rows(t), fl)
  BY <1>2 DEF Rows, RowsAfter
<1> QED
  BY <1>3, <1>4 DEF u

-----------------------------------------------------------------------------
(* What a flush in progress has written.                                   *)

(* Backend b holds the point of every enabled info.                        *)
Delivered(b) ==
  \A i \in EnabledIds(kp) :
    store[b][<<ftime, kp.infos[i].key>>] = kp.infos[i].value

(* No name has two infos, and the backends behind a flush hold its points. *)
RowsInv ==
  /\ Unique(kp)
  /\ pc \in {"update", "write"} => \A b \in enabled : b < cur => Delivered(b)

(* What is written for a name is the value of its row, if the row is on.   *)
LEMMA WriterIsRow ==
  ASSUME NEW t, WellFormed(t), Unique(t), NEW k \in Keys, NEW n,
         Writers(t, k, n) # {}
  PROVE  Rows(t)[k].on /\ WrittenValue(t, k, n) = Rows(t)[k].value
<1>1. PICK i \in Writers(t, k, n) : WrittenValue(t, k, n) = t.infos[i].value
  BY WrittenValueSource DEF WellFormed
<1>2. i \in EnabledIds(t) /\ i \in Ids(t) /\ t.infos[i].key = k
  BY <1>1 DEF Writers, EnabledIds
<1>3. t.hash[k] = i /\ t.hash[k] # NoId
  BY <1>2, InfoPresent
<1>4. /\ Rows(t)[k].value = t.infos[i].value
      /\ Rows(t)[k].on = (i \in EnabledIds(t))
  BY <1>3, RowPresent
<1>5. Rows(t)[k].on
  BY <1>2, <1>4
<1> QED
  BY <1>1, <1>4, <1>5

(* All rows that are on are written when the loop gets to the end.         *)
LEMMA RowIsWritten ==
  ASSUME NEW t, WellFormed(t), NEW k \in Keys, Rows(t)[k].on
  PROVE  Writers(t, k, Len(t.infos)) # {}
<1>1. t.hash[k] # NoId
  BY DEF Rows, RowOf
<1> DEFINE i == t.hash[k]
<1>2. /\ i \in Ids(t) /\ t.infos[i].key = k
      /\ Rows(t)[k].on = (i \in EnabledIds(t))
  BY <1>1, RowPresent
<1> HIDE DEF i
<1>3. i \in EnabledIds(t)
  BY <1>2
<1>4. i <= Len(t.infos)
  BY <1>2, TableIds DEF Ids, WellFormed
<1> QED
  BY <1>2, <1>3, <1>4 DEF Writers

(* The names whose points have left when the loop has passed n infos.      *)
Reached(n) == {k \in Keys : Writers(kp, k, n) # {}}

RowsWritten(b, S) ==
  [s \in Times \X Keys |-> IF s[1] = ftime /\ s[2] \in S
                           THEN Rows(kp)[s[2]].value ELSE store[b][s]]

LEMMA WrittenRows ==
  ASSUME WellFormed(kp), Unique(kp), NEW b, NEW n
  PROVE  Written(b, n) = [store EXCEPT ![b] = RowsWritten(b, Reached(n))]
<1> DEFINE f == [s \in Slots |->
                   IF s[1] = ftime /\ Writers(kp, s[2], n) # {}
                   THEN WrittenValue(kp, s[2], n) ELSE store[b][s]]
           g == [s \in Slots |->
                   IF s[1] = ftime /\ s[2] \in Reached(n)
                   THEN Rows(kp)[s[2]].value ELSE store[b][s]]
<1>1. ASSUME NEW s \in Slots PROVE f[s] = g[s]
  <2>1. s[2] \in Keys
    BY DEF Slots
  <2>2. s[2] \in Reached(n) <=> Writers(kp, s[2], n) # {}
    BY <2>1 DEF Reached
  <2>3. CASE Writers(kp, s[2], n) # {}
    <3>1. WrittenValue(kp, s[2], n) = Rows(kp)[s[2]].value
      BY <2>1, <2>3, WriterIsRow
    <3> QED
      BY <2>2, <3>1
  <2>4. CASE Writers(kp, s[2], n) = {}
    BY <2>2, <2>4
  <2> QED
    BY <2>3, <2>4
<1>2. f = g
  BY <1>1
<1>3. Written(b, n) = [store EXCEPT ![b] = f]
  BY DEF Written
<1>4. RowsWritten(b, Reached(n)) = g
  BY DEF RowsWritten, Slots
<1> HIDE DEF f, g
<1> QED
  BY <1>2, <1>3, <1>4

(* After a whole write the backend holds the points of the flush.          *)
LEMMA WholeWrite ==
  ASSUME KpInv, Unique(kp), NEW b \in Backends,
         store' = Written(b, Len(kp.infos)), UNCHANGED <<kp, ftime>>
  PROVE  Delivered(b)'
<1> DEFINE n == Len(kp.infos)
<1>0. WellFormed(kp) /\ ftime \in Times
      /\ store \in [Backends -> [Slots -> Values \cup {NoValue}]]
  BY KpInvWellFormed DEF KpInv, TypeOK
<1> SUFFICES ASSUME NEW i \in EnabledIds(kp)
             PROVE  store'[b][<<ftime, kp.infos[i].key>>] = kp.infos[i].value
  BY DEF Delivered
<1> DEFINE k == kp.infos[i].key
<1>1. i \in Ids(kp)
  BY DEF EnabledIds
<1>2. k \in Keys
  BY <1>0, <1>1, InfoPresent
<1>3. /\ Rows(kp)[k].value = kp.infos[i].value
      /\ Rows(kp)[k].on = (i \in EnabledIds(kp))
  BY <1>0, <1>1, InfoRow
<1>4. Rows(kp)[k].on
  BY <1>3
<1> HIDE DEF k
<1>5. k \in Reached(n)
  BY <1>0, <1>2, <1>4, RowIsWritten DEF Reached
<1> HIDE DEF n
<1>6. Written(b, n) = [store EXCEPT ![b] = RowsWritten(b, Reached(n))]
  BY <1>0, WrittenRows
<1>7. store'[b] = RowsWritten(b, Reached(n))
  BY <1>0, <1>6 DEF n
<1>8. <<ftime, k>> \in Times \X Keys
  BY <1>0, <1>2
<1>9. store'[b][<<ftime, k>>] = Rows(kp)[k].value
  BY <1>5, <1>7, <1>8 DEF RowsWritten
<1> QED
  BY <1>3, <1>9 DEF k

-----------------------------------------------------------------------------
(* What the steps do to the rows.                                          *)

LEMMA RowsEnable ==
  ASSUME NEW t, WellFormed(t), Unique(t), NEW i \in Ids(t)
  PROVE  /\ Unique(EnableKey(t, i))
         /\ Rows(EnableKey(t, i)) = [Rows(t) EXCEPT ![t.infos[i].key].on = TRUE]
<1> DEFINE u == EnableKey(t, i)
<1>1. Switched(t, u, i, TRUE)
  <2>1. /\ u.hash = t.hash /\ Ids(u) = Ids(t)
        /\ EnabledIds(u) = EnabledIds(t) \cup {i}
        /\ \A j \in Ids(t) : /\ u.infos[j].key = t.infos[j].key
                             /\ u.infos[j].value = t.infos[j].value
    BY EnableKeyEffect
  <2> HIDE DEF u
  <2> QED
    BY <2>1 DEF Switched
<1> HIDE DEF u
<1>2. RowsSwitched(t, u, i, TRUE)
  BY <1>1, RowsSwitch
<1> QED
  BY <1>2 DEF u, RowsSwitched

LEMMA RowsDisable ==
  ASSUME NEW t, WellFormed(t), Unique(t), NEW i \in Ids(t)
  PROVE  /\ Unique(DisableKey(t, i))
         /\ Rows(DisableKey(t, i)) = [Rows(t) EXCEPT ![t.infos[i].key].on = FALSE]
<1> DEFINE u == DisableKey(t, i)
<1>1. Switched(t, u, i, FALSE)
  <2>1. /\ u.hash = t.hash /\ Ids(u) = Ids(t)
        /\ EnabledIds(u) = EnabledIds(t) \ {i}
        /\ \A j \in Ids(t) : /\ u.infos[j].key = t.infos[j].key
                             /\ u.infos[j].value = t.infos[j].value
    BY DisableKeyEffect
  <2> HIDE DEF u
  <2> QED
    BY <2>1 DEF Switched
<1> HIDE DEF u
<1>2. RowsSwitched(t, u, i, FALSE)
  BY <1>1, RowsSwitch
<1> QED
  BY <1>2 DEF u, RowsSwitched

(* The steps of a flush and of a resolve, but for the last of a flush.     *)
OnTheWay ==
  \/ \E t \in Times : FlushBegin(t)
  \/ SkipBackend \/ UpdateBackend \/ WriteBackend \/ WriteCrashes
  \/ \E i \in Ids(kp) : UpdateFails(i) \/ ResolveFails(i)
  \/ \E n \in 0 .. Len(kp.infos) : WriteFails(n)
  \/ ResolveBegin \/ ResolveBackend \/ ResolveEnd

LEMMA DirtySame ==
  ASSUME NEW t, WellFormed(t), NEW d
  PROVE  SamePoints(t, [t EXCEPT !.dirty = d])
<1>1. /\ [t EXCEPT !.dirty = d].infos = t.infos
      /\ [t EXCEPT !.dirty = d].hash = t.hash
  BY DEF WellFormed, Table
<1> QED
  BY <1>1 DEF SamePoints, Ids, EnabledIds

(* They look keys up; no name, value or flag changes.                      *)
LEMMA SamePointsStep ==
  ASSUME KpInv, OnTheWay
  PROVE  SamePoints(kp, kp')
<1>0. WellFormed(kp) /\ Len(kp.infos) \in Int /\ Ids(kp) \subseteq Nat
  BY KpInvWellFormed, TableIds DEF WellFormed
<1>1. SamePoints(kp, kp)
  BY DEF SamePoints
<1>2. ASSUME NEW t \in Times, FlushBegin(t) PROVE SamePoints(kp, kp')
  BY <1>0, <1>2, DirtySame DEF FlushBegin
<1>3. CASE SkipBackend \/ WriteBackend \/ WriteCrashes \/ ResolveEnd
  BY <1>1, <1>3 DEF SkipBackend, WriteBackend, WriteCrashes, ResolveEnd
<1>4. CASE UpdateBackend
  <2>1. cur \in Backends
    BY <1>4 DEF UpdateBackend, KpInv, TypeOK
  <2> QED
    BY <1>0, <1>1, <1>4, <2>1, KiUpdateSame DEF UpdateBackend
<1>5. ASSUME NEW i \in Ids(kp), UpdateFails(i) PROVE SamePoints(kp, kp')
  <2>1. cur \in Backends
    BY <1>5 DEF UpdateFails, KpInv, TypeOK
  <2>2. kp' = LookupFailed(kp, cur, i)
    BY <1>5 DEF UpdateFails, LookupFailed
  <2> QED
    BY <1>0, <2>1, <2>2, LookupFailedSame
<1>6. ASSUME NEW i \in Ids(kp), ResolveFails(i) PROVE SamePoints(kp, kp')
  <2>1. cur \in Backends /\ i - 1 \in Int
    BY <1>0, <1>6 DEF ResolveFails, KpInv, TypeOK
  <2> QED
    BY <1>0, <1>6, <2>1, KiUpdateSame DEF ResolveFails
<1>7. ASSUME NEW n \in 0 .. Len(kp.infos), WriteFails(n)
      PROVE  SamePoints(kp, kp')
  BY <1>1, <1>7 DEF WriteFails
<1>8. CASE ResolveBegin
  BY <1>0, <1>8, DirtySame DEF ResolveBegin
<1>9. CASE ResolveBackend
  <2>1. cur \in Backends
    BY <1>9 DEF ResolveBackend, KpInv, TypeOK
  <2> QED
    BY <1>0, <1>1, <1>9, <2>1, KiUpdateSame DEF ResolveBackend
<1> QED
  BY <1>2, <1>3, <1>4, <1>5, <1>6, <1>7, <1>8, <1>9 DEF OnTheWay

(* What a backend holds, it holds until the rows change.                   *)
LEMMA DeliveredKept ==
  ASSUME NEW b, Delivered(b), SamePoints(kp, kp'), ftime' = ftime,
         store'[b] = store[b]
  PROVE  Delivered(b)'
BY DEF Delivered, SamePoints, EnabledIds

LEMMA DeliveredOnTheWay ==
  ASSUME KpInv, RowsInv, OnTheWay, pc' \in {"update", "write"},
         NEW b \in enabled, b < cur'
  PROVE  Delivered(b)'
<1>0. SamePoints(kp, kp')
  BY SamePointsStep
<1>1. b \in Int /\ cur \in Int
  BY DEF KpInv, TypeOK, Backends
<1>2. ASSUME NEW t \in Times, FlushBegin(t) PROVE FALSE
  <2>1. cur' = 1
    BY <1>2 DEF FlushBegin
  <2> QED
    BY <2>1 DEF KpInv, TypeOK, Backends
<1>3. CASE SkipBackend
  <2>1. b < cur
    BY <1>1, <1>3 DEF SkipBackend
  <2>2. Delivered(b) /\ ftime' = ftime /\ store' = store
    BY <1>3, <2>1 DEF SkipBackend, RowsInv
  <2> QED
    BY <1>0, <2>2, DeliveredKept
<1>4. CASE UpdateBackend
  <2>2. Delivered(b) /\ ftime' = ftime /\ store' = store
    BY <1>4 DEF UpdateBackend, RowsInv
  <2> QED
    BY <1>0, <2>2, DeliveredKept
<1>5. CASE WriteBackend
  <2>1. /\ cur' = cur + 1 /\ UNCHANGED <<kp, ftime>> /\ pc = "write"
        /\ store' = Written(cur, Len(kp.infos))
    BY <1>5 DEF WriteBackend
  <2>2. CASE b = cur
    <3>1. cur \in Backends /\ Unique(kp)
      BY <2>2 DEF KpInv, TypeOK, RowsInv
    <3> QED
      BY <2>1, <2>2, <3>1, WholeWrite
  <2>3. CASE b # cur
    <3>1. b < cur
      BY <1>1, <2>1, <2>3
    <3>2. Delivered(b)
      BY <2>1, <3>1 DEF RowsInv
    <3>3. store'[b] = store[b]
      BY <2>1, <2>3 DEF Written, KpInv, TypeOK
    <3> QED
      BY <1>0, <2>1, <3>2, <3>3, DeliveredKept
  <2> QED
    BY <2>2, <2>3
<1> QED
  BY <1>2, <1>3, <1>4, <1>5
     DEF OnTheWay, WriteCrashes, UpdateFails, ResolveFails, WriteFails,
         ResolveBegin, ResolveBackend, ResolveEnd

(* The rows during a flush.                                                *)
LEMMA RowsInvFlush ==
  ASSUME KpInv, RowsInv, OnTheWay \/ FlushEnd
  PROVE  RowsInv'
<1>0. WellFormed(kp) /\ Unique(kp) /\ flags \in SUBSET FlagSet
  BY KpInvWellFormed DEF RowsInv, KpInv, TypeOK
<1>1. CASE FlushEnd
  <2>1. pc' = "idle" /\ Unique(kp')
    BY <1>0, <1>1, RowsReset DEF FlushEnd
  <2> QED
    BY <2>1 DEF RowsInv
<1>2. CASE OnTheWay
  <2>1. Unique(kp')
    BY <1>0, <1>2, SamePointsStep, SameRows
  <2>2. enabled' = enabled
    BY <1>2 DEF OnTheWay, FlushBegin, SkipBackend, UpdateBackend, WriteBackend,
                WriteCrashes, UpdateFails, ResolveFails, WriteFails,
                ResolveBegin, ResolveBackend, ResolveEnd
  <2>3. pc' \in {"update", "write"} =>
          \A b \in enabled : b < cur' => Delivered(b)'
    BY <1>2, DeliveredOnTheWay
  <2> QED
    BY <2>1, <2>2, <2>3 DEF RowsInv
<1> QED
  BY <1>1, <1>2

(* The rows, for every step of a client that adds no name twice.           *)
LEMMA RowsInvStep ==
  ASSUME "add_again" \notin Calls, KpInv, RowsInv, [Next]_vars
  PROVE  RowsInv'
<1>0. WellFormed(kp) /\ Unique(kp) /\ flags \in SUBSET FlagSet
  BY KpInvWellFormed DEF RowsInv, KpInv, TypeOK
<1>a. ASSUME pc' = "idle", Unique(kp') PROVE RowsInv'
  BY <1>a DEF RowsInv
<1>1. ASSUME NEW k \in Keys, CallAddKey(k) PROVE RowsInv'
  <2>1. kp' = AddKey(kp, k) /\ kp.hash[k] = NoId /\ pc' = "idle"
    BY <1>1 DEF CallAddKey, Client, GetKey
  <2> QED
    BY <1>0, <1>a, <2>1, RowsAdd
<1>2. ASSUME NEW i \in Ids(kp), NEW v \in Values, CallSet(i, v) PROVE RowsInv'
  BY <1>0, <1>2, <1>a, RowsSet DEF CallSet, Client
<1>3. ASSUME NEW i \in Ids(kp), CallEnable(i) PROVE RowsInv'
  BY <1>0, <1>3, <1>a, RowsEnable DEF CallEnable, Client
<1>4. ASSUME NEW i \in Ids(kp), CallDisable(i) PROVE RowsInv'
  BY <1>0, <1>4, <1>a, RowsDisable DEF CallDisable, Client
<1>5. ASSUME NEW b \in Backends, EnableBackend(b) PROVE RowsInv'
  BY <1>0, <1>5, <1>a DEF EnableBackend
<1>6. CASE OnTheWay \/ FlushEnd
  BY <1>6, RowsInvFlush
<1>7. CASE UNCHANGED vars
  BY <1>7 DEF vars, RowsInv, Delivered
<1> QED
  BY <1>1, <1>2, <1>3, <1>4, <1>5, <1>6, <1>7 DEF Next, OnTheWay

LEMMA RowsInvInit == Init => RowsInv
BY DEF Init, RowsInv, Unique, EmptyTable, Ids

-----------------------------------------------------------------------------
(* The package implements the point table, step by step.                   *)

LEMMA PointTableInit == Init => PT!Init
<1> SUFFICES ASSUME Init PROVE PT!Init
  OBVIOUS
<1>1. \A k \in Keys : Row(k) = [value |-> NoValue, on |-> FALSE]
  BY DEF Init, EmptyTable, Row, GetKey
<1>2. enabled \in SUBSET Backends
  BY KeyPackageAssumption DEF Init
<1> QED
  BY <1>1, <1>2 DEF Init, PT!Init, PT!NoRow, Slots, FlagSet

LEMMA NoRowIs == PT!NoRow = [value |-> NoValue, on |-> FALSE]
BY DEF PT!NoRow

(* The table before and after a step.                                      *)
LEMMA SeenBoth ==
  ASSUME KpInv, KpInv'
  PROVE  Seen = Rows(kp) /\ Seen' = Rows(kp')
<1>1. WellFormed(kp) /\ WellFormed(kp')
  BY DEF KpInv, TypeOK, CounterExact, LookupExact, WellFormed
<1> QED
  BY <1>1, SeenNow, SeenNext

(* An info's row is a row of the table.                                    *)
LEMMA InfoHasRow ==
  ASSUME NEW t, WellFormed(t), Unique(t), NEW i \in Ids(t)
  PROVE  t.infos[i].key \in Keys /\ Rows(t)[t.infos[i].key] # PT!NoRow
<1> DEFINE k == t.infos[i].key
<1>1. k \in Keys /\ t.hash[k] = i /\ i # NoId
  BY InfoPresent
<1> HIDE DEF k
<1>2. Rows(t)[k].value # NoValue
  BY <1>1, RowPresent
<1> QED
  BY <1>1, <1>2, NoRowIs DEF k

LEMMA AddRefines ==
  ASSUME "add_again" \notin Calls, KpInv, KpInv', RowsInv,
         NEW k \in Keys, CallAddKey(k)
  PROVE  PT!Add(k)
<1>1. WellFormed(kp) /\ Unique(kp) /\ kp.hash[k] = NoId /\ kp' = AddKey(kp, k)
      /\ UNCHANGED <<flags, enabled, store>>
  BY KpInvWellFormed DEF RowsInv, CallAddKey, Client, GetKey
<1>2. Rows(kp') = [Rows(kp) EXCEPT ![k] = [value |-> 0, on |-> TRUE]]
  BY <1>1, RowsAdd
<1>3. Rows(kp)[k] = PT!NoRow
  BY <1>1, NoRowIs DEF Rows, RowOf
<1> QED
  BY <1>1, <1>2, <1>3, SeenBoth DEF Seen, PT!Add

LEMMA PutRefines ==
  ASSUME KpInv, KpInv', RowsInv, NEW i \in Ids(kp), NEW v \in Values,
         CallSet(i, v)
  PROVE  PT!Next
<1> DEFINE k == kp.infos[i].key
<1>1. WellFormed(kp) /\ Unique(kp) /\ kp' = SetValue(kp, i, v)
      /\ UNCHANGED <<flags, enabled, store>>
  BY KpInvWellFormed DEF RowsInv, CallSet, Client
<1>2. k \in Keys /\ Rows(kp)[k] # PT!NoRow
  BY <1>1, InfoHasRow
<1>3. Rows(kp') = [Rows(kp) EXCEPT ![k].value = v]
  BY <1>1, RowsSet
<1> HIDE DEF k
<1>4. PT!Put(k, v)
  BY <1>1, <1>2, <1>3, SeenBoth DEF Seen, PT!Put
<1> QED
  BY <1>2, <1>4 DEF PT!Next

LEMMA SwitchRefines ==
  ASSUME KpInv, KpInv', RowsInv, NEW i \in Ids(kp),
         CallEnable(i) \/ CallDisable(i)
  PROVE  PT!Next
<1> DEFINE k == kp.infos[i].key
<1>1. WellFormed(kp) /\ Unique(kp) /\ UNCHANGED <<flags, enabled, store>>
  BY KpInvWellFormed DEF RowsInv, CallEnable, CallDisable, Client
<1>2. k \in Keys /\ Rows(kp)[k] # PT!NoRow
  BY <1>1, InfoHasRow
<1>3. PICK on \in BOOLEAN : Rows(kp') = [Rows(kp) EXCEPT ![k].on = on]
  <2>1. CASE CallEnable(i)
    <3>1. kp' = EnableKey(kp, i)
      BY <2>1 DEF CallEnable, Client
    <3>2. Rows(kp') = [Rows(kp) EXCEPT ![k].on = TRUE]
      BY <1>1, <3>1, RowsEnable
    <3> QED
      BY <3>2
  <2>2. CASE CallDisable(i)
    <3>1. kp' = DisableKey(kp, i)
      BY <2>2 DEF CallDisable, Client
    <3>2. Rows(kp') = [Rows(kp) EXCEPT ![k].on = FALSE]
      BY <1>1, <3>1, RowsDisable
    <3> QED
      BY <3>2
  <2> QED
    BY <2>1, <2>2
<1> HIDE DEF k
<1>4. PT!Switch(k, on)
  BY <1>1, <1>2, <1>3, SeenBoth DEF Seen, PT!Switch
<1> QED
  BY <1>2, <1>4 DEF PT!Next

(* The rows S reach the backend at which the flush is.                     *)
LEMMA DeliverRefines ==
  ASSUME KpInv, KpInv', RowsInv, kp' = kp, UNCHANGED <<flags, enabled>>,
         pc = "write", NEW n, store' = Written(cur, n),
         cur \in Transactional => n = Len(kp.infos)
  PROVE  PT!Next
<1> DEFINE S == Reached(n)
<1>1. WellFormed(kp) /\ Unique(kp) /\ cur \in enabled /\ cur \in Backends
      /\ ftime \in Times
  BY KpInvWellFormed DEF RowsInv, KpInv, TypeOK
<1>2. Seen = Rows(kp) /\ Seen' = Rows(kp)
  BY SeenBoth
<1>3. PT!On = {k \in Keys : Rows(kp)[k].on}
  BY <1>2 DEF PT!On, Seen
<1>4. S \subseteq PT!On
  BY <1>1, <1>3, WriterIsRow DEF Reached
<1>5. cur \in Transactional => S = PT!On
  BY <1>1, <1>3, <1>4, RowIsWritten DEF Reached
<1>6. store' = [store EXCEPT ![cur] = RowsWritten(cur, S)]
  BY <1>1, WrittenRows
<1>7. S \in SUBSET Keys
  BY DEF Reached
<1> HIDE DEF S
<1>8. RowsWritten(cur, S) =
        [s \in Times \X Keys |-> IF s[1] = ftime /\ s[2] \in S
                                 THEN Seen[s[2]].value ELSE store[cur][s]]
  BY <1>2 DEF RowsWritten
<1>9. PT!Deliver(cur, ftime, S)
  BY <1>1, <1>2, <1>4, <1>5, <1>6, <1>8 DEF PT!Deliver, Seen
<1> QED
  BY <1>1, <1>7, <1>9 DEF PT!Next

(* A transaction that fails leaves the store as it was.                    *)
LEMMA NothingWritten ==
  ASSUME KpInv, NEW b \in Backends
  PROVE  Written(b, 0) = store
<1>1. \A k : Writers(kp, k, 0) = {}
  <2>1. Ids(kp) \subseteq Nat \ {0}
    BY TableIds DEF KpInv, TypeOK
  <2> QED
    BY <2>1 DEF Writers, EnabledIds
<1>2. store \in [Backends -> [Slots -> Values \cup {NoValue}]]
  BY DEF KpInv, TypeOK
<1>3. store[b] = [s \in Slots |-> store[b][s]]
  BY <1>2
<1>4. Written(b, 0) = [store EXCEPT ![b] = [s \in Slots |-> store[b][s]]]
  BY <1>1 DEF Written
<1> QED
  BY <1>2, <1>3, <1>4

LEMMA CompleteRefines ==
  ASSUME KpInv, KpInv', RowsInv, FlushEnd
  PROVE  PT!Next
<1>1. WellFormed(kp) /\ Unique(kp) /\ flags \in SUBSET FlagSet /\ ftime \in Times
      /\ enabled \in SUBSET Backends
  BY KpInvWellFormed DEF RowsInv, KpInv, TypeOK
<1>2. kp' = ResetDisable(kp, flags) /\ UNCHANGED <<flags, enabled, store>>
      /\ pc = "update" /\ cur > LastId
  BY DEF FlushEnd
<1>3. Seen = Rows(kp) /\ Seen' = Rows(kp')
  BY SeenBoth
<1>4. Rows(kp') = RowsAfter(Rows(kp), flags)
  BY <1>1, <1>2, RowsReset
<1>5. ASSUME NEW b \in enabled, NEW k \in PT!On
      PROVE  store[b][<<ftime, k>>] = Rows(kp)[k].value
  <2>1. k \in Keys /\ Rows(kp)[k].on
    BY <1>3 DEF PT!On, Seen
  <2>2. kp.hash[k] # NoId
    BY <2>1 DEF Rows, RowOf
  <2> DEFINE i == kp.hash[k]
  <2>3. /\ i \in Ids(kp) /\ kp.infos[i].key = k
        /\ Rows(kp)[k].value = kp.infos[i].value
        /\ Rows(kp)[k].on = (i \in EnabledIds(kp))
    BY <1>1, <2>1, <2>2, RowPresent
  <2> HIDE DEF i
  <2>4. i \in EnabledIds(kp)
    BY <2>1, <2>3
  <2>5. b < cur
    BY <1>1, <1>2, LastIdAssumption DEF KpInv, TypeOK, Backends
  <2>6. Delivered(b)
    BY <1>2, <2>5 DEF RowsInv
  <2> QED
    BY <2>3, <2>4, <2>6 DEF Delivered
<1>6. PT!Complete(ftime)
  BY <1>2, <1>3, <1>4, <1>5, NoRowIs DEF PT!Complete, Seen, RowsAfter
<1> QED
  BY <1>1, <1>6 DEF PT!Next

(* Every step is a step of the point table or changes nothing of it.       *)
LEMMA PointTableStep ==
  ASSUME "add_again" \notin Calls, KpInv, KpInv', RowsInv, [Next]_vars
  PROVE  [PT!Next]_(PT!vars)
<1>a. ASSUME SamePoints(kp, kp'), UNCHANGED <<flags, enabled, store>>
      PROVE  UNCHANGED PT!vars
  <2>1. Rows(kp') = Rows(kp)
    BY <1>a, KpInvWellFormed, SameRows
  <2> QED
    BY <1>a, <2>1, SeenBoth DEF Seen, PT!vars
<1>b. SamePoints(kp, kp)
  BY DEF SamePoints
<1>1. ASSUME NEW k \in Keys, CallAddKey(k) PROVE PT!Next
  BY <1>1, AddRefines DEF PT!Next
<1>2. ASSUME NEW i \in Ids(kp), NEW v \in Values, CallSet(i, v) PROVE PT!Next
  BY <1>2, PutRefines
<1>3. ASSUME NEW i \in Ids(kp), CallEnable(i) \/ CallDisable(i) PROVE PT!Next
  BY <1>3, SwitchRefines
<1>4. ASSUME NEW b \in Backends, EnableBackend(b) PROVE PT!Next
  <2>1. PT!GoLive(b)
    BY <1>4, SeenBoth DEF EnableBackend, Seen, PT!GoLive
  <2> QED
    BY <2>1 DEF PT!Next
<1>5. CASE FlushEnd
  BY <1>5, CompleteRefines
<1>6. CASE WriteBackend
  BY <1>6, DeliverRefines DEF WriteBackend
<1>7. ASSUME NEW n \in 0 .. Len(kp.infos), WriteFails(n)
      PROVE  [PT!Next]_(PT!vars)
  <2>1. CASE cur \in Transactional
    <3>1. cur \in Backends
      BY <1>7 DEF WriteFails, KpInv, TypeOK
    <3>2. store' = store
      BY <1>7, <2>1, <3>1, NothingWritten DEF WriteFails
    <3> QED
      BY <1>7, <1>a, <1>b, <3>2 DEF WriteFails
  <2>2. CASE cur \notin Transactional
    BY <1>7, <2>2, DeliverRefines DEF WriteFails
  <2> QED
    BY <2>1, <2>2
<1>8. CASE OnTheWay /\ UNCHANGED <<flags, enabled, store>>
  BY <1>8, <1>a, SamePointsStep
<1>9. CASE UNCHANGED vars
  BY <1>9, <1>a, <1>b DEF vars
<1>10. CASE \/ \E t \in Times : FlushBegin(t)
            \/ SkipBackend \/ UpdateBackend \/ WriteCrashes
            \/ \E i \in Ids(kp) : UpdateFails(i) \/ ResolveFails(i)
            \/ ResolveBegin \/ ResolveBackend \/ ResolveEnd
  <2>1. UNCHANGED <<flags, enabled, store>>
    BY <1>10 DEF FlushBegin, SkipBackend, UpdateBackend, WriteCrashes,
                 UpdateFails, ResolveFails, ResolveBegin, ResolveBackend,
                 ResolveEnd
  <2>2. OnTheWay
    BY <1>10 DEF OnTheWay
  <2> QED
    BY <1>8, <2>1, <2>2
<1> QED
  BY <1>1, <1>2, <1>3, <1>4, <1>5, <1>6, <1>7, <1>9, <1>10 DEF Next

(* The package implements the point table for every client that adds no    *)
(* name twice, whatever else it calls, and for every set of backends,      *)
(* whichever of them fail: a failed flush keeps every value and every      *)
(* flag, and the rows are reset or switched off only when each enabled     *)
(* backend holds the points of all rows that are on.                       *)
THEOREM ImplementsPointTable ==
  ASSUME "add_again" \notin Calls PROVE Spec => PointTableSpec
<1>1. KpInv /\ RowsInv /\ [Next]_vars => RowsInv'
  BY RowsInvStep
<1>2. KpInv /\ KpInv' /\ RowsInv /\ [Next]_vars => [PT!Next]_(PT!vars)
  BY PointTableStep
<1> QED
  BY KpInvInit, KpInvStep, RowsInvInit, PointTableInit, <1>1, <1>2, PTL
     DEF Spec, PointTableSpec, PT!Spec

=============================================================================
