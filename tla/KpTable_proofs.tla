--------------------------- MODULE KpTable_proofs ---------------------------
(***************************************************************************)
(* Every operation of the key table leaves a well formed table: its fields *)
(* keep their types, the counter of the enabled infos stays exact and the  *)
(* hash keeps leading to the newest info of each name.                     *)
(***************************************************************************)
EXTENDS KpTable, FiniteSetTheorems, SequenceTheorems, WellFoundedInduction, TLAPS

(* A function on an initial segment of the naturals is a sequence.         *)
LEMMA FunctionIsSeq ==
  ASSUME NEW S, NEW n \in Nat, NEW f \in [1 .. n -> S]
  PROVE  f \in Seq(S) /\ Len(f) = n
BY SeqDef

(* The indices of a table, and the set of those that are enabled.          *)
LEMMA TableIds ==
  ASSUME NEW kp \in Table
  PROVE  /\ Len(kp.infos) \in Nat
         /\ Ids(kp) \subseteq Nat \ {0}
         /\ \A i \in Ids(kp) : kp.infos[i] \in KeyInfo
         /\ IsFiniteSet(EnabledIds(kp))
         /\ Cardinality(EnabledIds(kp)) \in Nat
<1>1. Len(kp.infos) \in Nat /\ kp.infos \in Seq(KeyInfo)
  BY LenProperties DEF Table
<1>2. \A i \in Ids(kp) : kp.infos[i] \in KeyInfo
  BY <1>1, ElementOfSeq DEF Ids
<1>3. IsFiniteSet(Ids(kp))
  BY <1>1, FS_Interval DEF Ids
<1>4. IsFiniteSet(EnabledIds(kp))
  BY <1>3, FS_Subset DEF EnabledIds
<1> QED
  BY <1>1, <1>2, <1>4, FS_CardinalityType DEF Ids

(* Replacing the array and the counter of a table.                         *)
LEMMA TableExcept ==
  ASSUME NEW kp \in Table, NEW s \in Seq(KeyInfo), NEW n \in Int
  PROVE  [kp EXCEPT !.infos = s, !.enabledCnt = n] \in Table
BY DEF Table

(* An operation that renames no info and leaves the hash alone cannot make *)
(* a lookup wrong.                                                         *)
LEMMA LookupKept ==
  ASSUME NEW kp, NEW kq, LookupSound(kp),
         kq.hash = kp.hash, Len(kq.infos) = Len(kp.infos),
         \A i \in Ids(kp) : kq.infos[i].key = kp.infos[i].key
  PROVE  LookupSound(kq)
BY DEF LookupSound, Ids

(* A new package, without keys and with nothing cached, is well formed.    *)
LEMMA EmptyTableWellFormed == WellFormed(EmptyTable)
<1>1. EmptyTable \in Table
  BY EmptySeq DEF EmptyTable, Table, NoId
<1>2. Ids(EmptyTable) = {} /\ EnabledIds(EmptyTable) = {}
  BY EmptySeq DEF EmptyTable, Ids, EnabledIds
<1> QED
  BY <1>1, <1>2, FS_EmptySet
  DEF WellFormed, CountExact, LookupSound, EmptyTable, NoId

(* The dirty flag has no part in what makes a table well formed.           *)
LEMMA DirtyWellFormed ==
  ASSUME NEW kp, WellFormed(kp), NEW d \in BOOLEAN
  PROVE  WellFormed([kp EXCEPT !.dirty = d])
<1> DEFINE kq == [kp EXCEPT !.dirty = d]
<1>1. /\ kq.infos = kp.infos /\ kq.hash = kp.hash
      /\ kq.enabledCnt = kp.enabledCnt /\ kq \in Table
  BY DEF WellFormed, Table
<1>2. Ids(kq) = Ids(kp) /\ EnabledIds(kq) = EnabledIds(kp)
  BY <1>1 DEF Ids, EnabledIds
<1>3. LookupSound(kq)
  BY <1>1, <1>2 DEF WellFormed, LookupSound
<1> QED
  BY <1>1, <1>2, <1>3 DEF WellFormed, CountExact

(* One key more is enabled.                                                *)
LEMMA OneMoreEnabled ==
  ASSUME NEW kp \in Table, NEW i, i \notin EnabledIds(kp)
  PROVE  Cardinality(EnabledIds(kp) \cup {i}) = Cardinality(EnabledIds(kp)) + 1
<1>1. IsFiniteSet(EnabledIds(kp))
  BY TableIds
<1> DEFINE S == EnabledIds(kp)
<1> HIDE DEF S
<1>2. Cardinality(S \cup {i}) = IF i \in S THEN Cardinality(S) ELSE Cardinality(S) + 1
  BY <1>1, FS_AddElement DEF S
<1> QED
  BY <1>2 DEF S

(* timeseries_kp_add_key keeps the counter, and the index finds the new    *)
(* key unless its name was there before.                                   *)
LEMMA AddKeyWellFormed ==
  ASSUME NEW kp, WellFormed(kp), NEW k \in Keys
  PROVE  WellFormed(AddKey(kp, k))
<1> DEFINE kq == AddKey(kp, k)
           n == Len(kp.infos)
           ki == FreshInfo(k)
<1>0. kp \in Table
  BY DEF WellFormed
<1>1. n \in Nat /\ kp.infos \in Seq(KeyInfo) /\ ki \in KeyInfo
      /\ ki.key = k /\ ~ki.disabled
  BY <1>0, TableIds, ValuesAssumption DEF Table, KeyInfo, FreshInfo
<1>2. /\ kq.infos = Append(kp.infos, ki)
      /\ kq.hash = [kp.hash EXCEPT ![k] = n + 1]
      /\ kq.enabledCnt = kp.enabledCnt + 1
  BY DEF AddKey
<1>3. /\ kq.infos \in Seq(KeyInfo) /\ Len(kq.infos) = n + 1
      /\ \A i \in 1 .. n : kq.infos[i] = kp.infos[i]
      /\ kq.infos[n + 1] = ki
  BY <1>1, <1>2, AppendProperties
<1>4. kq \in Table
  BY <1>0, <1>1, <1>3 DEF Table, AddKey
<1>5. EnabledIds(kq) = EnabledIds(kp) \cup {n + 1}
  <2>1. Ids(kq) = Ids(kp) \cup {n + 1}
    BY <1>1, <1>3 DEF Ids
  <2> QED
    BY <2>1, <1>1, <1>3 DEF EnabledIds, Ids
<1>6. n + 1 \notin EnabledIds(kp)
  BY <1>1 DEF EnabledIds, Ids
<1>7. CountExact(kq)
  <2>1. Cardinality(EnabledIds(kp) \cup {n + 1}) = Cardinality(EnabledIds(kp)) + 1
    BY <1>0, <1>6, OneMoreEnabled
  <2>2. kp.enabledCnt = Cardinality(EnabledIds(kp))
    BY DEF WellFormed, CountExact
  <2> QED
    BY <1>2, <1>5, <2>1, <2>2 DEF CountExact
<1>8. LookupSound(kq)
  <2>1. ASSUME NEW j \in Keys, kq.hash[j] # NoId
        PROVE  kq.hash[j] \in Ids(kq) /\ kq.infos[kq.hash[j]].key = j
    <3>1. CASE j = k
      BY <3>1, <1>0, <1>1, <1>2, <1>3 DEF Ids, Table
    <3>2. CASE j # k
      <4>1. kq.hash[j] = kp.hash[j]
        BY <3>2, <1>0, <1>2 DEF Table
      <4>2. kp.hash[j] \in 1 .. n /\ kp.infos[kp.hash[j]].key = j
        BY <4>1, <2>1 DEF WellFormed, LookupSound, Ids
      <4> QED
        BY <4>1, <4>2, <1>1, <1>3 DEF Ids
    <3> QED
      BY <3>1, <3>2
  <2>2. ASSUME NEW i \in Ids(kq)
        PROVE  i <= kq.hash[kq.infos[i].key]
    <3>1. CASE i = n + 1
      BY <3>1, <1>0, <1>1, <1>2, <1>3 DEF Table
    <3>2. CASE i # n + 1
      <4>1. i \in 1 .. n /\ i \in Ids(kp) /\ i \in Int
        BY <3>2, <1>1, <1>3 DEF Ids
      <4>2. /\ kq.infos[i] = kp.infos[i] /\ kp.infos[i].key \in Keys
            /\ i <= kp.hash[kp.infos[i].key]
        BY <4>1, <1>0, <1>3, TableIds DEF WellFormed, LookupSound, KeyInfo
      <4>3. CASE kp.infos[i].key = k
        <5>1. kq.hash[kq.infos[i].key] = n + 1
          BY <4>2, <4>3, <1>0, <1>2 DEF Table
        <5> QED
          BY <5>1, <4>1, <1>1
      <4>4. CASE kp.infos[i].key # k
        <5>1. kq.hash[kq.infos[i].key] = kp.hash[kp.infos[i].key]
          BY <4>2, <4>4, <1>0, <1>2 DEF Table
        <5> QED
          BY <5>1, <4>2
      <4> QED
        BY <4>3, <4>4
    <3> QED
      BY <3>1, <3>2
  <2> QED
    BY <2>1, <2>2 DEF LookupSound
<1> QED
  BY <1>4, <1>7, <1>8 DEF WellFormed

(* timeseries_kp_set touches neither a flag nor the index.                 *)
LEMMA SetValueWellFormed ==
  ASSUME NEW kp, WellFormed(kp), NEW i \in Ids(kp), NEW v \in Values
  PROVE  WellFormed(SetValue(kp, i, v))
<1> DEFINE kq == SetValue(kp, i, v)
           ki == [kp.infos[i] EXCEPT !.value = v]
<1>1. kp \in Table /\ kp.infos \in Seq(KeyInfo) /\ i \in 1 .. Len(kp.infos)
  BY DEF WellFormed, Table, Ids
<1>2. kp.infos[i] \in KeyInfo
  BY <1>1, TableIds
<1>3. ki \in KeyInfo /\ ki.key = kp.infos[i].key
      /\ ki.disabled = kp.infos[i].disabled
  BY <1>2 DEF KeyInfo
<1>4. kq = [kp EXCEPT !.infos = [kp.infos EXCEPT ![i] = ki]]
  BY DEF SetValue
<1>5. /\ kq.infos = [kp.infos EXCEPT ![i] = ki] /\ kq.hash = kp.hash
      /\ kq.enabledCnt = kp.enabledCnt
  BY <1>1, <1>4 DEF Table
<1>6. /\ kq.infos \in Seq(KeyInfo) /\ Len(kq.infos) = Len(kp.infos)
      /\ \A j \in Ids(kp) : kq.infos[j] = IF j = i THEN ki ELSE kp.infos[j]
  BY <1>1, <1>3, <1>5, ExceptSeq DEF Ids
<1>7. kq \in Table
  BY <1>1, <1>4, <1>5, <1>6 DEF Table
<1>8. EnabledIds(kq) = EnabledIds(kp)
  BY <1>3, <1>6 DEF EnabledIds, Ids
<1>9. LookupSound(kq)
  BY <1>3, <1>5, <1>6, LookupKept DEF WellFormed
<1> QED
  BY <1>5, <1>7, <1>8, <1>9 DEF WellFormed, CountExact

(* timeseries_kp_disable_key uncounts a key only if it was enabled.        *)
LEMMA DisableKeyWellFormed ==
  ASSUME NEW kp, WellFormed(kp), NEW i \in Ids(kp)
  PROVE  WellFormed(DisableKey(kp, i))
<1>1. CASE kp.infos[i].disabled
  BY <1>1 DEF DisableKey
<1>2. CASE ~kp.infos[i].disabled
  <2> DEFINE kq == DisableKey(kp, i)
             ki == [kp.infos[i] EXCEPT !.disabled = TRUE]
  <2>1. kp \in Table /\ kp.infos \in Seq(KeyInfo) /\ i \in 1 .. Len(kp.infos)
    BY DEF WellFormed, Table, Ids
  <2>2. kp.infos[i] \in KeyInfo
    BY <2>1, TableIds
  <2>3. ki \in KeyInfo /\ ki.key = kp.infos[i].key /\ ki.disabled
    BY <2>2 DEF KeyInfo
  <2>4. kq = [kp EXCEPT !.infos = [kp.infos EXCEPT ![i] = ki],
                        !.enabledCnt = kp.enabledCnt - 1]
    BY <1>2 DEF DisableKey
  <2>5. /\ kq.infos = [kp.infos EXCEPT ![i] = ki] /\ kq.hash = kp.hash
        /\ kq.enabledCnt = kp.enabledCnt - 1
    BY <2>1, <2>4 DEF Table
  <2>6. /\ kq.infos \in Seq(KeyInfo) /\ Len(kq.infos) = Len(kp.infos)
        /\ \A j \in Ids(kp) : kq.infos[j] = IF j = i THEN ki ELSE kp.infos[j]
    BY <2>1, <2>3, <2>5, ExceptSeq DEF Ids
  <2>7. kq \in Table
    <3>1. [kp.infos EXCEPT ![i] = ki] \in Seq(KeyInfo)
      BY <2>5, <2>6
    <3>2. kp.enabledCnt - 1 \in Int
      BY <2>1 DEF Table
    <3> HIDE DEF ki, kq
    <3> QED
      BY <3>1, <3>2, <2>1, <2>4, TableExcept
  <2>8. EnabledIds(kq) = EnabledIds(kp) \ {i} /\ i \in EnabledIds(kp)
    BY <1>2, <2>3, <2>6 DEF EnabledIds, Ids
  <2>9. CountExact(kq)
    BY <2>1, <2>5, <2>8, TableIds, FS_RemoveElement DEF WellFormed, CountExact
  <2>10. LookupSound(kq)
    BY <2>3, <2>5, <2>6, LookupKept DEF WellFormed
  <2> QED
    BY <2>7, <2>9, <2>10 DEF WellFormed
<1> QED
  BY <1>1, <1>2

(* timeseries_kp_enable_key counts a key only if it was disabled.          *)
LEMMA EnableKeyWellFormed ==
  ASSUME NEW kp, WellFormed(kp), NEW i \in Ids(kp)
  PROVE  WellFormed(EnableKey(kp, i))
<1>1. CASE ~kp.infos[i].disabled
  BY <1>1 DEF EnableKey
<1>2. CASE kp.infos[i].disabled
  <2> DEFINE kq == EnableKey(kp, i)
             ki == [kp.infos[i] EXCEPT !.disabled = FALSE]
  <2>1. kp \in Table /\ kp.infos \in Seq(KeyInfo) /\ i \in 1 .. Len(kp.infos)
    BY DEF WellFormed, Table, Ids
  <2>2. kp.infos[i] \in KeyInfo
    BY <2>1, TableIds
  <2>3. ki \in KeyInfo /\ ki.key = kp.infos[i].key /\ ~ki.disabled
    BY <2>2 DEF KeyInfo
  <2>4. kq = [kp EXCEPT !.infos = [kp.infos EXCEPT ![i] = ki],
                        !.enabledCnt = kp.enabledCnt + 1]
    BY <1>2 DEF EnableKey
  <2>5. /\ kq.infos = [kp.infos EXCEPT ![i] = ki] /\ kq.hash = kp.hash
        /\ kq.enabledCnt = kp.enabledCnt + 1
    BY <2>1, <2>4 DEF Table
  <2>6. /\ kq.infos \in Seq(KeyInfo) /\ Len(kq.infos) = Len(kp.infos)
        /\ \A j \in Ids(kp) : kq.infos[j] = IF j = i THEN ki ELSE kp.infos[j]
    BY <2>1, <2>3, <2>5, ExceptSeq DEF Ids
  <2>7. kq \in Table
    <3>1. [kp.infos EXCEPT ![i] = ki] \in Seq(KeyInfo)
      BY <2>5, <2>6
    <3>2. kp.enabledCnt + 1 \in Int
      BY <2>1 DEF Table
    <3> HIDE DEF ki, kq
    <3> QED
      BY <3>1, <3>2, <2>1, <2>4, TableExcept
  <2>8. EnabledIds(kq) = EnabledIds(kp) \cup {i} /\ i \notin EnabledIds(kp)
    BY <1>2, <2>3, <2>6 DEF EnabledIds, Ids
  <2>9. CountExact(kq)
    <3>1. Cardinality(EnabledIds(kp) \cup {i}) = Cardinality(EnabledIds(kp)) + 1
      BY <2>1, <2>8, OneMoreEnabled
    <3>2. kp.enabledCnt = Cardinality(EnabledIds(kp))
      BY DEF WellFormed, CountExact
    <3> QED
      BY <2>5, <2>8, <3>1, <3>2 DEF CountExact
  <2>10. LookupSound(kq)
    BY <2>3, <2>5, <2>6, LookupKept DEF WellFormed
  <2> QED
    BY <2>7, <2>9, <2>10 DEF WellFormed
<1> QED
  BY <1>1, <1>2

(* The two operations that sweep over the whole array.                     *)

(* Disabling everything after a flush leaves a counter of zero.            *)
LEMMA ResetDisableWellFormed ==
  ASSUME NEW kp, WellFormed(kp), NEW fl \in SUBSET FlagSet
  PROVE  WellFormed(ResetDisable(kp, fl))
<1> DEFINE kq == ResetDisable(kp, fl)
           ki(i) == [kp.infos[i] EXCEPT
                       !.value = IF "RESET" \in fl THEN 0
                                 ELSE kp.infos[i].value,
                       !.disabled = kp.infos[i].disabled \/ "DISABLE" \in fl]
           cnt == IF "DISABLE" \in fl
                  THEN kp.enabledCnt - Cardinality(EnabledIds(kp))
                  ELSE kp.enabledCnt
<1>1. kp \in Table /\ Len(kp.infos) \in Nat /\ Ids(kp) = 1 .. Len(kp.infos)
  BY TableIds DEF WellFormed, Ids
<1>2. ASSUME NEW i \in Ids(kp)
      PROVE  /\ ki(i) \in KeyInfo /\ ki(i).key = kp.infos[i].key
             /\ ki(i).disabled = (kp.infos[i].disabled \/ "DISABLE" \in fl)
  <2>1. kp.infos[i] \in KeyInfo
    BY <1>1, TableIds
  <2> DEFINE v == IF "RESET" \in fl THEN 0 ELSE kp.infos[i].value
             d == kp.infos[i].disabled \/ "DISABLE" \in fl
  <2>2. v \in Values /\ d \in BOOLEAN
    BY <2>1, ValuesAssumption DEF KeyInfo
  <2> HIDE DEF v, d
  <2>3. /\ [kp.infos[i] EXCEPT !.value = v, !.disabled = d] \in KeyInfo
        /\ [kp.infos[i] EXCEPT !.value = v, !.disabled = d].key
             = kp.infos[i].key
        /\ [kp.infos[i] EXCEPT !.value = v, !.disabled = d].disabled = d
    BY <2>1, <2>2 DEF KeyInfo
  <2> QED
    BY <2>3 DEF v, d
<1>3. kq = [kp EXCEPT !.infos = [i \in Ids(kp) |-> ki(i)], !.enabledCnt = cnt]
  BY DEF ResetDisable
<1>4. cnt \in Int
  BY <1>1, TableIds DEF Table
<1> HIDE DEF ki, cnt
<1>5. /\ kq.infos = [i \in Ids(kp) |-> ki(i)] /\ kq.hash = kp.hash
      /\ kq.enabledCnt = cnt
  BY <1>1, <1>3 DEF Table
<1>6. kq.infos \in Seq(KeyInfo) /\ Len(kq.infos) = Len(kp.infos)
  <2>1. [i \in Ids(kp) |-> ki(i)] \in [1 .. Len(kp.infos) -> KeyInfo]
    BY <1>1, <1>2
  <2> QED
    BY <2>1, <1>1, <1>5, FunctionIsSeq
<1>7. kq \in Table
  BY <1>1, <1>3, <1>4, <1>5, <1>6 DEF Table
<1>8. \A i \in Ids(kp) : kq.infos[i] = ki(i)
  BY <1>5
<1>9. CountExact(kq)
  <2>1. CASE "DISABLE" \in fl
    <3>1. EnabledIds(kq) = {}
      BY <2>1, <1>1, <1>2, <1>6, <1>8 DEF EnabledIds, Ids
    <3>2. cnt = 0
      BY <2>1, <1>1, TableIds DEF cnt, WellFormed, CountExact
    <3> QED
      BY <3>1, <3>2, <1>5, FS_EmptySet DEF CountExact
  <2>2. CASE "DISABLE" \notin fl
    <3>1. EnabledIds(kq) = EnabledIds(kp)
      BY <2>2, <1>1, <1>2, <1>6, <1>8 DEF EnabledIds, Ids
    <3> QED
      BY <3>1, <2>2, <1>5 DEF cnt, WellFormed, CountExact
  <2> QED
    BY <2>1, <2>2
<1>10. LookupSound(kq)
  BY <1>2, <1>5, <1>6, <1>8, LookupKept DEF WellFormed
<1> QED
  BY <1>7, <1>9, <1>10 DEF WellFormed

(* Storing the backends' states leaves flags and index alone.              *)
LEMMA KiUpdateWellFormed ==
  ASSUME NEW kp, WellFormed(kp), NEW b \in Backends, NEW n \in Int
  PROVE  /\ WellFormed(KiUpdate(kp, b, n))
         /\ Ids(KiUpdate(kp, b, n)) = Ids(kp)
         /\ \A i \in Ids(kp) :
              /\ KiUpdate(kp, b, n).infos[i].disabled = kp.infos[i].disabled
              /\ KiUpdate(kp, b, n).infos[i].resolved =
                   IF i <= n /\ i \in Unresolved(kp, b)
                   THEN kp.infos[i].resolved \cup {b}
                   ELSE kp.infos[i].resolved
<1> DEFINE kq == KiUpdate(kp, b, n)
           ki(i) == IF i <= n /\ i \in Unresolved(kp, b)
                    THEN [kp.infos[i] EXCEPT
                            !.resolved = kp.infos[i].resolved \cup {b}]
                    ELSE kp.infos[i]
<1>1. kp \in Table /\ Len(kp.infos) \in Nat /\ Ids(kp) = 1 .. Len(kp.infos)
  BY TableIds DEF WellFormed, Ids
<1>2. ASSUME NEW i \in Ids(kp)
      PROVE  /\ ki(i) \in KeyInfo /\ ki(i).key = kp.infos[i].key
             /\ ki(i).disabled = kp.infos[i].disabled
             /\ ki(i).resolved = IF i <= n /\ i \in Unresolved(kp, b)
                                 THEN kp.infos[i].resolved \cup {b}
                                 ELSE kp.infos[i].resolved
  <2>1. kp.infos[i] \in KeyInfo
    BY <1>1, TableIds
  <2>2. CASE i <= n /\ i \in Unresolved(kp, b)
    BY <2>1, <2>2 DEF KeyInfo
  <2>3. CASE ~(i <= n /\ i \in Unresolved(kp, b))
    BY <2>1, <2>3
  <2> QED
    BY <2>2, <2>3
<1>3. kq = [kp EXCEPT !.infos = [i \in Ids(kp) |-> ki(i)]]
  BY DEF KiUpdate
<1> HIDE DEF ki
<1>4. /\ kq.infos = [i \in Ids(kp) |-> ki(i)] /\ kq.hash = kp.hash
      /\ kq.enabledCnt = kp.enabledCnt
  BY <1>1, <1>3 DEF Table
<1>5. kq.infos \in Seq(KeyInfo) /\ Len(kq.infos) = Len(kp.infos)
  <2>1. [i \in Ids(kp) |-> ki(i)] \in [1 .. Len(kp.infos) -> KeyInfo]
    BY <1>1, <1>2
  <2> QED
    BY <2>1, <1>1, <1>4, FunctionIsSeq
<1>6. kq \in Table
  BY <1>1, <1>3, <1>4, <1>5 DEF Table
<1>7. \A i \in Ids(kp) : kq.infos[i] = ki(i)
  BY <1>4
<1>8. EnabledIds(kq) = EnabledIds(kp) /\ Ids(kq) = Ids(kp)
  BY <1>1, <1>2, <1>5, <1>7 DEF EnabledIds, Ids
<1>9. LookupSound(kq)
  BY <1>2, <1>4, <1>5, <1>7, LookupKept DEF WellFormed
<1> QED
  BY <1>2, <1>4, <1>6, <1>7, <1>8, <1>9 DEF WellFormed, CountExact
(* A nonempty set of naturals with an upper bound has a largest element.   *)
LEMMA LargestElement ==
  ASSUME NEW n \in Nat, NEW S \in SUBSET (0 .. n), S # {}
  PROVE  \E i \in S : \A j \in S : j <= i
<1> DEFINE T == {m \in 0 .. n : n - m \in S}
           R == OpToRel(<, Nat)
<1>1. IsWellFoundedOn(R, Nat)
  BY NatLessThanWellFounded
<1>2. T \subseteq Nat /\ T # {}
  <2>1. PICK i \in S : TRUE
    OBVIOUS
  <2>2. n - i \in T
    BY <2>1
  <2>3. T \subseteq 0 .. n
    OBVIOUS
  <2> HIDE DEF T
  <2> QED
    BY <2>2, <2>3
<1>3. \A x, y \in Nat : y < x => <<y, x>> \in R
  BY DEF OpToRel
<1> HIDE DEF R
<1>4. PICK x \in T : \A y \in T : <<y, x>> \notin R
  <2> HIDE DEF T
  <2> QED
    BY <1>1, <1>2, WFMin
<1>5. \A y \in T : x <= y
  <2>1. T \subseteq Nat
    BY <1>2
  <2>2. TAKE y \in T
  <2>3. x \in Nat /\ y \in Nat
    BY <2>1
  <2>4. ~(y < x)
    BY <1>3, <1>4, <2>3
  <2> QED
    BY <2>3, <2>4
<1>6. n - x \in S /\ x \in 0 .. n
  OBVIOUS
<1>7. ASSUME NEW j \in S PROVE j <= n - x
  <2>1. n - j \in T /\ j \in 0 .. n
    BY <1>7
  <2>2. x <= n - j
    BY <2>1, <1>5
  <2> QED
    BY <2>1, <2>2, <1>6
<1> QED
  BY <1>6, <1>7

(* What a flush writes for a key is the value of one of its enabled infos. *)
LEMMA WrittenValueSource ==
  ASSUME NEW kp \in Table, NEW k, NEW n, Writers(kp, k, n) # {}
  PROVE  \E i \in Writers(kp, k, n) :
           /\ \A j \in Writers(kp, k, n) : j <= i
           /\ WrittenValue(kp, k, n) = kp.infos[i].value
           /\ WrittenValue(kp, k, n) \in Values
<1> DEFINE W == Writers(kp, k, n)
           Last(i) == \A j \in W : j <= i
<1>1. W \in SUBSET (0 .. Len(kp.infos)) /\ Len(kp.infos) \in Nat
  BY TableIds DEF Writers, EnabledIds, Ids
<1>2. \E i \in W : Last(i)
  BY <1>1, LargestElement
<1>3. WrittenValue(kp, k, n) = kp.infos[CHOOSE i \in W : Last(i)].value
  BY DEF WrittenValue
<1> HIDE DEF W, Last
<1>4. PICK i \in W : Last(i) /\ i = CHOOSE j \in W : Last(j)
  BY <1>2
<1>5. kp.infos[i].value \in Values
  <2>1. i \in Ids(kp)
    BY <1>4 DEF W, Writers, EnabledIds
  <2> QED
    BY <2>1, TableIds DEF KeyInfo
<1> QED
  BY <1>3, <1>4, <1>5 DEF W, Last

(* Two tables with the same names, values and flags: what an operation     *)
(* leaves that only looks keys up.                                         *)
SamePoints(kp, kq) ==
  /\ kq.hash = kp.hash /\ Ids(kq) = Ids(kp)
  /\ EnabledIds(kq) = EnabledIds(kp)
  /\ \A i \in Ids(kp) : /\ kq.infos[i].key = kp.infos[i].key
                        /\ kq.infos[i].value = kp.infos[i].value

(* Storing the backends' states touches no name and no value either.       *)
LEMMA KiUpdateSame ==
  ASSUME NEW kp, WellFormed(kp), NEW b \in Backends, NEW n \in Int
  PROVE  SamePoints(kp, KiUpdate(kp, b, n))
<1> DEFINE kq == KiUpdate(kp, b, n)
           ki(i) == IF i <= n /\ i \in Unresolved(kp, b)
                    THEN [kp.infos[i] EXCEPT
                            !.resolved = kp.infos[i].resolved \cup {b}]
                    ELSE kp.infos[i]
<1>1. kp \in Table
  BY DEF WellFormed
<1>2. kq.hash = kp.hash /\ kq.infos = [i \in Ids(kp) |-> ki(i)]
  BY <1>1 DEF KiUpdate, Table
<1>3. ASSUME NEW i \in Ids(kp)
      PROVE  ki(i).key = kp.infos[i].key /\ ki(i).value = kp.infos[i].value
  BY <1>1, TableIds DEF KeyInfo
<1>4. /\ Ids(kq) = Ids(kp)
      /\ \A i \in Ids(kp) : kq.infos[i].disabled = kp.infos[i].disabled
  BY KiUpdateWellFormed
<1>5. EnabledIds(kq) = EnabledIds(kp)
  BY <1>4 DEF EnabledIds
<1>6. \A i \in Ids(kp) : kq.infos[i] = ki(i)
  BY <1>2
<1> HIDE DEF kq, ki
<1>7. SamePoints(kp, kq)
  BY <1>2, <1>3, <1>4, <1>5, <1>6 DEF SamePoints
<1> QED
  BY <1>7 DEF kq

(* The lookup of the keys as a whole, and one that has failed.             *)
LEMMA LookedUpSame ==
  ASSUME NEW kp, WellFormed(kp), NEW b \in Backends, NEW l \in BOOLEAN
  PROVE  WellFormed(LookedUp(kp, b, l)) /\ SamePoints(kp, LookedUp(kp, b, l))
<1> DEFINE kr == IF kp.dirty /\ l THEN KiUpdate(kp, b, Len(kp.infos)) ELSE kp
           kq == [kr EXCEPT !.dirty = FALSE]
<1>1. Len(kp.infos) \in Int
  BY TableIds DEF WellFormed
<1>2. WellFormed(kr) /\ SamePoints(kp, kr)
  BY <1>1, KiUpdateWellFormed, KiUpdateSame DEF SamePoints
<1> HIDE DEF kr
<1>3. WellFormed(kq)
  BY <1>2, DirtyWellFormed
<1>4. kq.infos = kr.infos /\ kq.hash = kr.hash
  BY <1>2 DEF WellFormed, Table
<1>5. SamePoints(kp, kq)
  BY <1>2, <1>4 DEF SamePoints, Ids, EnabledIds
<1> QED
  BY <1>3, <1>5 DEF LookedUp, kr

LEMMA LookupFailedSame ==
  ASSUME NEW kp, WellFormed(kp), NEW b \in Backends, NEW i \in Ids(kp)
  PROVE  /\ WellFormed(LookupFailed(kp, b, i))
         /\ SamePoints(kp, LookupFailed(kp, b, i))
<1> DEFINE kr == KiUpdate(kp, b, i - 1)
           kq == [kr EXCEPT !.dirty = TRUE]
<1>1. i - 1 \in Int
  BY TableIds DEF WellFormed
<1>2. WellFormed(kr) /\ SamePoints(kp, kr)
  BY <1>1, KiUpdateWellFormed, KiUpdateSame
<1> HIDE DEF kr
<1>3. WellFormed(kq)
  BY <1>2, DirtyWellFormed
<1>4. kq.infos = kr.infos /\ kq.hash = kr.hash
  BY <1>2 DEF WellFormed, Table
<1>5. SamePoints(kp, kq)
  BY <1>2, <1>4 DEF SamePoints, Ids, EnabledIds
<1> QED
  BY <1>3, <1>5 DEF LookupFailed, kr

(* What kp_reset_disable leaves in each info.                              *)
LEMMA ResetDisableEffect ==
  ASSUME NEW kp, WellFormed(kp), NEW fl \in SUBSET FlagSet
  PROVE  LET kq == ResetDisable(kp, fl)
         IN /\ kq.hash = kp.hash /\ Ids(kq) = Ids(kp)
            /\ \A i \in Ids(kp) :
                 /\ kq.infos[i].key = kp.infos[i].key
                 /\ kq.infos[i].value =
                      IF "RESET" \in fl THEN 0 ELSE kp.infos[i].value
            /\ EnabledIds(kq) =
                 IF "DISABLE" \in fl THEN {} ELSE EnabledIds(kp)
<1> DEFINE kq == ResetDisable(kp, fl)
           v(i) == IF "RESET" \in fl THEN 0 ELSE kp.infos[i].value
           d(i) == kp.infos[i].disabled \/ "DISABLE" \in fl
           ki(i) == [kp.infos[i] EXCEPT !.value = v(i), !.disabled = d(i)]
<1>1. kp \in Table /\ Len(kp.infos) \in Nat /\ Ids(kp) = 1 .. Len(kp.infos)
  BY TableIds DEF WellFormed, Ids
<1>2. kq.infos = [i \in Ids(kp) |-> ki(i)] /\ kq.hash = kp.hash
  BY <1>1 DEF ResetDisable, Table
<1>3. Ids(kq) = Ids(kp)
  <2>1. kq \in Table
    BY ResetDisableWellFormed DEF WellFormed
  <2>2. DOMAIN kq.infos = 1 .. Len(kq.infos)
    BY <2>1 DEF Table
  <2>3. DOMAIN kq.infos = Ids(kp)
    BY <1>2
  <2> QED
    BY <2>2, <2>3 DEF Ids
<1>4. ASSUME NEW i \in Ids(kp)
      PROVE  /\ kq.infos[i].key = kp.infos[i].key
             /\ kq.infos[i].value = v(i) /\ kq.infos[i].disabled = d(i)
  <2>1. kp.infos[i] \in KeyInfo
    BY <1>1, TableIds
  <2>2. kq.infos[i] = ki(i)
    BY <1>2
  <2> HIDE DEF v, d, kq
  <2> QED
    BY <2>1, <2>2 DEF KeyInfo
<1>5. EnabledIds(kq) = IF "DISABLE" \in fl THEN {} ELSE EnabledIds(kp)
  BY <1>3, <1>4 DEF EnabledIds
<1> QED
  BY <1>2, <1>3, <1>4, <1>5

(* What timeseries_kp_add_key leaves: one more info, at the end, enabled.  *)
LEMMA AddKeyEffect ==
  ASSUME NEW kp, WellFormed(kp), NEW k \in Keys
  PROVE  LET kq == AddKey(kp, k)
             n == Len(kp.infos) + 1
         IN /\ n \in Nat /\ n \notin Ids(kp)
            /\ Ids(kq) = Ids(kp) \cup {n}
            /\ EnabledIds(kq) = EnabledIds(kp) \cup {n}
            /\ kq.hash = [kp.hash EXCEPT ![k] = n]
            /\ kq.infos[n] = FreshInfo(k)
            /\ \A i \in Ids(kp) : kq.infos[i] = kp.infos[i]
<1> DEFINE kq == AddKey(kp, k)
           n == Len(kp.infos) + 1
<1>1. /\ kp \in Table /\ Len(kp.infos) \in Nat
      /\ kp.infos \in Seq(KeyInfo) /\ FreshInfo(k) \in KeyInfo
  BY TableIds, ValuesAssumption DEF WellFormed, Table, KeyInfo, FreshInfo
<1>2. /\ kq.infos = Append(kp.infos, FreshInfo(k))
      /\ kq.hash = [kp.hash EXCEPT ![k] = n]
  BY DEF AddKey
<1>3. /\ Len(kq.infos) = n /\ kq.infos[n] = FreshInfo(k)
      /\ \A i \in 1 .. Len(kp.infos) : kq.infos[i] = kp.infos[i]
  BY <1>1, <1>2, AppendProperties
<1>4. Ids(kq) = Ids(kp) \cup {n} /\ n \notin Ids(kp)
  BY <1>1, <1>3 DEF Ids
<1>5. EnabledIds(kq) = EnabledIds(kp) \cup {n}
  BY <1>1, <1>3, <1>4 DEF EnabledIds, Ids, FreshInfo
<1> QED
  BY <1>1, <1>2, <1>3, <1>4, <1>5 DEF Ids

(* What timeseries_kp_set leaves: one value is another.                    *)
LEMMA SetValueEffect ==
  ASSUME NEW kp, WellFormed(kp), NEW i \in Ids(kp), NEW v \in Values
  PROVE  LET kq == SetValue(kp, i, v)
         IN /\ kq.hash = kp.hash /\ Ids(kq) = Ids(kp)
            /\ EnabledIds(kq) = EnabledIds(kp)
            /\ \A j \in Ids(kp) :
                 /\ kq.infos[j].key = kp.infos[j].key
                 /\ kq.infos[j].value = IF j = i THEN v ELSE kp.infos[j].value
<1> DEFINE kq == SetValue(kp, i, v)
           ki == [kp.infos[i] EXCEPT !.value = v]
<1>1. kp \in Table /\ kp.infos \in Seq(KeyInfo) /\ i \in 1 .. Len(kp.infos)
  BY DEF WellFormed, Table, Ids
<1>2. ki \in KeyInfo /\ ki.key = kp.infos[i].key /\ ki.value = v
      /\ ki.disabled = kp.infos[i].disabled
  BY <1>1, TableIds DEF KeyInfo
<1>3. kq.infos = [kp.infos EXCEPT ![i] = ki] /\ kq.hash = kp.hash
  BY <1>1 DEF SetValue, Table
<1> HIDE DEF ki, kq
<1>4. /\ Len(kq.infos) = Len(kp.infos)
      /\ \A j \in Ids(kp) : kq.infos[j] = IF j = i THEN ki ELSE kp.infos[j]
  BY <1>1, <1>2, <1>3, ExceptSeq DEF Ids
<1>5. Ids(kq) = Ids(kp) /\ EnabledIds(kq) = EnabledIds(kp)
  BY <1>2, <1>4 DEF EnabledIds, Ids
<1>6. \A j \in Ids(kp) :
        /\ kq.infos[j].key = kp.infos[j].key
        /\ kq.infos[j].value = IF j = i THEN v ELSE kp.infos[j].value
  BY <1>2, <1>4
<1> QED
  BY <1>3, <1>5, <1>6 DEF kq

(* What timeseries_kp_enable_key leaves: one info is enabled.              *)
LEMMA EnableKeyEffect ==
  ASSUME NEW kp, WellFormed(kp), NEW i \in Ids(kp)
  PROVE  LET kq == EnableKey(kp, i)
         IN /\ kq.hash = kp.hash /\ Ids(kq) = Ids(kp)
            /\ EnabledIds(kq) = EnabledIds(kp) \cup {i}
            /\ \A j \in Ids(kp) : /\ kq.infos[j].key = kp.infos[j].key
                                  /\ kq.infos[j].value = kp.infos[j].value
<1>1. CASE ~kp.infos[i].disabled
  <2>1. EnableKey(kp, i) = kp /\ i \in EnabledIds(kp)
    BY <1>1 DEF EnableKey, EnabledIds
  <2> QED
    BY <2>1
<1>2. CASE kp.infos[i].disabled
  <2> DEFINE kq == EnableKey(kp, i)
             ki == [kp.infos[i] EXCEPT !.disabled = FALSE]
  <2>1. kp \in Table /\ kp.infos \in Seq(KeyInfo) /\ i \in 1 .. Len(kp.infos)
    BY DEF WellFormed, Table, Ids
  <2>2. ki \in KeyInfo /\ ki.key = kp.infos[i].key /\ ~ki.disabled
        /\ ki.value = kp.infos[i].value
    BY <2>1, TableIds DEF KeyInfo
  <2>3. kq.infos = [kp.infos EXCEPT ![i] = ki] /\ kq.hash = kp.hash
    BY <1>2, <2>1 DEF EnableKey, Table
  <2> HIDE DEF ki, kq
  <2>4. /\ Len(kq.infos) = Len(kp.infos)
        /\ \A j \in Ids(kp) : kq.infos[j] = IF j = i THEN ki ELSE kp.infos[j]
    BY <2>1, <2>2, <2>3, ExceptSeq DEF Ids
  <2>5. Ids(kq) = Ids(kp) /\ EnabledIds(kq) = EnabledIds(kp) \cup {i}
    BY <2>2, <2>4 DEF EnabledIds, Ids
  <2>6. \A j \in Ids(kp) : /\ kq.infos[j].key = kp.infos[j].key
                          /\ kq.infos[j].value = kp.infos[j].value
    BY <2>2, <2>4
  <2> QED
    BY <2>3, <2>5, <2>6 DEF kq
<1> QED
  BY <1>1, <1>2

(* What timeseries_kp_disable_key leaves: one info is disabled.            *)
LEMMA DisableKeyEffect ==
  ASSUME NEW kp, WellFormed(kp), NEW i \in Ids(kp)
  PROVE  LET kq == DisableKey(kp, i)
         IN /\ kq.hash = kp.hash /\ Ids(kq) = Ids(kp)
            /\ EnabledIds(kq) = EnabledIds(kp) \ {i}
            /\ \A j \in Ids(kp) : /\ kq.infos[j].key = kp.infos[j].key
                                  /\ kq.infos[j].value = kp.infos[j].value
<1>1. CASE kp.infos[i].disabled
  <2>1. DisableKey(kp, i) = kp /\ i \notin EnabledIds(kp)
    BY <1>1 DEF DisableKey, EnabledIds
  <2> QED
    BY <2>1
<1>2. CASE ~kp.infos[i].disabled
  <2> DEFINE kq == DisableKey(kp, i)
             ki == [kp.infos[i] EXCEPT !.disabled = TRUE]
  <2>1. kp \in Table /\ kp.infos \in Seq(KeyInfo) /\ i \in 1 .. Len(kp.infos)
    BY DEF WellFormed, Table, Ids
  <2>2. ki \in KeyInfo /\ ki.key = kp.infos[i].key /\ ki.disabled
        /\ ki.value = kp.infos[i].value
    BY <2>1, TableIds DEF KeyInfo
  <2>3. kq.infos = [kp.infos EXCEPT ![i] = ki] /\ kq.hash = kp.hash
    BY <1>2, <2>1 DEF DisableKey, Table
  <2> HIDE DEF ki, kq
  <2>4. /\ Len(kq.infos) = Len(kp.infos)
        /\ \A j \in Ids(kp) : kq.infos[j] = IF j = i THEN ki ELSE kp.infos[j]
    BY <2>1, <2>2, <2>3, ExceptSeq DEF Ids
  <2>5. Ids(kq) = Ids(kp) /\ EnabledIds(kq) = EnabledIds(kp) \ {i}
    BY <2>2, <2>4 DEF EnabledIds, Ids
  <2>6. \A j \in Ids(kp) : /\ kq.infos[j].key = kp.infos[j].key
                          /\ kq.infos[j].value = kp.infos[j].value
    BY <2>2, <2>4
  <2> QED
    BY <2>3, <2>5, <2>6 DEF kq
<1> QED
  BY <1>1, <1>2

=============================================================================
