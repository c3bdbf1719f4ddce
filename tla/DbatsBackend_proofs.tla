------------------------- MODULE DbatsBackend_proofs -------------------------
(***************************************************************************)
(* Proofs about the DBATS backend: its types, that no transaction is left  *)
(* open, and that it implements the atomic store, for any number of        *)
(* processes, keys and points.                                             *)
(***************************************************************************)
EXTENDS DbatsBackend, TLAPS

InTxn == {"set", "commit"}
Busy == InTxn \cup {"select"}

(* A process has a transaction exactly while it sets or commits, its own,  *)
(* and nothing is kept of a transaction that has ended.                    *)
TxnInv ==
  /\ SnapshotsClosed
  /\ \A p \in Procs : pc[p] \in InTxn => snap[p] \in {p} \X {1, 2}
  /\ \A n \in Snaps : n \notin open => writes[n] = Unset

(* How far a call is, as its loop and as the counters of a bulk set see it.*)
Counts(p) ==
  /\ rc[p] = "pending" <=> pc[p] \in Busy
  /\ pc[p] = "commit" => next[p] = Len(todo[p]) + 1
  /\ pc[p] \in Busy /\ op[p] = "bulk" =>
       /\ todo[p] # << >>
       /\ bulk[p].expect = Len(todo[p])
       /\ pc[p] = "select" => bulk[p].cnt = 0
       /\ pc[p] = "set" => bulk[p].cnt = next[p] - 1
       /\ pc[p] \in InTxn => bulk[p].snap = snap[p]
  /\ bulk[p].snap \in {NoSnap} \cup ({p} \X {1, 2})

CountInv == \A p \in Procs : Counts(p)

StateInv == TypeOK /\ TxnInv /\ CountInv

-----------------------------------------------------------------------------
(* NULL is not a snapshot.                                                 *)
LEMMA NoSnapIsNone == NoSnap \notin Snaps
BY DEF NoSnap, Snaps

(* The next point of a call that sets points.                              *)
LEMMA PointType ==
  ASSUME TypeOK, NEW p \in Procs, pc[p] = "set"
  PROVE  /\ todo[p] \in Seq(Ids \X Values)
         /\ Point(p) \in Ids \X Values
         /\ Slot(p) \in Slots
<1>1. todo[p] \in Seq(Ids \X Values)
  BY DbatsAssumption DEF TypeOK
<1>2. next[p] \in 1 .. Len(todo[p])
  BY DEF TypeOK
<1>3. Point(p) \in Ids \X Values
  BY <1>1, <1>2 DEF Point
<1>4. time[p] \in Times
  BY DEF TypeOK
<1> QED
  BY <1>1, <1>3, <1>4 DEF Slot, Slots

(* The end of p's transaction leaves the transactions of the others alone. *)
LEMMA CloseTxn ==
  ASSUME TypeOK, TxnInv, NEW p \in Procs, pc[p] \in InTxn,
         CloseSnap(snap[p]),
         NEW label, label \notin InTxn, pc' = [pc EXCEPT ![p] = label],
         \A q \in Procs \ {p} : snap'[q] = snap[q]
  PROVE  /\ TxnInv'
         /\ open' \subseteq Snaps
         /\ holder' \in [Slots -> Snaps \cup {NoSnap}]
         /\ writes' \in [Snaps -> [Slots -> Values \cup {NoValue}]]
<1>1. \A q \in Procs : pc'[q] \in InTxn <=> q # p /\ pc[q] \in InTxn
  BY DEF TypeOK
<1>2. \A q \in Procs \ {p} : pc[q] \in InTxn => snap[q] # snap[p]
  BY DEF TxnInv
<1>3. open = {snap[q] : q \in {r \in Procs : pc[r] \in InTxn}}
  BY DEF TxnInv, SnapshotsClosed, InTxn
<1>4. open' = {snap'[q] : q \in {r \in Procs : pc'[r] \in InTxn}}
  BY <1>1, <1>2, <1>3 DEF CloseSnap
<1>5. \A s \in Slots : holder'[s] # NoSnap => holder'[s] \in open'
  BY DEF CloseSnap, TxnInv, SnapshotsClosed, TypeOK
<1>6. SnapshotsClosed'
  BY <1>4, <1>5 DEF SnapshotsClosed, InTxn
<1>7. Unset \in [Slots -> Values \cup {NoValue}]
  BY DEF Unset
<1>8. writes' \in [Snaps -> [Slots -> Values \cup {NoValue}]]
  BY <1>7 DEF CloseSnap, TypeOK
<1>9. \A n \in Snaps : n \notin open' => writes'[n] = Unset
  BY DEF CloseSnap, TxnInv
<1>10. \A q \in Procs : pc'[q] \in InTxn => snap'[q] \in {q} \X {1, 2}
  BY <1>1 DEF TxnInv
<1>11. /\ open' \subseteq Snaps
       /\ holder' \in [Slots -> Snaps \cup {NoSnap}]
  BY DEF CloseSnap, TypeOK
<1> QED
  BY <1>6, <1>8, <1>9, <1>10, <1>11 DEF TxnInv, Unset

-----------------------------------------------------------------------------
BulkState == [cnt : Nat, expect : Nat, snap : Snaps \cup {NoSnap}]

(* What an assignment to bulk_expect does to the whole state of a bulk set.*)
LEMMA SetExpect ==
  ASSUME bulk \in [Procs -> BulkState], NEW p \in Procs, NEW n \in Nat,
         bulk' = [bulk EXCEPT ![p].expect = n]
  PROVE  /\ bulk' \in [Procs -> BulkState]
         /\ bulk'[p] = [cnt |-> bulk[p].cnt, expect |-> n, snap |-> bulk[p].snap]
         /\ \A q \in Procs \ {p} : bulk'[q] = bulk[q]
BY DEF BulkState

(* The same for bulk_snap.                                                 *)
LEMMA SetSnap ==
  ASSUME bulk \in [Procs -> BulkState], NEW p \in Procs, NEW n \in Snaps \cup {NoSnap},
         bulk' = [bulk EXCEPT ![p].snap = n]
  PROVE  /\ bulk' \in [Procs -> BulkState]
         /\ bulk'[p] = [cnt |-> bulk[p].cnt, expect |-> bulk[p].expect, snap |-> n]
         /\ \A q \in Procs \ {p} : bulk'[q] = bulk[q]
BY DEF BulkState

(* The same for bulk_cnt.                                                  *)
LEMMA IncrementCnt ==
  ASSUME bulk \in [Procs -> BulkState], NEW p \in Procs,
         bulk' = [bulk EXCEPT ![p].cnt = @ + 1]
  PROVE  /\ bulk' \in [Procs -> BulkState]
         /\ bulk'[p] = [cnt |-> bulk[p].cnt + 1, expect |-> bulk[p].expect, snap |-> bulk[p].snap]
         /\ \A q \in Procs \ {p} : bulk'[q] = bulk[q]
BY DEF BulkState

-----------------------------------------------------------------------------
(* Invariance of the types, of the transactions and of the counts          *)

LEMMA StateInit == Init => StateInv
<1> SUFFICES ASSUME Init PROVE StateInv
  OBVIOUS
<1>1. TypeOK
  BY DbatsAssumption DEF Init, TypeOK, Unset, NoBulk, AllOps
<1>2. TxnInv
  BY DEF Init, TxnInv, SnapshotsClosed, InTxn
<1>3. CountInv
  BY DEF Init, CountInv, Counts, Busy, InTxn, NoBulk
<1> QED
  BY <1>1, <1>2, <1>3 DEF StateInv

(* A call that begins touches no transaction.                              *)
LEMMA StateBegin ==
  ASSUME StateInv, NEW p \in Procs, NEW o \in Ops, NEW t \in Times,
         NEW pts \in Batches, Begin(p, o, t, pts), Goto(p, "select"),
         \/ o # "bulk" /\ UNCHANGED bulk
         \/ /\ pts # << >> /\ bulk[p] = NoBulk
            /\ bulk' = [bulk EXCEPT ![p].expect = Len(pts)]
  PROVE  StateInv'
<1> USE DEF StateInv
<1>1. Len(pts) \in Nat
  BY DbatsAssumption
<1>2. /\ bulk' \in [Procs -> BulkState]
      /\ \A q \in Procs \ {p} : bulk'[q] = bulk[q]
      /\ bulk'[p].snap = bulk[p].snap
      /\ o = "bulk" => bulk'[p].expect = Len(pts) /\ bulk'[p].cnt = 0
  <2>1. bulk \in [Procs -> BulkState]
    BY DEF TypeOK, BulkState
  <2>2. CASE o # "bulk" /\ UNCHANGED bulk
    BY <2>1, <2>2
  <2>3. CASE /\ bulk[p] = NoBulk
             /\ bulk' = [bulk EXCEPT ![p].expect = Len(pts)]
    <3>1. /\ bulk' \in [Procs -> BulkState]
          /\ bulk'[p] = [cnt |-> bulk[p].cnt, expect |-> Len(pts),
                        snap |-> bulk[p].snap]
          /\ \A q \in Procs \ {p} : bulk'[q] = bulk[q]
      BY <1>1, <2>1, <2>3, SetExpect, Zenon
    <3> QED
      BY <2>3, <3>1 DEF NoBulk
  <2> QED
    BY <2>2, <2>3
<1>3. /\ calls' \in 0 .. MaxCalls
      /\ o \in AllOps
  BY DbatsAssumption DEF Begin, TypeOK
<1>4. TypeOK'
  BY <1>2, <1>3 DEF TypeOK, Begin, Goto, BulkState
<1>5. \A q \in Procs : pc'[q] \in InTxn <=> pc[q] \in InTxn
  BY DEF Begin, Goto, TypeOK, InTxn
<1>6. TxnInv'
  BY <1>5 DEF TxnInv, SnapshotsClosed, Begin, InTxn
<1>7. CountInv'
  <2> SUFFICES ASSUME NEW q \in Procs PROVE Counts(q)'
    BY DEF CountInv
  <2>1. CASE q = p
    BY <1>2, <2>1 DEF Begin, Goto, TypeOK, CountInv, Counts, Busy, InTxn
  <2>2. CASE q # p
    BY <1>2, <2>2 DEF Begin, Goto, TypeOK, CountInv, Counts
  <2> QED
    BY <2>1, <2>2
<1> QED
  BY <1>4, <1>6, <1>7

(* A transaction begins.                                                   *)
LEMMA StateSelect ==
  ASSUME StateInv, NEW p \in Procs, Select(p) PROVE StateInv'
<1> USE DEF StateInv
<1>1. PICK n \in {p} \X {1, 2} :
        /\ OpenSnap(n)
        /\ snap' = [snap EXCEPT ![p] = n]
        /\ bulk' = IF op[p] = "bulk" THEN [bulk EXCEPT ![p].snap = n] ELSE bulk
  BY DEF Select
<1>2. n \in Snaps
  BY <1>1 DEF Snaps
<1>3. /\ bulk' \in [Procs -> BulkState]
      /\ bulk'[p].cnt = bulk[p].cnt /\ bulk'[p].expect = bulk[p].expect
      /\ bulk'[p].snap = IF op[p] = "bulk" THEN n ELSE bulk[p].snap
      /\ \A q \in Procs \ {p} : bulk'[q] = bulk[q]
  <2>1. bulk \in [Procs -> BulkState]
    BY DEF TypeOK, BulkState
  <2>2. CASE op[p] = "bulk" /\ bulk' = [bulk EXCEPT ![p].snap = n]
    <3>1. /\ bulk' \in [Procs -> BulkState]
          /\ bulk'[p] = [cnt |-> bulk[p].cnt, expect |-> bulk[p].expect,
                        snap |-> n]
          /\ \A q \in Procs \ {p} : bulk'[q] = bulk[q]
      BY <1>2, <2>1, <2>2, SetSnap, Zenon
    <3> QED
      BY <2>2, <3>1
  <2>3. CASE op[p] # "bulk" /\ bulk' = bulk
    BY <2>1, <2>3
  <2> QED
    BY <1>1, <2>2, <2>3
<1>4. /\ pc[p] = "select"
      /\ pc' = [pc EXCEPT ![p] = IF todo[p] = << >> THEN "commit" ELSE "set"]
      /\ next' = [next EXCEPT ![p] = 1]
      /\ UNCHANGED <<callVars, rc>>
  BY DEF Select, Goto
<1>5. todo[p] # << >> => todo[p] \in Seq(Ids \X Values)
  BY DbatsAssumption DEF TypeOK
<1>6. todo[p] # << >> => 1 \in 1 .. Len(todo[p])
  BY <1>5
<1>7. todo[p] = << >> => Len(todo[p]) = 0
  OBVIOUS
<1>8. TypeOK'
  <2>1. /\ open' \subseteq Snaps
        /\ UNCHANGED <<db, holder, writes>>
    BY <1>1, <1>2 DEF OpenSnap, TypeOK
  <2>2. \A q \in Procs : pc'[q] = "set" => next'[q] \in 1 .. Len(todo'[q])
    BY <1>4, <1>6 DEF TypeOK, callVars
  <2> QED
    BY <1>1, <1>2, <1>3, <1>4, <2>1, <2>2 DEF TypeOK, callVars, BulkState
<1>9. TxnInv'
  <2>1. \A q \in Procs : pc'[q] \in InTxn <=> q = p \/ pc[q] \in InTxn
    BY <1>4 DEF TypeOK, InTxn
  <2>2. open' = {snap'[q] : q \in {r \in Procs : pc'[r] \in InTxn}}
    <3>1. open = {snap[q] : q \in {r \in Procs : pc[r] \in InTxn}}
      BY DEF TxnInv, SnapshotsClosed, InTxn
    <3>2. \A q \in Procs \ {p} : snap'[q] = snap[q]
      BY <1>1 DEF TypeOK
    <3>3. snap'[p] = n /\ pc[p] \notin InTxn /\ open' = open \cup {n}
      BY <1>1, <1>4 DEF TypeOK, OpenSnap, InTxn
    <3> QED
      BY <2>1, <3>1, <3>2, <3>3
  <2>3. \A s \in Slots : holder'[s] # NoSnap => holder'[s] \in open'
    BY <1>1 DEF OpenSnap, TxnInv, SnapshotsClosed
  <2>4. \A q \in Procs : pc'[q] \in InTxn => snap'[q] \in {q} \X {1, 2}
    BY <1>1, <2>1 DEF TxnInv, TypeOK
  <2>5. \A m \in Snaps : m \notin open' => writes'[m] = Unset
    BY <1>1 DEF OpenSnap, TxnInv
  <2> QED
    BY <2>2, <2>3, <2>4, <2>5 DEF TxnInv, SnapshotsClosed, InTxn, Unset
<1>10. CountInv'
  <2> SUFFICES ASSUME NEW q \in Procs PROVE Counts(q)'
    BY DEF CountInv
  <2>1. CASE q = p
    <3>1. /\ pc'[p] = IF todo[p] = << >> THEN "commit" ELSE "set"
          /\ next'[p] = 1
          /\ rc'[p] = "pending"
      BY <1>4 DEF TypeOK, CountInv, Counts, Busy
    <3>2. op[p] = "bulk" => /\ todo[p] # << >>
                            /\ bulk[p].expect = Len(todo[p])
                            /\ bulk[p].cnt = 0
      BY <1>4 DEF CountInv, Counts, Busy
    <3>3. /\ bulk'[p].snap \in {NoSnap} \cup ({p} \X {1, 2})
          /\ op[p] = "bulk" => bulk'[p].snap = snap'[p]
      BY <1>1, <1>3 DEF CountInv, Counts, TypeOK
    <3> QED
      BY <1>3, <1>4, <1>7, <2>1, <3>1, <3>2, <3>3
      DEF Counts, callVars, Busy, InTxn
  <2>2. CASE q # p
    BY <1>1, <1>3, <1>4, <2>2 DEF CountInv, Counts, callVars, TypeOK
  <2> QED
    BY <2>1, <2>2
<1> QED
  BY <1>8, <1>9, <1>10

(* A point is set.                                                         *)
LEMMA StateSetValue ==
  ASSUME StateInv, NEW p \in Procs, SetValue(p) PROVE StateInv'
<1> USE DEF StateInv
<1>1. PICK v \in Val(p) : SetPoint(snap[p], Slot(p), v)
  BY DEF SetValue
<1>2. /\ pc[p] = "set"
      /\ Slot(p) \in Slots
      /\ v \in Values
  BY <1>1, PointType DEF SetValue, Val
<1>3. snap[p] \in open /\ snap[p] \in Snaps
  BY <1>2 DEF TxnInv, SnapshotsClosed, TypeOK
<1>4. /\ UNCHANGED <<db, open, snap, rc, op, time, todo, calls>>
      /\ next' = [next EXCEPT ![p] = @ + 1]
  BY <1>1 DEF SetPoint, SetValue, callVars
<1>5. /\ bulk' \in [Procs -> BulkState]
      /\ bulk'[p].expect = bulk[p].expect /\ bulk'[p].snap = bulk[p].snap
      /\ op[p] = "bulk" => bulk'[p].cnt = bulk[p].cnt + 1
      /\ \A q \in Procs \ {p} : bulk'[q] = bulk[q]
  <2>1. bulk \in [Procs -> BulkState]
    BY DEF TypeOK, BulkState
  <2>2. CASE op[p] = "bulk"
    <3>1. bulk' = [bulk EXCEPT ![p].cnt = @ + 1]
      BY <2>2 DEF SetValue
    <3>2. /\ bulk' \in [Procs -> BulkState]
          /\ bulk'[p] = [cnt |-> bulk[p].cnt + 1, expect |-> bulk[p].expect,
                        snap |-> bulk[p].snap]
          /\ \A q \in Procs \ {p} : bulk'[q] = bulk[q]
      BY <2>1, <3>1, IncrementCnt, Zenon
    <3> QED
      BY <3>2
  <2>3. CASE op[p] # "bulk"
    BY <2>1, <2>3 DEF SetValue
  <2> QED
    BY <2>2, <2>3
<1>6. next[p] \in 1 .. Len(todo[p]) /\ next'[p] = next[p] + 1
  BY <1>2, <1>4 DEF TypeOK
<1>7. pc' = [pc EXCEPT ![p] = IF next[p] = Len(todo[p]) THEN "commit" ELSE "set"]
  <2>1. CASE op[p] = "bulk"
    <3>1. bulk[p].expect = Len(todo[p]) /\ bulk[p].cnt = next[p] - 1
      BY <1>2, <2>1 DEF CountInv, Counts, Busy, InTxn
    <3>2. bulk'[p].cnt = next[p]
      BY <1>5, <1>6, <2>1, <3>1
    <3> QED
      BY <2>1, <3>1, <3>2 DEF SetValue, Goto
  <2>2. CASE op[p] # "bulk"
    BY <2>2 DEF SetValue, Goto
  <2> QED
    BY <2>1, <2>2
<1>8. TypeOK'
  <2>1. /\ holder' \in [Slots -> Snaps \cup {NoSnap}]
        /\ writes' \in [Snaps -> [Slots -> Values \cup {NoValue}]]
    BY <1>1, <1>2, <1>3 DEF SetPoint, TypeOK
  <2>2. \A q \in Procs : pc'[q] = "set" => next'[q] \in 1 .. Len(todo'[q])
    BY <1>4, <1>6, <1>7 DEF TypeOK
  <2>3. /\ pc' \in [Procs -> {"idle", "select", "set", "commit"} \cup Stopped]
        /\ next' \in [Procs -> Nat]
    BY <1>4, <1>7 DEF TypeOK
  <2> QED
    BY <1>4, <1>5, <2>1, <2>2, <2>3 DEF TypeOK, BulkState
<1>9. TxnInv'
  <2>1. \A q \in Procs : pc'[q] \in InTxn <=> pc[q] \in InTxn
    BY <1>2, <1>7 DEF TypeOK, InTxn
  <2>2. \A s \in Slots : holder'[s] # NoSnap => holder'[s] \in open'
    BY <1>1, <1>3 DEF SetPoint, TxnInv, SnapshotsClosed, TypeOK
  <2>3. \A m \in Snaps : m \notin open' => writes'[m] = Unset
    BY <1>1, <1>3 DEF SetPoint, TxnInv, TypeOK
  <2>4. SnapshotsClosed'
    BY <1>4, <2>1, <2>2 DEF TxnInv, SnapshotsClosed, InTxn
  <2> QED
    BY <1>4, <2>1, <2>3, <2>4 DEF TxnInv, Unset
<1>10. CountInv'
  <2> SUFFICES ASSUME NEW q \in Procs PROVE Counts(q)'
    BY DEF CountInv
  <2>1. CASE q = p
    <3>1. pc'[p] \in InTxn /\ (pc'[p] = "commit" => next[p] = Len(todo[p]))
      BY <1>7 DEF TypeOK, InTxn
    <3>2. op[p] = "bulk" => bulk[p].cnt = next[p] - 1
      BY <1>2 DEF CountInv, Counts, Busy, InTxn
    <3> QED
      BY <1>2, <1>4, <1>5, <1>6, <2>1, <3>1, <3>2 DEF CountInv, Counts, Busy, InTxn
  <2>2. CASE q # p
    BY <1>4, <1>5, <1>7, <2>2 DEF CountInv, Counts, TypeOK
  <2> QED
    BY <2>1, <2>2
<1> QED
  BY <1>8, <1>9, <1>10

(* A call ends its transaction and returns.                                *)
LEMMA StateReturn ==
  ASSUME StateInv, NEW p \in Procs, pc[p] \in InTxn, CloseSnap(snap[p]),
         NEW code \in {"ok", "failed"}, Return(p, code),
         db' \in [Slots -> Values \cup {NoValue}],
         bulk' \in {bulk, [bulk EXCEPT ![p] = NoBulk]}
  PROVE  StateInv'
<1> USE DEF StateInv
<1>1. /\ pc' = [pc EXCEPT ![p] = "idle"]
      /\ \A q \in Procs \ {p} : snap'[q] = snap[q]
      /\ UNCHANGED callVars
  BY DEF Return, Goto, TypeOK
<1>2. /\ TxnInv'
      /\ open' \subseteq Snaps
      /\ holder' \in [Slots -> Snaps \cup {NoSnap}]
      /\ writes' \in [Snaps -> [Slots -> Values \cup {NoValue}]]
  BY <1>1, CloseTxn DEF InTxn
<1>3. NoBulk \in BulkState
  BY DEF NoBulk, BulkState
<1>4. /\ bulk' \in [Procs -> BulkState]
      /\ bulk'[p] \in {bulk[p], NoBulk}
      /\ \A q \in Procs \ {p} : bulk'[q] = bulk[q]
  <2>1. bulk \in [Procs -> BulkState]
    BY DEF TypeOK, BulkState
  <2>2. CASE bulk' = bulk
    BY <2>1, <2>2
  <2>3. CASE bulk' = [bulk EXCEPT ![p] = NoBulk]
    BY <1>3, <2>1, <2>3
  <2> QED
    BY <2>2, <2>3
<1>5. TypeOK'
  <2>1. /\ next' \in [Procs -> Nat]
        /\ snap' \in [Procs -> Snaps \cup {NoSnap}]
        /\ rc' \in [Procs -> {"none", "pending", "ok", "failed"}]
    BY DEF Return, TypeOK
  <2>2. \A q \in Procs : pc'[q] = "set" => next'[q] \in 1 .. Len(todo'[q])
    BY <1>1 DEF Return, TypeOK, callVars
  <2>3. pc' \in [Procs -> {"idle", "select", "set", "commit"} \cup Stopped]
    BY <1>1 DEF TypeOK
  <2> QED
    BY <1>1, <1>2, <1>4, <2>1, <2>2, <2>3 DEF TypeOK, callVars, BulkState
<1>6. CountInv'
  <2> SUFFICES ASSUME NEW q \in Procs PROVE Counts(q)'
    BY DEF CountInv
  <2>1. CASE q = p
    <3>1. pc'[p] = "idle" /\ rc'[p] = code
      BY <1>1 DEF Return, TypeOK
    <3>2. bulk'[p].snap \in {NoSnap} \cup ({p} \X {1, 2})
      BY <1>4 DEF NoBulk, CountInv, Counts
    <3> QED
      BY <2>1, <3>1, <3>2 DEF Counts, Busy, InTxn
  <2>2. CASE q # p
    BY <1>1, <1>4, <2>2 DEF Return, CountInv, Counts, callVars, TypeOK
  <2> QED
    BY <2>1, <2>2
<1> QED
  BY <1>2, <1>5, <1>6

(* A call ends its transaction and starts over.                            *)
LEMMA StateStartOver ==
  ASSUME StateInv, NEW p \in Procs, pc[p] \in InTxn, CloseSnap(snap[p]),
         StartOver(p), UNCHANGED <<db, bulk>>
  PROVE  StateInv'
<1> USE DEF StateInv
<1>1. CASE op[p] = "bulk"
  <2>1. Return(p, "failed")
    BY <1>1 DEF StartOver
  <2>2. db' \in [Slots -> Values \cup {NoValue}]
    BY DEF TypeOK
  <2> QED
    BY <2>1, <2>2, StateReturn
<1>2. CASE op[p] # "bulk"
  <2>1. /\ pc' = [pc EXCEPT ![p] = "select"]
        /\ UNCHANGED <<callVars, next, snap, rc>>
    BY <1>2 DEF StartOver, Goto
  <2>2. /\ TxnInv'
        /\ open' \subseteq Snaps
        /\ holder' \in [Slots -> Snaps \cup {NoSnap}]
        /\ writes' \in [Snaps -> [Slots -> Values \cup {NoValue}]]
    BY <2>1, CloseTxn DEF InTxn
  <2>3. TypeOK'
    BY <2>1, <2>2 DEF TypeOK, callVars
  <2>4. CountInv'
    <3> SUFFICES ASSUME NEW q \in Procs PROVE Counts(q)'
      BY DEF CountInv
    <3>1. CASE q = p
      BY <1>2, <2>1, <3>1 DEF CountInv, Counts, callVars, TypeOK, Busy, InTxn
    <3>2. CASE q # p
      BY <2>1, <3>2 DEF CountInv, Counts, callVars, TypeOK
    <3> QED
      BY <3>1, <3>2
  <2> QED
    BY <2>2, <2>3, <2>4
<1> QED
  BY <1>1, <1>2

(* A call returns before it has a transaction.                             *)
LEMMA StateSelectFails ==
  ASSUME StateInv, NEW p \in Procs, SelectFails(p) PROVE StateInv'
<1> USE DEF StateInv
<1>1. /\ pc[p] = "select"
      /\ pc' = [pc EXCEPT ![p] = "idle"]
      /\ rc' = [rc EXCEPT ![p] = "failed"]
      /\ next' = [next EXCEPT ![p] = 1]
      /\ snap' = [snap EXCEPT ![p] = NoSnap]
      /\ UNCHANGED <<callVars, db, open, holder, writes, bulk>>
  BY DEF SelectFails, Return, Goto
<1>2. TypeOK'
  BY <1>1 DEF TypeOK, callVars
<1>3. \A q \in Procs : /\ pc'[q] \in InTxn <=> pc[q] \in InTxn
                       /\ pc'[q] \in InTxn => snap'[q] = snap[q]
  BY <1>1 DEF TypeOK, InTxn
<1>4. TxnInv'
  BY <1>1, <1>3 DEF TxnInv, SnapshotsClosed, InTxn
<1>5. CountInv'
  <2> SUFFICES ASSUME NEW q \in Procs PROVE Counts(q)'
    BY DEF CountInv
  <2>1. CASE q = p
    BY <1>1, <2>1 DEF TypeOK, CountInv, Counts, Busy, InTxn
  <2>2. CASE q # p
    BY <1>1, <2>2 DEF CountInv, Counts, callVars, TypeOK
  <2> QED
    BY <2>1, <2>2
<1> QED
  BY <1>2, <1>4, <1>5

(* The assertion of set_bulk_init fails.                                   *)
LEMMA StateBulkInitAborts ==
  ASSUME StateInv, NEW p \in Procs, BulkInitAborts(p) PROVE StateInv'
<1> USE DEF StateInv
<1>1. /\ pc[p] = "idle"
      /\ pc' = [pc EXCEPT ![p] = "aborted"]
      /\ UNCHANGED <<db, open, holder, writes, callVars, next, snap, bulk, rc>>
  BY DEF BulkInitAborts, Goto
<1>2. TypeOK'
  BY <1>1 DEF TypeOK, callVars, Stopped
<1>3. \A q \in Procs : /\ pc'[q] \in InTxn <=> pc[q] \in InTxn
                       /\ pc'[q] \in Busy <=> pc[q] \in Busy
                       /\ pc'[q] \in Busy => pc'[q] = pc[q]
  BY <1>1 DEF TypeOK, InTxn, Busy
<1>4. TxnInv'
  BY <1>1, <1>3 DEF TxnInv, SnapshotsClosed, InTxn
<1>5. CountInv'
  BY <1>1, <1>3 DEF CountInv, Counts, callVars, Busy, InTxn
<1> QED
  BY <1>2, <1>4, <1>5

(* The backend is freed: in the middle of a bulk set its snapshot is open  *)
(* and gets closed; otherwise none of the process is.                      *)
LEMMA StateFree ==
  ASSUME StateInv, NEW p \in Procs, Free(p) PROVE StateInv'
<1> USE DEF StateInv
<1> DEFINE n == bulk[p].snap
<1>1. UNCHANGED <<db, callVars, next, snap>>
  BY DEF Free
<1>2. n \in {NoSnap} \cup ({p} \X {1, 2})
  BY DEF CountInv, Counts
<1>3. /\ bulk' \in [Procs -> BulkState]
      /\ bulk'[p].snap \in {NoSnap} \cup ({p} \X {1, 2})
      /\ \A q \in Procs \ {p} : bulk'[q] = bulk[q]
  <2>1. bulk \in [Procs -> BulkState]
    BY DEF TypeOK, BulkState
  <2>2. CASE bulk' = [bulk EXCEPT ![p].snap = NoSnap]
    <3>1. /\ bulk' \in [Procs -> BulkState]
          /\ bulk'[p] = [cnt |-> bulk[p].cnt, expect |-> bulk[p].expect,
                        snap |-> NoSnap]
          /\ \A q \in Procs \ {p} : bulk'[q] = bulk[q]
      BY <2>1, <2>2, SetSnap, Zenon
    <3> QED
      BY <3>1
  <2>3. CASE bulk' = bulk
    BY <1>2, <2>1, <2>3
  <2> QED
    BY <2>2, <2>3 DEF Free
<1>4. PICK label \in {"freed", "crashed"} : pc' = [pc EXCEPT ![p] = label]
  BY DEF Free, Goto
<1>5. label \notin Busy
  BY <1>4 DEF Busy, InTxn
<1>6. /\ TxnInv'
      /\ open' \subseteq Snaps
      /\ holder' \in [Slots -> Snaps \cup {NoSnap}]
      /\ writes' \in [Snaps -> [Slots -> Values \cup {NoValue}]]
  <2>1. CASE pc[p] = "set" /\ op[p] = "bulk"
    <3>1. n = snap[p] /\ n \in open
      BY <2>1 DEF CountInv, Counts, Busy, InTxn, TxnInv, SnapshotsClosed
    <3>2. CloseSnap(snap[p])
      BY <3>1 DEF Free
    <3> QED
      BY <1>1, <1>4, <1>5, <2>1, <3>2, CloseTxn DEF InTxn, Busy
  <2>2. CASE pc[p] = "idle"
    <3>1. n \notin open
      BY <1>2, <2>2, NoSnapIsNone DEF TxnInv, SnapshotsClosed, InTxn, TypeOK
    <3>2. UNCHANGED <<open, holder, writes>>
      <4>1. CASE n = NoSnap
        <5>1. CloseSnap(NoSnap)
          BY <4>1 DEF Free
        <5> QED
          BY <5>1, NoSnapIsNone DEF CloseSnap, TypeOK
      <4>2. CASE n # NoSnap
        BY <3>1, <4>2 DEF Free
      <4> QED
        BY <4>1, <4>2
    <3>3. \A q \in Procs : pc'[q] \in InTxn <=> pc[q] \in InTxn
      BY <1>4, <1>5, <2>2 DEF TypeOK, InTxn, Busy
    <3> QED
      BY <1>1, <3>2, <3>3 DEF TxnInv, SnapshotsClosed, InTxn, TypeOK
  <2> QED
    BY <2>1, <2>2 DEF Free
<1>7. TypeOK'
  <2>1. /\ pc' \in [Procs -> {"idle", "select", "set", "commit"} \cup Stopped]
        /\ \A q \in Procs : pc'[q] = "set" => pc[q] = "set"
    BY <1>4 DEF TypeOK, Stopped
  <2>2. rc' \in [Procs -> {"none", "pending", "ok", "failed"}]
    BY DEF Free, TypeOK
  <2> QED
    BY <1>1, <1>3, <1>6, <2>1, <2>2 DEF TypeOK, callVars, BulkState
<1>8. CountInv'
  <2> SUFFICES ASSUME NEW q \in Procs PROVE Counts(q)'
    BY DEF CountInv
  <2>1. CASE q = p
    <3>1. pc'[p] \notin Busy /\ rc'[p] # "pending"
      BY <1>4, <1>5 DEF Free, TypeOK, CountInv, Counts, Busy, InTxn
    <3> QED
      BY <1>3, <2>1, <3>1 DEF Counts, Busy, InTxn
  <2>2. CASE q # p
    <3>1. pc'[q] = pc[q] /\ rc'[q] = rc[q] /\ bulk'[q] = bulk[q]
      BY <1>3, <1>4, <2>2 DEF Free, TypeOK
    <3>2. Counts(q)
      BY DEF CountInv
    <3> QED
      BY <1>1, <3>1, <3>2 DEF Counts, callVars
  <2> QED
    BY <2>1, <2>2
<1> QED
  BY <1>6, <1>7, <1>8

(* Every action that ends a transaction does it in one of two ways.        *)
LEMMA StateTxnEnds ==
  ASSUME StateInv, NEW p \in Procs,
         \/ SetDeadlocks(p) \/ SetFails(p)
         \/ Commit(p) \/ CommitDeadlocks(p) \/ CommitFails(p)
  PROVE  StateInv'
<1>0. db \in [Slots -> Values \cup {NoValue}]
  BY DEF StateInv, TypeOK
<1>1. CASE SetDeadlocks(p)
  BY <1>1, StateStartOver DEF SetDeadlocks, Waits, InTxn
<1>2. CASE SetFails(p)
  BY <1>0, <1>2, StateReturn DEF SetFails, InTxn
<1>3. CASE Commit(p)
  <2>1. pc[p] \in InTxn /\ CloseSnap(snap[p]) /\ Return(p, "ok")
    BY <1>3 DEF Commit, InTxn
  <2>2. snap[p] \in Snaps
    BY <2>1 DEF StateInv, TxnInv, Snaps
  <2>3. Committed(snap[p]) \in [Slots -> Values \cup {NoValue}]
    BY <1>0, <2>2 DEF Committed, StateInv, TypeOK
  <2>4. db' \in [Slots -> Values \cup {NoValue}]
    BY <1>3, <2>3 DEF Commit
  <2>5. bulk' \in {bulk, [bulk EXCEPT ![p] = NoBulk]}
    BY <1>3 DEF Commit
  <2> QED
    BY <2>1, <2>4, <2>5, StateReturn
<1>4. CASE CommitDeadlocks(p)
  BY <1>4, StateStartOver DEF CommitDeadlocks, InTxn
<1>5. CASE CommitFails(p)
  BY <1>0, <1>5, StateReturn DEF CommitFails, InTxn
<1> QED
  BY <1>1, <1>2, <1>3, <1>4, <1>5

LEMMA StateStep == StateInv /\ [Next]_vars => StateInv'
<1> SUFFICES ASSUME StateInv, [Next]_vars PROVE StateInv'
  OBVIOUS
<1>1. ASSUME NEW p \in Procs, Client(p) PROVE StateInv'
  <2>1. ASSUME NEW o \in Ops, NEW t \in Times, NEW pts \in Batches,
               BeginCall(p, o, t, pts)
        PROVE  StateInv'
    BY <2>1, StateBegin DEF BeginCall
  <2>2. ASSUME NEW t \in Times, NEW pts \in Batches, "bulk" \in Ops,
               BulkInit(p, t, pts)
        PROVE  StateInv'
    BY <2>2, StateBegin DEF BulkInit
  <2> QED
    BY <1>1, <2>1, <2>2, StateBulkInitAborts, StateFree DEF Client
<1>2. ASSUME NEW p \in Procs, Call(p) PROVE StateInv'
  BY <1>2, StateSelect, StateSetValue, StateTxnEnds DEF Call
<1>3. ASSUME NEW p \in Procs, CallFails(p) PROVE StateInv'
  BY <1>3, StateSelectFails, StateTxnEnds DEF CallFails
<1>4. CASE UNCHANGED vars
  BY <1>4 DEF vars, callVars, StateInv, TypeOK, TxnInv, SnapshotsClosed,
              CountInv, Counts, Unset, InTxn, Busy
<1> QED
  BY <1>1, <1>2, <1>3, <1>4 DEF Next

(* The invariant of all that follows.                                      *)
LEMMA StateInvariant == Spec => []StateInv
<1>1. Init => StateInv
  BY StateInit
<1>2. StateInv /\ [Next]_vars => StateInv'
  BY StateStep
<1> QED
  BY <1>1, <1>2, PTL DEF Spec

(* Type correctness, for any number of processes, keys and points; a call  *)
(* that sets points has one to set, also if the counters of a bulk set     *)
(* decide when it ends.                                                    *)
THEOREM TypeCorrect == Spec => []TypeOK
<1>1. StateInv => TypeOK
  BY DEF StateInv
<1> QED
  BY <1>1, StateInvariant, PTL

(* Whatever fails or starts over: timeseries_backend_dbats leaves no       *)
(* transaction open behind it, and no lock is held by one that has ended.  *)
THEOREM ClosesSnapshots == Spec => []SnapshotsClosed
<1>1. StateInv => SnapshotsClosed
  BY DEF StateInv, TxnInv
<1> QED
  BY <1>1, StateInvariant, PTL

-----------------------------------------------------------------------------
(* The atomic store                                                        *)

NoSetSingle == "set_single" \notin Ops

(* The last of the points before the next one that has the id of s.        *)
Latest(p, s, i) ==
  /\ i \in 1 .. next[p] - 1
  /\ todo[p][i][1] = s[2]
  /\ \A j \in 1 .. next[p] - 1 : todo[p][j][1] = s[2] => j <= i

(* A transaction has the points in front of the next one, and nothing else.*)
Holds(p, s) ==
  \/ /\ writes[snap[p]][s] = NoValue
     /\ s[1] = time[p] =>
          \A i \in 1 .. next[p] - 1 : todo[p][i][1] # s[2]
  \/ /\ s[1] = time[p]
     /\ \E i \in 1 .. next[p] - 1 :
          Latest(p, s, i) /\ writes[snap[p]][s] = todo[p][i][2]

OverlayInv ==
  \A p \in Procs :
    /\ op[p] # "set_single"
    /\ pc[p] \in InTxn => \A s \in Slots : Holds(p, s)

AtomicInv == StateInv /\ OverlayInv

(* What a process has done stays as it is when another one takes a step.   *)
LEMMA HoldsUnchanged ==
  ASSUME NEW p \in Procs, NEW s,
         writes'[snap'[p]] = writes[snap[p]], next'[p] = next[p],
         todo'[p] = todo[p], time'[p] = time[p], Holds(p, s)
  PROVE  Holds(p, s)'
BY DEF Holds, Latest

LEMMA OverlayInit == Init => OverlayInv
BY DEF Init, OverlayInv, InTxn

(* A transaction begins with no point set.                                 *)
LEMMA OverlaySelect ==
  ASSUME AtomicInv, NEW p \in Procs, Select(p) PROVE OverlayInv'
<1> USE DEF AtomicInv, StateInv
<1>1. PICK n \in {p} \X {1, 2} :
        /\ OpenSnap(n)
        /\ snap' = [snap EXCEPT ![p] = n]
  BY DEF Select
<1>2. /\ next' = [next EXCEPT ![p] = 1]
      /\ \A q \in Procs \ {p} : pc'[q] = pc[q]
      /\ UNCHANGED <<op, time, todo, writes>>
  BY <1>1 DEF Select, Goto, OpenSnap, callVars, TypeOK
<1>3. \A s \in Slots : Holds(p, s)'
  <2>1. n \in Snaps
    BY <1>1 DEF Snaps
  <2>2. snap'[p] = n /\ next'[p] = 1
    BY <1>1, <1>2 DEF TypeOK
  <2>3. writes'[n] = Unset
    BY <1>1, <1>2, <2>1 DEF OpenSnap, TxnInv
  <2> QED
    BY <2>2, <2>3 DEF Holds, Unset
<1>4. \A q \in Procs \ {p} : pc'[q] \in InTxn => \A s \in Slots : Holds(q, s)'
  <2> SUFFICES ASSUME NEW q \in Procs \ {p}, pc'[q] \in InTxn, NEW s \in Slots
               PROVE  Holds(q, s)'
    OBVIOUS
  <2>1. Holds(q, s)
    BY <1>2 DEF OverlayInv
  <2>2. snap'[q] = snap[q] /\ next'[q] = next[q]
    BY <1>1, <1>2 DEF TypeOK
  <2> QED
    BY <1>2, <2>1, <2>2, HoldsUnchanged
<1> QED
  BY <1>2, <1>3, <1>4 DEF OverlayInv

(* Setting a point moves the next point on, and its value is the latest.   *)
LEMMA OverlaySetValue ==
  ASSUME AtomicInv, NEW p \in Procs, SetValue(p) PROVE OverlayInv'
<1> USE DEF AtomicInv, StateInv
<1>1. /\ pc[p] = "set"
      /\ op[p] # "set_single"
      /\ SetPoint(snap[p], Slot(p), Point(p)[2])
  BY DEF SetValue, Val, OverlayInv
<1>2. /\ next' = [next EXCEPT ![p] = @ + 1]
      /\ \A q \in Procs \ {p} : pc'[q] = pc[q]
      /\ UNCHANGED <<op, time, todo, snap>>
  BY DEF SetValue, Goto, callVars, TypeOK
<1>3. /\ Slot(p) \in Slots
      /\ Slot(p) = <<time[p], todo[p][next[p]][1]>>
      /\ next[p] \in Nat \ {0}
  BY <1>1, PointType DEF Slot, Point, TypeOK
<1>4. snap[p] \in Snaps
  BY <1>1 DEF TxnInv, Snaps, InTxn
<1>5. writes' = [writes EXCEPT ![snap[p]][Slot(p)] = todo[p][next[p]][2]]
  BY <1>1 DEF SetPoint, Point
<1>6. ASSUME NEW s \in Slots PROVE Holds(p, s)'
  <2>1. Holds(p, s)
    BY <1>1 DEF OverlayInv, InTxn
  <2>2. next'[p] = next[p] + 1 /\ UNCHANGED <<time, todo, snap>>
    BY <1>2 DEF TypeOK
  <2>3. CASE s = Slot(p)
    <3>1. writes'[snap[p]][s] = todo[p][next[p]][2]
      BY <1>3, <1>4, <1>5, <2>3 DEF TypeOK
    <3>2. s[1] = time[p] /\ s[2] = todo[p][next[p]][1]
      BY <1>3, <2>3
    <3>3. PICK k \in Nat \ {0} : k = next[p]
      BY <1>3
    <3>4. Latest(p, s, k)'
      BY <2>2, <3>2, <3>3 DEF Latest
    <3> QED
      BY <2>2, <3>1, <3>2, <3>3, <3>4 DEF Holds
  <2>4. CASE s # Slot(p)
    <3>1. writes'[snap[p]][s] = writes[snap[p]][s]
      BY <1>4, <1>5, <2>4 DEF TypeOK
    <3>2. s[1] # time[p] \/ s[2] # todo[p][next[p]][1]
      BY <1>3, <2>4 DEF Slots
    <3>3. CASE s[1] # time[p]
      BY <2>1, <2>2, <3>1, <3>3 DEF Holds
    <3>4. CASE s[2] # todo[p][next[p]][1]
      BY <1>3, <2>1, <2>2, <3>1, <3>4 DEF Holds, Latest
    <3> QED
      BY <3>2, <3>3, <3>4
  <2> QED
    BY <2>3, <2>4
<1>7. \A q \in Procs \ {p} : pc'[q] \in InTxn => \A s \in Slots : Holds(q, s)'
  <2> SUFFICES ASSUME NEW q \in Procs \ {p}, pc'[q] \in InTxn, NEW s \in Slots
               PROVE  Holds(q, s)'
    OBVIOUS
  <2>1. Holds(q, s)
    BY <1>2 DEF OverlayInv
  <2>2. snap[q] # snap[p]
    BY <1>1, <1>2 DEF TxnInv, InTxn
  <2>3. snap'[q] = snap[q] /\ next'[q] = next[q]
    BY <1>2 DEF TypeOK
  <2>4. writes'[snap[q]] = writes[snap[q]]
    BY <1>4, <1>5, <2>2 DEF TypeOK
  <2> QED
    BY <1>2, <2>1, <2>3, <2>4, HoldsUnchanged
<1> QED
  BY <1>2, <1>6, <1>7 DEF OverlayInv

(* A step that keeps the calls and transactions of the processes that are  *)
(* in a transaction after it.                                              *)
LEMMA OverlayKept ==
  ASSUME AtomicInv,
         \A q \in Procs : op'[q] \in Ops \cup {op[q]},
         NoSetSingle,
         \A q \in Procs : pc'[q] \in InTxn =>
           /\ pc[q] \in InTxn
           /\ writes'[snap'[q]] = writes[snap[q]]
           /\ next'[q] = next[q] /\ todo'[q] = todo[q] /\ time'[q] = time[q]
  PROVE  OverlayInv'
<1>1. \A q \in Procs : op'[q] # "set_single"
  BY DEF AtomicInv, OverlayInv, NoSetSingle
<1>2. ASSUME NEW q \in Procs, pc'[q] \in InTxn, NEW s \in Slots
      PROVE  Holds(q, s)'
  <2>1. Holds(q, s)
    BY <1>2 DEF AtomicInv, OverlayInv
  <2> QED
    BY <1>2, <2>1, HoldsUnchanged
<1> QED
  BY <1>1, <1>2 DEF OverlayInv

(* A call that begins is not in a transaction yet.                         *)
LEMMA OverlayBegin ==
  ASSUME AtomicInv, NoSetSingle, NEW p \in Procs, NEW o \in Ops, NEW t \in Times,
         NEW pts \in Batches, Begin(p, o, t, pts), Goto(p, "select")
  PROVE  OverlayInv'
BY OverlayKept DEF Begin, Goto, AtomicInv, StateInv, TypeOK, InTxn

(* A call that ends its transaction does not touch those of the others.    *)
LEMMA OverlayClose ==
  ASSUME AtomicInv, NoSetSingle, NEW p \in Procs, pc[p] \in InTxn,
         CloseSnap(snap[p]), UNCHANGED callVars,
         NEW label, label \notin InTxn, Goto(p, label),
         \A q \in Procs \ {p} : snap'[q] = snap[q] /\ next'[q] = next[q]
  PROVE  OverlayInv'
<1> USE DEF AtomicInv, StateInv
<1>1. \A q \in Procs : pc'[q] \in InTxn => q # p /\ pc[q] \in InTxn
  BY DEF Goto, TypeOK
<1>2. \A q \in Procs \ {p} : pc[q] \in InTxn => snap[q] # snap[p] /\ snap[q] \in Snaps
  BY DEF TxnInv, Snaps
<1>3. \A q \in Procs : pc'[q] \in InTxn => writes'[snap'[q]] = writes[snap[q]]
  BY <1>1, <1>2 DEF CloseSnap
<1> QED
  BY <1>1, <1>3, OverlayKept DEF callVars

(* The actions that end a transaction.                                     *)
LEMMA OverlayTxnEnds ==
  ASSUME AtomicInv, NoSetSingle, NEW p \in Procs,
         \/ SetDeadlocks(p) \/ SetFails(p)
         \/ Commit(p) \/ CommitDeadlocks(p) \/ CommitFails(p)
  PROVE  OverlayInv'
<1>1. pc[p] \in InTxn /\ CloseSnap(snap[p])
  BY DEF SetDeadlocks, SetFails, Commit, CommitDeadlocks, CommitFails, Waits,
         InTxn
<1>2. StartOver(p) \/ Return(p, "ok") \/ Return(p, "failed")
  BY DEF SetDeadlocks, SetFails, Commit, CommitDeadlocks, CommitFails
<1>3. PICK label \in {"select", "idle"} : Goto(p, label)
  BY <1>2 DEF StartOver, Return
<1>4. /\ UNCHANGED callVars
      /\ \A q \in Procs \ {p} : snap'[q] = snap[q] /\ next'[q] = next[q]
  BY <1>2 DEF StartOver, Return, AtomicInv, StateInv, TypeOK
<1> QED
  BY <1>1, <1>3, <1>4, OverlayClose DEF InTxn

(* Leaving the backend, in the middle of a bulk set or between two calls.  *)
LEMMA OverlayFree ==
  ASSUME AtomicInv, NoSetSingle, NEW p \in Procs, Free(p) PROVE OverlayInv'
<1> USE DEF AtomicInv, StateInv
<1>1. PICK label \in {"freed", "crashed"} : Goto(p, label)
  BY DEF Free
<1>2. UNCHANGED <<callVars, snap, next>>
  BY DEF Free
<1>3. CASE pc[p] = "set" /\ op[p] = "bulk"
  <2>1. bulk[p].snap = snap[p] /\ snap[p] \in open
    BY <1>3 DEF CountInv, Counts, Busy, InTxn, TxnInv, SnapshotsClosed
  <2>2. CloseSnap(snap[p])
    BY <2>1 DEF Free
  <2> QED
    BY <1>1, <1>2, <1>3, <2>2, OverlayClose DEF InTxn
<1>4. CASE pc[p] = "idle"
  <2>1. \A q \in Procs : pc'[q] \in InTxn => q # p /\ pc[q] \in InTxn
    BY <1>1 DEF Goto, TypeOK, InTxn
  <2>2. bulk[p].snap \in {NoSnap} \cup ({p} \X {1, 2})
    BY DEF CountInv, Counts
  <2>3. \A q \in Procs \ {p} :
          pc[q] \in InTxn => snap[q] # bulk[p].snap /\ snap[q] \in Snaps
    BY <2>2, NoSnapIsNone DEF TxnInv, Snaps
  <2>4. CloseSnap(bulk[p].snap) \/ UNCHANGED writes
    BY DEF Free
  <2>5. \A q \in Procs : pc'[q] \in InTxn => writes'[snap'[q]] = writes[snap[q]]
    BY <1>2, <2>1, <2>3, <2>4 DEF CloseSnap
  <2> QED
    BY <1>2, <2>1, <2>5, OverlayKept DEF callVars
<1> QED
  BY <1>3, <1>4 DEF Free

LEMMA OverlayStep ==
  ASSUME NoSetSingle, AtomicInv, [Next]_vars PROVE OverlayInv'
<1> USE DEF AtomicInv
<1>1. ASSUME NEW p \in Procs, Client(p) PROVE OverlayInv'
  <2>1. ASSUME NEW o \in Ops, NEW t \in Times, NEW pts \in Batches,
               BeginCall(p, o, t, pts)
        PROVE  OverlayInv'
    BY <2>1, OverlayBegin DEF BeginCall
  <2>2. ASSUME NEW t \in Times, NEW pts \in Batches, "bulk" \in Ops,
               BulkInit(p, t, pts)
        PROVE  OverlayInv'
    BY <2>2, OverlayBegin DEF BulkInit
  <2>3. ASSUME BulkInitAborts(p) PROVE OverlayInv'
    BY <2>3, OverlayKept
    DEF BulkInitAborts, Goto, callVars, StateInv, TypeOK, InTxn
  <2> QED
    BY <1>1, <2>1, <2>2, <2>3, OverlayFree DEF Client
<1>2. ASSUME NEW p \in Procs, Call(p) PROVE OverlayInv'
  BY <1>2, OverlaySelect, OverlaySetValue, OverlayTxnEnds DEF Call
<1>3. ASSUME NEW p \in Procs, CallFails(p) PROVE OverlayInv'
  <2>1. ASSUME SelectFails(p) PROVE OverlayInv'
    <3>1. /\ pc' = [pc EXCEPT ![p] = "idle"]
          /\ next' = [next EXCEPT ![p] = 1]
          /\ snap' = [snap EXCEPT ![p] = NoSnap]
          /\ UNCHANGED <<op, time, todo, writes>>
      BY <2>1 DEF SelectFails, Return, Goto, callVars
    <3>2. \A q \in Procs : pc'[q] \in InTxn =>
            q # p /\ pc[q] \in InTxn /\ snap'[q] = snap[q] /\ next'[q] = next[q]
      BY <3>1 DEF StateInv, TypeOK, InTxn
    <3> QED
      BY <3>1, <3>2, OverlayKept
  <2> QED
    BY <1>3, <2>1, OverlayTxnEnds DEF CallFails
<1>4. CASE UNCHANGED vars
  BY <1>4, OverlayKept DEF vars, callVars
<1> QED
  BY <1>1, <1>2, <1>3, <1>4 DEF Next

(* What a full transaction leaves in the database is what the atomic store *)
(* says: each key of the call has its last value, the others are as before.*)
LEMMA CommittedIsOverlay ==
  ASSUME AtomicInv, NEW p \in Procs, pc[p] = "commit"
  PROVE  Committed(snap[p]) = AS!Overlay(db, time[p], todo[p])
<1> USE DEF AtomicInv, StateInv
<1>1. next[p] - 1 = Len(todo[p])
  BY DEF CountInv, Counts, TypeOK
<1>2. ASSUME NEW s \in Slots
      PROVE  Committed(snap[p])[s] = AS!Overlay(db, time[p], todo[p])[s]
  <2>1. Holds(p, s)
    BY DEF OverlayInv, InTxn
  <2>2. Committed(snap[p])[s] = IF writes[snap[p]][s] # NoValue
                                THEN writes[snap[p]][s] ELSE db[s]
    BY DEF Committed
  <2> DEFINE At == AS!At(todo[p], s[2])
  <2>3. At = {i \in 1 .. next[p] - 1 : todo[p][i][1] = s[2]}
    BY <1>1 DEF AS!At
  <2>4. AS!Overlay(db, time[p], todo[p])[s] =
          IF s[1] = time[p] /\ At # {}
          THEN todo[p][CHOOSE i \in At : \A j \in At : j <= i][2]
          ELSE db[s]
    BY DEF AS!Overlay, AS!Slots, Slots
  <2>5. CASE \E i \in 1 .. next[p] - 1 :
               s[1] = time[p] /\ Latest(p, s, i)
               /\ writes[snap[p]][s] = todo[p][i][2]
    <3>1. PICK i \in 1 .. next[p] - 1 :
            s[1] = time[p] /\ Latest(p, s, i)
            /\ writes[snap[p]][s] = todo[p][i][2]
      BY <2>5
    <3>2. i \in At /\ \A j \in At : j <= i
      BY <2>3, <3>1 DEF Latest
    <3>3. \A k \in At : (\A j \in At : j <= k) => k = i
      BY <2>3, <3>2
    <3>4. (CHOOSE k \in At : \A j \in At : j <= k) = i
      BY <3>2, <3>3
    <3>5. todo[p][i][2] \in Values
      <4>1. todo[p] \in Seq(Ids \X Values)
        BY <1>1, <3>1, DbatsAssumption DEF TypeOK
      <4>2. todo[p][i] \in Ids \X Values
        BY <1>1, <3>1, <4>1
      <4> QED
        BY <4>2
    <3> QED
      BY <2>2, <2>4, <3>1, <3>2, <3>4, <3>5, DbatsAssumption
  <2>6. CASE /\ writes[snap[p]][s] = NoValue
             /\ s[1] = time[p] =>
                  \A i \in 1 .. next[p] - 1 : todo[p][i][1] # s[2]
    <3>1. s[1] # time[p] \/ At = {}
      BY <2>3, <2>6
    <3> QED
      BY <2>2, <2>4, <2>6, <3>1
  <2> QED
    BY <2>1, <2>5, <2>6 DEF Holds
<1> QED
  BY <1>2 DEF Committed, AS!Overlay, AS!Slots, Slots

LEMMA AtomicInit == Init => AS!Init
BY DEF Init, AS!Init, Unset, Slots, AS!Slots

(* Every step is a step of the atomic store or changes nothing of it.      *)
LEMMA AtomicStep ==
  ASSUME AtomicInv, [Next]_vars PROVE [AS!Next]_(AS!vars)
<1> USE DEF AtomicInv, StateInv
<1>0. \A p \in Procs : rc[p] = "pending" <=> pc[p] \in Busy
  BY DEF CountInv, Counts
<1>a. ASSUME NEW p \in Procs, pc[p] \in Busy, Return(p, "failed"),
             UNCHANGED db
      PROVE  [AS!Next]_(AS!vars)
  BY <1>0, <1>a DEF Return, callVars, AS!Next, AS!Fail
<1>b. ASSUME UNCHANGED <<db, time, todo, rc>> PROVE [AS!Next]_(AS!vars)
  BY <1>b DEF AS!vars
<1>c. ASSUME NEW p \in Procs, pc[p] \in Busy, StartOver(p), UNCHANGED db
      PROVE  [AS!Next]_(AS!vars)
  BY <1>a, <1>b, <1>c DEF StartOver, callVars
<1>1. ASSUME NEW p \in Procs, Client(p) PROVE [AS!Next]_(AS!vars)
  <2>1. ASSUME NEW o \in Ops, NEW t \in Times, NEW pts \in Batches,
               Begin(p, o, t, pts)
        PROVE  [AS!Next]_(AS!vars)
    <3>1. rc[p] # "pending"
      BY <1>0, <2>1 DEF Begin, Busy, InTxn
    <3>2. AS!Begin(p, t, pts)
      BY <2>1, <3>1 DEF Begin, AS!Begin
    <3> QED
      BY <3>2 DEF AS!Next
  <2>2. ASSUME BulkInitAborts(p) PROVE [AS!Next]_(AS!vars)
    BY <1>b, <2>2 DEF BulkInitAborts, callVars
  <2>3. ASSUME Free(p) PROVE [AS!Next]_(AS!vars)
    <3>1. CASE pc[p] = "idle"
      BY <1>b, <2>3, <3>1 DEF Free, callVars
    <3>2. CASE pc[p] = "set"
      BY <1>0, <2>3, <3>2 DEF Free, callVars, AS!Next, AS!Fail, Busy, InTxn
    <3> QED
      BY <2>3, <3>1, <3>2 DEF Free
  <2> QED
    BY <1>1, <2>1, <2>2, <2>3 DEF Client, BeginCall, BulkInit
<1>2. ASSUME NEW p \in Procs, Call(p) PROVE [AS!Next]_(AS!vars)
  <2>1. ASSUME Select(p) PROVE [AS!Next]_(AS!vars)
    BY <1>b, <2>1 DEF Select, OpenSnap, callVars
  <2>2. ASSUME SetValue(p) PROVE [AS!Next]_(AS!vars)
    BY <1>b, <2>2 DEF SetValue, SetPoint, callVars
  <2>3. ASSUME SetDeadlocks(p) \/ CommitDeadlocks(p) PROVE [AS!Next]_(AS!vars)
    BY <1>c, <2>3 DEF SetDeadlocks, CommitDeadlocks, Waits, Busy, InTxn
  <2>4. ASSUME Commit(p) PROVE [AS!Next]_(AS!vars)
    <3>1. pc[p] = "commit" /\ db' = Committed(snap[p]) /\ Return(p, "ok")
      BY <2>4 DEF Commit
    <3>2. db' = AS!Overlay(db, time[p], todo[p])
      BY <3>1, CommittedIsOverlay
    <3>3. AS!Succeed(p)
      BY <1>0, <3>1, <3>2 DEF Return, callVars, AS!Succeed, Busy, InTxn
    <3> QED
      BY <3>3 DEF AS!Next
  <2> QED
    BY <1>2, <2>1, <2>2, <2>3, <2>4 DEF Call
<1>3. ASSUME NEW p \in Procs, CallFails(p) PROVE [AS!Next]_(AS!vars)
  BY <1>3, <1>a DEF CallFails, SelectFails, SetFails, CommitFails, Busy, InTxn
<1>4. CASE UNCHANGED vars
  BY <1>4, <1>b DEF vars, callVars
<1> QED
  BY <1>1, <1>2, <1>3, <1>4 DEF Next

(* Without set_single, whose value is never assigned, the backend is an    *)
(* atomic store for any number of processes, keys and points: whatever     *)
(* starts over or fails, the points of a call get into the database all at *)
(* once, when it returns 0, or not at all.                                 *)
THEOREM ImplementsAtomicStore ==
  ASSUME NoSetSingle PROVE Spec => AtomicStoreSpec
<1>1. Init => AtomicInv
  BY StateInit, OverlayInit DEF AtomicInv
<1>2. AtomicInv /\ [Next]_vars => AtomicInv'
  BY StateStep, OverlayStep DEF AtomicInv
<1>3. Init => AS!Init
  BY AtomicInit
<1>4. AtomicInv /\ [Next]_vars => [AS!Next]_(AS!vars)
  BY AtomicStep
<1> QED
  BY <1>1, <1>2, <1>3, <1>4, PTL DEF Spec, AtomicStoreSpec, AS!Spec

=============================================================================
