---------------------------- MODULE DbatsBackend ----------------------------
(***************************************************************************)
(* The DBATS backend in several processes that share a database.  A call   *)
(* opens a snapshot, which is a transaction, sets its points one after the *)
(* other and commits.  Setting a point takes a lock that is held until the *)
(* transaction ends; who meets the lock of another waits, and may be told  *)
(* DB_LOCK_DEADLOCK, whereupon the call starts over.  A bulk set is one    *)
(* transaction over many calls, which cannot start over.                   *)
(*                                                                         *)
(* A client goes through a bulk set (set_bulk_init and as many calls of    *)
(* set_bulk_by_id) before it writes anything else, and gives it up when    *)
(* one of the calls fails; a bulk set is taken as one call here.  A key    *)
(* stands for its id, looking it up being the matter of KeyPackage.        *)
(***************************************************************************)
EXTENDS Integers, Sequences, FiniteSets

CONSTANTS
  Procs,     \* processes, each with a backend of its own
  Ids,       \* key ids
  Values,    \* values of points
  NoValue,   \* "no point stored"
  Times,     \* timestamps
  Batches,   \* the points of a call: sequences of id and value
  Ops,       \* the functions that the clients call
  MaxPoints, \* bound: points of a call
  MaxCalls   \* bound: calls of all processes

AllOps == {"kp_flush", "set_single", "set_single_by_id", "bulk"}

ASSUME DbatsAssumption ==
  /\ Batches \subseteq Seq(Ids \X Values)
  /\ \A pts \in Batches : Len(pts) <= MaxPoints
  /\ NoValue \notin Values
  /\ Ops \subseteq AllOps
  /\ {MaxPoints, MaxCalls} \subseteq Nat

VARIABLES
  db,        \* the database
  open,      \* the snapshots that are open
  holder,    \* the snapshot that has the lock of a time and an id
  writes,    \* what has been set in an open snapshot
  pc,        \* where the call in progress of a process is
  op,        \* the function
  time,      \* its argument
  todo,      \* its points
  next,      \* index of the next point (the loop over the infos)
  snap,      \* local variable `snapshot', or state->bulk_snap in a bulk set
  bulk,      \* state->bulk_cnt, bulk_expect and bulk_snap
  rc,        \* what the call has returned
  calls      \* calls that were made

callVars == <<op, time, todo, calls>>
vars == <<db, open, holder, writes, pc, op, time, todo, next, snap, bulk, rc,
          calls>>

Slots == Times \X Ids
Unset == [s \in Slots |-> NoValue]

(* A process needs one snapshot at a time; the second is there to notice   *)
(* one that was left open.                                                 *)
Snaps == Procs \X {1, 2}
NoSnap == << >>
NoBulk == [cnt |-> 0, expect |-> 0, snap |-> NoSnap]

Stopped == {"freed", "aborted", "crashed"}

Init ==
  /\ db = Unset
  /\ open = {}
  /\ holder = [s \in Slots |-> NoSnap]
  /\ writes = [n \in Snaps |-> Unset]
  /\ pc = [p \in Procs |-> "idle"]
  /\ op = [p \in Procs |-> "kp_flush"]
  /\ time \in [Procs -> Times]
  /\ todo = [p \in Procs |-> << >>]
  /\ next = [p \in Procs |-> 1]
  /\ snap = [p \in Procs |-> NoSnap]
  /\ bulk = [p \in Procs |-> NoBulk]
  /\ rc = [p \in Procs |-> "none"]
  /\ calls = 0

-----------------------------------------------------------------------------
(* DBATS                                                                   *)

(* dbats_select_snap                                                       *)
OpenSnap(n) ==
  /\ n \notin open
  /\ open' = open \cup {n}
  /\ UNCHANGED <<db, holder, writes>>

(* The end of a transaction, be it by dbats_abort_snap or by a commit.     *)
CloseSnap(n) ==
  /\ open' = open \ {n}
  /\ holder' = [s \in Slots |-> IF holder[s] = n THEN NoSnap ELSE holder[s]]
  /\ writes' = [m \in Snaps |-> IF m = n THEN Unset ELSE writes[m]]

Committed(n) ==
  [s \in Slots |-> IF writes[n][s] # NoValue THEN writes[n][s] ELSE db[s]]

(* dbats_set; `v' is what it finds in its argument.                        *)
SetPoint(n, s, v) ==
  /\ holder[s] \in {NoSnap, n}
  /\ holder' = [holder EXCEPT ![s] = n]
  /\ writes' = [writes EXCEPT ![n][s] = v]
  /\ UNCHANGED <<db, open>>

Point(p) == todo[p][next[p]]
Slot(p) == <<time[p], Point(p)[1]>>
Waits(p) == pc[p] = "set" /\ holder[Slot(p)] \notin {NoSnap, snap[p]}

-----------------------------------------------------------------------------
(* A call begins.                                                          *)

Goto(p, label) == pc' = [pc EXCEPT ![p] = label]

Begin(p, o, t, pts) ==
  /\ pc[p] = "idle"
  /\ calls < MaxCalls
  /\ o \in Ops
  /\ o \in {"set_single", "set_single_by_id"} => Len(pts) = 1
  /\ op' = [op EXCEPT ![p] = o]
  /\ time' = [time EXCEPT ![p] = t]
  /\ todo' = [todo EXCEPT ![p] = pts]
  /\ rc' = [rc EXCEPT ![p] = "pending"]
  /\ calls' = calls + 1
  /\ UNCHANGED <<db, open, holder, writes, next, snap>>

BeginCall(p, o, t, pts) ==
  /\ o # "bulk"
  /\ Begin(p, o, t, pts)
  /\ Goto(p, "select")
  /\ UNCHANGED bulk

(* set_bulk_init, up to dbats_select_snap.                                 *)
BulkInit(p, t, pts) ==
  /\ pts # << >>
  /\ bulk[p] = NoBulk
  /\ Begin(p, "bulk", t, pts)
  /\ Goto(p, "select")
  /\ bulk' = [bulk EXCEPT ![p].expect = Len(pts)]

(* Its assertion fails.                                                    *)
BulkInitAborts(p) ==
  /\ pc[p] = "idle" /\ "bulk" \in Ops /\ calls < MaxCalls
  /\ bulk[p] # NoBulk
  /\ Goto(p, "aborted")
  /\ UNCHANGED <<db, open, holder, writes, callVars, next, snap, bulk, rc>>

-----------------------------------------------------------------------------
(* The statements of a call                                                *)

Return(p, code) ==
  /\ rc' = [rc EXCEPT ![p] = code]
  /\ Goto(p, "idle")
  /\ next' = [next EXCEPT ![p] = 1]
  /\ snap' = [snap EXCEPT ![p] = NoSnap]
  /\ UNCHANGED callVars

(* Mutant: the loop goes on at the point that met the conflict.            *)
Select_Resumes(p) ==
  /\ pc[p] = "select"
  /\ \E n \in {p} \X {1, 2} :
       /\ OpenSnap(n)
       /\ n[2] = 2 => <<p, 1>> \in open
       /\ snap' = [snap EXCEPT ![p] = n]
       /\ bulk' = IF op[p] = "bulk" THEN [bulk EXCEPT ![p].snap = n] ELSE bulk
  /\ next' = next
  /\ Goto(p, IF next[p] > Len(todo[p]) THEN "commit" ELSE "set")
  /\ UNCHANGED <<callVars, rc>>

Select(p) ==
  /\ pc[p] = "select"
  /\ \E n \in {p} \X {1, 2} :
       /\ OpenSnap(n)
       /\ n[2] = 2 => <<p, 1>> \in open
       /\ snap' = [snap EXCEPT ![p] = n]
       /\ bulk' = IF op[p] = "bulk" THEN [bulk EXCEPT ![p].snap = n] ELSE bulk
  /\ next' = [next EXCEPT ![p] = 1]
  /\ Goto(p, IF todo[p] = << >> THEN "commit" ELSE "set")
  /\ UNCHANGED <<callVars, rc>>

SelectFails(p) ==
  /\ pc[p] = "select"
  /\ Return(p, "failed")
  /\ UNCHANGED <<db, open, holder, writes, bulk>>

(* What dbats_set finds in `val': set_single never assigns it.             *)
Val(p) == IF op[p] = "set_single" THEN Values ELSE {Point(p)[2]}

(* Mutant: bulk_cnt is incremented after the comparison.                   *)
SetValue_Late(p) ==
  /\ pc[p] = "set"
  /\ \E v \in Val(p) : SetPoint(snap[p], Slot(p), v)
  /\ next' = [next EXCEPT ![p] = @ + 1]
  /\ IF op[p] = "bulk"
     THEN /\ bulk' = [bulk EXCEPT ![p].cnt = @ + 1]
          /\ Goto(p, IF bulk[p].cnt = bulk[p].expect THEN "commit" ELSE "set")
     ELSE /\ UNCHANGED bulk
          /\ Goto(p, IF next[p] = Len(todo[p]) THEN "commit" ELSE "set")
  /\ UNCHANGED <<callVars, snap, rc>>

(* The last point is the one that the loop ends with, or the bulk_expect-th.*)
SetValue(p) ==
  /\ pc[p] = "set"
  /\ \E v \in Val(p) : SetPoint(snap[p], Slot(p), v)
  /\ next' = [next EXCEPT ![p] = @ + 1]
  /\ IF op[p] = "bulk"
     THEN /\ bulk' = [bulk EXCEPT ![p].cnt = @ + 1]
          /\ Goto(p, IF bulk'[p].cnt = bulk[p].expect THEN "commit" ELSE "set")
     ELSE /\ UNCHANGED bulk
          /\ Goto(p, IF next[p] = Len(todo[p]) THEN "commit" ELSE "set")
  /\ UNCHANGED <<callVars, snap, rc>>

(* DB_LOCK_DEADLOCK: start over, or fail in a bulk set.                    *)
StartOver(p) ==
  IF op[p] = "bulk" THEN Return(p, "failed")
  ELSE Goto(p, "select") /\ UNCHANGED <<callVars, next, snap, rc>>

(* Mutant: try again to set the point.                                     *)
SetDeadlocks_SetsAgain(p) == Waits(p) /\ UNCHANGED vars

(* Mutant: start over without dbats_abort_snap.                            *)
SetDeadlocks_LeavesOpen(p) ==
  /\ Waits(p)
  /\ StartOver(p)
  /\ UNCHANGED <<db, open, holder, writes, bulk>>

SetDeadlocks(p) ==
  /\ Waits(p)
  /\ CloseSnap(snap[p])
  /\ StartOver(p)
  /\ UNCHANGED <<db, bulk>>

SetFails(p) ==
  /\ pc[p] = "set"
  /\ CloseSnap(snap[p])
  /\ Return(p, "failed")
  /\ UNCHANGED <<db, bulk>>

Commit(p) ==
  /\ pc[p] = "commit"
  /\ db' = Committed(snap[p])
  /\ CloseSnap(snap[p])
  /\ bulk' = IF op[p] = "bulk" THEN [bulk EXCEPT ![p] = NoBulk] ELSE bulk
  /\ Return(p, "ok")

CommitDeadlocks(p) ==
  /\ pc[p] = "commit"
  /\ CloseSnap(snap[p])
  /\ StartOver(p)
  /\ UNCHANGED <<db, bulk>>

CommitFails(p) ==
  /\ pc[p] = "commit"
  /\ CloseSnap(snap[p])
  /\ Return(p, "failed")
  /\ UNCHANGED <<db, bulk>>

-----------------------------------------------------------------------------
(* timeseries_backend_dbats_free, when nothing else is under way, or in the *)
(* middle of a bulk set, which the client gives up.  It aborts bulk_snap,  *)
(* which may not be there any more.                                        *)
Free(p) ==
  /\ pc[p] = "idle" \/ (pc[p] = "set" /\ op[p] = "bulk")
  /\ rc' = IF pc[p] = "idle" THEN rc ELSE [rc EXCEPT ![p] = "failed"]
  /\ LET n == bulk[p].snap
     IN IF n = NoSnap \/ n \in open
        THEN /\ CloseSnap(n)
             /\ bulk' = [bulk EXCEPT ![p].snap = NoSnap]
             /\ Goto(p, "freed")
        ELSE /\ Goto(p, "crashed")
             /\ UNCHANGED <<open, holder, writes, bulk>>
  /\ UNCHANGED <<db, callVars, next, snap>>

-----------------------------------------------------------------------------
Client(p) ==
  \/ \E o \in Ops, t \in Times, pts \in Batches : BeginCall(p, o, t, pts)
  \/ \E t \in Times, pts \in Batches : "bulk" \in Ops /\ BulkInit(p, t, pts)
  \/ BulkInitAborts(p)
  \/ Free(p)

Call(p) ==
  \/ Select(p) \/ SetValue(p) \/ SetDeadlocks(p)
  \/ Commit(p) \/ CommitDeadlocks(p)

CallFails(p) == SelectFails(p) \/ SetFails(p) \/ CommitFails(p)

Next == \E p \in Procs : Client(p) \/ Call(p) \/ CallFails(p)

Spec == Init /\ [][Next]_vars

SetIndex(p, i) == next[p] = i /\ SetValue(p)

(* A process inside a call runs on, where it need not meet an error; who   *)
(* waits for a lock is told so in the end, or gets it if it comes free     *)
(* again and again; and not every commit meets a conflict.                 *)
FairSpec ==
  /\ Spec
  /\ \A p \in Procs :
       /\ WF_vars(Call(p)) /\ SF_vars(Commit(p))
       /\ \A i \in 1 .. MaxPoints : SF_vars(SetIndex(p, i))

-----------------------------------------------------------------------------
(* Properties                                                              *)

TypeOK ==
  /\ db \in [Slots -> Values \cup {NoValue}]
  /\ open \subseteq Snaps
  /\ holder \in [Slots -> Snaps \cup {NoSnap}]
  /\ writes \in [Snaps -> [Slots -> Values \cup {NoValue}]]
  /\ pc \in [Procs -> {"idle", "select", "set", "commit"} \cup Stopped]
  /\ op \in [Procs -> AllOps]
  /\ time \in [Procs -> Times]
  /\ todo \in [Procs -> Batches \cup {<< >>}]
  /\ next \in [Procs -> Nat]
  /\ \A p \in Procs : pc[p] = "set" => next[p] \in 1 .. Len(todo[p])
  /\ snap \in [Procs -> Snaps \cup {NoSnap}]
  /\ bulk \in [Procs -> [cnt : Nat, expect : Nat, snap : Snaps \cup {NoSnap}]]
  /\ rc \in [Procs -> {"none", "pending", "ok", "failed"}]
  /\ calls \in 0 .. MaxCalls

AS == INSTANCE AtomicStore

(* However often a call starts over, and whatever the other processes do:  *)
(* all its points get into the database in the step in which it returns 0, *)
(* with the values it was given, and none does if it returns -1.           *)
AtomicStoreSpec == AS!Spec

(* A call leaves no transaction behind, on whichever path it returns or    *)
(* starts over; its locks would keep every other process waiting.          *)
SnapshotsClosed ==
  /\ open = {snap[p] : p \in {q \in Procs : pc[q] \in {"set", "commit"}}}
  /\ \A s \in Slots : holder[s] # NoSnap => holder[s] \in open

(* Two processes that take the same locks in different orders do not wait  *)
(* for each other for ever: each call returns.                             *)
CallReturns == \A p \in Procs : rc[p] = "pending" ~> rc[p] # "pending"

(* "The snapshot for the current bulk set": what                           *)
(* timeseries_backend_dbats_free finds in bulk_snap is NULL or open.       *)
FreeFindsSnapshot == \A p \in Procs : pc[p] # "crashed"

=============================================================================
