----------------------------- MODULE AtomicStore -----------------------------
(***************************************************************************)
(* What DBATS and its backend promise to the processes that write: a call  *)
(* has a time and some points; either all of them get into the database at *)
(* once and the call succeeds, or none does and it fails.                  *)
(***************************************************************************)
EXTENDS Integers, Sequences

CONSTANTS Procs, Ids, Values, Times, Batches, NoValue

VARIABLES
  db,      \* time and id to value
  time,    \* the time of each process's call
  todo,    \* the points of each process's call
  rc       \* "none", "pending", "ok" or "failed"

vars == <<db, time, todo, rc>>

Slots == Times \X Ids

(* Points behind one another; the later of two with the same id counts.    *)
At(pts, id) == {i \in 1 .. Len(pts) : pts[i][1] = id}
Overlay(base, t, pts) ==
  [s \in Slots |->
     IF s[1] = t /\ At(pts, s[2]) # {}
     THEN pts[CHOOSE i \in At(pts, s[2]) : \A j \in At(pts, s[2]) : j <= i][2]
     ELSE base[s]]

Init ==
  /\ db = [s \in Slots |-> NoValue]
  /\ time \in [Procs -> Times]
  /\ todo = [p \in Procs |-> << >>]
  /\ rc = [p \in Procs |-> "none"]

Begin(p, t, pts) ==
  /\ rc[p] # "pending"
  /\ time' = [time EXCEPT ![p] = t]
  /\ todo' = [todo EXCEPT ![p] = pts]
  /\ rc' = [rc EXCEPT ![p] = "pending"]
  /\ UNCHANGED db

Succeed(p) ==
  /\ rc[p] = "pending"
  /\ db' = Overlay(db, time[p], todo[p])
  /\ rc' = [rc EXCEPT ![p] = "ok"]
  /\ UNCHANGED <<time, todo>>

Fail(p) ==
  /\ rc[p] = "pending"
  /\ rc' = [rc EXCEPT ![p] = "failed"]
  /\ UNCHANGED <<db, time, todo>>

Next ==
  \E p \in Procs :
    \/ \E t \in Times, pts \in Batches : Begin(p, t, pts)
    \/ Succeed(p)
    \/ Fail(p)

Spec == Init /\ [][Next]_vars

=============================================================================
