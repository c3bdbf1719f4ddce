----------------------------- MODULE PointTable -----------------------------
(***************************************************************************)
(* What a key package promises to its user: a table of rows, each switched *)
(* on or off, whose values can be written to all live backends under a     *)
(* timestamp.  A write may be given up part way; the table changes only    *)
(* when the write is complete.                                             *)
(***************************************************************************)
CONSTANTS Keys, Values, Times, NoValue, Backends, Transactional

VARIABLES
  table,  \* key to its row; a key that was never added has value NoValue
  flags,  \* what happens to the rows after a complete write
  live,   \* backends that are enabled
  store   \* what each backend holds

vars == <<table, flags, live, store>>

NoRow == [value |-> NoValue, on |-> FALSE]
On == {k \in Keys : table[k].on}

Init ==
  /\ table = [k \in Keys |-> NoRow]
  /\ flags \in SUBSET {"RESET", "DISABLE"}
  /\ live \in SUBSET Backends
  /\ store = [b \in Backends |-> [s \in Times \X Keys |-> NoValue]]

Add(k) ==
  /\ table[k] = NoRow
  /\ table' = [table EXCEPT ![k] = [value |-> 0, on |-> TRUE]]
  /\ UNCHANGED <<flags, live, store>>

Put(k, v) ==
  /\ table[k] # NoRow
  /\ table' = [table EXCEPT ![k].value = v]
  /\ UNCHANGED <<flags, live, store>>

Switch(k, on) ==
  /\ table[k] # NoRow
  /\ table' = [table EXCEPT ![k].on = on]
  /\ UNCHANGED <<flags, live, store>>

GoLive(b) ==
  /\ live' = live \cup {b}
  /\ UNCHANGED <<table, flags, store>>

(* The rows S reach backend b; a transactional backend takes all or none.  *)
Deliver(b, t, S) ==
  /\ b \in live
  /\ S \subseteq On
  /\ b \in Transactional => S = On
  /\ store' = [store EXCEPT ![b] =
       [s \in Times \X Keys |-> IF s[1] = t /\ s[2] \in S
                               THEN table[s[2]].value ELSE store[b][s]]]
  /\ UNCHANGED <<table, flags, live>>

Complete(t) ==
  /\ \A b \in live, k \in On : store[b][<<t, k>>] = table[k].value
  /\ table' = [k \in Keys |->
       IF table[k] = NoRow THEN NoRow
       ELSE [value |-> IF "RESET" \in flags THEN 0 ELSE table[k].value,
             on |-> table[k].on /\ "DISABLE" \notin flags]]
  /\ UNCHANGED <<flags, live, store>>

Next ==
  \/ \E k \in Keys : Add(k)
  \/ \E k \in Keys, v \in Values : Put(k, v)
  \/ \E k \in Keys, on \in BOOLEAN : Switch(k, on)
  \/ \E b \in Backends : GoLive(b)
  \/ \E b \in Backends, t \in Times, S \in SUBSET Keys : Deliver(b, t, S)
  \/ \E t \in Times : Complete(t)

Spec == Init /\ [][Next]_vars

=============================================================================
