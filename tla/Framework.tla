----------------------------- MODULE Framework -----------------------------
(***************************************************************************)
(* The timeseries object around the key package: how its backends come to  *)
(* be enabled, and timeseries_set_single, which goes through all of them.  *)
(* A backend opens a file or a database, or, if it is Kafka, connects to   *)
(* brokers in a loop of its own.  Option strings and the handles that are  *)
(* opened are left out; a step says what the call returns.                 *)
(***************************************************************************)
EXTENDS KeyPackage

CONSTANTS
  Built,              \* backends that were compiled in
  KAFKA,              \* the id of the Kafka backend
  Indeterminate,      \* backends whose set_single loses the value (DBATS)
  CONNECT_MAX_RETRIES,
  FirstWait, MaxWait  \* seconds between two attempts to connect

ASSUME FrameworkAssumption ==
  /\ KAFKA \in Built /\ Built \subseteq Backends
  /\ Indeterminate \subseteq Backends
  /\ CONNECT_MAX_RETRIES \in Nat \ {0}
  /\ {FirstWait, MaxWait} \subseteq Nat /\ FirstWait <= MaxWait

VARIABLES
  connecting,       \* is the init of the Kafka backend in progress
  connected,        \* state->connected
  fatal_error,      \* state->fatal_error
  connect_retries,  \* local variables of kafka_connect; 0 outside of it
  wait

stateVars == <<connected, fatal_error>>
connVars == <<connecting, stateVars, connect_retries, wait>>
notEnabled == <<kp, flags, pc, cur, wasDirty, ftime, store>>

(* timeseries_init                                                         *)
FrameworkInit ==
  /\ Init /\ enabled = {}
  /\ connecting = FALSE /\ connected = FALSE /\ fatal_error = FALSE
  /\ connect_retries = 0 /\ wait = 0

-----------------------------------------------------------------------------
(* timeseries_enable_backend                                               *)

(* The new options are ignored, with success.                              *)
EnableAgain(b) ==
  /\ b \in enabled
  /\ UNCHANGED <<vars, connVars>>

(* The options, the file or the database are not as they should be.        *)
InitFails(b) ==
  /\ b \in Built \ enabled /\ ~connecting
  /\ UNCHANGED <<vars, connVars>>

InitSucceeds(b) ==
  /\ b \in Built \ (enabled \cup {KAFKA})
  /\ enabled' = enabled \cup {b}
  /\ UNCHANGED <<notEnabled, connVars>>

KafkaInitBegins ==
  /\ KAFKA \notin enabled /\ ~connecting
  /\ connecting' = TRUE
  /\ connected' = FALSE /\ fatal_error' = FALSE
  /\ connect_retries' = CONNECT_MAX_RETRIES /\ wait' = FirstWait
  /\ UNCHANGED vars

(* Mutant: one attempt too many.                                           *)
Trying_OffByOne == connecting /\ ~connected /\ connect_retries >= 0

Trying == connecting /\ ~connected /\ connect_retries > 0

(* One round of the loop: the brokers are added, and the poll for errors   *)
(* may find that the connection is gone again.                             *)
ProducerConnects ==
  /\ Trying
  /\ connected' \in BOOLEAN
  /\ connect_retries' = connect_retries - 1
  /\ wait' = IF connected' \/ connect_retries' = 0 THEN wait
             ELSE IF 2 * wait > MaxWait THEN MaxWait ELSE 2 * wait
  /\ UNCHANGED <<vars, connecting, fatal_error>>

LeaveConnect ==
  /\ connecting' = FALSE
  /\ connect_retries' = 0 /\ wait' = 0

(* No producer, no valid broker, or a fatal error.                         *)
ProducerFails ==
  /\ Trying
  /\ \/ UNCHANGED stateVars
     \/ fatal_error' = TRUE /\ connected' = FALSE
  /\ LeaveConnect
  /\ UNCHANGED vars

(* Out of attempts, or topic_connect fails.                                *)
ConnectFails ==
  /\ connecting /\ ~Trying
  /\ LeaveConnect
  /\ UNCHANGED <<vars, stateVars>>

(* Mutant: nobody looks whether the last attempt was a success.            *)
KafkaInitSucceeds_Unchecked ==
  /\ connecting /\ ~Trying
  /\ enabled' = enabled \cup {KAFKA}
  /\ LeaveConnect
  /\ UNCHANGED <<notEnabled, stateVars>>

KafkaInitSucceeds ==
  /\ connecting /\ connected
  /\ enabled' = enabled \cup {KAFKA}
  /\ LeaveConnect
  /\ UNCHANGED <<notEnabled, stateVars>>

(* kafka_error_callback may come with any later poll of the producer, too, *)
(* when nobody looks at the flags any more.                                *)
ErrorCallback ==
  /\ KAFKA \in enabled
  /\ connected' = FALSE
  /\ fatal_error' \in {fatal_error, TRUE}
  /\ UNCHANGED <<vars, connecting, connect_retries, wait>>

-----------------------------------------------------------------------------
(* timeseries_set_single                                                   *)

SingleBegins ==
  /\ cur' = 1
  /\ UNCHANGED <<kp, flags, enabled, pc, wasDirty, ftime, store, connVars>>

(* The loop macro has come to backend b, or to its end.                    *)
AtBackend(b) ==
  /\ b \in enabled /\ cur <= b
  /\ \A c \in enabled : c < b => c < cur
LoopEnds == \A c \in enabled : c < cur

(* Mutant: the loop does not go on to the next backend.                    *)
SetSingle_Stays(b, k, v, t) ==
  /\ AtBackend(b)
  /\ \E w \in IF b \in Indeterminate THEN Values ELSE {v} :
       store' = [store EXCEPT ![b][<<t, k>>] = w]
  /\ UNCHANGED <<kp, flags, enabled, pc, cur, wasDirty, ftime, connVars>>

SetSingle(b, k, v, t) ==
  /\ AtBackend(b)
  /\ \E w \in IF b \in Indeterminate THEN Values ELSE {v} :
       store' = [store EXCEPT ![b][<<t, k>>] = w]
  /\ cur' = b + 1
  /\ UNCHANGED <<kp, flags, enabled, pc, wasDirty, ftime, connVars>>

SetSingleFails ==
  /\ \E b \in MayFail : AtBackend(b)
  /\ UNCHANGED <<vars, connVars>>

-----------------------------------------------------------------------------
(* The Kafka backend gets enabled only with a connection, however often    *)
(* kafka_connect had to try and whatever the callbacks said in between.    *)
KafkaReady ==
  [][(KAFKA \in enabled' \ enabled) => (connected' /\ ~fatal_error')]_enabled

FrameworkTypeOK ==
  /\ enabled \subseteq Built
  /\ connecting \in BOOLEAN /\ connected \in BOOLEAN /\ fatal_error \in BOOLEAN
  /\ connect_retries \in 0 .. CONNECT_MAX_RETRIES
  /\ wait \in 0 .. MaxWait

=============================================================================
