------------------------------ MODULE InsertMC ------------------------------
(* Values of the constants of Insert for TLC.  The ids are those of        *)
(* timeseries_backend_pub.h: 1 is ASCII, 2 is DBATS and 3 is Kafka.        *)
EXTENDS Insert, SequencesExt

DBATS == 2

MCResolvers == {DBATS}
MCTransactional == {DBATS}
MCMayFail == {DBATS, 3}
MCIndeterminate == {DBATS}
MCConfigurations == {{}}
MCCalls == {}

(* The names of backends in the order given, one of them twice; a name     *)
(* that does not exist; none and too many.                                 *)
MCOptionLists ==
  { << >>, <<1>>, <<1, 2>>, <<2, 2>>, <<3, 1>>, <<2, 0>>, <<1, 2, 3>> }

=============================================================================
