--------------------------- MODULE DbatsBackendMC ---------------------------
(* Values of the constants of DbatsBackend for TLC.  The same two ids are  *)
(* written in both orders, so that two calls can wait for each other.      *)
EXTENDS DbatsBackend, TLC

MCBatches == { << <<"y", 2>> >>, << <<"x", 1>>, <<"y", 2>> >>,
               << <<"y", 1>>, <<"x", 2>> >> }
OneBatch == { << <<"x", 1>> >> }

=============================================================================
