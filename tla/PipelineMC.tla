----------------------------- MODULE PipelineMC -----------------------------
(* Values of the constants of Pipeline for TLC.  The two keys differ in    *)
(* the hash of their prefix, and so may end up in different partitions;    *)
(* the times do, too.                                                      *)
EXTENDS Pipeline, TLC

MCKeys == {"g.a", "h.a"}
MCHashOf == [k \in MCKeys |-> IF k = "h.a" THEN 180 ELSE 120]

MCBatches == { <<"g.a", "h.a">> }

=============================================================================
