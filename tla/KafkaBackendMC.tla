--------------------------- MODULE KafkaBackendMC ---------------------------
(* Values of the constants of KafkaBackend for TLC.  Two keys share the    *)
(* hash of their prefix; the times and the hashes are minutes apart, so    *)
(* that they fall into different partitions.  The buffer takes two short   *)
(* pairs before it is more than half full.                                 *)
EXTENDS KafkaBackend, TLC

MCKeys == {"g.a", "g.b", "h.a"}
MCHashOf == [k \in MCKeys |-> IF k = "h.a" THEN 180 ELSE 120]
MCSizeOf == [k \in MCKeys |-> IF k = "h.a" THEN 3 ELSE 1]

MCBatches == { << >>, <<"g.a", "g.b">>, <<"g.a", "g.b", "g.a", "h.a">>,
               <<"h.a", "g.a">>, <<"g.b", "h.a", "g.a">> }
LiveBatches == { << >>, <<"g.a", "h.a", "g.b">> }

=============================================================================
