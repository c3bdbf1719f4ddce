---------------------------- MODULE KeyPackageMC ----------------------------
(* Values of the constants of KeyPackage for TLC.  The ids are those of    *)
(* timeseries_backend_pub.h: 1 is ASCII, 2 is DBATS and 3 is Kafka.        *)
EXTENDS KeyPackage, TLC

DBATS == 2
KAFKA == 3

MCResolvers == {DBATS}
MCTransactional == {DBATS}
MCMayFail == {DBATS, KAFKA}

MCConfigurations == SUBSET (1 .. LastId)
OnlyFallible == {{DBATS, KAFKA}}

KeySymmetry == Permutations(Keys)

=============================================================================
