--------------------------- MODULE MCUniprocessor ----------------------------
(* All the experiments, each with the parameters of its source.             *)
EXTENDS Uniprocessor

MCPrograms == AllPrograms
MCEarly == [p \in AllPrograms |-> IF p = "rate_monotonic" THEN 0 ELSE 1]

=============================================================================
