----------------------------- MODULE MCMulticore -----------------------------
(* Two governors; a loop of twenty units of time that may turn out to last *)
(* a little or much less or more, at three frequencies: one at which every *)
(* correction fits, one at which it wraps round, one that is too high.     *)
EXTENDS Multicore

MCGovernors    == {"ondemand", "userspace"}
MCFrequencies  == {1, 3, 4}
MCMeasurements == {0, 18, 20, 22, 40}

==============================================================================
