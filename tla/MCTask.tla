------------------------------- MODULE MCTask --------------------------------
(* Task for TLC.  Three jobs in a ring of one or two slots wrap it; with   *)
(* the one job that may follow task_stop, both laps are left unfinished.   *)
EXTENDS Task

MCRingSizes == {0, 1, 2}
Both        == {TRUE, FALSE}
Aperiodic   == {TRUE}

==============================================================================
