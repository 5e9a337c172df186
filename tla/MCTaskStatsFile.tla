--------------------------- MODULE MCTaskStatsFile ----------------------------
(* StatsReport for TLC: files of up to three job records, read once by the *)
(* report and any number of times by another program.  Ten nanoseconds     *)
(* make a microsecond; jobs end before their release, just before and at   *)
(* the middle of a microsecond, at the deadline and after it.              *)
EXTENDS StatsReport

MCResponses == {-3, 4, 5, 14, 15, 26}
MCOldest    == {1, 3}
MCPeriods   == {0, 20}

==============================================================================
