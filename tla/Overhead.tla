------------------------------- MODULE Overhead -------------------------------
(***************************************************************************)
(* Measuring what the executive costs: job_statistics_overhead of job.c    *)
(* and finish_to_start_overhead of task.c.  Each creates a thread of the   *)
(* highest priority and waits for it.  The thread of the first reads the   *)
(* clock before and after an empty job; that of the second runs the loop   *)
(* of task.c for two jobs, saves their statistics to a temporary file and  *)
(* reads them back.                                                        *)
(*                                                                         *)
(* A clock reading is the number of the job it was taken for, as in module *)
(* Ringbuf.  The thread of task.c jumps to out before it has cleared the   *)
(* two pointers that out looks at: they are then what the stack has left   *)
(* there.                                                                  *)
(***************************************************************************)
EXTENDS Ringbuf, Sequences, FiniteSets

CONSTANT OnStack        \* what the stack may leave in a pointer

ASSUME OverheadAssumption == OnStack # {} /\ OnStack \subseteq {"NULL", "garbage"}

VARIABLE probe          \* a measurement

(* A record of which utility_file_read_bin could not read anything.        *)
NeverRead == [t_begin |-> -1, t_end |-> -1]

(* Variant: the loop goes on for one job more.                             *)
NewProbeOfThree(kind, aperiodic) ==
    [kind |-> kind, aperiodic |-> aperiodic, pc |-> "create", exit_status |-> -2,
     held |-> {}, stats_ringbuf |-> jobstats_ringbuf_create(2, FALSE), stats_log |-> <<>>,
     stopped |-> FALSE, stop_counter |-> 2, job_stats |-> <<>>, result |-> <<>>]

(* exit_status, stopped and stop_counter as the thread initialises them;   *)
(* the result <<>> is NULL.                                                *)
NewProbe(kind, aperiodic) ==
    [kind |-> kind, aperiodic |-> aperiodic, pc |-> "create", exit_status |-> -2,
     held |-> {}, stats_ringbuf |-> jobstats_ringbuf_create(2, FALSE), stats_log |-> <<>>,
     stopped |-> FALSE, stop_counter |-> 1, job_stats |-> <<>>, result |-> <<>>]

ProbeAt(pc)      == probe.pc = pc
ProbeGoto(p, pc) == probe' = [p EXCEPT !.pc = pc]

(* An error of the thread once tau is prepared, and before.                *)
ProbeOut(status) == ProbeGoto([probe EXCEPT !.exit_status = status], "out")
ProbeEarlyOut(status) ==
    LET p == [probe EXCEPT !.exit_status = status]
    IN IF probe.kind = "job" THEN ProbeGoto(p, "ended")
       ELSE \E left \in OnStack : ProbeGoto(p, IF left = "garbage" THEN "crashed" ELSE "ended")

-----------------------------------------------------------------------------
CreateMeasurementThread(ok) ==
    /\ ProbeAt("create")
    /\ ProbeGoto(probe, IF ok THEN "lock" ELSE "returned")

LockToCpu(ok) ==
    /\ ProbeAt("lock")
    /\ IF ok THEN ProbeGoto(probe, "sched") ELSE ProbeEarlyOut(-2)

(* sched_fifo_enter_max; -1 is a lack of privilege.                        *)
EnterFifo(rc) ==
    /\ ProbeAt("sched")
    /\ IF rc = 0 THEN ProbeGoto(probe, IF probe.kind = "job" THEN "measure" ELSE "tmpfile")
       ELSE ProbeEarlyOut(rc)

(* overhead_measurement of job.c.                                          *)
MeasureJob(begin, end) ==
    /\ ProbeAt("measure")
    /\ IF begin /\ end
       THEN ProbeGoto([probe EXCEPT !.exit_status = 0, !.result = <<1, 1>>], "ended")
       ELSE ProbeGoto([probe EXCEPT !.exit_status = -2], "ended")

CreateTmpfile(ok) ==
    /\ ProbeAt("tmpfile")
    /\ IF ok THEN ProbeGoto([probe EXCEPT !.held = @ \cup {"stats_log"}], "ringbuf") ELSE ProbeOut(-2)

CreateStatsRingbuf(ok) ==
    /\ ProbeAt("ringbuf")
    /\ IF ok THEN ProbeGoto([probe EXCEPT !.held = @ \cup {"stats_ringbuf"}], "clock") ELSE ProbeOut(-2)

(* The first release is 100 ms from now.                                   *)
GetReleaseTime(ok) ==
    /\ ProbeAt("clock")
    /\ IF ok THEN ProbeGoto(probe, "jobs") ELSE ProbeOut(-2)

(* overhead_measurement of task.c: an iteration of the loop of a periodic  *)
(* task (which sleeps first) or of an aperiodic one, whose program is      *)
(* run_program_stop_task.  sleep, begin and end are the three calls of the *)
(* clock that may fail.                                                    *)
RunProbingJob(sleep, begin, end) ==
    /\ ProbeAt("jobs")
    /\ probe.aperiodic => sleep
    /\ LET rb == TakeSlot(probe.stats_ringbuf)
           s  == SlotOf(probe.stats_ringbuf)
           stopped == probe.stop_counter = 0
           p  == [probe EXCEPT !.stats_ringbuf = StampEnd(StampBegin(rb, s, begin), s, end),
                               !.stopped = stopped, !.stop_counter = @ - 1]
       IN ProbeGoto(p, CASE ~(sleep /\ begin /\ end) -> "out"
                    [] sleep /\ begin /\ end /\ stopped  -> "save"
                    [] sleep /\ begin /\ end /\ ~stopped -> "jobs")

SaveRingbuf(ok) ==
    /\ ProbeAt("save")
    /\ IF ok THEN ProbeGoto([probe EXCEPT !.stats_log = SavedRecords(probe.stats_ringbuf)], "seek")
       ELSE ProbeOut(-2)

RewindLog(ok) ==
    /\ ProbeAt("seek")
    /\ IF ok THEN ProbeGoto(probe, "read") ELSE ProbeOut(-2)

(* job_statistics_read, twice.  It takes an I/O error for a record.        *)
ReadJobStatistics(ok) ==
    /\ ProbeAt("read")
    /\ LET nth == Len(probe.job_stats) + 1
           p == [probe EXCEPT !.job_stats = Append(@,
                    IF ok THEN probe.stats_log[nth] ELSE NeverRead)]
       IN IF ok /\ nth > Len(probe.stats_log) THEN ProbeOut(-2)
          ELSE ProbeGoto(p, IF nth = 2 THEN "calculate" ELSE "read")

(* (t_start_1 - t_release) + (t_start_2 - t_finish_1).                     *)
CalculateOverhead ==
    /\ ProbeAt("calculate")
    /\ LET js == probe.job_stats
       IN ProbeGoto([probe EXCEPT !.exit_status = 0,
                             !.result = <<js[1].t_begin, js[2].t_begin, js[1].t_end>>], "out")

(* The label out: what the two pointers point to is released.              *)
CleanUpProbe ==
    /\ ProbeAt("out")
    /\ ProbeGoto([probe EXCEPT !.held = {}], "ended")

(* pthread_join; a result is handed out only with the return value 0.      *)
JoinMeasurementThread(ok) ==
    /\ ProbeAt("ended")
    /\ ProbeGoto([probe EXCEPT !.exit_status = IF ok THEN @ ELSE -2,
                          !.result = IF ok /\ probe.exit_status = 0 THEN @ ELSE <<>>],
            "returned")

Probe ==
    \/ CalculateOverhead \/ CleanUpProbe
    \/ \E ok \in BOOLEAN :
          \/ CreateMeasurementThread(ok) \/ LockToCpu(ok) \/ CreateTmpfile(ok)
          \/ CreateStatsRingbuf(ok) \/ GetReleaseTime(ok) \/ SaveRingbuf(ok)
          \/ RewindLog(ok) \/ ReadJobStatistics(ok) \/ JoinMeasurementThread(ok)
    \/ \E rc \in {0, -1, -2} : EnterFifo(rc)
    \/ \E b, e \in BOOLEAN : MeasureJob(b, e) \/ \E s \in BOOLEAN : RunProbingJob(s, b, e)

-----------------------------------------------------------------------------
(* A measurement that succeeds has measured what it says: the start of the *)
(* first job, whose release is known, and the time from the end of this    *)
(* job to the start of the next, without anything in between; the two      *)
(* readings of job.c are of one job.  The one exception is an I/O error    *)
(* on the temporary file.  Whatever fails, nothing is left behind, and a   *)
(* result is handed out exactly on success.                                *)
OverheadIsMeasured ==
    probe.pc = "returned" =>
        /\ probe.held = {}
        /\ probe.exit_status = 0 <=> probe.result # <<>>
        /\ \/ probe.result = <<>>
           \/ probe.kind = "job" /\ probe.result = <<1, 1>>
           \/ probe.kind = "task" /\ probe.result = <<1, 2, 1>>
           \/ \E j \in DOMAIN probe.job_stats : probe.job_stats[j] = NeverRead

==============================================================================
