----------------------------- MODULE StatsReport ------------------------------
(***************************************************************************)
(* read_task_stats_file.c: the program that reads a task statistics file   *)
(* once and prints a line for each job or, instead, the distribution of    *)
(* the response times.  It gives task_statistics_read two callbacks that   *)
(* share the record stats_prms and never refuse anything.                  *)
(*                                                                         *)
(* Another caller of task_statistics_read, which may refuse, rewind and    *)
(* read again, is kept beside it: variable user tells which one it is.     *)
(***************************************************************************)
EXTENDS TaskStatsFile, FiniteSets

CONSTANTS
    Responses,         \* finishing times of a job, from its release (may be before)
    Oldest,            \* values of oldest_job_pos in the file
    Periods,           \* of the task; 0 if it is aperiodic
    Offset, Deadline,  \* of the task
    THOUSAND           \* nanoseconds in a microsecond

ASSUME StatsReportAssumption ==
    /\ Responses \subseteq Int /\ Oldest \subseteq Nat \ {0} /\ Periods \subseteq Nat
    /\ Offset \in Nat /\ Deadline \in Nat
    /\ THOUSAND \in Nat \ {0} /\ THOUSAND % 2 = 0

VARIABLES
    user,        \* "read_task_stats_file" or "another"
    cdf_fmt,     \* what to print: "NO_CDF", "GNUPLOT" or "MATLAB"
    tau,         \* what the file says of the task
    prms,        \* stats_prms
    printed,     \* the lines printed: of the jobs, or of the distribution
    seen         \* what has become of the jobs told so far

reportVars == <<user, cdf_fmt, tau, prms, printed, seen>>
allVars == <<readVars, reportVars>>

ReportInit ==
    /\ ReadInit
    /\ user \in {"read_task_stats_file", "another"}
    /\ cdf_fmt \in {"NO_CDF", "GNUPLOT", "MATLAB"}
    /\ user = "another" => cdf_fmt = "NO_CDF"
    /\ tau \in [oldest_job_pos : Oldest, period : Periods]
    /\ prms = [state |-> "reading", nth_job |-> 0, total_job_count |-> 0,
               late_count |-> 0, response_times |-> <<>>]
    /\ printed = <<>>
    /\ seen = <<>>

Reporting == user = "read_task_stats_file"

-----------------------------------------------------------------------------
(* The list of response times, the smallest first.                         *)

Item(response_time) == [response_time |-> response_time, job_count |-> 1]

RoundToMicrosecond(t) == IF t % THOUSAND >= THOUSAND \div 2 THEN t \div THOUSAND + 1
                         ELSE t \div THOUSAND

(* l with the item put before the first one that is not smaller.           *)
PutInOrder(us, l) ==
    LET smaller == {i \in DOMAIN l : l[i].response_time < us}
        k == IF smaller = {} THEN 0 ELSE CHOOSE i \in smaller : \A j \in smaller : j <= i
    IN SubSeq(l, 1, k) \o <<Item(us)>> \o SubSeq(l, k + 1, Len(l))

(* Variant: an item that is not smaller is taken for the insertion point.  *)
InsertBeforeEqual(t, l, memory) ==
    IF memory THEN PutInOrder(RoundToMicrosecond(t), l) ELSE l

(* An item that is there is counted; a new one needs memory, and without   *)
(* it the job is not in the list.                                          *)
insert_response_time(t, l, memory) ==
    LET us == RoundToMicrosecond(t)
        same == {i \in DOMAIN l : l[i].response_time = us}
    IN CASE same # {} -> [i \in DOMAIN l |-> IF i \in same
                             THEN [l[i] EXCEPT !.job_count = @ + 1] ELSE l[i]]
         [] same = {} /\ memory  -> PutInOrder(us, l)
         [] same = {} /\ ~memory -> l

(* The cumulated job counts, as print_gnuplot_cdf and print_matlab_cdf     *)
(* divide them by total_job_count.                                         *)
Cumulated(l) ==
    LET cumulative[i \in 0..Len(l)] ==
            IF i = 0 THEN 0 ELSE cumulative[i - 1] + l[i].job_count
    IN cumulative

Cdf(l) == [i \in DOMAIN l |-> [response_time |-> l[i].response_time, jobs |-> Cumulated(l)[i]]]

-----------------------------------------------------------------------------
Max0(x)  == IF x < 0 THEN 0 ELSE x
Sub(a, b) == Max0(a - b)                   \* utility_time_sub

(* Release of the nth job of the task, from t_0.                           *)
ReleaseOf(n) == Offset + tau.period * (n - 1)

(* The record just read is of this job of the task.                        *)
TrueNumber == tau.oldest_job_pos + delivered[Len(delivered)] - 1

(* print_task_stats.                                                       *)
PrintTaskStats ==
    /\ TaskStatisticsFn(TRUE)
    /\ prms' = [prms EXCEPT !.nth_job = tau.oldest_job_pos]
    /\ UNCHANGED <<user, cdf_fmt, tau, printed, seen>>

(* print_job_stats of a job that finished r after its release.             *)
PrintJobStats(r, memory) ==
    /\ ~garbage
    /\ JobStatisticsFn(TRUE)
    /\ LET t_finish == Max0(ReleaseOf(TrueNumber) + r)
           response == Sub(t_finish, ReleaseOf(prms.nth_job))
           is_late  == t_finish > ReleaseOf(prms.nth_job) + Deadline
           l == insert_response_time(response, prms.response_times, memory)
       IN /\ prms' = [prms EXCEPT !.nth_job = @ + 1,
                                  !.total_job_count = @ + 1,
                                  !.late_count = IF is_late THEN @ + 1 ELSE @,
                                  !.response_times = l]
          /\ printed' = IF cdf_fmt = "NO_CDF"
                        THEN Append(printed, [job |-> prms.nth_job, response |-> response,
                                              late |-> is_late])
                        ELSE printed
          /\ seen' = Append(seen, [response |-> r, kept |-> l # prms.response_times])
    /\ UNCHANGED <<user, cdf_fmt, tau>>

(* The record was never filled: whatever is printed of it, and of those    *)
(* that follow, is not followed here.                                      *)
PrintGarbage ==
    /\ garbage
    /\ JobStatisticsFn(TRUE)
    /\ UNCHANGED reportVars

(* main, when task_statistics_read has returned.                           *)
FinishReport ==
    /\ prms.state = "reading" /\ section = "done"
    /\ prms' = [prms EXCEPT !.state = IF exit_code = 0 THEN "success" ELSE "failure"]
    /\ printed' = IF exit_code = 0 /\ cdf_fmt # "NO_CDF" /\ prms.total_job_count > 0
                  THEN Cdf(prms.response_times) ELSE printed
    /\ UNCHANGED <<readVars, user, cdf_fmt, tau, seen>>

ReadOnce ==
    /\ \/ section = "idle" /\ Enter
       \/ ReadTaskStats \/ ReadRingbufParams \/ ReadJob
       \/ \E memory \in BOOLEAN : ReadName(memory)
    /\ UNCHANGED reportVars

Report ==
    /\ Reporting
    /\ \/ ReadOnce \/ PrintTaskStats \/ PrintGarbage \/ FinishReport
       \/ \E r \in Responses, memory \in BOOLEAN : PrintJobStats(r, memory)

Another == ~Reporting /\ ReadNext /\ UNCHANGED reportVars

ReportNext == Report \/ Another

ReportSpec == ReportInit /\ [][ReportNext]_allVars

-----------------------------------------------------------------------------
(* What the program prints is true of the jobs in the file, whatever job   *)
(* the log begins with: each line has the number, the response time and    *)
(* the lateness of its job; the list is sorted and counts every job told   *)
(* but those memory was short for; and the distribution ends at 1 unless   *)
(* there were such jobs.                                                   *)
ReportAddsUp ==
    LET l == prms.response_times
        Kept(us) == {j \in DOMAIN seen : seen[j].kept
                        /\ RoundToMicrosecond(Max0(seen[j].response)) = us}
        kept == {j \in DOMAIN seen : seen[j].kept}
        late == {j \in DOMAIN seen : seen[j].response > Deadline}
    IN /\ \A i, j \in DOMAIN l : i < j => l[i].response_time < l[j].response_time
       /\ \A i \in DOMAIN l : l[i].job_count = Cardinality(Kept(l[i].response_time))
       /\ \A j \in kept : \E i \in DOMAIN l :
              l[i].response_time = RoundToMicrosecond(Max0(seen[j].response))
       /\ prms.total_job_count = Len(seen) /\ prms.late_count = Cardinality(late)
       /\ Reporting /\ ~garbage /\ section = "jobs" => Len(seen) = Len(delivered)
       /\ cdf_fmt = "NO_CDF" => \A j \in DOMAIN printed :
              printed[j] = [job      |-> tau.oldest_job_pos + j - 1,
                            response |-> Max0(seen[j].response),
                            late     |-> seen[j].response > Deadline]
       /\ prms.state = "success" /\ cdf_fmt # "NO_CDF" =>
              /\ printed # <<>> => printed[Len(printed)].jobs = Cardinality(kept)
              /\ kept # {} => printed # <<>>

=============================================================================
