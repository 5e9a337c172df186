------------------------------ MODULE TimeScripts -----------------------------
(***************************************************************************)
(* What each program does with its utility_time objects: the sequence of   *)
(* its operations on them, in the order of the code, for module            *)
(* TimeObjects.  Of the operations that do not concern these objects only  *)
(* those remain that may fail and thereby end the sequence.                *)
(***************************************************************************)
EXTENDS Integers, Sequences

CONSTANT Programs       \* the programs to look at

-----------------------------------------------------------------------------
(* The operations.                                                         *)

Op(op, to, args) == [op |-> op, to |-> to, args |-> args]
NoName == <<"", 0>>

V(name)    == <<name, 0>>       \* a variable, and one of those with an index
W(name, i) == <<name, i>>

Static(x)        == <<Op("static", x, <<>>)>>
Dyn(x)           == <<Op("dyn", x, <<>>)>>        \* to_utility_time_dyn and the like
DynOf(x, args)   == <<Op("dyn", x, args)>>        \* utility_time_sub_dyn
DynGc(x, args)   == <<Op("dyn_gc", x, args)>>     \* utility_time_sub_dyn_gc
UseGc(args)      == <<Op("gc_auto", NoName, args)>>   \* to_timespec_gc
Use(args)        == <<Op("use", NoName, args)>>
Manual(x)        == <<Op("manual", x, <<x>>)>>    \* utility_time_set_gc_manual
Gc(x)            == <<Op("gc", x, <<x>>)>>        \* utility_time_gc
GcUnlessNULL(x)  == <<Op("gc_unless_null", x, <<>>)>>
MayFail          == <<Op("may_fail", NoName, <<>>)>>
Call(args)       == <<Op("call", NoName, args)>>  \* create_cpu_busyloop, sched_deadline_enter
Measure(kind, x) == <<Op(kind, x, <<>>)>>
Create(args)     == <<Op("task_create", NoName, args)>>
Spawn(args)      == <<Op("spawn", NoName, args)>>
Join             == <<Op("join", NoName, <<>>)>>

(* f(1) \o ... \o f(n)                                                     *)
For(n, f(_)) == LET upto[i \in 0..n] == IF i = 0 THEN <<>> ELSE upto[i - 1] \o f(i)
                IN upto[n]

-----------------------------------------------------------------------------
(* The programs.                                                           *)

Overheads == <<V("job_stats_overhead"), V("task_overhead")>>

(* "Determining overheads", in every program but for what becomes of the   *)
(* sum.                                                                    *)
Determine ==
    Measure("job", V("job_stats_overhead")) \o Manual(V("job_stats_overhead"))
    \o Use(<<V("job_stats_overhead")>>)
    \o Measure("task", V("task_overhead")) \o Manual(V("task_overhead"))
    \o Use(<<V("task_overhead")>>)

Sum == DynGc(V("overhead"), Overheads) \o Manual(V("overhead"))

(* "Calculate the absolute starting & ending time"                         *)
AbsoluteTime(offset) ==
    Dyn(V("now")) \o DynGc(V("t"), <<V("now"), offset>>) \o UseGc(<<V("t")>>)

CleanUpOverheads == GcUnlessNULL(V("overhead")) \o GcUnlessNULL(V("task_overhead"))
                    \o GcUnlessNULL(V("job_stats_overhead"))

CheckWcet(i) == Use(<<W("wcet", i), V("overhead")>>) \o MayFail

Busyloop(i) == DynOf(V("duration"), <<W("wcet", i), V("overhead")>>)
               \o Call(<<V("duration"), V("tolerance")>>)

CreateTaskOf(wcet, period, deadline, t_0, offset) ==
    Create(<<wcet, period, deadline, t_0, offset>> \o Overheads)

Tuneable(i) == Dyn(W("wcet", i)) \o Dyn(W("period", i))

(* Variant: create_task does not set the period to manual.                 *)
CreateTaskRMAuto(i) ==
    Dyn(V("t_0")) \o Dyn(V("offset"))
    \o CreateTaskOf(W("wcet", i), W("period", i), W("period", i), V("t_0"), V("offset"))
    \o Gc(W("period", i))

(* The period is the deadline too, so it must not be freed before the end  *)
(* of task_create.                                                         *)
CreateTaskRM(i) ==
    Manual(W("period", i)) \o Dyn(V("t_0")) \o Dyn(V("offset"))
    \o CreateTaskOf(W("wcet", i), W("period", i), W("period", i), V("t_0"), V("offset"))
    \o Gc(W("period", i))

RateMonotonic ==
    For(4, Tuneable) \o Dyn(V("tolerance"))
    \o Dyn(V("offset_to_start")) \o Dyn(V("offset_to_stop"))
    \o Determine \o Sum \o For(4, CheckWcet)
    \o Manual(V("tolerance")) \o For(4, Busyloop) \o Gc(V("tolerance"))
    \o MayFail \o AbsoluteTime(V("offset_to_start")) \o AbsoluteTime(V("offset_to_stop"))
    \o For(4, CreateTaskRM) \o MayFail

(* The threads of earliest_deadline_first give the WCET and the deadline   *)
(* of their task to sched_deadline_enter when they get to run.             *)
TuneableEDF(i) == Tuneable(i) \o Dyn(W("deadline", i))

ManualEDF(i) == Manual(W("wcet", i)) \o Manual(W("period", i)) \o Manual(W("deadline", i))

CreateTaskEDF(i) ==
    Dyn(V("t_0")) \o Dyn(V("offset"))
    \o CreateTaskOf(W("wcet", i), W("period", i), W("deadline", i), V("t_0"), V("offset"))

CreateThreadEDF(i) == MayFail \o Spawn(<<W("wcet", i), W("deadline", i)>>)

CleanUpEDF(i) == Gc(W("wcet", i)) \o Gc(W("period", i)) \o Gc(W("deadline", i))

EarliestDeadlineFirst ==
    For(3, TuneableEDF) \o Dyn(V("tolerance"))
    \o Dyn(V("offset_to_start")) \o Dyn(V("offset_to_stop"))
    \o For(3, ManualEDF) \o Determine \o Sum \o For(3, CheckWcet)
    \o Manual(V("tolerance")) \o For(3, Busyloop) \o Gc(V("tolerance"))
    \o MayFail \o AbsoluteTime(V("offset_to_start")) \o AbsoluteTime(V("offset_to_stop"))
    \o For(3, CreateTaskEDF) \o For(3, CreateThreadEDF) \o MayFail \o Join

BusyloopPI(i) ==
    Dyn(V("length")) \o DynGc(V("length"), <<V("length"), V("job_stats_overhead")>>)
    \o DynGc(V("length"), <<V("length"), V("task_overhead")>>) \o Call(<<V("length")>>)

TaskPI(i) == Static(W("wcet", i)) \o Static(W("deadline", i))

ReleasePI(i) ==
    Dyn(W("offset", i)) \o Dyn(V("off"))
    \o DynGc(V("offset"), <<V("offset_to_start"), V("off")>>) \o AbsoluteTime(V("offset"))

CreateTaskPI(i) ==
    Dyn(V("period")) \o Dyn(V("t_0"))
    \o CreateTaskOf(W("wcet", i), V("period"), W("deadline", i), V("t_0"), W("offset", i))

PriorityInversion ==
    Dyn(V("offset_to_start")) \o Determine \o Sum \o For(3, BusyloopPI) \o MayFail
    \o For(3, TaskPI) \o MayFail
    \o Manual(V("offset_to_start")) \o For(3, ReleasePI)
    \o AbsoluteTime(V("offset_to_start")) \o Gc(V("offset_to_start"))
    \o For(3, CreateTaskPI) \o MayFail

(* hrt_cbs and the client: the thread that main creates, waits for, and    *)
(* only then goes on to its clean-up.                                      *)
EnterCbs == Dyn(V("budget")) \o Dyn(V("period")) \o Call(<<V("budget"), V("period")>>)

IncBy(x) == Use(<<V("overhead")>>) \o UseGc(<<x>>)     \* utility_time_inc_gc

CleanUpMain == Gc(V("job_stats_overhead")) \o Gc(V("task_overhead")) \o Gc(V("overhead"))

Arguments == Dyn(V("wcet")) \o Dyn(V("period")) \o Dyn(V("deadline")) \o Dyn(V("offset"))

HrtCbs ==
    Dyn(V("overhead")) \o Manual(V("overhead")) \o Determine
    \o IncBy(V("job_stats_overhead")) \o IncBy(V("task_overhead"))
    \o Dyn(V("w")) \o DynGc(V("real_wcet"), <<V("w"), V("overhead")>>) \o Dyn(V("tolerance"))
    \o Call(<<V("real_wcet"), V("tolerance")>>) \o EnterCbs
    \o MayFail \o Dyn(V("now")) \o Dyn(V("one_s"))
    \o DynGc(V("t_release"), <<V("now"), V("one_s")>>) \o Arguments
    \o CreateTaskOf(V("wcet"), V("period"), V("deadline"), V("t_release"), V("offset"))
    \o MayFail \o CleanUpMain

(* The overheads are taken out of the part that is long enough.            *)
Client(part) ==
    Dyn(V("overhead")) \o Manual(V("overhead")) \o Determine
    \o MayFail \o Dyn(V("t2")) \o Dyn(V("t1"))
    \o DynGc(V("comm_overhead"), <<V("t2"), V("t1")>>) \o Dyn(V("comm_real"))
    \o DynGc(V("comm_overhead"), <<V("comm_overhead"), V("comm_real")>>)
    \o Use(<<V("comm_overhead")>>)
    \o IncBy(V("job_stats_overhead")) \o IncBy(V("task_overhead")) \o IncBy(V("comm_overhead"))
    \o Dyn(V("prologue")) \o Dyn(V("epilogue")) \o MayFail
    \o DynGc(V(part), <<V(part), V("overhead")>>)
    \o Dyn(V("tolerance")) \o Call(<<V("prologue"), V("tolerance")>>)
    \o Dyn(V("tolerance")) \o Call(<<V("epilogue"), V("tolerance")>>)
    \o Static(V("next_release")) \o EnterCbs \o MayFail
    \o Dyn(V("now")) \o Dyn(V("one_s")) \o UseGc(<<V("now"), V("one_s")>>) \o Arguments
    \o CreateTaskOf(V("wcet"), V("period"), V("deadline"), V("next_release"), V("offset"))
    \o MayFail \o CleanUpMain

(* server and cpu_hog_cbs.                                                 *)
Server == Dyn(V("duration")) \o Dyn(V("tolerance")) \o Call(<<V("duration"), V("tolerance")>>)
          \o MayFail \o EnterCbs

(* The comparison at the end of multicore_means_parallel_threads.          *)
Moments == <<V("cpu0_begin"), V("cpu0_end"), V("cpu1_begin"), V("cpu1_end")>>
Lengths == <<V("cpu0_duration"), V("cpu1_duration")>>
Deltas  == <<V("delta_begin"), V("delta_duration"), V("delta_end")>>

Multicore ==
    LET MakeMoment(i) == Dyn(Moments[i])
        MakeLength(i) == DynOf(Lengths[i], <<Moments[2 * i], Moments[2 * i - 1]>>)
                         \o Use(<<Lengths[i]>>)
        MakeDelta(i)  == DynOf(Deltas[i], Moments \o Lengths) \o Use(<<Deltas[i]>>)
        Collect(i)    == Gc((Moments \o Lengths \o Deltas)[i])
    IN Static(V("tolerance")) \o For(4, MakeMoment) \o For(2, MakeLength)
       \o For(3, MakeDelta) \o For(9, Collect) \o MayFail

(* read_task_stats_file: print_task_stats, then print_job_stats twice.     *)
PrintTaskStats ==
    LET Field(i)  == Dyn(W("field", i)) \o UseGc(<<W("field", i)>>)
    IN For(11, Field)

PrintJobStats(i) ==
    Dyn(V("n_periods")) \o DynGc(V("t_release"), <<V("offset"), V("n_periods")>>)
    \o Use(<<V("t_release")>>)
    \o Dyn(V("t_begin")) \o DynGc(V("t_start"), <<V("t_begin"), V("t0")>>)
    \o DynOf(V("t_start_rel"), <<V("t_start"), V("t_release")>>) \o UseGc(<<V("t_start_rel")>>)
    \o DynOf(V("t_deadline"), <<V("t_release"), V("deadline")>>) \o Use(<<V("t_deadline")>>)
    \o Dyn(V("t_end")) \o DynGc(V("t_finish"), <<V("t_end"), V("t0")>>)
    \o DynOf(V("t_finish_rel"), <<V("t_finish"), V("t_deadline")>>)
    \o UseGc(<<V("t_finish_rel")>>) \o Gc(V("t_deadline"))
    \o DynOf(V("exec_time"), <<V("t_finish"), V("t_start")>>) \o Gc(V("t_start"))
    \o UseGc(<<V("exec_time")>>)
    \o DynGc(V("response_time"), <<V("t_finish"), V("t_release")>>)
    \o Use(<<V("response_time")>>) \o UseGc(<<V("response_time")>>)

ReadTaskStatsFile == Static(V("offset")) \o Static(V("deadline")) \o Static(V("t0"))
                     \o PrintTaskStats \o For(2, PrintJobStats)

(* testcase 5 of task_test.c: the overhead of an aperiodic task.           *)
AperiodicTest == Measure("aperiodic", V("overhead")) \o UseGc(<<V("overhead")>>)

(* A program: its operations, and those that follow its label error.       *)
Program(body, clean_up) == [body |-> body, clean_up |-> clean_up]

AllScripts ==
    [rate_monotonic           |-> Program(RateMonotonic, CleanUpOverheads),
     earliest_deadline_first  |-> Program(EarliestDeadlineFirst,
                                          CleanUpOverheads \o For(3, CleanUpEDF)),
     priority_inversion_in_RM |-> Program(PriorityInversion, CleanUpOverheads),
     hrt_cbs                  |-> Program(HrtCbs, <<>>),
     client_epilogue          |-> Program(Client("epilogue"), <<>>),
     client_prologue          |-> Program(Client("prologue"), <<>>),
     server                   |-> Program(Server, <<>>),
     multicore                |-> Program(Multicore, <<>>),
     read_task_stats_file     |-> Program(ReadTaskStatsFile, <<>>),
     task_test                |-> Program(AperiodicTest, <<>>),
     task                     |-> Program(<<>>, <<>>)]

ASSUME TimeScriptsAssumption == Programs \subseteq DOMAIN AllScripts

==============================================================================
