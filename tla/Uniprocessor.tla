---------------------------- MODULE Uniprocessor -----------------------------
(***************************************************************************)
(* The three experiments that run a set of tasks on one processor:         *)
(* rate_monotonic, earliest_deadline_first and priority_inversion_in_RM    *)
(* (without and with priority inheritance).  The main thread of each, the  *)
(* task manager, creates the tasks and their threads, sleeps, stops the    *)
(* tasks, joins the threads and destroys the tasks; on an error it goes to *)
(* the destruction at once.  MAIN_BEGIN has bound everything to CPU 0.     *)
(*                                                                         *)
(* Time is discrete: a tick is 1 ms, in priority_inversion_in_RM 10 ms.    *)
(* Only keep_cpu_busy takes time; the overheads are part of its duration,  *)
(* as the programs arrange.  The scheduler is the kernel's: SCHED_FIFO, or *)
(* earliest deadline first as long as no budget is exceeded.               *)
(***************************************************************************)
EXTENDS Integers, Sequences

CONSTANTS Programs,   \* the experiments to run
          Early,      \* by how many ticks a busy loop of each may end early
          Faults      \* may calls of the manager and of starting threads fail?

Busy(n) == [op |-> "busy", n |-> n]
Lock    == [op |-> "lock", n |-> 0]
Unlock  == [op |-> "unlock", n |-> 0]

(* A periodic task whose program is one busy loop.                         *)
Periodic(wcet, period, deadline) ==
    [period |-> period, deadline |-> deadline, offset |-> 0, program |-> <<Busy(wcet)>>]

RateMonotonicTasks == <<Periodic(2, 10, 10), Periodic(3, 15, 15),
                        Periodic(6, 26, 26), Periodic(6, 36, 36)>>

(* Variant: the tasks need the whole processor.                            *)
EarliestDeadlineFirstFull == <<Periodic(1, 4, 2), Periodic(3, 5, 5), Periodic(3, 10, 7)>>

EarliestDeadlineFirstTasks == <<Periodic(1, 4, 2), Periodic(2, 5, 5), Periodic(3, 10, 7)>>

(* tau_1_prog, tau_2_prog and tau_3_prog, each released once.              *)
PriorityInversionTasks ==
    <<[period |-> 0, deadline |-> 5, offset |-> 2,
       program |-> <<Busy(1), Lock, Busy(1), Unlock, Busy(1)>>],
      [period |-> 0, deadline |-> 53, offset |-> 4, program |-> <<Busy(50)>>],
      [period |-> 0, deadline |-> 58, offset |-> 0,
       program |-> <<Busy(1), Lock, Busy(3), Unlock, Busy(1)>>]>>

AllPrograms == {"rate_monotonic", "earliest_deadline_first", "inversion", "inheritance"}

ASSUME UniprocessorAssumption ==
    /\ Programs \subseteq AllPrograms
    /\ Early \in [Programs -> Nat]
    /\ Faults \in BOOLEAN

VARIABLES
    program,   \* the experiment that runs
    manager,   \* the main thread: position, task it is at, scheduling, exit code
    objs,      \* tasks 1..objs exist
    thread,    \* the threads of the tasks
    since,     \* time since the next_release_time of each task
    R1,        \* the task that has locked R1, or 0
    uptime     \* time since the first release, up to RunTime

vars == <<program, manager, objs, thread, since, R1, uptime>>

Set == CASE program = "rate_monotonic"          -> RateMonotonicTasks
         [] program = "earliest_deadline_first" -> EarliestDeadlineFirstTasks
         [] OTHER                               -> PriorityInversionTasks
Tasks == DOMAIN Set
LastTask == Len(Set)
Aperiodic(t) == Set[t].period = 0
Fifo == program # "earliest_deadline_first"

(* priority_inversion_in_RM stops its tasks 2 s after the first release;   *)
(* when the others do is a parameter to tune, so any time will do.         *)
RunTime == IF program \in {"inversion", "inheritance"} THEN 200 ELSE 0

NewThread == [pc      |-> "none",
              at      |-> 0,        \* position in the program
              left    |-> 0,        \* of the busy loop
              rc      |-> 0,
              stopped |-> FALSE]    \* the flag of the task object

Init ==
    /\ program \in Programs
    /\ manager = [pc |-> "setup", at |-> 0, max |-> FALSE, exit_code |-> "failure"]
    /\ objs = 0
    /\ thread = [t \in Tasks |-> NewThread]
    /\ since = [t \in Tasks |-> -1 - Set[t].offset]
    /\ R1 = 0
    /\ uptime = 0

-----------------------------------------------------------------------------
(* The scheduler.                                                          *)

ManagerReady ==
    \/ manager.pc \in {"setup", "max", "create", "stop", "check", "destroy"}
    \/ manager.pc = "join" /\ thread[manager.at].pc = "ended"

Ready(t) == thread[t].pc \in {"new", "start", "run"}

(* Variant: R1 without the protocol PTHREAD_PRIO_INHERIT.                  *)
FifoRankPlain(t) == IF thread[t].pc = "new" THEN 1 ELSE 1 + t

(* Variant: the priorities upside down.                                    *)
FifoRankReversed(t) == IF thread[t].pc = "new" THEN 1 ELSE 2 + LastTask - t

(* SCHED_FIFO: sched_fifo_prio(t) is t levels below the maximum, which the *)
(* manager has and a new thread inherits.  Who has locked R1 inherits the  *)
(* priority of those who wait for it.                                      *)
FifoRank(t) ==
    LET waiting == {u \in Tasks : thread[u].pc = "blocked"}
    IN CASE thread[t].pc = "new" -> 1
         [] thread[t].pc # "new" /\ program = "inheritance" /\ R1 = t
                /\ \E u \in waiting : u < t ->
              1 + (CHOOSE u \in waiting : \A v \in waiting : u <= v)
         [] OTHER -> 1 + t

(* Later than every deadline: the rank of what is not real-time.           *)
Normal == 1000

Rank(t) == IF Fifo THEN FifoRank(t)
           ELSE IF thread[t].pc = "new" THEN Normal ELSE Set[t].deadline - since[t]

ManagerRank == IF manager.max THEN 0 ELSE Normal

ManagerRuns == ManagerReady /\ \A t \in Tasks : Ready(t) => ManagerRank <= Rank(t)
Runs(t) == /\ Ready(t)
           /\ \A u \in Tasks : Ready(u) => Rank(t) <= Rank(u)
           /\ ManagerReady => Rank(t) <= ManagerRank

Due(t) == thread[t].pc = "sleep" /\ since[t] >= 0

(* A tick: whoever runs is busy, or nobody runs.                           *)
Tick ==
    /\ manager.pc \notin {"exited", "crashed"}
    /\ \A t \in Tasks : ~Due(t)
    /\ \/ \E t \in Tasks : /\ Runs(t) /\ thread[t].left > 0
                           /\ thread' = [thread EXCEPT ![t].left = @ - 1]
       \/ ~ManagerReady /\ (\A t \in Tasks : ~Ready(t)) /\ UNCHANGED thread
    /\ since' = [t \in Tasks |-> IF thread[t].pc \in {"sleep", "run", "blocked"}
                                 THEN since[t] + 1 ELSE since[t]]
    /\ uptime' = IF uptime < RunTime THEN uptime + 1 ELSE uptime
    /\ UNCHANGED <<program, manager, objs, R1>>

-----------------------------------------------------------------------------
(* The threads of the tasks: task_thread, and task_start of task.c.        *)

othersUnchanged == UNCHANGED <<program, manager, objs, uptime>>

(* sched_fifo_enter or sched_deadline_enter; if it fails the thread ends.  *)
EnterScheduler(t, ok) ==
    /\ Runs(t) /\ thread[t].pc = "new"
    /\ ok \/ Faults
    /\ thread' = [thread EXCEPT ![t].pc = IF ok THEN "start" ELSE "ended",
                                ![t].rc = IF ok THEN 0 ELSE -1]
    /\ othersUnchanged /\ UNCHANGED <<since, R1>>

Start(t) ==
    /\ Runs(t) /\ thread[t].pc = "start"
    /\ thread' = [thread EXCEPT ![t].pc = "sleep"]
    /\ othersUnchanged /\ UNCHANGED <<since, R1>>

(* How long the step of the program at position i may take.                *)
Durations(t, i) ==
    LET step == Set[t].program[i]
    IN IF step.op = "busy" THEN {n \in (step.n - Early[program])..step.n : n > 0} ELSE {0}

(* clock_nanosleep returns, in the loop of task.c or in one_time_release.  *)
Release(t) ==
    /\ Due(t)
    /\ \E n \in Durations(t, 1) :
          thread' = [thread EXCEPT ![t].pc = "run", ![t].at = 1, ![t].left = n]
    /\ othersUnchanged /\ UNCHANGED <<since, R1>>

(* The step the program of t is at has been done.                          *)
Advance(t) ==
    /\ thread[t].at < Len(Set[t].program)
    /\ \E n \in Durations(t, thread[t].at + 1) :
          thread' = [thread EXCEPT ![t].pc = "run", ![t].at = @ + 1, ![t].left = n]

AtStep(t, op) == /\ Runs(t) /\ thread[t].pc = "run" /\ thread[t].left = 0
                 /\ Set[t].program[thread[t].at].op = op

DoneBusy(t) ==
    /\ AtStep(t, "busy") /\ Advance(t)
    /\ othersUnchanged /\ UNCHANGED <<since, R1>>

LockR1(t) ==
    /\ AtStep(t, "lock")
    /\ \/ R1 = 0 /\ R1' = t /\ Advance(t)
       \/ R1 # 0 /\ thread' = [thread EXCEPT ![t].pc = "blocked"] /\ UNCHANGED R1
    /\ othersUnchanged /\ UNCHANGED since

(* The one who waits for R1 becomes ready and tries again.                 *)
UnlockR1(t) ==
    /\ AtStep(t, "unlock")
    /\ R1' = 0
    /\ \E n \in Durations(t, thread[t].at + 1) :
          thread' = [u \in Tasks |->
              CASE u = t -> [thread[t] EXCEPT !.at = @ + 1, !.left = n]
                [] u # t /\ thread[u].pc = "blocked" -> [thread[u] EXCEPT !.pc = "run"]
                [] OTHER -> thread[u]]
    /\ othersUnchanged /\ UNCHANGED since

(* The job ends; a periodic task waits for its next release, which may be  *)
(* in the past, an aperiodic one in sigwait for ever.  The thread of a     *)
(* task that has been stopped writes the log, which may fail, and ends.    *)
(* (What may fail in each job is in module Task.)                          *)
EndJob(t, ok) ==
    /\ AtStep(t, "busy") /\ thread[t].at = Len(Set[t].program)
    /\ ok \/ (Faults /\ thread[t].stopped)
    /\ LET again == ~thread[t].stopped
       IN thread' = [thread EXCEPT ![t] = [@ EXCEPT
              !.pc = IF ~again THEN "ended" ELSE IF Aperiodic(t) THEN "wait" ELSE "sleep",
              !.at = 0, !.rc = IF ok THEN 0 ELSE -2]]
    /\ since' = [since EXCEPT ![t] = IF Aperiodic(t) THEN 0 ELSE @ - Set[t].period]
    /\ othersUnchanged /\ UNCHANGED R1

Thread(t) ==
    \/ \E ok \in BOOLEAN : EnterScheduler(t, ok) \/ EndJob(t, ok)
    \/ Start(t) \/ Release(t) \/ DoneBusy(t) \/ LockR1(t) \/ UnlockR1(t)

-----------------------------------------------------------------------------
(* The manager.                                                            *)

Goto(pc) == manager' = [manager EXCEPT !.pc = pc, !.at = 1]
GotoError == manager' = [manager EXCEPT !.pc = "destroy", !.at = 0]

(* Overheads, busy loops, and tasks 1 to k: the next step fails.           *)
Setup(k) ==
    /\ manager.pc = "setup"
    /\ k = LastTask \/ Faults
    /\ objs' = k
    /\ IF k = LastTask THEN Goto("max") ELSE GotoError
    /\ UNCHANGED <<program, thread, since, R1, uptime>>

(* Variant: the manager keeps the normal scheduling.                       *)
BecomeManagerNormal(ok) ==
    /\ manager.pc = "max"
    /\ ok \/ Faults
    /\ IF ok THEN Goto("create") ELSE GotoError
    /\ UNCHANGED <<program, objs, thread, since, R1, uptime>>

(* sched_fifo_enter_max; earliest_deadline_first, whose manager keeps the  *)
(* normal scheduling, opens its trace file instead.                        *)
BecomeManager(ok) ==
    /\ manager.pc = "max"
    /\ ok \/ Faults
    /\ IF ok THEN manager' = [manager EXCEPT !.pc = "create", !.at = 1, !.max = Fifo]
       ELSE GotoError
    /\ UNCHANGED <<program, objs, thread, since, R1, uptime>>

(* Goes on to the next task, after the last one to pc.                     *)
Following(pc) == IF manager.at < LastTask
                 THEN manager' = [manager EXCEPT !.at = @ + 1]
                 ELSE Goto(pc)

CreateThread(ok) ==
    /\ manager.pc = "create" /\ ManagerRuns
    /\ ok \/ Faults
    /\ IF ok THEN /\ thread' = [thread EXCEPT ![manager.at].pc = "new"]
                  /\ Following("sleep")
       ELSE GotoError /\ UNCHANGED thread
    /\ UNCHANGED <<program, objs, since, R1, uptime>>

WakeUp(ok) ==
    /\ manager.pc = "sleep"
    /\ IF ok THEN uptime = RunTime /\ Goto("stop") ELSE Faults /\ GotoError
    /\ UNCHANGED <<program, objs, thread, since, R1, uptime>>

(* task_stop.  The thread of an aperiodic task, which has done its job by  *)
(* now, is cancelled in its wait; if it is not there, having failed to     *)
(* start, the manager looks again and again in vain.                       *)

StopTask ==
    /\ manager.pc = "stop" /\ ManagerRuns
    /\ LET t == manager.at
       IN CASE ~Aperiodic(t) ->
                 thread' = [thread EXCEPT ![t].stopped = TRUE] /\ Following("join")
            [] Aperiodic(t) /\ thread[t].pc = "wait" ->
                 /\ thread' = [thread EXCEPT ![t].pc = "ended", ![t].stopped = TRUE]
                 /\ Following("join")
            [] Aperiodic(t) /\ thread[t].pc # "wait" ->
                 /\ thread' = [thread EXCEPT ![t].stopped = TRUE]
                 /\ manager' = [manager EXCEPT !.pc = "poll"]
    /\ UNCHANGED <<program, objs, since, R1, uptime>>

JoinThread(ok) ==
    /\ manager.pc = "join" /\ ManagerRuns
    /\ ok \/ Faults
    /\ IF ok THEN Following("check") ELSE GotoError
    /\ UNCHANGED <<program, objs, thread, since, R1, uptime>>

(* Variant: the last task is not checked.                                  *)
CheckMost ==
    /\ manager.pc = "check" /\ ManagerRuns
    /\ manager' = [manager EXCEPT !.pc = "destroy", !.at = 0,
          !.exit_code = IF \A t \in 1..(LastTask - 1) : thread[t].rc = 0
                        THEN "success" ELSE "failure"]
    /\ UNCHANGED <<program, objs, thread, since, R1, uptime>>

CheckReturnCodes ==
    /\ manager.pc = "check" /\ ManagerRuns
    /\ manager' = [manager EXCEPT !.pc = "destroy", !.at = 0,
          !.exit_code = IF \A t \in Tasks : thread[t].rc = 0
                        THEN "success" ELSE "failure"]
    /\ UNCHANGED <<program, objs, thread, since, R1, uptime>>

(* The tasks are destroyed from the last to the first.                     *)
DestroyTask ==
    /\ manager.pc = "destroy" /\ ManagerRuns /\ objs > 0
    /\ objs' = objs - 1
    /\ UNCHANGED <<program, manager, thread, since, R1, uptime>>

(* main returns, and with it the process and its threads end.              *)
Exit ==
    /\ manager.pc = "destroy" /\ ManagerRuns /\ objs = 0
    /\ manager' = [manager EXCEPT !.pc = "exited"]
    /\ thread' = [t \in Tasks |-> [NewThread EXCEPT !.rc = thread[t].rc]]
    /\ R1' = 0
    /\ UNCHANGED <<program, objs, since, uptime>>

(* A thread that goes on without its task may do so as if nothing had      *)
(* happened, or crash.                                                     *)
UsesDestroyed(t) == Runs(t) /\ thread[t].pc # "new" /\ t > objs
Crash ==
    /\ \E t \in Tasks : UsesDestroyed(t)
    /\ manager' = [manager EXCEPT !.pc = "crashed"]
    /\ thread' = [t \in Tasks |-> NewThread]
    /\ R1' = 0
    /\ UNCHANGED <<program, objs, since, uptime>>

Manager ==
    \/ \E k \in 0..LastTask : Setup(k)
    \/ \E ok \in BOOLEAN : BecomeManager(ok) \/ CreateThread(ok) \/ WakeUp(ok) \/ JoinThread(ok)
    \/ StopTask \/ CheckReturnCodes \/ DestroyTask \/ Exit

Next == Tick \/ Manager \/ Crash \/ \E t \in Tasks : Thread(t)

(* Time passes, and what can run runs.                                     *)
Spec == Init /\ [][Next]_vars /\ WF_vars(Next)

-----------------------------------------------------------------------------
(* The manager, the threads and the times.                                 *)
TypeOK ==
    /\ program \in Programs
    /\ manager \in [pc : {"setup", "max", "create", "sleep", "stop", "poll", "join",
                          "check", "destroy", "exited", "crashed"},
                    at : 0..LastTask, max : BOOLEAN, exit_code : {"success", "failure"}]
    /\ objs \in 0..LastTask
    /\ thread \in [Tasks -> [pc : {"none", "new", "start", "sleep", "run", "blocked",
                                   "wait", "ended"},
                             at : Nat, left : Nat, rc : {0, -1, -2}, stopped : BOOLEAN]]
    /\ since \in [Tasks -> Int]
    /\ R1 \in 0..LastTask
    /\ uptime \in 0..RunTime

(* "no job of any of the tasks is ever late": true of rate_monotonic, of   *)
(* earliest_deadline_first and, with inheritance, of the task set that has *)
(* a priority inversion without it; wherever the tasks are stopped.        *)
NoJobLate ==
    program # "inversion" =>
        \A t \in Tasks : thread[t].pc \in {"run", "blocked"} => since[t] <= Set[t].deadline

(* The response times are those of the analysis in rate_monotonic/README.  *)
ResponseTime == <<2, 5, 13, 24>>
ResponseTimesAsAnalysed ==
    program = "rate_monotonic" =>
        \A t \in Tasks : thread[t].pc = "run" => since[t] <= ResponseTime[t]

(* With priority inheritance tau_2 never runs while tau_1 waits for R1,    *)
(* which tau_3 has locked; without it tau_2 does, for its whole job.       *)
InversionOnlyWithoutInheritance ==
    program = "inheritance" => ~(thread[1].pc = "blocked" /\ Runs(2))

(* Whatever fails, a thread never runs after its task has been destroyed,  *)
(* since the manager has the maximum priority and does not sleep between   *)
(* the destruction and the end of the program.                             *)
DestroyedNeverRuns == Fifo => \A t \in Tasks : ~UsesDestroyed(t)

(* The program succeeds only if every thread has run its task and ended    *)
(* without an error.                                                       *)
SuccessMeansAllRan ==
    manager.exit_code = "success" =>
        \A t \in Tasks : /\ thread[t].rc = 0
                         /\ manager.pc # "exited" => thread[t].pc = "ended" /\ thread[t].stopped

(* Once the manager begins to stop the tasks the program comes to its end, *)
(* also if the manager has to find a moment when no task runs; unless a    *)
(* thread has ended before it got to its task.                             *)
StopEndsProgram ==
    (manager.pc = "stop" /\ \A t \in Tasks : thread[t].rc = 0)
        ~> manager.pc \in {"exited", "crashed"}

=============================================================================
