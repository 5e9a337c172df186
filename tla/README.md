# A verification of realtime_tests

TLA+ models of the C programs and libraries of this repository, their
model-checking configurations for TLC and proofs for TLAPS. The repository
measures how Linux schedules real-time tasks: a small library releases jobs and
logs when they start and finish, and experiments built on it show rate-monotonic
and EDF scheduling, priority inversion, and bandwidth inheritance (BWI) between
clients and servers. What can go wrong is mostly a matter of order: who stops whom
and when, which signal arrives before which system call, what is left of a log
when a thread is cancelled, and who owns what when a step fails.

- [The system](#the-system): components, state, operations, interactions
- [The modules](#the-modules): which module models what, and how
- [The runs](#the-runs): what is checked, within which bounds
- [The proofs](#the-proofs)
- [Where code and documentation disagree](#where-code-and-documentation-disagree)
- [What is not modelled](#what-is-not-modelled) and [the plan](#the-plan)

## The system

**job.c** keeps a ring buffer of job statistics: `ringbuf`, `slot_count`, `next`,
`overrun`, `overrun_count`, `overrun_disabled`, `write_count`. `job_start` takes a
slot, reads the clock, runs the job's program and reads the clock again;
`jobstats_ringbuf_save` writes the records to a file, oldest first. Correct is: the
redundant flags and counters tell one story, every slot holds both readings of the
job its position says, and a saved log accounts for every job, kept or lost. Hard:
the limit of the ring, which `next` may equal; rings of one slot; a job cancelled
half-way.

**task.c** has the task object: `task_create`, `task_start` (periodic or
aperiodic, in the task's own thread), `task_stop` (from another thread, or from
the task's program), `task_destroy`, and `task_statistics_read`, which reads the
log. The threads share the flags `stopped` and `inside_aperiodic_release` without
a lock; `task_stop` cancels the thread of an aperiodic task; two cleanup handlers
flush and close the log. Correct is: at most one job after a stop; a stopped
thread ends and its log accounts for its jobs; nothing leaks or is released twice;
a reader gets the jobs in order or an exit code that tells the truth. Hard:
cancellation at every cancellation point, two threads and two flags, each of
eight steps of `task_create` failing, files cut off or unreadable anywhere.

**What the executive costs** is measured by `finish_to_start_overhead` (task.c) and
`job_statistics_overhead` (job.c), each with a thread of the highest priority that
runs the very loop, or the very clock readings, that it measures. Correct is: the
number handed out is the distance of the readings it claims to be, nothing is left
behind on an error, and no result comes without success. Hard: a counter that stops
the loop after two jobs, in a ring of two slots; an error before the thread has
initialised what its cleaning up looks at.

**utility_time.h** computes with times of seconds and nanoseconds, reads them from
strings and writes them to strings; operands and result may be one object. Correct is:
results normalised and exact, a string read as what it means, comparisons those of the
times. Dynamic objects are collected: an operation whose name ends in `_gc`, or a
function that takes over its arguments, frees those not set to manual. Correct is, of
every program that uses them: no object is used or freed after it was freed, and none
is left over. Hard: nothing checks it; it rests on the order of the operations of each
program, on every path of failure and in every thread.

**rate_monotonic, earliest_deadline_first, priority_inversion_in_RM** run sets of
three or four tasks on one processor. The main thread, the task manager, creates
the tasks and their threads, sleeps, stops the tasks, joins the threads, looks at
their return codes and destroys the tasks. Correct is: the response times the
READMEs promise; cleaning up after a failure never pulls a task from under its
running thread; success is reported only if every task ran. Hard: the schedule
until it repeats, and the priority of the manager, on which the cleaning up rests.

**bwi-client_server** is a driver (`main.c`) that reads a list of programs,
completes their options with the duration of the experiment and the process IDs of
servers, creates them one by one so that each can calibrate its busy loops
undisturbed, starts them by SIGUSR1, stops them by SIGTERM and waits for them, or on
an error and on SIGINT kills them all; the hogs and the real-time task it may start
(`cpu_hog.c`, `server_hog.c`, `cpu_hog_cbs.c`, `hrt_cbs.c`), each with its own way of
being told to end: a flag, a jump out of the handler, or `sigwait`; a client (`client.c`) whose
periodic task sends a request and waits for the answer, lending its bandwidth to
the server; and a server (`server.c`) that may forward the request to a subserver.
Clients measure their overhead by putting the server, and the chain behind it,
into SCHED_FIFO with a toggling SIGUSR1. Correct is: one request, one answer;
SCHED_FIFO exactly as long as somebody measures; what a server works on is what its
sender waits for at that moment, and with the sender's bandwidth, at every link of a
chain; a signal kills no process it is not meant to kill; no process
outlives the driver; everybody ends. Hard: every signal may arrive before, in or
after every system call, and a process may have just been forked.

**utility_cpu, utility_experimentation, multicore_means_parallel_threads**: utility_cpu
reads and writes the governors and frequencies of the processors and searches for the
number of turns of a busy loop that lasts a given time, in a thread at the highest
priority and in a limited number of passes. utility_experimentation.h is the frame of
the programs: it puts processor 0 at its maximum frequency and restores its governor at
exit. The experiment does the same for two processors, calibrates a loop on each and
lets two threads run them from a barrier on. Correct is: every governor restored,
wherever the program fails; a loop is used only under the frequency at which it was
measured; the threads really run at the same time. Hard: saving and restoring the
governor of processor 0 inside one another, a thread that fails on its way to the
barrier, unsigned arithmetic in the corrections of the search.

**utility_file** reads lines into a buffer that the caller keeps from line to line and
that grows when it is full, and records of a fixed size. Correct is: a line is handed out as
it is in the file, whatever its length and that of the lines before it; the end of
the file and an error are told apart. `get_last_cpu` counts the processors with it.

**read_task_stats_file** prints what a statistics file says of each job, or the
distribution of the response times. Correct is: every line has the number, response
time and lateness of its job, although jobs are numbered by counting from
`oldest_job_pos`; the list is sorted and counts every job once.

**Helpers**: utility_sched* (thin wrappers), utility_log, utility_memory. **Tools**:
sched_switch, and an experiment with SCHED_DEADLINE and kernel threads.

The libraries are layered: a task owns a ring buffer and calls `job_start`; the
experiments own tasks; the driver owns processes whose threads own tasks. They
interact by calls and callbacks within a thread, by flags, cancellation and a mutex
between threads, and by signals, datagrams and exit codes between processes.

`PROJECT.json` lists every component with what is modelled of it, every hazard at
its line with the properties that would catch it, and, for every definition, the
lines of the source it stands for.

## The modules

| module | of the source | composed with |
| --- | --- | --- |
| `Ringbuf` | the ring buffer of job.c, as pure operators | used by `Job`, `Task` |
| `JobLog` | (abstract) what a bounded job log promises | implemented by `Job` |
| `Job` | one thread's use of a ring buffer, `job_start`, save | |
| `Task` | `task_start`, `task_stop`, cleanup handlers, cancellation | extends `Ringbuf` |
| `TaskCreate` | ownership in `task_create`, its errors, `task_destroy` | extended by `TimeObjects` |
| `Overhead` | the measurements of task.c and job.c | extends `Ringbuf`, extended by `TimeObjects` |
| `TimeScripts` | what each program does with its time objects, in order | extended by `TimeObjects` |
| `TimeObjects` | the collection of dynamic objects of utility_time.h | runs `TaskCreate` and `Overhead` in the programs of `TimeScripts` |
| `TaskStatsFile` | `task_statistics_read` and what it calls | extended by `StatsReport` |
| `StatsReport` | read_task_stats_file.c | |
| `UtilityTime` | the arithmetic and the comparisons of utility_time.h | extended by `UtilityTimeText` |
| `UtilityTimeText` | the conversions of utility_time.h to and from strings and timespec | |
| `Uniprocessor` | three experiments over a model of the scheduler | |
| `BwiServer` | server.c | extended by `BwiClient` |
| `BwiClient` | client.c | extended by `Bwi` |
| `Bwi` | the schedule of the driver with its servers and clients | |
| `BwiPrograms` | hrt_cbs.c, cpu_hog_cbs.c, cpu_hog.c, server_hog.c; where client.c and server.c begin and end | extended by `BwiDriver` |
| `BwiDriver` | main.c: lists, options, creation, signals, termination | |
| `UtilityFile` | `utility_file_readln`, byte by byte, and `get_last_cpu` | extended by `UtilityCpu` |
| `UtilityCpu` | utility_cpu.c: governors, the busy loop search | extended by `Multicore` |
| `Multicore` | multicore_means_parallel_threads/main.c and the frame of utility_experimentation.h | |
| `MC...` | the constants of the runs | |
| `RingbufProof` | lemmas about the operations of `Ringbuf` | extended by `JobProof`, `TaskProof`, `TimeObjectsProof` |
| `TaskProof`, `TimeObjectsProof`, `UtilityTimeProof`, `MulticoreProof`, `BwiProof` | the proofs | each extends the module it is named after |
| `JobProof` | the proofs about the statistics, from recording to reading | extends `Job` and `StatsReport` |
| `ExperimentsProof` | the proofs about the programs that run an experiment | extends `Uniprocessor` and `BwiDriver` |

How state and actions correspond to the code:

- **Ringbuf, Job.** A ring buffer is a record with the fields of the C struct; a
  record in it is the pair of the numbers of the jobs whose clock readings it holds,
  so that mixing two jobs shows. `job_start` is two steps, before and after the
  program, because a thread may be cancelled in the program and its cleanup handler
  then saves the buffer as it is; the loop of `jobstats_ringbuf_save` is one step
  per record. As in `task_start`, no job follows one whose `job_start` has failed.
- **Task.** `pc` is the position of the thread, `stop_pc` that of `task_stop` in
  another thread, `cancel` the pending cancellation request. Between the return of
  `aperiodic_release` and the reset of `inside_aperiodic_release` is a step of its
  own. `task_stop` is called by a thread the task's thread cannot preempt (task.h
  demands it), so what it does between two sleeps is one step. `CancelAt(where)` is
  the effect of a request at each cancellation point: the handlers that are still
  pushed run, the one that was running does not continue, and a part of what it wrote
  may be in the file. `Faults` lets sleeps, clocks and I/O fail.
- **TaskCreate.** `held` is the set of allocated resources, `field` the pointers of
  the task object with what `malloc` left in them (zero or garbage), `twice` what was
  released without being held. One action per section of `task_create`; releasing
  garbage ends in "crashed".
- **Overhead.** `probe` is one measurement, with the resources it holds, its ring (that
  of `Ringbuf`) and what it has read back. `OnStack` is what the two pointers contain
  that the label `out` looks at, when the thread goes there before it has set them.
- **TimeScripts, TimeObjects.** A program is the sequence of its operations on time
  objects, in the order of the code, with the calls between them that may fail and go to
  its label `error` (or exit). An object is "static", "auto", "manual" or "freed"; a
  variable that was never set is not in `objs`. `misused` and `leaked` collect what
  went wrong. The calls of `task_create` and of the measurements are the machines of
  `TaskCreate` and `Overhead`, step by step, so that an error deep in one of them reaches
  the program. The threads of earliest_deadline_first use their arguments at any time
  after their creation; in hrt_cbs and the client the main thread does nothing with
  time objects while its thread runs, so that one sequence has both.
- **StatsReport.** `prms` is the record the two callbacks share; `seen` has, for the
  properties, when each job told really finished. The reader that may refuse and
  rewind, which `task_test.c` is, stays beside it (`user`).
- **UtilityFile.** The text of a file is chosen byte by byte as it is read. A byte that
  nobody has written is "?", so that a line that is not terminated shows.
- **UtilityTimeText.** A string is a sequence of digits, points and other characters;
  Texts has all strings up to a length. `Meaning` is its reference: place values
  added up, instead of the padding and parsing of the code. `endptr` is left out:
  only tests read times from strings and ask how far the conversion went.
- **TaskStatsFile.** A file is its number of whole units, a part of one more, and
  the unit whose reading is an I/O error; the stream has its two sticky flags. One
  action per section of `task_statistics_read`. `garbage` is that a callback was given a
  record that was never filled.
- **UtilityTime.** An object is two cells; operations read and write them in the
  order of the C statements, so that overlapping operands are real. The ghost cell
  `ideal` has the time in nanoseconds an object is meant to have. The loop of
  `utility_time_mul` is one step per turn.
- **Uniprocessor.** A tick is 1 ms (10 ms in priority_inversion_in_RM). Only busy
  loops take time, overheads included, as the programs arrange. `Rank` orders the
  threads the way SCHED_FIFO, priority inheritance or EDF does, `since[t]` is the
  time since the release that task t runs or waits for. The manager runs at the top
  in the SCHED_FIFO programs, and below everybody in earliest_deadline_first.
- **BwiServer, BwiClient, Bwi.** A process is a record with its position, its flags
  and what it works on; `signals` are the pending signals, `inbox` and `answers` the
  sockets. A call that sleeps is two positions, before it sleeps and asleep: a signal
  handler run in the first does not interrupt the call. Requests carry a number the
  program does not send, so that answers can be told apart. Any `send` or `sendto` of a
  server may fail (`ForwardFails`, `ForwardInterrupted`, `ReplyFails`), and so may lending
  bandwidth and taking it back: `lent` of a server is what became of its own, "refused"
  by the kernel or "kept" there. The history `unanswered` counts the requests of each
  process that a failing call has cost an answer. The real-time thread of a
  client is `Task` reduced to its job loop.
- **BwiPrograms, BwiDriver.** Here the clients and servers are reduced to what the
  driver sees of them, and the driver and the other programs are complete; `Bwi` has
  it the other way round. A process is its line in the configuration file, and
  `argv[i]` is the sequence of the options it gets: `Adjust` replaces the first
  occurrence of an option, as `find_argv_to_adjust` does, and `Obeyed` reads the last,
  as `getopt` does. What `main` does with its lists is the sequence `Script`, a step of
  which (`"create"`, `"SIGUSR1"`, ...) may take several actions: `fork`, the storing of
  its result and the second of sleep are three, and the child's `execv` a fourth. A
  child whose `execv` fails goes on as a second driver (`ExecFails`). A signal ends a
  process that neither blocks nor catches it (`Withstands`); `masked` is that a handler
  was left by `siglongjmp` with its signal still blocked.
- **UtilityCpu, Multicore.** The files under /sys are the variable `governor`; a setting
  whose writing fails is reported as done (`unnoticed`). `search` is the record of
  `busyloop_search_parameters`, one action per pass, whose measurement is any member of
  `Measurements`; `loop_count` is an unsigned long modulo `ULONG_MAX + 1`. What `main`
  does until its label `error` is the sequence `Script`, what it does from there on
  `Cleanup`. The barrier is who waits and who has been let go; `reported` are the
  processors the program has said it could not restore.

## The runs

| run | checks | result |
| --- | --- | --- |
| `job` | `CountersAgree`, `SlotsHoldTheirJobs`, `SaveIsFaithful`, refinement `ImplementsJobLog` | holds |
| `task` | `AtMostOneLateJob`, `LogAccountsForEveryJob`, `PositionIsRelease`, `StopEndsThread` (liveness) | holds |
| `task_kill` | `NotKilledInProgram` | violated |
| `task_stop` | `StopReturns` (liveness) | violated |
| `task_create` | `ReleasedExactlyOnce`, `ResultMatchesReturn`, `OverheadIsMeasured`, `CollectedExactlyOnce` | holds |
| `stats_file` | `DeliveredInOrder`, `ExitCodeTellsTheTruth`, `ReportAddsUp` | holds |
| `utility_time` | `Normalised`, `ValueIsIdeal`, `ComparisonsAgree` | holds |
| `uniprocessor` | `NoJobLate`, `ResponseTimesAsAnalysed`, `InversionOnlyWithoutInheritance`, `DestroyedNeverRuns`, `SuccessMeansAllRan`, `StopEndsProgram` (liveness) | holds |
| `bwi` | `RequestsArePaired`, `SchedulingFollowsMeasurement`, `BandwidthFollowsRequest` | holds |
| `bwi_stop` | `ClientNotStuck` (liveness) | violated |
| `driver` | `ForcedArguments`, `NobodySurvives`, `SignalsKillNobody`, `HogPrintsOnce`, `StoppedEnd` (liveness) | holds |
| `multicore` | `GovernorsRestored`, `LoopsKeepTheirMeaning`, `LoopWasMeasured`, `LastCpuCounted`, `RunTogether`, `EndsUnlessStranded` (liveness) | holds |

`job` and `utility_time`, whose indices and subtractions may leave their ranges, also
check `TypeOK`; the other modules state theirs, and their runs check what can go wrong
beyond it. Each property has, in PROJECT.json, a mutant of the modelled code that
breaks it.

What the runs show of the parts that interact: `task_create` has the measurements and
the creation of tasks inside every program that calls them; `stats_file` has the printing
program behind the reader; `multicore` has the file reader inside the count of
processors inside the experiment.

### Bounds, and why they are enough

- `job`: rings of 0 to 3 slots, 7 jobs. The ring goes round twice, laps end on and
  off a multiple of the size; one slot is the case the code treats apart. The proofs
  remove these bounds.
- `task`: rings of 0 to 2 slots, 3 jobs before the stop and one after it, so that the
  ring wraps and the unfinished record falls on every slot.
- `task_create`: no bound; the programs, their operations and their resources are those
  of the code. Memory may be short for everything but the time objects themselves, for
  which no program looks.
- `stats_file`: files of up to 6 units: header, name, parameters and three jobs. For the
  report a microsecond of ten nanoseconds, jobs that finish before their release, on both
  sides of half a microsecond, at the deadline and after it, periodic and aperiodic tasks, and logs
  that begin with the first or a later job.
- `utility_time`: three objects (symmetric), a second of eight nanoseconds, times
  beyond one second: carries and borrows with and without whole seconds, and every
  overlap of two operands and a result. The proofs remove these bounds. Strings have
  binary digits, three of them in a full fraction and at most two in the seconds:
  all strings of three characters and some longer ones, fractions that are missing, too short, full and too long all occur.
- `uniprocessor`: no bound on time: periodic releases make the state space finite
  (`since` is relative), so the schedules run until they repeat. In
  rate_monotonic every busy loop takes its WCET, in the others it may end a tick
  early; with early ends everywhere the properties hold too, in 1.8 million states.
- `bwi`: two servers in a chain and a client at each, any call of the servers failing at
  any time: 1.4 million states. The client of the chain lends its bandwidth, has a job before
  the driver stops it, and stops itself after it; both clients may have a job once they have
  been told to stop. Two clients that measure while the other is being set up are what makes
  the toggling of SCHED_FIFO hard; a chain of two is the shortest that forwards. When it is
  the second client that stops itself, after a job of its own before the stop, the properties
  hold, too, in 2.9 million states.
  `bwi_stop` has one client, which does not stop itself.
- `driver`: every ordered pair of the seven kinds of programs, and five more
  configurations of one to three lines: options given by the line itself (`-v`, `-x`,
  `-s`), a server in a chain that is listed after its client or before it, three kinds
  of hogs at once. A pair suffices for the order of two lists and of two lines; the
  lines of one list are treated alike. Any call may fail and SIGINT may arrive at any
  time.
- `multicore`: two governors; a search for 20 units of time with a tolerance of 1 in 3
  passes, at 1, 3 or 4 turns per unit, with loops that turn out to last 0, 18, 20, 22 or
  40 units, and a largest unsigned long of 63: every outcome of a pass occurs, among them
  the correction that wraps round and the first estimate that does not fit. The two
  processors and threads are the code's. /proc/cpuinfo is any file of up to six bytes
  with a buffer that grows by two: lines of every length, two processors, and a buffer
  that has to grow up to four times, at the end of a line and in its middle.

### Deadlock

TLC's deadlock check is off only where the modelled system ends: a task destroyed
(`task`, `task_create`), the last read of a file (`stats_file`), a program that has
exited (`uniprocessor`, `bwi`, `driver`, `multicore`). `job` and `utility_time` run for ever and are checked.

### Fairness, and why the code justifies it

- `Task`: a thread that can run eventually does, its program ends (task.h: it has a
  definite WCET), sleeps end, the stopper wakes up from each of its sleeps. Nothing is
  assumed of events, of calls to `task_stop`, or of failures.
- `Uniprocessor`: weak fairness of the whole next-state relation: time passes and what
  can run runs. Which of the threads runs is the scheduler's rule, not fairness, so
  the starvation of the manager in earliest_deadline_first is a possibility the
  property `StopEndsProgram` rules out.
- `Bwi`: each program and thread goes on when it can and the driver's sleeps end.
  Nothing makes SIGINT arrive or a call fail.
- `BwiDriver`: the driver goes on and its sleeps end, the programs except clients and
  servers (for which `Bwi` answers) make progress, handlers run. Nothing is assumed of
  SIGINT, of failing calls, or of a hog's own stopping time.
- `Multicore`: main, the search and each of the two threads go on when they can: a busy
  thread leaves its processor to the others after the time of its loop. Nothing is
  assumed of failures.

### What is assumed of what is not in the source

The kernel's scheduler, `pthread_cancel` (deferred), signals (each pending at most
once), datagrams on the loopback device (not lost, not reordered, gone when the
receiver ends). In `Bwi` the driver's pause of a second after each creation suffices for
the process to settle (`Settled`), and nothing is assumed of its other pauses; in
`BwiDriver` nothing is assumed of any pause: the second may end at any moment, and the
history `hurried` has the processes for which it was too short. In `BwiDriver` SIGINT
goes to the driver alone, process IDs are not reused, and a server_hog sends
to the port of the server listed before it. In
`Uniprocessor`: the set-up of the threads ends before the first release, busy loops
take at most their WCET, and the task sets are stopped at any time (2 s after the
first release in priority_inversion_in_RM, as its source says).

## The proofs

Each proof module states an inductive invariant (`JobProof` and `ExperimentsProof` two), has a lemma per action (per group of
actions of one process in `Multicore`, `Uniprocessor` and `Bwi`) that says the action
keeps it, puts these together for the next-state relation, and derives its theorems. The
assumptions are those the modules state about their constants; nothing else is assumed,
and in particular no bound on the number of jobs, tasks' ring sizes, servers, clients,
lines of a file or passes of a search: `MaxJobs`, `MaxText`, `MaxUnits` and the like may
be any number.

| Module | Theorems | Assumptions |
|---|---|---|
| `JobProof`, recording | `TypeCorrect`, `CountersAlwaysAgree`, `SlotsAlwaysHoldTheirJobs`, `SaveAlwaysFaithful`, `JobImplementsLog` | `JobAssumption`: the constants are numbers |
| `JobProof`, reading | `ReportReads`, `ReadTypeCorrect`, `AlwaysDeliveredInOrder`, `ExitCodeAlwaysTrue`, `ReportAlwaysAddsUp` | `TaskStatsFileAssumption`, `StatsReportAssumption`: numbers, jobs are counted from 1, and a microsecond has an even number of nanoseconds, so that it has a half |
| `TaskProof` | `TypeCorrect`, `LateAtMostOnce`, `LogAlwaysAccounts`, `PositionAlwaysRelease` | `TaskAssumption`: numbers and Booleans |
| `TimeObjectsProof` | `AlwaysReleasedOnce`, `ResultAlwaysMatches`, `OverheadAlwaysMeasured` | `TaskCreateAssumption`, `OverheadAssumption`: memory contains something |
| `UtilityTimeProof` | `TypeCorrect`, `AlwaysNormalised`, `ValueAlwaysIdeal`, `ComparisonsAlwaysAgree` | `UtilityTimeAssumption`: THOUSAND is positive, the bounds are numbers, the local variable is not one of the objects |
| `MulticoreProof` | `TypeCorrect`, `GovernorsAlwaysRestored`, `LoopsAlwaysKeepTheirMeaning`, `AlwaysRunTogether`, `LoopAlwaysMeasured`, `LastCpuAlwaysCounted` | `UtilityFileAssumption`, `UtilityCpuAssumption`: numbers, the increment of the buffer and the number of passes positive; `GovernorsAssumption`: no governor is called NULL |
| `ExperimentsProof`, one processor | `TypeCorrect`, `DestroyedNeverRun`, `SuccessAlwaysMeansAllRan`, `NoInversionWithInheritance` | `UniprocessorAssumption`: which programs, how much earlier than its WCET a busy loop may end, whether calls fail |
| `ExperimentsProof`, driver | `DriverTypeCorrect`, `NobodyEverSurvives`, `SignalsNeverKill`, `HogAlwaysPrintsOnce`, `ArgumentsAlwaysForced` | `ConfigsAssumption`: a configuration is a sequence of lines, each with one of the seven program names and any options of its own |
| `BwiProof` | `TypeCorrect`, `RequestsAlwaysPaired`, `SchedulingAlwaysFollows`, `BandwidthAlwaysFollows` | `ServerAssumption`, `ClientAssumption`: servers and clients are different processes, each client has a server; `OrderAssumption`: every process is created once, and a subserver before its servers (main.c:391-407) |

**The ring buffer.** `RingbufProof` has no theorem of its own; it says of the operations of
`Ringbuf`, which three models share, what they do to the fields (`TakeSlotFields`,
`StampEndFields`) and that `BeginJobRing` and `EndJobRing` keep `RingInv`: the flags and
counters tell one story, and every slot in use has both readings of the job that its
position says, with the newest excepted while it is at work. `SavedRecordsAre` and
`SaveAccountsForJobs` say what saving such a ring writes. The product in
`write_count = overrun_count * slot_count + next` is kept away from the solver by
`OneMoreLap`, and the modulo of the save loop by `ModUpTo`.

**Job.** The invariants are not inductive by themselves: what `StampEnd` writes depends on
`stats` still being the slot of the newest job (`StatsIsNewest`), and what a completed
save has written on the state of its loop (`SaveProgress`: the records so far are those
from the oldest slot on, and the loop variable points, modulo the size, to the next one).
`JobImplementsLog` is the refinement of `JobLog`, which keeps the first or the last entries
of a log: creating the ring opens the log, the start of a job enters it (pushing out the
oldest entry, or being lost, when the log is full), destroying closes it, and every other
step stutters. It needs `IInv` before and after the step and `NoReadingAhead`, that no slot has
the reading of a job that has not started.

**TaskStatsFile, StatsReport.** `DeliveredInOrder` says what the callbacks are given
and exactly when one of them is a record that was never filled; `ExitCodeTellsTheTruth`
says for each code when it comes, for -3 by the three ways in which a file cannot be read on
(`CannotBeRead`) and the one in which -3 is wrong. They become
inductive with where the call is in the file and what it has told by then (`StreamKept`,
`CallProgress`): the sticky flag of an I/O error stays where the error was met, so the end of
the file is never seen behind one. Every step of `StatsReport` is one of
`TaskStatsFile` or leaves its variables alone (`ReportReads`), so that both theorems are
about the printing program, too, and `ReportInv` may rely on `ReadInv`: the number
that `print_job_stats` gives the next job is that of the record it is handed
(`ReportProgress`); the list has, for every response time it has an entry for, as many jobs
as have been told with it, and an entry for every job that it kept (`Totals`, counted as
Cardinalities over the jobs told); and what has been printed is that list or those jobs
(`Printed`). The work is the insertion into a list sorted by response times: where the new
entry goes, and that the other counts do not change (`InsertKeepsCounts`). Each theorem holds of
every file, cut off, unreadable or written without statistics.

**Task.** `IInv` adds to the types how far the object and its cancellation have come
(`Lifetime`, `Cancellation`: only an aperiodic task is ever polled or cancelled, and
`killed_at` says where), that a thread that waits for a release has not been late before
(`Waiting`, which is why there is at most one late job), that the three counts of the jobs
agree (`JobCounts`), that the ring has its records until it is saved (`RingKept`), and that
what is in the log while nothing has failed accounts for the jobs (`LogKept`).

**TimeObjects.** `CreateInv` says at each label of `task_create` what is held and which
pointers are valid (`BuildingHolds`, by the sections that follow each allocation), that at
the label `error` the valid pointers are those held (`ErrorHolds`: the path decides by the
pointers), and what an object that was handed out leads to until it is destroyed
(`ReturnedHolds`). `ProbeInv` says of the measurement that its ring of two slots has the
jobs run so far, and that what is read back is the two records, or what the stack had where
the file could not be read. The other steps of the programs around them leave both alone.

**UtilityTime.** `IInv`: types, normalisation, exactness, and in the loop of
`utility_time_mul` that the local object has as many times `t1` as the loop has gone round
(`MulProgress`). Every operation writes one object, so the lemma `WriteCells` reduces each
to arithmetic about the value it writes: `AddCells` (carry), `SubCells` (borrow),
`ConvertCells` (units), `Compare` (order). The theorems are about `Spec`, the arithmetic;
what `UtilityTimeText` adds computes over strings by induction (`TextSpec`).

**Multicore.** `LoopWasMeasured` is inductive together with the types of the search; the
work is that every correction stays in an unsigned long (`CorrectionsFit`).
`LastCpuCounted` needs where the reader is in the file: the buffer holds the text from the
beginning of the line on (`LineInv`, `LineEndInv`), and between two lines the count is the
number of those before that begin with "p" (`CountInv`); a line that has been read adds one
or none to a Cardinality (`LineCounted`, `EarlierLines`). For main and its threads `IInv`
says what each step of the script has made ready: which governors are saved, and what has
been saved is what was there first (`GovernorsInv`), which loops are made (`LoopsInv`), how
far a thread can be (`ThreadsInv`), who waits at the barrier, and that once it has opened
nobody is left behind it and main is at or past it (`WaitingInv`, `OpenedInv`). Main's
cleanup can therefore not free a loop that is in use: it either has joined, or the barrier
has never opened.

**Uniprocessor.** `DestroyedNeverRuns` rests on who can run at all: `ManagerInv` says that
from creation to checking the manager has the maximum priority and has all tasks, so with
`WhoRuns` no thread that has begun its task runs once the manager is up to destroy them.
`StopInv` says what the manager knows of those it has stopped and joined. For the inversion
`R1Inv` locates who has locked R1 and who waits: with inheritance tau_3 then has the
priority of tau_1, and tau_2, which is no longer new and has lost the manager's priority
(`NewInv`), does not run. The task sets and their priorities are spelt out once (`SetIs`,
`RanksAre`).

**BwiDriver.** `DriverInv` has four parts beside the types. `ProgramsInv` says of each
process, by its position alone, which program it can be, that a signal has killed it only
if it is one of those in `hurried`, and
what a hog has printed there; `HogAlwaysPrintsOnce` and `SignalsNeverKill` are read
off it. That a second is long enough is neither assumed nor claimed. What the driver
contributes is that everybody gets its second before any signal: `InScript` says that
as long as the script goes on the one process that is being made is the only one that is not
known, or neither prepared nor in `hurried`, so that SIGUSR1 and SIGTERM, which are sent only
when all lists have been created, find nobody else unprepared but those; and that who has been
waited for has ended.
`EndInv` says the same of the other ends: whoever is not known when the driver terminates
its lists was being made when SIGINT came (`handler`), and there is at most one; the others
are dead once their list has been dealt with. `NobodyEverSurvives` follows because
the six lists of `Terminated` are all the lists there are. Where the script is enters
through `Done(what, name)`, and the few facts about the order of its 30 steps are lemmas of
their own. `ArgumentsAlwaysForced` needs `OptionsInv` on top: an option the driver appends
occurs once (`Once`), so the first occurrence that it replaces is the last that the program obeys; a
list is completed before it is created (`InCreation`), with two exceptions, a server_client,
which is completed just before it is forked, and the lists that come after the servers,
which name processes that `ChainInv` and the order of the lines guarantee to exist.

**Bwi.** `Inv` has the types and local facts: processes are created in order
(`DriverInv`), and which fields of a client or server can have which values at which place
(`ClientInv`, `ServerInv`). The theorems need a global argument each; the one for
pairing gives two of them.

- *Scheduling.* SIGUSR1 goes down a chain as a wave: the server of the client that measures
  passes it on and toggles when its subserver has. Servers are in one of the states
  entering, entered and leaving; one client measures at a time (`OneAtATime`); and
  `SchedInv` says which servers have toggled. It holds while nobody has failed and the
  driver has killed nobody (`Sound`). No induction over a chain is needed: among the
  servers that would violate it there is one that no other has as its subserver
  (`TopmostIs`, from `OrderAssumption`), and its predecessor in the wave is the client.
- *Pairing.* Requests come only from those who ask (`FromInv`); SIGUSR2 and SIGTERM
  interrupt a `recv` only as the driver sends them (`Usr2Inv`, `EarlyInv`, `IntInv`); for whoever is owed an
  answer the requests at its server, the one being worked on, the answers on their way
  and those that a failing call has cost are together one if it waits and none otherwise
  (`PairInv`, counted as Cardinalities: `CountAppend`, `CountTail`, `TotalIs`; a failing call
  moves a request from one of these counts to another, `FlowsAlways`); and everything under way is for the request its
  owner has asked for, or is the cleared buffer if a server has ended (`TagInv`). These and
  `SchedInv` are inductive together (`ExchangeInv`): a toggle between two requests would
  interrupt a server that waits for its subserver, so `NobodyWaits` shows that none does
  while SIGUSR1 is passed on.
- *Bandwidth.* If a server works on a request of somebody, the count of `PairInv` is at least
  one, so the sender waits and this is its one request; `TagInv` says that it is the one
  the sender has asked for, and `ServerInv` and `ClientInv` say that whoever waits has lent its
  bandwidth or tried to (`WorksForOne`). It holds of every link, and so of
  every chain of servers.

The proof attempt changed what `RequestsArePaired` says. Without the premise that nothing
has failed its second part is false for three clients, which two on a chain do not show: a
client that fails in its measurement gives up and leaves its server in SCHED_FIFO; the
toggles of the next clients are then inverted, fall between requests, and leave the answer
of one request for the next. The run with two clients has no such behaviour; the premise
is what the proof needs and the comment at the property says why.

Only model-checked:

- liveness under fairness, which is out of the prover's reach: `StopEndsThread`,
  `StopEndsProgram`, `StoppedEnd`, `EndsUnlessStranded`;
- the strings of `UtilityTimeText`, whose meaning is defined by recursion over their
  characters (induction over data);
- `NoJobLate` and `ResponseTimesAsAnalysed`, which are about three given task sets whose
  schedules TLC follows until they repeat; a theorem for all task sets would be the
  schedulability analysis itself;
- `CollectedExactlyOnce`, which is about the fixed sequences of operations of eleven
  programs and tests and has no parameter that a theorem could remove: TLC executes every path of
  each of them. What does have parameters there, the contents of uninitialised memory,
  is proved about (`AlwaysReleasedOnce`, `OverheadAlwaysMeasured`).

## Where code and documentation disagree

With a run that shows it:

- `task_kill`: a task that has just been released is cancelled inside its program
  (task.c:75; task.c:66-69 and task.h:259-260 say it is not).
- `task_stop`: `task_stop` of an aperiodic task whose program runs never returns
  (task.c:568; task.h:260-262 says that it waits for the completion).
- `bwi_stop`: SIGUSR2 does not interrupt a `recv` that does not sleep yet, and the
  client never ends (client.c:864; client.c:427, 863).

Met while modelling, visible in the modules, without a run:

- With a log that cannot be opened, the error path of `task_create` follows a pointer
  that was never set (task.c:535) instead of returning -2 (task.h:298-299); `TaskCreate`
  goes to "crashed".
- With job statistics disabled `task_statistics_read` returns -3 (task.c:720-747) when it
  has deserialized everything, against task.h:403-404 and 419-422.
  `ExitCodeTellsTheTruth` says that this is the only -3 without a reason.
- An I/O error in a job record is taken for a record, again and again (job.c:72,
  against task.h:421-422 and job.h:209-211); the stream never gets to its end.
  `DeliveredInOrder` says that nothing but an unreadable record does this, that it comes after
  all the records before it, and that only the callback's refusal ends such a call.
- `job_start` counts the failures of the clock upwards and returns 1 or 2
  (job.c:31), against job.h:182-183.
- `task_stop` called by the program of its own aperiodic task never returns, and
  task.h:378-381 allows the call; nor does `task_stop` of an aperiodic task whose
  thread has failed to start (priority_inversion_in_RM/main.c:439).
- A `task_create` that fails early does not collect its `utility_time` arguments
  (task.h:227-228).
- SIGTERM between the test of `terminated` and `recvfrom` does not end the server
  until the next datagram (server.c:415-424, against server.c:298).
- A server whose `send` to its subserver fails for another reason than a signal sends the
  request itself back, as if it were the answer (server.c:130-144, 184-188), and the client,
  which compares the two, finds it right (client.c:383).
- An answer that a server cannot send is lost with a message (server.c:452-455). The client
  waits for it until it is stopped; one that measures has nothing to interrupt it.
  `RequestsArePaired` counts these in `unanswered`, and so the property says that no
  other failure has anybody wait in vain.
- A client that ends with an error while it measures (client.c:213-243) has not told its
  server to leave SCHED_FIFO; SIGUSR1 toggles, so every later client has the switching the
  wrong way round. `SchedulingFollowsMeasurement` and the second part of
  `RequestsArePaired` are about systems in which nothing has failed.
- SIGINT between `fork` and the assignment of `proc_id` leaves a child behind
  (bwi-client_server/main.c:209, against 592-593).
- The driver replaces the first occurrence of an option and the programs obey the
  last, so a line with a `-x` or `-v` of its own, as in the example of the driver's
  usage message (bwi-client_server/main.c:622), keeps its value, against 627-637;
  `ForcedArguments` is about the other lines.
- A child whose `execv` fails runs on as a second driver; in its copy of the list its
  own `proc_id` is 0, and `kill(0, SIGKILL)` ends the whole process group
  (bwi-client_server/main.c:213-217) instead of terminating "graciously".
- SIGTERM before hrt_cbs has created its task makes it stop a task that does not
  exist (hrt_cbs.c:373, against 210).
- With a stopping time of its own, cpu_hog_cbs may print its statistics twice and
  free its busy loop twice: SIGTERM in or after the final printing jumps back to the
  cleaning up (cpu_hog_cbs.c:334-337). `HogPrintsOnce` is about hogs without.
- SIGTERM in the `recv` of server_hog counts a response that was not received
  (bwi-client_server/server_hog.c:182).
- In earliest_deadline_first the manager, which any task may preempt, calls
  `task_stop` (against task.h:346-348), and on an error destroys tasks whose threads
  run; `DestroyedNeverRuns` is about the other programs.
- A thread of multicore_means_parallel_threads that cannot have its processor or its
  priority ends without going to the barrier, and everybody else waits there for ever:
  the report at multicore_means_parallel_threads/main.c:190-197 is not reached. If the
  second thread cannot be created, the barrier is destroyed while the first may wait.
- `cpu_freq_get` returns 0 on an error, and `create_cpu_busyloop` then succeeds with a loop
  of 0 turns, which `busyloop` takes for 2^32 (utility_cpu.c:537-539, against
  utility_cpu.h:297-298); a loop that lasts exactly twice as long as it should is corrected
  to 0 turns, too (480); when it returns -4 it leaves `*result` as it was
  (utility_cpu.c:545, against utility_cpu.h:299-300).
- `cpu_freq_set` returns 0 when the writing has failed (utility_cpu.c:297-305, against its
  comment in utility_cpu.h); `cpu_freq_set_max` follows NULL when there is no frequency
  (utility_cpu.c:660-665), and the governor of processor 0 is then not restored.
- The search tests whether the number of turns has become too long before it adds the
  correction (utility_cpu.c:467), and an unsigned long is never longer than its maximum:
  the sum wraps round.
- finish_to_start_overhead jumps to its label `out` before it has cleared the two pointers
  that are looked at there (task.c:194-208), although a comment at 214 is about
  anticipating the early bailout; `Overhead` goes to "crashed".
- An I/O error on the temporary file is a record that was never filled (job.c:72), and
  the measurement succeeds with what the stack had; `OverheadIsMeasured` excepts it.
- On an error the manager of earliest_deadline_first frees WCETs and deadlines that its
  threads may be about to use (earliest_deadline_first/main.c:403-412);
  `CollectedExactlyOnce` excepts it.
- `create_cpu_busyloop` and `sched_deadline_enter` collect their arguments only when they
  succeed (utility_cpu.c:603, utility_sched_deadline.c:53).
- `insert_response_time` drops a job from the distribution when memory is short, and the
  probabilities no longer end at 1 (read_task_stats_file.c:105, 122).
- read_task_stats_file names `argv[1]` where it means the file, which is `-c` when there
  is an option (read_task_stats_file.c:497); the job statistics of an unreadable file are
  printed for ever (job.c:72).
- `cpu_freq_get` does not close its file on an error (utility_cpu.c:343), nor `cpu_freq_set`
  the first when the second cannot be opened (utility_cpu.c:288). An empty file is a file
  with one empty line to `utility_file_readln`, so the branches for a missing governor
  (utility_cpu.c:137) and an empty frequency (329) are never taken.
- priority_inversion_in_RM's README says that tau_1 is late by around 480 ms; the
  schedule gives 500 ms.

## What is not modelled

In PROJECT.json every component has its status and reason. In short: wrappers of
system calls without state (utility_log, utility_memory), formatting,
sched_switch (a converter by another author that nothing else uses), the tests, the
tracing options of the client and the driver, `unlock_me` and `utility_file_read`.
`utility_time` objects that cannot be allocated are not modelled: an operation then
returns NULL, which no program looks at and the next operation follows. Of the
exchanges, a client's own `send` that fails (it ends the client, or the job goes without
an answer) and datagrams that are cut short are left out. A governor that is written without
the frequency that belongs to it (utility_cpu.c:297-305) counts as a setting that has failed.

## The plan

Order: the most important behaviour first. Done are the ring buffer and the job log,
the life of a task, its creation, its log file and the report of it, the measurement of
overheads, time arithmetic, strings and collection, the reading of lines, the scheduling
experiments, the client-server system, its driver with the other programs it starts, and
the multicore experiment with utility_cpu. Proved are the ring buffer and its refinement of
the job log, the reading of a log and the report of it, the life of a task, its creation
and destruction, the measurement of overheads, time arithmetic, the multicore experiment
with the search for a busy loop and the reading of lines, the order of the scheduling
experiments, the client-server system, and its driver for every configuration file. Every
safety property of a run is proved, but for the three named above and what
`ValueIsIdeal` says of strings. What would come
next are the tracing options of the client and the driver, `utility_file_read`, and time
objects that cannot be allocated.
