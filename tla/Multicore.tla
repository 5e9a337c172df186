------------------------------ MODULE Multicore ------------------------------
(***************************************************************************)
(* The experiment multicore_means_parallel_threads: under the frame of     *)
(* utility_experimentation.h, which puts processor 0 at its maximum        *)
(* frequency and restores its governor at exit, main does the same for     *)
(* both processors, calibrates a busy loop on each, and lets two threads   *)
(* of the highest priority run them at the same time, from a barrier on.   *)
(* On an error it goes to the cleaning up at once.                         *)
(***************************************************************************)
EXTENDS UtilityCpu

CONSTANT Governors     \* the governors that processors may have at first

VARIABLES
    status,        \* what the main thread is doing
    step,          \* its next step in Script or Cleanup
    default_gov,   \* the name saved by the frame
    gov_cpu,       \* the names saved by main, one for each processor
    loop,          \* the busy loops
    barrier,       \* green_light: does it exist, who waits, who may go on
    thread,        \* the two threads
    initially,     \* the governors before the program
    reported       \* processors whose governor it could not restore, as it says

mainVars == <<status, step, default_gov, gov_cpu, loop, initially, reported>>
vars == <<cpuVars, mainVars, barrier, thread>>

NULL == "NULL"

(* The name of a governor that has been read is a string.                  *)
ASSUME GovernorsAssumption == NULL \notin Governors

Main == 2                 \* main among those who wait at the barrier

(* Variant: main is not counted.                                           *)
PartiesThreadsOnly == 2

Parties == 3

Op(op, cpu) == [op |-> op, cpu |-> cpu]

One(op)  == <<Op(op, 0)>>
Both(op) == <<Op(op, 0), Op(op, 1)>>

(* Variant: the governors are saved when the frequencies are set already.  *)
ScriptSavesLate ==
    One("get_last_cpu") \o Both("set") \o Both("save") \o Both("busyloop")
    \o One("barrier_init") \o Both("create") \o One("barrier_wait") \o Both("join") \o One("compare")

(* Variant: only the first thread is joined.                               *)
ScriptJoinsOne ==
    One("get_last_cpu") \o Both("save") \o Both("set") \o Both("busyloop")
    \o One("barrier_init") \o Both("create") \o One("barrier_wait") \o One("join") \o One("compare")

(* Variant: main does not go to the barrier.                               *)
ScriptWithoutBarrier ==
    One("get_last_cpu") \o Both("save") \o Both("set") \o Both("busyloop")
    \o One("barrier_init") \o Both("create") \o Both("join") \o One("compare")

Script ==
    <<Op("get_last_cpu", 0), Op("save", 0), Op("save", 1), Op("set", 0), Op("set", 1),
      Op("busyloop", 0), Op("busyloop", 1), Op("barrier_init", 0), Op("create", 0),
      Op("create", 1), Op("barrier_wait", 0), Op("join", 0), Op("join", 1), Op("compare", 0)>>

Cleanup ==
    <<Op("destroy", 1), Op("destroy", 0), Op("restore", 1), Op("restore", 0),
      Op("barrier_destroy", 0)>>

At(op)      == status = "run" /\ Script[step].op = op
Cleaning(op) == status = "cleanup" /\ Cleanup[step].op = op
Cpu         == IF status = "run" THEN Script[step].cpu ELSE Cleanup[step].cpu

Goto(st, k) == status' = st /\ step' = k
NextStep    == Goto(status, step + 1)
Error       == Goto("cleanup", 1)
NextOrError(ok) == IF ok THEN NextStep ELSE Error

NoThread == [pc |-> "none", cpu |-> 0, fifo |-> FALSE]

Init ==
    /\ governor \in [Cpus -> Governors] /\ initially = governor
    /\ unnoticed = {} /\ reported = {}
    /\ SearchInit /\ file = NoFile
    /\ status = "begin" /\ step = 1
    /\ default_gov = NULL /\ gov_cpu = [c \in Cpus |-> NULL]
    /\ loop = [c \in Cpus |-> "none"]
    /\ barrier = [exists |-> FALSE, waiting |-> {}, released |-> {}]
    /\ thread = [c \in Cpus |-> NoThread]

-----------------------------------------------------------------------------
(* MAIN_BEGIN: enter_UP_mode_freq_max binds the caller to processor 0,     *)
(* finds its maximum frequency, saves its governor and sets the frequency. *)
EnterUPModeFreqMax(written) ==
    /\ status = "begin"
    /\ CpuFreqSet(0, written)
    /\ default_gov' = governor[0]
    /\ Goto("run", 1)
    /\ UNCHANGED <<search, file, gov_cpu, loop, initially, reported, barrier, thread>>

(* If one of these fails nothing has been set; the governor is given up or *)
(* restored to what it is, and the program exits.                          *)
EnterUPModeFails(restored) ==
    /\ status = "begin"
    /\ CpuFreqNotSet
    /\ reported' = IF restored THEN reported ELSE reported \cup {0}
    /\ Goto("exit", 1)
    /\ UNCHANGED <<search, file, default_gov, gov_cpu, loop, initially, barrier, thread>>

ReadCpuinfo ==
    /\ At("get_last_cpu")
    /\ ReadFile
    /\ UNCHANGED <<governor, unnoticed, search, mainVars, barrier, thread>>

(* get_last_cpu returns: there have to be two processors.                  *)
GetLastCpu ==
    /\ At("get_last_cpu") /\ FileAt("returned")
    /\ NextOrError(file.rc >= 1)
    /\ file' = NoFile
    /\ UNCHANGED <<governor, unnoticed, search, default_gov, gov_cpu, loop, initially, reported,
                   barrier, thread>>

GetGovernor(ok) ==
    /\ At("save")
    /\ ok \/ Faults
    /\ gov_cpu' = IF ok THEN [gov_cpu EXCEPT ![Cpu] = governor[Cpu]] ELSE gov_cpu
    /\ NextOrError(ok)
    /\ UNCHANGED <<cpuVars, default_gov, loop, initially, reported, barrier, thread>>

(* cpu_freq_set_max.                                                       *)
SetMax(written) ==
    /\ At("set")
    /\ CpuFreqSet(Cpu, written)
    /\ NextStep
    /\ UNCHANGED <<search, file, default_gov, gov_cpu, loop, initially, reported, barrier, thread>>

(* A processor without a list of frequencies, which 0 cannot be any more,  *)
(* makes it follow a NULL pointer.                                         *)
SetMaxFails(crash) ==
    /\ At("set")
    /\ CpuFreqNotSet
    /\ IF crash THEN Cpu # 0 /\ Goto("crashed", 1) ELSE Error
    /\ UNCHANGED <<search, file, default_gov, gov_cpu, loop, initially, reported, barrier, thread>>

Calibrate(curr_freq) ==
    /\ At("busyloop")
    /\ CreateCpuBusyloop(curr_freq)
    /\ UNCHANGED <<governor, unnoticed, file, mainVars, barrier, thread>>

(* create_cpu_busyloop returns, if there is memory with the loop.          *)
Calibrated(memory) ==
    /\ At("busyloop") /\ search.state = "done"
    /\ memory \/ Faults
    /\ search' = NoSearch
    /\ LET ok == search.rc = 0 /\ memory
       IN /\ loop' = IF ok THEN [loop EXCEPT ![Cpu] = "made"] ELSE loop
          /\ NextOrError(ok)
    /\ UNCHANGED <<governor, unnoticed, file, default_gov, gov_cpu, initially, reported, barrier, thread>>

BarrierInit(ok) ==
    /\ At("barrier_init")
    /\ ok \/ Faults
    /\ barrier' = [barrier EXCEPT !.exists = ok]
    /\ NextOrError(ok)
    /\ UNCHANGED <<cpuVars, default_gov, gov_cpu, loop, initially, reported, thread>>

(* The new thread inherits processor 0 from main.                          *)
CreateThread(ok) ==
    /\ At("create")
    /\ ok \/ Faults
    /\ thread' = IF ok THEN [thread EXCEPT ![Cpu].pc = "lock"] ELSE thread
    /\ NextOrError(ok)
    /\ UNCHANGED <<cpuVars, default_gov, gov_cpu, loop, initially, reported, barrier>>

(* pthread_barrier_wait: the last to arrive lets everybody go on.          *)
Arrive(p) ==
    LET all == barrier.waiting \cup {p}
    IN barrier' = IF Cardinality(all) = Parties
                  THEN [barrier EXCEPT !.waiting = {}, !.released = all]
                  ELSE [barrier EXCEPT !.waiting = all]

Leave(p) == p \in barrier.released /\ barrier' = [barrier EXCEPT !.released = @ \ {p}]

MainArrives ==
    /\ At("barrier_wait") /\ Main \notin barrier.waiting \cup barrier.released
    /\ Arrive(Main)
    /\ UNCHANGED <<cpuVars, mainVars, thread>>

MainLeaves ==
    /\ At("barrier_wait")
    /\ Leave(Main)
    /\ NextStep
    /\ UNCHANGED <<cpuVars, default_gov, gov_cpu, loop, initially, reported, thread>>

JoinThread ==
    /\ At("join") /\ thread[Cpu].pc \in {"done", "failed"}
    /\ NextStep
    /\ UNCHANGED <<cpuVars, default_gov, gov_cpu, loop, initially, reported, barrier, thread>>

(* Whatever comes out of it, the cleaning up is next.                      *)
Compare ==
    /\ At("compare")
    /\ Error
    /\ UNCHANGED <<cpuVars, default_gov, gov_cpu, loop, initially, reported, barrier, thread>>

-----------------------------------------------------------------------------
DestroyLoop ==
    /\ Cleaning("destroy")
    /\ loop' = IF loop[Cpu] = "made" THEN [loop EXCEPT ![Cpu] = "destroyed"] ELSE loop
    /\ NextStep
    /\ UNCHANGED <<cpuVars, default_gov, gov_cpu, initially, reported, barrier, thread>>

Restore(ok) ==
    /\ Cleaning("restore")
    /\ IF gov_cpu[Cpu] = NULL
       THEN ok /\ UNCHANGED <<governor, unnoticed, file, reported>>
       ELSE /\ CpuFreqRestoreGovernor(Cpu, gov_cpu[Cpu], ok)
            /\ reported' = IF ok THEN reported ELSE reported \cup {Cpu}
    /\ NextStep
    /\ UNCHANGED <<search, file, default_gov, gov_cpu, loop, initially, barrier, thread>>

(* Destroying a barrier at which somebody waits is undefined: it may block *)
(* for ever or return an error.                                            *)
BarrierDestroy(blocks) ==
    /\ Cleaning("barrier_destroy")
    /\ blocks => barrier.exists /\ barrier.waiting # {}
    /\ Goto(IF blocks THEN "stuck" ELSE "exit", 1)
    /\ UNCHANGED <<cpuVars, default_gov, gov_cpu, loop, initially, reported, barrier, thread>>

(* main returns or exits: cleanup_restore_gov runs, and with the process   *)
(* its threads end.                                                        *)
Exit(ok) ==
    /\ status = "exit"
    /\ IF default_gov = NULL
       THEN ok /\ UNCHANGED <<governor, unnoticed, file, reported>>
       ELSE /\ CpuFreqRestoreGovernor(0, default_gov, ok)
            /\ reported' = IF ok THEN reported ELSE reported \cup {0}
    /\ Goto("exited", 1)
    /\ thread' = [c \in Cpus |-> IF thread[c].pc = "done" THEN thread[c] ELSE NoThread]
    /\ UNCHANGED <<search, file, default_gov, gov_cpu, loop, initially, barrier>>

-----------------------------------------------------------------------------
(* thread_fn.  A thread that fails does not go to the barrier.             *)

LockMeToCpu(c, ok) ==
    /\ thread[c].pc = "lock"
    /\ ok \/ Faults
    /\ thread' = IF ok THEN [thread EXCEPT ![c].pc = "fifo", ![c].cpu = c]
                       ELSE [thread EXCEPT ![c].pc = "failed"]
    /\ UNCHANGED <<cpuVars, mainVars, barrier>>

SchedFifoEnterMax(c, ok) ==
    /\ thread[c].pc = "fifo"
    /\ ok \/ Faults
    /\ thread' = IF ok THEN [thread EXCEPT ![c].pc = "barrier_wait", ![c].fifo = TRUE]
                       ELSE [thread EXCEPT ![c].pc = "failed"]
    /\ UNCHANGED <<cpuVars, mainVars, barrier>>

ThreadArrives(c) ==
    /\ thread[c].pc = "barrier_wait" /\ c \notin barrier.waiting \cup barrier.released
    /\ Arrive(c)
    /\ UNCHANGED <<cpuVars, mainVars, thread>>

ThreadLeaves(c) ==
    /\ thread[c].pc = "barrier_wait"
    /\ Leave(c)
    /\ thread' = [thread EXCEPT ![c].pc = "busy"]
    /\ UNCHANGED <<cpuVars, mainVars>>

ThreadEnds(c) ==
    /\ thread[c].pc = "busy"
    /\ thread' = [thread EXCEPT ![c].pc = "done"]
    /\ UNCHANGED <<cpuVars, mainVars, barrier>>

-----------------------------------------------------------------------------
Search ==
    /\ \/ \E rc \in {0, -1, -3} : BusyloopSearchThread(rc)
       \/ \E actual \in Measurements \cup {-1} : BusyloopSearch(actual)
    /\ UNCHANGED <<governor, unnoticed, file, mainVars, barrier, thread>>

MainProgress ==
    \/ EnterUPModeFreqMax(TRUE) \/ ReadCpuinfo \/ GetLastCpu \/ GetGovernor(TRUE) \/ SetMax(TRUE)
    \/ \E f \in Frequencies : Calibrate(f)
    \/ Calibrated(TRUE) \/ BarrierInit(TRUE) \/ CreateThread(TRUE) \/ MainArrives \/ MainLeaves
    \/ JoinThread \/ Compare \/ DestroyLoop \/ Restore(TRUE) \/ BarrierDestroy(FALSE) \/ Exit(TRUE)

ThreadProgress(c) ==
    LockMeToCpu(c, TRUE) \/ SchedFifoEnterMax(c, TRUE) \/ ThreadArrives(c) \/ ThreadLeaves(c)
    \/ ThreadEnds(c)

Next ==
    \/ MainProgress \/ Search \/ \E c \in Cpus : ThreadProgress(c)
    \/ EnterUPModeFreqMax(FALSE) \/ GetGovernor(FALSE) \/ SetMax(FALSE)
    \/ \E b \in BOOLEAN : EnterUPModeFails(b) \/ SetMaxFails(b)
    \/ Calibrate(0) \/ Calibrated(FALSE) \/ BarrierInit(FALSE) \/ CreateThread(FALSE)
    \/ Restore(FALSE) \/ BarrierDestroy(TRUE) \/ Exit(FALSE)
    \/ \E c \in Cpus : LockMeToCpu(c, FALSE) \/ SchedFifoEnterMax(c, FALSE)

Spec == Init /\ [][Next]_vars

(* What can go on does: a busy thread keeps its processor for the time of  *)
(* its loop only.                                                          *)
FairSpec ==
    Spec /\ WF_vars(MainProgress) /\ WF_vars(Search) /\ \A c \in Cpus : WF_vars(ThreadProgress(c))

-----------------------------------------------------------------------------
(* The states of the processors, of main and of the threads.               *)
TypeOK ==
    /\ governor \in [Cpus -> Governors \cup {"userspace"}]
    /\ initially \in [Cpus -> Governors]
    /\ unnoticed \subseteq Cpus /\ reported \subseteq Cpus
    /\ SearchTypeOK
    /\ status \in {"begin", "run", "cleanup", "exit", "exited", "crashed", "stuck"}
    /\ step \in 1..Len(Script)
    /\ default_gov \in Governors \cup {NULL}
    /\ gov_cpu \in [Cpus -> Governors \cup {"userspace", NULL}]
    /\ loop \in [Cpus -> {"none", "made", "destroyed"}]
    /\ barrier \in [exists : BOOLEAN, waiting : SUBSET {0, 1, Main}, released : SUBSET {0, 1, Main}]
    /\ thread \in [Cpus -> [pc : {"none", "lock", "fifo", "barrier_wait", "busy", "done", "failed"},
                            cpu : Cpus, fifo : BOOLEAN]]

(* Wherever the program fails, when it has exited every processor has the  *)
(* governor it had before, or the program has said that it has not: the    *)
(* governor of processor 0 is saved and restored twice, one inside the     *)
(* other.                                                                  *)
GovernorsRestored ==
    status = "exited" => \A c \in Cpus : governor[c] = initially[c] \/ c \in reported

(* A thread that is busy still has its busy loop, and the governor of its  *)
(* processor is still the one under which the loop was measured.           *)
LoopsKeepTheirMeaning ==
    \A c \in Cpus : thread[c].pc = "busy" =>
        loop[c] = "made" /\ (governor[c] = "userspace" \/ c \in unnoticed)

(* What the experiment is meant to show: from the moment one thread is     *)
(* busy both are on their own processors, at the highest priority, and     *)
(* past everything that could delay them.                                  *)
RunTogether ==
    (\E c \in Cpus : thread[c].pc = "busy") =>
        \A c \in Cpus : /\ thread[c].cpu = c /\ thread[c].fifo
                        /\ thread[c].pc \in {"barrier_wait", "busy", "done"}

(* The program ends, unless a thread fails before the barrier, at which    *)
(* the others then wait for ever, or the barrier is destroyed under one.   *)
EndsUnlessStranded ==
    status = "run" ~> \/ status \in {"exited", "crashed", "stuck"}
                      \/ \E c \in Cpus : thread[c].pc = "failed"

==============================================================================
