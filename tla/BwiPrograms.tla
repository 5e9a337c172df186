---------------------------- MODULE BwiPrograms ----------------------------
(***************************************************************************)
(* The programs that the experiment driver of bwi-client_server starts, as *)
(* seen by whoever sends them signals: hrt_cbs.c, cpu_hog_cbs.c, cpu_hog.c *)
(* and server_hog.c in full control, the client and the server only with   *)
(* their beginning and their end (modules BwiClient and BwiServer have the *)
(* rest).  A program is identified by its line in the configuration file,  *)
(* and its process ID is the number of that line.                          *)
(***************************************************************************)
EXTENDS Integers, Sequences, FiniteSets, SequencesExt

CONSTANT CallsFail     \* may calls fail?

VARIABLES
    config,   \* the lines of the configuration file
    argv,     \* the options each process is executed with, in order
    proc,     \* the processes
    pending   \* the signals that have been sent and not yet been taken

programVars == <<config, argv, proc, pending>>

Lines == DOMAIN config

(* Option values other than process IDs.                                   *)
NotGiven    == -1    \* what the variables of the programs start with; proc_id too
Own         == -2    \* a value that the line itself gives
Placeholder == -3    \* INT_MAX or ULONG_MAX
Duration    == -4    \* experiment_duration_ms

(* getopt lets the last of several occurrences win.                        *)
Obeyed(i, opt) == LET k == SelectLastInSeq(argv[i], LAMBDA o : o.opt = opt)
                  IN IF k = 0 THEN NotGiven ELSE argv[i][k].val

NoProcess == [pc      |-> "none",    \* the main thread
              thread  |-> "none",    \* the real-time thread of hrt_cbs and client
              created |-> FALSE,     \* its task exists
              told    |-> FALSE,     \* stopped or terminated is set
              masked  |-> FALSE,     \* inside, or jumped out of, a handler
              printed |-> 0]         \* how often the statistics were printed

Over(i)  == proc[i].pc \in {"exited", "failed", "crashed", "signalled", "killed"}
Alive(i) == proc[i].pc # "none" /\ ~Over(i)

Become(i, pc) == proc' = [proc EXCEPT ![i].pc = pc]
End(i, pc)    == proc' = [proc EXCEPT ![i].pc = pc, ![i].thread = "none"]

HasThread(i) == config[i].id \in {"CLIENT", "HRT_CBS"}

(* The signals that do not kill process i now.                             *)
Withstands(i) == {signal \in {"SIGUSR1", "SIGTERM"} :
    /\ proc[i].pc \notin {"forked", "starting"}
    /\ signal = "SIGTERM" => ~(HasThread(i) /\ proc[i].pc = "join")
    /\ signal = "SIGUSR1" => config[i].id # "CPU_HOG"}

-----------------------------------------------------------------------------
(* hrt_cbs, and the frame that client shares with it.                      *)

(* Which options keep main from going on.  A placeholder that was not      *)
(* replaced is no duration (atoi makes it negative) and nobody's ID.       *)
Startable(i) ==
    /\ Obeyed(i, "x") \notin {NotGiven, Placeholder}
    /\ config[i].id = "CLIENT" =>
         \/ Obeyed(i, "v") = Own
         \/ Obeyed(i, "v") \in Lines /\ proc[Obeyed(i, "v")].pc = "serving"

(* Overheads are measured and busy loops made, SIGTERM and SIGUSR1 are     *)
(* blocked, the real-time thread is created.                               *)
PeriodicStart(i, ok) ==
    /\ proc[i].pc = "starting" /\ HasThread(i)
    /\ ok \/ CallsFail
    /\ IF ok /\ Startable(i)
       THEN proc' = [proc EXCEPT ![i].pc = "sigwait", ![i].thread = "cbs"]
       ELSE End(i, "failed")
    /\ UNCHANGED <<config, argv, pending>>

(* The thread that cannot have its CBS returns; nobody is told.            *)
EnterCbs(i, ok) ==
    /\ proc[i].thread = "cbs"
    /\ ok \/ CallsFail
    /\ proc' = [proc EXCEPT ![i].thread = IF ok THEN "sigwait" ELSE "failed"]
    /\ UNCHANGED <<config, argv, pending>>

(* SIGUSR1 starts the periodic task; a task that cannot be created ends    *)
(* the process.                                                            *)
AwaitStart(i) ==
    /\ proc[i].thread = "sigwait" /\ "SIGUSR1" \in pending[i]
    /\ pending' = [pending EXCEPT ![i] = @ \ {"SIGUSR1"}]
    /\ proc' = [proc EXCEPT ![i].thread = "create"]
    /\ UNCHANGED <<config, argv>>

CreateTask(i, ok) ==
    /\ proc[i].thread = "create"
    /\ ok \/ CallsFail
    /\ IF ok THEN proc' = [proc EXCEPT ![i].thread = "run", ![i].created = TRUE]
             ELSE End(i, "failed")
    /\ UNCHANGED <<config, argv, pending>>

(* task_start returns once the task is stopped, or with an error.  The     *)
(* program of a client may also find that its server is gone.              *)
TaskEnds(i, how) ==
    /\ proc[i].thread = "run"
    /\ \/ how = "done" /\ proc[i].told
       \/ how \in {"failed", "fatal"} /\ CallsFail
    /\ IF how = "fatal" THEN config[i].id = "CLIENT" /\ End(i, "failed")
                        ELSE proc' = [proc EXCEPT ![i].thread = how]
    /\ UNCHANGED <<config, argv, pending>>

(* main takes SIGTERM and stops the task, which may not exist yet.         *)
AwaitStop(i) ==
    /\ proc[i].pc = "sigwait" /\ "SIGTERM" \in pending[i]
    /\ pending' = [pending EXCEPT ![i] = @ \ {"SIGTERM"}]
    /\ IF proc[i].created THEN proc' = [proc EXCEPT ![i].pc = "join", ![i].told = TRUE]
                          ELSE End(i, "crashed")
    /\ UNCHANGED <<config, argv>>

Join(i) ==
    /\ proc[i].pc = "join" /\ proc[i].thread \in {"done", "failed"}
    /\ End(i, IF proc[i].thread = "done" THEN "exited" ELSE "failed")
    /\ UNCHANGED <<config, argv, pending>>

PeriodicProgram(i) ==
    \/ \E ok \in BOOLEAN : PeriodicStart(i, ok) \/ EnterCbs(i, ok) \/ CreateTask(i, ok)
    \/ AwaitStart(i) \/ AwaitStop(i) \/ Join(i)
    \/ \E how \in {"done", "failed", "fatal"} : TaskEnds(i, how)

-----------------------------------------------------------------------------
(* cpu_hog_cbs.                                                            *)

(* SIGTERM and SIGUSR1 are blocked before their handlers are installed.    *)
HogBlock(i, ok) ==
    /\ proc[i].pc = "starting" /\ config[i].id = "CPU_HOG_CBS"
    /\ ok \/ CallsFail
    /\ Become(i, IF ok THEN "prepare" ELSE "failed")
    /\ UNCHANGED <<config, argv, pending>>

(* Options and busy loop; then sigsetjmp, and SIGTERM is let in again.     *)
HogPrepare(i, ok) ==
    /\ proc[i].pc = "prepare"
    /\ ok \/ CallsFail
    /\ Become(i, IF ok THEN "cbs" ELSE "failed")
    /\ UNCHANGED <<config, argv, pending>>

HogEnterCbs(i, ok) ==
    /\ proc[i].pc = "cbs"
    /\ ok \/ CallsFail
    /\ Become(i, IF ok THEN "sigsuspend" ELSE "failed")
    /\ UNCHANGED <<config, argv, pending>>

(* sigsuspend lets only SIGUSR1 in and returns after its handler.          *)
HogStart(i) ==
    /\ proc[i].pc = "sigsuspend" /\ "SIGUSR1" \in pending[i]
    /\ pending' = [pending EXCEPT ![i] = @ \ {"SIGUSR1"}]
    /\ Become(i, "hog")
    /\ UNCHANGED <<config, argv>>

(* Only with option -s does hog_cpu return, to print the statistics.       *)
HogFinish(i) ==
    /\ proc[i].pc = "hog" /\ "s" \in config[i].own
    /\ Become(i, "print")
    /\ UNCHANGED <<config, argv, pending>>

HogPrint(i) ==
    /\ proc[i].pc = "print"
    /\ proc' = [proc EXCEPT ![i].pc = "destroy", ![i].printed = @ + 1]
    /\ UNCHANGED <<config, argv, pending>>

(* destroy_cpu_busyloop, which the handler may make main come back to: the *)
(* second free of the same loop goes unnoticed or aborts.                  *)
HogDestroy(i, crash) ==
    /\ proc[i].pc \in {"destroy", "destroy_again"}
    /\ crash => proc[i].pc = "destroy_again"
    /\ Become(i, IF crash THEN "crashed" ELSE "return")
    /\ UNCHANGED <<config, argv, pending>>

HogReturn(i) ==
    /\ proc[i].pc = "return"
    /\ Become(i, "exited")
    /\ UNCHANGED <<config, argv, pending>>

(* Variant: the handler returns instead of jumping.                        *)
HogHandlerReturns(i) ==
    /\ config[i].id = "CPU_HOG_CBS" /\ "SIGTERM" \in pending[i] /\ ~proc[i].masked
    /\ proc[i].pc \in {"cbs", "hog", "print", "destroy", "destroy_again", "return"}
    /\ pending' = [pending EXCEPT ![i] = @ \ {"SIGTERM"}]
    /\ proc' = [proc EXCEPT ![i].printed = @ + 1, ![i].pc = IF @ = "hog" THEN "print" ELSE @]
    /\ UNCHANGED <<config, argv>>

(* The SIGTERM handler prints the statistics and jumps behind main's block *)
(* with SIGTERM still blocked.                                             *)
HogHandler(i) ==
    /\ config[i].id = "CPU_HOG_CBS" /\ "SIGTERM" \in pending[i] /\ ~proc[i].masked
    /\ proc[i].pc \in {"cbs", "hog", "print", "destroy", "destroy_again", "return"}
    /\ pending' = [pending EXCEPT ![i] = @ \ {"SIGTERM"}]
    /\ proc' = [proc EXCEPT ![i].printed = @ + 1, ![i].masked = TRUE,
                            ![i].pc = IF @ = "return" THEN "destroy_again" ELSE "destroy"]
    /\ UNCHANGED <<config, argv>>

CpuHogCbs(i) ==
    \/ HogStart(i) \/ HogFinish(i) \/ HogPrint(i) \/ HogReturn(i) \/ HogHandler(i)
    \/ \E b \in BOOLEAN : HogBlock(i, b) \/ HogPrepare(i, b) \/ HogEnterCbs(i, b) \/ HogDestroy(i, b)

-----------------------------------------------------------------------------
(* cpu_hog and server_hog: a flag set by the handler ends their loops.     *)

LoopStart(i, ok) ==
    /\ proc[i].pc = "starting" /\ config[i].id \in {"CPU_HOG", "SERVER_HOG"}
    /\ ok \/ CallsFail
    /\ Become(i, IF ok THEN "loop" ELSE "failed")
    /\ UNCHANGED <<config, argv, pending>>

(* The handler; recv, but nothing else, is interrupted by it.              *)
LoopHandler(i) ==
    /\ config[i].id \in {"CPU_HOG", "SERVER_HOG"} /\ Alive(i) /\ "SIGTERM" \in pending[i]
    /\ pending' = [pending EXCEPT ![i] = @ \ {"SIGTERM"}]
    /\ proc' = [proc EXCEPT ![i].told = TRUE, ![i].pc = IF @ = "recv" THEN "loop" ELSE @]
    /\ UNCHANGED <<config, argv>>

LoopEnds(i) ==
    /\ proc[i].pc = "loop" /\ proc[i].told
    /\ Become(i, "exited")
    /\ UNCHANGED <<config, argv, pending>>

(* The server whose port a server_hog uses: that of the line before it.    *)
Preceding(i) ==
    LET servers == {j \in 1..(i - 1) : config[j].id \in {"SERVER", "SERVER_CLIENT"}}
    IN IF servers = {} THEN 0 ELSE Max(servers)

Serves(i) == Preceding(i) # 0 /\ proc[Preceding(i)].pc = "serving"

(* A datagram to a port nobody is bound to comes back as an error.         *)
HogRequest(i) ==
    /\ proc[i].pc = "loop" /\ config[i].id = "SERVER_HOG" /\ ~proc[i].told
    /\ Become(i, IF Serves(i) THEN "sent" ELSE "failed")
    /\ UNCHANGED <<config, argv, pending>>

HogReceive(i) ==
    /\ proc[i].pc = "sent"
    /\ Become(i, "recv")
    /\ UNCHANGED <<config, argv, pending>>

HogAnswered(i, ok) ==
    /\ proc[i].pc \in {"sent", "recv"} /\ Serves(i)
    /\ ok \/ CallsFail
    /\ Become(i, IF ok THEN "loop" ELSE "failed")
    /\ UNCHANGED <<config, argv, pending>>

LoopProgram(i) ==
    \/ LoopHandler(i) \/ LoopEnds(i) \/ HogRequest(i) \/ HogReceive(i)
    \/ \E ok \in BOOLEAN : LoopStart(i, ok) \/ HogAnswered(i, ok)

-----------------------------------------------------------------------------
(* server: its SUBSERVER_PID must exist; it serves until SIGTERM.          *)

ServerStart(i, ok) ==
    /\ proc[i].pc = "starting" /\ config[i].id \in {"SERVER", "SERVER_CLIENT"}
    /\ ok \/ CallsFail
    /\ LET sub == Obeyed(i, "v")
           exists == sub \in {NotGiven, Own} \/ (sub \in Lines /\ proc[sub].pc # "none")
       IN Become(i, IF ok /\ exists THEN "serving" ELSE "failed")
    /\ UNCHANGED <<config, argv, pending>>

ServerEnds(i, ok) ==
    /\ proc[i].pc = "serving"
    /\ IF ok THEN "SIGTERM" \in pending[i] ELSE CallsFail
    /\ Become(i, IF ok THEN "exited" ELSE "failed")
    /\ UNCHANGED <<config, argv, pending>>

ServerProgram(i) == \E ok \in BOOLEAN : ServerStart(i, ok) \/ ServerEnds(i, ok)

Program(i) == PeriodicProgram(i) \/ CpuHogCbs(i) \/ LoopProgram(i) \/ ServerProgram(i)

(* What every program does unless calls fail.                              *)
ProgramProgress(i) ==
    \/ PeriodicStart(i, TRUE) \/ EnterCbs(i, TRUE) \/ AwaitStart(i) \/ CreateTask(i, TRUE)
    \/ TaskEnds(i, "done") \/ AwaitStop(i) \/ Join(i)
    \/ HogBlock(i, TRUE) \/ HogPrepare(i, TRUE) \/ HogEnterCbs(i, TRUE) \/ HogStart(i) \/ HogPrint(i)
    \/ HogDestroy(i, FALSE) \/ HogReturn(i)
    \/ LoopStart(i, TRUE) \/ LoopEnds(i)

=============================================================================
