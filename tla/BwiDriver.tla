----------------------------- MODULE BwiDriver ------------------------------
(***************************************************************************)
(* The experiment driver bwi-client_server/main.c: it reads a list of      *)
(* programs, completes their options, creates them in an order in which    *)
(* each can calibrate its busy loops undisturbed, starts them by SIGUSR1,  *)
(* stops them by SIGTERM and waits for them; or it kills them all.         *)
(***************************************************************************)
EXTENDS BwiPrograms

CONSTANT Configs      \* the configuration files considered

ProgramIds == {"SERVER", "CLIENT", "CPU_HOG", "CPU_HOG_CBS", "HRT_CBS", "SERVER_HOG",
               "SERVER_CLIENT"}

ASSUME ConfigsAssumption ==
    \A c \in Configs : c \in Seq([id : ProgramIds, own : SUBSET {"v", "x", "s"}])

VARIABLES
    status,    \* what the driver is doing
    step,      \* its next step in Script
    item,      \* the first line that procs_create has not dealt with
    handler,   \* is the SIGINT handler running?
    proc_id,   \* what it knows of the processes
    hurried    \* those a second was not enough for (history)

driverVars == <<status, step, item, handler, proc_id, hurried>>
systemVars == <<programVars, driverVars>>

-----------------------------------------------------------------------------
(* The lists; server_client is a server.                                   *)
ListName(line) == IF line.id = "SERVER_CLIENT" THEN "SERVER" ELSE line.id
Members(name) == {i \in Lines : ListName(config[i]) = name}

Steps(op, lists) == [k \in DOMAIN lists |-> [op |-> op, list |-> lists[k]]]

Others == <<"CLIENT", "HRT_CBS", "CPU_HOG_CBS", "CPU_HOG", "SERVER_HOG">>

(* Variant: the options of the clients are completed with all the others.  *)
CreationArgvFirst ==
    Steps("argv", <<"HRT_CBS", "CPU_HOG_CBS", "CPU_HOG", "SERVER_HOG", "SERVER", "CLIENT">>)
    \o Steps("create", <<"SERVER">> \o Others)

(* A client needs the process ID of its server among its options.          *)
Creation ==
    Steps("argv", <<"HRT_CBS", "CPU_HOG_CBS", "CPU_HOG", "SERVER_HOG", "SERVER">>)
    \o Steps("create", <<"SERVER">>) \o Steps("argv", <<"CLIENT">>) \o Steps("create", Others)

(* Variant: the hogs in a CBS are not started.                             *)
StartedWithoutHogs == <<"HRT_CBS", "CLIENT">>

Started == <<"HRT_CBS", "CPU_HOG_CBS", "CLIENT">>
Stopped == <<"CLIENT", "CPU_HOG_CBS", "HRT_CBS", "CPU_HOG", "SERVER_HOG">>

Starting == Steps("sched_deadline_enter", <<"none">>) \o Steps("SIGUSR1", Started)
            \o Steps("usleep", <<"none">>)

Stopping == Steps("SIGTERM", Stopped) \o Steps("sleep", <<"none">>) \o Steps("SIGTERM", <<"SERVER">>)

(* What main does with its lists, once they are read.                      *)
Script == Creation \o Starting \o Stopping \o Steps("wait", Stopped \o <<"SERVER">>)

(* Variant: the last list is forgotten.                                    *)
TerminatedButHogs == <<"SERVER", "CLIENT", "CPU_HOG", "CPU_HOG_CBS", "HRT_CBS">>

(* terminate_driver empties the lists in this order.                       *)
Terminated == <<"SERVER", "CLIENT", "CPU_HOG", "CPU_HOG_CBS", "HRT_CBS", "SERVER_HOG">>

At(op)    == status = "script" /\ step <= Len(Script) /\ Script[step].op = op
ThisList  == Script[step].list
NextStep  == step' = step + 1 /\ item' = 1
(* goto error                                                              *)
GiveUp    == status' = "terminate" /\ step' = 1

-----------------------------------------------------------------------------
(* Options.                                                                *)

Option(opt, val) == [opt |-> opt, val |-> val]

(* A line's own options, and behind them those that parse_config_file      *)
(* appends with placeholders long enough for any value.                    *)
OwnOption(i, opt) == IF opt \in config[i].own THEN <<Option(opt, Own)>> ELSE <<>>

Appended(i) ==
    LET v == Option("v", Placeholder)
        x == Option("x", Placeholder)
    IN CASE config[i].id = "CLIENT" -> IF Preceding(i) = 0 THEN <<x>> ELSE <<v, x>>
         [] config[i].id = "HRT_CBS" -> <<x>>
         [] config[i].id = "SERVER_CLIENT" -> <<v>>
         [] OTHER -> <<>>

LineOptions(i) == OwnOption(i, "v") \o OwnOption(i, "x") \o Appended(i)

(* The first occurrence of an option, if any, is overwritten.              *)
Adjust(options, opt, val) ==
    LET k == SelectInSeq(options, LAMBDA o : o.opt = opt)
    IN IF k = 0 THEN options ELSE [options EXCEPT ![k].val = val]

(* procs_make_argv.                                                        *)
Adjusted(i) ==
    LET v == IF config[i].id = "CLIENT" /\ Preceding(i) # 0
             THEN Adjust(LineOptions(i), "v", proc_id[Preceding(i)]) ELSE LineOptions(i)
    IN IF HasThread(i) THEN Adjust(v, "x", Duration) ELSE v

(* procs_create completes the options of a server_client just before.      *)
AdjustedForSubserver(i) ==
    IF config[i].id = "SERVER_CLIENT" THEN Adjust(argv[i], "v", proc_id[Preceding(i)])
                                      ELSE argv[i]

-----------------------------------------------------------------------------

DriverInit ==
    /\ config \in Configs
    /\ argv = [i \in Lines |-> <<>>]
    /\ proc = [i \in Lines |-> NoProcess]
    /\ pending = [i \in Lines |-> {}]
    /\ status = "parse" /\ step = 1 /\ item = 1 /\ handler = FALSE
    /\ proc_id = [i \in Lines |-> NotGiven]
    /\ hurried = {}

(* A server_client needs a server before it.                               *)
ParseConfig(ok) ==
    /\ status = "parse"
    /\ ok \/ CallsFail
    /\ IF ok /\ \A i \in Lines : config[i].id = "SERVER_CLIENT" => Preceding(i) # 0
       THEN status' = "script" /\ UNCHANGED step
       ELSE GiveUp
    /\ UNCHANGED <<programVars, item, handler, proc_id, hurried>>

MakeArgv(ok) ==
    /\ At("argv")
    /\ ok \/ CallsFail
    /\ IF ok THEN /\ argv' = [i \in Lines |-> IF i \in Members(ThisList) THEN Adjusted(i)
                                                                         ELSE argv[i]]
                  /\ NextStep /\ UNCHANGED status
             ELSE GiveUp /\ UNCHANGED <<argv, item>>
    /\ UNCHANGED <<config, proc, pending, handler, proc_id, hurried>>

(* procs_create, one process after the other in the order of their lines.  *)
Rest     == {i \in Members(ThisList) : i >= item}
Creating == Min(Rest)

Fork(ok) ==
    /\ At("create") /\ Rest # {}
    /\ proc[Creating].pc = "none"
    /\ ok \/ CallsFail
    /\ IF ok THEN /\ argv' = [argv EXCEPT ![Creating] = AdjustedForSubserver(Creating)]
                  /\ Become(Creating, "forked") /\ UNCHANGED <<status, step>>
             ELSE GiveUp /\ UNCHANGED <<argv, proc>>
    /\ UNCHANGED <<config, pending, item, handler, proc_id, hurried>>

StoreProcId ==
    /\ At("create") /\ Rest # {}
    /\ proc[Creating].pc # "none" /\ proc_id[Creating] = NotGiven
    /\ proc_id' = [proc_id EXCEPT ![Creating] = Creating]
    /\ UNCHANGED <<programVars, status, step, item, handler, hurried>>

(* Variant: the driver does not wait for the end of a second.              *)
SleepASecondNot ==
    /\ At("create") /\ Rest # {}
    /\ proc_id[Creating] # NotGiven
    /\ item' = Creating + 1
    /\ UNCHANGED <<programVars, status, step, handler, proc_id, hurried>>

(* The second of a process ends, however far it has come: sleep(1) is all  *)
(* that keeps the driver from going on before a program has blocked or     *)
(* caught its signals.                                                     *)
SleepASecond ==
    /\ At("create") /\ Rest # {}
    /\ proc_id[Creating] # NotGiven
    /\ hurried' = IF proc[Creating].pc \in {"forked", "starting"}
                  THEN hurried \cup {Creating} ELSE hurried
    /\ item' = Creating + 1
    /\ UNCHANGED <<programVars, status, step, handler, proc_id>>

ListCreated ==
    /\ At("create") /\ Rest = {}
    /\ NextStep
    /\ UNCHANGED <<programVars, status, handler, proc_id, hurried>>

EnterDeadline(ok) ==
    /\ At("sched_deadline_enter")
    /\ ok \/ CallsFail
    /\ IF ok THEN NextStep /\ UNCHANGED status ELSE GiveUp /\ UNCHANGED item
    /\ UNCHANGED <<programVars, handler, proc_id, hurried>>

Sleep ==
    /\ At("usleep") \/ At("sleep")
    /\ NextStep
    /\ UNCHANGED <<programVars, status, handler, proc_id, hurried>>

(* procs_kill: a signal that is neither blocked nor caught ends a process, *)
(* and one to a process that has ended does nothing.                       *)
ProcsKill(signal) ==
    /\ At(signal)
    /\ LET reached == {i \in Members(ThisList) : proc_id[i] # NotGiven /\ Alive(i)}
       IN /\ pending' = [i \in Lines |-> IF i \in reached /\ signal \in Withstands(i)
                                         THEN pending[i] \cup {signal} ELSE pending[i]]
          /\ proc' = [i \in Lines |-> IF i \in reached /\ signal \notin Withstands(i)
                                      THEN [NoProcess EXCEPT !.pc = "signalled"] ELSE proc[i]]
    /\ NextStep
    /\ UNCHANGED <<config, argv, status, handler, proc_id, hurried>>

ProcsWait ==
    /\ At("wait") /\ \A i \in Members(ThisList) : proc_id[i] # NotGiven => Over(i)
    /\ NextStep
    /\ UNCHANGED <<programVars, status, handler, proc_id, hurried>>

DriverExit ==
    /\ status = "script" /\ step > Len(Script)
    /\ status' = "exited"
    /\ UNCHANGED <<programVars, step, item, handler, proc_id, hurried>>

(* execv replaces the child, which until then is a copy of the driver.     *)
Exec(i) ==
    /\ proc[i].pc = "forked"
    /\ Become(i, "starting")
    /\ UNCHANGED <<config, argv, pending, driverVars>>

(* If it fails the child goes the driver's way to terminate_driver.  In    *)
(* its list its own proc_id is the 0 that fork returned, and kill(0) kills *)
(* the whole process group: the driver and every process it created.       *)
ExecFails(i) ==
    /\ proc[i].pc = "forked" /\ CallsFail
    /\ proc' = [j \in Lines |-> IF Alive(j) THEN [NoProcess EXCEPT !.pc = "killed"] ELSE proc[j]]
    /\ status' = IF status \in {"exited", "terminated"} THEN status ELSE "killed"
    /\ UNCHANGED <<config, argv, pending, step, item, handler, proc_id, hurried>>

(* terminate_driver: SIGKILL to the processes of a list, one waitpid each, *)
(* and the list is emptied.                                                *)
TerminateList ==
    /\ status = "terminate" /\ step <= Len(Terminated)
    /\ LET known == {i \in Members(Terminated[step]) : proc_id[i] # NotGiven}
       IN proc' = [i \in Lines |-> IF i \in known /\ Alive(i)
                                   THEN [NoProcess EXCEPT !.pc = "killed"] ELSE proc[i]]
    /\ step' = step + 1
    /\ UNCHANGED <<config, argv, pending, status, item, handler, proc_id, hurried>>

TerminateEnd ==
    /\ status = "terminate" /\ step > Len(Terminated)
    /\ status' = "terminated"
    /\ UNCHANGED <<programVars, step, item, handler, proc_id, hurried>>

(* SIGINT at any time; its handler is not interrupted by another.          *)
Interrupt ==
    /\ status \in {"parse", "script", "terminate"} /\ ~handler
    /\ handler' = TRUE
    /\ GiveUp
    /\ UNCHANGED <<programVars, item, proc_id, hurried>>

DriverProgress ==
    \/ ParseConfig(TRUE) \/ MakeArgv(TRUE) \/ Fork(TRUE) \/ StoreProcId \/ SleepASecond
    \/ ListCreated \/ EnterDeadline(TRUE) \/ Sleep \/ ProcsKill("SIGUSR1") \/ ProcsKill("SIGTERM")
    \/ ProcsWait \/ DriverExit \/ TerminateList \/ TerminateEnd

DriverNext ==
    \/ DriverProgress \/ Interrupt
    \/ ParseConfig(FALSE) \/ MakeArgv(FALSE) \/ Fork(FALSE) \/ EnterDeadline(FALSE)
    \/ \E i \in Lines : Exec(i) \/ ExecFails(i) \/ (Program(i) /\ UNCHANGED driverVars)

(* The driver goes on and its sleeps end; so do the programs but clients   *)
(* and servers, which modules BwiClient and BwiServer answer for.  Nothing *)
(* makes a call fail, SIGINT arrive or a hog reach its stopping time.      *)
MaxLines == Max({Len(c) : c \in Configs})
Fairness ==
    /\ WF_systemVars(DriverProgress)
    /\ \A i \in 1..MaxLines :
          /\ WF_systemVars(i \in Lines /\ Exec(i))
          /\ WF_systemVars(i \in Lines /\ config[i].id # "CLIENT" /\ ProgramProgress(i)
                     /\ UNCHANGED driverVars)
          /\ WF_systemVars(i \in Lines /\ (HogHandler(i) \/ LoopHandler(i)) /\ UNCHANGED driverVars)

DriverSpec == DriverInit /\ [][DriverNext]_systemVars

FairSpec == DriverSpec /\ Fairness

-----------------------------------------------------------------------------
(* The states of the processes and of the driver.                          *)
Processes == [pc : {"none", "forked", "starting", "sigwait", "join", "prepare", "cbs",
                    "sigsuspend", "hog", "print", "destroy", "destroy_again", "return",
                    "loop", "sent", "recv", "serving",
                    "exited", "failed", "crashed", "signalled", "killed"},
              thread : {"none", "cbs", "sigwait", "create", "run", "done", "failed"},
              created : BOOLEAN, told : BOOLEAN, masked : BOOLEAN, printed : 0..2]

DriverTypeOK ==
    /\ argv \in [Lines -> Seq([opt : {"v", "x"},
                               val : {NotGiven, Own, Placeholder, Duration} \cup Lines])]
    /\ proc \in [Lines -> Processes]
    /\ pending \in [Lines -> SUBSET {"SIGUSR1", "SIGTERM"}]
    /\ status \in {"parse", "script", "terminate", "terminated", "exited", "killed"}
    /\ step \in 1..(Len(Script) + 1) /\ item \in 1..(Len(config) + 1)
    /\ handler \in BOOLEAN
    /\ proc_id \in [Lines -> {NotGiven} \cup Lines]
    /\ hurried \in SUBSET Lines

(* Unless a line sets the option itself, every process that has been given *)
(* its program gets as option -v the process of the preceding server, and  *)
(* that one exists, and as option -x the duration of the experiment.       *)
ForcedArguments ==
    \A i \in Lines : proc[i].pc \notin {"none", "forked"} =>
        /\ HasThread(i) /\ "x" \notin config[i].own => Obeyed(i, "x") = Duration
        /\ config[i].id \in {"CLIENT", "SERVER_CLIENT"} /\ Preceding(i) # 0
              /\ "v" \notin config[i].own =>
                 /\ Obeyed(i, "v") = Preceding(i)
                 /\ proc[Preceding(i)].pc # "none"

(* Whatever fails and whenever SIGINT arrives: when the driver is gone, so *)
(* are all its processes, but for one that was being created.              *)
NobodySurvives ==
    status \in {"exited", "terminated", "killed"} =>
        LET left == {i \in Lines : Alive(i)}
        IN Cardinality(left) <= 1 /\ \A i \in left : proc_id[i] = NotGiven /\ handler

(* The signals that start and stop an experiment kill only a process that  *)
(* had its whole second (main.c:219) and had neither blocked nor caught    *)
(* them by the end of it: nobody is signalled before its second is over,   *)
(* or with a signal that its program does not expect, or twice.            *)
SignalsKillNobody == \A i \in Lines : proc[i].pc = "signalled" => i \in hurried

(* A hog without a stopping time of its own that ends well has printed its *)
(* statistics once, wherever SIGTERM reached it.                           *)
HogPrintsOnce ==
    \A i \in Lines :
        config[i].id = "CPU_HOG_CBS" /\ "s" \notin config[i].own =>
            /\ proc[i].pc = "exited" => proc[i].printed = 1
            /\ proc[i].pc # "crashed"

(* Once they have been told to, the hard real-time task and the hogs end,  *)
(* wherever they are and whether or not they have started.                 *)
Told(i) == /\ status \in {"script", "exited"}
           /\ \E k \in 1..(step - 1) : Script[k].op = "SIGTERM"
                                       /\ Script[k].list = ListName(config[i])
StoppedEnd ==
    \A i \in 1..MaxLines :
        (i \in Lines /\ config[i].id \in {"HRT_CBS", "CPU_HOG_CBS", "CPU_HOG"} /\ Told(i)
            /\ proc_id[i] # NotGiven)
        ~> (i \in Lines /\ Over(i))

=============================================================================
