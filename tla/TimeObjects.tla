----------------------------- MODULE TimeObjects ------------------------------
(***************************************************************************)
(* Who frees a utility_time object.  utility_time.h collects dynamically   *)
(* allocated objects: an operation whose name ends in _gc frees those of   *)
(* its operands that are subject to automatic collection, an object set to *)
(* manual is freed by utility_time_gc, and a static one never.  The        *)
(* functions that take over their arguments (create_cpu_busyloop,          *)
(* sched_deadline_enter, task_create) free them in the same way, the first *)
(* two only if they succeed.  Nothing checks that an object is not used    *)
(* any more: each program is right only by the order of its operations.    *)
(*                                                                         *)
(* A program is the sequence of its operations on its objects, and main or *)
(* a callback runs through it.  Its calls of task_create and of the two    *)
(* measurements run the machines of modules TaskCreate and Overhead.  A    *)
(* program without operations stands for one that has a task created and   *)
(* then runs and destroys it, as far as TaskCreate goes.                   *)
(*                                                                         *)
(* utility_time objects that could not be allocated are left out: no       *)
(* program looks for them.                                                 *)
(***************************************************************************)
EXTENDS TaskCreate, Overhead, TimeScripts

VARIABLES
    program,    \* the program that runs
    line,       \* its next operation
    failed,     \* it has gone to its label error, or exited, before its end
    objs,       \* the objects that its variables point to
    misused,    \* variables whose object was used, or freed, after it was freed
    leaked,     \* variables that got another object while theirs was there
    threads     \* the arguments of threads that have yet to use them

scriptVars == <<program, line, failed, objs, misused, leaked, threads>>
timeVars == <<vars, probe, scriptVars>>

IdleProbe == [NewProbe("job", FALSE) EXCEPT !.pc = "idle"]

TimeInit ==
    /\ Init
    /\ probe = IdleProbe
    /\ program \in Programs
    /\ line = 1 /\ failed = FALSE
    /\ objs = [x \in {} |-> "static"]
    /\ misused = {} /\ leaked = {} /\ threads = {}

Body   == AllScripts[program].body
Script == Body \o AllScripts[program].clean_up

Running == line <= Len(Script)
AtOp(op) == Running /\ Script[line].op = op
To   == Script[line].to
Args == Script[line].args

NextLine == line' = line + 1 /\ UNCHANGED failed
GotoError    == line' = Len(Body) + 1 /\ failed' = TRUE

-----------------------------------------------------------------------------
(* An object is "static", "auto", "manual" (both dynamic) or "freed".      *)

Elements(args) == {args[i] : i \in DOMAIN args}
Live(x) == x \in DOMAIN objs /\ objs[x] \in {"auto", "manual"}

(* Uses of what is not there, and automatic collections of what another    *)
(* argument of the same call has collected.                                *)
BadUses(args)  == {x \in Elements(args) : x \notin DOMAIN objs \/ objs[x] = "freed"}
BadTwice(args) == {x \in Elements(args) : /\ x \in DOMAIN objs /\ objs[x] = "auto"
                                          /\ Cardinality({i \in DOMAIN args : args[i] = x}) > 1}

(* utility_time_gc_auto of the arguments.                                  *)
Collected(args) ==
    [x \in DOMAIN objs |-> IF x \in Elements(args) /\ objs[x] = "auto"
                           THEN "freed" ELSE objs[x]]

Assigned(o, x, kind) == [y \in DOMAIN o \cup {x} |-> IF y = x THEN kind ELSE o[y]]

otherUnchanged == UNCHANGED <<vars, probe, program, threads>>

DeclareStatic ==
    /\ AtOp("static") /\ NextLine
    /\ objs' = Assigned(objs, To, "static")
    /\ UNCHANGED <<misused, leaked>> /\ otherUnchanged

(* An operation that allocates its result; leaves its operands alone.      *)
MakeDyn ==
    /\ AtOp("dyn") /\ NextLine
    /\ misused' = misused \cup BadUses(Args)
    /\ objs' = Assigned(objs, To, "auto")
    /\ leaked' = IF Live(To) THEN leaked \cup {To} ELSE leaked
    /\ otherUnchanged

(* One that collects them, once the result is computed.                    *)
MakeDynGc ==
    /\ AtOp("dyn_gc") /\ NextLine
    /\ misused' = misused \cup BadUses(Args) \cup BadTwice(Args)
    /\ objs' = Assigned(Collected(Args), To, "auto")
    /\ leaked' = IF Live(To) /\ Collected(Args)[To] # "freed" THEN leaked \cup {To} ELSE leaked
    /\ otherUnchanged

UseOperands ==
    /\ AtOp("use") /\ NextLine
    /\ misused' = misused \cup BadUses(Args)
    /\ UNCHANGED <<objs, leaked>> /\ otherUnchanged

CollectOperands ==
    /\ AtOp("gc_auto") /\ NextLine
    /\ misused' = misused \cup BadUses(Args) \cup BadTwice(Args)
    /\ objs' = Collected(Args)
    /\ UNCHANGED leaked /\ otherUnchanged

(* utility_time_set_gc_manual.                                             *)
SetManual ==
    /\ AtOp("manual") /\ NextLine
    /\ misused' = misused \cup BadUses(Args)
    /\ objs' = IF Live(To) THEN Assigned(objs, To, "manual") ELSE objs
    /\ UNCHANGED leaked /\ otherUnchanged

(* utility_time_gc, guarded by a comparison with NULL or not.              *)
Free ==
    /\ AtOp("gc") \/ AtOp("gc_unless_null")
    /\ NextLine
    /\ misused' = IF Script[line].op = "gc" \/ To \in DOMAIN objs
                  THEN misused \cup BadUses(<<To>>) ELSE misused
    /\ objs' = IF Live(To) THEN Assigned(objs, To, "freed") ELSE objs
    /\ UNCHANGED leaked /\ otherUnchanged

TryStep(ok) ==
    /\ AtOp("may_fail")
    /\ IF ok THEN NextLine ELSE GotoError
    /\ UNCHANGED <<objs, misused, leaked>> /\ otherUnchanged

(* create_cpu_busyloop and sched_deadline_enter.                           *)
CallTakingOver(ok) ==
    /\ AtOp("call")
    /\ IF ok THEN NextLine ELSE GotoError
    /\ misused' = misused \cup BadUses(Args) \cup (IF ok THEN BadTwice(Args) ELSE {})
    /\ objs' = IF ok THEN Collected(Args) ELSE objs
    /\ UNCHANGED leaked /\ otherUnchanged

-----------------------------------------------------------------------------
(* The measurements of the overheads, by module Overhead.                  *)

BeginMeasurement(kind, aperiodic) ==
    /\ AtOp(IF aperiodic THEN "aperiodic" ELSE kind)
    /\ probe.pc = "idle"
    /\ probe' = NewProbe(kind, aperiodic)
    /\ UNCHANGED <<vars, scriptVars>>

RunMeasurement == Running /\ Probe /\ UNCHANGED <<vars, scriptVars>>

EndMeasurement ==
    /\ probe.pc = "returned"
    /\ probe' = IdleProbe
    /\ IF probe.exit_status = 0
       THEN NextLine /\ objs' = Assigned(objs, To, "auto")
       ELSE GotoError /\ UNCHANGED objs
    /\ UNCHANGED <<vars, program, misused, leaked, threads>>

(* task_create, by module TaskCreate, which collects the arguments of the  *)
(* program when it copies its times.                                       *)
TakeArguments ==
    /\ AtOp("task_create")
    /\ TakeTimes
    /\ misused' = misused \cup BadUses(Args) \cup BadTwice(Args)
    /\ objs' = Collected(Args)
    /\ UNCHANGED <<probe, program, line, failed, leaked, threads>>

CreateTaskObject ==
    /\ AtOp("task_create") \/ Script = <<>>
    /\ Script # <<>> => pc \notin Returned \cup {"times"}
    /\ Next
    /\ UNCHANGED <<probe, scriptVars>>

(* The next call of task_create begins where the first one did.            *)
TaskCreateReturns ==
    /\ AtOp("task_create") /\ pc \in {"created", "failed"}
    /\ IF pc = "created" THEN NextLine ELSE GotoError
    /\ pc' = "task_stats" /\ size' \in BOOLEAN
    /\ field' = [f \in Fields |-> "NULL"]
    /\ held' = Times /\ twice' = {}
    /\ res' = "unset" /\ rc' = -1 /\ opened' = "unknown"
    /\ UNCHANGED <<probe, program, objs, misused, leaked, threads>>

-----------------------------------------------------------------------------
(* The threads of earliest_deadline_first.                                 *)

SpawnThread ==
    /\ AtOp("spawn") /\ NextLine
    /\ threads' = threads \cup {Args}
    /\ UNCHANGED <<vars, probe, program, objs, misused, leaked>>

(* A thread gets to run, at any time before the end of the program.        *)
ThreadEnters(args, ok) ==
    /\ Running
    /\ threads' = threads \ {args}
    /\ misused' = misused \cup BadUses(args)
    /\ objs' = IF ok THEN Collected(args) ELSE objs
    /\ UNCHANGED <<vars, probe, program, line, failed, leaked>>

JoinThreads(ok) ==
    /\ AtOp("join")
    /\ IF ok THEN threads = {} /\ NextLine ELSE GotoError
    /\ UNCHANGED <<objs, misused, leaked>> /\ otherUnchanged

TimeNext ==
    \/ DeclareStatic \/ MakeDyn \/ MakeDynGc \/ UseOperands \/ CollectOperands
    \/ SetManual \/ Free
    \/ \E ok \in BOOLEAN : TryStep(ok) \/ CallTakingOver(ok) \/ JoinThreads(ok)
    \/ BeginMeasurement("job", FALSE)
    \/ \E aperiodic \in BOOLEAN : BeginMeasurement("task", aperiodic)
    \/ RunMeasurement \/ EndMeasurement
    \/ TakeArguments \/ CreateTaskObject \/ TaskCreateReturns
    \/ SpawnThread \/ \E args \in threads, ok \in BOOLEAN : ThreadEnters(args, ok)

TimeSpec == TimeInit /\ [][TimeNext]_timeVars

-----------------------------------------------------------------------------
(* Whatever fails, no program uses or frees an object that has been freed, *)
(* and when it has run to its end without an error it has freed every      *)
(* dynamic one.  There is one exception: when the manager of               *)
(* earliest_deadline_first fails it frees the WCETs and deadlines that its *)
(* threads may be about to use.                                            *)
CollectedExactlyOnce ==
    /\ misused # {} => program = "earliest_deadline_first" /\ failed
    /\ ~Running /\ ~failed => leaked = {} /\ \A x \in DOMAIN objs : ~Live(x)

=============================================================================
