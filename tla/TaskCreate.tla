------------------------------ MODULE TaskCreate ------------------------------
(***************************************************************************)
(* Who owns what while task_create builds a task object, when one of its   *)
(* steps fails, and when task_destroy takes the object apart.              *)
(*                                                                         *)
(* The resources are the memory blocks and the stream that the functions   *)
(* allocate; "held" is the set of those allocated and not yet released.    *)
(* The pointer fields of the task object are modelled because malloc does  *)
(* not clear them and the error path decides by their values what to       *)
(* release.  What malloc leaves in a field is either zero or garbage, and  *)
(* releasing garbage is undefined: the model stops at "crashed".           *)
(* The thread's two cleanup handlers appear as one step each.              *)
(***************************************************************************)
EXTENDS Integers, FiniteSets

CONSTANTS Contents      \* what malloc may leave in a pointer: subset of
                        \* {"NULL", "garbage"}

ASSUME TaskCreateAssumption == Contents # {} /\ Contents \subseteq {"NULL", "garbage"}

Fields == {"name", "stats_log_path", "stats_log", "stats_ringbuf"}

(* The seven utility_time arguments, passed as garbage-collected objects.  *)
Times == {"wcet", "period", "deadline", "t_0", "offset",
          "job_statistics_overhead", "finish_to_start_overhead"}

Owned == Fields \cup {"task_stats", "result"}

VARIABLES pc,        \* the next section of task_create, or what follows it
          size,      \* ringbuffer_size is not zero
          field,     \* pointer fields of the task object
          held,      \* resources allocated and not released
          twice,     \* resources released although not held
          res,       \* *res: "unset", "NULL" or "task"
          rc,        \* the value task_create returns
          opened     \* "unknown", "yes" or "no": could the file be opened?

vars == <<pc, size, field, held, twice, res, rc, opened>>

Init ==
    /\ pc = "task_stats"
    /\ size \in BOOLEAN
    /\ field = [f \in Fields |-> "NULL"]
    /\ held = Times
    /\ twice = {}
    /\ res = "unset"
    /\ rc = -1
    /\ opened = "unknown"

(* A section of task_create that allocates, and jumps to error if that     *)
(* fails.                                                                  *)
Goto(ok, next) == pc' = IF ok THEN next ELSE "error"

CreateTaskStats(ok) ==
    /\ pc = "task_stats"
    /\ Goto(ok, "result")
    /\ held' = IF ok THEN held \cup {"task_stats"} ELSE held
    /\ UNCHANGED <<size, field, twice, res, rc, opened>>

(* malloc of the task object; its pointers are whatever was there.         *)
CreateTask(ok) ==
    /\ pc = "result"
    /\ Goto(ok, "name")
    /\ IF ok THEN /\ held' = held \cup {"result"}
                  /\ field' \in [Fields -> Contents]
             ELSE UNCHANGED <<held, field>>
    /\ UNCHANGED <<size, twice, res, rc, opened>>

(* A field that malloc or fopen fills.                                     *)
Fill(f, ok) ==
    /\ field' = [field EXCEPT ![f] = IF ok THEN "valid" ELSE "NULL"]
    /\ held' = IF ok THEN held \cup {f} ELSE held

CreateName(ok) ==
    /\ pc = "name"
    /\ Goto(ok, "stats_log_path")
    /\ Fill("name", ok)
    /\ UNCHANGED <<size, twice, res, rc, opened>>

CreateStatsLogPath(ok) ==
    /\ pc = "stats_log_path"
    /\ Goto(ok, "stats_log")
    /\ Fill("stats_log_path", ok)
    /\ UNCHANGED <<size, twice, res, rc, opened>>

(* Variant: rc keeps its initial value when the file cannot be opened.     *)
OpenStatsLogSilently(ok) ==
    /\ pc = "stats_log"
    /\ Goto(ok, "stats_ringbuf")
    /\ Fill("stats_log", ok)
    /\ opened' = IF ok THEN "yes" ELSE "no"
    /\ UNCHANGED <<size, twice, res, rc>>

OpenStatsLog(ok) ==
    /\ pc = "stats_log"
    /\ Goto(ok, "stats_ringbuf")
    /\ Fill("stats_log", ok)
    /\ rc' = IF ok THEN rc ELSE -2
    /\ opened' = IF ok THEN "yes" ELSE "no"
    /\ UNCHANGED <<size, twice, res>>

(* rc is -1 here, and set to -1 again when the ring buffer is not created. *)
CreateRingbuf(ok) ==
    /\ pc = "stats_ringbuf"
    /\ size \/ ok
    /\ Goto(ok, "times")
    /\ Fill("stats_ringbuf", size /\ ok)
    /\ rc' = IF ok THEN rc ELSE -1
    /\ UNCHANGED <<size, twice, res, opened>>

(* The utility_time arguments are copied and garbage collected.            *)
TakeTimes ==
    /\ pc = "times"
    /\ pc' = "serialize"
    /\ held' = held \ Times
    /\ UNCHANGED <<size, field, twice, res, rc, opened>>

Serialize(ok) ==
    /\ pc = "serialize"
    /\ Goto(ok, "created")
    /\ IF ok THEN /\ held' = held \ {"task_stats"}
                  /\ res' = "task"
                  /\ rc' = 0
             ELSE UNCHANGED <<held, res, rc>>
    /\ UNCHANGED <<size, field, twice, opened>>

-----------------------------------------------------------------------------
(* What the error path and task_destroy do with the pointers of the object:*)
(* a pointer that is not NULL is released.                                 *)
Release(what) ==
    /\ held' = held \ what
    /\ twice' = twice \cup (what \ held)

NonNull == {f \in Fields : field[f] # "NULL"}

(* Variant: the error path does not close the log.                         *)
ErrorLeavingLogOpen ==
    /\ pc = "error"
    /\ res' = "NULL"
    /\ Release(held \cap (Owned \ {"stats_log"}))
    /\ pc' = "failed"
    /\ UNCHANGED <<size, field, rc, opened>>

(* The label error.                                                        *)
Error ==
    /\ pc = "error"
    /\ res' = "NULL"
    /\ IF "result" \notin held
       THEN /\ Release(held \cap {"task_stats"})
            /\ pc' = "failed"
       ELSE IF \E f \in Fields : field[f] = "garbage"
       THEN pc' = "crashed" /\ UNCHANGED <<held, twice>>
       ELSE /\ Release({"task_stats", "result"} \cup NonNull)
            /\ pc' = "failed"
    /\ UNCHANGED <<size, field, rc, opened>>

(* Variant: the pointer to the destroyed ring buffer is kept.              *)
FlushKeepingPointer ==
    /\ pc = "created"
    /\ IF field["stats_ringbuf"] # "NULL" THEN Release({"stats_ringbuf"})
       ELSE UNCHANGED <<held, twice>>
    /\ pc' = "flushed"
    /\ UNCHANGED <<size, field, res, rc, opened>>

(* flush_stats_ringbuf with a ring buffer, run at the end of task_start.   *)
FlushStatsRingbuf ==
    /\ pc = "created"
    /\ IF field["stats_ringbuf"] # "NULL"
       THEN /\ Release({"stats_ringbuf"})
            /\ field' = [field EXCEPT !["stats_ringbuf"] = "NULL"]
       ELSE UNCHANGED <<held, twice, field>>
    /\ pc' = "flushed"
    /\ UNCHANGED <<size, res, rc, opened>>

(* close_logging_file, after it.  A stream whose fclose fails is closed    *)
(* all the same, but the pointer to it is kept.                            *)
CloseLoggingFile(ok) ==
    /\ pc = "flushed"
    /\ IF ok THEN /\ Release({"stats_log", "stats_log_path"})
                  /\ field' = [field EXCEPT !["stats_log"] = "NULL",
                                            !["stats_log_path"] = "NULL"]
             ELSE /\ Release({"stats_log"})
                  /\ UNCHANGED field
    /\ pc' = IF ok THEN "ended" ELSE "ended_badly"
    /\ UNCHANGED <<size, res, rc, opened>>

(* task_destroy of a task that was never started, or has ended.            *)
Destroy ==
    /\ pc \in {"created", "ended", "ended_badly"}
    /\ Release({"result"} \cup NonNull)
    /\ pc' = "destroyed"
    /\ UNCHANGED <<size, field, res, rc, opened>>

Next ==
    \/ \E ok \in BOOLEAN :
          \/ CreateTaskStats(ok) \/ CreateTask(ok) \/ CreateName(ok)
          \/ CreateStatsLogPath(ok) \/ OpenStatsLog(ok) \/ CreateRingbuf(ok)
          \/ Serialize(ok) \/ CloseLoggingFile(ok)
    \/ TakeTimes \/ Error \/ FlushStatsRingbuf \/ Destroy

Spec == Init /\ [][Next]_vars

-----------------------------------------------------------------------------
Returned == {"created", "failed", "flushed", "ended", "ended_badly", "destroyed"}

(* The sections of task_create and the contents of the task object.        *)
TypeOK ==
    /\ pc \in {"task_stats", "result", "name", "stats_log_path", "stats_log",
               "stats_ringbuf", "times", "serialize", "error", "crashed"} \cup Returned
    /\ size \in BOOLEAN
    /\ field \in [Fields -> {"NULL", "garbage", "valid"}]
    /\ held \subseteq Owned \cup Times
    /\ twice \subseteq Owned
    /\ res \in {"unset", "NULL", "task"}
    /\ rc \in {0, -1, -2}
    /\ opened \in {"unknown", "yes", "no"}

(* A task_create that fails gives back all it has allocated; the task      *)
(* object of one that succeeds leads to everything that is held, and after *)
(* task_destroy, whether the task was started or not, nothing is held.     *)
(* Nothing is released twice, except for a log whose closing has failed,   *)
(* which task_destroy closes again.                                        *)
ReleasedExactlyOnce ==
    /\ pc = "failed" => held \cap Owned = {}
    /\ pc = "created" =>
          held = {"result", "name", "stats_log_path", "stats_log"}
                 \cup (IF size THEN {"stats_ringbuf"} ELSE {})
    /\ pc = "destroyed" => held = {}
    /\ twice \subseteq {"stats_log"} /\ (twice # {} => pc = "destroyed")

(* A task object is handed out exactly on success, and a file that cannot  *)
(* be opened is the one reason for -2.                                     *)
ResultMatchesReturn ==
    pc \in Returned =>
        /\ res = (IF pc = "failed" THEN "NULL" ELSE "task")
        /\ rc = 0 <=> pc # "failed"
        /\ rc = -2 <=> opened = "no"

==============================================================================
