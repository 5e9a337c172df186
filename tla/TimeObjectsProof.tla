-------------------------- MODULE TimeObjectsProof --------------------------
(***************************************************************************)
(* Proofs about task_create (module TaskCreate) and the measurement of the *)
(* overheads (module Overhead) where the programs of TimeObjects call      *)
(* them: whatever memory and stack contain, and for every set of programs. *)
(***************************************************************************)
EXTENDS TimeObjects, RingbufProof

Building == {"task_stats", "result", "name", "stats_log_path", "stats_log",
             "stats_ringbuf", "times", "serialize"}

(* The sections of task_create that follow the allocation of a resource.   *)
SectionsAfter ==
    [task_stats     |-> Building \ {"task_stats"},
     result         |-> Building \ {"task_stats", "result"},
     name           |-> Building \ {"task_stats", "result", "name"},
     stats_log_path |-> {"stats_log", "stats_ringbuf", "times", "serialize"},
     stats_log      |-> {"stats_ringbuf", "times", "serialize"},
     stats_ringbuf  |-> {"times", "serialize"}]

(* What a task object holds once there is one.                             *)
PointersAreHeld == \A f \in Fields : field[f] = "valid" <=> f \in held

(* While task_create gets on, it holds what it has allocated so far.       *)
BuildingHolds ==
    pc \in Building =>
        /\ res = "unset" /\ rc = -1 /\ twice = {}
        /\ opened = IF pc \in SectionsAfter["stats_log"] THEN "yes" ELSE "unknown"
        /\ \A r \in Owned : r \in held <=>
              pc \in SectionsAfter[r] /\ (r = "stats_ringbuf" => size)
        /\ \A f \in Fields : pc \in SectionsAfter[f] /\ f \notin held => field[f] = "NULL"
        /\ \A t \in Times : t \in held <=> pc # "serialize"
        /\ PointersAreHeld

(* At the label error the pointers that are valid are those held.          *)
ErrorHolds ==
    pc = "error" =>
        /\ res = "unset" /\ twice = {} /\ rc # 0
        /\ rc = -2 <=> opened = "no"
        /\ IF "result" \in held THEN "task_stats" \in held /\ PointersAreHeld
           ELSE held \cap Owned \subseteq {"task_stats"}

(* What a task object that has been handed out leads to.                   *)
HandedOut ==
    CASE pc = "created" ->
            /\ held = {"result", "name", "stats_log_path", "stats_log"}
                      \cup (IF size THEN {"stats_ringbuf"} ELSE {})
            /\ PointersAreHeld /\ \A f \in Fields : f \notin held => field[f] = "NULL"
      [] pc = "flushed" ->
            /\ held = {"result", "name", "stats_log_path", "stats_log"}
            /\ PointersAreHeld /\ field["stats_ringbuf"] = "NULL"
      [] pc = "ended" ->
            /\ held = {"result", "name"}
            /\ field["name"] = "valid"
            /\ \A f \in Fields \ {"name"} : field[f] = "NULL"
      [] pc = "ended_badly" ->
            /\ held = {"result", "name", "stats_log_path"}
            /\ \A f \in Fields : field[f] = IF f = "stats_ringbuf" THEN "NULL" ELSE "valid"
      [] OTHER -> TRUE

ReturnedHolds ==
    pc \in Returned =>
        /\ pc = "failed" => /\ res = "NULL" /\ rc # 0
                            /\ rc = -2 <=> opened = "no"
                            /\ held \cap Owned = {}
        /\ pc # "failed" => res = "task" /\ rc = 0 /\ opened = "yes" /\ HandedOut
        /\ pc = "destroyed" => held = {} /\ twice \subseteq {"stats_log"}
        /\ pc # "destroyed" => twice = {}

CreateInv == TypeOK /\ BuildingHolds /\ ErrorHolds /\ ReturnedHolds /\ (pc = "crashed" => twice = {})

-----------------------------------------------------------------------------
LEMMA InitCreateInv == Init => CreateInv
  <1> SUFFICES ASSUME Init PROVE CreateInv
    OBVIOUS
  <1>1. TypeOK
    BY DEF Init, TypeOK, Fields, Owned, Times
  <1>2. BuildingHolds
    BY DEF Init, BuildingHolds, PointersAreHeld, SectionsAfter, Building, Fields, Owned, Times
  <1>3. ErrorHolds /\ ReturnedHolds /\ pc # "crashed"
    BY DEF Init, ErrorHolds, ReturnedHolds, Returned
  <1> QED BY <1>1, <1>2, <1>3 DEF CreateInv

LEMMA CreateTaskStatsInv ==
    ASSUME CreateInv, NEW ok \in BOOLEAN, CreateTaskStats(ok)
    PROVE  CreateInv'
  <1>1. TypeOK'
    BY DEF CreateInv, TypeOK, CreateTaskStats, Goto, Building, SectionsAfter, Returned, Fields, Owned, Times
  <1>2. BuildingHolds'
    BY DEF CreateInv, TypeOK, BuildingHolds, PointersAreHeld, CreateTaskStats, Goto, Building, SectionsAfter, Returned, Fields, Owned, Times
  <1>3. ErrorHolds'
    BY DEF CreateInv, TypeOK, BuildingHolds, ErrorHolds, PointersAreHeld, CreateTaskStats, Goto, Building, SectionsAfter, Returned, Fields, Owned, Times
  <1>4. ReturnedHolds' /\ (pc' = "crashed" => twice' = {})
    BY DEF CreateInv, TypeOK, BuildingHolds, ErrorHolds, ReturnedHolds, PointersAreHeld, CreateTaskStats, Goto, Building, SectionsAfter, Returned, Fields, Owned, Times
  <1> QED BY <1>1, <1>2, <1>3, <1>4 DEF CreateInv

LEMMA CreateTaskInv ==
    ASSUME CreateInv, NEW ok \in BOOLEAN, CreateTask(ok)
    PROVE  CreateInv'
  <1>1. /\ field' \in [Fields -> {"NULL", "garbage", "valid"}]
        /\ ok => \A f \in Fields : field'[f] # "valid"
        /\ ~ok => UNCHANGED field
    <2>1. CASE ok
      <3>1. field' \in [Fields -> Contents]
        BY <2>1 DEF CreateTask
      <3> QED BY <2>1, <3>1, TaskCreateAssumption
    <2>2. CASE ~ok
      BY <2>2 DEF CreateTask, CreateInv, TypeOK
    <2> QED BY <2>1, <2>2
  <1>2. TypeOK'
    BY <1>1 DEF CreateInv, TypeOK, CreateTask, Goto, Returned, Owned
  <1>3. BuildingHolds'
    BY <1>1 DEF CreateInv, TypeOK, BuildingHolds, PointersAreHeld, CreateTask, Goto, Building, SectionsAfter, Returned, Fields, Owned, Times
  <1>4. ErrorHolds'
    BY DEF CreateInv, TypeOK, BuildingHolds, ErrorHolds, PointersAreHeld, CreateTask, Goto, Building, SectionsAfter, Returned, Fields, Owned, Times
  <1>5. ReturnedHolds' /\ (pc' = "crashed" => twice' = {})
    BY DEF CreateInv, BuildingHolds, ReturnedHolds, CreateTask, Goto, Building, Returned
  <1> QED BY <1>2, <1>3, <1>4, <1>5 DEF CreateInv

LEMMA CreateNameInv ==
    ASSUME CreateInv, NEW ok \in BOOLEAN, CreateName(ok)
    PROVE  CreateInv'
  <1>1. TypeOK'
    BY DEF CreateInv, TypeOK, CreateName, Goto, Fill, Building, SectionsAfter, Returned, Fields, Owned, Times
  <1>2. BuildingHolds'
    BY DEF CreateInv, TypeOK, BuildingHolds, PointersAreHeld, CreateName, Goto, Fill, Building, SectionsAfter, Returned, Fields, Owned, Times
  <1>3. ErrorHolds'
    BY DEF CreateInv, TypeOK, BuildingHolds, ErrorHolds, PointersAreHeld, CreateName, Goto, Fill, Building, SectionsAfter, Returned, Fields, Owned, Times
  <1>4. ReturnedHolds' /\ (pc' = "crashed" => twice' = {})
    BY DEF CreateInv, TypeOK, BuildingHolds, ErrorHolds, ReturnedHolds, PointersAreHeld, CreateName, Goto, Fill, Building, SectionsAfter, Returned, Fields, Owned, Times
  <1> QED BY <1>1, <1>2, <1>3, <1>4 DEF CreateInv

LEMMA CreateStatsLogPathInv ==
    ASSUME CreateInv, NEW ok \in BOOLEAN, CreateStatsLogPath(ok)
    PROVE  CreateInv'
  <1>1. TypeOK'
    BY DEF CreateInv, TypeOK, CreateStatsLogPath, Goto, Fill, Building, SectionsAfter, Returned, Fields, Owned, Times
  <1>2. BuildingHolds'
    BY DEF CreateInv, TypeOK, BuildingHolds, PointersAreHeld, CreateStatsLogPath, Goto, Fill, Building, SectionsAfter, Returned, Fields, Owned, Times
  <1>3. ErrorHolds'
    BY DEF CreateInv, TypeOK, BuildingHolds, ErrorHolds, PointersAreHeld, CreateStatsLogPath, Goto, Fill, Building, SectionsAfter, Returned, Fields, Owned, Times
  <1>4. ReturnedHolds' /\ (pc' = "crashed" => twice' = {})
    BY DEF CreateInv, TypeOK, BuildingHolds, ErrorHolds, ReturnedHolds, PointersAreHeld, CreateStatsLogPath, Goto, Fill, Building, SectionsAfter, Returned, Fields, Owned, Times
  <1> QED BY <1>1, <1>2, <1>3, <1>4 DEF CreateInv

LEMMA OpenStatsLogInv ==
    ASSUME CreateInv, NEW ok \in BOOLEAN, OpenStatsLog(ok)
    PROVE  CreateInv'
  <1>1. TypeOK'
    BY DEF CreateInv, TypeOK, OpenStatsLog, Goto, Fill, Building, SectionsAfter, Returned, Fields, Owned, Times
  <1>2. BuildingHolds'
    BY DEF CreateInv, TypeOK, BuildingHolds, PointersAreHeld, OpenStatsLog, Goto, Fill, Building, SectionsAfter, Returned, Fields, Owned, Times
  <1>3. ErrorHolds'
    BY DEF CreateInv, TypeOK, BuildingHolds, ErrorHolds, PointersAreHeld, OpenStatsLog, Goto, Fill, Building, SectionsAfter, Returned, Fields, Owned, Times
  <1>4. ReturnedHolds' /\ (pc' = "crashed" => twice' = {})
    BY DEF CreateInv, TypeOK, BuildingHolds, ErrorHolds, ReturnedHolds, PointersAreHeld, OpenStatsLog, Goto, Fill, Building, SectionsAfter, Returned, Fields, Owned, Times
  <1> QED BY <1>1, <1>2, <1>3, <1>4 DEF CreateInv

LEMMA CreateRingbufInv ==
    ASSUME CreateInv, NEW ok \in BOOLEAN, CreateRingbuf(ok)
    PROVE  CreateInv'
  <1>1. TypeOK'
    BY DEF CreateInv, TypeOK, CreateRingbuf, Goto, Fill, Building, SectionsAfter, Returned, Fields, Owned, Times
  <1>2. BuildingHolds'
    BY DEF CreateInv, TypeOK, BuildingHolds, PointersAreHeld, CreateRingbuf, Goto, Fill, Building, SectionsAfter, Returned, Fields, Owned, Times
  <1>3. ErrorHolds'
    BY DEF CreateInv, TypeOK, BuildingHolds, ErrorHolds, PointersAreHeld, CreateRingbuf, Goto, Fill, Building, SectionsAfter, Returned, Fields, Owned, Times
  <1>4. ReturnedHolds' /\ (pc' = "crashed" => twice' = {})
    BY DEF CreateInv, TypeOK, BuildingHolds, ErrorHolds, ReturnedHolds, PointersAreHeld, CreateRingbuf, Goto, Fill, Building, SectionsAfter, Returned, Fields, Owned, Times
  <1> QED BY <1>1, <1>2, <1>3, <1>4 DEF CreateInv

LEMMA TakeTimesInv ==
    ASSUME CreateInv, TakeTimes
    PROVE  CreateInv'
  <1>1. TypeOK'
    BY DEF CreateInv, TypeOK, TakeTimes, Building, SectionsAfter, Returned, Fields, Owned, Times
  <1>2. BuildingHolds'
    BY DEF CreateInv, TypeOK, BuildingHolds, PointersAreHeld, TakeTimes, Building, SectionsAfter, Returned, Fields, Owned, Times
  <1>3. ErrorHolds'
    BY DEF CreateInv, TypeOK, BuildingHolds, ErrorHolds, PointersAreHeld, TakeTimes, Building, SectionsAfter, Returned, Fields, Owned, Times
  <1>4. ReturnedHolds' /\ (pc' = "crashed" => twice' = {})
    BY DEF CreateInv, TypeOK, BuildingHolds, ErrorHolds, ReturnedHolds, PointersAreHeld, TakeTimes, Building, SectionsAfter, Returned, Fields, Owned, Times
  <1> QED BY <1>1, <1>2, <1>3, <1>4 DEF CreateInv

LEMMA SerializeInv ==
    ASSUME CreateInv, NEW ok \in BOOLEAN, Serialize(ok)
    PROVE  CreateInv'
  <1>1. TypeOK'
    BY DEF CreateInv, TypeOK, Serialize, Goto, Building, SectionsAfter, Returned, Fields, Owned, Times
  <1>2. BuildingHolds'
    BY DEF CreateInv, TypeOK, BuildingHolds, PointersAreHeld, Serialize, Goto, Building, SectionsAfter, Returned, Fields, Owned, Times
  <1>3. ErrorHolds'
    BY DEF CreateInv, TypeOK, BuildingHolds, ErrorHolds, PointersAreHeld, Serialize, Goto, Building, SectionsAfter, Returned, Fields, Owned, Times
  <1>4. ReturnedHolds' /\ (pc' = "crashed" => twice' = {})
    BY DEF CreateInv, TypeOK, BuildingHolds, ErrorHolds, ReturnedHolds, PointersAreHeld, HandedOut, Serialize, Goto, Building, SectionsAfter, Returned, Fields, Owned, Times
  <1> QED BY <1>1, <1>2, <1>3, <1>4 DEF CreateInv

LEMMA ErrorInv ==
    ASSUME CreateInv, Error
    PROVE  CreateInv'
  <1>1. TypeOK'
    BY DEF CreateInv, TypeOK, Error, Release, NonNull, Building, SectionsAfter, Returned, Fields, Owned, Times
  <1>2. BuildingHolds'
    BY DEF CreateInv, TypeOK, BuildingHolds, PointersAreHeld, Error, Release, NonNull, Building, SectionsAfter, Returned, Fields, Owned, Times
  <1>3. ErrorHolds'
    BY DEF CreateInv, TypeOK, BuildingHolds, ErrorHolds, PointersAreHeld, Error, Release, NonNull, Building, SectionsAfter, Returned, Fields, Owned, Times
  <1>4. ReturnedHolds' /\ (pc' = "crashed" => twice' = {})
    <2>1. /\ pc = "error" /\ twice = {} /\ rc # 0 /\ (rc = -2 <=> opened = "no")
          /\ res' = "NULL" /\ rc' = rc /\ opened' = opened
          /\ held \subseteq Owned \cup Times
      BY DEF Error, CreateInv, TypeOK, ErrorHolds
    <2>2. CASE "result" \notin held
      <3>1. pc' = "failed" /\ held' = held \ (held \cap {"task_stats"}) /\ twice' = {}
        BY <2>1, <2>2 DEF Error, Release
      <3>2. held \cap Owned \subseteq {"task_stats"}
        BY <2>1, <2>2 DEF CreateInv, ErrorHolds
      <3>3. held' \cap Owned = {}
        BY <3>1, <3>2
      <3> QED BY <2>1, <3>1, <3>3 DEF ReturnedHolds
    <2>3. CASE "result" \in held /\ \E f \in Fields : field[f] = "garbage"
      BY <2>1, <2>3 DEF Error, ReturnedHolds, Returned
    <2>4. CASE "result" \in held /\ ~\E f \in Fields : field[f] = "garbage"
      <3>1. pc' = "failed" /\ held' = held \ ({"task_stats", "result"} \cup NonNull)
            /\ twice' = twice \cup (({"task_stats", "result"} \cup NonNull) \ held)
        BY <2>1, <2>4 DEF Error, Release
      <3>2. "task_stats" \in held /\ PointersAreHeld
        BY <2>1, <2>4 DEF CreateInv, ErrorHolds
      <3>3. NonNull = held \cap Fields
        BY <2>4, <3>2 DEF NonNull, PointersAreHeld, CreateInv, TypeOK
      <3>4. held' \cap Owned = {} /\ twice' = {}
        BY <2>1, <2>4, <3>1, <3>2, <3>3 DEF Owned
      <3> QED BY <2>1, <3>1, <3>4 DEF ReturnedHolds
    <2> QED BY <2>2, <2>3, <2>4
  <1> QED BY <1>1, <1>2, <1>3, <1>4 DEF CreateInv

LEMMA FlushStatsRingbufInv ==
    ASSUME CreateInv, FlushStatsRingbuf
    PROVE  CreateInv'
  <1>1. TypeOK'
    BY DEF CreateInv, TypeOK, FlushStatsRingbuf, Release, Building, SectionsAfter, Returned, Fields, Owned, Times
  <1>2. BuildingHolds'
    BY DEF CreateInv, TypeOK, BuildingHolds, PointersAreHeld, FlushStatsRingbuf, Release, Building, SectionsAfter, Returned, Fields, Owned, Times
  <1>3. ErrorHolds'
    BY DEF CreateInv, TypeOK, BuildingHolds, ErrorHolds, PointersAreHeld, FlushStatsRingbuf, Release, Building, SectionsAfter, Returned, Fields, Owned, Times
  <1>4. ReturnedHolds' /\ (pc' = "crashed" => twice' = {})
    BY DEF CreateInv, TypeOK, BuildingHolds, ErrorHolds, ReturnedHolds, PointersAreHeld, HandedOut, FlushStatsRingbuf, Release, Building, SectionsAfter, Returned, Fields, Owned, Times
  <1> QED BY <1>1, <1>2, <1>3, <1>4 DEF CreateInv

LEMMA CloseLoggingFileInv ==
    ASSUME CreateInv, NEW ok \in BOOLEAN, CloseLoggingFile(ok)
    PROVE  CreateInv'
  <1>1. TypeOK'
    BY DEF CreateInv, TypeOK, CloseLoggingFile, Release, Building, SectionsAfter, Returned, Fields, Owned, Times
  <1>2. BuildingHolds'
    BY DEF CreateInv, TypeOK, BuildingHolds, PointersAreHeld, CloseLoggingFile, Release, Building, SectionsAfter, Returned, Fields, Owned, Times
  <1>3. ErrorHolds'
    BY DEF CreateInv, TypeOK, BuildingHolds, ErrorHolds, PointersAreHeld, CloseLoggingFile, Release, Building, SectionsAfter, Returned, Fields, Owned, Times
  <1>4. ReturnedHolds' /\ (pc' = "crashed" => twice' = {})
    BY DEF CreateInv, TypeOK, BuildingHolds, ErrorHolds, ReturnedHolds, PointersAreHeld, HandedOut, CloseLoggingFile, Release, Building, SectionsAfter, Returned, Fields, Owned, Times
  <1> QED BY <1>1, <1>2, <1>3, <1>4 DEF CreateInv

LEMMA DestroyInv ==
    ASSUME CreateInv, Destroy
    PROVE  CreateInv'
  <1>1. TypeOK'
    BY DEF CreateInv, TypeOK, Destroy, Release, NonNull, Building, SectionsAfter, Returned, Fields, Owned, Times
  <1>2. BuildingHolds'
    BY DEF CreateInv, TypeOK, BuildingHolds, PointersAreHeld, Destroy, Release, NonNull, Building, SectionsAfter, Returned, Fields, Owned, Times
  <1>3. ErrorHolds'
    BY DEF CreateInv, TypeOK, BuildingHolds, ErrorHolds, PointersAreHeld, Destroy, Release, NonNull, Building, SectionsAfter, Returned, Fields, Owned, Times
  <1>4. ReturnedHolds' /\ (pc' = "crashed" => twice' = {})
    BY DEF CreateInv, TypeOK, BuildingHolds, ErrorHolds, ReturnedHolds, PointersAreHeld, HandedOut, Destroy, Release, NonNull, Building, SectionsAfter, Returned, Fields, Owned, Times
  <1> QED BY <1>1, <1>2, <1>3, <1>4 DEF CreateInv

(* CreateInv is inductive for task_create and what follows it.             *)
LEMMA NextCreateInv ==
    ASSUME CreateInv, Next
    PROVE  CreateInv'
  <1>1. ASSUME NEW ok \in BOOLEAN,
               \/ CreateTaskStats(ok) \/ CreateTask(ok) \/ CreateName(ok)
               \/ CreateStatsLogPath(ok) \/ OpenStatsLog(ok) \/ CreateRingbuf(ok)
               \/ Serialize(ok) \/ CloseLoggingFile(ok)
        PROVE  CreateInv'
    BY <1>1, CreateTaskStatsInv, CreateTaskInv, CreateNameInv, CreateStatsLogPathInv,
       OpenStatsLogInv, CreateRingbufInv, SerializeInv, CloseLoggingFileInv
  <1>2. CASE TakeTimes \/ Error \/ FlushStatsRingbuf \/ Destroy
    BY <1>2, TakeTimesInv, ErrorInv, FlushStatsRingbufInv, DestroyInv
  <1> QED BY <1>1, <1>2 DEF Next

LEMMA UnchangedCreateInv ==
    ASSUME CreateInv, UNCHANGED vars
    PROVE  CreateInv'
  BY DEF vars, CreateInv, TypeOK, BuildingHolds, ErrorHolds, ReturnedHolds, HandedOut,
         PointersAreHeld

(* The programs of TimeObjects take no other steps of task_create but to   *)
(* begin a new one.                                                        *)
LEMMA TimeNextSteps ==
    ASSUME [TimeNext]_timeVars
    PROVE  Next \/ UNCHANGED vars \/ TaskCreateReturns
  <1>1. ASSUME NEW ok \in BOOLEAN, TryStep(ok) \/ CallTakingOver(ok) \/ JoinThreads(ok)
        PROVE  UNCHANGED vars
    BY <1>1 DEF TryStep, CallTakingOver, JoinThreads, otherUnchanged
  <1>2. ASSUME NEW kind, NEW aperiodic, BeginMeasurement(kind, aperiodic)
        PROVE  UNCHANGED vars
    BY <1>2 DEF BeginMeasurement
  <1>3. CASE RunMeasurement \/ EndMeasurement \/ SpawnThread
    BY <1>3 DEF RunMeasurement, EndMeasurement, SpawnThread
  <1>4. ASSUME NEW args \in threads, NEW ok \in BOOLEAN, ThreadEnters(args, ok)
        PROVE  UNCHANGED vars
    BY <1>4 DEF ThreadEnters
  <1>5. CASE \/ DeclareStatic \/ MakeDyn \/ MakeDynGc \/ UseOperands \/ CollectOperands
             \/ SetManual \/ Free
    BY <1>5 DEF DeclareStatic, MakeDyn, MakeDynGc, UseOperands, CollectOperands, SetManual,
                Free, otherUnchanged
  <1>6. CASE TakeArguments \/ CreateTaskObject
    BY <1>6 DEF TakeArguments, CreateTaskObject, Next
  <1>7. CASE UNCHANGED timeVars
    BY <1>7 DEF timeVars
  <1> QED BY <1>1, <1>2, <1>3, <1>4, <1>5, <1>6, <1>7 DEF TimeNext

LEMMA TimeSpecCreateInv == TimeSpec => []CreateInv
  <1>1. TimeInit => CreateInv
    BY InitCreateInv DEF TimeInit
  <1>2. CreateInv /\ [TimeNext]_timeVars => CreateInv'
    <2> SUFFICES ASSUME CreateInv, [TimeNext]_timeVars PROVE CreateInv'
      OBVIOUS
    <2>1. CASE Next \/ UNCHANGED vars
      BY <2>1, NextCreateInv, UnchangedCreateInv
    <2>2. CASE TaskCreateReturns
      <3>1. TypeOK'
        BY <2>2 DEF TaskCreateReturns, TypeOK, Fields, Owned, Times
      <3>2. BuildingHolds'
        BY <2>2 DEF TaskCreateReturns, BuildingHolds, PointersAreHeld, SectionsAfter,
                    Building, Fields, Owned, Times
      <3>3. ErrorHolds' /\ ReturnedHolds' /\ pc' # "crashed"
        BY <2>2 DEF TaskCreateReturns, ErrorHolds, ReturnedHolds, Returned
      <3> QED BY <3>1, <3>2, <3>3 DEF CreateInv
    <2> QED BY <2>1, <2>2, TimeNextSteps
  <1> QED BY <1>1, <1>2, PTL DEF TimeSpec

(* task_create gives back all it has allocated when it fails, and nothing  *)
(* more; the object of one that succeeds leads to all that is held, and    *)
(* task_destroy releases it, once.                                         *)
THEOREM AlwaysReleasedOnce == TimeSpec => []ReleasedExactlyOnce
  <1>1. CreateInv => ReleasedExactlyOnce
    BY DEF CreateInv, TypeOK, BuildingHolds, ErrorHolds, ReturnedHolds, HandedOut,
           ReleasedExactlyOnce, Building, Returned
  <1> QED BY <1>1, TimeSpecCreateInv, PTL

(* task_create hands out an object exactly if it returns 0, and returns -2 *)
(* exactly if the log could not be opened.                                 *)
THEOREM ResultAlwaysMatches == TimeSpec => []ResultMatchesReturn
  <1>1. CreateInv => ResultMatchesReturn
    BY DEF CreateInv, ReturnedHolds, ResultMatchesReturn
  <1> QED BY <1>1, TimeSpecCreateInv, PTL

-----------------------------------------------------------------------------
(* The measurements of the overheads.                                      *)

ProbeFields == {"kind", "aperiodic", "pc", "exit_status", "held", "stats_ringbuf",
                "stats_log", "stopped", "stop_counter", "job_stats", "result"}

(* Where the loop of the thread has not begun, and where it has nothing to *)
(* release.                                                                *)
BeforeJobs == {"idle", "create", "lock", "sched", "measure", "tmpfile", "ringbuf", "clock"}
OfTask     == {"tmpfile", "ringbuf", "clock", "jobs", "save", "seek", "read", "calculate"}
HoldsNone  == {"idle", "create", "lock", "sched", "measure", "tmpfile", "ended", "returned"}

BothJobs == <<[t_begin |-> 1, t_end |-> 1], [t_begin |-> 2, t_end |-> 2]>>

ProbeRecord ==
    /\ DOMAIN probe = ProbeFields
    /\ probe.kind \in {"job", "task"}
    /\ probe.pc = "measure" => probe.kind = "job"
    /\ probe.pc \in OfTask => probe.kind = "task"
    /\ probe.pc \in HoldsNone => probe.held = {}

(* The ring has the records of the jobs that have been run so far, and of  *)
(* both when the loop ends.                                                *)
ProbeRing ==
    probe.pc \in BeforeJobs \cup {"jobs", "save"} =>
        /\ RingInv(probe.stats_ringbuf, FALSE)
        /\ probe.stats_ringbuf.slot_count = 2
        /\ probe.stats_ringbuf.write_count =
              IF probe.pc = "save" THEN 2 ELSE 1 - probe.stop_counter
        /\ probe.pc = "jobs" => probe.stop_counter \in {0, 1}
        /\ probe.pc \in BeforeJobs => probe.stop_counter = 1

(* What is read back from the log are the records of the two jobs, except  *)
(* where the file could not be read.                                       *)
ProbeLog ==
    /\ probe.pc \in {"seek", "read"} => probe.stats_log = BothJobs
    /\ probe.pc \in BeforeJobs \cup {"jobs", "save", "seek"} => probe.job_stats = <<>>
    /\ probe.pc = "read" =>
          \/ probe.job_stats = <<>>
          \/ \E x \in {BothJobs[1], NeverRead} : probe.job_stats = <<x>>
    /\ probe.pc = "calculate" =>
          \E x \in {BothJobs[1], NeverRead}, y \in {BothJobs[2], NeverRead} :
              probe.job_stats = <<x, y>>

ProbeMeasured ==
    \/ probe.kind = "job" /\ probe.result = <<1, 1>>
    \/ probe.kind = "task" /\ probe.result = <<1, 2, 1>>
    \/ \E j \in DOMAIN probe.job_stats : probe.job_stats[j] = NeverRead

ProbeResult ==
    /\ probe.pc \notin {"out", "ended", "returned", "crashed"} =>
          probe.exit_status = -2 /\ probe.result = <<>>
    /\ probe.pc \in {"out", "ended", "returned"} =>
          /\ probe.exit_status = 0 <=> probe.result # <<>>
          /\ probe.result # <<>> => ProbeMeasured

ProbeInv == ProbeRecord /\ ProbeRing /\ ProbeLog /\ ProbeResult

(* An error sends the thread to the label out, or ends it where tau is not *)
(* prepared yet.                                                           *)
LEMMA ProbeOutInv ==
    ASSUME ProbeInv, probe.pc \in OfTask, ProbeOut(-2)
    PROVE  ProbeInv'
  <1>1. /\ DOMAIN probe' = ProbeFields /\ probe'.pc = "out" /\ probe'.exit_status = -2
        /\ probe'.kind = probe.kind /\ probe'.result = probe.result
    BY DEF ProbeInv, ProbeRecord, ProbeOut, ProbeGoto, ProbeFields
  <1> QED BY <1>1 DEF ProbeInv, ProbeRecord, ProbeRing, ProbeLog, ProbeResult,
                      BeforeJobs, OfTask, HoldsNone

LEMMA ProbeEarlyOutInv ==
    ASSUME ProbeInv, probe.pc \in {"lock", "sched"}, NEW status \in {-1, -2},
           ProbeEarlyOut(status)
    PROVE  ProbeInv'
  <1>1. /\ DOMAIN probe' = ProbeFields /\ probe'.pc \in {"ended", "crashed"}
        /\ probe'.exit_status = status /\ probe'.kind = probe.kind
        /\ probe'.held = probe.held /\ probe'.result = probe.result
    BY DEF ProbeInv, ProbeRecord, ProbeEarlyOut, ProbeGoto, ProbeFields
  <1>2. ProbeRecord'
    BY <1>1 DEF ProbeInv, ProbeRecord, OfTask, HoldsNone
  <1>3. ProbeRing' /\ ProbeLog'
    BY <1>1 DEF ProbeRing, ProbeLog, BeforeJobs
  <1>4. ProbeResult'
    BY <1>1 DEF ProbeInv, ProbeResult
  <1> QED BY <1>2, <1>3, <1>4 DEF ProbeInv

(* A step that changes nothing but the place, towards the loop.            *)
LEMMA ProbeMovesInv ==
    ASSUME ProbeInv, NEW target, ProbeGoto(probe, target),
           \/ probe.pc = "create" /\ target \in {"lock", "returned"}
           \/ probe.pc = "lock"   /\ target = "sched"
           \/ probe.pc = "sched"  /\ target = IF probe.kind = "job" THEN "measure" ELSE "tmpfile"
           \/ probe.pc = "clock"  /\ target = "jobs"
           \/ probe.pc = "seek"   /\ target = "read"
    PROVE  ProbeInv'
  <1>1. /\ DOMAIN probe' = ProbeFields /\ probe'.pc = target
        /\ probe'.kind = probe.kind /\ probe'.exit_status = probe.exit_status
        /\ probe'.held = probe.held /\ probe'.stats_ringbuf = probe.stats_ringbuf
        /\ probe'.stats_log = probe.stats_log /\ probe'.stop_counter = probe.stop_counter
        /\ probe'.job_stats = probe.job_stats /\ probe'.result = probe.result
    BY DEF ProbeInv, ProbeRecord, ProbeGoto, ProbeFields
  <1>2. ProbeRecord'
    BY <1>1 DEF ProbeInv, ProbeRecord, OfTask, HoldsNone
  <1>3. ProbeRing'
    BY <1>1 DEF ProbeInv, ProbeRing, BeforeJobs
  <1>4. ProbeLog'
    BY <1>1 DEF ProbeInv, ProbeLog, BeforeJobs
  <1>5. ProbeResult'
    BY <1>1 DEF ProbeInv, ProbeResult
  <1> QED BY <1>2, <1>3, <1>4, <1>5 DEF ProbeInv

LEMMA BeforeJobsInv ==
    ASSUME ProbeInv, NEW ok \in BOOLEAN, NEW status \in {0, -1, -2},
           \/ CreateMeasurementThread(ok) \/ LockToCpu(ok) \/ EnterFifo(status)
           \/ GetReleaseTime(ok) \/ RewindLog(ok)
    PROVE  ProbeInv'
  <1>1. CASE CreateMeasurementThread(ok)
    BY <1>1, ProbeMovesInv DEF CreateMeasurementThread, ProbeAt
  <1>2. CASE LockToCpu(ok)
    BY <1>2, ProbeMovesInv, ProbeEarlyOutInv DEF LockToCpu, ProbeAt
  <1>3. CASE EnterFifo(status)
    BY <1>3, ProbeMovesInv, ProbeEarlyOutInv DEF EnterFifo, ProbeAt
  <1>4. CASE GetReleaseTime(ok)
    BY <1>4, ProbeMovesInv, ProbeOutInv DEF GetReleaseTime, ProbeAt, OfTask
  <1>5. CASE RewindLog(ok)
    BY <1>5, ProbeMovesInv, ProbeOutInv DEF RewindLog, ProbeAt, OfTask
  <1> QED BY <1>1, <1>2, <1>3, <1>4, <1>5

LEMMA MeasureJobInv ==
    ASSUME ProbeInv, NEW b \in BOOLEAN, NEW e \in BOOLEAN, MeasureJob(b, e)
    PROVE  ProbeInv'
  <1>1. /\ DOMAIN probe' = ProbeFields /\ probe'.pc = "ended" /\ probe'.kind = probe.kind
        /\ probe'.held = probe.held
        /\ \/ probe'.exit_status = 0  /\ probe'.result = <<1, 1>>
           \/ probe'.exit_status = -2 /\ probe'.result = probe.result
    BY DEF ProbeInv, ProbeRecord, MeasureJob, ProbeAt, ProbeGoto, ProbeFields
  <1>2. probe.pc = "measure"
    BY DEF MeasureJob, ProbeAt
  <1>3. ProbeRecord'
    BY <1>1, <1>2 DEF ProbeInv, ProbeRecord, OfTask, HoldsNone
  <1>4. ProbeRing' /\ ProbeLog'
    BY <1>1 DEF ProbeRing, ProbeLog, BeforeJobs
  <1>5. ProbeResult'
    BY <1>1, <1>2 DEF ProbeInv, ProbeRecord, ProbeResult, ProbeMeasured
  <1> QED BY <1>3, <1>4, <1>5 DEF ProbeInv

(* The temporary file and the ring, which out releases.                    *)
LEMMA CreateTmpfileInv ==
    ASSUME ProbeInv, NEW ok \in BOOLEAN, CreateTmpfile(ok) \/ CreateStatsRingbuf(ok)
    PROVE  ProbeInv'
  <1>1. CASE ok
    <2>1. /\ DOMAIN probe' = ProbeFields
          /\ probe.pc \in {"tmpfile", "ringbuf"} /\ probe'.pc \in {"ringbuf", "clock"}
          /\ probe'.kind = probe.kind /\ probe'.exit_status = probe.exit_status
          /\ probe'.stats_ringbuf = probe.stats_ringbuf
          /\ probe'.stop_counter = probe.stop_counter
          /\ probe'.job_stats = probe.job_stats /\ probe'.result = probe.result
      BY <1>1 DEF ProbeInv, ProbeRecord, CreateTmpfile, CreateStatsRingbuf, ProbeAt,
                  ProbeGoto, ProbeFields
    <2> QED BY <2>1 DEF ProbeInv, ProbeRecord, ProbeRing, ProbeLog, ProbeResult,
                        BeforeJobs, OfTask, HoldsNone
  <1>2. CASE ~ok
    BY <1>2, ProbeOutInv DEF CreateTmpfile, CreateStatsRingbuf, ProbeAt, OfTask
  <1> QED BY <1>1, <1>2

(* An iteration of the loop: job_start whole, by the lemmas on the ring.   *)
LEMMA RunProbingJobInv ==
    ASSUME ProbeInv, NEW s \in BOOLEAN, NEW b \in BOOLEAN, NEW e \in BOOLEAN,
           RunProbingJob(s, b, e)
    PROVE  ProbeInv'
  <1> DEFINE r  == probe.stats_ringbuf
             r1 == StampBegin(TakeSlot(r), SlotOf(r), b)
             r2 == StampEnd(r1, SlotOf(r), e)
  <1>1. /\ probe.pc = "jobs" /\ DOMAIN probe' = ProbeFields
        /\ probe'.pc = CASE ~(s /\ b /\ e) -> "out"
                         [] s /\ b /\ e /\ probe.stop_counter = 0 -> "save"
                         [] s /\ b /\ e /\ ~(probe.stop_counter = 0) -> "jobs"
        /\ probe'.kind = probe.kind /\ probe'.exit_status = probe.exit_status
        /\ probe'.stats_ringbuf = StampEnd(StampBegin(TakeSlot(r), SlotOf(r), b), SlotOf(r), e)
        /\ probe'.stop_counter = probe.stop_counter - 1
        /\ probe'.job_stats = probe.job_stats /\ probe'.result = probe.result
    BY DEF ProbeInv, ProbeRecord, RunProbingJob, ProbeAt, ProbeGoto, ProbeFields
  <1>2. probe'.stats_ringbuf = r2
    BY <1>1
  <1>3. /\ RingInv(r, FALSE) /\ r.slot_count = 2 /\ r.write_count = 1 - probe.stop_counter
        /\ probe.stop_counter \in {0, 1} /\ probe.kind = "task" /\ probe.job_stats = <<>>
        /\ probe.exit_status = -2 /\ probe.result = <<>>
    BY <1>1 DEF ProbeInv, ProbeRecord, ProbeRing, ProbeLog, ProbeResult, OfTask
  <1>4. /\ RingInv(r1, TRUE) /\ r1.slot_count = 2 /\ r1.write_count = r.write_count + 1
        /\ NewestSlot(r1) = SlotOf(r) /\ (b => Begun(r1))
    BY <1>3, BeginJobRing
  <1>5. /\ r2.slot_count = 2 /\ r2.write_count = r.write_count + 1
        /\ b /\ e => RingInv(r2, FALSE)
    <2> HIDE DEF r, r1
    <2>1. r1.write_count # 0
      BY <1>3, <1>4
    <2> QED BY <1>4, <2>1, EndJobRing
  <1> HIDE DEF r, r1, r2
  <1>6. CASE s /\ b /\ e
    <2>1. probe'.pc = IF probe.stop_counter = 0 THEN "save" ELSE "jobs"
      BY <1>1, <1>6
    <2>2. ProbeRecord' /\ ProbeLog' /\ ProbeResult'
      BY <1>1, <1>3, <2>1 DEF ProbeRecord, ProbeLog, ProbeResult, BeforeJobs, OfTask, HoldsNone
    <2>3. RingInv(r2, FALSE)
      BY <1>5, <1>6
    <2>4. r2.slot_count = 2
      BY <1>5
    <2>5. probe.stop_counter = 0 => r.write_count = 1
      BY <1>3
    <2>6. probe.stop_counter = 0 => r2.write_count = 2
      BY <1>5, <2>5
    <2>7. probe.stop_counter = 1 => r.write_count = 0
      BY <1>3
    <2>8. probe.stop_counter = 1 => r2.write_count = 1
      BY <1>5, <2>7
    <2>9. probe.stop_counter = 1 => probe'.stop_counter = 0
      BY <1>1
    <2>10. ProbeRing'
      <3>1. CASE probe.stop_counter = 0
        BY <1>2, <2>1, <2>3, <2>4, <2>6, <3>1 DEF ProbeRing, BeforeJobs
      <3>2. CASE probe.stop_counter = 1
        <4>1. probe'.pc = "jobs" /\ probe'.stop_counter = 0
          BY <2>1, <2>9, <3>2
        <4>2. r2.write_count = 1 - probe'.stop_counter
          BY <2>8, <3>2, <4>1
        <4> QED BY <1>2, <2>3, <2>4, <4>1, <4>2 DEF ProbeRing, BeforeJobs
      <3> QED BY <1>3, <3>1, <3>2
    <2> QED BY <2>2, <2>10 DEF ProbeInv
  <1>7. CASE ~(s /\ b /\ e)
    <2>1. probe'.pc = "out"
      BY <1>1, <1>7
    <2>2. ProbeRecord' /\ ProbeRing' /\ ProbeLog'
      BY <1>1, <1>3, <2>1 DEF ProbeRecord, ProbeRing, ProbeLog, BeforeJobs, OfTask, HoldsNone
    <2>3. ProbeResult'
      BY <1>1, <1>3, <2>1 DEF ProbeResult
    <2> QED BY <2>2, <2>3 DEF ProbeInv
  <1> QED BY <1>6, <1>7

(* The file gets the records of the two jobs.                              *)
LEMMA SaveRingbufInv ==
    ASSUME ProbeInv, NEW ok \in BOOLEAN, SaveRingbuf(ok)
    PROVE  ProbeInv'
  <1> DEFINE r == probe.stats_ringbuf
  <1>1. probe.pc = "save"
    BY DEF SaveRingbuf, ProbeAt
  <1>2. RingInv(r, FALSE) /\ r.slot_count = 2 /\ r.write_count = 2
    BY <1>1 DEF ProbeInv, ProbeRing, BeforeJobs
  <1>3. SavedRecords(r) = BothJobs
    <2> HIDE DEF r
    <2>1. CountersOf(r) /\ RingbufType(r)
      BY <1>2 DEF RingInv
    <2>2. ~r.overrun /\ jobstats_ringbuf_overrun(r) = FALSE
      BY <1>2, <2>1 DEF CountersOf, RingbufType, jobstats_ringbuf_overrun
    <2>3. jobstats_ringbuf_oldest_pos(r) = 1 /\ jobstats_ringbuf_lost_count(r) = 0
      BY <1>2, <2>2 DEF jobstats_ringbuf_oldest_pos, jobstats_ringbuf_lost_count
    <2>4. SavedRecords(r) \in Seq(Slot)
      BY <1>2, SavedRecordsAre
    <2>5. Len(SavedRecords(r)) = 2
      <3>1. Len(SavedRecords(r)) + jobstats_ringbuf_lost_count(r) = r.write_count
        BY <1>2, SaveAccountsForJobs
      <3> QED BY <1>2, <2>3, <2>4, <3>1
    <2>6. \A j \in 1..2 : SavedRecords(r)[j] = [t_begin |-> j, t_end |-> j]
      <3>1. \A j \in 1..2 : LET k == 1 + j - 1 IN SavedRecords(r)[j] = [t_begin |-> k, t_end |-> k]
        BY <1>2, <2>3, <2>5, SaveAccountsForJobs
      <3> QED BY <3>1
    <2> DEFINE q == SavedRecords(r)
    <2>7. q \in Seq(Slot) /\ Len(q) = 2 /\ q[1] = [t_begin |-> 1, t_end |-> 1]
          /\ q[2] = [t_begin |-> 2, t_end |-> 2]
      BY <2>4, <2>5, <2>6
    <2> HIDE DEF q
    <2>8. q = <<q[1], q[2]>>
      BY <2>7
    <2> QED BY <2>7, <2>8 DEF BothJobs, q
  <1>4. CASE ok
    <2>1. /\ DOMAIN probe' = ProbeFields /\ probe'.pc = "seek" /\ probe'.kind = probe.kind
          /\ probe'.exit_status = probe.exit_status /\ probe'.result = probe.result
          /\ probe'.job_stats = probe.job_stats /\ probe'.stats_log = SavedRecords(r)
      BY <1>4 DEF ProbeInv, ProbeRecord, SaveRingbuf, ProbeAt, ProbeGoto, ProbeFields
    <2> HIDE DEF r
    <2>2. probe'.stats_log = BothJobs
      BY <1>3, <2>1
    <2> QED BY <1>1, <2>1, <2>2 DEF ProbeInv, ProbeRecord, ProbeRing, ProbeLog, ProbeResult,
                                    BeforeJobs, OfTask, HoldsNone
  <1>5. CASE ~ok
    BY <1>1, <1>5, ProbeOutInv DEF SaveRingbuf, OfTask
  <1> QED BY <1>4, <1>5

(* The sequence of two readings.                                           *)
LEMMA TwoReadings ==
    ASSUME NEW x, NEW y
    PROVE  Append(<<y>>, x) = <<y, x>>
  <1> DEFINE S == {x, y}
             q == <<y>>
             p == <<y, x>>
  <1>1. q \in Seq(S) /\ Len(q) = 1 /\ q[1] = y
    OBVIOUS
  <1>2. p \in Seq(S) /\ Len(p) = 2 /\ p[1] = y /\ p[2] = x
    OBVIOUS
  <1>3. x \in S
    OBVIOUS
  <1> HIDE DEF S, p, q
  <1>4. /\ q \in Seq(S) /\ p \in Seq(S) /\ Len(p) = Len(q) + 1
        /\ p[Len(q) + 1] = x /\ \A j \in 1..Len(q) : p[j] = q[j]
    BY <1>1, <1>2
  <1>5. p = Append(q, x)
    BY <1>3, <1>4, AppendIs
  <1> QED BY <1>5 DEF p, q

(* job_statistics_read returns the next record, or what it takes for one.  *)
LEMMA ReadJobStatisticsInv ==
    ASSUME ProbeInv, NEW ok \in BOOLEAN, ReadJobStatistics(ok)
    PROVE  ProbeInv'
  <1> DEFINE js  == probe.job_stats
             nth == Len(js) + 1
             x   == IF ok THEN probe.stats_log[nth] ELSE NeverRead
  <1>1. probe.pc = "read" /\ probe.stats_log = BothJobs
    BY DEF ReadJobStatistics, ProbeAt, ProbeInv, ProbeLog
  <1>2. CASE ok /\ nth > Len(probe.stats_log)
    BY <1>1, <1>2, ProbeOutInv DEF ReadJobStatistics, OfTask
  <1>3. CASE ~(ok /\ nth > Len(probe.stats_log))
    <2>1. /\ DOMAIN probe' = ProbeFields /\ probe'.pc = (IF nth = 2 THEN "calculate" ELSE "read")
          /\ probe'.kind = probe.kind
          /\ probe'.exit_status = probe.exit_status /\ probe'.result = probe.result
          /\ probe'.job_stats = Append(js, x) /\ probe'.stats_log = probe.stats_log
      BY <1>3 DEF ProbeInv, ProbeRecord, ReadJobStatistics, ProbeAt, ProbeGoto, ProbeFields
    <2>2. probe.kind = "task" /\ probe.exit_status = -2 /\ probe.result = <<>>
      BY <1>1 DEF ProbeInv, ProbeRecord, ProbeResult, OfTask
    <2>3. \/ js = <<>> \/ \E y \in {BothJobs[1], NeverRead} : js = <<y>>
      BY <1>1 DEF ProbeInv, ProbeLog
    <2>4. \/ probe'.pc = "read" /\ x \in {BothJobs[1], NeverRead} /\ Append(js, x) = <<x>>
          \/ /\ probe'.pc = "calculate" /\ x \in {BothJobs[2], NeverRead}
             /\ \E y \in {BothJobs[1], NeverRead} : Append(js, x) = <<y, x>>
      <3>1. CASE js = <<>>
        BY <1>1, <2>1, <3>1
      <3>2. ASSUME NEW y \in {BothJobs[1], NeverRead}, js = <<y>>
            PROVE  /\ probe'.pc = "calculate" /\ x \in {BothJobs[2], NeverRead}
                   /\ Append(js, x) = <<y, x>>
        <4>1. nth = 2 /\ Append(js, x) = <<y, x>>
          <5> HIDE DEF x, js
          <5>1. Len(js) = 1
            BY <3>2
          <5>2. Append(js, x) = <<y, x>>
            BY <3>2, TwoReadings
          <5> QED BY <5>1, <5>2
        <4> QED BY <1>1, <2>1, <4>1
      <3> QED BY <2>3, <3>1, <3>2
    <2> HIDE DEF x, js, nth
    <2>5. ProbeRecord' /\ ProbeRing' /\ ProbeResult'
      BY <2>1, <2>2, <2>4 DEF ProbeRecord, ProbeRing, ProbeResult, BeforeJobs, OfTask, HoldsNone
    <2>6. ProbeLog'
      BY <1>1, <2>1, <2>4 DEF ProbeLog, BeforeJobs
    <2> QED BY <2>5, <2>6 DEF ProbeInv
  <1> QED BY <1>2, <1>3

(* The difference is of the readings it should be of.                      *)
LEMMA CalculateOverheadInv ==
    ASSUME ProbeInv, CalculateOverhead
    PROVE  ProbeInv'
  <1> DEFINE js == probe.job_stats
  <1>1. /\ probe.pc = "calculate"
        /\ DOMAIN probe' = ProbeFields /\ probe'.pc = "out" /\ probe'.kind = probe.kind
        /\ probe'.exit_status = 0 /\ probe'.job_stats = js
        /\ probe'.result = <<js[1].t_begin, js[2].t_begin, js[1].t_end>>
    BY DEF ProbeInv, ProbeRecord, CalculateOverhead, ProbeAt, ProbeGoto, ProbeFields
  <1>2. probe.kind = "task"
    BY <1>1 DEF ProbeInv, ProbeRecord, OfTask
  <1>3. PICK x \in {BothJobs[1], NeverRead}, y \in {BothJobs[2], NeverRead} : js = <<x, y>>
    BY <1>1 DEF ProbeInv, ProbeLog
  <1>4. ProbeMeasured'
    <2>1. CASE x = BothJobs[1] /\ y = BothJobs[2]
      BY <1>1, <1>2, <1>3, <2>1 DEF ProbeMeasured, BothJobs
    <2>2. CASE x = NeverRead
      <3>1. 1 \in DOMAIN probe'.job_stats /\ probe'.job_stats[1] = NeverRead
        BY <1>1, <1>3, <2>2
      <3> QED BY <3>1 DEF ProbeMeasured
    <2>3. CASE y = NeverRead
      <3>1. 2 \in DOMAIN probe'.job_stats /\ probe'.job_stats[2] = NeverRead
        BY <1>1, <1>3, <2>3
      <3> QED BY <3>1 DEF ProbeMeasured
    <2> QED BY <2>1, <2>2, <2>3
  <1>5. probe'.result # <<>>
    BY <1>1
  <1> QED BY <1>1, <1>2, <1>4, <1>5 DEF ProbeInv, ProbeRecord, ProbeRing, ProbeLog, ProbeResult,
                                        BeforeJobs, OfTask, HoldsNone

LEMMA CleanUpProbeInv ==
    ASSUME ProbeInv, CleanUpProbe
    PROVE  ProbeInv'
  <1>1. /\ probe.pc = "out"
        /\ DOMAIN probe' = ProbeFields /\ probe'.pc = "ended" /\ probe'.kind = probe.kind
        /\ probe'.held = {} /\ probe'.exit_status = probe.exit_status
        /\ probe'.job_stats = probe.job_stats /\ probe'.result = probe.result
    BY DEF ProbeInv, ProbeRecord, CleanUpProbe, ProbeAt, ProbeGoto, ProbeFields
  <1>2. ProbeRecord'
    BY <1>1 DEF ProbeInv, ProbeRecord, OfTask, HoldsNone
  <1>3. ProbeRing' /\ ProbeLog'
    BY <1>1 DEF ProbeRing, ProbeLog, BeforeJobs
  <1>4. ProbeResult'
    BY <1>1 DEF ProbeInv, ProbeResult, ProbeMeasured
  <1> QED BY <1>2, <1>3, <1>4 DEF ProbeInv

LEMMA JoinMeasurementThreadInv ==
    ASSUME ProbeInv, NEW ok \in BOOLEAN, JoinMeasurementThread(ok)
    PROVE  ProbeInv'
  <1>1. /\ probe.pc = "ended"
        /\ DOMAIN probe' = ProbeFields /\ probe'.pc = "returned" /\ probe'.kind = probe.kind
        /\ probe'.held = probe.held /\ probe'.job_stats = probe.job_stats
        /\ probe'.exit_status = (IF ok THEN probe.exit_status ELSE -2)
        /\ probe'.result = (IF ok /\ probe.exit_status = 0 THEN probe.result ELSE <<>>)
    BY DEF ProbeInv, ProbeRecord, JoinMeasurementThread, ProbeAt, ProbeGoto, ProbeFields
  <1>2. ProbeRecord'
    BY <1>1 DEF ProbeInv, ProbeRecord, OfTask, HoldsNone
  <1>3. ProbeRing' /\ ProbeLog'
    BY <1>1 DEF ProbeRing, ProbeLog, BeforeJobs
  <1>4. ProbeResult'
    BY <1>1 DEF ProbeInv, ProbeResult, ProbeMeasured
  <1> QED BY <1>2, <1>3, <1>4 DEF ProbeInv

LEMMA ProbeStepInv ==
    ASSUME ProbeInv, Probe
    PROVE  ProbeInv'
  <1>1. CASE CalculateOverhead \/ CleanUpProbe
    BY <1>1, CalculateOverheadInv, CleanUpProbeInv
  <1>2. ASSUME NEW ok \in BOOLEAN,
               \/ CreateMeasurementThread(ok) \/ LockToCpu(ok) \/ CreateTmpfile(ok)
               \/ CreateStatsRingbuf(ok) \/ GetReleaseTime(ok) \/ SaveRingbuf(ok)
               \/ RewindLog(ok) \/ ReadJobStatistics(ok) \/ JoinMeasurementThread(ok)
        PROVE  ProbeInv'
    <2>1. 0 \in {0, -1, -2}
      OBVIOUS
    <2> QED BY <1>2, <2>1, BeforeJobsInv, CreateTmpfileInv, SaveRingbufInv,
               ReadJobStatisticsInv, JoinMeasurementThreadInv
  <1>3. ASSUME NEW status \in {0, -1, -2}, EnterFifo(status)
        PROVE  ProbeInv'
    <2>1. TRUE \in BOOLEAN
      OBVIOUS
    <2> QED BY <1>3, <2>1, BeforeJobsInv
  <1>4. ASSUME NEW b \in BOOLEAN, NEW e \in BOOLEAN, MeasureJob(b, e)
        PROVE  ProbeInv'
    BY <1>4, MeasureJobInv
  <1>5. ASSUME NEW b \in BOOLEAN, NEW e \in BOOLEAN, NEW s \in BOOLEAN, RunProbingJob(s, b, e)
        PROVE  ProbeInv'
    BY <1>5, RunProbingJobInv
  <1> QED BY <1>1, <1>2, <1>3, <1>4, <1>5 DEF Probe

(* A measurement that has not begun.                                       *)
LEMMA ProbingRing ==
    LET r == jobstats_ringbuf_create(2, FALSE)
    IN RingInv(r, FALSE) /\ r.write_count = 0 /\ r.slot_count = 2
  <1>1. 2 \in Nat /\ 2 # 0
    OBVIOUS
  <1>2. FALSE \in BOOLEAN
    OBVIOUS
  <1> QED BY <1>1, <1>2, CreatedRing, Zenon

LEMMA NewProbeInv ==
    ASSUME NEW kind \in {"job", "task"}, NEW aperiodic,
           probe' = NewProbe(kind, aperiodic) \/ probe' = IdleProbe
    PROVE  ProbeInv'
  <1> DEFINE r == jobstats_ringbuf_create(2, FALSE)
  <1>1. /\ DOMAIN probe' = ProbeFields /\ probe'.pc \in {"create", "idle"}
        /\ probe'.kind \in {"job", "task"} /\ probe'.exit_status = -2
        /\ probe'.held = {} /\ probe'.stop_counter = 1 /\ probe'.stats_ringbuf = r
        /\ probe'.job_stats = <<>> /\ probe'.result = <<>>
    <2>1. CASE probe' = NewProbe(kind, aperiodic)
      BY <2>1 DEF NewProbe, ProbeFields
    <2>2. CASE probe' = IdleProbe
      BY <2>2 DEF NewProbe, IdleProbe, ProbeFields
    <2> QED BY <2>1, <2>2
  <1>2. RingInv(r, FALSE) /\ r.write_count = 0 /\ r.slot_count = 2
    BY ProbingRing
  <1> HIDE DEF r
  <1>3. ProbeRecord' /\ ProbeLog' /\ ProbeResult'
    BY <1>1 DEF ProbeRecord, ProbeLog, ProbeResult, BeforeJobs, OfTask, HoldsNone
  <1>4. r.write_count = 1 - probe'.stop_counter
    BY <1>1, <1>2
  <1>5. ProbeRing'
    BY <1>1, <1>2, <1>4 DEF ProbeRing, BeforeJobs
  <1> QED BY <1>3, <1>5 DEF ProbeInv

(* The measurements a program has made are each begun anew.                *)
LEMMA TimeNextProbe ==
    ASSUME [TimeNext]_timeVars
    PROVE  \/ Probe \/ UNCHANGED probe \/ probe' = IdleProbe
           \/ \E kind \in {"job", "task"}, aperiodic \in BOOLEAN :
                 probe' = NewProbe(kind, aperiodic)
  <1>1. ASSUME NEW ok \in BOOLEAN, TryStep(ok) \/ CallTakingOver(ok) \/ JoinThreads(ok)
        PROVE  UNCHANGED probe
    BY <1>1 DEF TryStep, CallTakingOver, JoinThreads, otherUnchanged
  <1>2. CASE BeginMeasurement("job", FALSE)
    BY <1>2 DEF BeginMeasurement
  <1>3. ASSUME NEW aperiodic \in BOOLEAN, BeginMeasurement("task", aperiodic)
        PROVE  \E a \in BOOLEAN : probe' = NewProbe("task", a)
    BY <1>3 DEF BeginMeasurement
  <1>4. CASE RunMeasurement \/ EndMeasurement
    BY <1>4 DEF RunMeasurement, EndMeasurement
  <1>5. ASSUME NEW args \in threads, NEW ok \in BOOLEAN, ThreadEnters(args, ok)
        PROVE  UNCHANGED probe
    BY <1>5 DEF ThreadEnters
  <1>6. CASE \/ DeclareStatic \/ MakeDyn \/ MakeDynGc \/ UseOperands \/ CollectOperands
             \/ SetManual \/ Free \/ SpawnThread
    BY <1>6 DEF DeclareStatic, MakeDyn, MakeDynGc, UseOperands, CollectOperands, SetManual,
                Free, SpawnThread, otherUnchanged
  <1>7. CASE TakeArguments \/ CreateTaskObject \/ TaskCreateReturns
    BY <1>7 DEF TakeArguments, CreateTaskObject, TaskCreateReturns
  <1>8. CASE UNCHANGED timeVars
    BY <1>8 DEF timeVars
  <1> QED BY <1>1, <1>2, <1>3, <1>4, <1>5, <1>6, <1>7, <1>8 DEF TimeNext

LEMMA TimeSpecProbeInv == TimeSpec => []ProbeInv
  <1>1. TimeInit => ProbeInv
    <2> SUFFICES ASSUME TimeInit PROVE ProbeInv
      OBVIOUS
    <2> DEFINE r == jobstats_ringbuf_create(2, FALSE)
    <2>1. /\ DOMAIN probe = ProbeFields /\ probe.pc = "idle" /\ probe.kind = "job"
          /\ probe.exit_status = -2 /\ probe.held = {} /\ probe.stop_counter = 1
          /\ probe.stats_ringbuf = r /\ probe.job_stats = <<>> /\ probe.result = <<>>
      BY DEF TimeInit, IdleProbe, NewProbe, ProbeFields
    <2>2. RingInv(r, FALSE) /\ r.write_count = 0 /\ r.slot_count = 2
      BY ProbingRing
    <2> HIDE DEF r
    <2>3. ProbeRecord /\ ProbeLog /\ ProbeResult
      BY <2>1 DEF ProbeRecord, ProbeLog, ProbeResult, BeforeJobs, OfTask, HoldsNone
    <2>4. r.write_count = 1 - probe.stop_counter
      BY <2>1, <2>2
    <2>5. ProbeRing
      BY <2>1, <2>2, <2>4 DEF ProbeRing, BeforeJobs
    <2> QED BY <2>3, <2>5 DEF ProbeInv
  <1>2. ProbeInv /\ [TimeNext]_timeVars => ProbeInv'
    <2> SUFFICES ASSUME ProbeInv, [TimeNext]_timeVars PROVE ProbeInv'
      OBVIOUS
    <2>1. CASE Probe
      BY <2>1, ProbeStepInv
    <2>2. CASE UNCHANGED probe
      BY <2>2, ZenonT(60) DEF ProbeInv, ProbeRecord, ProbeRing, ProbeLog, ProbeResult, ProbeMeasured
    <2>3. CASE probe' = IdleProbe
      <3>1. "job" \in {"job", "task"}
        OBVIOUS
      <3> QED BY <2>3, <3>1, NewProbeInv
    <2>4. ASSUME NEW kind \in {"job", "task"}, NEW aperiodic \in BOOLEAN,
                 probe' = NewProbe(kind, aperiodic)
          PROVE  ProbeInv'
      BY <2>4, NewProbeInv
    <2> QED BY <2>1, <2>2, <2>3, <2>4, TimeNextProbe
  <1> QED BY <1>1, <1>2, PTL DEF TimeSpec

(* A measurement that succeeds has taken the difference of the readings it *)
(* says, unless the temporary file could not be read, and hands out a      *)
(* result exactly then; whatever fails, nothing is left behind.            *)
THEOREM OverheadAlwaysMeasured == TimeSpec => []OverheadIsMeasured
  <1>1. ProbeInv => OverheadIsMeasured
    BY DEF ProbeInv, ProbeRecord, ProbeResult, ProbeMeasured, OverheadIsMeasured, HoldsNone
  <1> QED BY <1>1, TimeSpecProbeInv, PTL

=============================================================================
