--------------------------- MODULE ExperimentsProof --------------------------
(***************************************************************************)
(* What the main programs of the experiments keep.                         *)
(*                                                                         *)
(* The three experiments on one processor, for all programs, however early *)
(* their busy loops end and whatever fails: the order in which the manager *)
(* creates, stops, joins and destroys its tasks, and priority inheritance. *)
(*                                                                         *)
(* The driver of bwi-client_server, for configuration files of any length  *)
(* and order, whatever fails and whenever SIGINT arrives: the options it   *)
(* completes, the signals it sends, and that nobody survives it.           *)
(***************************************************************************)
EXTENDS Uniprocessor, BwiDriver, SequenceTheorems, FiniteSetTheorems, WellFoundedInduction, TLAPS

(* The sets of tasks.                                                      *)
LEMMA SetIs ==
    program \in AllPrograms =>
        /\ LastTask \in {3, 4} /\ Tasks = 1..LastTask
        /\ \A t \in Tasks : /\ Set[t].period \in Nat /\ Set[t].offset \in Nat
                            /\ Len(Set[t].program) \in {1, 5}
                            /\ \A i \in 1..Len(Set[t].program) :
                                  /\ Set[t].program[i].op \in {"busy", "lock", "unlock"}
                                  /\ Set[t].program[i].n \in Nat
<1>1. CASE program = "rate_monotonic"
  BY <1>1 DEF LastTask, Tasks, Set, RateMonotonicTasks, Periodic, Busy
<1>2. CASE program = "earliest_deadline_first"
  BY <1>2 DEF LastTask, Tasks, Set, EarliestDeadlineFirstTasks, Periodic, Busy
<1>3. CASE program \in {"inversion", "inheritance"}
  <2>1. Set = PriorityInversionTasks
    BY <1>3 DEF Set
  <2>2. LastTask = 3 /\ Tasks = 1..3
    BY <2>1 DEF LastTask, Tasks, PriorityInversionTasks
  <2>3. \A t \in 1..3 : Set[t].period = 0 /\ Set[t].offset \in Nat
    BY <2>1 DEF PriorityInversionTasks
  <2>4. /\ Set[1].program = <<Busy(1), Lock, Busy(1), Unlock, Busy(1)>>
        /\ Set[2].program = <<Busy(50)>>
        /\ Set[3].program = <<Busy(1), Lock, Busy(3), Unlock, Busy(1)>>
    BY <2>1 DEF PriorityInversionTasks
  <2>5. \A k \in Nat : /\ Busy(k).op = "busy" /\ Busy(k).n = k
                        /\ Lock.op = "lock" /\ Lock.n = 0
                        /\ Unlock.op = "unlock" /\ Unlock.n = 0
    BY DEF Busy, Lock, Unlock
  <2>6. Len(Set[1].program) = 5 /\ Len(Set[2].program) = 1 /\ Len(Set[3].program) = 5
    BY <2>4
  <2>7. ASSUME NEW t \in 1..3, NEW i \in 1..Len(Set[t].program)
        PROVE  /\ Set[t].program[i].op \in {"busy", "lock", "unlock"}
               /\ Set[t].program[i].n \in Nat
    <3>1. CASE t = 1
      <4>1. PICK p : p = Set[1].program /\ p = <<Busy(1), Lock, Busy(1), Unlock, Busy(1)>>
        BY <2>4
      <4>2. i \in 1..5
        BY <2>6, <3>1
      <4>3. p[i] \in {Busy(1), Lock, Unlock}
        BY <4>1, <4>2
      <4> QED BY <2>5, <3>1, <4>1, <4>3
    <3>2. CASE t = 2
      BY <2>4, <2>5, <2>6, <3>2
    <3>3. CASE t = 3
      BY <2>4, <2>5, <2>6, <3>3, SMTT(30)
    <3> QED BY <3>1, <3>2, <3>3
  <2> QED BY <2>2, <2>3, <2>6, <2>7
<1> QED BY <1>1, <1>2, <1>3 DEF AllPrograms

(* In priority_inversion_in_RM tau_1 and tau_3 lock R1 in their second     *)
(* step and unlock it in their fourth.                                     *)
LEMMA InversionSetIs ==
    program \in {"inversion", "inheritance"} =>
        /\ LastTask = 3 /\ Tasks = 1..3 /\ Fifo
        /\ Len(Set[2].program) = 1 /\ Set[2].program[1].op = "busy"
        /\ \A t \in {1, 3} :
              /\ Len(Set[t].program) = 5
              /\ \A i \in 1..5 : Set[t].program[i].op = CASE i = 2 -> "lock"
                                                           [] i = 4 -> "unlock"
                                                           [] OTHER -> "busy"
  BY DEF LastTask, Tasks, Fifo, Set, PriorityInversionTasks, Busy, Lock, Unlock

LEMMA SameSet ==
    UNCHANGED program => /\ Set' = Set /\ Tasks' = Tasks /\ LastTask' = LastTask
                         /\ Fifo' = Fifo /\ RunTime' = RunTime
  BY DEF Set, Tasks, LastTask, Fifo, RunTime

-----------------------------------------------------------------------------
AllStopped(k) == \A t \in Tasks : t < k => thread[t].stopped
AllEnded(k)   == \A t \in Tasks : t < k => thread[t].pc = "ended"

(* Past the creation of the tasks, and before their destruction.           *)
Managing == {"create", "sleep", "stop", "poll", "join", "check"}

(* The manager has all tasks, and at its place the maximum priority, until *)
(* it destroys them; without the maximum priority there are no threads.    *)
ManagerInv ==
    /\ manager.pc \in Managing \cup {"max"} => objs = LastTask /\ manager.at \in 1..LastTask
    /\ manager.pc \in Managing => manager.max = Fifo
    /\ manager.pc \in {"setup", "max"} => ~manager.max
    /\ Fifo /\ ~manager.max => \A t \in Tasks : thread[t].pc = "none"
    /\ manager.pc \in {"setup", "max", "exited", "crashed"} => \A t \in Tasks : thread[t].pc = "none"

(* New threads keep the priority of the manager until each of them has     *)
(* given it up: none runs its task before all of them have.                *)
NewInv ==
    /\ Fifo /\ manager.pc = "create" => \A t \in Tasks : thread[t].pc \in {"none", "new"}
    /\ Fifo => \A t, u \in Tasks : thread[t].pc = "new" => thread[u].pc \in {"none", "new", "start", "ended"}

(* What the manager knows of the threads that it has stopped and joined.   *)
StopInv ==
    /\ manager.pc = "stop" => AllStopped(manager.at)
    /\ manager.pc \in {"join", "check"} => AllStopped(LastTask + 1)
    /\ manager.pc = "join" => AllEnded(manager.at)
    /\ manager.pc = "check" => AllEnded(LastTask + 1)
    /\ manager.exit_code = "success" =>
          /\ manager.pc \in {"destroy", "exited"}
          /\ \A t \in Tasks : thread[t].rc = 0
          /\ manager.pc = "destroy" => AllStopped(LastTask + 1) /\ AllEnded(LastTask + 1)

(* Who has locked R1 is between its lock and its unlock and can run, and   *)
(* only who is at its lock waits.                                          *)
RunsWithin == \A t \in Tasks : thread[t].pc \in {"run", "blocked"} =>
                  thread[t].at \in 1..Len(Set[t].program)
HoldsR1 == R1 # 0 => R1 \in {1, 3} /\ thread[R1].pc = "run" /\ thread[R1].at \in {3, 4}
WaitsForR1 == \A t \in Tasks : thread[t].pc = "blocked" => t \in {1, 3} /\ thread[t].at = 2 /\ R1 # 0

R1Inv == program \in {"inversion", "inheritance"} => RunsWithin /\ HoldsR1 /\ WaitsForR1

IInv == TypeOK /\ ManagerInv /\ NewInv /\ StopInv /\ R1Inv

-----------------------------------------------------------------------------
(* What the types say.                                                     *)
ThreadFields == {"pc", "at", "left", "rc", "stopped"}

LEMMA TypesAre ==
    TypeOK => /\ program \in AllPrograms
              /\ LastTask \in {3, 4} /\ Tasks = 1..LastTask
              /\ DOMAIN thread = Tasks /\ \A t \in Tasks : DOMAIN thread[t] = ThreadFields
              /\ DOMAIN manager = {"pc", "at", "max", "exit_code"} /\ manager.at \in 0..LastTask
  BY UniprocessorAssumption, SetIs DEF TypeOK, ThreadFields

(* SCHED_FIFO ranks new threads above all others, but below the manager.   *)
LEMMA RanksAre ==
    ASSUME TypeOK, Fifo, NEW t \in Tasks
    PROVE  /\ Rank(t) \in Int
           /\ thread[t].pc = "new" => Rank(t) = 1
           /\ thread[t].pc # "new" => Rank(t) >= 2
           /\ thread[t].pc # "new" /\ R1 # t => Rank(t) = 1 + t
<1> DEFINE waiting == {u \in Tasks : thread[u].pc = "blocked"}
<1>1. LastTask \in {3, 4} /\ Tasks = 1..LastTask
  BY TypesAre
<1>2. ASSUME waiting # {}
      PROVE  (CHOOSE u \in waiting : \A v \in waiting : u <= v) \in waiting
  <2>1. waiting \subseteq {1, 2, 3, 4}
    BY <1>1
  <2> HIDE DEF waiting
  <2>2. \E u \in waiting : \A v \in waiting : u <= v
    <3>1. CASE 1 \in waiting
      BY <2>1, <3>1
    <3>2. CASE 1 \notin waiting /\ 2 \in waiting
      BY <2>1, <3>2
    <3>3. CASE 1 \notin waiting /\ 2 \notin waiting /\ 3 \in waiting
      BY <2>1, <3>3
    <3>4. CASE 1 \notin waiting /\ 2 \notin waiting /\ 3 \notin waiting
      <4>1. waiting = {4}
        BY <1>2, <2>1, <3>4
      <4> QED BY <4>1
    <3> QED BY <3>1, <3>2, <3>3, <3>4
  <2> QED BY <2>2
<1>3. Rank(t) = FifoRank(t)
  BY DEF Rank
<1>4. waiting \subseteq Tasks
  OBVIOUS
<1>5. CASE thread[t].pc = "new"
  BY <1>3, <1>5 DEF FifoRank
<1>6. CASE thread[t].pc # "new" /\ program = "inheritance" /\ R1 = t /\ \E u \in waiting : u < t
  <2>1. Rank(t) = 1 + (CHOOSE u \in waiting : \A v \in waiting : u <= v)
    BY <1>3, <1>6 DEF FifoRank
  <2> HIDE DEF waiting
  <2>2. PICK m \in waiting : Rank(t) = 1 + m
    BY <1>2, <1>6, <2>1
  <2> QED BY <1>1, <1>4, <1>6, <2>2
<1>7. CASE ~(thread[t].pc = "new") /\ ~(program = "inheritance" /\ R1 = t /\ \E u \in waiting : u < t)
  <2>1. Rank(t) = 1 + t
    BY <1>3, <1>7 DEF FifoRank
  <2> QED BY <1>1, <1>7, <2>1
<1> QED BY <1>5, <1>6, <1>7

(* So nothing runs while the manager can, and who runs its task does so    *)
(* when no thread is new any more.                                         *)
LEMMA WhoRuns ==
    ASSUME TypeOK, NEW t \in Tasks, Runs(t), Fifo
    PROVE  /\ ~(ManagerReady /\ manager.max)
           /\ thread[t].pc # "new" => \A u \in Tasks : thread[u].pc # "new"
<1>1. \A u \in Tasks : /\ Rank(u) \in Int
                       /\ thread[u].pc = "new" => Rank(u) = 1
                       /\ thread[u].pc # "new" => Rank(u) >= 2
  BY RanksAre
<1>2. ASSUME ManagerReady, manager.max
      PROVE  FALSE
  <2>1. Rank(t) <= 0
    BY <1>2 DEF Runs, ManagerRank
  <2>2. Rank(t) = 1 \/ Rank(t) >= 2
    BY <1>1
  <2> QED BY <1>1, <2>1, <2>2
<1>3. ASSUME thread[t].pc # "new", NEW u \in Tasks, thread[u].pc = "new"
      PROVE  FALSE
  <2>1. Rank(t) <= Rank(u)
    BY <1>3 DEF Runs, Ready
  <2> QED BY <1>1, <1>3, <2>1
<1> QED BY <1>2, <1>3

(* What the threads do leaves the manager and its tasks alone, and whoever *)
(* has not been created or has ended.                                      *)
ThreadsGoOn ==
    /\ UNCHANGED <<program, manager, objs>>
    /\ \A u \in Tasks :
          /\ thread'[u].stopped = thread[u].stopped
          /\ thread[u].pc \in {"none", "ended"} => thread'[u].pc = thread[u].pc /\ thread'[u].rc = thread[u].rc
          /\ thread[u].pc # "none" => thread'[u].pc # "none"
          /\ thread'[u].pc = "new" => thread[u].pc = "new"

LEMMA ThreadsOnly ==
    TypeOK /\ (Tick \/ \E t \in Tasks : Thread(t)) => ThreadsGoOn
<1> SUFFICES ASSUME TypeOK, Tick \/ \E t \in Tasks : Thread(t) PROVE ThreadsGoOn
  OBVIOUS
<1> USE TypesAre DEF ThreadsGoOn, ThreadFields
<1>1. CASE Tick
  BY <1>1 DEF Tick, Runs, Ready
<1>2. ASSUME NEW t \in Tasks, NEW ok \in BOOLEAN, EnterScheduler(t, ok)
      PROVE  ThreadsGoOn
  BY <1>2 DEF EnterScheduler, othersUnchanged
<1>3. ASSUME NEW t \in Tasks, Start(t)
      PROVE  ThreadsGoOn
  BY <1>3 DEF Start, othersUnchanged
<1>4. ASSUME NEW t \in Tasks, Release(t)
      PROVE  ThreadsGoOn
  <2>1. PICK n : thread' = [thread EXCEPT ![t].pc = "run", ![t].at = 1, ![t].left = n]
    BY <1>4 DEF Release
  <2> QED BY <1>4, <2>1 DEF Release, Due, othersUnchanged
<1>5. ASSUME NEW t \in Tasks, DoneBusy(t)
      PROVE  ThreadsGoOn
  BY <1>5 DEF DoneBusy, Advance, AtStep, othersUnchanged
<1>6. ASSUME NEW t \in Tasks, LockR1(t)
      PROVE  ThreadsGoOn
  <2>1. CASE Advance(t)
    <3>1. thread[t].pc = "run" /\ UNCHANGED <<program, manager, objs>>
      BY <1>6 DEF LockR1, AtStep, othersUnchanged
    <3> QED BY <2>1, <3>1 DEF Advance
  <2>2. CASE thread' = [thread EXCEPT ![t].pc = "blocked"]
    BY <1>6, <2>2 DEF LockR1, AtStep, othersUnchanged
  <2> QED BY <1>6, <2>1, <2>2 DEF LockR1
<1>7. ASSUME NEW t \in Tasks, UnlockR1(t)
      PROVE  ThreadsGoOn
  BY <1>7 DEF UnlockR1, AtStep, othersUnchanged
<1>8. ASSUME NEW t \in Tasks, NEW ok \in BOOLEAN, EndJob(t, ok)
      PROVE  ThreadsGoOn
  BY <1>8 DEF EndJob, AtStep, othersUnchanged
<1> QED BY <1>1, <1>2, <1>3, <1>4, <1>5, <1>6, <1>7, <1>8 DEF Thread

(* Where the manager goes.                                                 *)
LEMMA ManagerGoes ==
    ASSUME TypeOK, NEW p
    PROVE  /\ Goto(p) => /\ manager'.pc = p /\ manager'.at = 1
                         /\ manager'.max = manager.max /\ manager'.exit_code = manager.exit_code
           /\ GotoError => /\ manager'.pc = "destroy" /\ manager'.at = 0
                           /\ manager'.max = manager.max /\ manager'.exit_code = manager.exit_code
           /\ Following(p) => /\ IF manager.at < LastTask THEN manager'.pc = manager.pc /\ manager'.at = manager.at + 1
                                                      ELSE manager'.pc = p /\ manager'.at = 1
                              /\ manager'.max = manager.max /\ manager'.exit_code = manager.exit_code
  BY TypesAre DEF Goto, GotoError, Following

(* The manager has the maximum priority as long as it looks after threads, *)
(* and stops its tasks one after the other.                                *)
LEMMA BecomeManagerIs ==
    ASSUME TypeOK, NEW ok \in BOOLEAN, BecomeManager(ok)
    PROVE  /\ manager.pc = "max" /\ UNCHANGED <<program, objs, thread>>
           /\ manager'.exit_code = manager.exit_code
           /\ \/ manager'.pc = "create" /\ manager'.at = 1 /\ manager'.max = Fifo
              \/ manager'.pc = "destroy" /\ manager'.max = manager.max
<1>1. CASE ok
  BY <1>1, TypesAre DEF BecomeManager
<1>2. CASE ~ok
  BY <1>2, ManagerGoes DEF BecomeManager
<1> QED BY <1>1, <1>2

LEMMA StopTaskIs ==
    ASSUME TypeOK, StopTask, manager.at \in 1..LastTask
    PROVE  /\ manager.pc = "stop" /\ UNCHANGED <<program, objs>>
           /\ manager'.max = manager.max /\ manager'.exit_code = manager.exit_code
           /\ \/ manager'.pc = "poll" /\ manager'.at = manager.at
              \/ IF manager.at < LastTask THEN manager'.pc = "stop" /\ manager'.at = manager.at + 1
                                      ELSE manager'.pc = "join" /\ manager'.at = 1
           /\ \A u \in Tasks :
                 /\ thread'[u].rc = thread[u].rc
                 /\ u # manager.at => thread'[u] = thread[u]
                 /\ u = manager.at => /\ thread'[u].stopped
                                     /\ \/ thread'[u].pc = thread[u].pc
                                        \/ thread[u].pc = "wait" /\ thread'[u].pc = "ended"
<1> DEFINE t == manager.at
<1>1. manager.pc = "stop" /\ UNCHANGED <<program, objs>> /\ t \in Tasks
  BY TypesAre DEF StopTask
<1>2. CASE ~Aperiodic(t)
  <2>1. thread' = [thread EXCEPT ![t].stopped = TRUE] /\ Following("join")
    BY <1>2 DEF StopTask
  <2> QED BY <1>1, <2>1, ManagerGoes, TypesAre DEF ThreadFields
<1>3. CASE Aperiodic(t) /\ thread[t].pc = "wait"
  <2>1. thread' = [thread EXCEPT ![t].pc = "ended", ![t].stopped = TRUE] /\ Following("join")
    BY <1>3 DEF StopTask
  <2> QED BY <1>1, <1>3, <2>1, ManagerGoes, TypesAre DEF ThreadFields
<1>4. CASE Aperiodic(t) /\ thread[t].pc # "wait"
  <2>1. thread' = [thread EXCEPT ![t].stopped = TRUE] /\ manager' = [manager EXCEPT !.pc = "poll"]
    BY <1>4 DEF StopTask
  <2> QED BY <1>1, <2>1, TypesAre DEF ThreadFields
<1> QED BY <1>2, <1>3, <1>4

LEMMA StopTaskLeaves ==
    ASSUME TypeOK, StopTask, manager.at \in Tasks
    PROVE  UNCHANGED <<program, R1>> /\ \A u \in Tasks : thread'[u].at = thread[u].at
<1> DEFINE t == manager.at
<1>1. CASE ~Aperiodic(t)
  <2>1. thread' = [thread EXCEPT ![t].stopped = TRUE]
    BY <1>1 DEF StopTask
  <2> QED BY <2>1, TypesAre DEF ThreadFields, StopTask
<1>2. CASE Aperiodic(t) /\ thread[t].pc = "wait"
  <2>1. thread' = [thread EXCEPT ![t].pc = "ended", ![t].stopped = TRUE]
    BY <1>2 DEF StopTask
  <2> QED BY <2>1, TypesAre DEF ThreadFields, StopTask
<1>3. CASE Aperiodic(t) /\ thread[t].pc # "wait"
  <2>1. thread' = [thread EXCEPT ![t].stopped = TRUE]
    BY <1>3 DEF StopTask
  <2> QED BY <2>1, TypesAre DEF ThreadFields, StopTask
<1> QED BY <1>1, <1>2, <1>3

(* The manager.                                                            *)
LEMMA ManagerKept ==
    TypeOK /\ ManagerInv /\ [Next]_vars => ManagerInv'
<1> SUFFICES ASSUME TypeOK /\ ManagerInv, [Next]_vars
             PROVE  ManagerInv'
  OBVIOUS
<1> USE DEF ManagerInv, Managing, ThreadFields, NewThread
<1>1. CASE Tick \/ \E t \in Tasks : Thread(t)
  BY <1>1, ThreadsOnly, TypesAre, SameSet DEF ThreadsGoOn
<1>2. ASSUME NEW k \in 0..LastTask, Setup(k)
      PROVE  ManagerInv'
  BY <1>2, TypesAre, SameSet, ManagerGoes DEF Setup
<1>3. ASSUME NEW ok \in BOOLEAN, BecomeManager(ok)
      PROVE  ManagerInv'
  BY <1>3, TypesAre, SameSet, BecomeManagerIs
<1>4. ASSUME NEW ok \in BOOLEAN, CreateThread(ok)
      PROVE  ManagerInv'
  BY <1>4, TypesAre, SameSet, ManagerGoes DEF CreateThread
<1>5. ASSUME NEW ok \in BOOLEAN, WakeUp(ok)
      PROVE  ManagerInv'
  <2>1. manager.pc = "sleep" /\ UNCHANGED <<program, objs, thread>>
    BY <1>5 DEF WakeUp
  <2>2. CASE ok
    <3>1. Goto("stop")
      BY <1>5, <2>2 DEF WakeUp
    <3> QED BY <2>1, <3>1, TypesAre, SameSet, ManagerGoes
  <2>3. CASE ~ok
    <3>1. GotoError
      BY <1>5, <2>3 DEF WakeUp
    <3> QED BY <2>1, <3>1, TypesAre, SameSet, ManagerGoes
  <2> QED BY <2>2, <2>3
<1>6. ASSUME NEW ok \in BOOLEAN, JoinThread(ok)
      PROVE  ManagerInv'
  BY <1>6, TypesAre, SameSet, ManagerGoes DEF JoinThread
<1>7. CASE StopTask
  <2>1. manager.at \in 1..LastTask
    BY <1>7 DEF StopTask
  <2> QED BY <1>7, <2>1, TypesAre, SameSet, StopTaskIs
<1>8. CASE CheckReturnCodes
  BY <1>8, TypesAre, SameSet DEF CheckReturnCodes
<1>9. CASE DestroyTask
  BY <1>9, TypesAre, SameSet DEF DestroyTask
<1>10. CASE Exit
  BY <1>10, TypesAre, SameSet DEF Exit
<1>11. CASE Crash
  BY <1>11, TypesAre, SameSet DEF Crash
<1>12. CASE UNCHANGED vars
  BY <1>12, TypesAre, SameSet DEF vars
<1> QED BY <1>1, <1>2, <1>3, <1>4, <1>5, <1>6, <1>7, <1>8, <1>9, <1>10, <1>11, <1>12 DEF Next, Manager

(* The threads that have been stopped and joined.                          *)
LEMMA StopKept ==
    TypeOK /\ ManagerInv /\ StopInv /\ [Next]_vars => StopInv'
<1> SUFFICES ASSUME TypeOK /\ ManagerInv /\ StopInv, [Next]_vars
             PROVE  StopInv'
  OBVIOUS
<1> USE DEF StopInv, AllStopped, AllEnded, ManagerInv, Managing, ThreadFields, NewThread
<1>1. CASE Tick \/ \E t \in Tasks : Thread(t)
  BY <1>1, ThreadsOnly, TypesAre, SameSet DEF ThreadsGoOn
<1>2. ASSUME NEW k \in 0..LastTask, Setup(k)
      PROVE  StopInv'
  BY <1>2, TypesAre, SameSet, ManagerGoes DEF Setup
<1>3. ASSUME NEW ok \in BOOLEAN, BecomeManager(ok)
      PROVE  StopInv'
  BY <1>3, TypesAre, SameSet, BecomeManagerIs
<1>4. ASSUME NEW ok \in BOOLEAN, CreateThread(ok)
      PROVE  StopInv'
  BY <1>4, TypesAre, SameSet, ManagerGoes DEF CreateThread
<1>5. ASSUME NEW ok \in BOOLEAN, WakeUp(ok)
      PROVE  StopInv'
  BY <1>5, TypesAre, SameSet, ManagerGoes DEF WakeUp
<1>6. ASSUME NEW ok \in BOOLEAN, JoinThread(ok)
      PROVE  StopInv'
  BY <1>6, TypesAre, SameSet, ManagerGoes DEF JoinThread, ManagerRuns, ManagerReady
<1>7. CASE StopTask
  <2>1. manager.at \in 1..LastTask
    BY <1>7 DEF StopTask
  <2> QED BY <1>7, <2>1, TypesAre, SameSet, StopTaskIs
<1>8. CASE CheckReturnCodes
  BY <1>8, TypesAre, SameSet DEF CheckReturnCodes
<1>9. CASE DestroyTask
  BY <1>9, TypesAre, SameSet DEF DestroyTask
<1>10. CASE Exit
  BY <1>10, TypesAre, SameSet DEF Exit
<1>11. CASE Crash
  BY <1>11, TypesAre DEF Crash, UsesDestroyed, Runs, Ready
<1>12. CASE UNCHANGED vars
  BY <1>12, TypesAre, SameSet DEF vars
<1> QED BY <1>1, <1>2, <1>3, <1>4, <1>5, <1>6, <1>7, <1>8, <1>9, <1>10, <1>11, <1>12 DEF Next, Manager

(* A tick changes no more than what is left of a busy loop.                *)
LEMMA TickIs ==
    ASSUME TypeOK, Tick
    PROVE  /\ UNCHANGED <<program, manager, objs, R1>>
           /\ \A u \in Tasks : /\ thread'[u].pc = thread[u].pc /\ thread'[u].at = thread[u].at
                               /\ thread'[u].rc = thread[u].rc
                               /\ thread'[u].stopped = thread[u].stopped
<1>1. UNCHANGED <<program, manager, objs, R1>>
  BY DEF Tick
<1>2. CASE UNCHANGED thread
  BY <1>1, <1>2
<1>3. ASSUME NEW t \in Tasks, thread' = [thread EXCEPT ![t].left = @ - 1]
      PROVE  \A u \in Tasks : /\ thread'[u].pc = thread[u].pc /\ thread'[u].at = thread[u].at
                              /\ thread'[u].rc = thread[u].rc
                              /\ thread'[u].stopped = thread[u].stopped
  BY <1>3, TypesAre DEF ThreadFields
<1> QED BY <1>1, <1>2, <1>3 DEF Tick

(* A thread that does something in SCHED_FIFO finds the manager asleep or  *)
(* waiting, and, if it is not itself new, no new thread.                   *)
LEMMA WhoActs ==
    ASSUME TypeOK, ManagerInv, NewInv, Fifo, NEW t \in Tasks, Thread(t)
    PROVE  /\ manager.pc # "create"
           /\ \/ \A u \in Tasks : thread[u].pc # "new"
              \/ \E ok \in BOOLEAN : EnterScheduler(t, ok)
<1>1. ASSUME Runs(t)
      PROVE  /\ manager.pc # "create"
             /\ thread[t].pc # "new" => \A u \in Tasks : thread[u].pc # "new"
  <2>1. ASSUME manager.pc = "create"
        PROVE  manager.max /\ ManagerReady
    BY <2>1 DEF ManagerInv, Managing, ManagerReady
  <2> QED BY <1>1, <2>1, WhoRuns
<1>2. ASSUME Release(t)
      PROVE  /\ manager.pc # "create"
             /\ \A u \in Tasks : thread[u].pc # "new"
  BY <1>2 DEF Release, Due, NewInv
<1>3. CASE \E ok \in BOOLEAN : EnterScheduler(t, ok)
  BY <1>1, <1>3 DEF EnterScheduler
<1>4. CASE \E ok \in BOOLEAN : EndJob(t, ok)
  BY <1>1, <1>4 DEF EndJob, AtStep
<1>5. CASE Start(t)
  BY <1>1, <1>5 DEF Start
<1>6. CASE DoneBusy(t)
  BY <1>1, <1>6 DEF DoneBusy, AtStep
<1>7. CASE LockR1(t)
  BY <1>1, <1>7 DEF LockR1, AtStep
<1>8. CASE UnlockR1(t)
  BY <1>1, <1>8 DEF UnlockR1, AtStep
<1> QED BY <1>2, <1>3, <1>4, <1>5, <1>6, <1>7, <1>8 DEF Thread

(* New threads.                                                            *)
LEMMA NewKept ==
    TypeOK /\ ManagerInv /\ NewInv /\ [Next]_vars => NewInv'
<1> SUFFICES ASSUME TypeOK /\ ManagerInv /\ NewInv, [Next]_vars
             PROVE  NewInv'
  OBVIOUS
<1> USE DEF NewInv, ManagerInv, Managing, ThreadFields, NewThread
<1>1. CASE Tick \/ \E t \in Tasks : Thread(t)
  <2>1. CASE Tick
    BY <2>1, TickIs, SameSet
  <2>2. ASSUME NEW t \in Tasks, Thread(t)
        PROVE  NewInv'
    <3>1. ThreadsGoOn
      BY <2>2, ThreadsOnly
    <3>2. CASE ~Fifo
      BY <3>1, <3>2, SameSet DEF ThreadsGoOn
    <3>3. CASE Fifo /\ \A u \in Tasks : thread[u].pc # "new"
      BY <2>2, <3>1, <3>3, WhoActs, SameSet DEF ThreadsGoOn
    <3>4. ASSUME Fifo, NEW ok \in BOOLEAN, EnterScheduler(t, ok)
          PROVE  NewInv'
      <4>1. /\ \A u \in Tasks \ {t} : thread'[u] = thread[u]
            /\ thread'[t].pc \in {"start", "ended"} /\ thread[t].pc = "new"
        BY <3>4, TypesAre DEF EnterScheduler
      <4>2. manager'.pc # "create"
        BY <2>2, <3>1, <3>4, WhoActs DEF ThreadsGoOn
      <4> QED BY <3>1, <4>1, <4>2, SameSet DEF ThreadsGoOn
    <3> QED BY <2>2, <3>2, <3>3, <3>4, WhoActs
  <2> QED BY <1>1, <2>1, <2>2
<1>2. ASSUME NEW k \in 0..LastTask, Setup(k)
      PROVE  NewInv'
  BY <1>2, TypesAre, SameSet, ManagerGoes DEF Setup
<1>3. ASSUME NEW ok \in BOOLEAN, BecomeManager(ok)
      PROVE  NewInv'
  BY <1>3, TypesAre, SameSet, BecomeManagerIs
<1>4. ASSUME NEW ok \in BOOLEAN, CreateThread(ok)
      PROVE  NewInv'
  BY <1>4, TypesAre, SameSet, ManagerGoes DEF CreateThread
<1>5. ASSUME NEW ok \in BOOLEAN, WakeUp(ok)
      PROVE  NewInv'
  BY <1>5, TypesAre, SameSet, ManagerGoes DEF WakeUp
<1>6. ASSUME NEW ok \in BOOLEAN, JoinThread(ok)
      PROVE  NewInv'
  BY <1>6, TypesAre, SameSet, ManagerGoes DEF JoinThread
<1>7. CASE StopTask
  <2>1. manager.at \in 1..LastTask
    BY <1>7 DEF StopTask
  <2> QED BY <1>7, <2>1, TypesAre, SameSet, StopTaskIs
<1>8. CASE CheckReturnCodes
  BY <1>8, TypesAre, SameSet DEF CheckReturnCodes
<1>9. CASE DestroyTask
  BY <1>9, TypesAre, SameSet DEF DestroyTask
<1>10. CASE Exit
  BY <1>10, TypesAre, SameSet DEF Exit
<1>11. CASE Crash
  BY <1>11, TypesAre, SameSet DEF Crash
<1>12. CASE UNCHANGED vars
  BY <1>12, TypesAre, SameSet DEF vars
<1> QED BY <1>1, <1>2, <1>3, <1>4, <1>5, <1>6, <1>7, <1>8, <1>9, <1>10, <1>11, <1>12 DEF Next, Manager

(* Where the programs lock and unlock R1.                                  *)
LEMMA AtLocks ==
    ASSUME RunsWithin, program \in {"inversion", "inheritance"}, NEW t \in Tasks, thread[t].pc = "run"
    PROVE  /\ Set[t].program[thread[t].at].op = "lock" => t \in {1, 3} /\ thread[t].at = 2
           /\ Set[t].program[thread[t].at].op = "unlock" => t \in {1, 3} /\ thread[t].at = 4
<1>1. t \in 1..3 /\ thread[t].at \in 1..Len(Set[t].program)
  BY InversionSetIs DEF RunsWithin
<1>2. CASE t = 2
  BY <1>1, <1>2, InversionSetIs
<1>3. CASE t \in {1, 3}
  <2>1. PICK i \in 1..5 : i = thread[t].at
    BY <1>1, <1>3, InversionSetIs
  <2>2. Set[t].program[i].op = CASE i = 2 -> "lock" [] i = 4 -> "unlock" [] OTHER -> "busy"
    BY <1>3, <2>1, InversionSetIs
  <2> QED BY <1>3, <2>1, <2>2
<1> QED BY <1>1, <1>2, <1>3

(* Unlocking R1.                                                           *)
LEMMA UnlockIs ==
    ASSUME TypeOK, NEW t \in Tasks, UnlockR1(t)
    PROVE  /\ thread[t].pc = "run" /\ Set[t].program[thread[t].at].op = "unlock"
           /\ UNCHANGED <<program, manager, objs>> /\ R1' = 0
           /\ thread'[t].pc = "run" /\ thread'[t].at = thread[t].at + 1
           /\ \A u \in Tasks \ {t} :
                 /\ thread'[u].pc = IF thread[u].pc = "blocked" THEN "run" ELSE thread[u].pc
                 /\ thread'[u].at = thread[u].at
<1>1. PICK n : thread' = [u \in Tasks |->
              CASE u = t -> [thread[t] EXCEPT !.at = @ + 1, !.left = n]
                [] u # t /\ thread[u].pc = "blocked" -> [thread[u] EXCEPT !.pc = "run"]
                [] OTHER -> thread[u]]
  BY DEF UnlockR1
<1>2. thread[t].pc = "run" /\ Set[t].program[thread[t].at].op = "unlock"
  BY DEF UnlockR1, AtStep
<1>3. thread'[t] = [thread[t] EXCEPT !.at = @ + 1, !.left = n]
  BY <1>1
<1>4. thread'[t].pc = "run" /\ thread'[t].at = thread[t].at + 1
  BY <1>2, <1>3, TypesAre DEF ThreadFields
<1>5. ASSUME NEW u \in Tasks \ {t}
      PROVE  /\ thread'[u].pc = IF thread[u].pc = "blocked" THEN "run" ELSE thread[u].pc
             /\ thread'[u].at = thread[u].at
  <2>1. thread'[u] = IF thread[u].pc = "blocked" THEN [thread[u] EXCEPT !.pc = "run"] ELSE thread[u]
    BY <1>1, <1>5
  <2> QED BY <2>1, TypesAre DEF ThreadFields
<1> QED BY <1>2, <1>4, <1>5 DEF UnlockR1, othersUnchanged

(* Who has locked R1, and who waits for it.                                *)
LEMMA R1Kept ==
    TypeOK /\ ManagerInv /\ NewInv /\ R1Inv /\ [Next]_vars => R1Inv'
<1> SUFFICES ASSUME TypeOK /\ ManagerInv /\ NewInv /\ R1Inv, [Next]_vars
             PROVE  R1Inv'
  OBVIOUS
<1> USE DEF R1Inv, RunsWithin, HoldsR1, WaitsForR1, NewInv, ManagerInv, Managing, ThreadFields, NewThread
<1>1. CASE Tick \/ \E t \in Tasks : Thread(t)
  <2>1. CASE Tick
    <3> SUFFICES ASSUME program \in {"inversion", "inheritance"} PROVE R1Inv'
      BY <2>1, TickIs
    <3>a. Tasks' = Tasks /\ Set' = Set /\ program' = program /\ Tasks = 1..3
      BY <2>1, TickIs, SameSet, InversionSetIs
    <3>b. RunsWithin'
      BY <2>1, TickIs, <3>a, InversionSetIs DEF RunsWithin
    <3>c. HoldsR1'
      BY <2>1, TickIs, <3>a, InversionSetIs DEF HoldsR1
    <3>d. WaitsForR1'
      BY <2>1, TickIs, <3>a, InversionSetIs DEF WaitsForR1
    <3> HIDE DEF RunsWithin, HoldsR1, WaitsForR1
    <3> QED BY <3>a, <3>b, <3>c, <3>d
  <2>2. ASSUME NEW t \in Tasks, NEW ok \in BOOLEAN, EnterScheduler(t, ok)
        PROVE  R1Inv'
    BY <2>2, TypesAre, SameSet, InversionSetIs DEF EnterScheduler, othersUnchanged
  <2>3. ASSUME NEW t \in Tasks, Start(t)
        PROVE  R1Inv'
    BY <2>3, TypesAre, SameSet, InversionSetIs DEF Start, othersUnchanged
  <2>4. ASSUME NEW t \in Tasks, Release(t)
        PROVE  R1Inv'
    <3>1. UNCHANGED <<program, R1>>
      BY <2>4 DEF Release, othersUnchanged
    <3>2. \E n \in Durations(t, 1) :
             thread' = [thread EXCEPT ![t].pc = "run", ![t].at = 1, ![t].left = n]
      BY <2>4 DEF Release
    <3>3. \A u \in Tasks \ {t} : thread'[u] = thread[u]
      BY <3>2, TypesAre
    <3>4. thread'[t].pc = "run" /\ thread'[t].at = 1
      BY <3>2, TypesAre
    <3>5. thread[t].pc = "sleep"
      BY <2>4 DEF Release, Due
    <3>a. program' = program /\ Set' = Set /\ Tasks' = Tasks
      BY <3>1, SameSet
    <3> SUFFICES ASSUME program \in {"inversion", "inheritance"}
                 PROVE  RunsWithin' /\ HoldsR1' /\ WaitsForR1'
      BY <3>a
    <3>b. RunsWithin'
      BY <3>1, <3>3, <3>4, <3>5, <3>a, TypesAre, InversionSetIs DEF RunsWithin
    <3>c. HoldsR1'
      BY <3>1, <3>3, <3>4, <3>5, <3>a, TypesAre, InversionSetIs DEF HoldsR1
    <3>d. WaitsForR1'
      BY <3>1, <3>3, <3>4, <3>5, <3>a, TypesAre, InversionSetIs DEF WaitsForR1
    <3> QED BY <3>b, <3>c, <3>d
  <2>5. ASSUME NEW t \in Tasks, DoneBusy(t)
        PROVE  R1Inv'
    BY <2>5, TypesAre, SameSet, InversionSetIs, SMTT(30) DEF DoneBusy, Advance, AtStep, othersUnchanged
  <2>6. ASSUME NEW t \in Tasks, LockR1(t)
        PROVE  R1Inv'
    <3> SUFFICES ASSUME program \in {"inversion", "inheritance"} PROVE R1Inv'
      BY <2>6, SameSet DEF LockR1, othersUnchanged
    <3>1. t \in {1, 3} /\ thread[t].at = 2 /\ thread[t].pc = "run" /\ UNCHANGED program
      BY <2>6, AtLocks DEF LockR1, AtStep, othersUnchanged
    <3>2. CASE R1 = 0 /\ R1' = t /\ Advance(t)
      <4>1. thread'[t].pc = "run" /\ thread'[t].at = 3
        BY <3>1, <3>2, TypesAre DEF Advance
      <4>2. \A u \in Tasks \ {t} : thread'[u] = thread[u]
        BY <3>1, <3>2, TypesAre DEF Advance
      <4>a. Tasks' = Tasks /\ Set' = Set /\ program' = program /\ Tasks = 1..3
        BY <3>1, <3>2, <4>1, <4>2, SameSet, InversionSetIs
      <4>b. RunsWithin'
        <5>1. thread'[t].at \in 1..Len(Set[t].program)
          BY <3>1, <3>2, <4>1, <4>2, InversionSetIs
        <5>2. \A u \in Tasks \ {t} : thread'[u].pc \in {"run", "blocked"} =>
                                        thread'[u].at \in 1..Len(Set[u].program)
          BY <3>1, <3>2, <4>1, <4>2 DEF RunsWithin
        <5> QED BY <4>a, <5>1, <5>2 DEF RunsWithin
      <4>c. HoldsR1'
        BY <3>1, <3>2, <4>1, <4>2, <4>a, InversionSetIs DEF HoldsR1
      <4>d. WaitsForR1'
        BY <3>1, <3>2, <4>1, <4>2, <4>a, InversionSetIs DEF WaitsForR1
      <4> HIDE DEF RunsWithin, HoldsR1, WaitsForR1
      <4> QED BY <4>a, <4>b, <4>c, <4>d
    <3>3. CASE R1 # 0 /\ thread' = [thread EXCEPT ![t].pc = "blocked"] /\ UNCHANGED R1
      BY <3>1, <3>3, TypesAre, SameSet, InversionSetIs
    <3> QED BY <2>6, <3>2, <3>3 DEF LockR1
  <2>7. ASSUME NEW t \in Tasks, UnlockR1(t)
        PROVE  R1Inv'
    <3> SUFFICES ASSUME program \in {"inversion", "inheritance"} PROVE R1Inv'
      BY <2>7, SameSet DEF UnlockR1, othersUnchanged
    <3>1. t \in {1, 3} /\ thread[t].at = 4 /\ thread[t].pc = "run" /\ UNCHANGED program /\ R1' = 0
      BY <2>7, UnlockIs, AtLocks
    <3>2. thread'[t].pc = "run" /\ thread'[t].at = 5
      BY <2>7, <3>1, UnlockIs
    <3>3. \A u \in Tasks \ {t} :
             /\ thread'[u].pc = IF thread[u].pc = "blocked" THEN "run" ELSE thread[u].pc
             /\ thread'[u].at = thread[u].at
      BY <2>7, UnlockIs
    <3>a. Tasks' = Tasks /\ Set' = Set /\ program' = program /\ Tasks = 1..3
      BY <3>1, <3>2, <3>3, SameSet, InversionSetIs
    <3>b. RunsWithin'
      <4>1. thread'[t].at \in 1..Len(Set[t].program)
        BY <3>1, <3>2, <3>3, InversionSetIs
      <4>2. \A u \in Tasks \ {t} : thread'[u].pc \in {"run", "blocked"} =>
                                      thread'[u].at \in 1..Len(Set[u].program)
        BY <3>1, <3>2, <3>3 DEF RunsWithin
      <4> QED BY <3>a, <4>1, <4>2 DEF RunsWithin
    <3>c. HoldsR1'
      BY <3>1, <3>2, <3>3, <3>a, InversionSetIs DEF HoldsR1
    <3>d. WaitsForR1'
      BY <3>1, <3>2, <3>3, <3>a, InversionSetIs DEF WaitsForR1
    <3> HIDE DEF RunsWithin, HoldsR1, WaitsForR1
    <3> QED BY <3>a, <3>b, <3>c, <3>d
  <2>8. ASSUME NEW t \in Tasks, NEW ok \in BOOLEAN, EndJob(t, ok)
        PROVE  R1Inv'
    BY <2>8, TypesAre, SameSet, InversionSetIs DEF EndJob, AtStep, othersUnchanged
  <2> QED BY <1>1, <2>1, <2>2, <2>3, <2>4, <2>5, <2>6, <2>7, <2>8 DEF Thread
<1>2. ASSUME NEW k \in 0..LastTask, Setup(k)
      PROVE  R1Inv'
  BY <1>2, TypesAre, SameSet, InversionSetIs, ManagerGoes DEF Setup
<1>3. ASSUME NEW ok \in BOOLEAN, BecomeManager(ok)
      PROVE  R1Inv'
  <2>1. UNCHANGED <<program, thread, R1>>
    BY <1>3 DEF BecomeManager
  <2> QED BY <2>1, SameSet
<1>4. ASSUME NEW ok \in BOOLEAN, CreateThread(ok)
      PROVE  R1Inv'
  <2>1. UNCHANGED <<program, R1>>
    BY <1>4 DEF CreateThread
  <2>2. CASE UNCHANGED thread
    BY <2>1, <2>2, SameSet
  <2>3. CASE thread' = [thread EXCEPT ![manager.at].pc = "new"]
    <3>1. \A u \in Tasks : u # manager.at => thread'[u] = thread[u]
      BY <2>3, TypesAre
    <3>2. manager.at \in Tasks => thread'[manager.at].pc = "new"
      BY <2>3, TypesAre
    <3>a. program' = program /\ Set' = Set /\ Tasks' = Tasks
      BY <2>1, SameSet
    <3> SUFFICES ASSUME program \in {"inversion", "inheritance"}
                 PROVE  RunsWithin' /\ HoldsR1' /\ WaitsForR1'
      BY <3>a
    <3>e. \A u \in Tasks : thread[u].pc \in {"none", "new"}
      BY <1>4, InversionSetIs DEF CreateThread
    <3>f. R1 = 0
      BY <3>e, InversionSetIs
    <3>b. RunsWithin'
      BY <3>1, <3>2, <3>a, <3>e
    <3>c. HoldsR1'
      BY <2>1, <3>f
    <3>d. WaitsForR1'
      BY <3>1, <3>2, <3>a, <3>e
    <3> QED BY <3>b, <3>c, <3>d
  <2> QED BY <1>4, <2>2, <2>3 DEF CreateThread
<1>5. ASSUME NEW ok \in BOOLEAN, WakeUp(ok)
      PROVE  R1Inv'
  <2>1. UNCHANGED <<program, thread, R1>>
    BY <1>5 DEF WakeUp
  <2> QED BY <2>1, SameSet
<1>6. ASSUME NEW ok \in BOOLEAN, JoinThread(ok)
      PROVE  R1Inv'
  <2>1. UNCHANGED <<program, thread, R1>>
    BY <1>6 DEF JoinThread
  <2> QED BY <2>1, SameSet
<1>7. CASE StopTask
  <2>1. manager.at \in 1..LastTask
    BY <1>7 DEF StopTask
  <2>2. UNCHANGED <<program, R1>> /\ \A u \in Tasks : thread'[u].at = thread[u].at
    <3>1. manager.at \in Tasks
      BY <2>1, TypesAre
    <3> QED BY <1>7, <3>1, StopTaskLeaves
  <2> QED BY <1>7, <2>1, <2>2, TypesAre, SameSet, StopTaskIs, InversionSetIs
<1>8. CASE CheckReturnCodes
  BY <1>8, TypesAre, SameSet, InversionSetIs DEF CheckReturnCodes
<1>9. CASE DestroyTask
  BY <1>9, TypesAre, SameSet, InversionSetIs DEF DestroyTask
<1>10. CASE Exit
  BY <1>10, TypesAre, SameSet, InversionSetIs DEF Exit
<1>11. CASE Crash
  BY <1>11, TypesAre, SameSet, InversionSetIs DEF Crash
<1>12. CASE UNCHANGED vars
  BY <1>12, TypesAre, SameSet, InversionSetIs DEF vars
<1> QED BY <1>1, <1>2, <1>3, <1>4, <1>5, <1>6, <1>7, <1>8, <1>9, <1>10, <1>11, <1>12 DEF Next, Manager

(* The types.                                                              *)
ThreadRecords == [pc : {"none", "new", "start", "sleep", "run", "blocked", "wait", "ended"},
                  at : Nat, left : Nat, rc : {0, -1, -2}, stopped : BOOLEAN]

LEMMA DurationsAre ==
    ASSUME TypeOK, NEW t, NEW i, NEW n \in Durations(t, i)
    PROVE  n \in Nat
  BY DEF Durations

(* Every action leaves the threads what they are.                          *)
LEMMA ThreadTypes ==
    TypeOK /\ [Next]_vars => thread' \in [Tasks -> ThreadRecords]
<1> SUFFICES ASSUME TypeOK, [Next]_vars
             PROVE  thread' \in [Tasks -> ThreadRecords]
  OBVIOUS
<1>0. thread \in [Tasks -> ThreadRecords] /\ manager.at \in 0..LastTask /\ Tasks = 1..LastTask
  BY TypesAre DEF TypeOK, ThreadRecords
<1> USE <1>0
<1>1. CASE Tick
  <2>1. ASSUME NEW t \in Tasks, thread[t].left > 0, thread' = [thread EXCEPT ![t].left = @ - 1]
        PROVE  thread' \in [Tasks -> ThreadRecords]
    BY <2>1 DEF ThreadRecords
  <2> QED BY <1>1, <2>1 DEF Tick
<1>2. ASSUME NEW t \in Tasks, NEW ok \in BOOLEAN, EnterScheduler(t, ok)
      PROVE  thread' \in [Tasks -> ThreadRecords]
  <2>1. CASE ok
    <3>1. thread' = [thread EXCEPT ![t].pc = "start", ![t].rc = 0]
      BY <1>2, <2>1 DEF EnterScheduler
    <3> QED BY <3>1, ZenonT(60) DEF ThreadRecords
  <2>2. CASE ~ok
    <3>1. thread' = [thread EXCEPT ![t].pc = "ended", ![t].rc = -1]
      BY <1>2, <2>2 DEF EnterScheduler
    <3> QED BY <3>1, ZenonT(60) DEF ThreadRecords
  <2> QED BY <2>1, <2>2
<1>3. ASSUME NEW t \in Tasks, Start(t)
      PROVE  thread' \in [Tasks -> ThreadRecords]
  BY <1>3 DEF Start, ThreadRecords
<1>4. ASSUME NEW t \in Tasks, Release(t)
      PROVE  thread' \in [Tasks -> ThreadRecords]
  <2>1. PICK n \in Nat : thread' = [thread EXCEPT ![t].pc = "run", ![t].at = 1, ![t].left = n]
    BY <1>4, DurationsAre DEF Release
  <2> QED BY <2>1, ZenonT(60) DEF ThreadRecords
<1>5. ASSUME NEW t \in Tasks, Advance(t)
      PROVE  thread' \in [Tasks -> ThreadRecords]
  <2>1. PICK n \in Nat : thread' = [thread EXCEPT ![t].pc = "run", ![t].at = @ + 1, ![t].left = n]
    BY <1>5, DurationsAre DEF Advance
  <2> QED BY <2>1 DEF ThreadRecords
<1>6. ASSUME NEW t \in Tasks, LockR1(t)
      PROVE  thread' \in [Tasks -> ThreadRecords]
  <2>1. CASE Advance(t)
    BY <1>5, <2>1
  <2>2. CASE thread' = [thread EXCEPT ![t].pc = "blocked"]
    BY <2>2 DEF ThreadRecords
  <2> QED BY <1>6, <2>1, <2>2 DEF LockR1
<1>7. ASSUME NEW t \in Tasks, UnlockR1(t)
      PROVE  thread' \in [Tasks -> ThreadRecords]
  <2>1. PICK n \in Nat : thread' = [u \in Tasks |->
              CASE u = t -> [thread[t] EXCEPT !.at = @ + 1, !.left = n]
                [] u # t /\ thread[u].pc = "blocked" -> [thread[u] EXCEPT !.pc = "run"]
                [] OTHER -> thread[u]]
    BY <1>7, DurationsAre DEF UnlockR1
  <2>2. ASSUME NEW r \in ThreadRecords
        PROVE  /\ [r EXCEPT !.pc = "run"] \in ThreadRecords
               /\ [r EXCEPT !.at = @ + 1, !.left = n] \in ThreadRecords
    <3>1. [r EXCEPT !.pc = "run"] \in ThreadRecords
      BY DEF ThreadRecords
    <3>a. [r EXCEPT !.at = @ + 1] \in ThreadRecords
      <4>1. r.at + 1 \in Nat
        BY DEF ThreadRecords
      <4> DEFINE k == r.at + 1
      <4> HIDE DEF k
      <4>2. [r EXCEPT !.at = k] \in ThreadRecords
        BY <4>1 DEF k, ThreadRecords
      <4> QED BY <4>2 DEF k
    <3>2. PICK q \in ThreadRecords : q = [r EXCEPT !.at = @ + 1]
      BY <3>a
    <3>3. [q EXCEPT !.left = n] \in ThreadRecords
      BY DEF ThreadRecords
    <3> QED BY <3>1, <3>2, <3>3
  <2>3. \A u \in Tasks : thread'[u] \in ThreadRecords
    BY <2>1, <2>2
  <2> QED BY <2>1, <2>3
<1>8. ASSUME NEW t \in Tasks, NEW ok \in BOOLEAN, EndJob(t, ok)
      PROVE  thread' \in [Tasks -> ThreadRecords]
  <2>1. PICK p \in {"ended", "wait", "sleep"}, r \in {0, -2} :
           thread' = [thread EXCEPT ![t] = [@ EXCEPT !.pc = p, !.at = 0, !.rc = r]]
    <3> DEFINE p == IF thread[t].stopped THEN "ended" ELSE IF Aperiodic(t) THEN "wait" ELSE "sleep"
               r == IF ok THEN 0 ELSE -2
    <3>1. p \in {"ended", "wait", "sleep"} /\ r \in {0, -2}
      OBVIOUS
    <3>2. thread' = [thread EXCEPT ![t] = [@ EXCEPT !.pc = p, !.at = 0, !.rc = r]]
      BY <1>8 DEF EndJob
    <3> HIDE DEF p, r
    <3> QED BY <3>1, <3>2
  <2> QED BY <2>1 DEF ThreadRecords
<1>9. ASSUME NEW ok \in BOOLEAN, CreateThread(ok)
      PROVE  thread' \in [Tasks -> ThreadRecords]
  BY <1>9 DEF CreateThread, ThreadRecords
<1>10. CASE StopTask
  <2>1. \/ thread' = [thread EXCEPT ![manager.at].stopped = TRUE]
        \/ thread' = [thread EXCEPT ![manager.at].pc = "ended", ![manager.at].stopped = TRUE]
    BY <1>10 DEF StopTask
  <2>2. manager.at \in Tasks \/ manager.at = 0
    OBVIOUS
  <2>3. CASE manager.at \notin Tasks
    BY <2>1, <2>3
  <2>4. ASSUME NEW t \in Tasks, thread' = [thread EXCEPT ![t].stopped = TRUE]
        PROVE  thread' \in [Tasks -> ThreadRecords]
    BY <2>4 DEF ThreadRecords
  <2>5. ASSUME NEW t \in Tasks, thread' = [thread EXCEPT ![t].pc = "ended", ![t].stopped = TRUE]
        PROVE  thread' \in [Tasks -> ThreadRecords]
    BY <2>5, ZenonT(60) DEF ThreadRecords
  <2> QED BY <2>1, <2>2, <2>3, <2>4, <2>5
<1>11. CASE Exit
  BY <1>11 DEF Exit, NewThread, ThreadRecords
<1>12. CASE Crash
  BY <1>12 DEF Crash, NewThread, ThreadRecords
<1>13. CASE UNCHANGED thread
  BY <1>13
<1> QED BY <1>1, <1>2, <1>3, <1>4, <1>5, <1>6, <1>7, <1>8, <1>9, <1>10, <1>11, <1>12, <1>13
        DEF Next, Thread, Manager, DoneBusy, Setup, BecomeManager, WakeUp, JoinThread,
            CheckReturnCodes, DestroyTask, vars

LEMMA TypeKept ==
    TypeOK /\ [Next]_vars => TypeOK'
<1> SUFFICES ASSUME TypeOK, [Next]_vars
             PROVE  TypeOK'
  OBVIOUS
<1> DEFINE Positions == {"setup", "max", "create", "sleep", "stop", "poll", "join",
                         "check", "destroy", "exited", "crashed"}
           Managers == [pc : Positions, at : 0..LastTask, max : BOOLEAN, exit_code : {"success", "failure"}]
<1>1. LastTask \in {3, 4} /\ Tasks = 1..LastTask /\ UNCHANGED program
  BY TypesAre DEF Next, Tick, Manager, Crash, Thread, EnterScheduler, EndJob, Start, Release, DoneBusy,
     LockR1, UnlockR1, othersUnchanged, Setup, BecomeManager, CreateThread, WakeUp, JoinThread, StopTask,
     CheckReturnCodes, DestroyTask, Exit, vars
<1>2. Set' = Set /\ Tasks' = Tasks /\ LastTask' = LastTask /\ RunTime' = RunTime
  BY <1>1, SameSet
<1>3. thread' \in [Tasks -> ThreadRecords]
  BY ThreadTypes
<1>4. manager' \in Managers
  <2>1. manager \in Managers /\ manager.at \in 0..LastTask
    BY DEF TypeOK
  <2>a. ASSUME NEW m \in Managers
        PROVE  /\ \A p \in Positions : [m EXCEPT !.pc = p] \in Managers
               /\ \A k \in 0..LastTask : [m EXCEPT !.at = k] \in Managers
               /\ \A b \in BOOLEAN : [m EXCEPT !.max = b] \in Managers
               /\ \A c \in {"success", "failure"} : [m EXCEPT !.exit_code = c] \in Managers
               /\ \A p \in Positions, k \in 0..LastTask : [m EXCEPT !.pc = p, !.at = k] \in Managers
    OBVIOUS
  <2>b. {"setup", "max", "create", "sleep", "stop", "poll", "join", "check", "destroy", "exited",
         "crashed"} = Positions /\ 0 \in 0..LastTask /\ 1 \in 0..LastTask
    BY <1>1
  <2> HIDE DEF Positions, Managers
  <2>2. \A p \in Positions : Goto(p) \/ GotoError \/ Following(p) => manager' \in Managers
    <3>1. ASSUME NEW p \in Positions, NEW k \in 0..LastTask
          PROVE  [manager EXCEPT !.pc = p, !.at = k] \in Managers
      BY <2>a, <2>1
    <3>2. ASSUME manager.at < LastTask
          PROVE  [manager EXCEPT !.at = @ + 1] \in Managers
      <4>1. PICK k \in 0..LastTask : k = manager.at + 1
        BY <1>1, <2>1, <3>2
      <4>2. [manager EXCEPT !.at = k] \in Managers
        BY <2>a, <2>1
      <4>3. [manager EXCEPT !.at = @ + 1] = [manager EXCEPT !.at = k]
        BY <4>1
      <4> QED BY <4>2, <4>3
    <3>3. "destroy" \in Positions
      BY <2>b
    <3>4. ASSUME NEW p \in Positions, Goto(p)
          PROVE  manager' \in Managers
      <4>1. [manager EXCEPT !.pc = p, !.at = 1] \in Managers
        BY <2>b, <3>1
      <4> QED BY <3>4, <4>1 DEF Goto
    <3>5. ASSUME GotoError
          PROVE  manager' \in Managers
      <4>1. [manager EXCEPT !.pc = "destroy", !.at = 0] \in Managers
        BY <2>b, <3>1, <3>3
      <4> QED BY <3>5, <4>1 DEF GotoError
    <3>6. ASSUME NEW p \in Positions, Following(p)
          PROVE  manager' \in Managers
      <4>1. CASE manager.at < LastTask
        <5>1. manager' = [manager EXCEPT !.at = @ + 1]
          BY <3>6, <4>1 DEF Following
        <5> QED BY <3>2, <4>1, <5>1
      <4>2. CASE ~(manager.at < LastTask)
        BY <3>4, <3>6, <4>2 DEF Following
      <4> QED BY <4>1, <4>2
    <3> QED BY <3>4, <3>5, <3>6
  <2>3. ASSUME NEW k \in 0..LastTask, Setup(k)
        PROVE  manager' \in Managers
    BY <2>b, <2>2, <2>3 DEF Setup
  <2>4. ASSUME NEW ok \in BOOLEAN, BecomeManager(ok)
        PROVE  manager' \in Managers
    <3>1. CASE ok
      <4>1. Fifo \in BOOLEAN
        BY DEF Fifo
      <4>2. manager' = [manager EXCEPT !.pc = "create", !.at = 1, !.max = Fifo]
        BY <2>4, <3>1 DEF BecomeManager
      <4>3. PICK m \in Managers : m = [manager EXCEPT !.pc = "create", !.at = 1]
        BY <2>a, <2>b, <2>1
      <4>4. [m EXCEPT !.max = Fifo] \in Managers
        BY <2>a, <4>1
      <4> QED BY <4>2, <4>3, <4>4
    <3>2. CASE ~ok
      BY <2>b, <2>2, <2>4, <3>2 DEF BecomeManager
    <3> QED BY <3>1, <3>2
  <2>5. ASSUME NEW ok \in BOOLEAN, CreateThread(ok) \/ WakeUp(ok) \/ JoinThread(ok)
        PROVE  manager' \in Managers
    BY <2>b, <2>2, <2>5 DEF CreateThread, WakeUp, JoinThread
  <2>6. CASE StopTask
    BY <2>a, <2>b, <2>1, <2>2, <2>6 DEF StopTask
  <2>7. CASE CheckReturnCodes
    <3>1. PICK c \in {"success", "failure"} :
             manager' = [manager EXCEPT !.pc = "destroy", !.at = 0, !.exit_code = c]
      BY <2>7 DEF CheckReturnCodes
    <3>2. PICK m \in Managers : m = [manager EXCEPT !.pc = "destroy", !.at = 0]
      BY <2>a, <2>b, <2>1
    <3>3. [m EXCEPT !.exit_code = c] \in Managers
      BY <2>a
    <3> QED BY <3>1, <3>2, <3>3
  <2>8. CASE Exit \/ Crash
    BY <2>a, <2>b, <2>1, <2>8 DEF Exit, Crash
  <2>9. CASE UNCHANGED manager
    BY <2>1, <2>9
  <2> QED BY <2>3, <2>4, <2>5, <2>6, <2>7, <2>8, <2>9
          DEF Next, Manager, Tick, Thread, EnterScheduler, EndJob, Start, Release, DoneBusy,
              LockR1, UnlockR1, othersUnchanged, DestroyTask, vars
<1>5. objs' \in 0..LastTask
  <2>1. objs \in 0..LastTask
    BY DEF TypeOK
  <2>2. \/ UNCHANGED objs
        \/ \E k \in 0..LastTask : objs' = k
        \/ objs > 0 /\ objs' = objs - 1
    BY DEF Next, Manager, Tick, Thread, EnterScheduler, EndJob, Start, Release, DoneBusy,
           LockR1, UnlockR1, othersUnchanged, Setup, BecomeManager, CreateThread, WakeUp, JoinThread,
           StopTask, CheckReturnCodes, DestroyTask, Exit, Crash, vars
  <2> QED BY <1>1, <2>1, <2>2
<1>6. since' \in [Tasks -> Int]
  <2>1. since \in [Tasks -> Int]
    BY DEF TypeOK
  <2>2. CASE Tick
    BY <2>1, <2>2 DEF Tick
  <2>3. ASSUME NEW t \in Tasks, NEW ok \in BOOLEAN, EndJob(t, ok)
        PROVE  since' \in [Tasks -> Int]
    <3>1. Set[t].period \in Nat
      BY TypesAre, SetIs
    <3>2. since' = [since EXCEPT ![t] = IF Aperiodic(t) THEN 0 ELSE @ - Set[t].period]
      BY <2>3 DEF EndJob
    <3> QED BY <2>1, <3>1, <3>2
  <2>4. CASE UNCHANGED since
    BY <2>1, <2>4
  <2> QED BY <2>2, <2>3, <2>4
          DEF Next, Manager, Thread, EnterScheduler, Start, Release, DoneBusy, LockR1, UnlockR1,
              Setup, BecomeManager, CreateThread, WakeUp, JoinThread, StopTask, CheckReturnCodes,
              DestroyTask, Exit, Crash, vars
<1>7. R1' \in 0..LastTask
  <2>1. R1 \in 0..LastTask
    BY DEF TypeOK
  <2>2. \/ UNCHANGED R1
        \/ \E t \in Tasks : R1' = t
        \/ R1' = 0
    BY DEF Next, Manager, Tick, Thread, EnterScheduler, EndJob, Start, Release, DoneBusy,
           LockR1, UnlockR1, Setup, BecomeManager, CreateThread, WakeUp, JoinThread,
           StopTask, CheckReturnCodes, DestroyTask, Exit, Crash, vars
  <2> QED BY <1>1, <2>1, <2>2
<1>8. uptime' \in 0..RunTime
  <2>1. uptime \in 0..RunTime /\ RunTime \in Nat
    BY DEF TypeOK, RunTime
  <2>2. UNCHANGED uptime \/ uptime' = IF uptime < RunTime THEN uptime + 1 ELSE uptime
    BY DEF Next, Manager, Tick, Thread, EnterScheduler, EndJob, Start, Release, DoneBusy,
           LockR1, UnlockR1, othersUnchanged, Setup, BecomeManager, CreateThread, WakeUp, JoinThread,
           StopTask, CheckReturnCodes, DestroyTask, Exit, Crash, vars
  <2> QED BY <2>1, <2>2
<1>9. program' \in Programs
  BY <1>1 DEF TypeOK
<1> QED BY <1>1, <1>2, <1>3, <1>4, <1>5, <1>6, <1>7, <1>8, <1>9 DEF TypeOK, ThreadRecords

-----------------------------------------------------------------------------
(* The invariant.                                                          *)
LEMMA InitIInv == Init => IInv
<1> SUFFICES ASSUME Init
             PROVE  IInv
  OBVIOUS
<1>1. program \in AllPrograms
  BY UniprocessorAssumption DEF Init
<1>2. LastTask \in {3, 4} /\ Tasks = 1..LastTask /\ \A t \in Tasks : Set[t].offset \in Nat
  BY <1>1, SetIs
<1>3. \A t \in Tasks : thread[t] = NewThread
  BY DEF Init
<1>4. NewThread.pc = "none" /\ NewThread \in ThreadRecords
  BY DEF NewThread, ThreadRecords
<1>5. manager.pc = "setup" /\ manager.max = FALSE /\ manager.exit_code = "failure" /\ R1 = 0
  BY DEF Init
<1>6. TypeOK
  <2>1. manager \in [pc : {"setup", "max", "create", "sleep", "stop", "poll", "join",
                          "check", "destroy", "exited", "crashed"},
                     at : 0..LastTask, max : BOOLEAN, exit_code : {"success", "failure"}]
    BY <1>2 DEF Init
  <2>2. since \in [Tasks -> Int]
    BY <1>2 DEF Init
  <2>3. thread \in [Tasks -> ThreadRecords]
    BY <1>4 DEF Init
  <2>4. objs \in 0..LastTask /\ R1 \in 0..LastTask /\ uptime \in 0..RunTime
    BY <1>2 DEF Init, RunTime
  <2>5. program \in Programs
    BY DEF Init
  <2> QED BY <2>1, <2>2, <2>3, <2>4, <2>5 DEF TypeOK, ThreadRecords
<1>7. ManagerInv
  BY <1>3, <1>4, <1>5 DEF ManagerInv, Managing
<1>8. NewInv
  BY <1>3, <1>4, <1>5 DEF NewInv
<1>9. StopInv
  BY <1>5 DEF StopInv
<1>10. R1Inv
  BY <1>3, <1>4, <1>5 DEF R1Inv, RunsWithin, HoldsR1, WaitsForR1
<1> QED BY <1>6, <1>7, <1>8, <1>9, <1>10 DEF IInv

LEMMA NextIInv == IInv /\ [Next]_vars => IInv'
  BY TypeKept, ManagerKept, NewKept, StopKept, R1Kept DEF IInv

LEMMA AlwaysIInv == Spec => []IInv
  BY InitIInv, NextIInv, PTL DEF Spec

(* The types of the state.                                                 *)
THEOREM TypeCorrect == Spec => []TypeOK
<1>1. IInv => TypeOK
  BY DEF IInv
<1> QED BY <1>1, AlwaysIInv, PTL

(* In rate_monotonic and priority_inversion_in_RM no thread runs after its *)
(* task has been destroyed, whatever fails: the manager is above it.       *)
THEOREM DestroyedNeverRun == Spec => []DestroyedNeverRuns
<1>1. IInv => DestroyedNeverRuns
  <2> SUFFICES ASSUME IInv, Fifo, NEW t \in Tasks, UsesDestroyed(t)
               PROVE  FALSE
    BY DEF DestroyedNeverRuns
  <2>1. TypeOK /\ ManagerInv
    BY DEF IInv
  <2>2. Runs(t) /\ t > objs /\ thread[t].pc # "none"
    BY DEF UsesDestroyed, Runs, Ready
  <2>3. manager.pc \in Managing \cup {"setup", "max", "destroy", "exited", "crashed"}
    BY <2>1 DEF TypeOK, Managing
  <2>4. Tasks = 1..LastTask /\ LastTask \in {3, 4}
    BY <2>1, TypesAre
  <2>5. CASE manager.pc \in Managing \cup {"max"}
    BY <2>1, <2>2, <2>4, <2>5 DEF ManagerInv
  <2>6. CASE manager.pc \in {"setup", "exited", "crashed"}
    BY <2>1, <2>2, <2>6 DEF ManagerInv
  <2>7. CASE manager.pc = "destroy"
    <3>1. ManagerReady
      BY <2>7 DEF ManagerReady
    <3>2. ~manager.max
      BY <2>1, <2>2, <3>1, WhoRuns
    <3> QED BY <2>1, <2>2, <3>2 DEF ManagerInv
  <2> QED BY <2>3, <2>5, <2>6, <2>7
<1> QED BY <1>1, AlwaysIInv, PTL

(* A program that succeeds has stopped and joined every thread, and none   *)
(* of them ended with an error.                                            *)
THEOREM SuccessAlwaysMeansAllRan == Spec => []SuccessMeansAllRan
<1>1. IInv => SuccessMeansAllRan
  <2> SUFFICES ASSUME IInv
               PROVE  SuccessMeansAllRan
    OBVIOUS
  <2>1. TypeOK /\ StopInv
    BY DEF IInv
  <2>2. Tasks = 1..LastTask /\ LastTask \in {3, 4}
    BY <2>1, TypesAre
  <2> QED BY <2>1, <2>2 DEF StopInv, SuccessMeansAllRan, AllStopped, AllEnded
<1> QED BY <1>1, AlwaysIInv, PTL

(* With priority inheritance tau_2 does not run while tau_1 waits for R1:  *)
(* tau_3, which has locked it, can run and has the priority of tau_1.      *)
THEOREM NoInversionWithInheritance == Spec => []InversionOnlyWithoutInheritance
<1>1. IInv => InversionOnlyWithoutInheritance
  <2> SUFFICES ASSUME IInv, program = "inheritance", thread[1].pc = "blocked", Runs(2)
               PROVE  FALSE
    BY DEF InversionOnlyWithoutInheritance
  <2>1. TypeOK /\ NewInv /\ R1Inv
    BY DEF IInv
  <2>2. Tasks = 1..3 /\ Fifo
    BY InversionSetIs
  <2>3. R1 = 3 /\ thread[3].pc = "run"
    BY <2>1, <2>2 DEF R1Inv, HoldsR1, WaitsForR1
  <2>4. thread[2].pc # "new"
    BY <2>1, <2>2 DEF NewInv
  <2>5. Rank(2) = 3
    BY <2>1, <2>2, <2>3, <2>4, RanksAre
  <2>6. Rank(3) = 2
    <3> DEFINE waiting == {u \in Tasks : thread[u].pc = "blocked"}
    <3>1. 1 \in waiting /\ waiting \subseteq 1..3
      BY <2>2
    <3>2. Rank(3) = FifoRank(3)
      BY <2>2 DEF Rank
    <3> DEFINE highest == CHOOSE u \in waiting : \A v \in waiting : u <= v
    <3>3. FifoRank(3) = 1 + highest
      BY <2>3, <3>1 DEF FifoRank
    <3> HIDE DEF waiting
    <3>4. highest = 1
      <4>1. \A u \in waiting : (\A v \in waiting : u <= v) => u = 1
        BY <3>1
      <4>2. \A v \in waiting : 1 <= v
        BY <3>1
      <4> QED BY <3>1, <4>1, <4>2
    <3> HIDE DEF highest
    <3> QED BY <3>2, <3>3, <3>4
  <2> QED BY <2>2, <2>3, <2>5, <2>6 DEF Runs, Ready
<1> QED BY <1>1, AlwaysIInv, PTL

-----------------------------------------------------------------------------
(* The driver of the experiments with bandwidth inheritance.               *)

(* The steps of main, one by one.                                          *)
LEMMA ScriptIs ==
    /\ Len(Script) = 30
    /\ Script[1] = [op |-> "argv", list |-> "HRT_CBS"]
    /\ Script[2] = [op |-> "argv", list |-> "CPU_HOG_CBS"]
    /\ Script[3] = [op |-> "argv", list |-> "CPU_HOG"]
    /\ Script[4] = [op |-> "argv", list |-> "SERVER_HOG"]
    /\ Script[5] = [op |-> "argv", list |-> "SERVER"]
    /\ Script[6] = [op |-> "create", list |-> "SERVER"]
    /\ Script[7] = [op |-> "argv", list |-> "CLIENT"]
    /\ Script[8] = [op |-> "create", list |-> "CLIENT"]
    /\ Script[9] = [op |-> "create", list |-> "HRT_CBS"]
    /\ Script[10] = [op |-> "create", list |-> "CPU_HOG_CBS"]
    /\ Script[11] = [op |-> "create", list |-> "CPU_HOG"]
    /\ Script[12] = [op |-> "create", list |-> "SERVER_HOG"]
    /\ Script[13] = [op |-> "sched_deadline_enter", list |-> "none"]
    /\ Script[14] = [op |-> "SIGUSR1", list |-> "HRT_CBS"]
    /\ Script[15] = [op |-> "SIGUSR1", list |-> "CPU_HOG_CBS"]
    /\ Script[16] = [op |-> "SIGUSR1", list |-> "CLIENT"]
    /\ Script[17] = [op |-> "usleep", list |-> "none"]
    /\ Script[18] = [op |-> "SIGTERM", list |-> "CLIENT"]
    /\ Script[19] = [op |-> "SIGTERM", list |-> "CPU_HOG_CBS"]
    /\ Script[20] = [op |-> "SIGTERM", list |-> "HRT_CBS"]
    /\ Script[21] = [op |-> "SIGTERM", list |-> "CPU_HOG"]
    /\ Script[22] = [op |-> "SIGTERM", list |-> "SERVER_HOG"]
    /\ Script[23] = [op |-> "sleep", list |-> "none"]
    /\ Script[24] = [op |-> "SIGTERM", list |-> "SERVER"]
    /\ Script[25] = [op |-> "wait", list |-> "CLIENT"]
    /\ Script[26] = [op |-> "wait", list |-> "CPU_HOG_CBS"]
    /\ Script[27] = [op |-> "wait", list |-> "HRT_CBS"]
    /\ Script[28] = [op |-> "wait", list |-> "CPU_HOG"]
    /\ Script[29] = [op |-> "wait", list |-> "SERVER_HOG"]
    /\ Script[30] = [op |-> "wait", list |-> "SERVER"]
  BY DEF Script, Creation, Starting, Started, Stopping, Stopped, Steps, Others

(* Every step acts on the list that its place says: those that create,     *)
(* start, stop and wait for processes come in this order.                  *)
LEMMA ScriptSteps ==
    \A k \in 1..30 :
          /\ Script[k].op = "argv" => k \in 1..5 \cup {7}
          /\ Script[k].op = "create" => k \in {6} \cup 8..12
          /\ Script[k].op = "SIGUSR1" => k \in 14..16
          /\ Script[k].op = "SIGTERM" => k \in 18..22 \cup {24}
          /\ Script[k].op = "wait" => k \in 25..30
          /\ Script[k] = [op |-> Script[k].op, list |-> Script[k].list]
  BY ScriptIs

LEMMA StartedLists ==
    \A k \in 1..30 : Script[k].op = "SIGUSR1" => Script[k].list # "CPU_HOG"
  BY ScriptIs

(* No list is told twice to end.                                           *)
LEMMA TerminatedOnce ==
    \A k, l \in 1..30 : Script[k].op = "SIGTERM" /\ Script[k] = Script[l] => k = l
  <1> SUFFICES ASSUME NEW k \in 1..30, NEW l \in 1..30, Script[k].op = "SIGTERM", Script[k] = Script[l]
               PROVE  k = l
    OBVIOUS
  <1>1. k \in 18..22 \cup {24} /\ l \in 18..22 \cup {24}
    BY ScriptSteps
  <1> QED BY <1>1, ScriptIs

LEMMA AllWaitedFor ==
    \A name \in {"SERVER", "CLIENT", "CPU_HOG", "CPU_HOG_CBS", "HRT_CBS", "SERVER_HOG"} :
        \E k \in 1..30 : Script[k] = [op |-> "wait", list |-> name]
  BY ScriptIs

-----------------------------------------------------------------------------
(* The programs.                                                           *)

HogPlaces  == {"prepare", "cbs", "sigsuspend", "hog", "print", "destroy", "destroy_again",
               "return"}
Unprepared == {"none", "forked", "starting"}

(* The position and the thread of a process are those of its program.      *)
Kind(line, p) ==
    /\ p.pc \in {"sigwait", "join"} => line.id \in {"CLIENT", "HRT_CBS"}
    /\ p.thread # "none" => p.pc \in {"sigwait", "join"}
    /\ p.pc \in HogPlaces => line.id = "CPU_HOG_CBS"
    /\ p.pc \in {"loop", "sent", "recv"} => line.id \in {"CPU_HOG", "SERVER_HOG"}
    /\ p.pc = "serving" => line.id \in {"SERVER", "SERVER_CLIENT"}

(* What a hog has printed where, and whether its handler has been run.     *)
Printed(line, p) ==
    /\ ~p.masked => p.printed <= 1
    /\ p.pc \in Unprepared \cup {"prepare", "cbs", "sigsuspend", "hog", "print"}
          => ~p.masked /\ p.printed = 0
    /\ line.id = "CPU_HOG_CBS" /\ "s" \notin line.own =>
          /\ p.pc \notin {"print", "destroy_again", "crashed"}
          /\ p.pc \in {"destroy", "return", "exited"} => p.masked /\ p.printed = 1

ProgramsInv ==
    \A i \in Lines : /\ Kind(config[i], proc[i]) /\ Printed(config[i], proc[i])
                     /\ pending[i] # {} => proc[i].pc \notin Unprepared
                     /\ proc_id[i] # NotGiven => proc_id[i] = i /\ proc[i].pc # "none"
                     /\ proc[i].pc = "signalled" => i \in hurried

TypeInv == config \in Configs /\ DriverTypeOK

Signals == {"SIGUSR1", "SIGTERM"}

LEMMA ConfigIs ==
    TypeInv => /\ Len(config) \in Nat /\ Lines = 1..Len(config)
               /\ \A i \in Lines : config[i].id \in ProgramIds /\ config[i].own \in SUBSET {"v", "x", "s"}
  <1> SUFFICES ASSUME TypeInv
               PROVE  /\ Len(config) \in Nat /\ Lines = 1..Len(config)
                      /\ \A i \in Lines : config[i].id \in ProgramIds
                                          /\ config[i].own \in SUBSET {"v", "x", "s"}
    OBVIOUS
  <1> DEFINE T == [id : ProgramIds, own : SUBSET {"v", "x", "s"}]
  <1>1. config \in Seq(T)
    BY ConfigsAssumption DEF TypeInv
  <1>2. \A t \in T : t.id \in ProgramIds /\ t.own \in SUBSET {"v", "x", "s"}
    BY DEF ProgramIds
  <1> HIDE DEF T
  <1>3. Len(config) \in Nat /\ DOMAIN config = 1..Len(config) /\ \A i \in 1..Len(config) : config[i] \in T
    BY <1>1
  <1> QED BY <1>2, <1>3 DEF Lines

(* What one step of a program may change.                                  *)
Goes(i) ==
    /\ Alive(i) /\ proc[i].pc # "forked"
    /\ config' = config /\ argv' = argv
    /\ proc' \in [Lines -> Processes] /\ pending' \in [Lines -> SUBSET Signals]
    /\ \A j \in Lines : j # i => proc'[j] = proc[j] /\ pending'[j] = pending[j]
    /\ pending'[i] \subseteq pending[i]
    /\ proc'[i].pc \notin Unprepared \cup {"killed", "signalled"}
    /\ Kind(config[i], proc'[i]) /\ Printed(config[i], proc'[i])
    /\ proc'[i].pc = "join" => proc[i].pc = "join" \/ "SIGTERM" \in pending[i]

USE DEF Processes, Signals, HogPlaces, Unprepared, Over, Alive

LEMMA PeriodicSteps ==
    ASSUME TypeInv, ProgramsInv, NEW i \in Lines, PeriodicProgram(i) PROVE Goes(i)
  <1>1. /\ proc \in [Lines -> Processes] /\ pending \in [Lines -> SUBSET Signals]
        /\ Kind(config[i], proc[i]) /\ Printed(config[i], proc[i])
        /\ pending[i] # {} => proc[i].pc \notin Unprepared
    BY DEF TypeInv, DriverTypeOK, ProgramsInv
  <1>2. ASSUME NEW ok \in BOOLEAN, PeriodicStart(i, ok) PROVE Goes(i)
    BY <1>1, <1>2 DEF Goes, PeriodicStart, End, HasThread, Kind, Printed
  <1>3. ASSUME NEW ok \in BOOLEAN, EnterCbs(i, ok) PROVE Goes(i)
    BY <1>1, <1>3 DEF Goes, EnterCbs, Kind, Printed
  <1>4. ASSUME NEW ok \in BOOLEAN, CreateTask(i, ok) PROVE Goes(i)
    BY <1>1, <1>4 DEF Goes, CreateTask, End, Kind, Printed
  <1>5. CASE AwaitStart(i)
    BY <1>1, <1>5 DEF Goes, AwaitStart, Kind, Printed
  <1>6. CASE AwaitStop(i)
    BY <1>1, <1>6 DEF Goes, AwaitStop, End, Kind, Printed
  <1>7. CASE Join(i)
    BY <1>1, <1>7 DEF Goes, Join, End, Kind, Printed
  <1>8. ASSUME NEW how \in {"done", "failed", "fatal"}, TaskEnds(i, how) PROVE Goes(i)
    BY <1>1, <1>8 DEF Goes, TaskEnds, End, Kind, Printed
  <1> QED BY <1>2, <1>3, <1>4, <1>5, <1>6, <1>7, <1>8 DEF PeriodicProgram

LEMMA HogSteps ==
    ASSUME TypeInv, ProgramsInv, NEW i \in Lines, CpuHogCbs(i) PROVE Goes(i)
  <1>1. /\ proc \in [Lines -> Processes] /\ pending \in [Lines -> SUBSET Signals]
        /\ Kind(config[i], proc[i]) /\ Printed(config[i], proc[i])
        /\ pending[i] # {} => proc[i].pc \notin Unprepared
    BY DEF TypeInv, DriverTypeOK, ProgramsInv
  <1>2. ASSUME NEW b \in BOOLEAN, HogBlock(i, b) PROVE Goes(i)
    BY <1>1, <1>2 DEF Goes, HogBlock, Become, Kind, Printed
  <1>3. ASSUME NEW b \in BOOLEAN, HogPrepare(i, b) PROVE Goes(i)
    BY <1>1, <1>3 DEF Goes, HogPrepare, Become, Kind, Printed
  <1>4. ASSUME NEW b \in BOOLEAN, HogEnterCbs(i, b) PROVE Goes(i)
    BY <1>1, <1>4 DEF Goes, HogEnterCbs, Become, Kind, Printed
  <1>5. CASE HogStart(i)
    BY <1>1, <1>5 DEF Goes, HogStart, Become, Kind, Printed
  <1>6. CASE HogFinish(i)
    BY <1>1, <1>6 DEF Goes, HogFinish, Become, Kind, Printed
  <1>7. CASE HogPrint(i)
    BY <1>1, <1>7 DEF Goes, HogPrint, Kind, Printed
  <1>8. ASSUME NEW b \in BOOLEAN, HogDestroy(i, b) PROVE Goes(i)
    BY <1>1, <1>8 DEF Goes, HogDestroy, Become, Kind, Printed
  <1>9. CASE HogReturn(i)
    BY <1>1, <1>9 DEF Goes, HogReturn, Become, Kind, Printed
  <1>10. CASE HogHandler(i)
    <2>1. PICK at : at = IF proc[i].pc = "return" THEN "destroy_again" ELSE "destroy"
      OBVIOUS
    <2> DEFINE q == [proc[i] EXCEPT !.printed = @ + 1, !.masked = TRUE, !.pc = at]
    <2>2. /\ proc[i] \in Processes /\ proc[i].printed \in 0..1 /\ ~proc[i].masked
          /\ "s" \notin config[i].own => proc[i].pc \in {"cbs", "hog"} \cup {"destroy", "return"}
          /\ "s" \notin config[i].own /\ ~proc[i].masked => proc[i].printed = 0
      BY <1>1, <1>10 DEF HogHandler, Kind, Printed
    <2>3. at \in {"destroy", "destroy_again"} /\ (at = "destroy_again" => proc[i].pc = "return")
      BY <2>1
    <2>4. /\ q \in Processes /\ q.pc = at /\ q.masked /\ q.printed = proc[i].printed + 1
          /\ q.thread = proc[i].thread
      <3>1. at \in {"destroy", "destroy_again"} /\ proc[i].printed + 1 \in 0..2
        BY <2>2, <2>3
      <3> QED BY <2>2, <3>1
    <2>5. proc[i].thread = "none" /\ config[i].id = "CPU_HOG_CBS"
      BY <1>1, <1>10 DEF HogHandler, Kind
    <2>6. proc' = [proc EXCEPT ![i] = q] /\ Alive(i) /\ proc[i].pc # "forked"
      BY <1>1, <1>10, <2>1 DEF HogHandler
    <2> HIDE DEF q
    <2>7. Kind(config[i], q) /\ Printed(config[i], q)
      <3>1. "s" \notin config[i].own => proc[i].pc \notin {"destroy", "return"}
        BY <1>1, <2>2, <2>5 DEF Printed
      <3> QED BY <2>2, <2>3, <2>4, <2>5, <3>1 DEF Kind, Printed
    <2> QED BY <1>1, <1>10, <2>3, <2>4, <2>6, <2>7 DEF Goes, HogHandler
  <1> QED BY <1>2, <1>3, <1>4, <1>5, <1>6, <1>7, <1>8, <1>9, <1>10 DEF CpuHogCbs

LEMMA LoopSteps ==
    ASSUME TypeInv, ProgramsInv, NEW i \in Lines, LoopProgram(i) PROVE Goes(i)
  <1>1. /\ proc \in [Lines -> Processes] /\ pending \in [Lines -> SUBSET Signals]
        /\ Kind(config[i], proc[i]) /\ Printed(config[i], proc[i])
        /\ pending[i] # {} => proc[i].pc \notin Unprepared
    BY DEF TypeInv, DriverTypeOK, ProgramsInv
  <1>2. ASSUME NEW ok \in BOOLEAN, LoopStart(i, ok) PROVE Goes(i)
    BY <1>1, <1>2 DEF Goes, LoopStart, Become, Kind, Printed
  <1>3. ASSUME NEW ok \in BOOLEAN, HogAnswered(i, ok) PROVE Goes(i)
    BY <1>1, <1>3 DEF Goes, HogAnswered, Become, Kind, Printed
  <1>4. CASE LoopHandler(i)
    <2>1. PICK at : at = IF proc[i].pc = "recv" THEN "loop" ELSE proc[i].pc
      OBVIOUS
    <2> DEFINE q == [proc[i] EXCEPT !.told = TRUE, !.pc = at]
    <2>2. proc[i] \in Processes /\ proc[i].pc \notin Unprepared
      BY <1>1, <1>4 DEF LoopHandler
    <2>3. /\ q \in Processes /\ q.pc = at /\ q.thread = proc[i].thread
          /\ q.masked = proc[i].masked /\ q.printed = proc[i].printed
      BY <2>1, <2>2
    <2>4. proc' = [proc EXCEPT ![i] = q] /\ Alive(i) /\ config[i].id \in {"CPU_HOG", "SERVER_HOG"}
      BY <1>1, <1>4, <2>1 DEF LoopHandler
    <2> HIDE DEF q
    <2>5. Kind(config[i], q) /\ Printed(config[i], q)
      BY <1>1, <2>1, <2>3, <2>4 DEF Kind, Printed
    <2>6. at \notin Unprepared \cup {"killed", "signalled"} /\ proc[i].pc # "forked"
          /\ (at = "join" => proc[i].pc = "join")
      BY <2>1, <2>2, <2>4
    <2>7. config' = config /\ argv' = argv /\ pending' = [pending EXCEPT ![i] = @ \ {"SIGTERM"}]
      BY <1>4 DEF LoopHandler
    <2> QED BY <1>1, <2>3, <2>4, <2>5, <2>6, <2>7 DEF Goes
  <1>5. CASE LoopEnds(i)
    BY <1>1, <1>5 DEF Goes, LoopEnds, Become, Kind, Printed
  <1>6. CASE HogRequest(i)
    BY <1>1, <1>6 DEF Goes, HogRequest, Become, Kind, Printed
  <1>7. CASE HogReceive(i)
    BY <1>1, <1>7 DEF Goes, HogReceive, Become, Kind, Printed
  <1> QED BY <1>2, <1>3, <1>4, <1>5, <1>6, <1>7 DEF LoopProgram

LEMMA ServerSteps ==
    ASSUME TypeInv, ProgramsInv, NEW i \in Lines, ServerProgram(i) PROVE Goes(i)
  <1>1. /\ proc \in [Lines -> Processes] /\ pending \in [Lines -> SUBSET Signals]
        /\ Kind(config[i], proc[i]) /\ Printed(config[i], proc[i])
        /\ pending[i] # {} => proc[i].pc \notin Unprepared
    BY DEF TypeInv, DriverTypeOK, ProgramsInv
  <1>2. ASSUME NEW ok \in BOOLEAN, ServerStart(i, ok) PROVE Goes(i)
    BY <1>1, <1>2 DEF Goes, ServerStart, Become, Kind, Printed
  <1>3. ASSUME NEW ok \in BOOLEAN, ServerEnds(i, ok) PROVE Goes(i)
    BY <1>1, <1>3 DEF Goes, ServerEnds, Become, Kind, Printed
  <1> QED BY <1>2, <1>3 DEF ServerProgram

LEMMA ProgramSteps ==
    ASSUME TypeInv, ProgramsInv, NEW i \in Lines, Program(i) PROVE Goes(i)
  BY PeriodicSteps, HogSteps, LoopSteps, ServerSteps DEF Program

-----------------------------------------------------------------------------
(* The driver.                                                             *)

Known(i)     == proc_id[i] # NotGiven
Unstored(i)  == proc[i].pc # "none" /\ ~Known(i)
BeingMade(i) == At("create") /\ i \in Rest /\ \A j \in Rest : i <= j

(* A step of the script that has been done.                                *)
Done(what, name) == \E k \in 1..(step - 1) : Script[k] = [op |-> what, list |-> name]

(* As long as the script goes on only the process that is being made is    *)
(* not yet known, or not prepared for its signals without its second being *)
(* over; a process takes SIGTERM after its list has been sent it, and has ended once it    *)
(* has been waited for.                                                    *)
InScript(i) ==
    /\ Unstored(i) => BeingMade(i)
    /\ proc[i].pc \in {"forked", "starting"} => BeingMade(i) \/ i \in hurried
    /\ Done("wait", ListName(config[i])) /\ Known(i) => Over(i)
    /\ "SIGTERM" \in pending[i] \/ proc[i].pc = "join" => Done("SIGTERM", ListName(config[i]))

ScriptInv ==
    /\ status = "parse" => step = 1 /\ \A i \in Lines : proc[i].pc = "none"
    /\ status = "script" => \A i \in Lines : InScript(i)

(* At most one process is not known, after an error only if SIGINT came in *)
(* between; the others end with the driver, those of one list after those  *)
(* of the other.                                                           *)
EndInv ==
    /\ \A i, j \in Lines : Unstored(i) /\ Unstored(j) => i = j
    /\ status \in {"exited", "killed"} => \A i \in Lines : ~Alive(i)
    /\ status \in {"terminate", "terminated"} => \A i \in Lines : Unstored(i) => handler
    /\ status = "terminate" =>
          \A k \in 1..(step - 1) : \A i \in Members(Terminated[k]) : Known(i) => ~Alive(i)
    /\ status = "terminated" => \A i \in Lines : Known(i) => ~Alive(i)

ChainInv ==
    status = "script" => \A i \in Lines : config[i].id = "SERVER_CLIENT" => Preceding(i) # 0

DriverInv == TypeInv /\ ProgramsInv /\ ChainInv /\ ScriptInv /\ EndInv

LEMMA LeastOf ==
    ASSUME NEW S \in SUBSET Nat, S # {}
    PROVE  Min(S) \in S /\ \A k \in S : Min(S) <= k
  <1>1. IsWellFoundedOn(OpToRel(<, Nat), Nat)
    BY NatLessThanWellFounded, Zenon
  <1>2. PICK m \in S : \A k \in S : ~ (<<k, m>> \in OpToRel(<, Nat))
    BY <1>1, WFMin, Zenon
  <1>3. \A k \in S : m <= k
    <2> TAKE k \in S
    <2>1. ~ (<<k, m>> \in {ss \in Nat \X Nat : ss[1] < ss[2]})
      BY <1>2 DEF OpToRel
    <2> QED BY <2>1
  <1> QED BY <1>3 DEF Min

LEMMA CreatingIs ==
    ASSUME TypeInv, At("create"), Rest # {}
    PROVE  /\ Creating \in Rest /\ Creating \in Lines /\ Creating >= item
           /\ Creating \in Members(ThisList)
           /\ \A i : BeingMade(i) <=> i = Creating
  <1>1. Rest \in SUBSET Lines /\ Rest \in SUBSET Nat
    BY ConfigIs DEF Rest, Members
  <1>2. Creating \in Rest /\ \A k \in Rest : Creating <= k
    BY <1>1, LeastOf DEF Creating
  <1>3. Creating \in Members(ThisList) /\ Creating >= item
    BY <1>2 DEF Rest
  <1>4. \A i : i \in Rest /\ (\A j \in Rest : i <= j) => i = Creating
    BY <1>1, <1>2
  <1> QED BY <1>1, <1>2, <1>3, <1>4 DEF BeingMade

LEMMA StepIs ==
    ASSUME TypeInv
    PROVE  /\ Len(Script) = 30 /\ step \in 1..31
           /\ Len(config) \in Nat /\ item \in 1..(Len(config) + 1)
  <1>1. Len(Script) = 30
    BY ScriptIs
  <1> QED BY <1>1, ConfigIs DEF TypeInv, DriverTypeOK

LEMMA PlaceKept ==
    ASSUME UNCHANGED <<config, status, step, item>>
    PROVE  /\ \A i : BeingMade(i)' <=> BeingMade(i)
           /\ \A what, name : Done(what, name)' <=> Done(what, name)
  BY DEF BeingMade, At, Rest, Members, ThisList, Lines, Done

LEMMA PrecedingKept ==
    ASSUME config' = config PROVE \A i : Preceding(i)' = Preceding(i)
  BY DEF Preceding

LEMMA ChainKept ==
    ASSUME ChainInv, config' = config, status' = "script" => status = "script" PROVE ChainInv'
  BY PrecedingKept DEF ChainInv, Lines

(* A step of one process, already running, that the driver does not see.   *)
LEMMA OneProcess ==
    ASSUME DriverInv, NEW i \in Lines, config' = config, UNCHANGED driverVars,
           Alive(i), proc'[i].pc # "none",
           proc'[i].pc \in {"forked", "starting"} => proc[i].pc = "forked",
           \A j \in Lines : j # i => proc'[j] = proc[j] /\ pending'[j] = pending[j],
           pending'[i] \subseteq pending[i],
           proc'[i].pc = "join" => proc[i].pc = "join" \/ "SIGTERM" \in pending[i]
    PROVE  ScriptInv' /\ EndInv'
  <1>1. /\ Lines' = Lines /\ status' = status /\ step' = step /\ item' = item
        /\ handler' = handler /\ proc_id' = proc_id /\ hurried' = hurried
    BY DEF driverVars, Lines
  <1>2. \A j \in Lines : Known(j)' = Known(j) /\ (Unstored(j)' <=> Unstored(j))
    BY <1>1 DEF Known, Unstored
  <1>3. \A j \in Lines : Alive(j)' => Alive(j)
    OBVIOUS
  <1>4. \A j \in Lines : Over(j) => Over(j)'
    OBVIOUS
  <1>5. /\ \A j : BeingMade(j)' <=> BeingMade(j)
        /\ \A what, name : Done(what, name)' <=> Done(what, name)
    BY <1>1, PlaceKept
  <1>6. ScriptInv'
    <2>1. status # "parse"
      BY DEF DriverInv, ScriptInv
    <2>2. ASSUME status = "script", NEW j \in Lines PROVE InScript(j)'
      <3>1. InScript(j)
        BY <2>2 DEF DriverInv, ScriptInv
      <3> HIDE DEF Over
      <3> QED BY <1>1, <1>2, <1>4, <1>5, <3>1 DEF InScript
    <2> QED BY <1>1, <2>1, <2>2 DEF ScriptInv
  <1>7. EndInv'
    <2>1. \A k : Members(k)' = Members(k)
      BY <1>1 DEF Members
    <2>2. \A k : Members(k) \subseteq Lines
      BY DEF Members
    <2> HIDE DEF Alive
    <2> QED BY <1>1, <1>2, <1>3, <2>1, <2>2 DEF DriverInv, EndInv
  <1> QED BY <1>6, <1>7

LEMMA ProgramKeeps ==
    ASSUME DriverInv, NEW i \in Lines, Program(i), UNCHANGED driverVars
    PROVE  DriverInv'
  <1>1. Goes(i)
    BY ProgramSteps DEF DriverInv
  <1>2. ScriptInv' /\ EndInv'
    BY <1>1, OneProcess DEF Goes
  <1>3. TypeInv'
    BY <1>1 DEF Goes, DriverInv, TypeInv, DriverTypeOK, driverVars, Lines
  <1>4. ProgramsInv'
    BY <1>1 DEF Goes, DriverInv, ProgramsInv, driverVars, Lines
  <1>5. ChainInv'
    BY <1>1, ChainKept DEF Goes, DriverInv, driverVars
  <1> QED BY <1>2, <1>3, <1>4, <1>5 DEF DriverInv

LEMMA ExecKeeps ==
    ASSUME DriverInv, NEW i \in Lines, Exec(i)
    PROVE  DriverInv'
  <1>1. /\ proc \in [Lines -> Processes] /\ proc[i].pc = "forked"
        /\ proc' = [proc EXCEPT ![i] = [proc[i] EXCEPT !.pc = "starting"]]
        /\ UNCHANGED <<config, argv, pending>> /\ UNCHANGED driverVars
    BY DEF DriverInv, TypeInv, DriverTypeOK, Exec, Become
  <1>2. ScriptInv' /\ EndInv'
    BY <1>1, OneProcess
  <1>3. TypeInv'
    <2>1. proc[i] \in Processes
      BY <1>1
    <2>2. [proc[i] EXCEPT !.pc = "starting"] \in Processes
      BY <2>1
    <2>3. proc' \in [Lines -> Processes]
      BY <1>1, <2>2
    <2> QED BY <1>1, <2>3 DEF DriverInv, TypeInv, DriverTypeOK, driverVars, Lines
  <1>4. ProgramsInv'
    BY <1>1 DEF DriverInv, ProgramsInv, driverVars, Lines, Kind, Printed
  <1>5. ChainInv'
    BY <1>1, ChainKept DEF Goes, DriverInv, driverVars
  <1> QED BY <1>2, <1>3, <1>4, <1>5 DEF DriverInv

LEMMA KilledIs ==
    LET q == [NoProcess EXCEPT !.pc = "killed"]
    IN q \in Processes /\ q.pc = "killed" /\ q.thread = "none" /\ ~q.masked /\ q.printed = 0
  <1>1. /\ NoProcess \in Processes /\ NoProcess.thread = "none"
        /\ NoProcess.masked = FALSE /\ NoProcess.printed = 0
    BY DEF NoProcess
  <1> QED BY <1>1

(* What kill(0) reaches.                                                   *)
LEMMA ExecFailsKeeps ==
    ASSUME DriverInv, NEW i \in Lines, ExecFails(i)
    PROVE  DriverInv'
  <1> DEFINE q == [NoProcess EXCEPT !.pc = "killed"]
  <1>1. /\ proc \in [Lines -> Processes] /\ proc[i].pc = "forked" /\ Lines' = Lines
        /\ proc' = [j \in Lines |-> IF Alive(j) THEN q ELSE proc[j]]
        /\ UNCHANGED <<config, argv, pending, step, item, handler, proc_id, hurried>>
    BY DEF DriverInv, TypeInv, DriverTypeOK, ExecFails, Lines
  <1>2. q \in Processes /\ q.pc = "killed" /\ q.thread = "none" /\ ~q.masked /\ q.printed = 0
    BY KilledIs
  <1>3. status' \in {"exited", "terminated", "killed"} /\ (status' = "terminated" => status = "terminated")
    BY DEF ExecFails
  <1> HIDE DEF q
  <1>4. \A j \in Lines : /\ ~Alive(j)' /\ (proc'[j].pc # "none" <=> proc[j].pc # "none")
                         /\ (Unstored(j)' <=> Unstored(j))
    BY <1>1, <1>2 DEF Unstored, Known
  <1>5. TypeInv'
    BY <1>1, <1>2, <1>3 DEF DriverInv, TypeInv, DriverTypeOK
  <1>6. ProgramsInv'
    BY <1>1, <1>2 DEF DriverInv, ProgramsInv, Kind, Printed
  <1>7. ScriptInv'
    BY <1>3 DEF ScriptInv
  <1>8. EndInv'
    BY <1>1, <1>3, <1>4 DEF DriverInv, EndInv
  <1>9. ChainInv'
    BY <1>3 DEF ChainInv
  <1> QED BY <1>1, <1>2, <1>5, <1>6, <1>7, <1>8, <1>9 DEF DriverInv

-----------------------------------------------------------------------------
(* The options.                                                            *)

Values  == {NotGiven, Own, Placeholder, Duration} \cup Lines
Options == [opt : {"v", "x"}, val : Values]

LEMMA GreatestOf ==
    ASSUME NEW n \in Nat, NEW S \in SUBSET (1..n), S # {}
    PROVE  Max(S) \in S /\ \A k \in S : k <= Max(S)
  <1> DEFINE T == {n - k : k \in S}
  <1>1. T \in SUBSET Nat /\ T # {}
    <2>1. \A k \in S : n - k \in Nat
      OBVIOUS
    <2> QED BY <2>1
  <1>2. PICK t \in T : \A k \in T : t <= k
    BY <1>1, LeastOf
  <1>3. PICK m \in S : t = n - m
    BY <1>2
  <1>4. \A k \in S : n - m <= n - k
    BY <1>2, <1>3
  <1>5. \A k \in S : k <= m
    BY <1>4
  <1> QED BY <1>5 DEF Max

(* A server whose port or process others use comes before them.            *)
LEMMA PrecedingIs ==
    ASSUME TypeInv, NEW i \in Lines, Preceding(i) # 0
    PROVE  /\ Preceding(i) \in Lines /\ Preceding(i) < i
           /\ config[Preceding(i)].id \in {"SERVER", "SERVER_CLIENT"}
           /\ ListName(config[Preceding(i)]) = "SERVER"
  <1> DEFINE servers == {j \in 1..(i - 1) : config[j].id \in {"SERVER", "SERVER_CLIENT"}}
  <1>1. i \in 1..Len(config) /\ Lines = 1..Len(config) /\ Len(config) \in Nat
    BY ConfigIs
  <1>2. servers # {} /\ Preceding(i) = Max(servers)
    BY DEF Preceding
  <1>3. servers \in SUBSET (1..(i - 1)) /\ i - 1 \in Nat
    BY <1>1
  <1>4. Preceding(i) \in servers
    <2> HIDE DEF servers
    <2> QED BY <1>2, <1>3, GreatestOf
  <1>5. Preceding(i) \in 1..(i - 1) /\ config[Preceding(i)].id \in {"SERVER", "SERVER_CLIENT"}
    BY <1>4
  <1> QED BY <1>1, <1>5 DEF ListName

LEMMA OptionIsOption ==
    ASSUME NEW o \in {"v", "x"}, NEW val \in Values
    PROVE  /\ Option(o, val) \in Options /\ Option(o, val).opt = o /\ Option(o, val).val = val
  BY DEF Options, Option

LEMMA LineOptionsType ==
    ASSUME NEW i \in Lines
    PROVE  LineOptions(i) \in Seq(Options)
  <1>1. \A o \in {"v", "x"} : Option(o, Own) \in Options /\ Option(o, Placeholder) \in Options
    BY OptionIsOption DEF Values
  <1>2. \A o \in {"v", "x"} : OwnOption(i, o) \in Seq(Options)
    BY <1>1 DEF OwnOption
  <1>3. Appended(i) \in Seq(Options)
    BY <1>1 DEF Appended
  <1> QED BY <1>2, <1>3 DEF LineOptions

LEMMA AdjustType ==
    ASSUME NEW s \in Seq(Options), NEW o, NEW val \in Values
    PROVE  Adjust(s, o, val) \in Seq(Options)
  <1>1. PICK k : k = SelectInSeq(s, LAMBDA p : p.opt = o)
    OBVIOUS
  <1>2. Adjust(s, o, val) = IF k = 0 THEN s ELSE [s EXCEPT ![k].val = val]
    BY <1>1 DEF Adjust
  <1>3. CASE k \in DOMAIN s
    <2>1. s[k] \in Options
      BY <1>3
    <2>2. [s[k] EXCEPT !.val = val] \in Options
      BY <2>1 DEF Options
    <2>3. [s EXCEPT ![k] = [s[k] EXCEPT !.val = val]] \in Seq(Options)
      BY <1>3, <2>2
    <2>4. [s EXCEPT ![k].val = val] = [s EXCEPT ![k] = [s[k] EXCEPT !.val = val]]
      OBVIOUS
    <2> QED BY <1>2, <2>3, <2>4
  <1>4. CASE k \notin DOMAIN s
    <2>1. [s EXCEPT ![k].val = val] = s
      BY <1>4
    <2> QED BY <1>2, <2>1
  <1> QED BY <1>3, <1>4

LEMMA AdjustedType ==
    ASSUME TypeInv, NEW i \in Lines
    PROVE  Adjusted(i) \in Seq(Options)
  <1>1. LineOptions(i) \in Seq(Options)
    BY LineOptionsType
  <1>2. Preceding(i) # 0 => proc_id[Preceding(i)] \in Values
    BY PrecedingIs DEF TypeInv, DriverTypeOK, Values
  <1>3. PICK v : v = IF config[i].id = "CLIENT" /\ Preceding(i) # 0
                     THEN Adjust(LineOptions(i), "v", proc_id[Preceding(i)]) ELSE LineOptions(i)
    OBVIOUS
  <1>4. v \in Seq(Options)
    BY <1>1, <1>2, <1>3, AdjustType
  <1>5. Adjust(v, "x", Duration) \in Seq(Options)
    BY <1>4, AdjustType DEF Values
  <1> QED BY <1>3, <1>4, <1>5 DEF Adjusted

LEMMA SubserverType ==
    ASSUME DriverInv, status = "script", NEW i \in Lines
    PROVE  AdjustedForSubserver(i) \in Seq(Options)
  <1>1. argv[i] \in Seq(Options)
    BY DEF DriverInv, TypeInv, DriverTypeOK, Options, Values
  <1>2. CASE config[i].id = "SERVER_CLIENT"
    <2>1. proc_id[Preceding(i)] \in Values
      BY <1>2, PrecedingIs DEF DriverInv, ChainInv, TypeInv, DriverTypeOK, Values
    <2> QED BY <1>1, <1>2, <2>1, AdjustType DEF AdjustedForSubserver
  <1> QED BY <1>1, <1>2 DEF AdjustedForSubserver

-----------------------------------------------------------------------------
(* The driver's steps.                                                     *)

LEMMA NextRanges ==
    ASSUME TypeInv, config' = config
    PROVE  /\ step' = 1 \/ (step \in 1..30 /\ step' = step + 1) => step' \in 1..(Len(Script) + 1)
           /\ item' = 1 \/ item' = item => item' \in 1..(Len(config) + 1)
  <1>1. /\ Len(Script) = 30 /\ step \in 1..31
        /\ Len(config) \in Nat /\ item \in 1..(Len(config) + 1)
    BY StepIs
  <1>2. step \in 1..30 => step + 1 \in 1..31
    OBVIOUS
  <1>3. 1 \in 1..(Len(config) + 1)
    BY <1>1
  <1>4. 1..(Len(Script) + 1) = 1..31
    BY <1>1
  <1>5. step' = 1 \/ (step \in 1..30 /\ step' = step + 1) => step' \in 1..31
    BY <1>2
  <1>6. item' = 1 \/ item' = item => item' \in 1..(Len(config) + 1)
    BY <1>1, <1>3
  <1> QED BY <1>4, <1>5, <1>6

LEMMA AtIs ==
    ASSUME TypeInv, NEW what, At(what)
    PROVE  /\ status = "script" /\ step \in 1..30 /\ Script[step].op = what
           /\ Script[step] = [op |-> what, list |-> ThisList]
  <1>3. Len(Script) = 30 /\ step \in 1..31
    BY StepIs
  <1>4. status = "script" /\ step <= Len(Script) /\ Script[step].op = what
    BY DEF At
  <1>1. status = "script" /\ step \in 1..30 /\ Script[step].op = what
    BY <1>3, <1>4
  <1>2. \A k \in 1..30 : Script[k] = [op |-> Script[k].op, list |-> Script[k].list]
    BY ScriptIs
  <1> QED BY <1>1, <1>2 DEF ThisList

LEMMA DoneNext ==
    ASSUME NEW what, step \in 1..30, Script[step] = [op |-> what, list |-> ThisList],
           step' = step + 1
    PROVE  \A w, name : Done(w, name)' <=> Done(w, name) \/ (w = what /\ name = ThisList)
  <1> TAKE w, name
  <1>1. (step + 1) - 1 = step /\ 1..step = 1..(step - 1) \cup {step}
    OBVIOUS
  <1>2. Script[step] = [op |-> w, list |-> name] <=> w = what /\ name = ThisList
    OBVIOUS
  <1> QED BY <1>1, <1>2 DEF Done

(* The next step of the script, when no process is being made.             *)
LEMMA ScriptAdvances ==
    ASSUME DriverInv, NEW what, At(what), status' = "script", step' = step + 1,
           config' = config, proc_id' = proc_id, hurried' = hurried,
           \A i \in Lines : proc'[i] = proc[i] \/ (Known(i) /\ proc[i].pc # "none" /\ Over(i)'),
           \A i \in Lines : ~BeingMade(i),
           what = "wait" => \A i \in Members(ThisList) : Known(i) => Over(i),
           \A i \in Lines : "SIGTERM" \in pending'[i] =>
               \/ "SIGTERM" \in pending[i]
               \/ what = "SIGTERM" /\ ThisList = ListName(config[i])
    PROVE  ScriptInv' /\ EndInv' /\ ChainInv'
  <1>1. /\ status = "script" /\ step \in 1..30
        /\ Script[step] = [op |-> what, list |-> ThisList]
    BY AtIs DEF DriverInv
  <1>2. \A w, name : Done(w, name)' <=> Done(w, name) \/ (w = what /\ name = ThisList)
    BY <1>1, DoneNext
  <1>3. ASSUME NEW i \in Lines PROVE InScript(i)'
    <2>1. InScript(i) /\ ~BeingMade(i)
      BY <1>1 DEF DriverInv, ScriptInv
    <2>6. \/ proc'[i] = proc[i]
          \/ Known(i) /\ proc'[i].pc \notin {"forked", "starting", "join"} /\ Over(i)'
      OBVIOUS
    <2>2. ~Unstored(i)' /\ (proc'[i].pc \in {"forked", "starting"} => i \in hurried')
      BY <2>1, <2>6 DEF InScript, Unstored, Known
    <2>3. Done("wait", ListName(config[i])) \/ (what = "wait" /\ ThisList = ListName(config[i]))
             => (Known(i) => Over(i))
      BY <2>1 DEF InScript, Members
    <2>4. "SIGTERM" \in pending'[i] \/ proc'[i].pc = "join" =>
             Done("SIGTERM", ListName(config[i])) \/ (what = "SIGTERM" /\ ThisList = ListName(config[i]))
      BY <2>1, <2>6 DEF InScript
    <2>5. (Known(i)' <=> Known(i)) /\ (Over(i) => Over(i)') /\ ListName(config[i])' = ListName(config[i])
      BY <2>6 DEF Known
    <2> HIDE DEF Over
    <2> QED BY <1>2, <2>2, <2>3, <2>4, <2>5 DEF InScript
  <1>4. ScriptInv'
    BY <1>3 DEF ScriptInv, Lines
  <1>5. EndInv'
    <2>1. \A i \in Lines : Unstored(i)' => Unstored(i)
      BY DEF Unstored, Known
    <2> QED BY <1>1, <2>1 DEF DriverInv, EndInv, Lines
  <1>6. ChainInv'
    BY <1>1, ChainKept DEF DriverInv
  <1> QED BY <1>4, <1>5, <1>6

(* A step of the script that does nothing to the processes.                *)
LEMMA OnlyAdvance ==
    ASSUME DriverInv, NEW what, At(what), NextStep, status' = status, handler' = handler,
           UNCHANGED <<programVars, proc_id, hurried>>,
           \A i \in Lines : ~BeingMade(i),
           what = "wait" => \A i \in Members(ThisList) : Known(i) => Over(i)
    PROVE  DriverInv'
  <1>1. /\ config' = config /\ proc' = proc /\ argv' = argv /\ pending' = pending
        /\ proc_id' = proc_id /\ hurried' = hurried
        /\ Lines' = Lines /\ step' = step + 1 /\ item' = 1
    BY DEF programVars, Lines, NextStep
  <1>2. status = "script" /\ step \in 1..30
    BY AtIs DEF DriverInv
  <1>3. ScriptInv' /\ EndInv' /\ ChainInv'
    BY <1>1, <1>2, ScriptAdvances
  <1>4. step' \in 1..(Len(Script) + 1) /\ item' \in 1..(Len(config) + 1)
    BY <1>1, <1>2, NextRanges DEF DriverInv
  <1>5. TypeInv' /\ ProgramsInv'
    BY <1>1, <1>2, <1>4 DEF DriverInv, TypeInv, DriverTypeOK, ProgramsInv
  <1> QED BY <1>3, <1>5 DEF DriverInv

(* goto error, or SIGINT.                                                  *)
LEMMA GiveUpKeeps ==
    ASSUME DriverInv, GiveUp, UNCHANGED programVars, proc_id' = proc_id, hurried' = hurried,
           item' = item, handler' \in BOOLEAN,
           handler' \/ \A i \in Lines : ~Unstored(i)
    PROVE  DriverInv'
  <1>1. /\ config' = config /\ proc' = proc /\ argv' = argv /\ pending' = pending
        /\ Lines' = Lines /\ status' = "terminate" /\ step' = 1
    BY DEF programVars, Lines, GiveUp
  <1>2. TypeInv'
    <2>1. step' \in 1..(Len(Script) + 1) /\ item' \in 1..(Len(config) + 1)
      BY <1>1, NextRanges DEF DriverInv
    <2> QED BY <1>1, <2>1 DEF DriverInv, TypeInv, DriverTypeOK
  <1>3. ProgramsInv'
    BY <1>1 DEF DriverInv, ProgramsInv
  <1>4. ScriptInv' /\ ChainInv'
    BY <1>1 DEF ScriptInv, ChainInv
  <1>5. EndInv'
    BY <1>1 DEF DriverInv, EndInv, Unstored, Known
  <1> QED BY <1>2, <1>3, <1>4, <1>5 DEF DriverInv

(* No process is being made but at the steps that make processes.          *)
LEMMA NobodyUnstored ==
    ASSUME DriverInv, status = "parse" \/ (status = "script" /\ \A i \in Lines : ~BeingMade(i))
    PROVE  \A i \in Lines : ~Unstored(i) /\ (proc[i].pc \in {"forked", "starting"} => i \in hurried)
  BY DEF DriverInv, ScriptInv, InScript, Unstored

LEMMA NotMaking ==
    ASSUME NEW what, At(what), what # "create"
    PROVE  \A i : ~BeingMade(i)
  BY DEF BeingMade, At

LEMMA ParseConfigKeeps ==
    ASSUME DriverInv, NEW ok \in BOOLEAN, ParseConfig(ok)
    PROVE  DriverInv'
  <1>1. /\ status = "parse" /\ UNCHANGED programVars /\ item' = item /\ handler' = handler
        /\ proc_id' = proc_id /\ hurried' = hurried /\ handler \in BOOLEAN
    BY DEF ParseConfig, DriverInv, TypeInv, DriverTypeOK
  <1>2. CASE GiveUp
    BY <1>1, <1>2, GiveUpKeeps, NobodyUnstored
  <1>3. CASE /\ status' = "script" /\ step' = step
             /\ \A i \in Lines : config[i].id = "SERVER_CLIENT" => Preceding(i) # 0
    <2>1. /\ config' = config /\ proc' = proc /\ argv' = argv /\ pending' = pending
          /\ Lines' = Lines
      BY <1>1 DEF programVars, Lines
    <2>2. TypeInv' /\ ProgramsInv'
      BY <1>1, <1>3, <2>1 DEF DriverInv, TypeInv, DriverTypeOK, ProgramsInv
    <2>3. ChainInv'
      BY <1>3, <2>1, PrecedingKept DEF ChainInv
    <2>4. step = 1 /\ \A i \in Lines : proc[i].pc = "none" /\ ~Known(i) /\ pending[i] = {}
      BY <1>1 DEF DriverInv, ScriptInv, ProgramsInv, Known
    <2>5. ScriptInv'
      BY <1>1, <1>3, <2>1, <2>4 DEF ScriptInv, InScript, Unstored, Known
    <2>6. EndInv'
      BY <1>1, <1>3, <2>1, <2>4 DEF EndInv, Unstored
    <2> QED BY <2>2, <2>3, <2>5, <2>6 DEF DriverInv
  <1> QED BY <1>2, <1>3 DEF ParseConfig

LEMMA MakeArgvKeeps ==
    ASSUME DriverInv, NEW ok \in BOOLEAN, MakeArgv(ok)
    PROVE  DriverInv'
  <1>1. /\ At("argv") /\ UNCHANGED <<config, proc, pending, handler, proc_id, hurried>> /\ Lines' = Lines
        /\ handler \in BOOLEAN
    BY DEF MakeArgv, Lines, DriverInv, TypeInv, DriverTypeOK
  <1>2. \A i \in Lines : ~BeingMade(i)
    BY <1>1, NotMaking
  <1>3. status = "script" /\ step \in 1..30
    BY <1>1, AtIs DEF DriverInv
  <1>4. CASE ok
    <2>1. /\ argv' = [i \in Lines |-> IF i \in Members(ThisList) THEN Adjusted(i) ELSE argv[i]]
          /\ step' = step + 1 /\ item' = 1 /\ status' = "script"
      BY <1>3, <1>4 DEF MakeArgv, NextStep
    <2>2. argv' \in [Lines -> Seq(Options)]
      BY <2>1, AdjustedType DEF DriverInv, TypeInv, DriverTypeOK, Options, Values
    <2>3. step' \in 1..(Len(Script) + 1) /\ item' \in 1..(Len(config) + 1)
      BY <1>1, <1>3, <2>1, NextRanges DEF DriverInv
    <2>4. TypeInv'
      BY <1>1, <2>1, <2>2, <2>3 DEF DriverInv, TypeInv, DriverTypeOK, Options, Values
    <2>5. ProgramsInv'
      BY <1>1 DEF DriverInv, ProgramsInv
    <2>6. ScriptInv' /\ EndInv' /\ ChainInv'
      BY <1>1, <1>2, <2>1, ScriptAdvances
    <2> QED BY <2>4, <2>5, <2>6 DEF DriverInv
  <1>5. CASE ~ok
    <2>1. GiveUp /\ UNCHANGED programVars /\ item' = item
      BY <1>1, <1>5 DEF MakeArgv, programVars
    <2> QED BY <1>1, <1>2, <1>3, <2>1, GiveUpKeeps, NobodyUnstored
  <1> QED BY <1>4, <1>5

LEMMA EnterDeadlineKeeps ==
    ASSUME DriverInv, NEW ok \in BOOLEAN, EnterDeadline(ok)
    PROVE  DriverInv'
  <1>1. /\ At("sched_deadline_enter") /\ UNCHANGED <<programVars, handler, proc_id, hurried>>
        /\ handler \in BOOLEAN
    BY DEF EnterDeadline, DriverInv, TypeInv, DriverTypeOK
  <1>2. \A i \in Lines : ~BeingMade(i)
    BY <1>1, NotMaking
  <1>3. status = "script" /\ step \in 1..30
    BY <1>1, AtIs DEF DriverInv
  <1>4. CASE ok
    BY <1>1, <1>2, <1>3, <1>4, OnlyAdvance DEF EnterDeadline
  <1>5. CASE ~ok
    BY <1>1, <1>2, <1>3, <1>5, GiveUpKeeps, NobodyUnstored DEF EnterDeadline
  <1> QED BY <1>4, <1>5

LEMMA ForkKeeps ==
    ASSUME DriverInv, NEW ok \in BOOLEAN, Fork(ok)
    PROVE  DriverInv'
  <1>1. /\ At("create") /\ Rest # {} /\ proc[Creating].pc = "none"
        /\ UNCHANGED <<config, pending, item, handler, proc_id, hurried>> /\ Lines' = Lines
        /\ handler \in BOOLEAN
    BY DEF Fork, Lines, DriverInv, TypeInv, DriverTypeOK
  <1>2. /\ Creating \in Lines /\ \A i : BeingMade(i) <=> i = Creating
        /\ status = "script"
    BY <1>1, CreatingIs DEF DriverInv, At
  <1>3. \A i \in Lines : ~Unstored(i) /\ (proc[i].pc \in {"forked", "starting"} => i \in hurried)
    BY <1>1, <1>2 DEF DriverInv, ScriptInv, InScript, Unstored
  <1>4. CASE ok
    <2>1. PICK c \in Lines : c = Creating
      BY <1>2
    <2>2. /\ argv' = [argv EXCEPT ![c] = AdjustedForSubserver(c)]
          /\ proc' = [proc EXCEPT ![c].pc = "forked"] /\ status' = status /\ step' = step
      BY <1>4, <2>1 DEF Fork, Become
    <2>3. /\ proc \in [Lines -> Processes] /\ argv \in [Lines -> Seq(Options)]
      BY DEF DriverInv, TypeInv, DriverTypeOK, Options, Values
    <2>4. argv' \in [Lines -> Seq(Options)]
      BY <1>2, <2>2, <2>3, SubserverType
    <2>5. [proc[c] EXCEPT !.pc = "forked"] \in Processes
      <3>1. proc[c] \in Processes
        BY <2>3
      <3> QED BY <3>1
    <2>6. proc' \in [Lines -> Processes]
      BY <2>2, <2>3, <2>5
    <2>7. TypeInv'
      BY <1>1, <2>2, <2>4, <2>6 DEF DriverInv, TypeInv, DriverTypeOK, Options, Values
    <2>8. /\ proc[c].pc = "none" /\ proc'[c].pc = "forked" /\ proc'[c].thread = proc[c].thread
          /\ proc'[c].masked = proc[c].masked /\ proc'[c].printed = proc[c].printed
          /\ \A i \in Lines : i # c => proc'[i] = proc[i]
      BY <1>1, <2>1, <2>2, <2>3
    <2>9. ProgramsInv'
      BY <1>1, <2>8 DEF DriverInv, ProgramsInv, Kind, Printed
    <2>10. \A i \in Lines : Unstored(i)' => i = c
      BY <1>1, <1>3, <2>8 DEF Unstored, Known
    <2>11. /\ \A i : BeingMade(i)' <=> i = c
           /\ \A what, name : Done(what, name)' <=> Done(what, name)
      BY <1>1, <1>2, <2>1, <2>2, PlaceKept
    <2>12. ASSUME NEW i \in Lines PROVE InScript(i)'
      <3>1. InScript(i)
        BY <1>2 DEF DriverInv, ScriptInv
      <3>2. /\ Unstored(i)' => BeingMade(i)'
            /\ proc'[i].pc \in {"forked", "starting"} => BeingMade(i)' \/ i \in hurried'
        BY <1>1, <1>3, <2>8, <2>10, <2>11
      <3>3. /\ (Known(i)' <=> Known(i)) /\ (Known(i) /\ Over(i) => Over(i)')
            /\ (proc'[i].pc = "join" => proc[i].pc = "join")
            /\ config'[i] = config[i] /\ pending'[i] = pending[i]
        BY <1>1, <2>8 DEF Known
      <3> HIDE DEF Over
      <3> QED BY <2>11, <3>1, <3>2, <3>3 DEF InScript, ListName
    <2>13. ScriptInv'
      BY <1>1, <1>2, <2>2, <2>12 DEF ScriptInv
    <2>14. EndInv'
      BY <1>1, <1>2, <2>2, <2>10 DEF EndInv
    <2>15. ChainInv'
      BY <1>1, <2>2, ChainKept DEF DriverInv
    <2> QED BY <2>7, <2>9, <2>13, <2>14, <2>15 DEF DriverInv
  <1>5. CASE ~ok
    <2>1. GiveUp /\ UNCHANGED programVars
      BY <1>1, <1>5 DEF Fork, programVars
    <2> QED BY <1>1, <1>3, <2>1, GiveUpKeeps
  <1> QED BY <1>4, <1>5

(* No process has been waited for when one is created.                     *)
LEMMA WaitsComeLast ==
    ASSUME TypeInv, At("create") PROVE \A name : ~Done("wait", name)
  <1>1. step \in 1..30 /\ Script[step].op = "create"
    BY AtIs
  <1>2. step <= 12
    BY <1>1, ScriptSteps
  <1>3. \A k \in 1..(step - 1) : Script[k].op # "wait"
    BY <1>1, <1>2, ScriptSteps
  <1> QED BY <1>3 DEF Done

LEMMA StoreProcIdKeeps ==
    ASSUME DriverInv, StoreProcId
    PROVE  DriverInv'
  <1>1. /\ At("create") /\ Rest # {} /\ proc[Creating].pc # "none" /\ proc_id[Creating] = NotGiven
        /\ config' = config /\ argv' = argv /\ proc' = proc /\ pending' = pending
        /\ status' = status /\ step' = step /\ item' = item /\ handler' = handler
        /\ Lines' = Lines /\ hurried' = hurried
        /\ proc_id' = [proc_id EXCEPT ![Creating] = Creating]
    BY DEF StoreProcId, Lines, programVars
  <1>2. Creating \in Lines /\ status = "script"
    BY <1>1, CreatingIs DEF DriverInv, At
  <1>3. PICK c \in Lines : c = Creating
    BY <1>2
  <1>4. proc_id \in [Lines -> {NotGiven} \cup Lines] /\ proc_id' = [proc_id EXCEPT ![c] = c]
    BY <1>1, <1>3 DEF DriverInv, TypeInv, DriverTypeOK
  <1>5. TypeInv'
    <2>1. proc_id' \in [Lines -> {NotGiven} \cup Lines]
      BY <1>4
    <2> QED BY <1>1, <2>1 DEF DriverInv, TypeInv, DriverTypeOK
  <1>6. ProgramsInv'
    BY <1>1, <1>3, <1>4 DEF DriverInv, ProgramsInv
  <1>7. \A i \in Lines : /\ Unstored(i)' => Unstored(i)
                         /\ i # c => (Known(i)' <=> Known(i))
    BY <1>1, <1>3, <1>4 DEF Unstored, Known
  <1>8. /\ \A i : BeingMade(i)' <=> BeingMade(i)
        /\ \A what, name : Done(what, name)' <=> Done(what, name)
    BY <1>1, PlaceKept
  <1>9. \A name : ~Done("wait", name)
    BY <1>1, WaitsComeLast DEF DriverInv
  <1>10. ASSUME NEW i \in Lines PROVE InScript(i)'
    <2>1. InScript(i) /\ ListName(config[i])' = ListName(config[i])
      BY <1>1, <1>2 DEF DriverInv, ScriptInv
    <2> QED BY <1>1, <1>7, <1>8, <1>9, <2>1 DEF InScript
  <1>11. ScriptInv'
    BY <1>1, <1>2, <1>10 DEF ScriptInv
  <1>12. EndInv'
    BY <1>1, <1>2, <1>7 DEF DriverInv, EndInv
  <1>13. ChainInv'
    BY <1>1, ChainKept DEF DriverInv
  <1> QED BY <1>5, <1>6, <1>11, <1>12, <1>13 DEF DriverInv

LEMMA SleepASecondKeeps ==
    ASSUME DriverInv, SleepASecond
    PROVE  DriverInv'
  <1>1. /\ At("create") /\ Rest # {} /\ proc_id[Creating] # NotGiven
        /\ config' = config /\ argv' = argv /\ proc' = proc /\ pending' = pending
        /\ status' = status /\ step' = step /\ handler' = handler /\ proc_id' = proc_id
        /\ Lines' = Lines /\ item' = Creating + 1
    BY DEF SleepASecond, Lines, programVars
  <1>2. /\ Creating \in Lines /\ status = "script"
        /\ \A i : BeingMade(i) <=> i = Creating
    BY <1>1, CreatingIs DEF DriverInv, At
  <1>h. /\ hurried \in SUBSET Lines /\ hurried' \in SUBSET Lines /\ hurried \subseteq hurried'
        /\ proc[Creating].pc \in {"forked", "starting"} => Creating \in hurried'
    BY <1>2 DEF SleepASecond, DriverInv, TypeInv, DriverTypeOK
  <1>3. TypeInv' /\ ProgramsInv'
    <2>1. item' \in 1..(Len(config) + 1)
      BY <1>1, <1>2, ConfigIs DEF DriverInv
    <2> QED BY <1>1, <1>h, <2>1 DEF DriverInv, TypeInv, DriverTypeOK, ProgramsInv
  <1>4. \A i \in Lines : ~Unstored(i) /\ (proc[i].pc \in {"forked", "starting"} => i \in hurried')
    <2>1. \A i \in Lines : InScript(i)
      BY <1>2 DEF DriverInv, ScriptInv
    <2>2. ~Unstored(Creating)
      BY <1>1, <1>2 DEF Unstored, Known
    <2> QED BY <1>2, <1>h, <2>1, <2>2 DEF InScript
  <1>5. \A what, name : Done(what, name)' <=> Done(what, name)
    BY <1>1 DEF Done
  <1>6. ASSUME NEW i \in Lines PROVE InScript(i)'
    <2>1. InScript(i) /\ ListName(config[i])' = ListName(config[i])
      BY <1>1, <1>2 DEF DriverInv, ScriptInv
    <2>2. (Unstored(i)' <=> Unstored(i)) /\ (Known(i)' <=> Known(i))
      BY <1>1 DEF Unstored, Known
    <2> QED BY <1>1, <1>4, <1>5, <2>1, <2>2 DEF InScript
  <1>7. ScriptInv'
    BY <1>1, <1>2, <1>6 DEF ScriptInv
  <1>8. EndInv'
    BY <1>1, <1>2 DEF DriverInv, EndInv, Unstored, Known
  <1>9. ChainInv'
    BY <1>1, ChainKept DEF DriverInv
  <1> QED BY <1>3, <1>7, <1>8, <1>9 DEF DriverInv

(* Only a process that is sent a signal before it is prepared dies of it,  *)
(* and its second is over.                                                 *)
LEMMA KillReaches ==
    ASSUME DriverInv, NEW signal \in Signals, ProcsKill(signal)
    PROVE  /\ proc' \in [Lines -> Processes]
           /\ \A i \in Lines :
                 \/ proc'[i] = proc[i]
                 \/ /\ Known(i) /\ Alive(i) /\ i \in hurried
                    /\ proc'[i] = [NoProcess EXCEPT !.pc = "signalled"]
  <1>1. /\ At(signal) /\ status = "script" /\ step \in 1..30
        /\ Script[step] = [op |-> signal, list |-> ThisList]
    BY AtIs DEF ProcsKill, DriverInv
  <1>2. \A i : ~BeingMade(i)
    BY <1>1, NotMaking
  <1>3. signal = "SIGUSR1" => ThisList # "CPU_HOG"
    BY <1>1, StartedLists
  <1>4. ASSUME NEW i \in Members(ThisList), Known(i), Alive(i), i \notin hurried
        PROVE  signal \in Withstands(i)
    <2>1. i \in Lines /\ ListName(config[i]) = ThisList /\ InScript(i)
          /\ config[i].id \in ProgramIds
      BY <1>1, ConfigIs DEF Members, DriverInv, ScriptInv
    <2>2. proc[i].pc \notin {"forked", "starting"}
      BY <1>2, <1>4, <2>1 DEF InScript
    <2>3. signal = "SIGTERM" => proc[i].pc # "join"
      <3>1. ASSUME signal = "SIGTERM", proc[i].pc = "join" PROVE FALSE
        <4>1. PICK k \in 1..(step - 1) : Script[k] = [op |-> "SIGTERM", list |-> ThisList]
          BY <2>1, <3>1 DEF InScript, Done
        <4>2. k \in 1..30 /\ k # step /\ Script[k] = Script[step]
          BY <1>1, <3>1, <4>1
        <4> QED BY <1>1, <3>1, <4>2, TerminatedOnce
      <3> QED BY <3>1
    <2>4. signal = "SIGUSR1" => config[i].id # "CPU_HOG"
      BY <1>3, <2>1 DEF ListName
    <2> QED BY <2>2, <2>3, <2>4 DEF Withstands
  <1>5. proc \in [Lines -> Processes]
    BY DEF DriverInv, TypeInv, DriverTypeOK
  <1>6. PICK q : q = [NoProcess EXCEPT !.pc = "signalled"]
    OBVIOUS
  <1>7. q \in Processes
    <2>1. q = [pc |-> "signalled", thread |-> "none", created |-> FALSE,
               told |-> FALSE, masked |-> FALSE, printed |-> 0]
      BY <1>6 DEF NoProcess
    <2> QED BY <2>1
  <1>8. proc' = [i \in Lines |-> IF /\ i \in Members(ThisList) /\ Known(i) /\ Alive(i)
                                    /\ signal \notin Withstands(i) THEN q ELSE proc[i]]
    BY <1>6 DEF ProcsKill, Known
  <1> HIDE DEF Alive, Processes
  <1>9. proc' \in [Lines -> Processes]
    BY <1>5, <1>7, <1>8
  <1>10. ASSUME NEW i \in Lines, proc'[i] # proc[i]
         PROVE  Known(i) /\ Alive(i) /\ i \in hurried /\ proc'[i] = q
    <2>1. /\ i \in Members(ThisList) /\ Known(i) /\ Alive(i) /\ signal \notin Withstands(i)
          /\ proc'[i] = q
      BY <1>8, <1>10
    <2>2. i \in hurried
      BY <1>4, <2>1
    <2> QED BY <2>1, <2>2
  <1> QED BY <1>6, <1>9, <1>10

LEMMA ProcsKillKeeps ==
    ASSUME DriverInv, NEW signal \in Signals, ProcsKill(signal)
    PROVE  DriverInv'
  <1>1. /\ At(signal) /\ status = "script" /\ step \in 1..30
        /\ Script[step] = [op |-> signal, list |-> ThisList]
    BY AtIs DEF ProcsKill, DriverInv
  <1>2. \A i \in Lines : ~BeingMade(i)
    BY <1>1, NotMaking
  <1>3. /\ config' = config /\ argv' = argv /\ status' = status /\ handler' = handler
        /\ proc_id' = proc_id /\ step' = step + 1 /\ item' = 1 /\ Lines' = Lines
        /\ hurried' = hurried
    BY DEF ProcsKill, NextStep, Lines
  <1>q. PICK q : q = [NoProcess EXCEPT !.pc = "signalled"]
    OBVIOUS
  <1>k. /\ q.pc = "signalled" /\ q.thread = "none" /\ ~q.masked /\ q.printed = 0
    BY <1>q DEF NoProcess
  <1>8. /\ proc' \in [Lines -> Processes]
        /\ \A i \in Lines : \/ proc'[i] = proc[i]
                            \/ Known(i) /\ Alive(i) /\ i \in hurried /\ proc'[i] = q
    BY <1>q, KillReaches
  <1>4. /\ pending' \in [Lines -> SUBSET Signals]
        /\ \A i \in Lines : pending'[i] # pending[i] =>
              /\ pending'[i] = pending[i] \cup {signal} /\ i \in Members(ThisList)
              /\ proc[i].pc \notin Unprepared
    <2>1. pending \in [Lines -> SUBSET Signals]
      BY DEF DriverInv, TypeInv, DriverTypeOK
    <2>2. \A i \in Lines : Alive(i) /\ signal \in Withstands(i) => proc[i].pc \notin Unprepared
      BY DEF Withstands
    <2>3. pending' = [i \in Lines |-> IF /\ i \in Members(ThisList) /\ proc_id[i] # NotGiven /\ Alive(i)
                                         /\ signal \in Withstands(i)
                                      THEN pending[i] \cup {signal} ELSE pending[i]]
      BY DEF ProcsKill
    <2> HIDE DEF Alive, Unprepared, Signals
    <2>4. pending' \in [Lines -> SUBSET Signals]
      BY <2>1, <2>3
    <2>5. ASSUME NEW i \in Lines, pending'[i] # pending[i]
          PROVE  /\ pending'[i] = pending[i] \cup {signal} /\ i \in Members(ThisList)
                 /\ proc[i].pc \notin Unprepared
      <3>1. /\ i \in Members(ThisList) /\ Alive(i) /\ signal \in Withstands(i)
            /\ pending'[i] = pending[i] \cup {signal}
        BY <2>3, <2>5
      <3> QED BY <2>2, <3>1
    <2> QED BY <2>4, <2>5
  <1>5. TypeInv'
    <2>1. step' \in 1..(Len(Script) + 1) /\ item' \in 1..(Len(config) + 1)
      BY <1>1, <1>3, NextRanges DEF DriverInv
    <2> QED BY <1>3, <1>4, <1>8, <2>1 DEF DriverInv, TypeInv, DriverTypeOK
  <1>6. ProgramsInv'
    <2>1. ASSUME NEW i \in Lines, proc'[i] = q
          PROVE  Kind(config[i], q) /\ Printed(config[i], q) /\ proc'[i].pc \notin Unprepared
      BY <1>k, <2>1 DEF Kind, Printed
    <2>2. ASSUME NEW i \in Lines, proc'[i] = proc[i]
          PROVE  pending'[i] # {} => proc'[i].pc \notin Unprepared
      BY <1>4, <2>2 DEF DriverInv, ProgramsInv
    <2> HIDE DEF Alive
    <2> QED BY <1>3, <1>8, <1>k, <2>1, <2>2 DEF DriverInv, ProgramsInv
  <1>7. ScriptInv' /\ EndInv' /\ ChainInv'
    <2>1. \A i \in Lines : "SIGTERM" \in pending'[i] =>
             \/ "SIGTERM" \in pending[i]
             \/ signal = "SIGTERM" /\ ThisList = ListName(config[i])
      BY <1>4 DEF Members
    <2>2. signal # "wait"
      OBVIOUS
    <2>3. \A i \in Lines : proc'[i] = proc[i] \/ (Known(i) /\ proc[i].pc # "none" /\ Over(i)')
      BY <1>8, <1>k
    <2> QED BY <1>1, <1>2, <1>3, <2>1, <2>2, <2>3, ScriptAdvances
  <1> QED BY <1>5, <1>6, <1>7 DEF DriverInv

LEMMA QuietStepKeeps ==
    ASSUME DriverInv, ListCreated \/ Sleep \/ ProcsWait
    PROVE  DriverInv'
  <1>1. CASE ListCreated
    <2>1. /\ At("create") /\ NextStep /\ status' = status /\ handler' = handler
          /\ UNCHANGED <<programVars, proc_id, hurried>> /\ \A i : ~BeingMade(i)
      BY <1>1 DEF ListCreated, BeingMade
    <2> QED BY <2>1, OnlyAdvance
  <1>2. CASE Sleep
    <2>1. PICK what \in {"usleep", "sleep"} : At(what)
      BY <1>2 DEF Sleep
    <2>2. /\ NextStep /\ status' = status /\ handler' = handler
          /\ UNCHANGED <<programVars, proc_id, hurried>> /\ what # "wait"
      BY <1>2, <2>1 DEF Sleep
    <2>3. \A i : ~BeingMade(i)
      BY <2>1, NotMaking
    <2> QED BY <2>1, <2>2, <2>3, OnlyAdvance
  <1>3. CASE ProcsWait
    <2>1. /\ At("wait") /\ NextStep /\ status' = status /\ handler' = handler
          /\ UNCHANGED <<programVars, proc_id, hurried>>
          /\ \A i \in Members(ThisList) : Known(i) => Over(i)
      BY <1>3 DEF ProcsWait, Known
    <2>2. \A i : ~BeingMade(i)
      BY <2>1, NotMaking
    <2> QED BY <2>1, <2>2, OnlyAdvance
  <1> QED BY <1>1, <1>2, <1>3

LEMMA InterruptKeeps ==
    ASSUME DriverInv, Interrupt
    PROVE  DriverInv'
  <1>1. /\ GiveUp /\ UNCHANGED programVars /\ proc_id' = proc_id /\ item' = item /\ hurried' = hurried
        /\ handler' = TRUE
    BY DEF Interrupt
  <1> QED BY <1>1, GiveUpKeeps

(* Every line is in one of the lists.                                      *)
LEMMA ListNames ==
    ASSUME TypeInv, NEW i \in Lines
    PROVE  ListName(config[i]) \in {"SERVER", "CLIENT", "CPU_HOG", "CPU_HOG_CBS", "HRT_CBS", "SERVER_HOG"}
  BY ConfigIs DEF ListName, ProgramIds

LEMMA DriverExitKeeps ==
    ASSUME DriverInv, DriverExit
    PROVE  DriverInv'
  <1>1. /\ status = "script" /\ step > Len(Script) /\ status' = "exited"
        /\ config' = config /\ argv' = argv /\ proc' = proc /\ pending' = pending
        /\ step' = step /\ item' = item /\ handler' = handler /\ proc_id' = proc_id /\ Lines' = Lines
        /\ hurried' = hurried
    BY DEF DriverExit, programVars, Lines
  <1>2. step = 31
    <2>1. Len(Script) = 30 /\ step \in 1..31
      BY StepIs DEF DriverInv
    <2> QED BY <1>1, <2>1
  <1>3. \A i : ~BeingMade(i)
    BY <1>1, <1>2, StepIs DEF BeingMade, At, DriverInv
  <1>4. ASSUME NEW i \in Lines PROVE ~Alive(i) /\ ~Unstored(i)
    <2>1. InScript(i) /\ ~Unstored(i)
      BY <1>1, <1>3 DEF DriverInv, ScriptInv, InScript
    <2>2. PICK k \in 1..30 : Script[k] = [op |-> "wait", list |-> ListName(config[i])]
      BY ListNames, AllWaitedFor DEF DriverInv
    <2>3. Done("wait", ListName(config[i]))
      BY <1>2, <2>2 DEF Done
    <2> QED BY <2>1, <2>3 DEF InScript, Unstored
  <1>5. TypeInv' /\ ProgramsInv'
    BY <1>1 DEF DriverInv, TypeInv, DriverTypeOK, ProgramsInv
  <1>6. ScriptInv' /\ ChainInv'
    BY <1>1 DEF ScriptInv, ChainInv
  <1>7. EndInv'
    BY <1>1, <1>4 DEF EndInv, Unstored, Known
  <1> QED BY <1>5, <1>6, <1>7 DEF DriverInv

LEMMA TerminatedAre ==
    /\ Len(Terminated) = 6
    /\ \A name \in {"SERVER", "CLIENT", "CPU_HOG", "CPU_HOG_CBS", "HRT_CBS", "SERVER_HOG"} :
          \E k \in 1..6 : Terminated[k] = name
  BY DEF Terminated

LEMMA TerminateListKeeps ==
    ASSUME DriverInv, TerminateList
    PROVE  DriverInv'
  <1> DEFINE q == [NoProcess EXCEPT !.pc = "killed"]
             reached(i) == i \in Members(Terminated[step]) /\ Known(i) /\ Alive(i)
  <1>1. /\ status = "terminate" /\ step <= Len(Terminated) /\ step' = step + 1
        /\ config' = config /\ argv' = argv /\ pending' = pending /\ status' = status
        /\ item' = item /\ handler' = handler /\ proc_id' = proc_id /\ Lines' = Lines
        /\ hurried' = hurried
        /\ proc' = [i \in Lines |-> IF reached(i) THEN q ELSE proc[i]]
    BY DEF TerminateList, Lines, Known
  <1>2. q \in Processes /\ q.pc = "killed" /\ q.thread = "none" /\ ~q.masked /\ q.printed = 0
    BY KilledIs
  <1>3. step \in 1..6
    <2>1. step \in 1..31
      BY StepIs DEF DriverInv
    <2>2. Len(Terminated) = 6
      BY TerminatedAre
    <2> QED BY <1>1, <2>1, <2>2
  <1> HIDE DEF q, reached
  <1>4. TypeInv'
    <2>1. proc \in [Lines -> Processes]
      BY DEF DriverInv, TypeInv, DriverTypeOK
    <2>2. proc' \in [Lines -> Processes]
      BY <1>1, <1>2, <2>1
    <2>3. step' \in 1..(Len(Script) + 1) /\ item' \in 1..(Len(config) + 1)
      BY <1>1, <1>3, NextRanges DEF DriverInv
    <2> QED BY <1>1, <2>2, <2>3 DEF DriverInv, TypeInv, DriverTypeOK
  <1>5. \A i \in Lines : IF reached(i) THEN proc'[i] = q /\ proc[i].pc # "none" ELSE proc'[i] = proc[i]
    BY <1>1 DEF reached
  <1>6. ProgramsInv'
    BY <1>1, <1>2, <1>5 DEF DriverInv, ProgramsInv, Kind, Printed
  <1>7. ScriptInv' /\ ChainInv'
    BY <1>1 DEF ScriptInv, ChainInv
  <1>8. \A i \in Lines : /\ (Unstored(i)' <=> Unstored(i)) /\ (Known(i)' <=> Known(i))
                         /\ Alive(i)' => Alive(i) /\ ~reached(i)
    BY <1>1, <1>2, <1>5 DEF Unstored, Known
  <1>9. ASSUME NEW k \in 1..step, NEW i \in Members(Terminated[k]), Known(i) PROVE ~Alive(i)'
    <2>1. i \in Lines
      BY DEF Members
    <2>2. CASE k = step
      <3>1. reached(i) \/ ~Alive(i)
        BY <1>9, <2>2 DEF reached
      <3> QED BY <1>8, <2>1, <3>1
    <2>3. CASE k # step
      <3>1. k \in 1..(step - 1)
        BY <1>3, <2>3
      <3>2. ~Alive(i)
        BY <1>1, <1>9, <3>1 DEF DriverInv, EndInv
      <3> QED BY <1>8, <2>1, <3>2
    <2> QED BY <2>2, <2>3
  <1>10. EndInv'
    <2>1. 1..(step' - 1) = 1..step
      BY <1>1, <1>3
    <2>2. \A k : Members(Terminated[k])' = Members(Terminated[k]) /\ Members(Terminated[k]) \subseteq Lines
      BY <1>1 DEF Members
    <2>3. \A i, j \in Lines : Unstored(i)' /\ Unstored(j)' => i = j
      BY <1>8 DEF DriverInv, EndInv
    <2>4. \A i \in Lines : Unstored(i)' => handler'
      BY <1>1, <1>8 DEF DriverInv, EndInv
    <2>5. \A k \in 1..(step' - 1) : \A i \in Members(Terminated[k])' : Known(i)' => ~Alive(i)'
      <3> HIDE DEF Alive
      <3> QED BY <1>8, <1>9, <2>1, <2>2
    <2> HIDE DEF Alive
    <2> QED BY <1>1, <2>3, <2>4, <2>5 DEF EndInv
  <1> QED BY <1>4, <1>6, <1>7, <1>10 DEF DriverInv

LEMMA TerminateEndKeeps ==
    ASSUME DriverInv, TerminateEnd
    PROVE  DriverInv'
  <1>1. /\ status = "terminate" /\ step > Len(Terminated) /\ status' = "terminated"
        /\ config' = config /\ argv' = argv /\ proc' = proc /\ pending' = pending
        /\ step' = step /\ item' = item /\ handler' = handler /\ proc_id' = proc_id /\ Lines' = Lines
        /\ hurried' = hurried
    BY DEF TerminateEnd, programVars, Lines
  <1>2. step \in 1..31 /\ step > 6
    <2>1. step \in 1..31
      BY StepIs DEF DriverInv
    <2>2. Len(Terminated) = 6
      BY TerminatedAre
    <2> QED BY <1>1, <2>1, <2>2
  <1>3. ASSUME NEW i \in Lines, Known(i) PROVE ~Alive(i)
    <2>1. PICK k \in 1..6 : Terminated[k] = ListName(config[i])
      BY ListNames, TerminatedAre DEF DriverInv
    <2>2. k \in 1..(step - 1) /\ i \in Members(Terminated[k])
      BY <1>2, <2>1 DEF Members
    <2> QED BY <1>1, <1>3, <2>2 DEF DriverInv, EndInv
  <1>4. TypeInv' /\ ProgramsInv'
    BY <1>1 DEF DriverInv, TypeInv, DriverTypeOK, ProgramsInv
  <1>5. ScriptInv' /\ ChainInv'
    BY <1>1 DEF ScriptInv, ChainInv
  <1>6. EndInv'
    BY <1>1, <1>3 DEF DriverInv, EndInv, Unstored, Known
  <1> QED BY <1>4, <1>5, <1>6 DEF DriverInv

LEMMA StutterKeeps == DriverInv /\ UNCHANGED systemVars => DriverInv'
  <1> SUFFICES ASSUME DriverInv, UNCHANGED systemVars PROVE DriverInv'
    OBVIOUS
  <1>1. /\ config' = config /\ argv' = argv /\ proc' = proc /\ pending' = pending
        /\ status' = status /\ step' = step /\ item' = item /\ handler' = handler
        /\ proc_id' = proc_id /\ Lines' = Lines /\ hurried' = hurried
    BY DEF systemVars, programVars, driverVars, Lines
  <1>2. TypeInv' /\ ProgramsInv' /\ ChainInv'
    BY <1>1, ChainKept DEF DriverInv, TypeInv, DriverTypeOK, ProgramsInv
  <1>3. /\ \A i : BeingMade(i)' <=> BeingMade(i)
        /\ \A what, name : Done(what, name)' <=> Done(what, name)
    BY <1>1, PlaceKept
  <1>4. ScriptInv'
    BY <1>1, <1>3 DEF DriverInv, ScriptInv, InScript, Unstored, Known
  <1>5. EndInv'
    BY <1>1 DEF DriverInv, EndInv, Unstored, Known, Members
  <1> QED BY <1>2, <1>4, <1>5 DEF DriverInv

LEMMA DriverInitInv == DriverInit => DriverInv
  <1> SUFFICES ASSUME DriverInit PROVE DriverInv
    OBVIOUS
  <1>1. NoProcess \in Processes /\ NoProcess.pc = "none"
    BY DEF NoProcess
  <1>2. /\ NoProcess.thread = "none" /\ NoProcess.masked = FALSE /\ NoProcess.printed = 0
    BY DEF NoProcess
  <1>3. config \in Configs /\ config \in Seq([id : ProgramIds, own : SUBSET {"v", "x", "s"}])
    BY ConfigsAssumption DEF DriverInit
  <1>4. Len(config) \in Nat
    BY <1>3
  <1>5. 1 \in 1..(Len(config) + 1) /\ 1 \in 1..(Len(Script) + 1)
    <2>1. Len(Script) = 30
      BY ScriptIs
    <2> QED BY <1>4, <2>1
  <1>6. argv \in [Lines -> Seq(Options)]
    <2>1. <<>> \in Seq(Options)
      OBVIOUS
    <2> QED BY <2>1 DEF DriverInit
  <1>7. TypeInv
    BY <1>1, <1>3, <1>5, <1>6 DEF DriverInit, TypeInv, DriverTypeOK, Options, Values
  <1>8. ProgramsInv
    BY <1>1, <1>2 DEF DriverInit, ProgramsInv, Kind, Printed
  <1>9. ChainInv /\ ScriptInv /\ EndInv
    BY <1>1 DEF DriverInit, ChainInv, ScriptInv, EndInv, Unstored
  <1> QED BY <1>7, <1>8, <1>9 DEF DriverInv

LEMMA DriverNextInv == DriverInv /\ [DriverNext]_systemVars => DriverInv'
  <1> SUFFICES ASSUME DriverInv, [DriverNext]_systemVars PROVE DriverInv'
    OBVIOUS
  <1>1. CASE DriverProgress
    <2>1. \A ok \in BOOLEAN : ParseConfig(ok) \/ MakeArgv(ok) \/ Fork(ok) \/ EnterDeadline(ok) => DriverInv'
      BY ParseConfigKeeps, MakeArgvKeeps, ForkKeeps, EnterDeadlineKeeps
    <2>2. \A signal \in Signals : ProcsKill(signal) => DriverInv'
      BY ProcsKillKeeps
    <2> QED BY <1>1, <2>1, <2>2, StoreProcIdKeeps, SleepASecondKeeps, QuietStepKeeps, DriverExitKeeps,
               TerminateListKeeps, TerminateEndKeeps DEF DriverProgress
  <1>2. CASE Interrupt \/ ParseConfig(FALSE) \/ MakeArgv(FALSE) \/ Fork(FALSE) \/ EnterDeadline(FALSE)
    BY <1>2, InterruptKeeps, ParseConfigKeeps, MakeArgvKeeps, ForkKeeps, EnterDeadlineKeeps
  <1>3. CASE \E i \in Lines : Exec(i) \/ ExecFails(i) \/ (Program(i) /\ UNCHANGED driverVars)
    BY <1>3, ExecKeeps, ExecFailsKeeps, ProgramKeeps
  <1>4. CASE UNCHANGED systemVars
    BY <1>4, StutterKeeps
  <1> QED BY <1>1, <1>2, <1>3, <1>4 DEF DriverNext

(* The driver, its lists and its processes keep their types.               *)
THEOREM DriverTypeCorrect == DriverSpec => []DriverTypeOK
  <1>1. DriverInv => DriverTypeOK
    BY DEF DriverInv, TypeInv
  <1> QED BY <1>1, DriverInitInv, DriverNextInv, PTL DEF DriverSpec

(* Whatever fails and whenever SIGINT arrives, nobody survives the driver  *)
(* but the one process that was being made when SIGINT came.               *)
THEOREM NobodyEverSurvives == DriverSpec => []NobodySurvives
  <1>1. ASSUME DriverInv PROVE NobodySurvives
    <2> DEFINE left == {i \in Lines : Alive(i)}
    <2> SUFFICES ASSUME status \in {"exited", "terminated", "killed"}
                 PROVE  /\ Cardinality(left) <= 1
                        /\ \A i \in left : proc_id[i] = NotGiven /\ handler
      BY DEF NobodySurvives
    <2>1. \A i \in left : i \in Lines /\ Unstored(i) /\ handler
      BY <1>1 DEF DriverInv, EndInv, Unstored
    <2>2. \A i, j \in left : i = j
      BY <1>1, <2>1 DEF DriverInv, EndInv
    <2> HIDE DEF left
    <2>3. left = {} \/ \E i : left = {i}
      BY <2>2
    <2>4. Cardinality(left) <= 1
      <3>1. CASE left = {}
        BY <3>1, FS_EmptySet
      <3>2. ASSUME NEW i, left = {i} PROVE Cardinality(left) <= 1
        <4>1. Cardinality({i}) = 1
          BY FS_Singleton
        <4> QED BY <3>2, <4>1
      <3> QED BY <2>3, <3>1, <3>2
    <2> QED BY <2>1, <2>4 DEF Unstored, Known
  <1> QED BY <1>1, DriverInitInv, DriverNextInv, PTL DEF DriverSpec

(* A hog without a stopping time of its own prints its statistics once,    *)
(* wherever SIGTERM reaches it.                                            *)
THEOREM HogAlwaysPrintsOnce == DriverSpec => []HogPrintsOnce
  <1>1. DriverInv => HogPrintsOnce
    BY DEF DriverInv, ProgramsInv, Printed, HogPrintsOnce
  <1> QED BY <1>1, DriverInitInv, DriverNextInv, PTL DEF DriverSpec

(* The signals that start and stop an experiment kill only processes that  *)
(* had not prepared for them when their second ended, for any              *)
(* configuration.                                                          *)
THEOREM SignalsNeverKill == DriverSpec => []SignalsKillNobody
  <1>1. DriverInv => SignalsKillNobody
    BY DEF DriverInv, ProgramsInv, SignalsKillNobody
  <1> QED BY <1>1, DriverInitInv, DriverNextInv, PTL DEF DriverSpec

-----------------------------------------------------------------------------
(* The arguments that the driver completes.                                *)

Once(options, o) ==
    \E k \in DOMAIN options : /\ options[k].opt = o
                              /\ \A j \in DOMAIN options : options[j].opt = o => j = k
OnlyValue(options, o, val) ==
    \E k \in DOMAIN options : /\ options[k].opt = o /\ options[k].val = val
                              /\ \A j \in DOMAIN options : options[j].opt = o => j = k

(* getopt obeys the only occurrence of an option.                          *)
LEMMA ObeyedIs ==
    ASSUME NEW i, argv[i] \in Seq(Options), NEW o, NEW val, OnlyValue(argv[i], o, val)
    PROVE  Obeyed(i, o) = val
  <1> DEFINE I == {k \in 1..Len(argv[i]) : argv[i][k].opt = o}
  <1>1. PICK k \in DOMAIN argv[i] : /\ argv[i][k].opt = o /\ argv[i][k].val = val
                                    /\ \A j \in DOMAIN argv[i] : argv[i][j].opt = o => j = k
    BY DEF OnlyValue
  <1>2. DOMAIN argv[i] = 1..Len(argv[i]) /\ Len(argv[i]) \in Nat
    OBVIOUS
  <1>3. I = {k} /\ k \in Nat /\ k # 0 /\ I \in SUBSET (1..Len(argv[i]))
    BY <1>1, <1>2
  <1>4. Max(I) = k
    <2> HIDE DEF I
    <2>1. Max(I) \in I
      BY <1>2, <1>3, GreatestOf
    <2> QED BY <1>3, <2>1
  <1>5. SelectLastInSeq(argv[i], LAMBDA p : p.opt = o) = k
    BY <1>3, <1>4 DEF SelectLastInSeq
  <1> QED BY <1>1, <1>3, <1>5 DEF Obeyed

(* What the driver does to an option leaves the others alone.              *)
LEMMA AdjustIs ==
    ASSUME NEW s \in Seq(Options), NEW o, NEW val \in Values
    PROVE  /\ DOMAIN Adjust(s, o, val) = DOMAIN s
           /\ \A j \in DOMAIN s : /\ Adjust(s, o, val)[j].opt = s[j].opt
                                  /\ s[j].opt # o => Adjust(s, o, val)[j] = s[j]
           /\ Once(s, o) => OnlyValue(Adjust(s, o, val), o, val)
  <1> DEFINE I == {k \in 1..Len(s) : s[k].opt = o}
  <1>1. PICK k : k = SelectInSeq(s, LAMBDA p : p.opt = o)
    OBVIOUS
  <1>2. PICK a : a = Adjust(s, o, val)
    OBVIOUS
  <1>3. a = IF k = 0 THEN s ELSE [s EXCEPT ![k].val = val]
    BY <1>1, <1>2 DEF Adjust
  <1>4. DOMAIN s = 1..Len(s) /\ Len(s) \in Nat /\ I \in SUBSET Nat
    OBVIOUS
  <1>5. k = IF I # {} THEN Min(I) ELSE 0
    BY <1>1 DEF SelectInSeq
  <1>6. IF I = {} THEN k = 0 ELSE k \in I /\ k # 0
    <2>1. I # {} => Min(I) \in I
      <3> HIDE DEF I
      <3> QED BY <1>4, LeastOf
    <2>2. 0 \notin I
      OBVIOUS
    <2> HIDE DEF I
    <2> QED BY <1>5, <2>1, <2>2
  <1>7. \A j \in DOMAIN s : s[j] \in Options
    OBVIOUS
  <1>8. CASE I = {}
    <2>1. a = s /\ ~Once(s, o)
      BY <1>3, <1>4, <1>6, <1>8 DEF Once
    <2> QED BY <1>2, <2>1
  <1>9. CASE I # {}
    <2>1. k \in DOMAIN s /\ s[k].opt = o /\ k # 0
      BY <1>4, <1>6, <1>9
    <2>2. PICK e : e = [s[k] EXCEPT !.val = val] /\ e.opt = o /\ e.val = val
      <3>1. PICK t \in Options : t = s[k] /\ t.opt = o
        BY <1>7, <2>1
      <3>2. [t EXCEPT !.val = val].opt = o /\ [t EXCEPT !.val = val].val = val
        BY <3>1 DEF Options
      <3> QED BY <3>1, <3>2
    <2>3. a = [s EXCEPT ![k] = e]
      BY <1>3, <2>1, <2>2
    <2>4. DOMAIN a = DOMAIN s /\ a[k] = e /\ \A j \in DOMAIN s : j # k => a[j] = s[j]
      BY <2>1, <2>3
    <2>5. \A j \in DOMAIN s : a[j].opt = s[j].opt /\ (s[j].opt # o => a[j] = s[j])
      BY <2>1, <2>2, <2>4
    <2>6. Once(s, o) => OnlyValue(a, o, val)
      BY <2>1, <2>2, <2>4, <2>5 DEF Once, OnlyValue
    <2> QED BY <1>2, <2>4, <2>5, <2>6
  <1> QED BY <1>8, <1>9

LEMMA AdjustKeeps ==
    ASSUME NEW s \in Seq(Options), NEW o, NEW val \in Values, NEW p, p # o
    PROVE  /\ Once(s, p) => Once(Adjust(s, o, val), p)
           /\ \A w : OnlyValue(s, p, w) => OnlyValue(Adjust(s, o, val), p, w)
  <1>1. PICK a : a = Adjust(s, o, val)
    OBVIOUS
  <1>2. /\ DOMAIN a = DOMAIN s
        /\ \A j \in DOMAIN s : a[j].opt = s[j].opt /\ (s[j].opt # o => a[j] = s[j])
    BY <1>1, AdjustIs
  <1>3. Once(s, p) => Once(a, p)
    BY <1>2 DEF Once
  <1>4. \A w : OnlyValue(s, p, w) => OnlyValue(a, p, w)
    BY <1>2 DEF OnlyValue
  <1> QED BY <1>1, <1>3, <1>4

(* A process that is given the process ID of a server.                     *)
NeedsServer(i) == config[i].id \in {"CLIENT", "SERVER_CLIENT"} /\ Preceding(i) # 0

(* An option that the line does not set itself has one placeholder.        *)
LEMMA OnceAppended ==
    ASSUME NEW i \in Lines
    PROVE  /\ HasThread(i) /\ "x" \notin config[i].own => Once(LineOptions(i), "x")
           /\ NeedsServer(i) /\ "v" \notin config[i].own => Once(LineOptions(i), "v")
  <1>1. PICK ov : ov = Option("v", Own) /\ ov.opt = "v"
    BY OptionIsOption DEF Values
  <1>2. PICK ox : ox = Option("x", Own) /\ ox.opt = "x"
    BY OptionIsOption DEF Values
  <1>3. PICK v : v = Option("v", Placeholder) /\ v.opt = "v"
    BY OptionIsOption DEF Values
  <1>4. PICK x : x = Option("x", Placeholder) /\ x.opt = "x"
    BY OptionIsOption DEF Values
  <1>5. /\ OwnOption(i, "v") = IF "v" \in config[i].own THEN <<ov>> ELSE <<>>
        /\ OwnOption(i, "x") = IF "x" \in config[i].own THEN <<ox>> ELSE <<>>
    BY <1>1, <1>2 DEF OwnOption
  <1>6. /\ HasThread(i) => Appended(i) \in {<<x>>, <<v, x>>}
        /\ NeedsServer(i) => Appended(i) \in {<<v>>, <<v, x>>}
    BY <1>3, <1>4 DEF Appended, HasThread, NeedsServer
  <1>7. ASSUME HasThread(i), "x" \notin config[i].own PROVE Once(LineOptions(i), "x")
    <2>1. LineOptions(i) \in {<<>> \o <<>> \o <<x>>, <<>> \o <<>> \o <<v, x>>,
                              <<ov>> \o <<>> \o <<x>>, <<ov>> \o <<>> \o <<v, x>>}
      BY <1>5, <1>6, <1>7 DEF LineOptions
    <2>2. /\ Once(<<>> \o <<>> \o <<x>>, "x") /\ Once(<<>> \o <<>> \o <<v, x>>, "x")
          /\ Once(<<ov>> \o <<>> \o <<x>>, "x") /\ Once(<<ov>> \o <<>> \o <<v, x>>, "x")
      BY <1>1, <1>3, <1>4 DEF Once
    <2> QED BY <2>1, <2>2
  <1>8. ASSUME NeedsServer(i), "v" \notin config[i].own PROVE Once(LineOptions(i), "v")
    <2>1. LineOptions(i) \in {<<>> \o <<>> \o <<v>>, <<>> \o <<>> \o <<v, x>>,
                              <<>> \o <<ox>> \o <<v>>, <<>> \o <<ox>> \o <<v, x>>}
      BY <1>5, <1>6, <1>8 DEF LineOptions
    <2>2. /\ Once(<<>> \o <<>> \o <<v>>, "v") /\ Once(<<>> \o <<>> \o <<v, x>>, "v")
          /\ Once(<<>> \o <<ox>> \o <<v>>, "v") /\ Once(<<>> \o <<ox>> \o <<v, x>>, "v")
      BY <1>2, <1>3, <1>4 DEF Once
    <2> QED BY <2>1, <2>2
  <1> QED BY <1>7, <1>8

Completed(i) ==
    /\ HasThread(i) /\ "x" \notin config[i].own => OnlyValue(argv[i], "x", Duration)
    /\ NeedsServer(i) /\ "v" \notin config[i].own =>
          OnlyValue(argv[i], "v", Preceding(i)) /\ proc[Preceding(i)].pc # "none"

(* How far the script is with the options of a line: a process is created  *)
(* after its options have been completed, but for those of a server_client,*)
(* and once its list has been created it is known.                         *)
InCreation(i) ==
    LET name == ListName(config[i])
    IN /\ proc[i].pc # "none" => Done("create", name) \/ (At("create") /\ i \in Members(ThisList))
       /\ Done("create", name) => Known(i)
       /\ At("create") /\ i \in Members(ThisList) /\ i < item => Known(i)
       /\ proc[i].pc = "none" /\ Done("argv", name) =>
             IF config[i].id = "SERVER_CLIENT" THEN argv[i] = LineOptions(i) ELSE Completed(i)

OptionsInv ==
    /\ \A i \in Lines : proc[i].pc # "none" => Completed(i)
    /\ status = "script" => \A i \in Lines : InCreation(i)

FullInv == DriverInv /\ OptionsInv

(* Options precede the creation of a list; those of clients come when the  *)
(* servers have been created.                                              *)
LEMMA ScriptOrder ==
    /\ \A k, l \in 1..30 : Script[k].op = "create" /\ Script[l].op = "argv"
                           /\ Script[k].list = Script[l].list => l < k
    /\ \A k \in 1..30 : Script[k].op = "create" =>
          \E l \in 1..(k - 1) : Script[l] = [op |-> "argv", list |-> Script[k].list]
    /\ \A k \in 1..30 : Script[k].op = "argv" /\ Script[k].list = "CLIENT" =>
          6 \in 1..(k - 1) /\ Script[6] = [op |-> "create", list |-> "SERVER"]
    /\ Script[1].op = "argv"
  <1>1. \A k, l \in 1..30 : Script[k].op = "create" /\ Script[l].op = "argv"
                            /\ Script[k].list = Script[l].list => l < k
    <2> SUFFICES ASSUME NEW k \in 1..30, NEW l \in 1..30, Script[k].op = "create",
                        Script[l].op = "argv", Script[k].list = Script[l].list
                 PROVE  l < k
      OBVIOUS
    <2>1. k \in {6} \cup 8..12 /\ l \in 1..5 \cup {7}
      BY ScriptSteps
    <2> QED BY <2>1, ScriptIs
  <1>2. ASSUME NEW k \in 1..30, Script[k].op = "create"
        PROVE  \E l \in 1..(k - 1) : Script[l] = [op |-> "argv", list |-> Script[k].list]
    <2>1. k \in {6, 8, 9, 10, 11, 12}
      BY <1>2, ScriptSteps
    <2> DEFINE l == CASE k = 6 -> 5 [] k = 8 -> 7 [] k = 9 -> 1 [] k = 10 -> 2 [] k = 11 -> 3 [] OTHER -> 4
    <2>2. l \in 1..(k - 1)
      BY <2>1
    <2>3. Script[l] = [op |-> "argv", list |-> Script[k].list]
      BY <2>1, ScriptIs
    <2> QED BY <2>2, <2>3
  <1>3. \A k \in 1..30 : Script[k].op = "argv" /\ Script[k].list = "CLIENT" => k = 7
    BY ScriptIs, ScriptSteps
  <1>4. Script[6] = [op |-> "create", list |-> "SERVER"] /\ Script[1].op = "argv"
    BY ScriptIs
  <1>5. \A k \in 1..30 : k = 7 => 6 \in 1..(k - 1)
    OBVIOUS
  <1>6. \A k \in 1..30 : Script[k].op = "argv" /\ Script[k].list = "CLIENT" =>
           6 \in 1..(k - 1) /\ Script[6] = [op |-> "create", list |-> "SERVER"]
    BY <1>3, <1>4, <1>5
  <1>7. \A k \in 1..30 : Script[k].op = "create" =>
           \E l \in 1..(k - 1) : Script[l] = [op |-> "argv", list |-> Script[k].list]
    BY <1>2
  <1> QED BY <1>1, <1>4, <1>6, <1>7

(* Steps that leave the options and the existence of the processes alone.  *)
LEMMA CompletedKept ==
    ASSUME TypeInv, config' = config, NEW i \in Lines, argv'[i] = argv[i],
           \A j \in Lines : proc[j].pc # "none" => proc'[j].pc # "none",
           Completed(i)
    PROVE  Completed(i)'
  <1>1. Preceding(i)' = Preceding(i)
    BY PrecedingKept
  <1>2. NeedsServer(i)' = NeedsServer(i) /\ HasThread(i)' = HasThread(i)
    BY <1>1 DEF NeedsServer, HasThread
  <1>3. NeedsServer(i) => Preceding(i) \in Lines
    BY PrecedingIs DEF NeedsServer
  <1>4. /\ OnlyValue(argv[i], "x", Duration)' <=> OnlyValue(argv[i], "x", Duration)
        /\ OnlyValue(argv[i], "v", Preceding(i))' <=> OnlyValue(argv[i], "v", Preceding(i))
    BY <1>1 DEF OnlyValue
  <1> QED BY <1>1, <1>2, <1>3, <1>4 DEF Completed

LEMMA LineOptionsKept ==
    ASSUME config' = config PROVE \A i : LineOptions(i)' = LineOptions(i)
  BY PrecedingKept DEF LineOptions, OwnOption, Appended

LEMMA OptionsQuiet ==
    ASSUME FullInv, config' = config, argv' = argv,
           \A j \in Lines : proc'[j].pc = "none" <=> proc[j].pc = "none",
           status' = "script" => /\ status = "script" /\ step' = step /\ item' = item
                                 /\ proc_id' = proc_id
    PROVE  OptionsInv'
  <1>1. Lines' = Lines /\ TypeInv
    BY DEF Lines, FullInv, DriverInv
  <1>2. ASSUME NEW i \in Lines, Completed(i) PROVE Completed(i)'
    BY <1>1, <1>2, CompletedKept
  <1>3. ASSUME NEW i \in Lines, status' = "script" PROVE InCreation(i)'
    <2>1. InCreation(i)
      BY <1>3 DEF FullInv, OptionsInv
    <2>2. \A what, name : Done(what, name)' <=> Done(what, name)
      BY <1>3, PlaceKept
    <2>3. (At("create")' <=> At("create")) /\ (Known(i)' <=> Known(i))
      BY <1>3 DEF At, Known
    <2>4. Members(ThisList)' = Members(ThisList) /\ ListName(config[i])' = ListName(config[i])
      BY <1>1, <1>3 DEF Members, ThisList
    <2>5. LineOptions(i)' = LineOptions(i)
      BY LineOptionsKept
    <2> HIDE DEF Over
    <2> QED BY <1>2, <1>3, <2>1, <2>2, <2>3, <2>4, <2>5 DEF InCreation
  <1> QED BY <1>1, <1>2, <1>3 DEF FullInv, OptionsInv

(* The next step of the script behind an action other than "argv"; the     *)
(* members of a list that has been created are known.                      *)
LEMMA OptionsAdvance ==
    ASSUME FullInv, NEW what, At(what), what # "argv", NextStep, status' = status,
           config' = config, argv' = argv, proc_id' = proc_id,
           \A j \in Lines : proc'[j].pc = "none" <=> proc[j].pc = "none",
           what = "create" => Rest = {}
    PROVE  OptionsInv'
  <1>1. /\ status = "script" /\ step \in 1..30 /\ TypeInv /\ Lines' = Lines
        /\ Script[step] = [op |-> what, list |-> ThisList]
        /\ step' = step + 1 /\ item' = 1
    BY AtIs DEF FullInv, DriverInv, NextStep, Lines
  <1>2. \A w, name : Done(w, name)' <=> Done(w, name) \/ (w = what /\ name = ThisList)
    BY <1>1, DoneNext
  <1>3. ASSUME NEW i \in Lines, Completed(i) PROVE Completed(i)'
    BY <1>1, <1>3, CompletedKept
  <1>4. ASSUME NEW i \in Lines PROVE InCreation(i)'
    <2>1. InCreation(i) /\ (Known(i)' <=> Known(i)) /\ i >= 1
      BY <1>1, ConfigIs DEF FullInv, OptionsInv, Known
    <2>2. LineOptions(i)' = LineOptions(i) /\ ListName(config[i])' = ListName(config[i])
      BY LineOptionsKept
    <2>3. proc[i].pc # "none" =>
             Done("create", ListName(config[i])) \/ (what = "create" /\ ThisList = ListName(config[i]))
      BY <1>1, <2>1 DEF InCreation, At, Members
    <2>4. what = "create" /\ ThisList = ListName(config[i]) => Known(i)
      <3>1. ASSUME what = "create", ThisList = ListName(config[i]) PROVE Known(i)
        <4>1. i \in Members(ThisList) /\ i \notin Rest
          BY <3>1 DEF Members
        <4>2. i < item
          <5>1. item \in Nat /\ i \in Nat
            BY <1>1, ConfigIs, StepIs
          <5> QED BY <4>1, <5>1 DEF Rest
        <4> QED BY <2>1, <3>1, <4>1, <4>2 DEF InCreation
      <3> QED BY <3>1
    <2>5. ~(i < item')
      <3>1. i \in Nat /\ i >= 1
        BY <1>1, <2>1, ConfigIs
      <3> QED BY <1>1, <3>1
    <2> QED BY <1>2, <1>3, <2>1, <2>2, <2>3, <2>4, <2>5 DEF InCreation
  <1> QED BY <1>1, <1>3, <1>4 DEF FullInv, OptionsInv

LEMMA OptionsMakeArgv ==
    ASSUME FullInv, MakeArgv(TRUE)
    PROVE  OptionsInv'
  <1>1. /\ At("argv") /\ config' = config /\ proc' = proc /\ proc_id' = proc_id /\ Lines' = Lines
        /\ step' = step + 1 /\ item' = 1 /\ status' = status
        /\ argv' = [i \in Lines |-> IF i \in Members(ThisList) THEN Adjusted(i) ELSE argv[i]]
    BY DEF MakeArgv, NextStep, Lines
  <1>2. /\ status = "script" /\ step \in 1..30 /\ TypeInv
        /\ Script[step] = [op |-> "argv", list |-> ThisList]
    BY <1>1, AtIs DEF FullInv, DriverInv
  <1>3. \A w, name : Done(w, name)' <=> Done(w, name) \/ (w = "argv" /\ name = ThisList)
    BY <1>1, <1>2, DoneNext
  <1>4. ASSUME NEW i \in Members(ThisList) PROVE proc[i].pc = "none" /\ i \in Lines
    <2>1. i \in Lines /\ ListName(config[i]) = ThisList /\ InCreation(i)
      BY <1>2 DEF Members, FullInv, OptionsInv
    <2>2. ~Done("create", ThisList)
      <3>1. ASSUME NEW k \in 1..(step - 1), Script[k] = [op |-> "create", list |-> ThisList] PROVE FALSE
        <4>1. k \in 1..30 /\ k < step
          BY <1>2
        <4>2. /\ Script[k].op = "create" /\ Script[step].op = "argv"
              /\ Script[k].list = Script[step].list /\ step \in 1..30
          BY <1>2, <3>1
        <4>3. step < k
          BY <4>1, <4>2, ScriptOrder
        <4> QED BY <1>2, <4>1, <4>3
      <3> QED BY <3>1 DEF Done
    <2>3. ~At("create")
      BY <1>1 DEF At
    <2> QED BY <2>1, <2>2, <2>3 DEF InCreation
  <1>5. ASSUME NEW i \in Lines, i \notin Members(ThisList), Completed(i) PROVE Completed(i)'
    BY <1>1, <1>2, <1>5, CompletedKept
  <1>6. ASSUME NEW i \in Members(ThisList), config[i].id # "SERVER_CLIENT" PROVE Completed(i)'
    <2>1. i \in Lines /\ argv'[i] = Adjusted(i) /\ ListName(config[i]) = ThisList
      BY <1>1, <1>4 DEF Members
    <2>2. Preceding(i)' = Preceding(i) /\ HasThread(i)' = HasThread(i) /\ NeedsServer(i)' = NeedsServer(i)
      BY <1>1, PrecedingKept DEF HasThread, NeedsServer
    <2>3. LineOptions(i) \in Seq(Options)
      BY LineOptionsType, <2>1
    <2>4. config[i].id = "CLIENT" /\ Preceding(i) # 0 =>
             proc_id[Preceding(i)] = Preceding(i) /\ proc[Preceding(i)].pc # "none"
             /\ Preceding(i) \in Values
      <3>1. ASSUME config[i].id = "CLIENT", Preceding(i) # 0 PROVE Known(Preceding(i)) /\ Preceding(i) \in Lines
        <4>1. ThisList = "CLIENT"
          BY <2>1, <3>1 DEF ListName
        <4>2. Done("create", "SERVER")
          <5>1. Script[step].op = "argv" /\ Script[step].list = "CLIENT" /\ step \in 1..30
            BY <1>2, <4>1
          <5>2. 6 \in 1..(step - 1) /\ Script[6] = [op |-> "create", list |-> "SERVER"]
            BY <5>1, ScriptOrder
          <5> QED BY <5>2 DEF Done
        <4>3. Preceding(i) \in Lines /\ ListName(config[Preceding(i)]) = "SERVER"
          BY <1>2, <2>1, <3>1, PrecedingIs
        <4> QED BY <1>2, <4>2, <4>3 DEF FullInv, OptionsInv, InCreation
      <3> QED BY <3>1 DEF FullInv, DriverInv, ProgramsInv, Known, Values
    <2>5. PICK v : v = IF config[i].id = "CLIENT" /\ Preceding(i) # 0
                       THEN Adjust(LineOptions(i), "v", proc_id[Preceding(i)]) ELSE LineOptions(i)
      OBVIOUS
    <2>6. /\ v \in Seq(Options)
          /\ HasThread(i) /\ "x" \notin config[i].own => Once(v, "x")
          /\ NeedsServer(i) /\ "v" \notin config[i].own => OnlyValue(v, "v", Preceding(i))
      <3>1. CASE config[i].id = "CLIENT" /\ Preceding(i) # 0
        <4>1. v = Adjust(LineOptions(i), "v", Preceding(i)) /\ Preceding(i) \in Values
          BY <2>4, <2>5, <3>1
        <4>2. v \in Seq(Options)
          BY <2>3, <4>1, AdjustType
        <4>3. Once(LineOptions(i), "x") => Once(v, "x")
          BY <2>3, <4>1, AdjustKeeps
        <4>4. Once(LineOptions(i), "v") => OnlyValue(v, "v", Preceding(i))
          BY <2>3, <4>1, AdjustIs
        <4> QED BY <2>1, <4>2, <4>3, <4>4, OnceAppended
      <3>2. CASE ~(config[i].id = "CLIENT" /\ Preceding(i) # 0)
        <4>1. v = LineOptions(i) /\ ~NeedsServer(i)
          BY <1>6, <2>5, <3>2 DEF NeedsServer
        <4> QED BY <2>1, <2>3, <4>1, OnceAppended
      <3> QED BY <3>1, <3>2
    <2>7. Adjusted(i) = IF HasThread(i) THEN Adjust(v, "x", Duration) ELSE v
      BY <2>5 DEF Adjusted
    <2>8. /\ HasThread(i) /\ "x" \notin config[i].own => OnlyValue(Adjusted(i), "x", Duration)
          /\ NeedsServer(i) /\ "v" \notin config[i].own => OnlyValue(Adjusted(i), "v", Preceding(i))
      <3>1. Duration \in Values
        BY DEF Values
      <3>2. Once(v, "x") => OnlyValue(Adjust(v, "x", Duration), "x", Duration)
        BY <2>6, <3>1, AdjustIs
      <3>3. OnlyValue(v, "v", Preceding(i)) => OnlyValue(Adjust(v, "x", Duration), "v", Preceding(i))
        BY <2>6, <3>1, AdjustKeeps
      <3> QED BY <2>6, <2>7, <3>2, <3>3
    <2>9. NeedsServer(i) => proc[Preceding(i)].pc # "none"
      BY <1>6, <2>4 DEF NeedsServer
    <2>10. /\ OnlyValue(argv[i], "x", Duration)' <=> OnlyValue(Adjusted(i), "x", Duration)
           /\ OnlyValue(argv[i], "v", Preceding(i))' <=> OnlyValue(Adjusted(i), "v", Preceding(i))
      BY <2>1, <2>2 DEF OnlyValue
    <2> QED BY <1>1, <2>2, <2>8, <2>9, <2>10 DEF Completed
  <1>7. ASSUME NEW i \in Members(ThisList), config[i].id = "SERVER_CLIENT" PROVE argv'[i] = LineOptions(i)
    BY <1>1, <1>4, <1>7 DEF Adjusted, HasThread
  <1>8. ASSUME NEW i \in Lines PROVE InCreation(i)'
    <2>1. InCreation(i) /\ (Known(i)' <=> Known(i)) /\ ListName(config[i])' = ListName(config[i])
      BY <1>1, <1>2 DEF FullInv, OptionsInv, Known
    <2>2. LineOptions(i)' = LineOptions(i) /\ config'[i] = config[i]
      BY <1>1, LineOptionsKept
    <2>3. ~(i < item')
      <3>1. i \in Nat /\ i >= 1
        BY <1>2, ConfigIs
      <3> QED BY <1>1, <3>1
    <2>4. ~At("create")
      BY <1>1 DEF At
    <2>5. CASE i \in Members(ThisList)
      <3>1. proc'[i].pc = "none" /\ ListName(config[i]) = ThisList
        BY <1>1, <1>4, <2>5 DEF Members
      <3>2. IF config[i].id = "SERVER_CLIENT" THEN argv'[i] = LineOptions(i) ELSE Completed(i)'
        BY <1>6, <1>7, <2>5
      <3> QED BY <1>3, <2>1, <2>2, <2>3, <3>1, <3>2 DEF InCreation
    <2>6. CASE i \notin Members(ThisList)
      <3>1. argv'[i] = argv[i] /\ ListName(config[i]) # ThisList
        BY <1>1, <2>6 DEF Members
      <3> QED BY <1>1, <1>3, <1>5, <2>1, <2>2, <2>3, <2>4, <2>6, <3>1 DEF InCreation
    <2> QED BY <2>5, <2>6
  <1>9. \A i \in Lines : proc'[i].pc # "none" => Completed(i)'
    BY <1>1, <1>4, <1>5 DEF FullInv, OptionsInv
  <1> QED BY <1>1, <1>8, <1>9 DEF OptionsInv

LEMMA OptionsFork ==
    ASSUME FullInv, Fork(TRUE)
    PROVE  OptionsInv'
  <1>1. /\ At("create") /\ Rest # {} /\ proc[Creating].pc = "none"
        /\ UNCHANGED <<config, pending, item, handler, proc_id>> /\ Lines' = Lines
        /\ status' = status /\ step' = step /\ TypeInv
        /\ argv' = [argv EXCEPT ![Creating] = AdjustedForSubserver(Creating)]
        /\ proc' = [proc EXCEPT ![Creating].pc = "forked"]
    BY DEF Fork, Become, Lines, FullInv, DriverInv
  <1>2. PICK c \in Lines : c = Creating /\ c \in Rest /\ c \in Members(ThisList) /\ BeingMade(c)
    BY <1>1, CreatingIs
  <1>3. /\ status = "script" /\ step \in 1..30 /\ Script[step] = [op |-> "create", list |-> ThisList]
    BY <1>1, AtIs
  <1>4. /\ proc \in [Lines -> Processes] /\ argv \in [Lines -> Seq(Options)]
    BY <1>1 DEF TypeInv, DriverTypeOK, Options, Values
  <1>5. /\ argv'[c] = AdjustedForSubserver(c) /\ proc'[c].pc = "forked" /\ proc[c].pc = "none"
        /\ \A i \in Lines : i # c => argv'[i] = argv[i] /\ proc'[i] = proc[i]
    BY <1>1, <1>2, <1>4
  <1>6. InCreation(c) /\ ListName(config[c]) = ThisList
    BY <1>2, <1>3 DEF FullInv, OptionsInv, Members
  <1>7. Done("argv", ThisList)
    <2>1. Script[step].op = "create" /\ Script[step].list = ThisList
      BY <1>3
    <2>2. \E l \in 1..(step - 1) : Script[l] = [op |-> "argv", list |-> Script[step].list]
      BY <1>3, <2>1, ScriptOrder
    <2> QED BY <2>1, <2>2 DEF Done
  <1>8. Completed(c)'
    <2>1. CASE config[c].id # "SERVER_CLIENT"
      <3>1. Completed(c) /\ argv'[c] = argv[c]
        BY <1>5, <1>6, <1>7, <2>1 DEF InCreation, AdjustedForSubserver
      <3>2. \A j \in Lines : proc[j].pc # "none" => proc'[j].pc # "none"
        BY <1>5
      <3> QED BY <1>1, <3>1, <3>2, CompletedKept
    <2>2. CASE config[c].id = "SERVER_CLIENT"
      <3>1. PICK p \in Lines : p = Preceding(c) /\ p < c /\ ListName(config[p]) = "SERVER" /\ p # 0
        <4>1. Preceding(c) # 0
          BY <1>3, <2>2 DEF FullInv, DriverInv, ChainInv
        <4> QED BY <1>1, <4>1, PrecedingIs
      <3>2. argv[c] = LineOptions(c) /\ ThisList = "SERVER"
        BY <1>5, <1>6, <1>7, <2>2 DEF InCreation, ListName
      <3>3. p \in Members(ThisList)
        BY <3>1, <3>2 DEF Members
      <3>4. p < item
        <4>1. item \in Nat /\ p \in Nat /\ c \in Nat
          BY <1>1, ConfigIs, StepIs
        <4>2. p \notin Rest
          BY <1>2, <3>1, <4>1 DEF BeingMade
        <4> QED BY <3>3, <4>1, <4>2 DEF Rest
      <3>5. proc_id[p] = p /\ proc[p].pc # "none"
        <4>1. Known(p)
          BY <1>1, <1>3, <3>3, <3>4 DEF FullInv, OptionsInv, InCreation
        <4> QED BY <4>1 DEF FullInv, DriverInv, ProgramsInv, Known
      <3>6. argv'[c] = Adjust(LineOptions(c), "v", p) /\ p \in Values
        BY <1>5, <2>2, <3>1, <3>2, <3>5 DEF AdjustedForSubserver, Values
      <3>7. "v" \notin config[c].own => OnlyValue(argv'[c], "v", p)
        <4>1. LineOptions(c) \in Seq(Options)
          BY LineOptionsType
        <4>2. NeedsServer(c)
          BY <2>2, <3>1 DEF NeedsServer
        <4> QED BY <3>6, <4>1, <4>2, AdjustIs, OnceAppended
      <3>8. Preceding(c)' = p /\ config'[c] = config[c] /\ proc'[p].pc # "none" /\ ~HasThread(c)'
        BY <1>1, <1>5, <2>2, <3>1, <3>5, PrecedingKept DEF HasThread
      <3>9. OnlyValue(argv[c], "v", Preceding(c))' <=> OnlyValue(argv'[c], "v", p)
        BY <3>8 DEF OnlyValue
      <3> QED BY <3>7, <3>8, <3>9 DEF Completed
    <2> QED BY <2>1, <2>2
  <1>9. ASSUME NEW i \in Lines, i # c, Completed(i) PROVE Completed(i)'
    <2>1. \A j \in Lines : proc[j].pc # "none" => proc'[j].pc # "none"
      BY <1>5
    <2> QED BY <1>1, <1>5, <1>9, <2>1, CompletedKept
  <1>10. /\ \A what, name : Done(what, name)' <=> Done(what, name)
         /\ At("create")' /\ Members(ThisList)' = Members(ThisList)
    BY <1>1, <1>3, PlaceKept DEF At, Members, ThisList
  <1>11. ASSUME NEW i \in Lines PROVE InCreation(i)'
    <2>1. InCreation(i) /\ (Known(i)' <=> Known(i)) /\ ListName(config[i])' = ListName(config[i])
      BY <1>1, <1>3 DEF FullInv, OptionsInv, Known
    <2>2. LineOptions(i)' = LineOptions(i) /\ config'[i] = config[i] /\ item' = item
      BY <1>1, LineOptionsKept
    <2>3. CASE i = c
      BY <1>1, <1>2, <1>5, <1>10, <2>1, <2>2, <2>3 DEF InCreation
    <2>4. CASE i # c
      BY <1>1, <1>5, <1>9, <1>10, <2>1, <2>2, <2>4 DEF InCreation
    <2> QED BY <2>3, <2>4
  <1> QED BY <1>1, <1>5, <1>8, <1>9, <1>11 DEF FullInv, OptionsInv

LEMMA OptionsStoreProcId ==
    ASSUME FullInv, StoreProcId
    PROVE  OptionsInv'
  <1>1. /\ At("create") /\ Rest # {}
        /\ config' = config /\ argv' = argv /\ proc' = proc
        /\ status' = status /\ step' = step /\ item' = item
        /\ Lines' = Lines /\ TypeInv
        /\ proc_id' = [proc_id EXCEPT ![Creating] = Creating]
    BY DEF StoreProcId, Lines, programVars, FullInv, DriverInv
  <1>2. PICK c \in Lines : c = Creating
    BY <1>1, CreatingIs
  <1>3. \A i \in Lines : Known(i) => Known(i)'
    <2>1. c # NotGiven
      BY <1>1, <1>2, ConfigIs DEF NotGiven
    <2> QED BY <1>1, <1>2, <2>1 DEF Known
  <1>4. ASSUME NEW i \in Lines, Completed(i) PROVE Completed(i)'
    BY <1>1, <1>4, CompletedKept
  <1>5. /\ \A what, name : Done(what, name)' <=> Done(what, name)
        /\ status = "script" /\ Members(ThisList)' = Members(ThisList)
    BY <1>1, PlaceKept DEF At, Members, ThisList
  <1>6. ASSUME NEW i \in Lines PROVE InCreation(i)'
    <2>1. InCreation(i) /\ ListName(config[i])' = ListName(config[i]) /\ LineOptions(i)' = LineOptions(i)
          /\ (At("create")' <=> At("create"))
      BY <1>1, <1>5, LineOptionsKept DEF FullInv, OptionsInv, At
    <2> QED BY <1>1, <1>3, <1>4, <1>5, <2>1 DEF InCreation
  <1> QED BY <1>1, <1>4, <1>6 DEF FullInv, OptionsInv

LEMMA OptionsSleep ==
    ASSUME FullInv, SleepASecond
    PROVE  OptionsInv'
  <1>1. /\ At("create") /\ Rest # {} /\ Known(Creating)
        /\ config' = config /\ argv' = argv /\ proc' = proc
        /\ status' = status /\ step' = step /\ proc_id' = proc_id
        /\ Lines' = Lines /\ TypeInv /\ item' = Creating + 1
    BY DEF SleepASecond, Lines, programVars, FullInv, DriverInv, Known
  <1>2. PICK c \in Lines : c = Creating /\ BeingMade(c)
    BY <1>1, CreatingIs
  <1>3. ASSUME NEW i \in Lines, Completed(i) PROVE Completed(i)'
    BY <1>1, <1>3, CompletedKept
  <1>4. /\ \A what, name : Done(what, name)' <=> Done(what, name)
        /\ status = "script" /\ Members(ThisList)' = Members(ThisList)
    BY <1>1 DEF At, Members, ThisList, Done
  <1>5. ASSUME NEW i \in Lines, i \in Members(ThisList), i < item' PROVE Known(i)
    <2>1. i \in Nat /\ c \in Nat /\ item \in Nat
      BY <1>1, ConfigIs, StepIs
    <2>2. i = c \/ i < c
      BY <1>1, <1>2, <1>5, <2>1
    <2>3. i < c => i < item
      BY <1>2, <1>5, <2>1 DEF BeingMade, Rest
    <2> QED BY <1>1, <1>2, <1>4, <1>5, <2>2, <2>3 DEF FullInv, OptionsInv, InCreation
  <1>6. ASSUME NEW i \in Lines PROVE InCreation(i)'
    <2>1. InCreation(i) /\ ListName(config[i])' = ListName(config[i]) /\ LineOptions(i)' = LineOptions(i)
          /\ (At("create")' <=> At("create")) /\ (Known(i)' <=> Known(i))
      BY <1>1, <1>4, LineOptionsKept DEF FullInv, OptionsInv, At, Known
    <2> QED BY <1>1, <1>3, <1>4, <1>5, <2>1 DEF InCreation
  <1> QED BY <1>1, <1>3, <1>6 DEF FullInv, OptionsInv

LEMMA OptionsParse ==
    ASSUME FullInv, NEW ok \in BOOLEAN, ParseConfig(ok)
    PROVE  OptionsInv'
  <1>1. /\ status = "parse" /\ config' = config /\ argv' = argv /\ proc' = proc
        /\ proc_id' = proc_id /\ Lines' = Lines
        /\ (status' = "script" => step' = step)
    BY DEF ParseConfig, GiveUp, programVars, Lines
  <1>2. step = 1 /\ \A i \in Lines : proc[i].pc = "none"
    BY <1>1 DEF FullInv, DriverInv, ScriptInv
  <1>3. ASSUME status' = "script", NEW i \in Lines PROVE InCreation(i)'
    <2>1. \A what, name : ~Done(what, name)'
      BY <1>1, <1>2, <1>3 DEF Done
    <2>2. ~At("create")'
      BY <1>1, <1>2, <1>3, ScriptOrder DEF At
    <2> QED BY <1>1, <1>2, <2>1, <2>2 DEF InCreation
  <1> QED BY <1>1, <1>2, <1>3 DEF OptionsInv

LEMMA OptionsNext == FullInv /\ [DriverNext]_systemVars => OptionsInv'
  <1> SUFFICES ASSUME FullInv, [DriverNext]_systemVars PROVE OptionsInv'
    OBVIOUS
  <1>1. DriverInv /\ TypeInv /\ \A i \in Lines : config' = config => Lines' = Lines
    BY DEF FullInv, DriverInv, Lines
  <1>2. \A ok \in BOOLEAN : ParseConfig(ok) => OptionsInv'
    BY OptionsParse
  <1>3. CASE MakeArgv(TRUE) \/ Fork(TRUE) \/ StoreProcId \/ SleepASecond
    BY <1>3, OptionsMakeArgv, OptionsFork, OptionsStoreProcId, OptionsSleep
  <1>4. CASE ListCreated
    BY <1>4, OptionsAdvance DEF ListCreated, programVars
  <1>5. CASE EnterDeadline(TRUE)
    BY <1>5, OptionsAdvance DEF EnterDeadline, programVars
  <1>6. CASE Sleep
    <2>1. PICK what \in {"usleep", "sleep"} : At(what)
      BY <1>6 DEF Sleep
    <2>2. what # "argv" /\ what # "create"
      OBVIOUS
    <2> QED BY <1>6, <2>1, <2>2, OptionsAdvance DEF Sleep, programVars
  <1>7. ASSUME NEW signal \in Signals, ProcsKill(signal) PROVE OptionsInv'
    <2>1. At(signal) /\ signal # "argv" /\ signal # "create"
      BY <1>7 DEF ProcsKill
    <2>2. \A i \in Lines : proc'[i].pc = "none" <=> proc[i].pc = "none"
      BY <1>1, <1>7, KillReaches DEF NoProcess
    <2> QED BY <1>7, <2>1, <2>2, OptionsAdvance DEF ProcsKill
  <1>8. CASE ProcsWait
    BY <1>8, OptionsAdvance DEF ProcsWait, programVars
  <1>9. CASE DriverExit \/ TerminateEnd \/ Interrupt
    BY <1>9, OptionsQuiet DEF DriverExit, TerminateEnd, Interrupt, GiveUp, programVars
  <1>10. CASE MakeArgv(FALSE) \/ Fork(FALSE) \/ EnterDeadline(FALSE)
    BY <1>10, OptionsQuiet DEF MakeArgv, Fork, EnterDeadline, GiveUp, programVars
  <1>11. CASE TerminateList
    <2>1. \A i \in Lines : proc'[i].pc = "none" <=> proc[i].pc = "none"
      <3>1. \A i \in Lines : \/ proc'[i] = [NoProcess EXCEPT !.pc = "killed"] /\ Alive(i)
                             \/ proc'[i] = proc[i]
        BY <1>11 DEF TerminateList
      <3> HIDE DEF Alive
      <3>2. \A i \in Lines : Alive(i) => proc[i].pc # "none"
        BY DEF Alive
      <3> QED BY <3>1, <3>2, KilledIs
    <2> QED BY <1>11, <2>1, OptionsQuiet DEF TerminateList
  <1>12. ASSUME NEW i \in Lines, ExecFails(i) PROVE OptionsInv'
    <2>1. \A j \in Lines : proc'[j].pc = "none" <=> proc[j].pc = "none"
      <3>1. \A j \in Lines : \/ proc'[j] = [NoProcess EXCEPT !.pc = "killed"] /\ Alive(j)
                             \/ proc'[j] = proc[j]
        BY <1>12 DEF ExecFails
      <3> HIDE DEF Alive
      <3>2. \A j \in Lines : Alive(j) => proc[j].pc # "none"
        BY DEF Alive
      <3> QED BY <3>1, <3>2, KilledIs
    <2>2. status' # "script"
      BY <1>12 DEF ExecFails
    <2> QED BY <1>12, <2>1, <2>2, OptionsQuiet DEF ExecFails
  <1>13. ASSUME NEW i \in Lines, Exec(i) PROVE OptionsInv'
    <2>1. \A j \in Lines : proc'[j].pc = "none" <=> proc[j].pc = "none"
      BY <1>1, <1>13 DEF Exec, Become, TypeInv, DriverTypeOK
    <2> QED BY <1>13, <2>1, OptionsQuiet DEF Exec, driverVars
  <1>14. ASSUME NEW i \in Lines, Program(i), UNCHANGED driverVars PROVE OptionsInv'
    <2>1. Goes(i)
      BY <1>1, <1>14, ProgramSteps DEF DriverInv
    <2> QED BY <1>14, <2>1, OptionsQuiet DEF Goes, driverVars
  <1>15. CASE UNCHANGED systemVars
    BY <1>15, OptionsQuiet DEF systemVars, programVars, driverVars
  <1>16. \A signal \in Signals : ProcsKill(signal) => OptionsInv'
    BY <1>7
  <1>17. CASE DriverProgress
    BY <1>2, <1>3, <1>4, <1>5, <1>6, <1>8, <1>9, <1>11, <1>16, <1>17 DEF DriverProgress
  <1> QED BY <1>2, <1>9, <1>10, <1>12, <1>13, <1>14, <1>15, <1>17 DEF DriverNext

LEMMA FullInitInv == DriverInit => FullInv
  <1>1. DriverInit => OptionsInv
    BY DEF DriverInit, OptionsInv, NoProcess
  <1> QED BY <1>1, DriverInitInv DEF FullInv

(* Unless a line sets an option itself, every process that has been given  *)
(* its program obeys the -x that the driver completed with the duration,   *)
(* and the -v that it completed with the process of the preceding server,  *)
(* which exists; for configuration files of any length and order.          *)
THEOREM ArgumentsAlwaysForced == DriverSpec => []ForcedArguments
  <1>1. ASSUME FullInv PROVE ForcedArguments
    <2>1. argv \in [Lines -> Seq(Options)] /\ \A i \in Lines : proc[i].pc # "none" => Completed(i)
      BY <1>1 DEF FullInv, OptionsInv, DriverInv, TypeInv, DriverTypeOK, Options, Values
    <2> QED BY <2>1, ObeyedIs DEF ForcedArguments, Completed, NeedsServer
  <1>2. FullInv /\ [DriverNext]_systemVars => FullInv'
    BY DriverNextInv, OptionsNext DEF FullInv
  <1> QED BY <1>1, <1>2, FullInitInv, PTL DEF DriverSpec

==============================================================================
