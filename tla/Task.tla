-------------------------------- MODULE Task ---------------------------------
(***************************************************************************)
(* The life of a task object of task.c: the thread that runs task_start,   *)
(* the thread that calls task_stop, and the owner that joins the former    *)
(* and calls task_destroy.                                                 *)
(*                                                                         *)
(* task_stop is called, as task.h demands, by a thread that the task's     *)
(* thread cannot preempt, so what task_stop does between two sleeps is one *)
(* step; or (SelfStop) by the task's own program.  pthread_cancel is       *)
(* deferred: the request stays pending until the thread is at a            *)
(* cancellation point, which are the wait for a release, the task program  *)
(* (client_prog and the test programs sleep, send and receive in it) and   *)
(* the stdio calls of the two cleanup handlers when these run from         *)
(* pthread_cleanup_pop.                                                    *)
(***************************************************************************)
EXTENDS Ringbuf, Sequences

CONSTANTS RingSizes,    \* values of ringbuffer_size, 0 disables logging
          Kinds,        \* values of "aperiodic" of the tasks created
          MaxJobs,      \* bound on the jobs released before the task is stopped
          SelfStop,     \* may the task program call task_stop?
          Faults        \* may system calls fail?

ASSUME TaskAssumption == /\ RingSizes \subseteq Nat
                         /\ Kinds \subseteq BOOLEAN
                         /\ MaxJobs \in Nat
                         /\ SelfStop \in BOOLEAN
                         /\ Faults \in BOOLEAN

VARIABLES
    obj,           \* "none", "live" or "gone": the task object
    aperiodic,     \* is the task aperiodic?
    disabled,      \* disable_job_statistics
    stopped,       \* the flag task_stop sets
    inside,        \* inside_aperiodic_release
    next_release,  \* periods between the first release and next_release_time
    rb,            \* stats_ringbuf; NoRingbuf is NULL
    stats_log,     \* "NULL", "open" or "dangling" (fclose has failed on it)
    fail_to_close, \* fail_to_close_stats_log
    contract,      \* oldest_job_pos, lost_job_count and write_count
    preamble,      \* has the preamble been written to the log?
    records,       \* the job records written to the log
    pc,            \* the task's thread
    rc,            \* task_start: "ok", or "error" once rc is negative
    cancel,        \* a cancellation request is pending
    killed_at,     \* where cancellation took effect, or "nowhere"
    stop_pc,       \* task_stop of another thread: "idle", "poll" or "done"
    jobs,          \* jobs released so far
    late           \* of these, how many after stopped was set

vars == <<obj, aperiodic, disabled, stopped, inside, next_release, rb, stats_log,
          fail_to_close, contract, preamble, records, pc, rc, cancel,
          killed_at, stop_pc, jobs, late>>

NoRingbuf == jobstats_ringbuf_create(0, FALSE)

NoContract == [oldest_job_pos |-> 0, lost_job_count |-> 0, write_count |-> 0]

Init ==
    /\ obj = "none"
    /\ aperiodic = FALSE /\ disabled = FALSE
    /\ stopped = FALSE /\ inside = FALSE
    /\ next_release = 0
    /\ rb = NoRingbuf
    /\ stats_log = "NULL"
    /\ fail_to_close = 0
    /\ contract = NoContract
    /\ preamble = FALSE
    /\ records = <<>>
    /\ pc = "ready"
    /\ rc = "ok"
    /\ cancel = FALSE
    /\ killed_at = "nowhere"
    /\ stop_pc = "idle"
    /\ jobs = 0 /\ late = 0

(* task_create when it succeeds (its error paths are in TaskCreate).  With *)
(* a ring buffer of size zero there is none and logging is disabled.       *)
Create(size, dis, ap) ==
    /\ obj = "none"
    /\ obj' = "live"
    /\ aperiodic' = ap
    /\ disabled' = (size = 0)
    /\ rb' = IF size = 0 THEN NoRingbuf ELSE jobstats_ringbuf_create(size, dis)
    /\ stats_log' = "open"
    /\ UNCHANGED <<stopped, inside, next_release, fail_to_close, contract,
                   preamble, records, pc, rc, cancel, killed_at, stop_pc,
                   jobs, late>>

Logging == rb # NoRingbuf /\ ~disabled

-----------------------------------------------------------------------------
(* The thread that runs task_start.                                        *)

threadUnchanged == UNCHANGED <<obj, aperiodic, disabled, stopped, stop_pc>>
logUnchanged == UNCHANGED <<stats_log, fail_to_close, contract, preamble, records>>

(* Both loops begin by waiting for a release; the aperiodic one sets       *)
(* inside_aperiodic_release first.                                         *)
EnterRelease == /\ pc' = "release"
                /\ inside' = aperiodic

Start ==
    /\ obj = "live"
    /\ pc = "ready"
    /\ EnterRelease
    /\ threadUnchanged /\ logUnchanged
    /\ UNCHANGED <<next_release, rb, rc, cancel, killed_at, jobs, late>>

(* aperiodic_release has returned but the thread has not yet cleared       *)
(* inside_aperiodic_release.                                               *)
EventArrives ==
    /\ pc = "release" /\ aperiodic
    /\ jobs < MaxJobs \/ stopped
    /\ pc' = "released"
    /\ threadUnchanged /\ logUnchanged
    /\ UNCHANGED <<inside, next_release, rb, rc, cancel, killed_at, jobs, late>>

(* job_start up to the program; its first clock_gettime may fail.          *)
BeginJob(stamped) ==
    /\ stamped \/ (Faults /\ Logging)
    /\ rb' = IF Logging THEN StampBegin(TakeSlot(rb), SlotOf(rb), stamped) ELSE rb
    /\ jobs' = jobs + 1
    /\ late' = IF stopped THEN late + 1 ELSE late
    /\ pc' = "program"

LeaveRelease(stamped) ==
    /\ pc = "released"
    /\ inside' = FALSE
    /\ BeginJob(stamped)
    /\ rc' = IF stamped THEN rc ELSE "error"
    /\ threadUnchanged /\ logUnchanged
    /\ UNCHANGED <<next_release, cancel, killed_at>>

(* clock_nanosleep of the periodic loop returns, at the release time or,   *)
(* interrupted by a signal, with an error; the job is started either way.  *)
Wake(slept, stamped) ==
    /\ pc = "release" /\ ~aperiodic
    /\ jobs < MaxJobs \/ stopped
    /\ slept \/ Faults
    /\ rc' = IF slept /\ stamped THEN rc ELSE "error"
    /\ BeginJob(stamped)
    /\ threadUnchanged /\ logUnchanged
    /\ UNCHANGED <<inside, next_release, cancel, killed_at>>

(* The slot of the job whose program is running.                           *)
CurrentSlot == IF rb.overrun /\ rb.overrun_disabled THEN Dummy ELSE rb.next - 1

(* Variant: the loop condition looks at rc only.                           *)
EndJobDeaf(ok) ==
    /\ pc = "program"
    /\ ok \/ (Faults /\ Logging)
    /\ rb' = IF Logging THEN StampEnd(rb, CurrentSlot, ok) ELSE rb
    /\ rc' = IF ok THEN rc ELSE "error"
    /\ next_release' = IF aperiodic THEN next_release ELSE next_release + 1
    /\ IF rc' = "ok" THEN EnterRelease
       ELSE pc' = "flush" /\ UNCHANGED inside
    /\ threadUnchanged /\ logUnchanged
    /\ UNCHANGED <<cancel, killed_at, jobs, late>>

(* Variant: the next release is computed only when there is no error.      *)
EndJobNoPeriod(ok) ==
    /\ pc = "program"
    /\ ok \/ (Faults /\ Logging)
    /\ rb' = IF Logging THEN StampEnd(rb, CurrentSlot, ok) ELSE rb
    /\ rc' = IF ok THEN rc ELSE "error"
    /\ next_release' = IF aperiodic \/ rc' # "ok" THEN next_release ELSE next_release + 1
    /\ IF rc' = "ok" /\ ~stopped
       THEN EnterRelease
       ELSE pc' = "flush" /\ UNCHANGED inside
    /\ threadUnchanged /\ logUnchanged
    /\ UNCHANGED <<cancel, killed_at, jobs, late>>

(* The program returns, job_start reads the clock, the periodic loop sets  *)
(* the next release time, and the loop condition is evaluated.             *)
EndJob(ok) ==
    /\ pc = "program"
    /\ ok \/ (Faults /\ Logging)
    /\ rb' = IF Logging THEN StampEnd(rb, CurrentSlot, ok) ELSE rb
    /\ rc' = IF ok THEN rc ELSE "error"
    /\ next_release' = IF aperiodic THEN next_release ELSE next_release + 1
    /\ IF rc' = "ok" /\ ~stopped
       THEN EnterRelease
       ELSE pc' = "flush" /\ UNCHANGED inside
    /\ threadUnchanged /\ logUnchanged
    /\ UNCHANGED <<cancel, killed_at, jobs, late>>

(* Variant: the release position counted from zero.                        *)
RingbufParamsFromZero == [oldest_job_pos |-> rb.overrun_count * rb.slot_count,
                          lost_job_count |-> jobstats_ringbuf_lost_count(rb),
                          write_count    |-> rb.write_count]

(* The parameters of the ring buffer a reader of the log needs.            *)
RingbufParams == [oldest_job_pos |-> jobstats_ringbuf_oldest_pos(rb),
                  lost_job_count |-> jobstats_ringbuf_lost_count(rb),
                  write_count    |-> rb.write_count]

(* flush_stats_ringbuf.  The preamble, or after n of them the records, may *)
(* fail to be written.  The buffer is destroyed in any case.               *)
Flush(preambleOk, n) ==
    /\ pc = "flush"
    /\ pc' = "close"
    /\ IF ~Logging
       THEN UNCHANGED <<contract, preamble, records, fail_to_close, rb>>
       ELSE LET saved == SavedRecords(rb)
                whole == preambleOk /\ n = Len(saved)
            IN /\ n <= Len(saved)
               /\ whole \/ Faults
               /\ contract' = RingbufParams
               /\ preamble' = preambleOk
               /\ records' = IF preambleOk THEN SubSeq(saved, 1, n) ELSE <<>>
               /\ fail_to_close' = IF whole THEN fail_to_close ELSE fail_to_close + 1
               /\ rb' = NoRingbuf
    /\ threadUnchanged
    /\ UNCHANGED <<inside, next_release, stats_log, rc, cancel, killed_at, jobs, late>>

(* close_logging_file, and the return from task_start unless the thread is *)
(* being cancelled.                                                        *)
Close(ok) ==
    /\ pc = "close"
    /\ ok \/ Faults
    /\ pc' = "ended"
    /\ stats_log' = IF ok THEN "NULL" ELSE "dangling"
    /\ fail_to_close' = IF ok THEN fail_to_close ELSE fail_to_close + 1
    /\ rc' = IF fail_to_close' = 0 \/ killed_at # "nowhere" THEN rc ELSE "error"
    /\ threadUnchanged
    /\ UNCHANGED <<inside, next_release, rb, contract, preamble, records, cancel,
                   killed_at, jobs, late>>

(* A pending cancellation takes effect at a cancellation point, once.  The *)
(* cleanup handlers still pushed then run, with cancellation disabled; the *)
(* one that was running does not continue, and what stdio had not yet      *)
(* written is lost.                                                        *)
CancelAt(where) ==
    /\ cancel /\ killed_at = "nowhere"
    /\ pc = where
    /\ cancel' = FALSE
    /\ killed_at' = where
    /\ pc' = CASE where \in {"release", "program", "self_stop"} -> "flush"
               [] where = "flush" -> "close"
               [] where = "close" -> "ended"
    /\ \/ /\ where = "flush" /\ Logging
          /\ contract' = RingbufParams
          /\ \E n \in 0..Len(SavedRecords(rb)) :
                /\ preamble' \in BOOLEAN
                /\ records' = IF preamble' THEN SubSeq(SavedRecords(rb), 1, n) ELSE <<>>
       \/ /\ where = "close"
          /\ \E n \in 0..Len(records) :
                /\ preamble' \in {preamble, FALSE}
                /\ records' = IF preamble' THEN SubSeq(records, 1, n) ELSE <<>>
          /\ UNCHANGED contract
       \/ /\ where # "close" /\ ~(where = "flush" /\ Logging)
          /\ UNCHANGED <<preamble, records, contract>>
    /\ threadUnchanged
    /\ UNCHANGED <<inside, next_release, rb, stats_log, fail_to_close,
                   rc, jobs, late>>

-----------------------------------------------------------------------------
(* task_stop.                                                              *)

(* What follows each look at inside_aperiodic_release.                     *)
CancelOrSleep ==
    \/ inside  /\ cancel' = TRUE /\ stop_pc' = "done"
    \/ ~inside /\ UNCHANGED cancel /\ stop_pc' = "poll"

(* Variant: the stopped flag is not set.                                   *)
StopUnset ==
    /\ obj = "live"
    /\ stop_pc = "idle"
    /\ IF aperiodic THEN CancelOrSleep
       ELSE stop_pc' = "done" /\ UNCHANGED cancel
    /\ UNCHANGED <<obj, aperiodic, disabled, stopped, inside, next_release, rb, stats_log,
                   fail_to_close, contract, preamble, records, pc, rc,
                   killed_at, jobs, late>>

Stop ==
    /\ obj = "live"
    /\ stop_pc = "idle"
    /\ stopped' = TRUE
    /\ IF aperiodic THEN CancelOrSleep
       ELSE stop_pc' = "done" /\ UNCHANGED cancel
    /\ UNCHANGED <<obj, aperiodic, disabled, inside, next_release, rb, stats_log,
                   fail_to_close, contract, preamble, records, pc, rc,
                   killed_at, jobs, late>>

(* The stopper wakes up and looks again.                                   *)
Poll ==
    /\ stop_pc = "poll"
    /\ inside
    /\ CancelOrSleep
    /\ UNCHANGED <<obj, aperiodic, disabled, stopped, inside, next_release, rb, stats_log,
                   fail_to_close, contract, preamble, records, pc, rc,
                   killed_at, jobs, late>>

(* Its clock_nanosleep fails: it breaks out of the loop and cancels.  Of a *)
(* thread that has not started there is no thread_id to cancel yet.        *)
PollFails ==
    /\ Faults
    /\ stop_pc = "poll"
    /\ stop_pc' = "done"
    /\ cancel' = (pc # "ready" /\ pc # "ended")
    /\ UNCHANGED <<obj, aperiodic, disabled, stopped, inside, next_release, rb, stats_log,
                   fail_to_close, contract, preamble, records, pc, rc,
                   killed_at, jobs, late>>

(* task_stop called by the task program itself: inside_aperiodic_release   *)
(* is 0 there, and only this thread could set it.                          *)
StopMyself ==
    /\ SelfStop
    /\ pc = "program" /\ ~stopped
    /\ stopped' = TRUE
    /\ pc' = IF aperiodic THEN "self_stop" ELSE pc
    /\ UNCHANGED <<obj, aperiodic, disabled, inside, next_release, rb, stats_log,
                   fail_to_close, contract, preamble, records, rc, cancel,
                   killed_at, stop_pc, jobs, late>>

SelfPoll ==
    /\ pc = "self_stop"
    /\ inside \/ Faults
    /\ cancel' = TRUE
    /\ pc' = "program"
    /\ UNCHANGED <<obj, aperiodic, disabled, stopped, inside, next_release, rb, stats_log,
                   fail_to_close, contract, preamble, records, rc, killed_at,
                   stop_pc, jobs, late>>

(* The owner joins the thread and destroys the object.                     *)
Destroy ==
    /\ obj = "live"
    /\ pc = "ended" /\ stop_pc # "poll"
    /\ obj' = "gone"
    /\ rb' = NoRingbuf
    /\ stats_log' = "NULL"
    /\ UNCHANGED <<aperiodic, disabled, stopped, inside, next_release, fail_to_close,
                   contract, preamble, records, pc, rc, cancel, killed_at,
                   stop_pc, jobs, late>>

CancelPoints == {"release", "program", "self_stop", "flush", "close"}

Thread ==
    \/ Start \/ EventArrives
    \/ \E ok, stamped \in BOOLEAN : Wake(ok, stamped)
    \/ \E ok \in BOOLEAN : LeaveRelease(ok) \/ EndJob(ok) \/ Close(ok)
    \/ \E ok \in BOOLEAN, n \in 0..(MaxJobs + 1) : Flush(ok, n)
    \/ \E where \in CancelPoints : CancelAt(where)
    \/ StopMyself \/ SelfPoll

Next ==
    \/ \E size \in RingSizes, dis \in BOOLEAN, ap \in Kinds : Create(size, dis, ap)
    \/ Thread
    \/ Stop \/ Poll \/ PollFails
    \/ Destroy

(* A thread that can run is eventually run and its program ends; a sleep   *)
(* ends, and a cancelled thread notices in it; the stopper wakes up from   *)
(* its sleeps.  Nothing makes an aperiodic event arrive, a task be         *)
(* stopped, or a call fail.                                                *)
Fairness ==
    /\ WF_vars(Start) /\ WF_vars(LeaveRelease(TRUE))
    /\ WF_vars(Wake(TRUE, TRUE)) /\ WF_vars(EndJob(TRUE))
    /\ WF_vars(\E ok \in BOOLEAN, n \in 0..(MaxJobs + 1) : Flush(ok, n))
    /\ WF_vars(\E ok \in BOOLEAN : Close(ok))
    /\ WF_vars(CancelAt("release")) /\ WF_vars(CancelAt("self_stop"))
    /\ WF_vars(Poll) /\ WF_vars(SelfPoll)

Spec == Init /\ [][Next]_vars

FairSpec == Spec /\ Fairness

-----------------------------------------------------------------------------
(* The fields of the task object and the positions of the two threads.     *)
TypeOK ==
    /\ obj \in {"none", "live", "gone"}
    /\ {aperiodic, disabled, stopped, inside, preamble, cancel} \subseteq BOOLEAN
    /\ {next_release, fail_to_close, jobs, late} \subseteq Nat
    /\ RingbufType(rb) /\ rb.next <= rb.slot_count
    /\ stats_log \in {"NULL", "open", "dangling"}
    /\ contract \in [oldest_job_pos : Nat, lost_job_count : Nat, write_count : Nat]
    /\ records \in Seq(Slot)
    /\ pc \in {"ready", "release", "released", "program", "self_stop",
               "flush", "close", "ended"}
    /\ rc \in {"ok", "error"}
    /\ killed_at \in {"nowhere"} \cup CancelPoints
    /\ stop_pc \in {"idle", "poll", "done"}

(* task_stop stops "by not releasing the next job": whenever it is called, *)
(* at most the release that the thread is already waiting for still comes. *)
AtMostOneLateJob == late <= 1

(* The log of a thread that has ended, with no I/O error and not cancelled *)
(* while it was writing the log, accounts for every job released: what is  *)
(* not lost is there, in release order from oldest_job_pos on, with both   *)
(* readings of the one job; only the very last job may be unfinished.      *)
LogAccountsForEveryJob ==
    pc = "ended" /\ ~disabled /\ fail_to_close = 0 /\ killed_at \notin {"flush", "close"} =>
        /\ preamble
        /\ contract.write_count = jobs
        /\ Len(records) + contract.lost_job_count = jobs
        /\ \A j \in 1..Len(records) :
              LET k == contract.oldest_job_pos + j - 1
              IN \/ records[j] = [t_begin |-> k, t_end |-> k]
                 \/ k = jobs /\ (killed_at \in {"program", "self_stop"} \/ rc = "error")

(* The k-th job the ring buffer counts is the one released k - 1 periods   *)
(* after the first release, however many records were overwritten or       *)
(* dropped: read_task_stats_file computes releases that way.               *)
PositionIsRelease ==
    Logging /\ ~aperiodic =>
        rb.write_count = next_release + (IF pc = "program" THEN 1 ELSE 0)

(* Once another thread's task_stop has returned with the thread cancelled  *)
(* or told to stop, the thread ends with its handlers run.                 *)
StopEndsThread ==
    (stop_pc = "done" /\ (cancel \/ ~aperiodic)) ~> (pc = "ended")

-----------------------------------------------------------------------------
(* What task.h and task.c say and the code does not do.                    *)

(* "The task itself will not be killed when executing its task program".   *)
NotKilledInProgram == killed_at # "program"

(* "it is reasonable to wait for the completion": task_stop, having waited *)
(* for the task program, returns.                                          *)
StopReturns == (stop_pc = "poll") ~> (stop_pc = "done")

==============================================================================
