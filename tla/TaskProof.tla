------------------------------ MODULE TaskProof ------------------------------
(***************************************************************************)
(* Proofs about Task for every set of ring buffer sizes and of kinds of    *)
(* tasks, and every number of jobs, with or without faults and tasks that  *)
(* stop themselves.                                                        *)
(***************************************************************************)
EXTENDS Task, RingbufProof

InJob == pc \in {"program", "self_stop"}

BeforeFlush == pc \in {"ready", "release", "released", "program", "self_stop", "flush"}

(* The newest record need not have both its readings: its job is at work,  *)
(* was cancelled in its program, or could not read the clock.              *)
Pending == InJob \/ rc = "error" \/ killed_at \in {"program", "self_stop"}

(* The object is there from before the thread starts until after it ends.  *)
Lifetime ==
    /\ obj = "none" => pc = "ready" /\ ~aperiodic /\ rb = NoRingbuf
    /\ obj = "gone" => pc = "ended" /\ rb = NoRingbuf

(* Only a thread of an aperiodic task is ever polled for or cancelled, and *)
(* where it was cancelled says how far it had come.                        *)
Cancellation ==
    /\ cancel \/ killed_at # "nowhere" \/ stop_pc = "poll" \/ pc = "self_stop" => aperiodic
    /\ BeforeFlush /\ pc # "flush" => killed_at = "nowhere"
    /\ pc = "flush" => killed_at \notin {"flush", "close"}
    /\ killed_at = "release" => rc = "ok"

(* A thread that waits for a release has not been late, and no call has    *)
(* failed: it would have left its loop.                                    *)
Waiting ==
    /\ late <= 1
    /\ ~stopped => late = 0
    /\ pc \in {"ready", "release", "released"} => late = 0 /\ rc = "ok"

(* The three counts of the jobs agree.                                     *)
JobCounts ==
    /\ pc = "ready" => jobs = 0
    /\ InJob => jobs # 0
    /\ Logging => rb.write_count = jobs
    /\ ~aperiodic => jobs = next_release + (IF pc = "program" THEN 1 ELSE 0)

(* Until it is saved the ring has the records it should have.              *)
RingKept ==
    obj = "live" /\ BeforeFlush /\ ~disabled =>
        /\ RingInv(rb, Pending)
        /\ InJob /\ rc = "ok" => Begun(rb)

(* The log that has been written, while nothing has failed, accounts for   *)
(* the jobs.                                                               *)
LogKept ==
    pc \in {"close", "ended"} /\ ~disabled /\ fail_to_close = 0
            /\ killed_at \notin {"flush", "close"} =>
        /\ preamble
        /\ contract.write_count = jobs
        /\ Len(records) + contract.lost_job_count = jobs
        /\ \A j \in 1..Len(records) :
              LET k == contract.oldest_job_pos + j - 1
              IN \/ records[j] = [t_begin |-> k, t_end |-> k]
                 \/ k = jobs /\ (killed_at \in {"program", "self_stop"} \/ rc = "error")

IInv == TypeOK /\ Lifetime /\ Cancellation /\ Waiting /\ JobCounts /\ RingKept /\ LogKept

-----------------------------------------------------------------------------
(* NULL is no ring.                                                        *)
LEMMA NoRingbufFields ==
    /\ RingbufType(NoRingbuf) /\ NoRingbuf.next <= NoRingbuf.slot_count
    /\ NoRingbuf.slot_count = 0
  BY DEF NoRingbuf, jobstats_ringbuf_create, RingbufType, Slot

LEMMA RingIsNotNull ==
    ASSUME NEW p \in BOOLEAN, NEW r, RingInv(r, p)
    PROVE  r # NoRingbuf /\ RingbufType(r) /\ r.next <= r.slot_count
  BY NoRingbufFields DEF RingInv

LEMMA PendingType == Pending \in BOOLEAN /\ Pending' \in BOOLEAN
  BY DEF Pending

(* Until the log is flushed a task that logs has a ring.                   *)
LEMMA HasRing ==
    ASSUME IInv, obj = "live", BeforeFlush
    PROVE  /\ ~disabled <=> Logging
           /\ Logging => RingInv(rb, Pending)
  BY PendingType, RingIsNotNull DEF IInv, RingKept, Logging

LEMMA InitIInv == Init => IInv
  <1> SUFFICES ASSUME Init PROVE IInv
    OBVIOUS
  <1>1. TypeOK
    <2>1. RingbufType(rb) /\ rb.next <= rb.slot_count
      BY NoRingbufFields DEF Init
    <2>2. contract \in [oldest_job_pos : Nat, lost_job_count : Nat, write_count : Nat]
      BY DEF Init, NoContract
    <2>3. {aperiodic, disabled, stopped, inside, preamble, cancel} \subseteq BOOLEAN
      BY DEF Init
    <2>4. {next_release, fail_to_close, jobs, late} \subseteq Nat /\ records \in Seq(Slot)
      BY DEF Init
    <2> QED BY <2>1, <2>2, <2>3, <2>4 DEF Init, TypeOK
  <1>2. Lifetime /\ Cancellation /\ Waiting /\ RingKept /\ LogKept
    BY DEF Init, Lifetime, Cancellation, Waiting, RingKept, LogKept, BeforeFlush
  <1>3. JobCounts
    BY DEF Init, JobCounts, InJob, Logging
  <1> QED BY <1>1, <1>2, <1>3 DEF IInv

LEMMA CreateIInv ==
    ASSUME IInv, NEW size \in RingSizes, NEW dis \in BOOLEAN, NEW ap \in Kinds,
           Create(size, dis, ap)
    PROVE  IInv'
  <1>1. size \in Nat /\ ap \in BOOLEAN
    BY TaskAssumption
  <1>2. /\ pc = "ready" /\ ~aperiodic /\ rb = NoRingbuf
        /\ ~cancel /\ killed_at = "nowhere" /\ stop_pc # "poll" /\ rc = "ok"
        /\ jobs = 0 /\ next_release = 0
    BY DEF IInv, TypeOK, Lifetime, Cancellation, Waiting, JobCounts, Create, BeforeFlush
  <1>3. /\ RingbufType(rb') /\ rb'.next <= rb'.slot_count
        /\ ~disabled' => RingInv(rb', FALSE) /\ rb'.write_count = 0
        /\ disabled' => rb' = NoRingbuf
    <2>1. CASE size = 0
      BY <2>1, NoRingbufFields DEF Create
    <2>2. CASE size # 0
      BY <1>1, <2>2, CreatedRing, RingIsNotNull DEF Create
    <2> QED BY <2>1, <2>2
  <1>4. TypeOK'
    BY <1>1, <1>3 DEF IInv, TypeOK, Create
  <1>5. Lifetime' /\ Cancellation' /\ Waiting' /\ LogKept'
    BY <1>2 DEF IInv, Lifetime, Cancellation, Waiting, LogKept, Create, BeforeFlush
  <1>6. JobCounts'
    BY <1>2, <1>3 DEF IInv, JobCounts, InJob, Logging, Create
  <1>7. RingKept'
    <2>1. ~Pending' /\ ~InJob'
      BY <1>2 DEF Pending, InJob, Create
    <2> QED BY <1>3, <2>1, PendingType, WeakerRing DEF RingKept
  <1> QED BY <1>4, <1>5, <1>6, <1>7 DEF IInv

LEMMA StartIInv ==
    ASSUME IInv, Start
    PROVE  IInv'
  <1>1. TypeOK'
    BY DEF IInv, TypeOK, Start, EnterRelease, threadUnchanged, logUnchanged
  <1>2. Lifetime' /\ Cancellation' /\ Waiting' /\ JobCounts' /\ LogKept'
    BY DEF IInv, Lifetime, Cancellation, Waiting, JobCounts, LogKept, Start, EnterRelease,
           threadUnchanged, logUnchanged, BeforeFlush, InJob, Logging
  <1>3. RingKept'
    BY DEF IInv, RingKept, Start, EnterRelease, threadUnchanged, BeforeFlush, Pending, InJob
  <1> QED BY <1>1, <1>2, <1>3 DEF IInv

LEMMA EventArrivesIInv ==
    ASSUME IInv, EventArrives
    PROVE  IInv'
  <1>1. TypeOK'
    BY DEF IInv, TypeOK, EventArrives, threadUnchanged, logUnchanged
  <1>2. Lifetime' /\ Cancellation' /\ Waiting' /\ JobCounts' /\ LogKept'
    BY DEF IInv, Lifetime, Cancellation, Waiting, JobCounts, LogKept, EventArrives,
           threadUnchanged, logUnchanged, BeforeFlush, InJob, Logging
  <1>3. RingKept'
    BY DEF IInv, RingKept, EventArrives, threadUnchanged, BeforeFlush, Pending, InJob
  <1> QED BY <1>1, <1>2, <1>3 DEF IInv

(* What a release leads to, whether the thread slept for it or was woken   *)
(* up by an event.                                                         *)
LEMMA BeginJobIInv ==
    ASSUME IInv, pc \in {"release", "released"}, NEW stamped \in BOOLEAN,
           BeginJob(stamped), threadUnchanged, logUnchanged,
           UNCHANGED <<next_release, cancel, killed_at>>,
           inside' \in BOOLEAN, rc' \in {"ok", "error"}, rc' = "ok" => stamped
    PROVE  IInv'
  <1>1. /\ obj = "live" /\ BeforeFlush /\ killed_at = "nowhere" /\ rc = "ok"
        /\ late = 0 /\ ~Pending
    BY DEF IInv, TypeOK, Lifetime, Cancellation, Waiting, BeforeFlush, Pending, InJob
  <1>2. /\ RingbufType(rb') /\ rb'.next <= rb'.slot_count
        /\ ~disabled => /\ RingInv(rb', TRUE) /\ rb'.write_count = rb.write_count + 1
                        /\ stamped => Begun(rb')
    <2>1. CASE Logging
      <3>1. RingInv(rb, FALSE)
        BY <1>1, <2>1, HasRing, PendingType, WeakerRing
      <3> QED BY <2>1, <3>1, BeginJobRing, RingIsNotNull DEF BeginJob
    <2>2. CASE ~Logging
      BY <1>1, <2>2, HasRing DEF BeginJob, IInv, TypeOK
    <2> QED BY <2>1, <2>2
  <1>3. TypeOK'
    BY <1>2 DEF IInv, TypeOK, BeginJob, threadUnchanged, logUnchanged
  <1>4. Lifetime' /\ Cancellation' /\ Waiting' /\ LogKept'
    BY <1>1 DEF IInv, TypeOK, Lifetime, Cancellation, Waiting, LogKept, BeginJob,
                threadUnchanged, logUnchanged, BeforeFlush
  <1>5. JobCounts'
    <2>1. Logging' => rb'.write_count = rb.write_count + 1 /\ rb.write_count = jobs
      BY <1>1, <1>2, HasRing DEF IInv, JobCounts, Logging, threadUnchanged
    <2> QED BY <2>1 DEF IInv, TypeOK, JobCounts, InJob, BeginJob, threadUnchanged
  <1>6. RingKept'
    <2>1. Pending'
      BY DEF Pending, InJob, BeginJob
    <2> QED BY <1>2, <2>1, PendingType, WeakerRing DEF RingKept, threadUnchanged
  <1> QED BY <1>3, <1>4, <1>5, <1>6 DEF IInv

LEMMA LeaveReleaseIInv ==
    ASSUME IInv, NEW stamped \in BOOLEAN, LeaveRelease(stamped)
    PROVE  IInv'
  <1>1. pc \in {"release", "released"} /\ inside' \in BOOLEAN
    BY DEF LeaveRelease
  <1>2. rc' \in {"ok", "error"} /\ (rc' = "ok" => stamped)
    BY DEF LeaveRelease, IInv, TypeOK
  <1> QED BY <1>1, <1>2, BeginJobIInv DEF LeaveRelease

LEMMA WakeIInv ==
    ASSUME IInv, NEW slept \in BOOLEAN, NEW stamped \in BOOLEAN, Wake(slept, stamped)
    PROVE  IInv'
  <1>1. pc \in {"release", "released"} /\ inside' \in BOOLEAN
    BY DEF Wake, IInv, TypeOK
  <1>2. rc' \in {"ok", "error"} /\ (rc' = "ok" => stamped)
    BY DEF Wake, IInv, TypeOK
  <1> QED BY <1>1, <1>2, BeginJobIInv DEF Wake

(* The program has returned: EndJob leads back to the release or to the    *)
(* flushing of the ring.                                                   *)
LEMMA EndJobIInv ==
    ASSUME IInv, NEW ok \in BOOLEAN, EndJob(ok)
    PROVE  IInv'
  <1>1. /\ pc = "program" /\ obj = "live" /\ BeforeFlush /\ killed_at = "nowhere"
        /\ InJob /\ Pending /\ jobs # 0
    BY DEF EndJob, IInv, TypeOK, Lifetime, Cancellation, JobCounts, BeforeFlush, Pending, InJob
  <1>2. /\ rc' = "ok" => ok /\ rc = "ok"
        /\ rc' \in {"ok", "error"}
        /\ pc' \in {"release", "flush"}
        /\ pc' = "release" => rc' = "ok" /\ ~stopped
        /\ inside' \in BOOLEAN
        /\ next_release' \in Nat
    BY DEF EndJob, EnterRelease, IInv, TypeOK
  <1>3. /\ RingbufType(rb') /\ rb'.next <= rb'.slot_count
        /\ ~disabled => /\ RingInv(rb', TRUE) /\ rb'.write_count = rb.write_count
                        /\ rc' = "ok" => RingInv(rb', FALSE)
    <2>1. CASE Logging
      <3>1. RingInv(rb, TRUE) /\ (rc = "ok" => Begun(rb)) /\ rb.write_count # 0
        BY <1>1, <2>1, HasRing, PendingType, WeakerRing
           DEF IInv, RingKept, JobCounts, Logging
      <3>2. rb' = StampEnd(rb, NewestSlot(rb), ok)
        BY <2>1 DEF EndJob, CurrentSlot, NewestSlot
      <3> QED BY <1>2, <3>1, <3>2, EndJobRing, RingIsNotNull
    <2>2. CASE ~Logging
      BY <1>1, <2>2, HasRing DEF EndJob, IInv, TypeOK
    <2> QED BY <2>1, <2>2
  <1>4. TypeOK'
    BY <1>2, <1>3 DEF IInv, TypeOK, EndJob, threadUnchanged, logUnchanged
  <1>5. Lifetime' /\ Cancellation' /\ Waiting' /\ LogKept'
    BY <1>1, <1>2 DEF IInv, TypeOK, Lifetime, Cancellation, Waiting, LogKept, EndJob,
                      threadUnchanged, logUnchanged, BeforeFlush
  <1>6. JobCounts'
    <2>1. Logging' => rb'.write_count = rb.write_count /\ rb.write_count = jobs
      BY <1>1, <1>3, HasRing DEF IInv, JobCounts, Logging, EndJob, threadUnchanged
    <2> QED BY <1>2, <2>1 DEF IInv, TypeOK, JobCounts, InJob, EndJob, threadUnchanged
  <1>7. RingKept'
    <2>1. ~InJob' /\ (rc' = "ok" => ~Pending')
      BY <1>1, <1>2 DEF Pending, InJob, EndJob
    <2>2. rc' # "ok" => Pending'
      BY <1>2 DEF Pending
    <2> QED BY <1>3, <2>1, <2>2, PendingType, WeakerRing DEF RingKept, EndJob, threadUnchanged
  <1> QED BY <1>4, <1>5, <1>6, <1>7 DEF IInv

(* The parameters a flush writes are those of the ring.                    *)
LEMMA RingbufParamsType ==
    ASSUME NEW pending \in BOOLEAN, RingInv(rb, pending)
    PROVE  RingbufParams \in [oldest_job_pos : Nat, lost_job_count : Nat, write_count : Nat]
  BY SaveAccountsForJobs DEF RingbufParams, RingInv, RingbufType

LEMMA FlushIInv ==
    ASSUME IInv, NEW preambleOk \in BOOLEAN, NEW n \in Nat, Flush(preambleOk, n)
    PROVE  IInv'
  <1>1. /\ pc = "flush" /\ pc' = "close" /\ obj = "live" /\ BeforeFlush /\ ~InJob
        /\ ~BeforeFlush' /\ ~InJob'
    BY DEF Flush, IInv, TypeOK, Lifetime, BeforeFlush, InJob
  <1> DEFINE saved == SavedRecords(rb)
             whole == preambleOk /\ n = Len(saved)
  <1>2. CASE ~Logging
    <2>1. TypeOK'
      BY <1>2 DEF IInv, TypeOK, Flush, threadUnchanged
    <2>2. disabled
      BY <1>1, <1>2, HasRing
    <2>3. Lifetime' /\ Cancellation' /\ Waiting' /\ LogKept' /\ RingKept'
      BY <1>1, <2>2 DEF IInv, Lifetime, Cancellation, Waiting, LogKept, RingKept, Flush,
                        threadUnchanged, BeforeFlush
    <2>4. JobCounts'
      BY <1>1, <2>2 DEF IInv, JobCounts, Logging, Flush, threadUnchanged
    <2> QED BY <2>1, <2>3, <2>4 DEF IInv
  <1>3. CASE Logging
    <2>1. RingInv(rb, Pending) /\ ~disabled /\ rb.write_count = jobs
      BY <1>1, <1>3, HasRing DEF IInv, JobCounts
    <2>2. /\ n <= Len(saved)
          /\ contract' = RingbufParams
          /\ preamble' = preambleOk
          /\ records' = IF preambleOk THEN SubSeq(saved, 1, n) ELSE <<>>
          /\ fail_to_close' = IF whole THEN fail_to_close ELSE fail_to_close + 1
          /\ rb' = NoRingbuf
      BY <1>3 DEF Flush
    <2>3. saved \in Seq(Slot)
      BY <2>1, PendingType, SavedRecordsAre
    <2>4. records' \in Seq(Slot) /\ (whole => records' = saved)
      <3> HIDE DEF saved
      <3>1. SubSeq(saved, 1, n) \in Seq(Slot) /\ (n = Len(saved) => SubSeq(saved, 1, n) = saved)
        BY <2>2, <2>3
      <3> QED BY <2>2, <3>1
    <2>5. TypeOK'
      <3>1. /\ RingbufType(rb') /\ rb'.next <= rb'.slot_count
            /\ contract' \in [oldest_job_pos : Nat, lost_job_count : Nat, write_count : Nat]
        BY <2>1, <2>2, NoRingbufFields, RingbufParamsType, PendingType
      <3>2. fail_to_close' \in Nat
        BY <2>2 DEF IInv, TypeOK
      <3> QED BY <2>2, <2>4, <3>1, <3>2 DEF IInv, TypeOK, Flush, threadUnchanged
    <2>6. Lifetime' /\ Cancellation' /\ Waiting' /\ RingKept'
      BY <1>1, <2>2 DEF IInv, Lifetime, Cancellation, Waiting, RingKept, Flush,
                        threadUnchanged, BeforeFlush
    <2>7. JobCounts'
      BY <1>1, <2>2 DEF IInv, JobCounts, Logging, Flush, threadUnchanged
    <2>8. LogKept'
      <3> SUFFICES ASSUME fail_to_close' = 0
                   PROVE  /\ preamble'
                          /\ contract'.write_count = jobs
                          /\ Len(records') + contract'.lost_job_count = jobs
                          /\ \A j \in 1..Len(records') :
                                LET k == contract'.oldest_job_pos + j - 1
                                IN \/ records'[j] = [t_begin |-> k, t_end |-> k]
                                   \/ k = jobs /\ (killed_at \in {"program", "self_stop"}
                                                   \/ rc = "error")
        BY DEF LogKept, Flush
      <3>1. whole
        BY <2>2 DEF IInv, TypeOK
      <3>2. Pending => killed_at \in {"program", "self_stop"} \/ rc = "error"
        BY <1>1 DEF Pending
      <3>3. /\ contract'.oldest_job_pos = jobstats_ringbuf_oldest_pos(rb)
            /\ contract'.lost_job_count = jobstats_ringbuf_lost_count(rb)
            /\ contract'.write_count = rb.write_count
        BY <2>2 DEF RingbufParams
      <3>4. /\ Len(saved) + jobstats_ringbuf_lost_count(rb) = rb.write_count
            /\ \A j \in 1..Len(saved) :
                  LET k == jobstats_ringbuf_oldest_pos(rb) + j - 1
                  IN \/ saved[j] = [t_begin |-> k, t_end |-> k]
                     \/ Pending /\ k = rb.write_count
        BY <2>1, PendingType, SaveAccountsForJobs
      <3> HIDE DEF saved
      <3> QED BY <2>1, <2>2, <2>4, <3>1, <3>2, <3>3, <3>4
    <2> QED BY <2>5, <2>6, <2>7, <2>8 DEF IInv
  <1> QED BY <1>2, <1>3

LEMMA CloseIInv ==
    ASSUME IInv, NEW ok \in BOOLEAN, Close(ok)
    PROVE  IInv'
  <1>1. TypeOK'
    BY DEF IInv, TypeOK, Close, threadUnchanged
  <1>2. Lifetime' /\ Cancellation' /\ Waiting' /\ RingKept'
    BY DEF IInv, TypeOK, Lifetime, Cancellation, Waiting, RingKept, Close, threadUnchanged,
           BeforeFlush
  <1>3. JobCounts'
    BY DEF IInv, JobCounts, InJob, Logging, Close, threadUnchanged
  <1>4. LogKept'
    <2>1. fail_to_close' = 0 => fail_to_close = 0 /\ rc' = rc
      BY DEF IInv, TypeOK, Close
    <2> QED BY <2>1 DEF IInv, LogKept, Close, threadUnchanged
  <1> QED BY <1>1, <1>2, <1>3, <1>4 DEF IInv

(* A cancellation takes the thread to the handler it has not run yet.      *)
LEMMA CancelAtIInv ==
    ASSUME IInv, NEW where \in CancelPoints, CancelAt(where)
    PROVE  IInv'
  <1>1. /\ cancel /\ aperiodic /\ killed_at = "nowhere" /\ pc = where
        /\ killed_at' = where /\ ~cancel' /\ obj = "live"
        /\ where \in {"release", "program", "self_stop", "flush", "close"}
    BY DEF CancelAt, CancelPoints, IInv, TypeOK, Lifetime, Cancellation
  <1>2. pc' = IF where = "close" THEN "ended" ELSE IF where = "flush" THEN "close" ELSE "flush"
    BY <1>1 DEF CancelAt
  <1>3. preamble' \in BOOLEAN /\ records' \in Seq(Slot)
        /\ contract' \in [oldest_job_pos : Nat, lost_job_count : Nat, write_count : Nat]
    <2>1. CASE where = "flush" /\ Logging
      <3>1. RingInv(rb, Pending)
        BY <1>1, <2>1, HasRing DEF BeforeFlush
      <3>2. SavedRecords(rb) \in Seq(Slot)
        BY <3>1, PendingType, SavedRecordsAre
      <3>3. contract' = RingbufParams /\ preamble' \in BOOLEAN
            /\ \E n \in 0..Len(SavedRecords(rb)) :
                  records' = IF preamble' THEN SubSeq(SavedRecords(rb), 1, n) ELSE <<>>
        BY <2>1 DEF CancelAt
      <3>4. \A n \in 0..Len(SavedRecords(rb)) : SubSeq(SavedRecords(rb), 1, n) \in Seq(Slot)
        BY <3>2
      <3> QED BY <3>1, <3>3, <3>4, RingbufParamsType, PendingType
    <2>2. CASE where = "close"
      <3>1. records \in Seq(Slot) /\ preamble \in BOOLEAN
        BY DEF IInv, TypeOK
      <3>2. contract' = contract /\ preamble' \in {preamble, FALSE}
            /\ \E n \in 0..Len(records) :
                  records' = IF preamble' THEN SubSeq(records, 1, n) ELSE <<>>
        BY <2>2 DEF CancelAt
      <3>3. \A n \in 0..Len(records) : SubSeq(records, 1, n) \in Seq(Slot)
        BY <3>1
      <3>4. preamble' \in BOOLEAN /\ records' \in Seq(Slot)
        <4>1. preamble' \in BOOLEAN
          BY <3>1, <3>2
        <4>2. PICK n \in 0..Len(records) :
                 records' = IF preamble' THEN SubSeq(records, 1, n) ELSE <<>>
          BY <3>2
        <4>3. SubSeq(records, 1, n) \in Seq(Slot)
          BY <3>3
        <4> QED BY <4>1, <4>2, <4>3
      <3>5. contract' \in [oldest_job_pos : Nat, lost_job_count : Nat, write_count : Nat]
        BY <3>2 DEF IInv, TypeOK
      <3> QED BY <3>4, <3>5
    <2>3. CASE where # "close" /\ ~(where = "flush" /\ Logging)
      BY <2>3 DEF CancelAt, IInv, TypeOK
    <2> QED BY <2>1, <2>2, <2>3
  <1>4. TypeOK'
    BY <1>1, <1>2, <1>3 DEF IInv, TypeOK, CancelAt, threadUnchanged, CancelPoints
  <1>5. Lifetime' /\ Cancellation' /\ Waiting' /\ LogKept'
    BY <1>1, <1>2 DEF IInv, TypeOK, Lifetime, Cancellation, Waiting, LogKept, CancelAt,
                      threadUnchanged, BeforeFlush
  <1>6. JobCounts'
    BY <1>1, <1>2 DEF IInv, JobCounts, InJob, Logging, CancelAt, threadUnchanged
  <1>7. RingKept'
    <2> SUFFICES ASSUME ~disabled, BeforeFlush'
                 PROVE  RingInv(rb', Pending')
      BY <1>1, <1>2 DEF RingKept, CancelAt, threadUnchanged, InJob
    <2>1. BeforeFlush /\ rb' = rb /\ rc' = rc /\ pc' = "flush"
      BY <1>1, <1>2 DEF BeforeFlush, CancelAt
    <2>2. RingInv(rb, Pending)
      BY <1>1, <2>1, HasRing
    <2>3. Pending => Pending'
      BY <1>1, <2>1 DEF Pending, InJob
    <2> QED BY <2>1, <2>2, <2>3, PendingType, WeakerRing
  <1> QED BY <1>4, <1>5, <1>6, <1>7 DEF IInv

-----------------------------------------------------------------------------
(* task_stop, of another thread and of the task's own program, and the     *)
(* destruction of the task.                                                *)

LEMMA StopIInv ==
    ASSUME IInv, Stop
    PROVE  IInv'
  <1>1. TypeOK'
    BY DEF IInv, TypeOK, Stop, CancelOrSleep
  <1>2. Lifetime' /\ Cancellation' /\ Waiting' /\ LogKept'
    BY DEF IInv, TypeOK, Lifetime, Cancellation, Waiting, LogKept, Stop, CancelOrSleep, BeforeFlush
  <1>3. JobCounts'
    BY DEF IInv, JobCounts, InJob, Logging, Stop, CancelOrSleep
  <1>4. RingKept'
    BY DEF IInv, TypeOK, RingKept, Stop, CancelOrSleep, BeforeFlush, Pending, InJob
  <1> QED BY <1>1, <1>2, <1>3, <1>4 DEF IInv

LEMMA PollIInv ==
    ASSUME IInv, Poll
    PROVE  IInv'
  <1>1. TypeOK'
    BY DEF IInv, TypeOK, Poll, CancelOrSleep
  <1>2. Lifetime' /\ Cancellation' /\ Waiting' /\ LogKept'
    BY DEF IInv, TypeOK, Lifetime, Cancellation, Waiting, LogKept, Poll, CancelOrSleep, BeforeFlush
  <1>3. JobCounts'
    BY DEF IInv, JobCounts, InJob, Logging, Poll, CancelOrSleep
  <1>4. RingKept'
    BY DEF IInv, TypeOK, RingKept, Poll, CancelOrSleep, BeforeFlush, Pending, InJob
  <1> QED BY <1>1, <1>2, <1>3, <1>4 DEF IInv

LEMMA PollFailsIInv ==
    ASSUME IInv, PollFails
    PROVE  IInv'
  <1>1. TypeOK'
    BY DEF IInv, TypeOK, PollFails
  <1>2. Lifetime' /\ Cancellation' /\ Waiting' /\ LogKept'
    BY DEF IInv, TypeOK, Lifetime, Cancellation, Waiting, LogKept, PollFails, BeforeFlush
  <1>3. JobCounts'
    BY DEF IInv, JobCounts, InJob, Logging, PollFails
  <1>4. RingKept'
    BY DEF IInv, TypeOK, RingKept, PollFails, BeforeFlush, Pending, InJob
  <1> QED BY <1>1, <1>2, <1>3, <1>4 DEF IInv

LEMMA StopMyselfIInv ==
    ASSUME IInv, StopMyself
    PROVE  IInv'
  <1>1. TypeOK'
    BY DEF IInv, TypeOK, StopMyself
  <1>2. Lifetime' /\ Cancellation' /\ Waiting' /\ LogKept'
    BY DEF IInv, TypeOK, Lifetime, Cancellation, Waiting, LogKept, StopMyself, BeforeFlush
  <1>3. JobCounts'
    BY DEF IInv, JobCounts, InJob, Logging, StopMyself
  <1>4. RingKept'
    BY DEF IInv, TypeOK, RingKept, StopMyself, BeforeFlush, Pending, InJob
  <1> QED BY <1>1, <1>2, <1>3, <1>4 DEF IInv

LEMMA SelfPollIInv ==
    ASSUME IInv, SelfPoll
    PROVE  IInv'
  <1>1. TypeOK'
    BY DEF IInv, TypeOK, SelfPoll
  <1>2. Lifetime' /\ Cancellation' /\ Waiting' /\ LogKept'
    BY DEF IInv, TypeOK, Lifetime, Cancellation, Waiting, LogKept, SelfPoll, BeforeFlush
  <1>3. JobCounts'
    BY DEF IInv, Cancellation, JobCounts, InJob, Logging, SelfPoll
  <1>4. RingKept'
    BY DEF IInv, TypeOK, RingKept, SelfPoll, BeforeFlush, Pending, InJob
  <1> QED BY <1>1, <1>2, <1>3, <1>4 DEF IInv

LEMMA DestroyIInv ==
    ASSUME IInv, Destroy
    PROVE  IInv'
  <1>1. TypeOK'
    BY NoRingbufFields DEF IInv, TypeOK, Destroy
  <1>2. Lifetime' /\ Cancellation' /\ Waiting' /\ LogKept' /\ RingKept'
    BY DEF IInv, Lifetime, Cancellation, Waiting, LogKept, RingKept, Destroy, BeforeFlush
  <1>3. JobCounts'
    BY DEF IInv, JobCounts, InJob, Logging, Destroy
  <1> QED BY <1>1, <1>2, <1>3 DEF IInv

(* IInv is inductive.                                                      *)
LEMMA NextIInv == IInv /\ [Next]_vars => IInv'
  <1> SUFFICES ASSUME IInv, [Next]_vars PROVE IInv'
    OBVIOUS
  <1>1. ASSUME NEW size \in RingSizes, NEW dis \in BOOLEAN, NEW ap \in Kinds,
               Create(size, dis, ap)
        PROVE  IInv'
    BY <1>1, CreateIInv
  <1>2. CASE Thread
    <2>1. CASE Start \/ EventArrives
      BY <2>1, StartIInv, EventArrivesIInv
    <2>2. ASSUME NEW ok \in BOOLEAN, NEW stamped \in BOOLEAN, Wake(ok, stamped)
          PROVE  IInv'
      BY <2>2, WakeIInv
    <2>3. ASSUME NEW ok \in BOOLEAN, LeaveRelease(ok) \/ EndJob(ok) \/ Close(ok)
          PROVE  IInv'
      BY <2>3, LeaveReleaseIInv, EndJobIInv, CloseIInv
    <2>4. ASSUME NEW ok \in BOOLEAN, NEW n \in 0..(MaxJobs + 1), Flush(ok, n)
          PROVE  IInv'
      <3>1. n \in Nat
        BY TaskAssumption
      <3> QED BY <2>4, <3>1, FlushIInv
    <2>5. ASSUME NEW where \in CancelPoints, CancelAt(where)
          PROVE  IInv'
      BY <2>5, CancelAtIInv
    <2>6. CASE StopMyself \/ SelfPoll
      BY <2>6, StopMyselfIInv, SelfPollIInv
    <2> QED BY <1>2, <2>1, <2>2, <2>3, <2>4, <2>5, <2>6 DEF Thread
  <1>3. CASE Stop \/ Poll \/ PollFails \/ Destroy
    BY <1>3, StopIInv, PollIInv, PollFailsIInv, DestroyIInv
  <1>4. CASE UNCHANGED vars
    BY <1>4 DEF vars, IInv, TypeOK, Lifetime, Cancellation, Waiting, JobCounts, RingKept,
                LogKept, InJob, BeforeFlush, Pending, Logging
  <1> QED BY <1>1, <1>2, <1>3, <1>4 DEF Next

LEMMA SpecIInv == Spec => []IInv
  BY InitIInv, NextIInv, PTL DEF Spec

-----------------------------------------------------------------------------
(* The fields of the task object and the positions of its threads, and the *)
(* ring buffer is none or one whose next never runs past its end.          *)
THEOREM TypeCorrect == Spec => []TypeOK
  <1>1. IInv => TypeOK
    BY DEF IInv
  <1> QED BY <1>1, SpecIInv, PTL

(* task_stop lets at most the one release come for which task_start was    *)
(* waiting already, whoever calls it and whenever.                         *)
THEOREM LateAtMostOnce == Spec => []AtMostOneLateJob
  <1>1. IInv => AtMostOneLateJob
    BY DEF IInv, Waiting, AtMostOneLateJob
  <1> QED BY <1>1, SpecIInv, PTL

(* The log that task_start leaves behind accounts for every job released,  *)
(* whatever the size of the ring, however often it has wrapped, whether    *)
(* the thread returned or was cancelled before it flushed.                 *)
THEOREM LogAlwaysAccounts == Spec => []LogAccountsForEveryJob
  <1>1. IInv => LogAccountsForEveryJob
    BY DEF IInv, LogKept, LogAccountsForEveryJob
  <1> QED BY <1>1, SpecIInv, PTL

(* The count of the ring is the position of the release in the schedule of *)
(* a periodic task, with overwritten and dropped records counted.          *)
THEOREM PositionAlwaysRelease == Spec => []PositionIsRelease
  <1>1. IInv => PositionIsRelease
    BY DEF IInv, JobCounts, PositionIsRelease
  <1> QED BY <1>1, SpecIInv, PTL

==============================================================================
