------------------------------ MODULE JobProof -------------------------------
(***************************************************************************)
(* Proofs about the job statistics: how they are recorded (Job), for every *)
(* set of slot counts and every number of jobs, and how they are read back *)
(* (TaskStatsFile, StatsReport), for every file and every task.            *)
(***************************************************************************)
EXTENDS Job, StatsReport, RingbufProof, FiniteSetTheorems, WellFoundedInduction

(* The state of the loop of jobstats_ringbuf_save: what is in the file so  *)
(* far are the records from the oldest slot on, and the loop variable      *)
(* points (modulo the size) to the slot of the next one.                   *)
SaveProgress ==
    /\ pc = "saving" => /\ rb.write_count # 0
                        /\ Len(record_file) < Kept
                        /\ SaveSlot(rb, i) = SlotFrom(Len(record_file) + 1)
                        /\ save_rc = "none"
    /\ pc = "saving" \/ save_rc = "ok" =>
          \A j \in 1..Len(record_file) : record_file[j] = rb.ringbuf[SlotFrom(j)]
    /\ save_rc = "ok" => Len(record_file) = Kept
    /\ pc \in {"none", "running"} => save_rc = "none"

(* While a job runs, "stats" is the slot of the newest job, or the dummy   *)
(* when the ring is full and must not wrap.                                *)
StatsIsNewest ==
    pc = "running" =>
        /\ rb.write_count # 0
        /\ rc <= 1
        /\ ~killed
        /\ stats = Dummy => rb.overrun_disabled /\ rb.overrun
        /\ stats # Dummy => Holds(stats) /\ JobAt(stats) = rb.write_count
                            /\ (rc = 0 => rb.ringbuf[stats].t_begin = rb.write_count)

IInv == TypeOK /\ CountersAgree /\ SlotsHoldTheirJobs /\ StatsIsNewest /\ SaveProgress

(* The part of CountersAgree that is linear arithmetic.                    *)
LinearCounters ==
    /\ ~rb.overrun => rb.write_count = rb.next
    /\ rb.overrun  => rb.write_count > rb.slot_count
    /\ rb.overrun /\ rb.overrun_disabled => rb.next = rb.slot_count
    /\ rb.overrun /\ ~rb.overrun_disabled => rb.next >= 1

-----------------------------------------------------------------------------
LEMMA InitIInv == Init => IInv
  <1> SUFFICES ASSUME Init PROVE IInv
    OBVIOUS
  <1>1. /\ rb.slot_count = 0 /\ rb.next = 0 /\ rb.overrun_count = 0
        /\ ~rb.overrun_disabled /\ ~rb.overrun
        /\ rb.write_count = 0 /\ RingbufType(rb)
    BY DEF Init, NoRingbuf, jobstats_ringbuf_create, RingbufType, Slot
  <1>2. TypeOK
    <2>1. rb.next <= rb.slot_count /\ (pc = "none" <=> rb.slot_count = 0)
      BY <1>1 DEF Init
    <2>2. i \in 0..rb.slot_count /\ record_file \in Seq(Slot)
      BY <1>1 DEF Init
    <2>3. stats \in {Dummy} \cup 0..(rb.slot_count - 1) /\ rc \in 0..2
      BY DEF Init
    <2> QED BY <1>1, <2>1, <2>2, <2>3 DEF Init, TypeOK
  <1>3. CountersAgree
    BY <1>1 DEF CountersAgree
  <1>4. SlotsHoldTheirJobs
    BY <1>1 DEF SlotsHoldTheirJobs
  <1>5. StatsIsNewest /\ SaveProgress
    BY <1>1 DEF Init, StatsIsNewest, SaveProgress
  <1> QED BY <1>2, <1>3, <1>4, <1>5 DEF IInv

LEMMA CreateIInv ==
    ASSUME IInv, NEW n \in SlotCounts, NEW dis \in BOOLEAN, Create(n, dis)
    PROVE  IInv'
  <1>1. /\ rb'.slot_count = n /\ rb'.next = 0 /\ rb'.overrun_count = 0
        /\ ~rb'.overrun /\ rb'.write_count = 0 /\ RingbufType(rb')
        /\ n \in Nat /\ n # 0
    BY JobAssumption DEF Create, jobstats_ringbuf_create, RingbufType, Slot
  <1>2. TypeOK'
    <2>1. pc = "none" /\ rb.slot_count = 0 /\ stats = Dummy /\ i = 0
      BY DEF Create, IInv, TypeOK
    <2>2. rb'.next <= rb'.slot_count /\ (pc' = "none" <=> rb'.slot_count = 0)
      BY <1>1 DEF Create
    <2>3. i' \in 0..rb'.slot_count /\ stats' \in {Dummy} \cup 0..(rb'.slot_count - 1)
      BY <1>1, <2>1 DEF Create
    <2>4. record_file' \in Seq(Slot) /\ rc' \in 0..2
      BY DEF Create
    <2> QED BY <1>1, <2>2, <2>3, <2>4 DEF Create, TypeOK
  <1>3. CountersAgree' /\ SlotsHoldTheirJobs'
    <2>1. 0 * n = 0
      BY <1>1
    <2>2. CountersAgree'
      BY <1>1, <2>1 DEF CountersAgree
    <2>3. SlotsHoldTheirJobs'
      BY <1>1 DEF SlotsHoldTheirJobs, Holds
    <2> QED BY <2>2, <2>3
  <1>4. StatsIsNewest' /\ SaveProgress'
    BY DEF Create, StatsIsNewest, SaveProgress
  <1> QED BY <1>2, <1>3, <1>4 DEF IInv

LEMMA DestroyIInv ==
    ASSUME IInv, Destroy
    PROVE  IInv'
  <1>1. /\ rb'.slot_count = 0 /\ rb'.next = 0 /\ rb'.overrun_count = 0
        /\ ~rb'.overrun_disabled /\ ~rb'.overrun
        /\ rb'.write_count = 0 /\ RingbufType(rb')
    BY DEF Destroy, NoRingbuf, jobstats_ringbuf_create, RingbufType, Slot
  <1>2. TypeOK'
    <2>1. rb'.next <= rb'.slot_count /\ (pc' = "none" <=> rb'.slot_count = 0)
      BY <1>1 DEF Destroy
    <2>2. i' \in 0..rb'.slot_count
      BY <1>1 DEF Destroy
    <2>3. record_file' \in Seq(Slot)
      BY DEF Destroy
    <2>4. stats' \in {Dummy} \cup 0..(rb'.slot_count - 1) /\ rc' \in 0..2
      BY DEF Destroy
    <2> QED BY <1>1, <2>1, <2>2, <2>3, <2>4 DEF Destroy, TypeOK
  <1>3. CountersAgree' /\ SlotsHoldTheirJobs'
    <2>1. CountersAgree'
      BY <1>1 DEF CountersAgree
    <2>2. SlotsHoldTheirJobs'
      BY <1>1 DEF SlotsHoldTheirJobs
    <2> QED BY <2>1, <2>2
  <1>4. StatsIsNewest' /\ SaveProgress'
    BY <1>1 DEF Destroy, StatsIsNewest, SaveProgress
  <1> QED BY <1>2, <1>3, <1>4 DEF IInv

LEMMA CancelledIInv ==
    ASSUME IInv, Cancelled
    PROVE  IInv'
  BY DEF Cancelled, IInv, TypeOK, CountersAgree, SlotsHoldTheirJobs, StatsIsNewest,
         SaveProgress, Unfinished, JobAt, Holds, Kept, SlotFrom, OldestSlot

LEMMA JobStartFields ==
    ASSUME IInv, NEW ok \in BOOLEAN, JobStart(ok)
    PROVE  /\ RingbufType(rb) /\ rb.next <= rb.slot_count /\ rb.slot_count # 0
           /\ rb.slot_count \in Nat /\ rb.next \in Nat /\ rb.write_count \in Nat
           /\ rb.overrun_count \in Nat /\ rb.overrun \in BOOLEAN
           /\ rb.overrun_disabled \in BOOLEAN
           /\ RingbufType(rb')
           /\ rb'.slot_count = rb.slot_count
           /\ (rb'.overrun_disabled <=> rb.overrun_disabled)
           /\ rb'.write_count = rb.write_count + 1
           /\ (rb'.overrun <=> (rb.overrun \/ rb.next = rb.slot_count))
           /\ rb'.overrun_count = IF rb.next = rb.slot_count /\ ~rb.overrun_disabled
                                  THEN rb.overrun_count + 1 ELSE rb.overrun_count
           /\ rb'.next = IF rb.next # rb.slot_count THEN rb.next + 1
                         ELSE IF rb.overrun_disabled THEN rb.next ELSE 1
           /\ \A s \in 0..(rb.slot_count - 1) :
                 s # SlotOf(rb) => rb'.ringbuf[s] = rb.ringbuf[s]
           /\ ok /\ SlotOf(rb) # Dummy =>
                 rb'.ringbuf[SlotOf(rb)].t_begin = rb.write_count + 1
           /\ ~ok => rb'.ringbuf = rb.ringbuf
           /\ SlotOf(rb) = IF rb.next # rb.slot_count THEN rb.next
                           ELSE IF rb.overrun_disabled THEN Dummy ELSE 0
  <1>1. /\ RingbufType(rb) /\ rb.next <= rb.slot_count /\ rb.slot_count # 0
        /\ rb.slot_count \in Nat /\ rb.next \in Nat /\ rb.write_count \in Nat
        /\ rb.overrun_count \in Nat /\ rb.overrun \in BOOLEAN
        /\ rb.overrun_disabled \in BOOLEAN
    BY DEF IInv, TypeOK, JobStart, RingbufType
  <1>2. SlotOf(rb) = IF rb.next # rb.slot_count THEN rb.next
                     ELSE IF rb.overrun_disabled THEN Dummy ELSE 0
    BY DEF SlotOf, Full
  <1>3. rb' = StampBegin(TakeSlot(rb), SlotOf(rb), ok)
    BY DEF JobStart
  <1>4. ok \in BOOLEAN
    OBVIOUS
  <1>5. /\ RingbufType(rb')
        /\ rb'.slot_count = rb.slot_count
        /\ rb'.overrun_disabled = rb.overrun_disabled
        /\ rb'.write_count = rb.write_count + 1
        /\ rb'.overrun = (rb.overrun \/ rb.next = rb.slot_count)
        /\ rb'.overrun_count = IF rb.next = rb.slot_count /\ ~rb.overrun_disabled
                               THEN rb.overrun_count + 1 ELSE rb.overrun_count
        /\ rb'.next = IF rb.next # rb.slot_count THEN rb.next + 1
                      ELSE IF rb.overrun_disabled THEN rb.next ELSE 1
        /\ \A s \in 0..(rb.slot_count - 1) :
              s # SlotOf(rb) => rb'.ringbuf[s] = rb.ringbuf[s]
        /\ ok /\ SlotOf(rb) # Dummy =>
              rb'.ringbuf[SlotOf(rb)].t_begin = rb.write_count + 1
        /\ ~ok => rb'.ringbuf = rb.ringbuf
    BY <1>1, <1>3, TakeSlotFields
  <1>6. /\ (rb'.overrun_disabled <=> rb.overrun_disabled)
        /\ (rb'.overrun <=> (rb.overrun \/ rb.next = rb.slot_count))
    BY <1>5
  <1> QED BY <1>1, <1>2, <1>5, <1>6

LEMMA JobStartIInv ==
    ASSUME IInv, NEW ok \in BOOLEAN, JobStart(ok)
    PROVE  IInv'
  <1> DEFINE st == SlotOf(rb)
  <1>1. /\ RingbufType(rb) /\ rb.next <= rb.slot_count /\ rb.slot_count # 0
        /\ rb.slot_count \in Nat /\ rb.next \in Nat /\ rb.write_count \in Nat
        /\ rb.overrun_count \in Nat /\ rb.overrun \in BOOLEAN
        /\ rb.overrun_disabled \in BOOLEAN
    BY JobStartFields
  <1>2. /\ RingbufType(rb')
        /\ rb'.slot_count = rb.slot_count
        /\ (rb'.overrun_disabled <=> rb.overrun_disabled)
        /\ rb'.write_count = rb.write_count + 1
        /\ (rb'.overrun <=> (rb.overrun \/ rb.next = rb.slot_count))
        /\ rb'.overrun_count = IF rb.next = rb.slot_count /\ ~rb.overrun_disabled
                               THEN rb.overrun_count + 1 ELSE rb.overrun_count
        /\ rb'.next = IF rb.next # rb.slot_count THEN rb.next + 1
                      ELSE IF rb.overrun_disabled THEN rb.next ELSE 1
        /\ \A s \in 0..(rb.slot_count - 1) : s # st => rb'.ringbuf[s] = rb.ringbuf[s]
        /\ ok /\ st # Dummy => rb'.ringbuf[st].t_begin = rb.write_count + 1
    BY JobStartFields
  <1>3. st = IF rb.next # rb.slot_count THEN rb.next
             ELSE IF rb.overrun_disabled THEN Dummy ELSE 0
    BY JobStartFields
  <1>4. TypeOK'
    BY <1>1, <1>2, <1>3 DEF IInv, TypeOK, JobStart, Dummy, Slot
  <1>5. CountersAgree'
    <2>1. (rb.overrun_count + 1) * rb.slot_count
            = rb.overrun_count * rb.slot_count + rb.slot_count
      BY <1>1, OneMoreLap
    <2>2. ~rb'.overrun_disabled =>
             rb'.write_count = rb'.overrun_count * rb'.slot_count + rb'.next
      <3> SUFFICES ASSUME ~rb.overrun_disabled
                   PROVE  rb'.write_count = rb'.overrun_count * rb'.slot_count + rb'.next
        BY <1>2
      <3> DEFINE laps == rb.overrun_count * rb.slot_count
      <3>1. laps \in Nat /\ rb.write_count = laps + rb.next
        BY <1>1, OneMoreLap DEF IInv, CountersAgree
      <3>2. CASE rb.next = rb.slot_count
        <4>1. rb'.overrun_count * rb'.slot_count = laps + rb.slot_count
          BY <1>2, <2>1, <3>2
        <4> HIDE DEF laps
        <4> QED BY <1>1, <1>2, <3>1, <3>2, <4>1
      <3>3. CASE rb.next # rb.slot_count
        <4>1. rb'.overrun_count * rb'.slot_count = laps
          BY <1>2, <3>3
        <4> HIDE DEF laps
        <4> QED BY <1>1, <1>2, <3>1, <3>3, <4>1
      <3> QED BY <3>2, <3>3
    <2>3. ~rb'.overrun_disabled => (rb'.overrun <=> rb'.overrun_count # 0)
      BY <1>1, <1>2 DEF IInv, CountersAgree
    <2>4. /\ ~rb'.overrun => rb'.write_count = rb'.next
          /\ rb'.overrun  => rb'.write_count > rb'.slot_count
          /\ rb'.overrun /\ rb'.overrun_disabled => rb'.next = rb'.slot_count
          /\ rb'.overrun /\ ~rb'.overrun_disabled => rb'.next >= 1
          /\ rb'.overrun_disabled => rb'.overrun_count = 0
      BY <1>1, <1>2 DEF IInv, CountersAgree
    <2> QED BY <2>2, <2>3, <2>4 DEF CountersAgree
  <1>l. LinearCounters
    BY DEF IInv, CountersAgree, LinearCounters
  <1>6. SlotsHoldTheirJobs'
    <2> SUFFICES ASSUME NEW s \in 0..(rb.slot_count - 1), Holds(s)', ~Unfinished(s)'
                 PROVE  rb'.ringbuf[s] = [t_begin |-> JobAt(s)', t_end |-> JobAt(s)']
      BY <1>2 DEF SlotsHoldTheirJobs
    <2>1. JobAt(s)' # rb'.write_count
      BY DEF Unfinished, JobStart
    <2>2. s # st /\ Holds(s) /\ JobAt(s)' = JobAt(s)
      BY <1>1, <1>2, <1>3, <1>l, <2>1 DEF LinearCounters, Holds, JobAt, Dummy
    <2> QED BY <1>2, <2>2 DEF IInv, SlotsHoldTheirJobs, Unfinished, JobStart
  <1>7. StatsIsNewest'
    BY <1>1, <1>2, <1>3, <1>l
       DEF LinearCounters, StatsIsNewest, JobStart, Holds, JobAt, Dummy
  <1>8. SaveProgress'
    BY DEF IInv, SaveProgress, JobStart
  <1> QED BY <1>4, <1>5, <1>6, <1>7, <1>8 DEF IInv

LEMMA JobFinishIInv ==
    ASSUME IInv, NEW ok \in BOOLEAN, JobFinish(ok)
    PROVE  IInv'
  <1>1. /\ RingbufType(rb) /\ rb.next <= rb.slot_count /\ rb.slot_count # 0
        /\ rb.slot_count \in Nat /\ rb.next \in Nat /\ rb.write_count \in Nat
        /\ stats \in {Dummy} \cup 0..(rb.slot_count - 1)
    BY DEF IInv, TypeOK, JobFinish, RingbufType
  <1>2. /\ RingbufType(rb')
        /\ rb'.slot_count = rb.slot_count
        /\ (rb'.overrun_disabled <=> rb.overrun_disabled)
        /\ rb'.write_count = rb.write_count
        /\ (rb'.overrun <=> rb.overrun)
        /\ rb'.overrun_count = rb.overrun_count
        /\ rb'.next = rb.next
        /\ \A s \in 0..(rb.slot_count - 1) : s # stats => rb'.ringbuf[s] = rb.ringbuf[s]
        /\ ok /\ stats # Dummy =>
              rb'.ringbuf[stats] = [t_begin |-> rb.ringbuf[stats].t_begin,
                                    t_end   |-> rb.write_count]
    BY <1>1, StampEndFields DEF JobFinish
  <1>4. TypeOK'
    <2>1. rc' \in 0..2
      BY DEF IInv, TypeOK, JobFinish, StatsIsNewest
    <2> QED BY <1>1, <1>2, <2>1 DEF IInv, TypeOK, JobFinish
  <1>5. CountersAgree'
    BY <1>1, <1>2 DEF IInv, CountersAgree
  <1>l. LinearCounters
    BY DEF IInv, CountersAgree, LinearCounters
  <1>6. SlotsHoldTheirJobs'
    <2> SUFFICES ASSUME NEW s \in 0..(rb.slot_count - 1), Holds(s)', ~Unfinished(s)'
                 PROVE  rb'.ringbuf[s] = [t_begin |-> JobAt(s)', t_end |-> JobAt(s)']
      BY <1>2 DEF SlotsHoldTheirJobs
    <2>1. JobAt(s)' = JobAt(s) /\ Holds(s)
      BY <1>2 DEF JobAt, Holds
    <2>2. CASE s = stats
      <3>1. JobAt(s) = rb.write_count /\ stats # Dummy
        BY <2>2 DEF IInv, StatsIsNewest, JobFinish, Dummy
      <3>2. rc' = 0
        BY <1>2, <2>1, <3>1 DEF Unfinished
      <3>3. ok /\ rc = 0
        BY <3>2 DEF JobFinish, IInv, TypeOK
      <3> QED BY <1>2, <2>1, <2>2, <3>1, <3>3 DEF IInv, StatsIsNewest, JobFinish
    <2>3. CASE s # stats
      <3>1. JobAt(s) # rb.write_count
        BY <1>1, <1>l, <2>1, <2>3 DEF IInv, StatsIsNewest, JobFinish, LinearCounters, JobAt, Holds
      <3> QED BY <1>2, <2>1, <2>3, <3>1 DEF IInv, SlotsHoldTheirJobs, Unfinished
    <2> QED BY <2>2, <2>3
  <1>7. StatsIsNewest' /\ SaveProgress'
    BY DEF IInv, StatsIsNewest, SaveProgress, JobFinish
  <1> QED BY <1>4, <1>5, <1>6, <1>7 DEF IInv

LEMMA SaveBeginIInv ==
    ASSUME IInv, SaveBegin
    PROVE  IInv'
  <1>1. /\ RingbufType(rb) /\ rb.next <= rb.slot_count /\ rb.slot_count # 0
        /\ rb.slot_count \in Nat /\ rb.next \in Nat /\ rb.write_count \in Nat
    BY DEF IInv, TypeOK, SaveBegin, RingbufType
  <1>2. LinearCounters
    BY DEF IInv, CountersAgree, LinearCounters
  <1>3. SaveFirst(rb) \in 0..rb.slot_count
    BY <1>1 DEF SaveFirst
  <1>4. TypeOK'
    BY <1>1, <1>3 DEF IInv, TypeOK, SaveBegin
  <1>5. CountersAgree' /\ SlotsHoldTheirJobs' /\ StatsIsNewest'
    BY DEF IInv, CountersAgree, SlotsHoldTheirJobs, StatsIsNewest, SaveBegin,
           Holds, JobAt, Unfinished
  <1>6. SaveProgress'
    <2>1. CASE rb.write_count = 0
      BY <1>1, <1>2, <2>1 DEF SaveBegin, SaveProgress, LinearCounters, Kept
    <2>2. CASE rb.write_count # 0
      <3>1. pc' = "saving" /\ i' = SaveFirst(rb) /\ record_file' = <<>>
            /\ save_rc' = "none" /\ rb' = rb
        BY <2>2 DEF SaveBegin
      <3>2. Kept \in Nat /\ Kept > 0
        BY <1>1, <1>2, <2>2 DEF Kept, LinearCounters
      <3>3. SaveSlot(rb, SaveFirst(rb)) = SlotFrom(1)
        BY <1>1, <1>2, <1>3, ModUpTo, SMTT(30)
           DEF SaveSlot, SaveFirst, SlotFrom, OldestSlot, LinearCounters
      <3> QED BY <2>2, <3>1, <3>2, <3>3
              DEF SaveProgress, Kept, SaveSlot, SlotFrom, OldestSlot
    <2> QED BY <2>1, <2>2
  <1> QED BY <1>4, <1>5, <1>6 DEF IInv

LEMMA SaveStepIInv ==
    ASSUME IInv, SaveStep
    PROVE  IInv'
  <1> DEFINE m == Len(record_file)
  <1>1. /\ RingbufType(rb) /\ rb.next <= rb.slot_count /\ rb.slot_count # 0
        /\ rb.slot_count \in Nat /\ rb.next \in Nat /\ rb.write_count \in Nat
        /\ record_file \in Seq(Slot) /\ m \in Nat /\ i \in 0..rb.slot_count
    BY DEF IInv, TypeOK, SaveStep, RingbufType
  <1>2. LinearCounters
    BY DEF IInv, CountersAgree, LinearCounters
  <1>3. rb' = rb /\ Kept' = Kept /\ OldestSlot' = OldestSlot
        /\ \A j : SlotFrom(j)' = SlotFrom(j)
    BY DEF SaveStep, Kept, OldestSlot, SlotFrom
  <1>4. /\ rb.write_count # 0 /\ m < Kept /\ save_rc = "none"
        /\ SaveSlot(rb, i) = SlotFrom(m + 1)
        /\ \A j \in 1..m : record_file[j] = rb.ringbuf[SlotFrom(j)]
    BY DEF IInv, SaveProgress, SaveStep
  <1>5. /\ SaveSlot(rb, i) = IF i = rb.slot_count THEN 0 ELSE i
        /\ SaveSlot(rb, i) \in 0..(rb.slot_count - 1)
    <2>1. i % rb.slot_count = IF i = rb.slot_count THEN 0 ELSE i
      BY <1>1, ModUpTo
    <2> QED BY <1>1, <2>1 DEF SaveSlot
  <1>6. rb.ringbuf[SaveSlot(rb, i)] \in Slot
    BY <1>1, <1>5 DEF RingbufType
  <1>7. /\ record_file' \in Seq(Slot) /\ Len(record_file') = m + 1
        /\ \A j \in 1..(m + 1) : record_file'[j] = rb.ringbuf[SlotFrom(j)]
    BY <1>1, <1>4, <1>6 DEF SaveStep
  <1>8. i' = SaveSlot(rb, i) + 1 /\ i' \in 0..rb.slot_count
    BY <1>1, <1>5 DEF SaveStep
  <1>9. i' = SaveEnd(rb) <=> m + 1 = Kept
    <2> HIDE DEF m
    <2>1. i' = SlotFrom(m + 1) + 1
      BY <1>4, <1>8
    <2>2. Kept \in Nat /\ m < Kept
      BY <1>1, <1>4 DEF Kept
    <2>3. CASE rb.overrun /\ ~rb.overrun_disabled
      BY <1>1, <1>2, <2>1, <2>2, <2>3, SMTT(30)
         DEF SaveEnd, SlotFrom, OldestSlot, Kept, LinearCounters
    <2>4. CASE ~(rb.overrun /\ ~rb.overrun_disabled)
      BY <1>1, <1>2, <2>1, <2>2, <2>4
         DEF SaveEnd, SlotFrom, OldestSlot, Kept, LinearCounters
    <2> QED BY <2>3, <2>4
  <1>10. m + 1 < Kept => SaveSlot(rb, i') = SlotFrom(m + 2)
    <2> HIDE DEF m
    <2>1. i' = SlotFrom(m + 1) + 1
      BY <1>4, <1>8
    <2>2. SaveSlot(rb, i') = IF i' = rb.slot_count THEN 0 ELSE i'
      BY <1>1, <1>8, ModUpTo DEF SaveSlot
    <2>3. Kept <= rb.slot_count /\ OldestSlot \in 0..(rb.slot_count - 1) /\ Kept \in Nat
      BY <1>1, <1>2 DEF Kept, OldestSlot, LinearCounters
    <2> DEFINE o == OldestSlot
               n == rb.slot_count
    <2>4. /\ SlotFrom(m + 1) = IF o + m < n THEN o + m ELSE o + m - n
          /\ SlotFrom(m + 2) = IF o + m + 1 < n THEN o + m + 1 ELSE o + m + 1 - n
      BY <1>1, <2>3, SMTT(30) DEF SlotFrom
    <2>5. n \in Nat /\ m \in Nat
      BY <1>1
    <2> QED BY <2>1, <2>2, <2>3, <2>4, <2>5
  <1>11. TypeOK'
    BY <1>1, <1>7, <1>8 DEF IInv, TypeOK, SaveStep
  <1>12. CountersAgree' /\ SlotsHoldTheirJobs' /\ StatsIsNewest'
    BY DEF IInv, CountersAgree, SlotsHoldTheirJobs, StatsIsNewest, SaveStep,
           Holds, JobAt, Unfinished
  <1>13. SaveProgress'
    <2>1. CASE m + 1 = Kept
      <3>1. pc' = "idle" /\ save_rc' = "ok"
        BY <1>9, <2>1 DEF SaveStep
      <3> QED BY <1>3, <1>7, <2>1, <3>1 DEF SaveProgress
    <2>2. CASE m + 1 # Kept
      <3>1. pc' = "saving" /\ save_rc' = "none"
        BY <1>4, <1>9, <2>2 DEF SaveStep
      <3>2. m + 1 < Kept
        BY <1>1, <1>4, <2>2 DEF Kept
      <3>3. SaveSlot(rb, i)' = SlotFrom(m + 2)
        BY <1>3, <1>10, <3>2 DEF SaveSlot
      <3> QED BY <1>1, <1>3, <1>4, <1>7, <3>1, <3>2, <3>3 DEF SaveProgress
    <2> QED BY <2>1, <2>2
  <1> QED BY <1>11, <1>12, <1>13 DEF IInv

LEMMA SaveFailIInv ==
    ASSUME IInv, SaveFail
    PROVE  IInv'
  BY DEF SaveFail, IInv, TypeOK, CountersAgree, SlotsHoldTheirJobs, StatsIsNewest,
         SaveProgress, Holds, JobAt, Unfinished

(* IInv is inductive.                                                      *)
LEMMA NextIInv == IInv /\ [Next]_vars => IInv'
  <1> SUFFICES ASSUME IInv, [Next]_vars PROVE IInv'
    OBVIOUS
  <1>1. ASSUME NEW n \in SlotCounts, NEW dis \in BOOLEAN, Create(n, dis)
        PROVE  IInv'
    BY <1>1, CreateIInv
  <1>2. ASSUME NEW ok \in BOOLEAN, JobStart(ok)
        PROVE  IInv'
    BY <1>2, JobStartIInv
  <1>3. ASSUME NEW ok \in BOOLEAN, JobFinish(ok)
        PROVE  IInv'
    BY <1>3, JobFinishIInv
  <1>4. CASE Cancelled
    BY <1>4, CancelledIInv
  <1>5. CASE SaveBegin
    BY <1>5, SaveBeginIInv
  <1>6. CASE SaveStep
    BY <1>6, SaveStepIInv
  <1>7. CASE SaveFail
    BY <1>7, SaveFailIInv
  <1>8. CASE Destroy
    BY <1>8, DestroyIInv
  <1>9. CASE UNCHANGED vars
    BY <1>9 DEF vars, IInv, TypeOK, CountersAgree, SlotsHoldTheirJobs, StatsIsNewest,
                SaveProgress, Holds, JobAt, Unfinished, Kept, SlotFrom, OldestSlot
  <1> QED BY <1>1, <1>2, <1>3, <1>4, <1>5, <1>6, <1>7, <1>8, <1>9 DEF Next

LEMMA SpecIInv == Spec => []IInv
  BY InitIInv, NextIInv, PTL DEF Spec

-----------------------------------------------------------------------------
(* next never runs past the end of the array, and "stats" always points    *)
(* into it or to the dummy, whatever the size and the number of jobs.      *)
THEOREM TypeCorrect == Spec => []TypeOK
  <1>1. IInv => TypeOK
    BY DEF IInv
  <1> QED BY <1>1, SpecIInv, PTL

(* The flags and counters of the ring always tell one story.               *)
THEOREM CountersAlwaysAgree == Spec => []CountersAgree
  <1>1. IInv => CountersAgree
    BY DEF IInv
  <1> QED BY <1>1, SpecIInv, PTL

(* No record in the ring mixes the readings of two jobs or sits in the     *)
(* wrong slot, however often the ring has wrapped.                         *)
THEOREM SlotsAlwaysHoldTheirJobs == Spec => []SlotsHoldTheirJobs
  <1>1. IInv => SlotsHoldTheirJobs
    BY DEF IInv
  <1> QED BY <1>1, SpecIInv, PTL

(* jobstats_ringbuf_save writes the oldest job's record first, skips none, *)
(* repeats none, and with the lost count accounts for every job.           *)
THEOREM SaveAlwaysFaithful == Spec => []SaveIsFaithful
  <1>1. IInv => SaveIsFaithful
    <2> SUFFICES ASSUME IInv, save_rc = "ok", rb.write_count # 0
                 PROVE  /\ Len(record_file) + jobstats_ringbuf_lost_count(rb) = rb.write_count
                        /\ \A j \in 1..Len(record_file) :
                              LET k == jobstats_ringbuf_oldest_pos(rb) + j - 1
                              IN (k = rb.write_count /\ (killed \/ rc # 0))
                                 \/ record_file[j] = [t_begin |-> k, t_end |-> k]
      BY DEF SaveIsFaithful
    <2>1. /\ rb.next <= rb.slot_count /\ rb.slot_count \in Nat /\ rb.next \in Nat
          /\ rb.write_count \in Nat /\ rb.overrun_count \in Nat
      BY DEF IInv, TypeOK, RingbufType
    <2>2. LinearCounters /\ (jobstats_ringbuf_overrun(rb) <=> rb.overrun)
      BY DEF IInv, CountersAgree, LinearCounters, jobstats_ringbuf_overrun
    <2>3. pc # "running" /\ Len(record_file) = Kept
          /\ \A j \in 1..Kept : record_file[j] = rb.ringbuf[SlotFrom(j)]
      BY DEF IInv, SaveProgress
    <2>4. Kept + jobstats_ringbuf_lost_count(rb) = rb.write_count
      BY <2>1, <2>2 DEF Kept, LinearCounters, jobstats_ringbuf_lost_count,
                        jobstats_ringbuf_oldest_pos
    <2>5. ASSUME NEW j \in 1..Kept
          PROVE  LET k == jobstats_ringbuf_oldest_pos(rb) + j - 1
                 IN (k = rb.write_count /\ (killed \/ rc # 0))
                    \/ record_file[j] = [t_begin |-> k, t_end |-> k]
      <3>1. SlotFrom(j) \in 0..(rb.slot_count - 1) /\ Holds(SlotFrom(j))
        BY <2>1, <2>2 DEF SlotFrom, OldestSlot, Kept, Holds, LinearCounters
      <3>2. JobAt(SlotFrom(j)) = jobstats_ringbuf_oldest_pos(rb) + j - 1
        BY <2>1, <2>2 DEF JobAt, SlotFrom, OldestSlot, Kept, LinearCounters,
                          jobstats_ringbuf_oldest_pos
      <3>3. Unfinished(SlotFrom(j)) \/
            rb.ringbuf[SlotFrom(j)] = [t_begin |-> JobAt(SlotFrom(j)),
                                       t_end   |-> JobAt(SlotFrom(j))]
        BY <3>1 DEF IInv, SlotsHoldTheirJobs
      <3> QED BY <2>3, <3>2, <3>3 DEF Unfinished
    <2> QED BY <2>3, <2>4, <2>5
  <1> QED BY <1>1, SpecIInv, PTL

-----------------------------------------------------------------------------
(* Job implements JobLog.  An entry of the log is the first reading of its *)
(* slot, and 0 where the clock could not be read: what the slot has of an  *)
(* earlier lap must not be taken for a reading of the newest job.          *)
NoReadingAhead ==
    \A s \in 0..(rb.slot_count - 1) : rb.ringbuf[s].t_begin <= rb.write_count

LEMMA InitNoReadingAhead == Init => NoReadingAhead
  BY DEF Init, NoReadingAhead, NoRingbuf, jobstats_ringbuf_create

LEMMA NextNoReadingAhead ==
    ASSUME IInv, NoReadingAhead, [Next]_vars
    PROVE  NoReadingAhead'
  <1>1. ASSUME NEW n \in SlotCounts, NEW dis \in BOOLEAN, Create(n, dis)
        PROVE  NoReadingAhead'
    BY <1>1 DEF Create, NoReadingAhead, jobstats_ringbuf_create
  <1>2. ASSUME NEW ok \in BOOLEAN, JobStart(ok)
        PROVE  NoReadingAhead'
    <2> SUFFICES ASSUME NEW s \in 0..(rb.slot_count - 1)
                 PROVE  rb'.ringbuf[s].t_begin <= rb'.write_count
      BY <1>2, JobStartFields DEF NoReadingAhead
    <2>1. /\ rb'.write_count = rb.write_count + 1 /\ rb.write_count \in Nat
          /\ rb.ringbuf[s].t_begin <= rb.write_count /\ rb.ringbuf[s].t_begin \in Nat
      BY <1>2, JobStartFields DEF NoReadingAhead, RingbufType, Slot
    <2>2. \/ rb'.ringbuf[s].t_begin = rb.ringbuf[s].t_begin
          \/ rb'.ringbuf[s].t_begin = rb.write_count + 1
      <3>1. CASE s = SlotOf(rb)
        BY <1>2, <3>1, JobStartFields DEF Dummy
      <3>2. CASE s # SlotOf(rb)
        BY <1>2, <3>2, JobStartFields
      <3> QED BY <3>1, <3>2
    <2> QED BY <2>1, <2>2
  <1>3. ASSUME NEW ok \in BOOLEAN, JobFinish(ok)
        PROVE  NoReadingAhead'
    <2>1. RingbufType(rb) /\ stats \in {Dummy} \cup 0..(rb.slot_count - 1)
      BY DEF IInv, TypeOK
    <2>2. /\ rb'.slot_count = rb.slot_count /\ rb'.write_count = rb.write_count
          /\ \A s \in 0..(rb.slot_count - 1) :
                rb'.ringbuf[s].t_begin = rb.ringbuf[s].t_begin
      BY <1>3, <2>1, StampKeepsBegin DEF JobFinish
    <2> QED BY <2>2 DEF NoReadingAhead
  <1>4. CASE Destroy
    BY <1>4 DEF Destroy, NoReadingAhead, NoRingbuf, jobstats_ringbuf_create
  <1>5. CASE Cancelled \/ SaveBegin \/ SaveStep \/ SaveFail \/ UNCHANGED vars
    BY <1>5 DEF Cancelled, SaveBegin, SaveStep, SaveFail, vars, NoReadingAhead
  <1> QED BY <1>1, <1>2, <1>3, <1>4, <1>5 DEF Next

LEMMA SpecNoReadingAhead == Spec => []NoReadingAhead
  <1>1. IInv /\ NoReadingAhead /\ [Next]_vars => NoReadingAhead'
    BY NextNoReadingAhead
  <1> QED BY <1>1, InitNoReadingAhead, SpecIInv, PTL DEF Spec

(* The slots of a ring from the oldest one on are its slots in use.        *)
LEMMA NthSlotIsUsed ==
    ASSUME NEW r, RingbufType(r), r.next <= r.slot_count, r.slot_count # 0,
           ~r.overrun => r.write_count = r.next,
           r.overrun /\ r.overrun_disabled => r.next = r.slot_count,
           NEW j \in 1..KeptBy(r)
    PROVE  /\ KeptBy(r) \in 0..r.slot_count
           /\ NthSlot(r, j) \in 0..(r.slot_count - 1)
           /\ InUse(r, NthSlot(r, j))
  <1>1. /\ r.slot_count \in Nat /\ r.next \in Nat
        /\ r.overrun \in BOOLEAN /\ r.overrun_disabled \in BOOLEAN
    BY DEF RingbufType
  <1> QED BY <1>1 DEF KeptBy, NthSlot, OldestOf, InUse

(* Two ways to write a ring, of Job and of RingbufProof.                   *)
LEMMA SameSlots ==
    /\ Kept = KeptBy(rb)
    /\ \A j : SlotFrom(j) = NthSlot(rb, j)
    /\ \A s : Holds(s) <=> InUse(rb, s)
  BY DEF Kept, KeptBy, SlotFrom, NthSlot, OldestSlot, OldestOf, Holds, InUse

(* The entries are a sequence of numbers, one for each slot in use.        *)
EntriesOfSlots ==
    /\ KeptEntries \in Seq(Nat) /\ Len(KeptEntries) = Kept /\ Kept \in 0..rb.slot_count
    /\ \A j \in 1..Kept : \E s \in 0..(rb.slot_count - 1) :
          s = SlotFrom(j) /\ Holds(s) /\ KeptEntries[j] = EntryAt(s)

LEMMA EntriesAreOfSlots == IInv => EntriesOfSlots
  <1> SUFFICES ASSUME IInv PROVE EntriesOfSlots
    OBVIOUS
  <1>1. /\ RingbufType(rb) /\ rb.slot_count \in Nat /\ rb.next \in 0..rb.slot_count
        /\ Kept \in 0..rb.slot_count
    BY DEF IInv, TypeOK, RingbufType, Kept
  <1>2. ASSUME NEW j \in 1..Kept
        PROVE  SlotFrom(j) \in 0..(rb.slot_count - 1) /\ Holds(SlotFrom(j))
    <2>1. rb.slot_count # 0
      BY <1>1, <1>2
    <2>2. /\ ~rb.overrun => rb.write_count = rb.next
          /\ rb.overrun /\ rb.overrun_disabled => rb.next = rb.slot_count
          /\ rb.next <= rb.slot_count /\ j \in 1..KeptBy(rb)
      BY <1>1, SameSlots DEF IInv, CountersAgree
    <2> QED BY <1>1, <2>1, <2>2, NthSlotIsUsed, SameSlots
  <1>3. \A j \in 1..Kept : EntryAt(SlotFrom(j)) \in Nat
    BY <1>1, <1>2 DEF EntryAt, RingbufType, Slot
  <1> QED BY <1>1, <1>2, <1>3 DEF KeptEntries, EntriesOfSlots

(* What job_start enters before the program of the job runs.               *)
LEMMA JobStartEntries ==
    ASSUME IInv, IInv', NoReadingAhead, NEW ok \in BOOLEAN, JobStart(ok),
           NEW st, st = SlotOf(rb)
    PROVE  LET entry == IF ok THEN rb.write_count + 1 ELSE 0
           IN /\ Len(KeptEntries) < rb.slot_count => KeptEntries' = Append(KeptEntries, entry)
              /\ Len(KeptEntries) = rb.slot_count /\ rb.overrun_disabled =>
                    KeptEntries' = KeptEntries
              /\ Len(KeptEntries) = rb.slot_count /\ ~rb.overrun_disabled =>
                    KeptEntries' = Append(Tail(KeptEntries), entry)
  <1> DEFINE n     == rb.slot_count
             w     == rb.write_count
             entry == IF ok THEN rb.write_count + 1 ELSE 0
             K     == KeptEntries
             L     == KeptEntries'
  <1>1. /\ rb.next <= n /\ n # 0 /\ n \in Nat /\ rb.next \in Nat /\ w \in Nat
        /\ rb.overrun \in BOOLEAN /\ rb.overrun_disabled \in BOOLEAN /\ RingbufType(rb)
        /\ rb'.slot_count = n
        /\ (rb'.overrun_disabled <=> rb.overrun_disabled)
        /\ rb'.write_count = w + 1
        /\ (rb'.overrun <=> (rb.overrun \/ rb.next = n))
        /\ rb'.next = IF rb.next # n THEN rb.next + 1
                      ELSE IF rb.overrun_disabled THEN rb.next ELSE 1
        /\ st = IF rb.next # n THEN rb.next
                ELSE IF rb.overrun_disabled THEN Dummy ELSE 0
        /\ LinearCounters
    BY JobStartFields DEF IInv, CountersAgree, LinearCounters
  <1>2. EntriesOfSlots /\ EntriesOfSlots'
    <2>1. IInv' => EntriesOfSlots'
      BY EntriesAreOfSlots, PTL
    <2> QED BY <2>1, EntriesAreOfSlots
  <1>3. ASSUME NEW s \in 0..(n - 1), Holds(s)
        PROVE  EntryAt(s) = rb.ringbuf[s].t_begin
    BY DEF EntryAt, Unfinished, JobStart
  <1>4. ASSUME NEW s \in 0..(n - 1), Holds(s)', s # st
        PROVE  Holds(s) /\ EntryAt(s)' = EntryAt(s)
    <2>1. Holds(s)
      BY <1>1, <1>4 DEF Holds
    <2>2. JobAt(s)' # w + 1
      <3>1. CASE rb.overrun_disabled
        <4>1. JobAt(s)' = s + 1 /\ s < w
          BY <1>1, <1>4, <2>1, <3>1 DEF LinearCounters, Holds, JobAt
        <4> QED BY <1>1, <4>1
      <3>2. CASE ~rb.overrun_disabled
        <4>1. s # rb'.next - 1 /\ rb'.next \in 0..n
          BY <1>1, <1>4, <3>2
        <4>2. JobAt(s)' = IF s < rb'.next THEN w + 1 - rb'.next + s + 1
                          ELSE w + 1 - rb'.next - n + s + 1
          BY <1>1, <3>2 DEF JobAt
        <4> HIDE DEF n, w
        <4> QED BY <1>1, <4>1, <4>2
      <3> QED BY <3>1, <3>2
    <2>3. EntryAt(s)' = rb'.ringbuf[s].t_begin
      BY <1>1, <2>2 DEF EntryAt, Unfinished
    <2>4. rb'.ringbuf[s] = rb.ringbuf[s]
      BY <1>4, JobStartFields
    <2> QED BY <1>3, <2>1, <2>3, <2>4
  <1>5. ASSUME st # Dummy
        PROVE  st \in 0..(n - 1) /\ EntryAt(st)' = entry
    <2>1. st \in 0..(n - 1) /\ JobAt(st)' = w + 1
      <3>1. st \in 0..(n - 1)
        BY <1>1, <1>5
      <3>2. CASE rb.overrun_disabled
        <4>1. JobAt(st)' = st + 1 /\ st = w
          BY <1>1, <1>5, <3>2 DEF LinearCounters, JobAt
        <4> QED BY <1>1, <3>1, <4>1
      <3>3. CASE ~rb.overrun_disabled
        <4>1. st < rb'.next /\ rb'.next = st + 1
          BY <1>1, <1>5, <3>3
        <4>2. JobAt(st)' = w + 1 - rb'.next + st + 1
          BY <1>1, <3>3, <4>1 DEF JobAt
        <4> QED BY <1>1, <3>1, <4>1, <4>2
      <3> QED BY <3>1, <3>2, <3>3
    <2>2. Unfinished(st)'
      BY <1>1, <2>1 DEF Unfinished, JobStart
    <2>3. CASE ok
      <3>1. rb'.ringbuf[st].t_begin = rb'.write_count /\ rb'.write_count = entry
        BY <1>5, <2>3, JobStartFields
      <3> HIDE DEF entry
      <3>2. EntryAt(st)' = rb'.ringbuf[st].t_begin
        BY <3>1 DEF EntryAt
      <3> QED BY <2>1, <3>1, <3>2
    <2>4. CASE ~ok
      <3>1. rb'.ringbuf[st].t_begin = rb.ringbuf[st].t_begin
        BY <2>4, JobStartFields
      <3>2. rb'.ringbuf[st].t_begin # rb'.write_count
        BY <1>1, <2>1, <3>1 DEF NoReadingAhead, RingbufType, Slot
      <3>3. EntryAt(st)' = 0
        BY <2>2, <3>2 DEF EntryAt
      <3> QED BY <2>1, <2>4, <3>3
    <2> QED BY <2>3, <2>4
  <1>6. /\ K \in Seq(Nat) /\ L \in Seq(Nat) /\ Len(K) = Kept /\ Len(L) = Kept'
        /\ Kept \in 0..n /\ Kept' \in 0..n /\ entry \in Nat
    BY <1>1, <1>2 DEF EntriesOfSlots
  <1>7. \A j \in 1..Kept : \E s \in 0..(n - 1) :
           s = SlotFrom(j) /\ Holds(s) /\ K[j] = EntryAt(s)
    BY <1>2 DEF EntriesOfSlots
  <1>8. \A j \in 1..Kept' : \E s \in 0..(n - 1) :
           s = SlotFrom(j)' /\ Holds(s)' /\ L[j] = EntryAt(s)'
    BY <1>1, <1>2 DEF EntriesOfSlots
  <1>9. \A j \in 1..n :
           /\ Kept <= n /\ Kept' <= n
           /\ SlotFrom(j)  = IF OldestSlot + j - 1 < n THEN OldestSlot + j - 1
                             ELSE OldestSlot + j - 1 - n
           /\ SlotFrom(j)' = IF OldestSlot' + j - 1 < n THEN OldestSlot' + j - 1
                             ELSE OldestSlot' + j - 1 - n
    BY <1>1, <1>6 DEF SlotFrom
  <1> HIDE DEF n, w, entry, K, L
  (* The new slot is the last one.                                         *)
  <1>10. ASSUME NEW j \in 1..Kept', SlotFrom(j)' # st
         PROVE  L[j] = EntryAt(SlotFrom(j)')
    BY <1>4, <1>8, <1>10
  <1>11. CASE rb.next # n /\ ~rb.overrun
    <2>1. /\ Kept = rb.next /\ Kept' = Kept + 1 /\ st = Kept
          /\ \A j \in 1..Kept' : SlotFrom(j)' = j - 1
          /\ \A j \in 1..Kept : SlotFrom(j) = j - 1
      BY <1>1, <1>11 DEF Kept, SlotFrom, OldestSlot, n
    <2>2. st # Dummy /\ Kept \in Nat
      BY <1>1, <2>1 DEF Dummy
    <2>3. \A j \in 1..Kept : L[j] = K[j]
      BY <1>7, <1>10, <2>1, <2>2
    <2>4. L[Kept + 1] = entry
      <3> SUFFICES ASSUME NEW j, j = Kept + 1 PROVE L[j] = entry
        OBVIOUS
      <3>1. j \in 1..Kept' /\ SlotFrom(j)' = st
        BY <2>1, <2>2
      <3> QED BY <1>5, <1>8, <2>2, <3>1
    <2>5. L = Append(K, entry)
      BY <1>6, <2>1, <2>3, <2>4, AppendIs
    <2> QED BY <1>1, <1>6, <1>11, <2>1, <2>5 DEF n, K, L, entry
  <1>12. CASE (rb.next = n \/ rb.overrun) /\ ~rb.overrun_disabled
    <2>1. Kept = n /\ Kept' = n
      BY <1>1, <1>12 DEF Kept, n
    <2>2. OldestSlot = (IF rb.next # n THEN rb.next ELSE 0)
      BY <1>1, <1>12 DEF OldestSlot, n
    <2>3. OldestSlot' = (IF rb'.next # n THEN rb'.next ELSE 0)
      BY <1>1, <1>12 DEF OldestSlot, n
    <2>4. st = (IF rb.next # n THEN rb.next ELSE 0) /\ st # Dummy
      BY <1>1, <1>12 DEF Dummy
    <2>5. rb'.next = IF rb.next # n THEN rb.next + 1 ELSE 1
      BY <1>1, <1>12
    <2>6. ASSUME NEW j \in 1..(n - 1)
          PROVE  SlotFrom(j)' = SlotFrom(j + 1) /\ SlotFrom(j)' # st
      <3>1. /\ SlotFrom(j)' = IF OldestSlot' + j - 1 < n THEN OldestSlot' + j - 1
                              ELSE OldestSlot' + j - 1 - n
            /\ SlotFrom(j + 1) = IF OldestSlot + (j + 1) - 1 < n THEN OldestSlot + (j + 1) - 1
                                 ELSE OldestSlot + (j + 1) - 1 - n
        BY <1>1, <1>9
      <3> QED BY <1>1, <2>2, <2>3, <2>4, <2>5, <3>1
    <2>7. ASSUME NEW j, j = n
          PROVE  SlotFrom(j)' = st
      <3>1. SlotFrom(j)' = IF OldestSlot' + j - 1 < n THEN OldestSlot' + j - 1
                           ELSE OldestSlot' + j - 1 - n
        BY <1>1, <1>9, <2>7
      <3> QED BY <1>1, <2>3, <2>4, <2>5, <2>7, <3>1
    <2>8. ASSUME NEW j \in 1..(n - 1)
          PROVE  L[j] = K[j + 1]
      <3>1. j \in 1..Kept' /\ j + 1 \in 1..Kept
        BY <1>1, <2>1
      <3> QED BY <1>7, <1>10, <2>6, <3>1
    <2>9. L[n] = entry
      <3> SUFFICES ASSUME NEW j, j = n PROVE L[j] = entry
        OBVIOUS
      <3>1. j \in 1..Kept' /\ SlotFrom(j)' = st
        BY <1>1, <2>1, <2>7
      <3> QED BY <1>5, <1>8, <2>4, <3>1
    <2>10. L = Append(Tail(K), entry)
      <3>1. K # <<>> /\ Len(K) = n /\ Len(L) = n
        BY <1>1, <1>6, <2>1
      <3> QED BY <1>6, <2>8, <2>9, <3>1, ShiftIs
    <2> QED BY <1>1, <1>6, <1>12, <2>1, <2>10 DEF n, K, L, entry
  <1>13. CASE rb.next = n /\ rb.overrun_disabled
    <2>1. Kept = n /\ Kept' = n /\ OldestSlot = 0 /\ OldestSlot' = 0 /\ st = Dummy
      BY <1>1, <1>13 DEF Kept, OldestSlot, n
    <2>2. ASSUME NEW j \in 1..n
          PROVE  L[j] = K[j]
      <3>1. SlotFrom(j)' = SlotFrom(j) /\ SlotFrom(j)' # st
        BY <1>1, <1>9, <2>1 DEF Dummy
      <3> QED BY <1>7, <1>10, <2>1, <3>1
    <2>3. L = K
      BY <1>6, <2>1, <2>2, SeqEqual
    <2> QED BY <1>1, <1>6, <1>13, <2>1, <2>3 DEF n, K, L, entry
  <1>14. \/ rb.next # n /\ ~rb.overrun
         \/ (rb.next = n \/ rb.overrun) /\ ~rb.overrun_disabled
         \/ rb.next = n /\ rb.overrun_disabled
    BY <1>1 DEF LinearCounters, n
  <1> QED BY <1>11, <1>12, <1>13, <1>14

(* Everything but job_start, up to the program, leaves the entries alone.  *)
LEMMA JobFinishEntries ==
    ASSUME IInv, IInv', NEW ok \in BOOLEAN, JobFinish(ok)
    PROVE  KeptEntries' = KeptEntries
  <1>1. /\ RingbufType(rb) /\ stats \in {Dummy} \cup 0..(rb.slot_count - 1)
        /\ rb' = StampEnd(rb, stats, ok)
    BY DEF IInv, TypeOK, JobFinish
  <1>2. /\ rb'.slot_count = rb.slot_count /\ rb'.next = rb.next
        /\ rb'.write_count = rb.write_count /\ rb'.overrun = rb.overrun
        /\ rb'.overrun_disabled = rb.overrun_disabled
        /\ \A s \in 0..(rb.slot_count - 1) : rb'.ringbuf[s].t_begin = rb.ringbuf[s].t_begin
    BY <1>1, StampKeepsBegin
  <1>3. EntriesOfSlots /\ EntriesOfSlots'
    <2>1. IInv' => EntriesOfSlots'
      BY EntriesAreOfSlots, PTL
    <2> QED BY <2>1, EntriesAreOfSlots
  <1>4. Kept' = Kept /\ \A j : SlotFrom(j)' = SlotFrom(j)
    BY <1>2 DEF Kept, SlotFrom, OldestSlot
  <1>5. ASSUME NEW s \in 0..(rb.slot_count - 1), Holds(s)
        PROVE  EntryAt(s)' = EntryAt(s)
    <2>1. JobAt(s)' = JobAt(s) /\ (Unfinished(s)' => Unfinished(s))
      BY <1>2 DEF JobAt, Unfinished, JobFinish
    <2>2. CASE Unfinished(s)' \/ ~Unfinished(s)
      BY <1>2, <2>1, <2>2 DEF EntryAt
    (* The record is finished by this step, so its beginning is there.     *)
    <2>3. CASE ~Unfinished(s)' /\ Unfinished(s)
      <3>1. JobAt(s) = rb.write_count /\ pc = "running" /\ rc = 0
        BY <1>2, <2>1, <2>3 DEF Unfinished, JobFinish, IInv, StatsIsNewest, TypeOK
      <3>2. s = stats
        <4>1. LinearCounters /\ rb.slot_count \in Nat /\ rb.next \in Nat
              /\ rb.write_count \in Nat /\ rb.next <= rb.slot_count
          BY DEF IInv, CountersAgree, LinearCounters, TypeOK, RingbufType
        <4> QED BY <1>1, <1>5, <3>1, <4>1 DEF IInv, StatsIsNewest, LinearCounters, JobAt, Holds
      <3>3. rb.ringbuf[s].t_begin = rb.write_count
        BY <3>1, <3>2 DEF IInv, StatsIsNewest, Dummy
      <3> QED BY <1>2, <2>3, <3>3 DEF EntryAt
    <2> QED BY <2>2, <2>3
  <1>6. \A j \in 1..Kept : KeptEntries'[j] = KeptEntries[j]
    <2> SUFFICES ASSUME NEW j \in 1..Kept PROVE KeptEntries'[j] = KeptEntries[j]
      OBVIOUS
    <2>1. PICK s \in 0..(rb.slot_count - 1) :
             s = SlotFrom(j) /\ Holds(s) /\ KeptEntries[j] = EntryAt(s)
      BY <1>3 DEF EntriesOfSlots
    <2>2. PICK t \in 0..(rb.slot_count - 1) :
             t = SlotFrom(j)' /\ KeptEntries'[j] = EntryAt(t)'
      BY <1>2, <1>3, <1>4 DEF EntriesOfSlots
    <2> QED BY <1>4, <1>5, <2>1, <2>2
  <1>7. /\ KeptEntries \in Seq(Nat) /\ KeptEntries' \in Seq(Nat)
        /\ Len(KeptEntries) = Kept /\ Len(KeptEntries') = Kept
    BY <1>3, <1>4 DEF EntriesOfSlots
  <1> QED BY <1>6, <1>7, SeqEqual

LEMMA CancelledEntries ==
    ASSUME IInv, Cancelled
    PROVE  KeptEntries' = KeptEntries
  <1>1. /\ Kept' = Kept /\ \A j : SlotFrom(j)' = SlotFrom(j)
        /\ \A s : Unfinished(s)' <=> Unfinished(s)
    BY DEF Cancelled, Kept, SlotFrom, OldestSlot, Unfinished, JobAt
  <1> QED BY <1>1 DEF KeptEntries, EntryAt, Cancelled

(* A ring without a job in it is an empty log.                             *)
EmptyRing == rb.next = 0 /\ ~rb.overrun => KeptEntries = <<>>

LEMMA NoEntries == IInv => EmptyRing
  <1> SUFFICES ASSUME IInv, rb.next = 0, ~rb.overrun PROVE KeptEntries = <<>>
    BY DEF EmptyRing
  <1>1. Len(KeptEntries) = 0 /\ KeptEntries \in Seq(Nat)
    BY EntriesAreOfSlots DEF EntriesOfSlots, Kept
  <1> QED BY <1>1, EmptySeq

(* Every step of job.c is a step of the abstract log or leaves it alone.   *)
LEMMA NextImplementsLog ==
    ASSUME IInv, IInv', NoReadingAhead, [Next]_vars
    PROVE  [Log!Next]_Log!vars
  <1>1. ASSUME NEW n \in SlotCounts, NEW dis \in BOOLEAN, Create(n, dis)
        PROVE  Log!Open(n, dis) /\ n \in SlotCounts \ {0}
    <2>1. /\ rb'.slot_count = n /\ rb'.next = 0 /\ rb'.overrun = FALSE
          /\ rb'.overrun_disabled = dis /\ rb'.write_count = 0
      BY <1>1 DEF Create, jobstats_ringbuf_create
    <2>2. IInv' => EmptyRing'
      BY NoEntries, PTL
    <2>3. KeptEntries' = <<>>
      BY <2>1, <2>2 DEF EmptyRing
    <2> QED BY <1>1, <2>1, <2>3 DEF Create, Log!Open
  <1>2. ASSUME NEW ok \in BOOLEAN, JobStart(ok)
        PROVE  Log!Log(ok)
    <2>1. /\ rb'.slot_count = rb.slot_count /\ rb'.write_count = rb.write_count + 1
          /\ rb'.overrun_disabled = rb.overrun_disabled
      BY <1>2, JobStartFields DEF RingbufType
    <2>2. LET entry == IF ok THEN rb.write_count + 1 ELSE 0
          IN /\ Len(KeptEntries) < rb.slot_count => KeptEntries' = Append(KeptEntries, entry)
             /\ Len(KeptEntries) = rb.slot_count /\ rb.overrun_disabled =>
                   KeptEntries' = KeptEntries
             /\ Len(KeptEntries) = rb.slot_count /\ ~rb.overrun_disabled =>
                   KeptEntries' = Append(Tail(KeptEntries), entry)
      BY <1>2, JobStartEntries
    <2>3. Len(KeptEntries) \in 0..rb.slot_count
      BY EntriesAreOfSlots DEF EntriesOfSlots
    <2>4. pc = "idle" /\ pc' = "running" /\ rb.slot_count \in Nat
      BY <1>2, JobStartFields DEF JobStart
    <2> QED BY <2>1, <2>2, <2>3, <2>4 DEF Log!Log
  <1>3. ASSUME NEW ok \in BOOLEAN, JobFinish(ok)
        PROVE  UNCHANGED Log!vars
    <2>1. RingbufType(rb) /\ stats \in {Dummy} \cup 0..(rb.slot_count - 1)
      BY DEF IInv, TypeOK
    <2>2. /\ rb'.slot_count = rb.slot_count /\ rb'.write_count = rb.write_count
          /\ rb'.overrun_disabled = rb.overrun_disabled
      BY <1>3, <2>1, StampKeepsBegin DEF JobFinish
    <2> QED BY <1>3, <2>2, JobFinishEntries DEF JobFinish, Log!vars
  <1>4. CASE Cancelled
    BY <1>4, CancelledEntries DEF Cancelled, Log!vars
  <1>5. CASE SaveBegin \/ SaveStep \/ SaveFail \/ UNCHANGED vars
    <2>1. /\ rb' = rb /\ killed' = killed /\ rc' = rc /\ (pc' = "none" <=> pc = "none")
          /\ (pc' = "running" <=> pc = "running")
      BY <1>5 DEF SaveBegin, SaveStep, SaveFail, vars
    <2>2. /\ Kept' = Kept /\ \A j : SlotFrom(j)' = SlotFrom(j)
          /\ \A s : Unfinished(s)' <=> Unfinished(s)
      BY <2>1 DEF Kept, SlotFrom, OldestSlot, Unfinished, JobAt
    <2>3. KeptEntries' = KeptEntries
      BY <2>1, <2>2 DEF KeptEntries, EntryAt
    <2> QED BY <2>1, <2>3 DEF Log!vars
  <1>6. CASE Destroy
    <2>1. /\ rb'.slot_count = 0 /\ rb'.next = 0 /\ rb'.overrun = FALSE
          /\ rb'.overrun_disabled = FALSE /\ rb'.write_count = 0
      BY <1>6 DEF Destroy, NoRingbuf, jobstats_ringbuf_create
    <2>2. IInv' => EmptyRing'
      BY NoEntries, PTL
    <2>3. KeptEntries' = <<>>
      BY <2>1, <2>2 DEF EmptyRing
    <2>4. Log!Close
      BY <1>6, <2>1, <2>3 DEF Destroy, Log!Close
    <2> QED BY <2>4 DEF Log!Next
  <1> QED BY <1>1, <1>2, <1>3, <1>4, <1>5, <1>6 DEF Next, Log!Next

(* The ring keeps exactly the jobs that job.h promises: the first or the   *)
(* last of as many as it has slots, in the order of their releases.        *)
THEOREM JobImplementsLog == Spec => ImplementsJobLog
  <1>1. Init => Log!Init
    <2> SUFFICES ASSUME Init PROVE Log!Init
      OBVIOUS
    <2>1. /\ rb.slot_count = 0 /\ rb.next = 0 /\ rb.overrun = FALSE
          /\ rb.overrun_disabled = FALSE /\ rb.write_count = 0
      BY DEF Init, NoRingbuf, jobstats_ringbuf_create
    <2>2. KeptEntries = <<>>
      BY <2>1, NoEntries, InitIInv DEF EmptyRing
    <2> QED BY <2>1, <2>2 DEF Init, Log!Init
  <1>2. IInv /\ IInv' /\ NoReadingAhead /\ [Next]_vars => [Log!Next]_Log!vars
    BY NextImplementsLog
  <1> QED BY <1>1, <1>2, SpecIInv, SpecNoReadingAhead, PTL DEF Spec, ImplementsJobLog, Log!Spec

-----------------------------------------------------------------------------
(* Reading the statistics back, for every file.                            *)

(* Where a call of task_statistics_read is in the file, and what it has    *)
(* told.  An I/O error stays where it was met, so that the end of the file *)
(* is never seen behind one.                                               *)
StreamKept ==
    /\ section \in {"idle", "task_stats"} => pos = 0
    /\ section = "name" => pos = 1
    /\ section = "params" => pos = 2
    /\ section = "task_fn" => pos = Header
    /\ section # "done" => ~eof
    /\ ~eof => tail = file.partial
    /\ file.bad # None => pos < file.bad
    /\ ferr => file.bad \in 1..(file.units + 1)
    /\ file.disabled => file.units <= 2

CallProgress ==
    /\ section \in {"task_stats", "name", "params", "task_fn"} =>
          ~told /\ delivered = <<>> /\ ~garbage
    /\ section \in {"jobs", "job_fn"} =>
          told /\ ~file.disabled /\ Len(delivered) = pos - Header
    /\ section \notin {"idle", "done"} => refused = "nobody" /\ exit_code = -3

ReadInv == ReadTypeOK /\ DeliveredInOrder /\ ExitCodeTellsTheTruth /\ StreamKept /\ CallProgress

(* The jobs told that are in the list with us microseconds, those that are *)
(* in the list at all, and the late ones.                                  *)
CountedAs(s, us) == {j \in DOMAIN s : s[j].kept /\ RoundToMicrosecond(Max0(s[j].response)) = us}
Counted(s)       == {j \in DOMAIN s : s[j].kept}
Late(s)          == {j \in DOMAIN s : s[j].response > Deadline}

ListItem == [response_time : Int, job_count : Int]
JobSeen  == [response : Responses, kept : BOOLEAN]

Sorted(l) == \A m, n \in DOMAIN l : m < n => l[m].response_time < l[n].response_time

ListCounts(l, s) ==
    /\ Sorted(l)
    /\ \A n \in DOMAIN l : l[n].job_count = Cardinality(CountedAs(s, l[n].response_time))
    /\ \A j \in Counted(s) : \E n \in DOMAIN l :
          l[n].response_time = RoundToMicrosecond(Max0(s[j].response))

LineOf(first, s, j) == [job      |-> first + j - 1,
                        response |-> Max0(s[j].response),
                        late     |-> s[j].response > Deadline]

ReportType ==
    /\ tau \in [oldest_job_pos : Oldest, period : Periods]
    /\ prms \in [state : {"reading", "success", "failure"}, nth_job : Nat, total_job_count : Nat,
                 late_count : Nat, response_times : Seq(ListItem)]
    /\ seen \in Seq(JobSeen)
    /\ cdf_fmt \in {"NO_CDF", "GNUPLOT", "MATLAB"}

(* How far the report is: the record that print_job_stats is given next is *)
(* that of the job stats_prms counts.                                      *)
ReportProgress ==
    /\ ~Reporting \/ section \in {"idle", "task_stats", "name", "params", "task_fn"} =>
          seen = <<>> /\ printed = <<>> /\ prms.state = "reading"
    /\ Reporting /\ ~garbage /\ section \in {"jobs", "job_fn"} =>
          /\ prms.nth_job = tau.oldest_job_pos + Len(seen)
          /\ Len(seen) = IF section = "jobs" THEN Len(delivered) ELSE Len(delivered) - 1
    /\ prms.state # "reading" => Reporting /\ section = "done"

Totals ==
    /\ ListCounts(prms.response_times, seen)
    /\ prms.total_job_count = Len(seen)
    /\ prms.late_count = Cardinality(Late(seen))

Printed ==
    /\ cdf_fmt = "NO_CDF" => /\ Len(printed) = Len(seen)
                             /\ DOMAIN printed = DOMAIN seen
                             /\ \A j \in DOMAIN seen : printed[j] = LineOf(tau.oldest_job_pos, seen, j)
    /\ cdf_fmt # "NO_CDF" =>
          /\ printed # <<>> => printed = Cdf(prms.response_times)
          /\ prms.state = "reading" => printed = <<>>
          /\ prms.state = "success" /\ seen # <<>> => printed = Cdf(prms.response_times)

ReportInv == ReportType /\ ReportProgress /\ Totals /\ Printed

LEMMA ReadInitInv == ReadInit => ReadInv
  <1> SUFFICES ASSUME ReadInit PROVE ReadInv
    OBVIOUS
  <1>1. delivered \in Seq(1..MaxUnits) /\ Len(delivered) = 0
    BY DEF ReadInit
  <1>2. ReadTypeOK
    <2>1. file \in Files /\ file.partial \in BOOLEAN /\ 0 \in 0..file.units
      BY TaskStatsFileAssumption DEF ReadInit, Files
    <2> QED BY <1>1, <2>1 DEF ReadInit, ReadTypeOK
  <1>3. DeliveredInOrder
    BY <1>1, TaskStatsFileAssumption DEF ReadInit, DeliveredInOrder, Jobs, Header, Files
  <1>4. ExitCodeTellsTheTruth
    BY DEF ReadInit, ExitCodeTellsTheTruth
  <1>5. StreamKept /\ CallProgress
    BY DEF ReadInit, StreamKept, CallProgress, Files, None
  <1> QED BY <1>2, <1>3, <1>4, <1>5 DEF ReadInv

(* What fread leaves of the stream.                                        *)
LEMMA FreadKept ==
    ASSUME ReadTypeOK, StreamKept, Fread, ~eof, UNCHANGED file
    PROVE  /\ pos' \in 0..file.units /\ tail' \in BOOLEAN /\ eof' \in BOOLEAN /\ ferr' \in BOOLEAN
           /\ Whole => pos' = pos + 1 /\ ~eof' /\ tail' = file.partial /\ ~Short
           /\ ~Whole => pos' = pos
           /\ Short => pos = file.units /\ eof' /\ ~ferr /\ ~ferr'
           /\ ~Short => ~eof' /\ tail' = file.partial
           /\ file.bad # None => pos' < file.bad
           /\ ferr' => file.bad \in 1..(file.units + 1)
  <1>1. /\ file.units \in Nat /\ file.bad \in Nat /\ pos \in Nat /\ pos <= file.units
        /\ file.partial \in BOOLEAN /\ tail \in BOOLEAN /\ eof \in BOOLEAN /\ ferr \in BOOLEAN
        /\ Whole \in BOOLEAN /\ Broken \in BOOLEAN /\ Short \in BOOLEAN
    BY TaskStatsFileAssumption DEF ReadTypeOK, Files, None, Whole, Broken, Short
  <1>2. tail' \in BOOLEAN /\ eof' \in BOOLEAN /\ ferr' \in BOOLEAN
    BY <1>1 DEF Fread
  <1>3. CASE Whole
    BY <1>1, <1>2, <1>3 DEF Fread, StreamKept, Broken, Whole, Short, None
  <1>4. CASE Broken
    BY <1>1, <1>2, <1>4 DEF Fread, StreamKept, Broken, Whole, Short, None
  <1>5. CASE Short
    <2>1. pos = file.units /\ ~Broken /\ ~Whole /\ file.bad # pos + 1
      BY <1>1, <1>5 DEF Broken, Whole, Short
    <2>2. ~ferr
      BY <1>1, <2>1 DEF StreamKept, None
    <2>3. pos' = pos /\ eof' /\ ~ferr'
      BY <1>1, <1>5, <2>1, <2>2 DEF Fread
    <2> QED BY <1>1, <1>2, <1>5, <2>1, <2>2, <2>3 DEF StreamKept
  <1> QED BY <1>1, <1>3, <1>4, <1>5 DEF Whole, Short, Broken

(* A job record delivered is the next one.                                 *)
LEMMA NextDelivered ==
    ASSUME ReadInv, NEW d, d = Append(delivered, pos + 1 - Header),
           section = "jobs", pos + 1 <= file.units
    PROVE  /\ d \in Seq(1..MaxUnits) /\ Len(d) = pos + 1 - Header /\ Len(d) <= Jobs
           /\ \A j \in 1..Len(d) : d[j] = j
  <1>1. /\ delivered \in Seq(1..MaxUnits) /\ Len(delivered) = pos - Header
        /\ pos \in Nat /\ file.units \in 0..MaxUnits /\ Header \in {2, 3} /\ Len(delivered) \in Nat
        /\ \A j \in 1..Len(delivered) : delivered[j] = j
    BY DEF ReadInv, ReadTypeOK, CallProgress, Header, Files, DeliveredInOrder
  <1>2. pos + 1 - Header \in 1..MaxUnits /\ pos + 1 - Header = Len(delivered) + 1
    BY <1>1, TaskStatsFileAssumption
  <1>3. /\ d \in Seq(1..MaxUnits) /\ Len(d) = Len(delivered) + 1
        /\ \A j \in 1..Len(delivered) : d[j] = delivered[j]
        /\ d[Len(delivered) + 1] = Len(delivered) + 1
    BY <1>1, <1>2, AppendProperties
  <1>4. \A j \in 1..Len(d) : d[j] = j
    BY <1>1, <1>3
  <1>5. Len(d) <= Jobs
    BY <1>1, <1>2, <1>3, TaskStatsFileAssumption DEF Jobs
  <1> QED BY <1>1, <1>2, <1>3, <1>4, <1>5

LEMMA ReadNextInv == ReadInv /\ [ReadNext]_readVars => ReadInv'
  <1> SUFFICES ASSUME ReadInv, [ReadNext]_readVars PROVE ReadInv'
    OBVIOUS
  <1> USE TaskStatsFileAssumption DEF ReadInv
  <1>t. /\ file.units \in 0..MaxUnits /\ Header \in {2, 3} /\ file.disabled \in BOOLEAN
        /\ file.partial \in BOOLEAN /\ delivered \in Seq(1..MaxUnits) /\ Len(delivered) \in Nat
        /\ Jobs \in Nat /\ <<>> \in Seq(1..MaxUnits) /\ Len(<<>>) = 0
        /\ eof \in BOOLEAN /\ ferr \in BOOLEAN /\ tail \in BOOLEAN
    <2>1. file \in Files /\ delivered \in Seq(1..MaxUnits)
      BY DEF ReadTypeOK
    <2> QED BY <2>1 DEF Header, Jobs, Files, ReadTypeOK
  <1>1. CASE Enter
    <2>1. ReadTypeOK'
      BY <1>1, <1>t DEF Enter, Out, ReadTypeOK, streamUnchanged
    <2>2. DeliveredInOrder' /\ CallProgress'
      BY <1>1, <1>t DEF Enter, Out, DeliveredInOrder, CallProgress, streamUnchanged, Jobs, Header
    <2>3. ExitCodeTellsTheTruth'
      BY <1>1, <1>t DEF Enter, Out, ExitCodeTellsTheTruth, streamUnchanged, Deserialized, StreamKept
    <2>4. StreamKept'
      BY <1>1, <1>t DEF Enter, Out, StreamKept, streamUnchanged, Header
    <2> QED BY <2>1, <2>2, <2>3, <2>4
  <1>2. CASE Rewind
    <2>1. ReadTypeOK'
      <3>1. 0 \in 0..file.units
        BY <1>t
      <3> QED BY <1>2, <1>t, <3>1 DEF Rewind, ReadTypeOK
    <2>2. DeliveredInOrder' /\ CallProgress'
      BY <1>2, <1>t DEF Rewind, DeliveredInOrder, CallProgress, Jobs, Header
    <2>3. ExitCodeTellsTheTruth'
      BY <1>2, <1>t DEF Rewind, ExitCodeTellsTheTruth
    <2>4. StreamKept'
      BY <1>2, <1>t DEF Rewind, StreamKept, Header, ReadTypeOK, Files, None
    <2> QED BY <2>1, <2>2, <2>3, <2>4
  <1>b. /\ file.bad \in Nat /\ pos \in Nat /\ pos <= file.units /\ garbage \in BOOLEAN /\ told \in BOOLEAN
        /\ Broken \in BOOLEAN /\ Short \in BOOLEAN /\ Whole \in BOOLEAN /\ file.compatible \in BOOLEAN
        /\ (Whole \/ Broken \/ Short) /\ ~(Whole /\ Broken) /\ ~(Short /\ Broken)
    BY <1>t DEF ReadTypeOK, Files, None, Broken, Short, Whole
  <1>e. ASSUME section' = "done", exit_code' = -3, ~told', CannotBeRead', refused' = "nobody", ~task_name'
        PROVE  ExitCodeTellsTheTruth'
    BY <1>e DEF ExitCodeTellsTheTruth, Deserialized
  <1>3. CASE ReadTaskStats
    <2>0. ~eof /\ UNCHANGED file /\ Fread
      BY <1>3 DEF ReadTaskStats, StreamKept
    <2>1. ReadTypeOK'
      BY <1>3, <1>t, <2>0, FreadKept DEF ReadTaskStats, Out, ReadTypeOK
    <2>2. DeliveredInOrder' /\ CallProgress'
      BY <1>3, <1>t DEF ReadTaskStats, Out, DeliveredInOrder, CallProgress, Jobs, Header
    <2>3. ExitCodeTellsTheTruth'
      <3>0. /\ ~told' /\ refused' = "nobody" /\ delivered' = <<>> /\ ~garbage' /\ file' = file
            /\ pos = 0 /\ Header' \in {2, 3}
        BY <1>3, <1>t DEF ReadTaskStats, CallProgress, StreamKept, Header
      <3>1. CASE Whole
        <4>1. pos' = 1
          BY <2>0, <3>0, <3>1, FreadKept
        <4>2. CASE file.compatible
          BY <1>3, <3>1, <4>2 DEF ReadTaskStats, ExitCodeTellsTheTruth
        <4>3. CASE ~file.compatible
          <5>1. section' = "done" /\ exit_code' = -3 /\ ~task_name'
            BY <1>3, <1>b, <3>1, <4>3, <2>0, FreadKept DEF ReadTaskStats, Out
          <5> QED BY <1>e, <3>0, <4>1, <5>1 DEF CannotBeRead
        <4> QED BY <4>2, <4>3
      <3>2. CASE Broken
        <4>1. ferr' /\ pos' = pos /\ Broken'
          BY <1>b, <2>0, <3>0, <3>2 DEF Fread, Broken
        <4> QED BY <1>3, <1>b, <1>e, <3>0, <3>2, <4>1 DEF ReadTaskStats, Out, CannotBeRead
      <3>3. CASE Short
        <4>1. eof' /\ pos = file.units /\ ~ferr /\ tail = file.partial /\ ~Whole
          BY <1>b, <2>0, <3>3, FreadKept DEF StreamKept
        <4>2. CASE tail
          BY <1>3, <1>e, <1>t, <3>0, <4>1, <4>2 DEF ReadTaskStats, Out, CannotBeRead
        <4>3. CASE ~tail
          <5>1. section' = "done" /\ exit_code' = -4 /\ ~task_name'
            BY <1>3, <3>3, <4>1, <4>3 DEF ReadTaskStats, Out
          <5> QED BY <3>0, <4>1, <5>1 DEF ExitCodeTellsTheTruth, Deserialized
        <4> QED BY <1>t, <4>2, <4>3
      <3> QED BY <1>b, <3>1, <3>2, <3>3
    <2>4. StreamKept'
      BY <1>3, <1>t, <2>0, FreadKept DEF ReadTaskStats, Out, StreamKept, Header
    <2> QED BY <2>1, <2>2, <2>3, <2>4
  <1>4. ASSUME NEW memory \in BOOLEAN, ReadName(memory) PROVE ReadInv'
    <2>0. ~eof /\ UNCHANGED file /\ (Fread \/ streamUnchanged)
      BY <1>4 DEF ReadName, StreamKept
    <2>1. ReadTypeOK'
      BY <1>4, <1>t, <2>0, FreadKept DEF ReadName, Out, ReadTypeOK, streamUnchanged
    <2>2. DeliveredInOrder' /\ CallProgress'
      BY <1>4, <1>t DEF ReadName, Out, DeliveredInOrder, CallProgress, Jobs, Header
    <2>3. ExitCodeTellsTheTruth'
      <3>0. ~told' /\ refused' = "nobody" /\ file' = file /\ pos = 1 /\ Header' \in {2, 3}
        BY <1>4, <1>t DEF ReadName, CallProgress, StreamKept, Header
      <3>1. CASE memory /\ Whole
        BY <1>4, <3>1 DEF ReadName, ExitCodeTellsTheTruth
      <3>2. CASE ~(memory /\ Whole)
        <4>1. section' = "done" /\ exit_code' = -3 /\ ~task_name'
          BY <1>4, <3>2 DEF ReadName, Out
        <4>2. pos' = 1
          BY <1>4, <2>0, <3>0, <3>2, FreadKept DEF ReadName, streamUnchanged
        <4> QED BY <1>e, <3>0, <4>1, <4>2 DEF CannotBeRead
      <3> QED BY <3>1, <3>2
    <2>4. StreamKept'
      BY <1>4, <1>t, <2>0, FreadKept DEF ReadName, Out, StreamKept, Header, streamUnchanged
    <2> QED BY <2>1, <2>2, <2>3, <2>4
  <1>5. CASE ReadRingbufParams
    <2>0. ~eof /\ UNCHANGED file /\ (Fread \/ streamUnchanged)
      BY <1>5 DEF ReadRingbufParams, StreamKept
    <2>1. ReadTypeOK'
      BY <1>5, <1>t, <2>0, FreadKept DEF ReadRingbufParams, Out, ReadTypeOK, streamUnchanged
    <2>2. DeliveredInOrder' /\ CallProgress'
      BY <1>5, <1>t DEF ReadRingbufParams, Out, DeliveredInOrder, CallProgress, Jobs, Header
    <2>3. ExitCodeTellsTheTruth'
      <3>0. ~told' /\ refused' = "nobody" /\ file' = file /\ pos = 2
        BY <1>5, <1>t DEF ReadRingbufParams, CallProgress, StreamKept
      <3>1. CASE file.disabled \/ Whole
        BY <1>5, <3>1 DEF ReadRingbufParams, ExitCodeTellsTheTruth
      <3>2. CASE ~file.disabled /\ ~Whole
        <4>1. section' = "done" /\ exit_code' = -3 /\ ~task_name' /\ Fread /\ Header' = 3
          BY <1>5, <3>0, <3>2 DEF ReadRingbufParams, Out, Header
        <4>2. CASE Broken
          <5>1. ferr' /\ pos' = pos /\ Broken'
            BY <1>b, <3>0, <4>1, <4>2 DEF Fread, Broken
          <5> QED BY <1>e, <3>0, <4>1, <5>1 DEF CannotBeRead
        <4>3. CASE Short
          <5>1. eof' /\ pos = file.units
            BY <2>0, <4>1, <4>3, FreadKept
          <5> QED BY <1>e, <3>0, <4>1, <5>1 DEF CannotBeRead
        <4> QED BY <1>b, <3>2, <4>2, <4>3
      <3> QED BY <1>t, <3>1, <3>2
    <2>4. StreamKept'
      BY <1>5, <1>t, <2>0, FreadKept DEF ReadRingbufParams, Out, StreamKept, Header, streamUnchanged
    <2> QED BY <2>1, <2>2, <2>3, <2>4
  <1>6. ASSUME NEW zero \in BOOLEAN, TaskStatisticsFn(zero) PROVE ReadInv'
    <2>1. ReadTypeOK'
      BY <1>6, <1>t DEF TaskStatisticsFn, Out, ReadTypeOK, streamUnchanged
    <2>2. DeliveredInOrder' /\ CallProgress'
      BY <1>6, <1>t DEF TaskStatisticsFn, Out, DeliveredInOrder, CallProgress, Jobs, Header,
                        streamUnchanged, StreamKept
    <2>3. ExitCodeTellsTheTruth'
      <3>0. ~garbage' /\ told' /\ refused = "nobody" /\ file' = file /\ exit_code = -3
        BY <1>6 DEF TaskStatisticsFn, CallProgress
      <3>1. CASE ~zero
        <4>1. section' = "done" /\ exit_code' = -1 /\ ~task_name' /\ refused' = "task_statistics_fn"
          BY <1>6, <3>1 DEF TaskStatisticsFn, Out
        <4> QED BY <4>1 DEF ExitCodeTellsTheTruth, Deserialized
      <3>2. CASE zero /\ file.disabled
        <4>1. section' = "done" /\ exit_code' = -3 /\ ~task_name' /\ refused' = "nobody" /\ file'.disabled
          BY <1>6, <3>0, <3>2 DEF TaskStatisticsFn, Out
        <4> QED BY <3>0, <4>1 DEF ExitCodeTellsTheTruth, Deserialized
      <3>3. CASE zero /\ ~file.disabled
        BY <1>6, <3>3 DEF TaskStatisticsFn, ExitCodeTellsTheTruth
      <3> QED BY <1>t, <3>1, <3>2, <3>3
    <2>4. StreamKept'
      BY <1>6, <1>t DEF TaskStatisticsFn, Out, StreamKept, Header, streamUnchanged
    <2> QED BY <2>1, <2>2, <2>3, <2>4
  <1>7. CASE ReadJob
    <2>0. /\ ~eof /\ UNCHANGED file /\ Fread /\ section = "jobs"
          /\ told /\ ~file.disabled /\ Len(delivered) = pos - Header
          /\ refused = "nobody" /\ exit_code = -3 /\ pos \in Nat
      BY <1>7 DEF ReadJob, StreamKept, CallProgress, ReadTypeOK
    <2>1. CASE Whole
      <3> DEFINE d == Append(delivered, pos + 1 - Header)
      <3>1. pos + 1 <= file.units /\ pos' = pos + 1
        BY <2>0, <2>1, FreadKept DEF Whole, ReadTypeOK
      <3>2. /\ delivered' = d /\ section' = "job_fn" /\ ~Short /\ Header' = Header /\ Jobs' = Jobs
            /\ garbage' = garbage /\ UNCHANGED <<file, told, refused, exit_code, task_name>>
        BY <1>7, <2>0, <2>1, <3>1, FreadKept DEF ReadJob, Header, Jobs, ReadTypeOK
      <3>3. /\ d \in Seq(1..MaxUnits) /\ Len(d) = pos + 1 - Header /\ Len(d) <= Jobs
            /\ \A j \in 1..Len(d) : d[j] = j
        BY <2>0, <3>1, NextDelivered
      <3> HIDE DEF d
      <3>4. ReadTypeOK'
        BY <1>t, <2>0, <3>2, <3>3, FreadKept DEF ReadTypeOK
      <3>g. ~garbage
        <4>1. ~garbage \/ file.bad = pos + 1
          BY <1>b, <1>t, <2>0 DEF DeliveredInOrder
        <4> QED BY <1>b, <2>1, <4>1 DEF Broken
      <3>5. DeliveredInOrder' /\ CallProgress'
        BY <1>t, <2>0, <3>1, <3>2, <3>3, <3>g DEF DeliveredInOrder, CallProgress
      <3>6. ExitCodeTellsTheTruth'
        BY <3>2 DEF ExitCodeTellsTheTruth
      <3>7. StreamKept'
        BY <2>0, <2>1, <3>1, <3>2, FreadKept DEF StreamKept
      <3> QED BY <3>4, <3>5, <3>6, <3>7
    <2>2. CASE ~Whole /\ ~Short
      <3>1. /\ section' = "job_fn" /\ UNCHANGED <<file, told, refused, exit_code, task_name, delivered>>
            /\ garbage' = TRUE /\ Header' = Header /\ Jobs' = Jobs /\ pos' = pos
        BY <1>7, <2>0, <2>2, FreadKept DEF ReadJob, Header, Jobs
      <3>2. ReadTypeOK'
        BY <1>t, <2>0, <3>1, FreadKept DEF ReadTypeOK
      <3>g. ferr' /\ file'.bad = Header' + Len(delivered') + 1
        <4>1. file.bad = pos + 1 /\ ferr'
          BY <1>b, <2>0, <2>2 DEF Fread, Broken
        <4>2. file' = file /\ delivered' = delivered /\ Header' = Header /\ Len(delivered) = pos - Header
          BY <2>0, <3>1
        <4> QED BY <1>b, <1>t, <4>1, <4>2
      <3>3. DeliveredInOrder' /\ CallProgress'
        BY <1>t, <2>0, <3>1, <3>g DEF DeliveredInOrder, CallProgress
      <3>4. ExitCodeTellsTheTruth'
        BY <3>1 DEF ExitCodeTellsTheTruth
      <3>5. StreamKept'
        BY <2>0, <2>2, <3>1, FreadKept DEF StreamKept
      <3> QED BY <3>2, <3>3, <3>4, <3>5
    <2>3. CASE Short
      <3>1. pos = file.units /\ eof' /\ ~ferr /\ ~ferr' /\ ~Whole /\ pos' = pos /\ tail = file.partial
        BY <2>0, <2>3, FreadKept DEF StreamKept
      <3>2. /\ section' = "done" /\ exit_code' = (IF file.partial THEN -3 ELSE 0) /\ task_name' = FALSE
            /\ UNCHANGED <<file, told, refused, delivered, garbage>> /\ Header' = Header /\ Jobs' = Jobs
        BY <1>7, <2>0, <2>3, <3>1 DEF ReadJob, Out, Header, Jobs
      <3>3. ReadTypeOK'
        BY <1>t, <2>0, <3>2, FreadKept DEF ReadTypeOK
      <3>g. ~garbage
        BY <1>b, <2>0, <2>3, <3>1 DEF DeliveredInOrder, Broken
      <3>4. DeliveredInOrder' /\ CallProgress'
        BY <2>0, <3>2, <3>g DEF DeliveredInOrder, CallProgress
      <3>5. ExitCodeTellsTheTruth'
        <4>1. Len(delivered) = Jobs
          BY <1>t, <1>b, <2>0, <3>1 DEF Jobs, DeliveredInOrder
        <4>2. Deserialized' = ~file.partial
          BY <1>t, <2>0, <3>1, <3>2, <3>g, <4>1 DEF Deserialized
        <4>3. file.partial => CannotBeRead'
          BY <3>1, <3>2 DEF CannotBeRead
        <4>4. section' = "done" /\ ~task_name' /\ refused' = "nobody" /\ file'.disabled = FALSE
          BY <1>t, <2>0, <3>2
        <4>5. CASE file.partial
          <5>1. exit_code' = -3 /\ ~Deserialized' /\ CannotBeRead'
            BY <3>2, <4>2, <4>3, <4>5
          <5> QED BY <4>4, <5>1 DEF ExitCodeTellsTheTruth
        <4>6. CASE ~file.partial
          <5>1. exit_code' = 0 /\ Deserialized'
            BY <1>t, <3>2, <4>2, <4>6
          <5> QED BY <4>4, <5>1 DEF ExitCodeTellsTheTruth
        <4> QED BY <1>t, <4>5, <4>6
      <3>6. StreamKept'
        BY <2>0, <2>3, <3>1, <3>2, FreadKept DEF StreamKept
      <3> QED BY <3>3, <3>4, <3>5, <3>6
    <2> QED BY <2>1, <2>2, <2>3
  <1>8. ASSUME NEW zero \in BOOLEAN, JobStatisticsFn(zero) PROVE ReadInv'
    <2>1. ReadTypeOK'
      BY <1>8, <1>t DEF JobStatisticsFn, Out, ReadTypeOK, streamUnchanged
    <2>2. DeliveredInOrder' /\ CallProgress'
      BY <1>8, <1>t DEF JobStatisticsFn, Out, DeliveredInOrder, CallProgress, Jobs, Header,
                        streamUnchanged
    <2>3. ExitCodeTellsTheTruth'
      <3>1. CASE zero
        BY <1>8, <3>1 DEF JobStatisticsFn, ExitCodeTellsTheTruth
      <3>2. CASE ~zero
        <4>1. section' = "done" /\ exit_code' = -2 /\ ~task_name' /\ refused' = "job_statistics_fn"
          BY <1>8, <3>2 DEF JobStatisticsFn, Out
        <4> QED BY <4>1 DEF ExitCodeTellsTheTruth, Deserialized
      <3> QED BY <1>8, <3>1, <3>2
    <2>4. StreamKept'
      BY <1>8, <1>t DEF JobStatisticsFn, Out, StreamKept, Header, streamUnchanged
    <2> QED BY <2>1, <2>2, <2>3, <2>4
  <1>9. CASE UNCHANGED readVars
    <2>1. /\ UNCHANGED <<file, pos, tail, eof, ferr, section, task_name, told, refused, delivered,
                         garbage, exit_code>>
          /\ Header' = Header /\ Jobs' = Jobs /\ Broken' = Broken
      BY <1>9 DEF readVars, Header, Jobs, Broken
    <2>2. ReadTypeOK' /\ DeliveredInOrder'
      BY <2>1 DEF ReadTypeOK, DeliveredInOrder
    <2>3. StreamKept' /\ CallProgress'
      BY <2>1 DEF StreamKept, CallProgress
    <2>4. Deserialized' = Deserialized /\ CannotBeRead' = CannotBeRead
      BY <2>1 DEF Deserialized, CannotBeRead
    <2> QED BY <2>1, <2>2, <2>3, <2>4 DEF ExitCodeTellsTheTruth
  <1> QED BY <1>1, <1>2, <1>3, <1>4, <1>5, <1>6, <1>7, <1>8, <1>9 DEF ReadNext

LEMMA AlwaysReadInv == ReadSpec => []ReadInv
  BY ReadInitInv, ReadNextInv, PTL DEF ReadSpec

-----------------------------------------------------------------------------
(* The list of response times.                                             *)

LEMMA LeastIs ==
    ASSUME NEW S \in SUBSET Nat, S # {}
    PROVE  \E m \in S : \A k \in S : m <= k
  <1>1. IsWellFoundedOn(OpToRel(<, Nat), Nat)
    BY NatLessThanWellFounded, Zenon
  <1>2. PICK m \in S : \A k \in S : ~ (<<k, m>> \in OpToRel(<, Nat))
    BY <1>1, WFMin, Zenon
  <1>3. ASSUME NEW k \in S
        PROVE  m <= k
    <2>1. ~ (<<k, m>> \in {ss \in Nat \X Nat : ss[1] < ss[2]})
      BY <1>2 DEF OpToRel
    <2> QED BY <2>1
  <1> QED BY <1>3

LEMMA GreatestIs ==
    ASSUME NEW n \in Nat, NEW S \in SUBSET (1..n), S # {}
    PROVE  \E m \in S : \A k \in S : k <= m
  <1> DEFINE T == {n - k : k \in S}
  <1>1. T \in SUBSET Nat /\ T # {}
    <2>1. \A k \in S : n - k \in Nat
      OBVIOUS
    <2> QED BY <2>1
  <1>2. PICK t \in T : \A k \in T : t <= k
    BY <1>1, LeastIs
  <1>3. PICK m \in S : t = n - m
    BY <1>2
  <1>4. \A k \in S : n - m <= n - k
    BY <1>2, <1>3
  <1> QED BY <1>3, <1>4

LEMMA RoundIsNat == \A t \in Nat : RoundToMicrosecond(t) \in Nat
  <1> SUFFICES ASSUME NEW t \in Nat PROVE RoundToMicrosecond(t) \in Nat
    OBVIOUS
  <1>1. t \div THOUSAND \in Nat
    BY StatsReportAssumption
  <1> QED BY <1>1 DEF RoundToMicrosecond

LEMMA SeenIs ==
    ASSUME NEW s \in Seq(JobSeen)
    PROVE  /\ Len(s) \in Nat /\ DOMAIN s = 1..Len(s) /\ IsFiniteSet(1..Len(s))
           /\ \A j \in DOMAIN s : /\ s[j] \in JobSeen /\ s[j].response \in Int /\ s[j].kept \in BOOLEAN
                                  /\ Max0(s[j].response) \in Nat
                                  /\ RoundToMicrosecond(Max0(s[j].response)) \in Nat
  <1>1. Len(s) \in Nat /\ DOMAIN s = 1..Len(s) /\ \A j \in DOMAIN s : s[j] \in JobSeen
    OBVIOUS
  <1>2. ASSUME NEW e \in JobSeen PROVE e.response \in Int /\ e.kept \in BOOLEAN /\ Max0(e.response) \in Nat
    <2>1. e.response \in Int /\ e.kept \in BOOLEAN
      BY StatsReportAssumption DEF JobSeen
    <2> QED BY <2>1 DEF Max0
  <1>3. IsFiniteSet(1..Len(s))
    BY <1>1, FS_Interval
  <1> QED BY <1>1, <1>2, <1>3, RoundIsNat

LEMMA CountsAreFinite ==
    ASSUME NEW s \in Seq(JobSeen)
    PROVE  /\ \A us : IsFiniteSet(CountedAs(s, us)) /\ CountedAs(s, us) \in SUBSET DOMAIN s
           /\ IsFiniteSet(Counted(s)) /\ Counted(s) \in SUBSET DOMAIN s
           /\ IsFiniteSet(Late(s)) /\ Late(s) \in SUBSET DOMAIN s
           /\ \A us : Cardinality(CountedAs(s, us)) \in Nat
           /\ Cardinality(Counted(s)) \in Nat /\ Cardinality(Late(s)) \in Nat
  <1>1. IsFiniteSet(DOMAIN s)
    BY SeenIs
  <1>2. ASSUME NEW T \in SUBSET DOMAIN s PROVE IsFiniteSet(T) /\ Cardinality(T) \in Nat
    BY <1>1, FS_Subset, FS_CardinalityType
  <1>3. /\ \A us : CountedAs(s, us) \in SUBSET DOMAIN s
        /\ Counted(s) \in SUBSET DOMAIN s /\ Late(s) \in SUBSET DOMAIN s
    BY DEF CountedAs, Counted, Late
  <1> QED BY <1>2, <1>3

(* One more job is told: t is s and behind it e, the nth.                  *)
OneMore(t, s, e, n) ==
    /\ t \in Seq(JobSeen) /\ Len(t) = n /\ DOMAIN t = 1..n /\ t[n] = e
    /\ \A j \in 1..Len(s) : t[j] = s[j]
    /\ \A us : Cardinality(CountedAs(t, us)) =
          Cardinality(CountedAs(s, us))
          + (IF e.kept /\ RoundToMicrosecond(Max0(e.response)) = us THEN 1 ELSE 0)
    /\ Counted(t) = Counted(s) \cup (IF e.kept THEN {n} ELSE {})
    /\ Cardinality(Late(t)) = Cardinality(Late(s)) + (IF e.response > Deadline THEN 1 ELSE 0)

LEMMA OneMoreSeen ==
    ASSUME NEW s \in Seq(JobSeen), NEW e \in JobSeen
    PROVE  OneMore(Append(s, e), s, e, Len(s) + 1)
  <1> DEFINE t == Append(s, e)
             n == Len(s) + 1
  <1>1. /\ t \in Seq(JobSeen) /\ Len(t) = n /\ t[n] = e /\ Len(s) \in Nat
        /\ \A j \in 1..Len(s) : t[j] = s[j]
    BY AppendProperties, SeenIs
  <1>2. /\ DOMAIN t = 1..n /\ DOMAIN s = 1..Len(s) /\ n \notin DOMAIN s
        /\ DOMAIN t = DOMAIN s \cup {n} /\ \A j \in DOMAIN s : t[j] = s[j]
    BY <1>1, SeenIs
  <1>3. ASSUME NEW us
        PROVE  CountedAs(t, us) =
                 CountedAs(s, us) \cup (IF e.kept /\ RoundToMicrosecond(Max0(e.response)) = us
                                        THEN {n} ELSE {})
    BY <1>1, <1>2 DEF CountedAs
  <1>4. ASSUME NEW us
        PROVE  Cardinality(CountedAs(t, us)) =
                 Cardinality(CountedAs(s, us))
                 + (IF e.kept /\ RoundToMicrosecond(Max0(e.response)) = us THEN 1 ELSE 0)
    <2>1. IsFiniteSet(CountedAs(s, us)) /\ n \notin CountedAs(s, us) /\ Cardinality(CountedAs(s, us)) \in Nat
      BY <1>2, CountsAreFinite
    <2>2. Cardinality(CountedAs(s, us) \cup {n}) = Cardinality(CountedAs(s, us)) + 1
      BY <2>1, FS_AddElement
    <2>3. CASE e.kept /\ RoundToMicrosecond(Max0(e.response)) = us
      <3>1. CountedAs(t, us) = CountedAs(s, us) \cup {n}
        BY <1>3, <2>3
      <3> QED BY <2>2, <2>3, <3>1
    <2>4. CASE ~(e.kept /\ RoundToMicrosecond(Max0(e.response)) = us)
      <3>1. CountedAs(t, us) = CountedAs(s, us)
        BY <1>3, <2>4
      <3> QED BY <2>1, <2>4, <3>1
    <2> QED BY <2>3, <2>4
  <1>5. Counted(t) = Counted(s) \cup (IF e.kept THEN {n} ELSE {})
    BY <1>1, <1>2 DEF Counted
  <1>6. Late(t) = Late(s) \cup (IF e.response > Deadline THEN {n} ELSE {})
    BY <1>1, <1>2 DEF Late
  <1>7. Cardinality(Late(t)) = Cardinality(Late(s)) + (IF e.response > Deadline THEN 1 ELSE 0)
    <2>1. IsFiniteSet(Late(s)) /\ n \notin Late(s) /\ Cardinality(Late(s)) \in Nat
      BY <1>2, CountsAreFinite
    <2>2. Cardinality(Late(s) \cup {n}) = Cardinality(Late(s)) + 1
      BY <2>1, FS_AddElement
    <2>3. CASE e.response > Deadline
      BY <1>6, <2>2, <2>3
    <2>4. CASE ~(e.response > Deadline)
      <3>1. Late(t) = Late(s)
        BY <1>6, <2>4
      <3> QED BY <2>1, <2>4, <3>1
    <2> QED BY <2>3, <2>4
  <1> QED BY <1>1, <1>2, <1>4, <1>5, <1>7 DEF OneMore

LEMMA ListIs ==
    ASSUME NEW l \in Seq(ListItem)
    PROVE  /\ Len(l) \in Nat /\ DOMAIN l = 1..Len(l)
           /\ \A m \in DOMAIN l : l[m] \in ListItem /\ l[m].response_time \in Int /\ l[m].job_count \in Int
  <1>1. Len(l) \in Nat /\ DOMAIN l = 1..Len(l) /\ \A m \in DOMAIN l : l[m] \in ListItem
    OBVIOUS
  <1> QED BY <1>1 DEF ListItem

(* An item that is not there yet goes to where it belongs.                 *)
PutAt(p, l, us, k) ==
    /\ \A m \in 1..k : p[m] = l[m] /\ l[m].response_time < us
    /\ p[k + 1] = Item(us)
    /\ \A m \in (k + 2)..(Len(l) + 1) : p[m] = l[m - 1] /\ l[m - 1].response_time > us

LEMMA PutInOrderIs ==
    ASSUME NEW l \in Seq(ListItem), Sorted(l), NEW us \in Int,
           \A m \in DOMAIN l : l[m].response_time # us
    PROVE  /\ PutInOrder(us, l) \in Seq(ListItem) /\ Len(PutInOrder(us, l)) = Len(l) + 1
           /\ \E k \in 0..Len(l) : PutAt(PutInOrder(us, l), l, us, k)
  <1> DEFINE p == PutInOrder(us, l)
             smaller == {m \in DOMAIN l : l[m].response_time < us}
             k == IF smaller = {} THEN 0 ELSE CHOOSE m \in smaller : \A j \in smaller : j <= m
             a == SubSeq(l, 1, k)
             b == SubSeq(l, k + 1, Len(l))
  <1>0. p = a \o <<Item(us)>> \o b
    BY DEF PutInOrder
  <1> HIDE DEF p
  <1>1. /\ Len(l) \in Nat /\ DOMAIN l = 1..Len(l)
        /\ \A m \in DOMAIN l : l[m] \in ListItem /\ l[m].response_time \in Int
    BY ListIs
  <1>2. /\ k \in 0..Len(l)
        /\ \A m \in 1..k : l[m].response_time < us
        /\ \A m \in (k + 1)..Len(l) : l[m].response_time > us
    <2>1. CASE smaller = {}
      <3>1. k = 0
        BY <2>1
      <3>2. \A m \in DOMAIN l : l[m].response_time > us
        BY <1>1, <2>1
      <3> QED BY <1>1, <3>1, <3>2
    <2>2. CASE smaller # {}
      <3>1. smaller \in SUBSET (1..Len(l))
        BY <1>1
      <3>2. \E m \in smaller : \A j \in smaller : j <= m
        BY <1>1, <2>2, <3>1, GreatestIs
      <3>3. k = CHOOSE m \in smaller : \A j \in smaller : j <= m
        BY <2>2
      <3>4. k \in smaller /\ \A j \in smaller : j <= k
        BY <3>2, <3>3
      <3> HIDE DEF k
      <3>5. k \in 1..Len(l) /\ l[k].response_time < us
        BY <1>1, <3>4
      <3>6. ASSUME NEW m \in 1..k PROVE l[m].response_time < us
        <4>1. m = k \/ l[m].response_time < l[k].response_time
          BY <1>1, <3>5 DEF Sorted
        <4> QED BY <1>1, <3>5, <4>1
      <3>7. ASSUME NEW m \in (k + 1)..Len(l) PROVE l[m].response_time > us
        <4>1. m \in DOMAIN l /\ m \notin smaller
          BY <1>1, <3>4, <3>5
        <4> QED BY <1>1, <4>1
      <3> QED BY <3>5, <3>6, <3>7
    <2> QED BY <2>1, <2>2
  <1> HIDE DEF k
  <1>3. /\ a \in Seq(ListItem) /\ Len(a) = k /\ \A m \in 1..k : a[m] = l[m]
    <2>1. \A m \in 1..k : l[m] \in ListItem
      BY <1>1, <1>2
    <2>2. /\ a \in Seq(ListItem) /\ Len(a) = (IF 1 <= k THEN k - 1 + 1 ELSE 0)
          /\ \A m \in 1..(k - 1 + 1) : a[m] = l[1 + m - 1]
      BY <1>2, <2>1, SubSeqProperties
    <2> QED BY <1>2, <2>2
  <1>4. /\ b \in Seq(ListItem) /\ Len(b) = Len(l) - k /\ \A m \in 1..(Len(l) - k) : b[m] = l[k + m]
    <2>1. \A m \in (k + 1)..Len(l) : l[m] \in ListItem
      BY <1>1, <1>2
    <2>2. /\ b \in Seq(ListItem) /\ Len(b) = (IF k + 1 <= Len(l) THEN Len(l) - (k + 1) + 1 ELSE 0)
          /\ \A m \in 1..(Len(l) - (k + 1) + 1) : b[m] = l[(k + 1) + m - 1]
      BY <1>1, <1>2, <2>1, SubSeqProperties
    <2>3. /\ Len(l) - (k + 1) + 1 = Len(l) - k /\ \A m \in 1..(Len(l) - k) : (k + 1) + m - 1 = k + m
          /\ (IF k + 1 <= Len(l) THEN Len(l) - (k + 1) + 1 ELSE 0) = Len(l) - k
      <3>1. k \in Nat /\ Len(l) \in Nat /\ k <= Len(l)
        BY <1>1, <1>2
      <3> HIDE DEF b
      <3> QED BY <3>1
    <2> HIDE DEF b
    <2> QED BY <2>2, <2>3
  <1>5. Item(us) \in ListItem /\ <<Item(us)>> \in Seq(ListItem) /\ Len(<<Item(us)>>) = 1
    BY DEF Item, ListItem
  <1> HIDE DEF a, b
  <1> DEFINE c == a \o <<Item(us)>>
  <1>6. /\ c \in Seq(ListItem) /\ Len(c) = k + 1 /\ c[k + 1] = Item(us)
        /\ \A m \in 1..k : c[m] = l[m]
    <2>1. /\ c \in Seq(ListItem) /\ Len(c) = k + 1
          /\ \A m \in 1..(k + 1) : c[m] = IF m <= k THEN a[m] ELSE <<Item(us)>>[m - k]
      BY <1>3, <1>5, ConcatProperties
    <2>2. <<Item(us)>>[1] = Item(us) /\ k + 1 - k = 1 /\ k + 1 \in 1..(k + 1) /\ ~(k + 1 <= k)
      BY <1>2
    <2>3. c[k + 1] = Item(us)
      BY <2>1, <2>2
    <2>4. \A m \in 1..k : m \in 1..(k + 1) /\ m <= k
      BY <1>2
    <2>5. \A m \in 1..k : c[m] = l[m]
      BY <1>3, <2>1, <2>4
    <2> QED BY <2>1, <2>3, <2>5
  <1> HIDE DEF c
  <1>7. /\ p \in Seq(ListItem) /\ Len(p) = Len(l) + 1
        /\ \A m \in 1..(Len(l) + 1) : p[m] = IF m <= k + 1 THEN c[m] ELSE b[m - (k + 1)]
    <2>1. p = c \o b
      BY <1>0 DEF c
    <2>2. k + 1 + (Len(l) - k) = Len(l) + 1
      BY <1>1, <1>2
    <2> QED BY <1>4, <1>6, <2>1, <2>2, ConcatProperties
  <1>8. \A m \in 1..k : p[m] = l[m]
    BY <1>1, <1>2, <1>6, <1>7
  <1>9. p[k + 1] = Item(us)
    BY <1>1, <1>2, <1>6, <1>7
  <1>10. ASSUME NEW m \in (k + 2)..(Len(l) + 1)
         PROVE  p[m] = l[m - 1] /\ l[m - 1].response_time > us
    <2>1. m \in 1..(Len(l) + 1) /\ ~(m <= k + 1) /\ m - (k + 1) \in 1..(Len(l) - k) /\ m - 1 \in (k + 1)..Len(l)
          /\ k + (m - (k + 1)) = m - 1
      BY <1>1, <1>2
    <2> QED BY <1>2, <1>4, <1>7, <2>1
  <1>11. PutAt(p, l, us, k)
    BY <1>2, <1>8, <1>9, <1>10 DEF PutAt
  <1> QED BY <1>2, <1>7, <1>11 DEF p

LEMMA InsertKeepsCounts ==
    ASSUME NEW l \in Seq(ListItem), NEW s \in Seq(JobSeen), ListCounts(l, s),
           NEW r \in Responses, NEW memory \in BOOLEAN
    PROVE  LET p == insert_response_time(Max0(r), l, memory)
               e == [response |-> r, kept |-> p # l]
           IN p \in Seq(ListItem) /\ e \in JobSeen /\ ListCounts(p, Append(s, e))
  <1> DEFINE p == insert_response_time(Max0(r), l, memory)
             e == [response |-> r, kept |-> p # l]
             us == RoundToMicrosecond(Max0(r))
             same == {m \in DOMAIN l : l[m].response_time = us}
             n == Len(s) + 1
             t == Append(s, e)
  <1>0. p = insert_response_time(Max0(r), l, memory)
    OBVIOUS
  <1> HIDE DEF p
  <1>1. e \in JobSeen /\ e.response = r /\ e.kept = (p # l)
    BY DEF JobSeen
  <1>2. us \in Nat
    <2>1. Max0(r) \in Nat
      BY StatsReportAssumption DEF Max0
    <2> QED BY <2>1, RoundIsNat
  <1>3. /\ Len(l) \in Nat /\ DOMAIN l = 1..Len(l)
        /\ \A m \in DOMAIN l : l[m] \in ListItem /\ l[m].response_time \in Int /\ l[m].job_count \in Int
    BY ListIs
  <1>4. /\ t \in Seq(JobSeen) /\ DOMAIN t = 1..n /\ t[n] = e /\ \A j \in 1..Len(s) : t[j] = s[j]
        /\ \A u : Cardinality(CountedAs(t, u)) =
              Cardinality(CountedAs(s, u)) + (IF e.kept /\ us = u THEN 1 ELSE 0)
        /\ Counted(t) = Counted(s) \cup (IF e.kept THEN {n} ELSE {})
    <2>1. t = Append(s, e) /\ RoundToMicrosecond(Max0(e.response)) = us
      BY <1>1
    <2> HIDE DEF e, us
    <2>2. OneMore(t, s, e, Len(s) + 1)
      BY <1>1, <2>1, OneMoreSeen, Zenon
    <2>3. OneMore(t, s, e, n)
      BY <2>2 DEF n
    <2> HIDE DEF n
    <2>4. /\ t \in Seq(JobSeen) /\ DOMAIN t = 1..n /\ t[n] = e /\ \A j \in 1..Len(s) : t[j] = s[j]
          /\ \A u : Cardinality(CountedAs(t, u)) =
                Cardinality(CountedAs(s, u))
                + (IF e.kept /\ RoundToMicrosecond(Max0(e.response)) = u THEN 1 ELSE 0)
          /\ Counted(t) = Counted(s) \cup (IF e.kept THEN {n} ELSE {})
      BY <2>3, Zenon DEF OneMore
    <2> QED BY <2>1, <2>4
  <1> HIDE DEF t
  <1>5. /\ Len(s) \in Nat /\ Counted(s) \in SUBSET (1..Len(s))
        /\ \A u : Cardinality(CountedAs(s, u)) \in Nat
    BY SeenIs, CountsAreFinite
  <1>6. /\ Sorted(l)
        /\ \A m \in DOMAIN l : l[m].job_count = Cardinality(CountedAs(s, l[m].response_time))
        /\ \A j \in Counted(s) : \E m \in DOMAIN l :
              l[m].response_time = RoundToMicrosecond(Max0(s[j].response))
    BY DEF ListCounts
  <1>7. ASSUME p # l, \E m \in DOMAIN p : p[m].response_time = us,
               \A k \in DOMAIN l : \E m \in DOMAIN p : p[m].response_time = l[k].response_time,
               NEW j \in Counted(t)
        PROVE  \E m \in DOMAIN p : p[m].response_time = RoundToMicrosecond(Max0(t[j].response))
    <2>1. CASE j = n
      BY <1>1, <1>4, <1>7, <2>1
    <2>2. CASE j # n
      <3>1. j \in Counted(s) /\ t[j] = s[j]
        BY <1>4, <1>5, <1>7, <2>2
      <3>2. PICK k \in DOMAIN l : l[k].response_time = RoundToMicrosecond(Max0(s[j].response))
        BY <1>6, <3>1
      <3>3. PICK m \in DOMAIN p : p[m].response_time = l[k].response_time
        BY <1>7
      <3> QED BY <3>1, <3>2, <3>3
    <2> QED BY <2>1, <2>2
  <1> HIDE DEF e, us, n
  <1>8. ASSUME same # {} PROVE p \in Seq(ListItem) /\ ListCounts(p, t)
    <2>1. p = [m \in DOMAIN l |-> IF m \in same THEN [l[m] EXCEPT !.job_count = @ + 1] ELSE l[m]]
      BY <1>0, <1>8 DEF insert_response_time, us
    <2>2. DOMAIN p = DOMAIN l
      BY <2>1
    <2>3. ASSUME NEW m \in DOMAIN l
          PROVE  /\ p[m] \in ListItem /\ p[m].response_time = l[m].response_time
                 /\ l[m].response_time = us => p[m].job_count = l[m].job_count + 1
                 /\ l[m].response_time # us => p[m].job_count = l[m].job_count
      <3>1. CASE l[m].response_time = us
        <4>1. p[m] = [l[m] EXCEPT !.job_count = @ + 1] /\ l[m] \in ListItem
          BY <1>3, <2>1, <3>1
        <4>2. l[m].job_count + 1 \in Int /\ l[m].response_time \in Int
          BY <1>3
        <4>3. p[m].response_time = l[m].response_time /\ p[m].job_count = l[m].job_count + 1
          BY <4>1 DEF ListItem
        <4>4. p[m] \in ListItem
          BY <4>1, <4>2 DEF ListItem
        <4> QED BY <3>1, <4>3, <4>4
      <3>2. CASE l[m].response_time # us
        BY <1>3, <2>1, <3>2
      <3> QED BY <3>1, <3>2
    <2>4. p \in Seq(ListItem)
      <3>1. p = [m \in 1..Len(l) |-> p[m]]
        BY <1>3, <2>1
      <3>2. \A m \in 1..Len(l) : p[m] \in ListItem
        BY <1>3, <2>3
      <3> QED BY <1>3, <3>1, <3>2, IsASeq
    <2>5. PICK k \in DOMAIN l : l[k].response_time = us
      BY <1>8
    <2>6. p # l
      <3>1. p[k].job_count = l[k].job_count + 1 /\ l[k].job_count \in Int
        BY <1>3, <2>3, <2>5
      <3> QED BY <3>1
    <2>7. Sorted(p)
      BY <1>6, <2>2, <2>3 DEF Sorted
    <2>8. ASSUME NEW m \in DOMAIN p
          PROVE  p[m].job_count = Cardinality(CountedAs(t, p[m].response_time))
      <3>1. /\ l[m].job_count = Cardinality(CountedAs(s, l[m].response_time))
            /\ p[m].response_time = l[m].response_time
            /\ Cardinality(CountedAs(t, l[m].response_time)) =
                  Cardinality(CountedAs(s, l[m].response_time)) + (IF us = l[m].response_time THEN 1 ELSE 0)
            /\ Cardinality(CountedAs(s, l[m].response_time)) \in Nat
        BY <1>1, <1>4, <1>5, <1>6, <2>2, <2>3, <2>6
      <3>2. CASE l[m].response_time = us
        BY <2>2, <2>3, <3>1, <3>2
      <3>3. CASE l[m].response_time # us
        BY <2>2, <2>3, <3>1, <3>3
      <3> QED BY <3>2, <3>3
    <2>9. \A j \in Counted(t) : \E m \in DOMAIN p :
              p[m].response_time = RoundToMicrosecond(Max0(t[j].response))
      BY <1>7, <2>2, <2>3, <2>5, <2>6
    <2> QED BY <2>4, <2>7, <2>8, <2>9 DEF ListCounts
  <1>9. ASSUME same = {}, memory PROVE p \in Seq(ListItem) /\ ListCounts(p, t)
    <2>1. p = PutInOrder(us, l) /\ \A m \in DOMAIN l : l[m].response_time # us
      BY <1>0, <1>9 DEF insert_response_time, us
    <2>12. us \in Int
      BY <1>2
    <2>2. p \in Seq(ListItem) /\ Len(p) = Len(l) + 1
      BY <1>6, <2>1, <2>12, PutInOrderIs
    <2>13. PICK k \in 0..Len(l) : PutAt(p, l, us, k)
      BY <1>6, <2>1, <2>12, PutInOrderIs, Zenon
    <2>3. /\ \A m \in 1..k : p[m] = l[m] /\ l[m].response_time < us
          /\ p[k + 1] = Item(us)
          /\ \A m \in (k + 2)..(Len(l) + 1) : p[m] = l[m - 1] /\ l[m - 1].response_time > us
      BY <2>13 DEF PutAt
    <2>4. DOMAIN p = 1..(Len(l) + 1) /\ p # l
      BY <1>3, <2>2, ListIs
    <2>5. p[k + 1].response_time = us /\ p[k + 1].job_count = 1 /\ k + 1 \in DOMAIN p
      BY <1>3, <2>3, <2>4 DEF Item
    <2>6. ASSUME NEW m \in DOMAIN p
          PROVE  \/ m \in 1..k /\ m \in DOMAIN l
                 \/ m = k + 1
                 \/ m \in (k + 2)..(Len(l) + 1) /\ m - 1 \in DOMAIN l
      BY <1>3, <2>4
    <2>7. Sorted(p)
      <3> SUFFICES ASSUME NEW a \in DOMAIN p, NEW b \in DOMAIN p, a < b
                   PROVE  p[a].response_time < p[b].response_time
        BY DEF Sorted
      <3>0. a \in Nat /\ b \in Nat
        BY <1>3, <2>4
      <3>1. CASE a \in 1..k /\ b \in 1..k
        BY <1>3, <1>6, <2>3, <2>6, <3>1 DEF Sorted
      <3>2. CASE a \in 1..k /\ b = k + 1
        BY <2>3, <2>5, <3>2
      <3>3. CASE a \in 1..k /\ b \in (k + 2)..(Len(l) + 1)
        <4>1. /\ p[a] = l[a] /\ p[b] = l[b - 1] /\ l[a].response_time < us /\ l[b - 1].response_time > us
              /\ l[a].response_time \in Int /\ l[b - 1].response_time \in Int
          BY <1>3, <2>3, <3>3
        <4> QED BY <1>2, <4>1
      <3>4. CASE a = k + 1 /\ b \in (k + 2)..(Len(l) + 1)
        <4>1. p[b] = l[b - 1] /\ l[b - 1].response_time > us /\ l[b - 1].response_time \in Int
          BY <1>3, <2>3, <3>4
        <4> QED BY <1>2, <2>5, <3>4, <4>1
      <3>5. CASE a \in (k + 2)..(Len(l) + 1) /\ b \in (k + 2)..(Len(l) + 1)
        <4>1. p[a] = l[a - 1] /\ p[b] = l[b - 1]
          BY <2>3, <3>5
        <4>2. a - 1 \in DOMAIN l /\ b - 1 \in DOMAIN l /\ a - 1 < b - 1
          BY <1>3, <3>0, <3>5
        <4> QED BY <1>6, <4>1, <4>2 DEF Sorted
      <3> QED BY <2>6, <3>0, <3>1, <3>2, <3>3, <3>4, <3>5
    <2>8. Cardinality(CountedAs(s, us)) = 0
      <3>1. CountedAs(s, us) = {}
        <4> SUFFICES ASSUME NEW j \in CountedAs(s, us) PROVE FALSE
          OBVIOUS
        <4>1. j \in Counted(s) /\ RoundToMicrosecond(Max0(s[j].response)) = us
          BY DEF CountedAs, Counted
        <4> QED BY <1>6, <2>1, <4>1
      <3> QED BY <3>1, FS_EmptySet
    <2>9. ASSUME NEW m \in DOMAIN p, m # k + 1
          PROVE  p[m].job_count = Cardinality(CountedAs(t, p[m].response_time))
      <3>1. PICK x \in DOMAIN l : p[m] = l[x]
        BY <2>3, <2>6, <2>9
      <3>2. /\ l[x].job_count = Cardinality(CountedAs(s, l[x].response_time))
            /\ us # l[x].response_time /\ Cardinality(CountedAs(s, l[x].response_time)) \in Nat
            /\ Cardinality(CountedAs(t, l[x].response_time)) =
                  Cardinality(CountedAs(s, l[x].response_time)) + (IF e.kept /\ us = l[x].response_time THEN 1 ELSE 0)
        BY <1>4, <1>5, <1>6, <2>1
      <3> QED BY <3>1, <3>2
    <2>10. p[k + 1].job_count = Cardinality(CountedAs(t, p[k + 1].response_time))
      <3>1. e.kept
        BY <1>1, <2>4
      <3>2. Cardinality(CountedAs(t, us)) = Cardinality(CountedAs(s, us)) + 1
        BY <1>4, <3>1
      <3> QED BY <2>5, <2>8, <3>2
    <2>11. \A j \in Counted(t) : \E m \in DOMAIN p :
              p[m].response_time = RoundToMicrosecond(Max0(t[j].response))
      <3>1. ASSUME NEW x \in DOMAIN l PROVE \E m \in DOMAIN p : p[m].response_time = l[x].response_time
        <4>1. CASE x \in 1..k
          BY <1>3, <2>3, <2>4, <4>1
        <4>2. CASE x \notin 1..k
          <5>1. x + 1 \in (k + 2)..(Len(l) + 1) /\ x + 1 \in DOMAIN p /\ x + 1 - 1 = x
            BY <1>3, <2>4, <4>2
          <5>2. p[x + 1] = l[x + 1 - 1]
            BY <2>3, <5>1
          <5> QED BY <5>1, <5>2
        <4> QED BY <4>1, <4>2
      <3> QED BY <1>7, <2>4, <2>5, <3>1
    <2> QED BY <2>2, <2>7, <2>9, <2>10, <2>11 DEF ListCounts
  <1>10. ASSUME same = {}, ~memory PROVE p \in Seq(ListItem) /\ ListCounts(p, t)
    <2>1. p = l
      BY <1>0, <1>10 DEF insert_response_time, us
    <2>2. ~e.kept
      BY <1>1, <2>1
    <2>3. Counted(t) = Counted(s) /\ \A j \in Counted(s) : t[j] = s[j]
      BY <1>4, <1>5, <2>2
    <2>4. \A m \in DOMAIN l : Cardinality(CountedAs(t, l[m].response_time)) =
                                 Cardinality(CountedAs(s, l[m].response_time))
      BY <1>4, <1>5, <2>2
    <2> QED BY <1>6, <2>1, <2>3, <2>4 DEF ListCounts
  <1> QED BY <1>1, <1>8, <1>9, <1>10 DEF e, p, t

(* The distribution ends with the number of jobs in the list.              *)
LEMMA CumulatedIs ==
    ASSUME NEW l \in Seq(ListItem), NEW s \in Seq(JobSeen), ListCounts(l, s)
    PROVE  Cumulated(l)[Len(l)] = Cardinality(Counted(s))
  <1> DEFINE UpTo(k) == {j \in Counted(s) : \E m \in 1..k :
                            l[m].response_time = RoundToMicrosecond(Max0(s[j].response))}
             g == [k \in 0..Len(l) |-> Cardinality(UpTo(k))]
             Sum(f) == [k \in 0..Len(l) |-> IF k = 0 THEN 0 ELSE f[k - 1] + l[k].job_count]
             c == Cumulated(l)
  <1>1. /\ Len(l) \in Nat /\ DOMAIN l = 1..Len(l)
        /\ \A m \in DOMAIN l : l[m].response_time \in Int
        /\ Sorted(l) /\ \A m \in DOMAIN l : l[m].job_count = Cardinality(CountedAs(s, l[m].response_time))
        /\ \A j \in Counted(s) : \E m \in DOMAIN l :
              l[m].response_time = RoundToMicrosecond(Max0(s[j].response))
    BY ListIs DEF ListCounts
  <1>2. \A k : IsFiniteSet(UpTo(k)) /\ Cardinality(UpTo(k)) \in Nat
    <2>1. IsFiniteSet(Counted(s)) /\ \A k : UpTo(k) \in SUBSET Counted(s)
      BY CountsAreFinite
    <2> QED BY <2>1, FS_Subset, FS_CardinalityType
  <1>3. g[0] = 0
    <2>1. UpTo(0) = {}
      OBVIOUS
    <2>2. Cardinality(UpTo(0)) = 0
      BY <2>1, FS_EmptySet
    <2>3. 0 \in 0..Len(l)
      BY <1>1
    <2> QED BY <2>2, <2>3
  <1>4. ASSUME NEW k \in 1..Len(l) PROVE g[k] = g[k - 1] + l[k].job_count
    <2> DEFINE A == UpTo(k - 1)
               B == CountedAs(s, l[k].response_time)
    <2>1. UpTo(k) = A \cup B
      <3>1. 1..k = (1..(k - 1)) \cup {k}
        BY <1>1
      <3> QED BY <3>1 DEF CountedAs, Counted
    <2>2. A \cap B = {}
      <3> SUFFICES ASSUME NEW j \in A, j \in B PROVE FALSE
        OBVIOUS
      <3>1. PICK m \in 1..(k - 1) : l[m].response_time = RoundToMicrosecond(Max0(s[j].response))
        OBVIOUS
      <3>2. l[k].response_time = RoundToMicrosecond(Max0(s[j].response))
        BY DEF CountedAs
      <3>3. m \in DOMAIN l /\ k \in DOMAIN l /\ m < k
        BY <1>1
      <3>4. l[m].response_time < l[k].response_time
        BY <1>1, <3>3 DEF Sorted
      <3> QED BY <1>1, <3>1, <3>2, <3>3, <3>4
    <2>3. IsFiniteSet(A) /\ IsFiniteSet(B) /\ Cardinality(A) \in Nat /\ Cardinality(B) \in Nat
      BY <1>2, CountsAreFinite
    <2> HIDE DEF A, B, UpTo
    <2>4. Cardinality(A \cup B) = Cardinality(A) + Cardinality(B) - Cardinality(A \cap B)
      BY <2>3, FS_Union
    <2>5. Cardinality(A \cap B) = 0
      BY <2>2, FS_EmptySet
    <2>6. Cardinality(UpTo(k)) = Cardinality(A) + Cardinality(B)
      BY <2>1, <2>3, <2>4, <2>5
    <2>7. g[k] = Cardinality(UpTo(k)) /\ g[k - 1] = Cardinality(A)
      BY <1>1 DEF A
    <2>8. l[k].job_count = Cardinality(B)
      BY <1>1 DEF B
    <2> QED BY <2>6, <2>7, <2>8
  <1>5. g = Sum(g)
    <2> HIDE DEF UpTo
    <2>1. \A k \in 0..Len(l) : g[k] = IF k = 0 THEN 0 ELSE g[k - 1] + l[k].job_count
      <3> SUFFICES ASSUME NEW k \in 0..Len(l) PROVE g[k] = IF k = 0 THEN 0 ELSE g[k - 1] + l[k].job_count
        OBVIOUS
      <3>1. CASE k = 0
        BY <1>3, <3>1
      <3>2. CASE k # 0
        <4>1. k \in 1..Len(l)
          BY <1>1, <3>2
        <4> HIDE DEF g
        <4> QED BY <1>4, <3>2, <4>1
      <3> QED BY <3>1, <3>2
    <2>2. DOMAIN g = 0..Len(l) /\ g = [k \in 0..Len(l) |-> g[k]]
      OBVIOUS
    <2> HIDE DEF g
    <2> QED BY <2>1, <2>2
  <1> HIDE DEF g, UpTo
  <1>6. c = Sum(c)
    <2>1. c = CHOOSE f : f = Sum(f)
      BY DEF Cumulated
    <2> HIDE DEF c, Sum
    <2> QED BY <1>5, <2>1
  <1>7. \A k \in 0..Len(l) : c[k] = IF k = 0 THEN 0 ELSE c[k - 1] + l[k].job_count
    <2> HIDE DEF c
    <2> QED BY <1>6
  <1> HIDE DEF c
  <1>8. ASSUME NEW x \in 0..Len(l), c[x] # g[x]
        PROVE  FALSE
    <2> DEFINE Wrong == {k \in 0..Len(l) : c[k] # g[k]}
    <2>1. Wrong \in SUBSET Nat /\ Wrong # {}
      BY <1>1, <1>8
    <2>2. PICK m \in Wrong : \A k \in Wrong : m <= k
      BY <2>1, LeastIs
    <2>3. m \in 0..Len(l) /\ c[m] # g[m] /\ \A k \in 0..Len(l) : c[k] # g[k] => m <= k
      BY <2>2
    <2>4. CASE m = 0
      BY <1>1, <1>3, <1>7, <2>3, <2>4
    <2>5. CASE m # 0
      <3>1. m \in 1..Len(l) /\ m - 1 \in 0..Len(l) /\ ~(m <= m - 1)
        BY <1>1, <2>3, <2>5
      <3>2. c[m - 1] = g[m - 1]
        BY <2>3, <3>1
      <3> QED BY <1>4, <1>7, <2>3, <2>5, <3>1, <3>2
    <2> QED BY <2>4, <2>5
  <1>9. UpTo(Len(l)) = Counted(s)
    BY <1>1 DEF UpTo
  <1>10. c[Len(l)] = g[Len(l)] /\ g[Len(l)] = Cardinality(UpTo(Len(l)))
    BY <1>1, <1>8 DEF g
  <1> QED BY <1>9, <1>10 DEF c

-----------------------------------------------------------------------------
(* The report.                                                             *)

(* A step of the report is one of the reader, or leaves it alone.          *)
LEMMA ReportStepReads == [ReportNext]_allVars => [ReadNext]_readVars
  <1> SUFFICES ASSUME [ReportNext]_allVars PROVE ReadNext \/ UNCHANGED readVars
    OBVIOUS
  <1>1. CASE UNCHANGED allVars
    BY <1>1 DEF allVars
  <1>2. CASE ReadOnce
    BY <1>2 DEF ReadOnce, ReadNext
  <1>3. CASE PrintTaskStats \/ PrintGarbage
        \/ \E r \in Responses, memory \in BOOLEAN : PrintJobStats(r, memory)
    BY <1>3 DEF PrintTaskStats, PrintGarbage, PrintJobStats, ReadNext
  <1>4. CASE FinishReport
    BY <1>4 DEF FinishReport
  <1>5. CASE Another
    BY <1>5 DEF Another
  <1> QED BY <1>1, <1>2, <1>3, <1>4, <1>5 DEF ReportNext, Report

LEMMA ReportInitInv == ReportInit => ReportInv
  <1> SUFFICES ASSUME ReportInit PROVE ReportInv
    OBVIOUS
  <1>1. /\ seen = <<>> /\ printed = <<>> /\ prms.response_times = <<>> /\ prms.state = "reading"
        /\ prms.total_job_count = 0 /\ prms.late_count = 0
        /\ Len(<<>>) = 0 /\ DOMAIN <<>> = {} /\ <<>> \in Seq(ListItem) /\ <<>> \in Seq(JobSeen)
        /\ section = "idle"
    BY DEF ReportInit, ReadInit
  <1>2. ReportType
    BY <1>1 DEF ReportInit, ReportType
  <1>3. ReportProgress
    BY <1>1 DEF ReportProgress
  <1>4. Totals
    <2>1. Late(seen) = {} /\ Counted(seen) = {}
      BY <1>1 DEF Late, Counted
    <2> QED BY <1>1, <2>1, FS_EmptySet DEF Totals, ListCounts, Sorted
  <1>5. Printed
    BY <1>1 DEF Printed
  <1> QED BY <1>2, <1>3, <1>4, <1>5 DEF ReportInv

(* What is said about a job is right when its number is.                   *)
LEMMA LineIsTrue ==
    ASSUME NEW r \in Int, NEW R \in Nat
    PROVE  /\ Sub(Max0(R + r), R) = Max0(r)
           /\ (Max0(R + r) > R + Deadline) = (r > Deadline)
  BY StatsReportAssumption DEF Sub, Max0

LEMMA ReleaseIsNat ==
    ASSUME ReportType, NEW n \in Nat \ {0}
    PROVE  ReleaseOf(n) \in Nat
  <1>1. tau.period \in Nat /\ n - 1 \in Nat /\ Offset \in Nat
    <2>1. tau.period \in Periods /\ Periods \subseteq Nat
      BY StatsReportAssumption DEF ReportType
    <2>2. Offset \in Nat
      BY StatsReportAssumption
    <2>3. n - 1 \in Nat
      OBVIOUS
    <2> QED BY <2>1, <2>2, <2>3
  <1>2. tau.period * (n - 1) \in Nat
    BY <1>1
  <1> QED BY <1>1, <1>2 DEF ReleaseOf

LEMMA ReportUnchanged ==
    ASSUME ReportInv, UNCHANGED <<user, cdf_fmt, tau, prms, printed, seen>>
    PROVE  ReportType' /\ Totals' /\ Printed'
  <1> USE DEF ReportInv
  <1>1. ReportType'
    BY DEF ReportType
  <1>2. Totals'
    BY DEF Totals, ListCounts, Sorted, CountedAs, Counted, Late
  <1>3. Printed'
    BY DEF Printed, LineOf
  <1> QED BY <1>1, <1>2, <1>3

LEMMA PrintJobStatsKeeps ==
    ASSUME ReadInv, ReportInv, Reporting, NEW r \in Responses, NEW memory \in BOOLEAN,
           PrintJobStats(r, memory)
    PROVE  ReportInv'
  <1> DEFINE l == prms.response_times
             p == insert_response_time(Max0(r), l, memory)
             e == [response |-> r, kept |-> p # l]
             n == prms.nth_job
  <1>1. /\ section = "job_fn" /\ ~garbage /\ section' = "jobs" /\ garbage' = garbage
        /\ delivered' = delivered /\ UNCHANGED <<user, cdf_fmt, tau>>
        /\ seen \in Seq(JobSeen) /\ l \in Seq(ListItem) /\ n \in Nat
        /\ Len(seen) \in Nat /\ r \in Int
    BY SeenIs, StatsReportAssumption DEF PrintJobStats, JobStatisticsFn, ReportInv, ReportType
  <1>2. /\ n = tau.oldest_job_pos + Len(seen) /\ Len(seen) = Len(delivered) - 1
        /\ ListCounts(l, seen) /\ prms.total_job_count = Len(seen)
        /\ prms.late_count = Cardinality(Late(seen)) /\ prms.state = "reading"
    BY <1>1 DEF ReportInv, ReportProgress, Totals
  <1>3. TrueNumber = n /\ n \in Nat \ {0}
    <2>1. delivered[Len(delivered)] = Len(delivered) /\ Len(delivered) \in Nat
      <3>1. Len(delivered) \in Nat /\ Len(delivered) \in 1..Len(delivered)
        BY <1>1, <1>2 DEF ReadInv, ReadTypeOK
      <3> QED BY <3>1 DEF ReadInv, DeliveredInOrder
    <2>2. tau.oldest_job_pos \in Nat \ {0}
      BY StatsReportAssumption DEF ReportInv, ReportType
    <2> QED BY <1>1, <1>2, <2>1, <2>2 DEF TrueNumber
  <1>4. ReleaseOf(n) \in Nat
    BY <1>3, ReleaseIsNat DEF ReportInv
  <1>5. /\ Sub(Max0(ReleaseOf(n) + r), ReleaseOf(n)) = Max0(r)
        /\ (Max0(ReleaseOf(n) + r) > ReleaseOf(n) + Deadline) = (r > Deadline)
    BY <1>1, <1>4, LineIsTrue
  <1>6. /\ prms' = [prms EXCEPT !.nth_job = @ + 1, !.total_job_count = @ + 1,
                                !.late_count = IF r > Deadline THEN @ + 1 ELSE @,
                                !.response_times = p]
        /\ printed' = IF cdf_fmt = "NO_CDF"
                      THEN Append(printed, [job |-> n, response |-> Max0(r), late |-> r > Deadline])
                      ELSE printed
        /\ seen' = Append(seen, e)
    <2> DEFINE response == Sub(Max0(ReleaseOf(n) + r), ReleaseOf(n))
               is_late  == Max0(ReleaseOf(n) + r) > ReleaseOf(n) + Deadline
    <2>1. ReleaseOf(TrueNumber) = ReleaseOf(n)
      BY <1>3
    <2>2. /\ prms' = [prms EXCEPT !.nth_job = @ + 1, !.total_job_count = @ + 1,
                                  !.late_count = IF is_late THEN @ + 1 ELSE @,
                                  !.response_times = insert_response_time(response, l, memory)]
          /\ printed' = IF cdf_fmt = "NO_CDF"
                        THEN Append(printed, [job |-> n, response |-> response, late |-> is_late])
                        ELSE printed
          /\ seen' = Append(seen, [response |-> r,
                                   kept |-> insert_response_time(response, l, memory) # l])
      BY <2>1 DEF PrintJobStats
    <2>3. response = Max0(r) /\ is_late = (r > Deadline)
      BY <1>5
    <2> HIDE DEF response, is_late, n, l
    <2> QED BY <2>2, <2>3
  <1> HIDE DEF n
  <1>7. p \in Seq(ListItem) /\ e \in JobSeen /\ ListCounts(p, seen')
    BY <1>1, <1>2, <1>6, InsertKeepsCounts
  <1>8. OneMore(seen', seen, e, Len(seen) + 1)
    BY <1>1, <1>6, <1>7, OneMoreSeen
  <1> HIDE DEF l, p
  <1>9. /\ seen' \in Seq(JobSeen) /\ Len(seen') = Len(seen) + 1 /\ DOMAIN seen' = 1..(Len(seen) + 1)
        /\ seen'[Len(seen) + 1] = e /\ \A j \in 1..Len(seen) : seen'[j] = seen[j]
        /\ Cardinality(Late(seen')) = Cardinality(Late(seen)) + (IF r > Deadline THEN 1 ELSE 0)
        /\ Cardinality(Late(seen)) \in Nat
    BY <1>1, <1>8, CountsAreFinite DEF OneMore
  <1>10. /\ prms'.nth_job = n + 1 /\ prms'.total_job_count = Len(seen) + 1
         /\ prms'.late_count = Cardinality(Late(seen'))
         /\ prms'.response_times = p /\ prms'.state = "reading"
         /\ prms' \in [state : {"reading", "success", "failure"}, nth_job : Nat, total_job_count : Nat,
                       late_count : Nat, response_times : Seq(ListItem)]
    <2>1. prms \in [state : {"reading", "success", "failure"}, nth_job : Nat, total_job_count : Nat,
                    late_count : Nat, response_times : Seq(ListItem)]
      BY DEF ReportInv, ReportType
    <2>2. n = prms.nth_job
      BY DEF n
    <2> DEFINE late == IF r > Deadline THEN prms.late_count + 1 ELSE prms.late_count
    <2>3. late = Cardinality(Late(seen')) /\ late \in Nat
      BY <1>2, <1>9
    <2>4. prms' = [prms EXCEPT !.nth_job = n + 1, !.total_job_count = Len(seen) + 1,
                               !.late_count = late, !.response_times = p]
      BY <1>2, <1>6, <2>2
    <2> HIDE DEF late
    <2>5. n + 1 \in Nat /\ Len(seen) + 1 \in Nat
      BY <1>1, <1>3
    <2>6. prms.state = "reading" /\ p \in Seq(ListItem)
      BY <1>2, <1>7
    <2> QED BY <2>1, <2>3, <2>4, <2>5, <2>6
  <1>11. ReportType'
    BY <1>1, <1>9, <1>10 DEF ReportInv, ReportType
  <1>12. ReportProgress'
    <2>1. tau.oldest_job_pos \in Nat /\ Len(delivered) \in Nat
      <3>1. tau.oldest_job_pos \in Oldest /\ Oldest \subseteq Nat
        BY StatsReportAssumption DEF ReportInv, ReportType
      <3>2. Len(delivered) \in Nat
        BY DEF ReadInv, ReadTypeOK
      <3> QED BY <3>1, <3>2
    <2>2. /\ prms'.nth_job = n + 1 /\ n = tau.oldest_job_pos + Len(seen) /\ tau' = tau
          /\ Len(seen') = Len(seen) + 1 /\ Len(seen) = Len(delivered) - 1 /\ delivered' = delivered
      BY <1>1, <1>2, <1>9, <1>10, Zenon
    <2>3. /\ prms'.nth_job = tau'.oldest_job_pos + Len(seen')
          /\ Len(seen') = Len(delivered')
      BY <1>1, <2>1, <2>2
    <2>4. section' = "jobs" /\ prms'.state = "reading" /\ Reporting'
      BY <1>1, <1>10 DEF Reporting
    <2> QED BY <2>3, <2>4 DEF ReportProgress
  <1>13. Totals'
    <2>1. Late(seen)' = Late(seen') /\ ListCounts(prms.response_times, seen)' <=> ListCounts(p, seen')
      BY <1>10 DEF Late, ListCounts, Sorted, CountedAs, Counted
    <2> QED BY <1>7, <1>9, <1>10, <2>1 DEF Totals
  <1>14. Printed'
    <2>1. CASE cdf_fmt = "NO_CDF"
      <3> DEFINE line == [job |-> n, response |-> Max0(r), late |-> r > Deadline]
      <3>1. /\ Len(printed) = Len(seen) /\ DOMAIN printed = 1..Len(seen)
            /\ \A j \in 1..Len(seen) : printed[j] = LineOf(tau.oldest_job_pos, seen, j)
        BY <1>1, <2>1, SeenIs DEF ReportInv, Printed
      <3>2. printed' = Append(printed, line)
        BY <1>6, <2>1
      <3>3. /\ Len(printed') = Len(seen) + 1 /\ DOMAIN printed' = 1..(Len(seen) + 1)
            /\ printed'[Len(seen) + 1] = line /\ \A j \in 1..Len(seen) : printed'[j] = printed[j]
        <4> HIDE DEF line
        <4> QED BY <1>1, <3>1, <3>2
      <3>4. line = LineOf(tau'.oldest_job_pos, seen', Len(seen) + 1)
        <4>1. tau.oldest_job_pos \in Nat
          BY StatsReportAssumption DEF ReportInv, ReportType
        <4>2. n = tau'.oldest_job_pos + (Len(seen) + 1) - 1 /\ seen'[Len(seen) + 1].response = r
          BY <1>1, <1>2, <1>9, <4>1
        <4> QED BY <4>2 DEF LineOf
      <3> HIDE DEF line
      <3>5. \A j \in 1..Len(seen) : LineOf(tau.oldest_job_pos, seen, j)' = LineOf(tau.oldest_job_pos, seen, j)
        BY <1>1, <1>9 DEF LineOf
      <3>6. \A j \in DOMAIN seen' : printed'[j] = LineOf(tau.oldest_job_pos, seen, j)'
        <4> SUFFICES ASSUME NEW j \in 1..(Len(seen) + 1) PROVE printed'[j] = LineOf(tau.oldest_job_pos, seen, j)'
          BY <1>9
        <4>1. CASE j \in 1..Len(seen)
          BY <3>1, <3>3, <3>5, <4>1
        <4>2. CASE j = Len(seen) + 1
          BY <3>3, <3>4, <4>2
        <4> QED BY <1>1, <4>1, <4>2
      <3> QED BY <1>1, <1>9, <2>1, <3>3, <3>6 DEF Printed
    <2>2. CASE cdf_fmt # "NO_CDF"
      BY <1>1, <1>2, <1>6, <1>10, <2>2 DEF ReportInv, Printed
    <2> QED BY <2>1, <2>2
  <1> QED BY <1>11, <1>12, <1>13, <1>14 DEF ReportInv

LEMMA FinishReportKeeps ==
    ASSUME ReadInv, ReportInv, Reporting, FinishReport
    PROVE  ReportInv'
  <1>1. /\ section = "done" /\ section' = "done" /\ prms.state = "reading"
        /\ UNCHANGED <<garbage, delivered, user, cdf_fmt, tau, seen>>
        /\ prms' = [prms EXCEPT !.state = IF exit_code = 0 THEN "success" ELSE "failure"]
        /\ printed' = IF exit_code = 0 /\ cdf_fmt # "NO_CDF" /\ prms.total_job_count > 0
                      THEN Cdf(prms.response_times) ELSE printed
    BY DEF FinishReport, readVars
  <1>2. prms \in [state : {"reading", "success", "failure"}, nth_job : Nat, total_job_count : Nat,
                  late_count : Nat, response_times : Seq(ListItem)]
    BY DEF ReportInv, ReportType
  <1>3. /\ prms'.response_times = prms.response_times /\ prms'.total_job_count = prms.total_job_count
        /\ prms'.late_count = prms.late_count /\ prms'.nth_job = prms.nth_job
        /\ prms'.state = IF exit_code = 0 THEN "success" ELSE "failure"
        /\ prms' \in [state : {"reading", "success", "failure"}, nth_job : Nat, total_job_count : Nat,
                      late_count : Nat, response_times : Seq(ListItem)]
    BY <1>1, <1>2
  <1>4. ReportType' /\ ReportProgress'
    BY <1>1, <1>3 DEF ReportInv, ReportType, ReportProgress, Reporting
  <1>5. Totals'
    BY <1>1, <1>3 DEF ReportInv, Totals, ListCounts, Sorted, CountedAs, Counted, Late
  <1>6. Printed'
    <2>1. CASE cdf_fmt = "NO_CDF"
      BY <1>1, <2>1 DEF ReportInv, Printed, LineOf
    <2>2. CASE cdf_fmt # "NO_CDF"
      <3>1. printed = <<>> /\ prms.total_job_count = Len(seen)
        BY <1>1, <2>2 DEF ReportInv, Printed, Totals
      <3>2. seen # <<>> => Len(seen) > 0
        BY DEF ReportInv, ReportType
      <3>3. Cdf(prms.response_times)' = Cdf(prms.response_times)
        BY <1>3 DEF Cdf, Cumulated
      <3> QED BY <1>1, <1>3, <2>2, <3>1, <3>2, <3>3 DEF Printed
    <2> QED BY <2>1, <2>2
  <1> QED BY <1>4, <1>5, <1>6 DEF ReportInv

LEMMA ReportNextInv == ReadInv /\ ReportInv /\ [ReportNext]_allVars => ReportInv'
  <1> SUFFICES ASSUME ReadInv, ReportInv, [ReportNext]_allVars PROVE ReportInv'
    OBVIOUS
  <1>1. CASE UNCHANGED allVars
    <2>1. UNCHANGED <<user, cdf_fmt, tau, prms, printed, seen, section, garbage, delivered>>
      BY <1>1 DEF allVars, readVars, reportVars
    <2>2. ReportProgress'
      BY <2>1 DEF ReportInv, ReportProgress, Reporting
    <2> QED BY <2>1, <2>2, ReportUnchanged DEF ReportInv
  <1>2. CASE Reporting /\ ReadOnce
    <2>1. UNCHANGED <<user, cdf_fmt, tau, prms, printed, seen>>
      BY <1>2 DEF ReadOnce, reportVars
    <2>2. ReportProgress'
      <3>1. CASE section = "idle" /\ Enter
        <4>1. section' = "task_stats"
          BY <3>1 DEF Enter, ReadInv, StreamKept
        <4> QED BY <2>1, <3>1, <4>1 DEF ReportInv, ReportProgress, Reporting
      <3>2. CASE ReadTaskStats \/ ReadRingbufParams \/ \E memory \in BOOLEAN : ReadName(memory)
        <4>1. /\ section \in {"task_stats", "params", "name"}
              /\ section' \in {"name", "params", "task_fn", "done"}
          BY <3>2 DEF ReadTaskStats, ReadRingbufParams, ReadName, Out
        <4> QED BY <2>1, <4>1 DEF ReportInv, ReportProgress, Reporting
      <3>3. CASE ReadJob
        <4>1. section = "jobs" /\ section' \in {"job_fn", "done"}
          BY <3>3 DEF ReadJob, Out
        <4>2. ~garbage' => ~garbage /\ (section' = "job_fn" => Len(delivered') = Len(delivered) + 1)
          <5>1. delivered \in Seq(1..MaxUnits) /\ garbage \in BOOLEAN
            BY DEF ReadInv, ReadTypeOK
          <5>2. ASSUME section' = "job_fn", ~garbage'
                PROVE  ~garbage /\ delivered' = Append(delivered, pos' - Header)
            BY <3>3, <5>1, <5>2 DEF ReadJob, Out
          <5>3. \A d : Len(Append(delivered, d)) = Len(delivered) + 1
            BY <5>1
          <5>4. ~garbage' => ~garbage
            BY <3>3, <5>1 DEF ReadJob, Out
          <5> QED BY <5>2, <5>3, <5>4
        <4>3. Len(delivered) \in Nat
          BY DEF ReadInv, ReadTypeOK
        <4> QED BY <2>1, <4>1, <4>2, <4>3 DEF ReportInv, ReportProgress, Reporting
      <3> QED BY <1>2, <3>1, <3>2, <3>3 DEF ReadOnce
    <2> QED BY <2>1, <2>2, ReportUnchanged DEF ReportInv
  <1>3. CASE Reporting /\ PrintTaskStats
    <2>1. /\ section = "task_fn" /\ section' \in {"jobs", "done"}
          /\ UNCHANGED <<delivered, garbage, user, cdf_fmt, tau, printed, seen>>
          /\ prms' = [prms EXCEPT !.nth_job = tau.oldest_job_pos]
      BY <1>3 DEF PrintTaskStats, TaskStatisticsFn, Out
    <2>2. tau.oldest_job_pos \in Nat
      BY StatsReportAssumption DEF ReportInv, ReportType
    <2>3. prms \in [state : {"reading", "success", "failure"}, nth_job : Nat, total_job_count : Nat,
                    late_count : Nat, response_times : Seq(ListItem)]
      BY DEF ReportInv, ReportType
    <2>4. /\ prms'.response_times = prms.response_times /\ prms'.total_job_count = prms.total_job_count
          /\ prms'.late_count = prms.late_count /\ prms'.nth_job = tau.oldest_job_pos
          /\ prms'.state = prms.state
          /\ prms' \in [state : {"reading", "success", "failure"}, nth_job : Nat, total_job_count : Nat,
                        late_count : Nat, response_times : Seq(ListItem)]
      BY <2>1, <2>2, <2>3
    <2>5. ReportType'
      BY <2>1, <2>4 DEF ReportInv, ReportType
    <2>6. ReportProgress'
      <3>1. /\ seen = <<>> /\ Len(seen) = 0 /\ delivered = <<>> /\ Len(delivered) = 0
            /\ printed = <<>> /\ prms.state = "reading"
        BY <1>3, <2>1 DEF ReportInv, ReportProgress, ReadInv, CallProgress
      <3> QED BY <2>1, <2>2, <2>4, <3>1 DEF ReportProgress, Reporting
    <2>7. Totals'
      BY <2>1, <2>4 DEF ReportInv, Totals, ListCounts, Sorted, CountedAs, Counted, Late
    <2>8. Printed'
      <3>1. Cdf(prms.response_times)' = Cdf(prms.response_times)
        BY <2>4 DEF Cdf, Cumulated
      <3> QED BY <2>1, <2>4, <3>1 DEF ReportInv, Printed
    <2> QED BY <2>5, <2>6, <2>7, <2>8 DEF ReportInv
  <1>4. CASE Reporting /\ PrintGarbage
    <2>1. /\ UNCHANGED <<user, cdf_fmt, tau, prms, printed, seen>>
          /\ garbage /\ garbage' = garbage /\ section = "job_fn" /\ section' = "jobs"
      BY <1>4 DEF PrintGarbage, JobStatisticsFn, reportVars
    <2>2. ReportProgress'
      BY <2>1 DEF ReportInv, ReportProgress, Reporting
    <2> QED BY <2>1, <2>2, ReportUnchanged DEF ReportInv
  <1>5. CASE Reporting /\ FinishReport
    BY <1>5, FinishReportKeeps
  <1>6. CASE Reporting /\ \E r \in Responses, memory \in BOOLEAN : PrintJobStats(r, memory)
    BY <1>6, PrintJobStatsKeeps
  <1>7. CASE Another
    <2>1. UNCHANGED <<user, cdf_fmt, tau, prms, printed, seen>> /\ ~Reporting
      BY <1>7 DEF Another, reportVars
    <2>2. ReportProgress'
      BY <2>1 DEF ReportInv, ReportProgress, Reporting
    <2> QED BY <2>1, <2>2, ReportUnchanged DEF ReportInv
  <1> QED BY <1>1, <1>2, <1>3, <1>4, <1>5, <1>6, <1>7 DEF ReportNext, Report

LEMMA ReportInvAddsUp == ReportInv => ReportAddsUp
  <1> SUFFICES ASSUME ReportInv PROVE ReportAddsUp
    OBVIOUS
  <1> DEFINE l == prms.response_times
  <1>1. /\ l \in Seq(ListItem) /\ seen \in Seq(JobSeen) /\ ListCounts(l, seen)
        /\ prms.total_job_count = Len(seen) /\ prms.late_count = Cardinality(Late(seen))
    BY DEF ReportInv, ReportType, Totals
  <1>2. \A m, n \in DOMAIN l : m < n => l[m].response_time < l[n].response_time
    BY <1>1 DEF ListCounts, Sorted
  <1>3. \A m \in DOMAIN l : l[m].job_count = Cardinality(
           {j \in DOMAIN seen : seen[j].kept
                        /\ RoundToMicrosecond(Max0(seen[j].response)) = l[m].response_time})
    BY <1>1 DEF ListCounts, CountedAs
  <1>4. \A j \in {j \in DOMAIN seen : seen[j].kept} : \E m \in DOMAIN l :
              l[m].response_time = RoundToMicrosecond(Max0(seen[j].response))
    BY <1>1 DEF ListCounts, Counted
  <1>5. prms.late_count = Cardinality({j \in DOMAIN seen : seen[j].response > Deadline})
    BY <1>1 DEF Late
  <1>6. Reporting /\ ~garbage /\ section = "jobs" => Len(seen) = Len(delivered)
    BY DEF ReportInv, ReportProgress
  <1>7. cdf_fmt = "NO_CDF" => \A j \in DOMAIN printed :
              printed[j] = [job      |-> tau.oldest_job_pos + j - 1,
                            response |-> Max0(seen[j].response),
                            late     |-> seen[j].response > Deadline]
    BY DEF ReportInv, Printed, LineOf
  <1>8. ASSUME prms.state = "success", cdf_fmt # "NO_CDF"
        PROVE  /\ printed # <<>> => printed[Len(printed)].jobs = Cardinality(Counted(seen))
               /\ Counted(seen) # {} => printed # <<>>
    <2>0. Len(l) \in Nat /\ DOMAIN l = 1..Len(l)
      BY <1>1, ListIs
    <2>1. /\ printed # <<>> => printed = Cdf(l)
          /\ seen # <<>> => printed = Cdf(l)
      BY <1>8 DEF ReportInv, Printed
    <2>2. DOMAIN Cdf(l) = DOMAIN l /\ (\A m \in DOMAIN l : Cdf(l)[m].jobs = Cumulated(l)[m])
      BY DEF Cdf
    <2>3. Len(Cdf(l)) = Len(l)
      <3> HIDE DEF l
      <3>1. Cdf(l) = [m \in 1..Len(l) |-> [response_time |-> l[m].response_time, jobs |-> Cumulated(l)[m]]]
        BY <2>0 DEF Cdf
      <3> QED BY <2>0, <3>1
    <2>4. ASSUME printed # <<>> PROVE printed[Len(printed)].jobs = Cardinality(Counted(seen))
      <3>1. printed = Cdf(l) /\ Len(l) # 0
        BY <2>0, <2>1, <2>3, <2>4 DEF Cdf
      <3>2. Len(l) \in DOMAIN l
        BY <2>0, <3>1
      <3>3. Cumulated(l)[Len(l)] = Cardinality(Counted(seen))
        BY <1>1, CumulatedIs
      <3> HIDE DEF l
      <3> QED BY <2>2, <2>3, <3>1, <3>2, <3>3
    <2>5. ASSUME Counted(seen) # {} PROVE printed # <<>>
      <3>1. PICK j \in DOMAIN seen : seen[j].kept
        BY <2>5 DEF Counted
      <3>2. seen # <<>> /\ DOMAIN l # {}
        BY <1>4, <3>1
      <3> QED BY <2>1, <2>2, <3>2
    <2> QED BY <2>4, <2>5
  <1> HIDE DEF l
  <1> QED BY <1>1, <1>2, <1>3, <1>4, <1>5, <1>6, <1>7, <1>8 DEF ReportAddsUp, l, Counted

(* The report is a user of the reader like any other: task_statistics_read *)
(* behaves for its callbacks as module TaskStatsFile says, and all that is *)
(* proved of it holds for the report.                                      *)
THEOREM ReportReads == ReportSpec => ReadSpec
  <1>1. ReportInit => ReadInit
    BY DEF ReportInit
  <1> QED BY <1>1, ReportStepReads, PTL DEF ReportSpec, ReadSpec

(* Whatever the file and the calls: what the variables of                  *)
(* task_statistics_read hold.                                              *)
THEOREM ReadTypeCorrect == ReadSpec => []ReadTypeOK
  <1>1. ReadInv => ReadTypeOK
    BY DEF ReadInv
  <1> QED BY <1>1, AlwaysReadInv, PTL

(* Whatever the file, the callbacks of task_statistics_read get its job    *)
(* records from the first one on, each once and none that is cut off.      *)
(* Records that were never filled come only at an I/O error, at the place  *)
(* of the record that cannot be read, and end with the callback's refusal. *)
THEOREM AlwaysDeliveredInOrder == ReadSpec => []DeliveredInOrder
  <1>1. ReadInv => DeliveredInOrder
    BY DEF ReadInv
  <1> QED BY <1>1, AlwaysReadInv, PTL

(* Whatever the file, 0 is returned exactly when everything has been       *)
(* deserialized, job statistics included, -1 and -2 exactly for a refusal, *)
(* and -3 and -4 only for a file that cannot be read or is at its end; but *)
(* without job statistics a call that succeeds returns -3, too.            *)
THEOREM ExitCodeAlwaysTrue == ReadSpec => []ExitCodeTellsTheTruth
  <1>1. ReadInv => ExitCodeTellsTheTruth
    BY DEF ReadInv
  <1> QED BY <1>1, AlwaysReadInv, PTL

(* Whatever the file and the task in it, what read_task_stats_file prints  *)
(* of the jobs is true of them, and its distribution adds up.              *)
THEOREM ReportAlwaysAddsUp == ReportSpec => []ReportAddsUp
  <1>1. ReportSpec => []ReadInv
    BY ReportReads, AlwaysReadInv
  <1> QED BY <1>1, ReportInitInv, ReportNextInv, ReportInvAddsUp, PTL DEF ReportSpec

=============================================================================
