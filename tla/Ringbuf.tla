------------------------------- MODULE Ringbuf -------------------------------
(***************************************************************************)
(* The data structure jobstats_ringbuf of job.c and the operations on it.  *)
(*                                                                         *)
(* A ring buffer is a record with the fields of the C struct.  A slot of   *)
(* the array holds the two clock readings of one job; a reading is         *)
(* abstracted to the number of the job it was taken for, counting the      *)
(* calls of job_start from 1, and 0 is the zeroed memory that              *)
(* jobstats_ringbuf_create leaves behind.  So a slot whose two fields      *)
(* differ is a record that mixes the readings of two jobs.                 *)
(***************************************************************************)
EXTENDS Integers

(* The slot index that stands for the local variable "dummy" of job_start. *)
Dummy == -1

Slot == [t_begin : Nat, t_end : Nat]

(* r has the fields of the C struct, and an array of slot_count slots.     *)
RingbufType(r) ==
    r \in [ ringbuf : [0..(r.slot_count - 1) -> Slot],
            slot_count : Nat, next : Nat, overrun_count : Nat,
            overrun_disabled : BOOLEAN, overrun : BOOLEAN, write_count : Nat ]

(* jobstats_ringbuf_create(n, dis) when memory is available and n > 0.     *)
jobstats_ringbuf_create(n, dis) ==
    [ ringbuf          |-> [i \in 0..(n - 1) |-> [t_begin |-> 0, t_end |-> 0]],
      slot_count       |-> n,
      next             |-> 0,
      overrun_count    |-> 0,
      overrun_disabled |-> dis,
      overrun          |-> FALSE,
      write_count      |-> 0 ]

-----------------------------------------------------------------------------
(* job_start: choosing the slot of the next job.                           *)

Full(rb) == rb.next = rb.slot_count

Wraps(rb) == Full(rb) /\ ~rb.overrun_disabled

(* Variant: a full buffer is overwritten from slot 0 even if overrun is    *)
(* disabled.                                                               *)
SlotOfIgnoringDisabled(rb) == IF Full(rb) THEN 0 ELSE rb.next

(* The slot the statistics of the next job go to.                          *)
SlotOf(rb) == IF ~Full(rb) THEN rb.next
              ELSE IF rb.overrun_disabled THEN Dummy ELSE 0

(* Variant: next is incremented without a look at slot_count.              *)
TakeSlotUnchecked(rb) ==
    [ ringbuf          |-> rb.ringbuf,
      slot_count       |-> rb.slot_count,
      next             |-> rb.next + 1,
      overrun_count    |-> rb.overrun_count,
      overrun_disabled |-> rb.overrun_disabled,
      overrun          |-> rb.overrun \/ Full(rb),
      write_count      |-> rb.write_count + 1 ]

(* Variant: overrun_count is not incremented on a wrap.                    *)
TakeSlotUncounted(rb) ==
    [ ringbuf          |-> rb.ringbuf,
      slot_count       |-> rb.slot_count,
      next             |-> IF Wraps(rb) THEN 1
                           ELSE IF Full(rb) THEN rb.next ELSE rb.next + 1,
      overrun_count    |-> rb.overrun_count,
      overrun_disabled |-> rb.overrun_disabled,
      overrun          |-> rb.overrun \/ Full(rb),
      write_count      |-> rb.write_count + 1 ]

(* Variant: after a wrap next is left at 0, so slot 0 is used twice.       *)
TakeSlotTwice(rb) ==
    [ ringbuf          |-> rb.ringbuf,
      slot_count       |-> rb.slot_count,
      next             |-> IF Wraps(rb) THEN 0
                           ELSE IF Full(rb) THEN rb.next ELSE rb.next + 1,
      overrun_count    |-> IF Wraps(rb) THEN rb.overrun_count + 1 ELSE rb.overrun_count,
      overrun_disabled |-> rb.overrun_disabled,
      overrun          |-> rb.overrun \/ Full(rb),
      write_count      |-> rb.write_count + 1 ]

(* The bookkeeping of job_start before the job's program runs.             *)
TakeSlot(rb) ==
    [ ringbuf          |-> rb.ringbuf,
      slot_count       |-> rb.slot_count,
      next             |-> IF Wraps(rb) THEN 1
                           ELSE IF Full(rb) THEN rb.next ELSE rb.next + 1,
      overrun_count    |-> IF Wraps(rb) THEN rb.overrun_count + 1 ELSE rb.overrun_count,
      overrun_disabled |-> rb.overrun_disabled,
      overrun          |-> rb.overrun \/ Full(rb),
      write_count      |-> rb.write_count + 1 ]

(* The buffer with r in slot s; the dummy is no part of the buffer.        *)
PutSlot(rb, s, r) ==
    [ ringbuf          |-> IF s = Dummy THEN rb.ringbuf
                           ELSE [rb.ringbuf EXCEPT ![s] = r],
      slot_count       |-> rb.slot_count,
      next             |-> rb.next,
      overrun_count    |-> rb.overrun_count,
      overrun_disabled |-> rb.overrun_disabled,
      overrun          |-> rb.overrun,
      write_count      |-> rb.write_count ]

(* clock_gettime into t_begin or t_end of slot s; a failing one leaves the *)
(* field as it was.                                                        *)
StampBegin(rb, s, ok) ==
    IF ok THEN PutSlot(rb, s, [t_begin |-> rb.write_count,
                               t_end   |-> rb.ringbuf[s].t_end]) ELSE rb

StampEnd(rb, s, ok) ==
    IF ok THEN PutSlot(rb, s, [t_begin |-> rb.ringbuf[s].t_begin,
                               t_end   |-> rb.write_count]) ELSE rb

-----------------------------------------------------------------------------
(* Queries.                                                                *)

jobstats_ringbuf_overrun(rb) ==
    IF rb.overrun_disabled THEN rb.overrun ELSE rb.overrun_count # 0

jobstats_ringbuf_oldest_pos(rb) ==
    IF rb.write_count = 0 THEN 0
    ELSE IF rb.overrun_disabled \/ ~jobstats_ringbuf_overrun(rb) THEN 1
    ELSE rb.write_count - rb.slot_count + 1

jobstats_ringbuf_lost_count(rb) ==
    IF ~jobstats_ringbuf_overrun(rb) THEN 0
    ELSE IF rb.overrun_disabled THEN rb.write_count - rb.slot_count
    ELSE jobstats_ringbuf_oldest_pos(rb) - 1

-----------------------------------------------------------------------------
(* jobstats_ringbuf_save: where its loop starts and stops.                 *)

(* Variant: the save starts at slot 0 even after the ring has wrapped.     *)
SaveFirstZero(rb) == 0

SaveFirst(rb) == IF rb.overrun_disabled \/ ~rb.overrun THEN 0 ELSE rb.next

SaveEnd(rb) ==
    IF ~rb.overrun_disabled /\ rb.overrun /\ rb.slot_count = 1 THEN 1 ELSE rb.next

(* The slot that an iteration of the loop entered with i writes.           *)
SaveSlot(rb, i) == i % rb.slot_count

(* The whole loop: iteration j writes slot SaveFirst + j - 1, modulo the   *)
(* size, and the loop ends when the slot just written is the one before    *)
(* SaveEnd.  An empty buffer writes nothing.                               *)
SavedRecords(rb) ==
    LET visited(j)  == SaveSlot(rb, SaveFirst(rb) + j - 1)
        last(j)     == visited(j) + 1 = SaveEnd(rb)
        count       == CHOOSE j \in 1..rb.slot_count :
                           last(j) /\ \A k \in 1..(j - 1) : ~last(k)
    IN IF rb.write_count = 0 THEN <<>>
       ELSE [j \in 1..count |-> rb.ringbuf[visited(j)]]

==============================================================================
