--------------------------------- MODULE Job ---------------------------------
(***************************************************************************)
(* job.c as a state machine: one thread creates a ring buffer, starts jobs *)
(* that log to it, saves it and destroys it.                               *)
(*                                                                         *)
(* job_start is two steps, the one before and the one after the job's      *)
(* program, because the thread may be cancelled inside the program (see    *)
(* task.c) with its cleanup handler saving the buffer as it stands.        *)
(* jobstats_ringbuf_save is one step per iteration of its loop, each of    *)
(* which may fail.  Like task_start, the caller starts no further job once *)
(* job_start has returned non-zero.                                        *)
(***************************************************************************)
EXTENDS Ringbuf, Sequences

CONSTANTS SlotCounts,   \* values passed as slot_count, 0 included
          MaxJobs       \* bound on write_count

ASSUME JobAssumption == /\ SlotCounts \subseteq Nat
                        /\ MaxJobs \in Nat

VARIABLES pc,           \* where the thread is
          rb,           \* the ring buffer
          stats,        \* job_start: the slot "stats" points to
          rc,           \* return value of job_start
          killed,       \* the thread was cancelled inside the program
          i,            \* jobstats_ringbuf_save: loop variable
          record_file,  \* records written by a save since the last job
          save_rc       \* its result: "none" until it returns

vars == <<pc, rb, stats, rc, killed, i, record_file, save_rc>>

NoRingbuf == jobstats_ringbuf_create(0, FALSE)

Init ==
    /\ pc = "none"
    /\ rb = NoRingbuf
    /\ stats = Dummy
    /\ rc = 0
    /\ killed = FALSE
    /\ i = 0
    /\ record_file = <<>>
    /\ save_rc = "none"

(* A slot_count of zero, or no memory, yields NULL and changes nothing.    *)
Create(n, dis) ==
    /\ pc = "none"
    /\ n # 0
    /\ pc' = "idle"
    /\ rb' = jobstats_ringbuf_create(n, dis)
    /\ rc' = 0
    /\ killed' = FALSE
    /\ record_file' = <<>>
    /\ save_rc' = "none"
    /\ UNCHANGED <<stats, i>>

(* job_start up to the call of run_program.                                *)
JobStart(ok) ==
    /\ pc = "idle"
    /\ rc = 0 /\ ~killed
    /\ rb.write_count < MaxJobs
    /\ stats' = SlotOf(rb)
    /\ rb' = StampBegin(TakeSlot(rb), SlotOf(rb), ok)
    /\ rc' = IF ok THEN 0 ELSE 1
    /\ pc' = "running"
    /\ save_rc' = "none"
    /\ record_file' = <<>>
    /\ UNCHANGED <<killed, i>>

(* job_start from the return of run_program on.  clock_gettime returns -1  *)
(* when it fails, and "rc -= -1" counts upwards.                           *)
JobFinish(ok) ==
    /\ pc = "running"
    /\ rb' = StampEnd(rb, stats, ok)
    /\ rc' = IF ok THEN rc ELSE rc + 1
    /\ pc' = "idle"
    /\ UNCHANGED <<stats, killed, i, record_file, save_rc>>

(* The thread is cancelled inside run_program.                             *)
Cancelled ==
    /\ pc = "running"
    /\ killed' = TRUE
    /\ pc' = "idle"
    /\ UNCHANGED <<rb, stats, rc, i, record_file, save_rc>>

(* jobstats_ringbuf_save up to its loop; an empty buffer writes nothing.   *)
SaveBegin ==
    /\ pc = "idle"
    /\ record_file' = <<>>
    /\ \/ /\ rb.write_count = 0
          /\ save_rc' = "ok"
          /\ UNCHANGED <<pc, i>>
       \/ /\ rb.write_count # 0
          /\ save_rc' = "none"
          /\ i' = SaveFirst(rb)
          /\ pc' = "saving"
    /\ UNCHANGED <<rb, stats, rc, killed>>

(* One iteration of the loop of jobstats_ringbuf_save.                     *)
SaveStep ==
    /\ pc = "saving"
    /\ record_file' = Append(record_file, rb.ringbuf[SaveSlot(rb, i)])
    /\ i' = SaveSlot(rb, i) + 1
    /\ IF i' = SaveEnd(rb)
       THEN pc' = "idle" /\ save_rc' = "ok"
       ELSE UNCHANGED <<pc, save_rc>>
    /\ UNCHANGED <<rb, stats, rc, killed>>

(* An iteration whose fwrite fails.                                        *)
SaveFail ==
    /\ pc = "saving"
    /\ save_rc' = "failed"
    /\ pc' = "idle"
    /\ UNCHANGED <<rb, stats, rc, killed, i, record_file>>

Destroy ==
    /\ pc = "idle"
    /\ pc' = "none"
    /\ rb' = NoRingbuf
    /\ stats' = Dummy
    /\ rc' = 0
    /\ killed' = FALSE
    /\ i' = 0
    /\ record_file' = <<>>
    /\ save_rc' = "none"

Next ==
    \/ \E n \in SlotCounts, dis \in BOOLEAN : Create(n, dis)
    \/ \E ok \in BOOLEAN : JobStart(ok) \/ JobFinish(ok)
    \/ Cancelled
    \/ SaveBegin \/ SaveStep \/ SaveFail
    \/ Destroy

Spec == Init /\ [][Next]_vars

-----------------------------------------------------------------------------
(* The ring buffer has the shape of the C struct, next never passes the    *)
(* end of the array, and "stats" points into the array or to the dummy.    *)
TypeOK ==
    /\ pc \in {"none", "idle", "running", "saving"}
    /\ RingbufType(rb)
    /\ rb.next <= rb.slot_count
    /\ (pc = "none") <=> (rb.slot_count = 0)
    /\ stats \in {Dummy} \cup 0..(rb.slot_count - 1)
    /\ rc \in 0..2
    /\ killed \in BOOLEAN
    /\ i \in 0..rb.slot_count
    /\ record_file \in Seq(Slot)
    /\ save_rc \in {"none", "ok", "failed"}

(* The number of records in the buffer.                                    *)
Kept == IF rb.overrun THEN rb.slot_count ELSE rb.next

(* The job whose record slot s must hold: slots below next belong to the   *)
(* current lap of the ring, the others to the lap before.                  *)
JobAt(s) ==
    IF rb.overrun_disabled THEN s + 1
    ELSE IF s < rb.next THEN rb.write_count - rb.next + s + 1
    ELSE rb.write_count - rb.next - rb.slot_count + s + 1

Holds(s) == s < rb.next \/ rb.overrun

(* The newest job is not (or not completely) in its record when its        *)
(* program is running or was cancelled, or the clock could not be read.    *)
Unfinished(s) == JobAt(s) = rb.write_count /\ (pc = "running" \/ killed \/ rc # 0)

(* The flags and counters of the ring agree with each other, so that       *)
(* jobstats_ringbuf_overrun, _oldest_pos and _lost_count, which consult    *)
(* different ones depending on overrun_disabled, tell one story.           *)
CountersAgree ==
    /\ ~rb.overrun => rb.write_count = rb.next
    /\ rb.overrun  => rb.write_count > rb.slot_count
    /\ rb.overrun /\ rb.overrun_disabled => rb.next = rb.slot_count
    /\ rb.overrun /\ ~rb.overrun_disabled => rb.next >= 1
    /\ rb.overrun_disabled => rb.overrun_count = 0
    /\ ~rb.overrun_disabled => (rb.overrun <=> rb.overrun_count # 0)
    /\ ~rb.overrun_disabled =>
          rb.write_count = rb.overrun_count * rb.slot_count + rb.next

(* Every slot in use holds both readings of the one job its position says, *)
(* except that the newest record may be unfinished.                        *)
SlotsHoldTheirJobs ==
    \A s \in 0..(rb.slot_count - 1) :
        Holds(s) /\ ~Unfinished(s) =>
            rb.ringbuf[s] = [t_begin |-> JobAt(s), t_end |-> JobAt(s)]

(* A completed jobstats_ringbuf_save has written the records of consecutive*)
(* jobs, the first one being that of the job jobstats_ringbuf_oldest_pos   *)
(* names; only the newest job's record may be unfinished; and together     *)
(* with jobstats_ringbuf_lost_count the records account for every job.     *)
SaveIsFaithful ==
    save_rc = "ok" /\ rb.write_count # 0 =>
        /\ Len(record_file) + jobstats_ringbuf_lost_count(rb) = rb.write_count
        /\ \A j \in 1..Len(record_file) :
              LET k == jobstats_ringbuf_oldest_pos(rb) + j - 1
              IN (k = rb.write_count /\ (killed \/ rc # 0))
                 \/ record_file[j] = [t_begin |-> k, t_end |-> k]

-----------------------------------------------------------------------------
(* The ring buffer implements the abstract log: read from the oldest slot  *)
(* on, its slots are the entries the log keeps.                            *)
OldestSlot == IF rb.overrun /\ ~rb.overrun_disabled /\ rb.next # rb.slot_count
              THEN rb.next ELSE 0

(* The slot of the j-th oldest record.                                     *)
SlotFrom(j) == IF OldestSlot + j - 1 < rb.slot_count THEN OldestSlot + j - 1
               ELSE OldestSlot + j - 1 - rb.slot_count

EntryAt(s) == IF Unfinished(s) /\ rb.ringbuf[s].t_begin # rb.write_count
              THEN 0 ELSE rb.ringbuf[s].t_begin

KeptEntries == [j \in 1..Kept |-> EntryAt(SlotFrom(j))]

Log == INSTANCE JobLog WITH Sizes     <- SlotCounts \ {0},
                            open      <- pc # "none",
                            size      <- rb.slot_count,
                            keepFirst <- rb.overrun_disabled,
                            attempts  <- rb.write_count,
                            kept      <- KeptEntries

(* Every step of job.c is a step of the abstract log or leaves it alone.   *)
ImplementsJobLog == Log!Spec

==============================================================================
