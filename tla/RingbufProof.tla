---------------------------- MODULE RingbufProof ----------------------------
(***************************************************************************)
(* Facts about the operations of Ringbuf, for the proofs of the modules    *)
(* whose state has a ring buffer: what choosing a slot, reading the clock  *)
(* into it and saving the ring do to the fields, and what they keep true.  *)
(***************************************************************************)
EXTENDS Ringbuf, Sequences, SequenceTheorems, TLAPS

(* A slot is in use if it is below next, or if the ring has been full.  It *)
(* then has the record of the job its position says: slots below next      *)
(* belong to the current lap of the ring, the others to the lap before.    *)
InUse(r, s) == s < r.next \/ r.overrun

JobOf(r, s) ==
    IF r.overrun_disabled THEN s + 1
    ELSE IF s < r.next THEN r.write_count - r.next + s + 1
    ELSE r.write_count - r.next - r.slot_count + s + 1

(* The fields and the flags of the ring tell one story.                    *)
CountersOf(r) ==
    /\ ~r.overrun => r.write_count = r.next
    /\ r.overrun  => r.write_count > r.slot_count
    /\ r.overrun /\ r.overrun_disabled => r.next = r.slot_count
    /\ r.overrun /\ ~r.overrun_disabled => r.next >= 1
    /\ r.overrun_disabled => r.overrun_count = 0
    /\ ~r.overrun_disabled => (r.overrun <=> r.overrun_count # 0)

(* r is a ring whose slots in use hold both readings of their jobs; that   *)
(* of the newest job need not if "pending".                                *)
RingInv(r, pending) ==
    /\ RingbufType(r) /\ r.slot_count # 0 /\ r.next <= r.slot_count
    /\ CountersOf(r)
    /\ \A s \in 0..(r.slot_count - 1) :
          InUse(r, s) /\ ~(pending /\ JobOf(r, s) = r.write_count) =>
              r.ringbuf[s] = [t_begin |-> JobOf(r, s), t_end |-> JobOf(r, s)]

(* The slot of the newest job, and whether its first reading is there.     *)
NewestSlot(r) == IF r.overrun /\ r.overrun_disabled THEN Dummy ELSE r.next - 1

Begun(r) == NewestSlot(r) # Dummy => r.ringbuf[NewestSlot(r)].t_begin = r.write_count

(* How many records the ring has, and the slot of the j-th oldest of them. *)
KeptBy(r) == IF r.overrun THEN r.slot_count ELSE r.next

OldestOf(r) == IF r.overrun /\ ~r.overrun_disabled /\ r.next # r.slot_count
               THEN r.next ELSE 0

NthSlot(r, j) == IF OldestOf(r) + j - 1 < r.slot_count THEN OldestOf(r) + j - 1
                 ELSE OldestOf(r) + j - 1 - r.slot_count

-----------------------------------------------------------------------------
(* The modulo of the save loop for the values its variable can have.       *)
LEMMA ModUpTo ==
    ASSUME NEW n \in Nat, n # 0, NEW x \in 0..n
    PROVE  x % n = IF x = n THEN 0 ELSE x
  OBVIOUS

(* A sequence that begins like q and goes on with e, and one that has lost *)
(* the first element of q as well.                                         *)
LEMMA AppendIs ==
    ASSUME NEW S, NEW q \in Seq(S), NEW e \in S, NEW p \in Seq(S),
           Len(p) = Len(q) + 1, \A j \in 1..Len(q) : p[j] = q[j], p[Len(q) + 1] = e
    PROVE  p = Append(q, e)
  <1> DEFINE a == Append(q, e)
  <1>1. a \in Seq(S) /\ Len(a) = Len(q) + 1
    BY AppendProperties
  <1>2. (\A j \in 1..Len(q) : a[j] = q[j]) /\ a[Len(q) + 1] = e
    BY AppendProperties
  <1> HIDE DEF a
  <1>3. Len(p) = Len(a) /\ \A j \in 1..Len(p) : p[j] = a[j]
    BY <1>1, <1>2
  <1>4. a \in Seq(S)
    BY <1>1
  <1> QED BY <1>3, <1>4, SeqEqual DEF a

LEMMA ShiftIs ==
    ASSUME NEW S, NEW q \in Seq(S), NEW e \in S, NEW p \in Seq(S), q # <<>>,
           Len(p) = Len(q), \A j \in 1..(Len(q) - 1) : p[j] = q[j + 1], p[Len(q)] = e
    PROVE  p = Append(Tail(q), e)
  <1> DEFINE t == Tail(q)
  <1>1. t \in Seq(S) /\ Len(t) = Len(q) - 1 /\ \A j \in 1..Len(t) : t[j] = q[j + 1]
    BY HeadTailProperties
  <1> HIDE DEF t
  <1>2. Len(q) \in Nat
    OBVIOUS
  <1>3. /\ Len(p) = Len(t) + 1 /\ p[Len(t) + 1] = e
        /\ \A j \in 1..Len(t) : p[j] = t[j]
    BY <1>1, <1>2
  <1>4. t \in Seq(S)
    BY <1>1
  <1> QED BY <1>3, <1>4, AppendIs DEF t

(* One more lap of a ring of n slots.                                      *)
LEMMA OneMoreLap ==
    ASSUME NEW c \in Nat, NEW n \in Nat
    PROVE  /\ c * n \in Nat
           /\ (c + 1) * n = c * n + n
  OBVIOUS

(* The fields after job_start has chosen a slot and read the clock.        *)
LEMMA TakeSlotFields ==
    ASSUME NEW r, RingbufType(r), r.next <= r.slot_count, r.slot_count # 0,
           NEW ok \in BOOLEAN
    PROVE  LET q == StampBegin(TakeSlot(r), SlotOf(r), ok)
           IN /\ RingbufType(q)
              /\ q.slot_count = r.slot_count
              /\ q.overrun_disabled = r.overrun_disabled
              /\ q.write_count = r.write_count + 1
              /\ q.overrun = (r.overrun \/ r.next = r.slot_count)
              /\ q.overrun_count = IF r.next = r.slot_count /\ ~r.overrun_disabled
                                   THEN r.overrun_count + 1 ELSE r.overrun_count
              /\ q.next = IF r.next # r.slot_count THEN r.next + 1
                          ELSE IF r.overrun_disabled THEN r.next ELSE 1
              /\ \A s \in 0..(r.slot_count - 1) :
                    s # SlotOf(r) => q.ringbuf[s] = r.ringbuf[s]
              /\ ok /\ SlotOf(r) # Dummy =>
                    q.ringbuf[SlotOf(r)].t_begin = r.write_count + 1
              /\ ~ok => q.ringbuf = r.ringbuf
  <1> DEFINE t == TakeSlot(r)
             q == StampBegin(TakeSlot(r), SlotOf(r), ok)
  <1>1. /\ RingbufType(t)
        /\ t.slot_count = r.slot_count
        /\ t.overrun_disabled = r.overrun_disabled
        /\ t.write_count = r.write_count + 1
        /\ t.overrun = (r.overrun \/ r.next = r.slot_count)
        /\ t.overrun_count = IF r.next = r.slot_count /\ ~r.overrun_disabled
                             THEN r.overrun_count + 1 ELSE r.overrun_count
        /\ t.next = IF r.next # r.slot_count THEN r.next + 1
                    ELSE IF r.overrun_disabled THEN r.next ELSE 1
        /\ t.ringbuf = r.ringbuf
    BY DEF TakeSlot, RingbufType, Full, Wraps
  <1>2. SlotOf(r) \in {Dummy} \cup 0..(r.slot_count - 1)
    BY DEF SlotOf, RingbufType, Full, Dummy
  <1>3. CASE ok /\ SlotOf(r) # Dummy
    BY <1>1, <1>2, <1>3 DEF StampBegin, PutSlot, RingbufType, Slot
  <1>4. CASE ~(ok /\ SlotOf(r) # Dummy)
    BY <1>1, <1>2, <1>4 DEF StampBegin, PutSlot, RingbufType
  <1> QED BY <1>3, <1>4

(* The fields after job_start has read the clock a second time.            *)
LEMMA StampEndFields ==
    ASSUME NEW r, RingbufType(r), NEW st \in {Dummy} \cup 0..(r.slot_count - 1),
           NEW ok \in BOOLEAN
    PROVE  LET q == StampEnd(r, st, ok)
           IN /\ RingbufType(q)
              /\ q.slot_count = r.slot_count
              /\ q.overrun_disabled = r.overrun_disabled
              /\ q.write_count = r.write_count
              /\ q.overrun = r.overrun
              /\ q.overrun_count = r.overrun_count
              /\ q.next = r.next
              /\ \A s \in 0..(r.slot_count - 1) :
                    s # st => q.ringbuf[s] = r.ringbuf[s]
              /\ ok /\ st # Dummy =>
                    q.ringbuf[st] = [t_begin |-> r.ringbuf[st].t_begin,
                                     t_end   |-> r.write_count]
  <1>1. CASE ok /\ st # Dummy
    BY <1>1 DEF StampEnd, PutSlot, RingbufType, Slot
  <1>2. CASE ok /\ st = Dummy
    BY <1>2 DEF StampEnd, PutSlot, RingbufType
  <1>3. CASE ~ok
    BY <1>3 DEF StampEnd
  <1> QED BY <1>1, <1>2, <1>3

(* Reading the clock at the end leaves the readings at the beginning.      *)
LEMMA StampKeepsBegin ==
    ASSUME NEW r, RingbufType(r), NEW st \in {Dummy} \cup 0..(r.slot_count - 1),
           NEW ok \in BOOLEAN
    PROVE  LET q == StampEnd(r, st, ok)
           IN /\ q.slot_count = r.slot_count
              /\ q.next = r.next
              /\ q.write_count = r.write_count
              /\ q.overrun = r.overrun
              /\ q.overrun_disabled = r.overrun_disabled
              /\ \A s \in 0..(r.slot_count - 1) :
                    q.ringbuf[s].t_begin = r.ringbuf[s].t_begin
  <1>1. CASE ok /\ st # Dummy
    BY <1>1 DEF StampEnd, PutSlot, RingbufType, Slot
  <1>2. CASE ok /\ st = Dummy
    BY <1>2 DEF StampEnd, PutSlot, RingbufType
  <1>3. CASE ~ok
    BY <1>3 DEF StampEnd
  <1> QED BY <1>1, <1>2, <1>3

-----------------------------------------------------------------------------
(* A ring just created, for any size but zero.                             *)
LEMMA CreatedRing ==
    ASSUME NEW n \in Nat, n # 0, NEW dis \in BOOLEAN
    PROVE  LET q == jobstats_ringbuf_create(n, dis)
           IN RingInv(q, FALSE) /\ q.write_count = 0 /\ q.slot_count = n
  <1> DEFINE q == jobstats_ringbuf_create(n, dis)
  <1>1. /\ q.slot_count = n /\ q.next = 0 /\ q.overrun_count = 0
        /\ q.overrun = FALSE /\ q.overrun_disabled = dis /\ q.write_count = 0
        /\ RingbufType(q)
    BY DEF jobstats_ringbuf_create, RingbufType, Slot
  <1> HIDE DEF q
  <1>2. CountersOf(q) /\ \A s \in 0..(q.slot_count - 1) : ~InUse(q, s)
    BY <1>1 DEF CountersOf, InUse
  <1>3. RingInv(q, FALSE)
    BY <1>1, <1>2 DEF RingInv
  <1> QED BY <1>1, <1>3 DEF q

(* What holds with nothing pending holds with something pending.           *)
LEMMA WeakerRing ==
    ASSUME NEW r, NEW p \in BOOLEAN, NEW q \in BOOLEAN, RingInv(r, p), p => q
    PROVE  RingInv(r, q)
  BY DEF RingInv

(* job_start, up to the program of the job: the ring counts one job more,  *)
(* whose record is pending.                                                *)
LEMMA BeginJobRing ==
    ASSUME NEW r, RingInv(r, FALSE), NEW ok \in BOOLEAN
    PROVE  LET q == StampBegin(TakeSlot(r), SlotOf(r), ok)
           IN /\ RingInv(q, TRUE)
              /\ q.slot_count = r.slot_count
              /\ q.overrun_disabled = r.overrun_disabled
              /\ q.write_count = r.write_count + 1
              /\ NewestSlot(q) = SlotOf(r)
              /\ ok => Begun(q)
  <1> DEFINE q == StampBegin(TakeSlot(r), SlotOf(r), ok)
  <1>1. /\ RingbufType(r) /\ r.next <= r.slot_count /\ r.slot_count # 0
        /\ r.slot_count \in Nat /\ r.next \in Nat /\ r.write_count \in Nat
        /\ r.overrun_count \in Nat /\ r.overrun \in BOOLEAN /\ r.overrun_disabled \in BOOLEAN
    BY DEF RingInv, RingbufType
  <1>2. /\ RingbufType(q)
        /\ q.slot_count = r.slot_count
        /\ (q.overrun_disabled <=> r.overrun_disabled)
        /\ q.write_count = r.write_count + 1
        /\ (q.overrun <=> (r.overrun \/ r.next = r.slot_count))
        /\ q.overrun_count = IF r.next = r.slot_count /\ ~r.overrun_disabled
                             THEN r.overrun_count + 1 ELSE r.overrun_count
        /\ q.next = IF r.next # r.slot_count THEN r.next + 1
                    ELSE IF r.overrun_disabled THEN r.next ELSE 1
        /\ \A s \in 0..(r.slot_count - 1) :
              s # SlotOf(r) => q.ringbuf[s] = r.ringbuf[s]
        /\ ok /\ SlotOf(r) # Dummy =>
              q.ringbuf[SlotOf(r)].t_begin = r.write_count + 1
    BY <1>1, TakeSlotFields, ZenonT(60)
  <1>3. SlotOf(r) = IF r.next # r.slot_count THEN r.next
                    ELSE IF r.overrun_disabled THEN Dummy ELSE 0
    BY DEF SlotOf, Full
  <1> HIDE DEF q
  <1>4. CountersOf(r)
    BY DEF RingInv
  <1>5. CountersOf(q)
    BY <1>1, <1>2, <1>4 DEF CountersOf
  <1>6. ASSUME NEW s \in 0..(r.slot_count - 1), InUse(q, s), JobOf(q, s) # q.write_count
        PROVE  q.ringbuf[s] = [t_begin |-> JobOf(q, s), t_end |-> JobOf(q, s)]
    <2>1. s # SlotOf(r) /\ InUse(r, s) /\ JobOf(q, s) = JobOf(r, s)
      BY <1>1, <1>2, <1>3, <1>4, <1>6 DEF CountersOf, InUse, JobOf, Dummy
    <2> QED BY <1>2, <2>1 DEF RingInv
  <1>7. RingInv(q, TRUE)
    BY <1>1, <1>2, <1>5, <1>6 DEF RingInv
  <1>8. ok => Begun(q)
    BY <1>1, <1>2, <1>3, <1>4 DEF Begun, NewestSlot, CountersOf, Dummy
  <1>9. NewestSlot(q) = SlotOf(r)
    BY <1>1, <1>2, <1>3, <1>4 DEF NewestSlot, CountersOf, Dummy
  <1>10. q.overrun_disabled = r.overrun_disabled
    BY <1>1, <1>2 DEF RingbufType
  <1> QED BY <1>2, <1>7, <1>8, <1>9, <1>10 DEF q

(* job_start, from the end of the program on: with both readings taken,    *)
(* nothing is pending any more.                                            *)
LEMMA EndJobRing ==
    ASSUME NEW r, RingInv(r, TRUE), r.write_count # 0, NEW ok \in BOOLEAN
    PROVE  LET q == StampEnd(r, NewestSlot(r), ok)
           IN /\ RingInv(q, TRUE)
              /\ q.slot_count = r.slot_count
              /\ q.overrun_disabled = r.overrun_disabled
              /\ q.write_count = r.write_count
              /\ ok /\ Begun(r) => RingInv(q, FALSE)
  <1> DEFINE st == NewestSlot(r)
             q  == StampEnd(r, st, ok)
  <1>1. /\ RingbufType(r) /\ r.next <= r.slot_count /\ r.slot_count # 0
        /\ r.slot_count \in Nat /\ r.next \in Nat /\ r.write_count \in Nat
        /\ r.overrun_count \in Nat /\ r.overrun \in BOOLEAN /\ r.overrun_disabled \in BOOLEAN
    BY DEF RingInv, RingbufType
  <1>2. CountersOf(r)
    BY DEF RingInv
  <1>3. st \in {Dummy} \cup 0..(r.slot_count - 1)
    BY <1>1, <1>2 DEF NewestSlot, CountersOf, Dummy
  <1>4. \A s \in 0..(r.slot_count - 1) :
           InUse(r, s) => (JobOf(r, s) = r.write_count <=> s = st)
    BY <1>1, <1>2 DEF NewestSlot, CountersOf, InUse, JobOf, Dummy
  <1> HIDE DEF st
  <1>5. /\ RingbufType(q)
        /\ q.slot_count = r.slot_count
        /\ (q.overrun_disabled <=> r.overrun_disabled)
        /\ q.write_count = r.write_count
        /\ (q.overrun <=> r.overrun)
        /\ q.overrun_count = r.overrun_count
        /\ q.next = r.next
        /\ \A s \in 0..(r.slot_count - 1) : s # st => q.ringbuf[s] = r.ringbuf[s]
        /\ ok /\ st # Dummy => q.ringbuf[st] = [t_begin |-> r.ringbuf[st].t_begin,
                                               t_end   |-> r.write_count]
    BY <1>1, <1>3, StampEndFields
  <1> HIDE DEF q
  <1>6. CountersOf(q) /\ \A s \in 0..(r.slot_count - 1) :
                            JobOf(q, s) = JobOf(r, s) /\ (InUse(q, s) <=> InUse(r, s))
    BY <1>2, <1>5 DEF CountersOf, JobOf, InUse
  <1>7. \A s \in 0..(r.slot_count - 1) : InUse(r, s) /\ JobOf(r, s) # r.write_count =>
           q.ringbuf[s] = [t_begin |-> JobOf(r, s), t_end |-> JobOf(r, s)]
    BY <1>4, <1>5 DEF RingInv
  <1>8. RingInv(q, TRUE)
    BY <1>1, <1>5, <1>6, <1>7 DEF RingInv
  <1>9. ASSUME ok, Begun(r)
        PROVE  RingInv(q, FALSE)
    <2>1. ASSUME NEW s \in 0..(r.slot_count - 1), InUse(r, s)
          PROVE  q.ringbuf[s] = [t_begin |-> JobOf(r, s), t_end |-> JobOf(r, s)]
      <3>1. CASE s = st
        <4>1. st # Dummy /\ JobOf(r, s) = r.write_count
          BY <1>4, <2>1, <3>1 DEF Dummy
        <4>2. r.ringbuf[st].t_begin = r.write_count
          BY <1>9, <4>1 DEF Begun, st
        <4> QED BY <1>5, <1>9, <3>1, <4>1, <4>2
      <3>2. CASE s # st
        BY <1>4, <1>7, <2>1, <3>2
      <3> QED BY <3>1, <3>2
    <2> QED BY <1>1, <1>5, <1>6, <2>1 DEF RingInv
  <1>10. q.overrun_disabled = r.overrun_disabled
    BY <1>1, <1>5 DEF RingbufType
  <1> QED BY <1>5, <1>8, <1>9, <1>10 DEF q, st

(* The modulo of a slot index that has run past the end of the array once. *)
LEMMA ModUpToTwice ==
    ASSUME NEW n \in Nat, n # 0, NEW x \in 0..(2 * n - 1)
    PROVE  x % n = IF x < n THEN x ELSE x - n
  OBVIOUS

(* jobstats_ringbuf_save writes the records of the ring from the oldest on,*)
(* each once, and no others.                                               *)
LEMMA SavedRecordsAre ==
    ASSUME NEW r, NEW pending \in BOOLEAN, RingInv(r, pending)
    PROVE  /\ KeptBy(r) \in 0..r.slot_count
           /\ SavedRecords(r) \in Seq(Slot)
           /\ Len(SavedRecords(r)) = IF r.write_count = 0 THEN 0 ELSE KeptBy(r)
           /\ \A j \in 1..Len(SavedRecords(r)) : SavedRecords(r)[j] = r.ringbuf[NthSlot(r, j)]
           /\ \A j \in 1..Len(SavedRecords(r)) : NthSlot(r, j) \in 0..(r.slot_count - 1)
  <1> DEFINE n          == r.slot_count
             visited(j) == SaveSlot(r, SaveFirst(r) + j - 1)
             last(j)    == visited(j) + 1 = SaveEnd(r)
             count      == CHOOSE j \in 1..n : last(j) /\ \A k \in 1..(j - 1) : ~last(k)
             kept       == KeptBy(r)
  <1>1. /\ RingbufType(r) /\ r.next <= n /\ n # 0
        /\ n \in Nat /\ r.next \in Nat /\ r.write_count \in Nat
        /\ r.overrun \in BOOLEAN /\ r.overrun_disabled \in BOOLEAN
        /\ CountersOf(r)
    BY DEF RingInv, RingbufType
  <1>2. kept \in 0..n /\ (r.write_count # 0 => kept # 0)
    BY <1>1 DEF KeptBy, CountersOf
  <1>3. CASE r.write_count = 0
    <2>1. SavedRecords(r) = <<>>
      BY <1>3 DEF SavedRecords
    <2> QED BY <1>2, <1>3, <2>1
  <1>4. CASE r.write_count # 0
    <2>1. SaveFirst(r) \in 0..n
      BY <1>1 DEF SaveFirst
    <2>2. ASSUME NEW j \in 1..n
          PROVE  visited(j) = IF SaveFirst(r) + j - 1 < n THEN SaveFirst(r) + j - 1
                              ELSE SaveFirst(r) + j - 1 - n
      <3> DEFINE x == SaveFirst(r) + j - 1
      <3>1. x \in 0..(2 * n - 1)
        BY <1>1, <2>1
      <3>2. x % n = IF x < n THEN x ELSE x - n
        <4> HIDE DEF x, n
        <4> QED BY <1>1, <3>1, ModUpToTwice
      <3>3. visited(j) = x % n
        BY DEF SaveSlot
      <3> QED BY <1>1, <2>1, <3>2, <3>3
    <2>3. ASSUME NEW j \in 1..n
          PROVE  last(j) <=> j = kept
      <3> HIDE DEF visited
      <3>1. CASE r.overrun /\ ~r.overrun_disabled
        BY <1>1, <2>2, <3>1 DEF SaveFirst, SaveEnd, KeptBy, CountersOf
      <3>2. CASE ~(r.overrun /\ ~r.overrun_disabled)
        BY <1>1, <1>4, <2>2, <3>2 DEF SaveFirst, SaveEnd, KeptBy, CountersOf
      <3> QED BY <3>1, <3>2
    <2>4. ASSUME NEW j \in 1..kept
          PROVE  visited(j) = NthSlot(r, j) /\ visited(j) \in 0..(n - 1)
      <3> HIDE DEF visited
      <3>1. CASE r.overrun /\ ~r.overrun_disabled
        BY <1>1, <1>2, <2>2, <3>1 DEF SaveFirst, NthSlot, OldestOf, KeptBy, CountersOf
      <3>2. CASE ~(r.overrun /\ ~r.overrun_disabled)
        BY <1>1, <1>2, <2>2, <3>2 DEF SaveFirst, NthSlot, OldestOf, KeptBy, CountersOf
      <3> QED BY <3>1, <3>2
    <2>5. count = kept
      <3> HIDE DEF last, kept
      <3>1. kept \in 1..n /\ last(kept) /\ \A k \in 1..(kept - 1) : ~last(k)
        BY <1>1, <1>2, <1>4, <2>3
      <3>2. count \in 1..n /\ last(count)
        BY <3>1
      <3> QED BY <2>3, <3>2
    <2>6. SavedRecords(r) = [j \in 1..kept |-> r.ringbuf[visited(j)]]
      BY <1>4, <2>5 DEF SavedRecords
    <2> HIDE DEF visited, kept, n
    <2>7. \A j \in 1..kept : r.ringbuf[visited(j)] \in Slot
      BY <1>1, <2>4 DEF RingbufType, n
    <2>8. kept \in Nat
      BY <1>1, <1>2
    <2>9. SavedRecords(r) \in Seq(Slot) /\ Len(SavedRecords(r)) = kept
      BY <2>6, <2>7, <2>8
    <2>10. \A j \in 1..kept : /\ SavedRecords(r)[j] = r.ringbuf[NthSlot(r, j)]
                              /\ NthSlot(r, j) \in 0..(n - 1)
      BY <2>4, <2>6
    <2> QED BY <1>2, <1>4, <2>9, <2>10 DEF kept, n
  <1> QED BY <1>3, <1>4

(* What a saved ring says of the jobs: with the lost ones the records make *)
(* up all that were counted, and they are those of consecutive jobs from   *)
(* jobstats_ringbuf_oldest_pos on, both readings of each, but that of a    *)
(* pending newest job.                                                     *)
LEMMA SaveAccountsForJobs ==
    ASSUME NEW r, NEW pending \in BOOLEAN, RingInv(r, pending)
    PROVE  /\ jobstats_ringbuf_oldest_pos(r) \in Nat
           /\ jobstats_ringbuf_lost_count(r) \in Nat
           /\ Len(SavedRecords(r)) + jobstats_ringbuf_lost_count(r) = r.write_count
           /\ \A j \in 1..Len(SavedRecords(r)) :
                 LET k == jobstats_ringbuf_oldest_pos(r) + j - 1
                 IN \/ SavedRecords(r)[j] = [t_begin |-> k, t_end |-> k]
                    \/ pending /\ k = r.write_count
  <1> DEFINE n == r.slot_count
             oldest == jobstats_ringbuf_oldest_pos(r)
  <1>1. /\ r.next <= n /\ n # 0
        /\ n \in Nat /\ r.next \in Nat /\ r.write_count \in Nat
        /\ r.overrun_count \in Nat
        /\ r.overrun \in BOOLEAN /\ r.overrun_disabled \in BOOLEAN
        /\ CountersOf(r)
    BY DEF RingInv, RingbufType
  <1>2. jobstats_ringbuf_overrun(r) <=> r.overrun
    BY <1>1 DEF jobstats_ringbuf_overrun, CountersOf
  <1>3. oldest = IF r.write_count = 0 THEN 0
                 ELSE IF r.overrun_disabled \/ ~r.overrun THEN 1
                 ELSE r.write_count - n + 1
    BY <1>2 DEF jobstats_ringbuf_oldest_pos
  <1>4. jobstats_ringbuf_lost_count(r) = IF r.overrun THEN r.write_count - n ELSE 0
    BY <1>1, <1>2, <1>3 DEF jobstats_ringbuf_lost_count, CountersOf
  <1> HIDE DEF oldest
  <1>5. Len(SavedRecords(r)) = (IF r.write_count = 0 THEN 0 ELSE KeptBy(r))
    BY SavedRecordsAre
  <1>6. /\ oldest \in Nat /\ jobstats_ringbuf_lost_count(r) \in Nat
        /\ Len(SavedRecords(r)) + jobstats_ringbuf_lost_count(r) = r.write_count
    BY <1>1, <1>3, <1>4, <1>5 DEF KeptBy, CountersOf
  <1>7. ASSUME NEW j \in 1..Len(SavedRecords(r))
        PROVE  \/ SavedRecords(r)[j] = [t_begin |-> oldest + j - 1, t_end |-> oldest + j - 1]
               \/ pending /\ oldest + j - 1 = r.write_count
    <2> DEFINE s == NthSlot(r, j)
    <2>1. SavedRecords(r)[j] = r.ringbuf[s] /\ s \in 0..(n - 1)
      BY SavedRecordsAre
    <2>2. r.write_count # 0 /\ j \in 1..KeptBy(r)
      BY <1>1, <1>5, <1>7
    <2>3. InUse(r, s)
      BY <1>1, <2>2 DEF InUse, NthSlot, OldestOf, KeptBy, CountersOf
    <2>4. JobOf(r, s) = oldest + j - 1
      <3>1. CASE r.overrun /\ ~r.overrun_disabled
        <4>1. s = IF r.next = n THEN j - 1
                  ELSE IF r.next + j - 1 < n THEN r.next + j - 1 ELSE r.next + j - 1 - n
          BY <1>1, <2>2, <3>1 DEF NthSlot, OldestOf, KeptBy
        <4>2. oldest = r.write_count - n + 1 /\ j \in 1..n
          BY <1>3, <2>2, <3>1 DEF KeptBy
        <4> HIDE DEF s, n
        <4>3. s \in Int /\ JobOf(r, s) = IF s < r.next THEN r.write_count - r.next + s + 1
                                         ELSE r.write_count - r.next - n + s + 1
          BY <1>1, <3>1, <4>1, <4>2 DEF JobOf, n
        <4>4. CASE r.next = n
          BY <1>1, <4>1, <4>2, <4>3, <4>4
        <4>5. CASE r.next # n /\ r.next + j - 1 < n
          BY <1>1, <4>1, <4>2, <4>3, <4>5, SMTT(30)
        <4>6. CASE r.next # n /\ ~(r.next + j - 1 < n)
          <5>1. s = r.next + j - 1 - n
            BY <4>1, <4>6
          <5>2. s < r.next
            BY <1>1, <4>2, <5>1
          <5>3. JobOf(r, s) = r.write_count - r.next + s + 1
            BY <4>3, <5>2
          <5> DEFINE w == r.write_count
                     x == r.next
          <5>4. /\ w \in Nat /\ x \in Nat /\ n \in Nat /\ j \in 1..n
                /\ oldest = w - n + 1 /\ s = x + j - 1 - n /\ JobOf(r, s) = w - x + s + 1
            BY <1>1, <4>2, <5>1, <5>3
          <5> HIDE DEF w, x
          <5> QED BY <5>4
        <4> QED BY <4>4, <4>5, <4>6
      <3>2. CASE ~(r.overrun /\ ~r.overrun_disabled)
        <4>1. s = j - 1 /\ oldest = 1
          BY <1>1, <1>3, <2>2, <3>2 DEF NthSlot, OldestOf, KeptBy, CountersOf
        <4>2. s < r.next /\ (~r.overrun_disabled => r.write_count = r.next)
          BY <1>1, <2>2, <3>2, <4>1 DEF KeptBy, CountersOf
        <4> HIDE DEF s
        <4> QED BY <1>1, <4>1, <4>2, <2>2 DEF JobOf
      <3> QED BY <3>1, <3>2
    <2> HIDE DEF s
    <2> QED BY <2>1, <2>3, <2>4 DEF RingInv
  <1> QED BY <1>6, <1>7 DEF oldest

==============================================================================
