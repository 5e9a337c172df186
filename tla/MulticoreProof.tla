--------------------------- MODULE MulticoreProof ---------------------------
(***************************************************************************)
(* What multicore_means_parallel_threads and the parts of utility_cpu.c    *)
(* and utility_file.c under it keep for all their parameters: whatever     *)
(* governors, frequencies and durations there are, and whatever fails.     *)
(***************************************************************************)
EXTENDS Multicore, SequenceTheorems, FiniteSetTheorems, TLAPS

(* Each step of Script acts on the processor that its place says.          *)
LEMMA ScriptSteps ==
    /\ Len(Script) = 14
    /\ \A k \in 1..14 :
          /\ Script[k].cpu \in Cpus
          /\ Script[k].op = "get_last_cpu" => k = 1
          /\ Script[k].op = "save" => k = 2 + Script[k].cpu
          /\ Script[k].op = "set" => k = 4 + Script[k].cpu
          /\ Script[k].op = "busyloop" => k = 6 + Script[k].cpu
          /\ Script[k].op = "barrier_init" => k = 8
          /\ Script[k].op = "create" => k = 9 + Script[k].cpu
          /\ Script[k].op = "barrier_wait" => k = 11
          /\ Script[k].op = "join" => k = 12 + Script[k].cpu
          /\ Script[k].op = "compare" => k = 14
  BY DEF Script, Op, Cpus

(* And each step of Cleanup.                                               *)
LEMMA CleanupSteps ==
    \A k \in 1..5 :
          /\ Cleanup[k].cpu \in Cpus
          /\ Cleanup[k].op = "destroy" => k = 2 - Cleanup[k].cpu
          /\ Cleanup[k].op = "restore" => k = 4 - Cleanup[k].cpu
          /\ Cleanup[k].op = "barrier_destroy" => k = 5
  BY DEF Cleanup, Op, Cpus

-----------------------------------------------------------------------------
(* Where main is in its steps.                                             *)
StepsInv ==
    /\ status = "begin" => step = 1
    /\ status = "cleanup" => step \in 1..5

(* What has been saved is what was there first, except that processor 0    *)
(* has its frequency set already when main saves its governor; and from    *)
(* the step that restores it on, a governor is as it was or is reported.   *)
GovernorsInv ==
    /\ IF default_gov = NULL THEN status \in {"begin", "exit", "exited"} /\ governor[0] = initially[0]
                             ELSE default_gov = initially[0]
    /\ gov_cpu[1] = NULL => governor[1] = initially[1]
    /\ gov_cpu[1] # NULL => gov_cpu[1] = initially[1]
    /\ status = "begin" => default_gov = NULL /\ gov_cpu[1] = NULL
    /\ status = "run" /\ step <= 3 => gov_cpu[1] = NULL
    /\ status = "run" /\ step >= 4 => gov_cpu[1] # NULL
    /\ (status = "cleanup" /\ step > 3) \/ status \in {"exit", "exited"}
          => governor[1] = initially[1] \/ 1 \in reported
    /\ status = "exited" => governor[0] = initially[0] \/ 0 \in reported

FrequencySet(c) == governor[c] = "userspace" \/ c \in unnoticed

(* What the steps up to the barrier have made ready.                       *)
LoopsInv ==
    status = "run" => \A c \in Cpus : /\ step > 4 + c => FrequencySet(c)
                                      /\ step > 6 + c => loop[c] = "made"

(* Everybody has arrived at the barrier.                                   *)
Opened == barrier.released # {} \/ \E c \in Cpus : thread[c].pc \in {"busy", "done"}

AtBarrier == barrier.waiting \cup barrier.released

Ready == {"barrier_wait", "busy", "done"}

ThreadsInv ==
    \A c \in Cpus :
        /\ status = "begin" \/ (status = "run" /\ step <= 9 + c) => thread[c].pc = "none"
        /\ thread[c].pc \in Ready \cup {"fifo"} => thread[c].cpu = c
        /\ thread[c].pc \in Ready => thread[c].fifo
        /\ status = "exited" => thread[c].pc \in {"none", "done"}

WaitingInv ==
    /\ barrier.waiting \cap barrier.released = {}
    /\ Main \in AtBarrier => status = "run" /\ step = 11
    /\ status # "exited" => \A c \in Cpus : c \in AtBarrier => thread[c].pc = "barrier_wait"

(* Once the barrier is open nobody is left behind it, main is there or     *)
(* past it, and past the joins both threads have ended.                    *)
OpenedInv ==
    /\ status = "run" /\ step >= 12 => Opened
    /\ Opened /\ status # "exited" =>
          /\ barrier.waiting = {}
          /\ \A c \in Cpus : /\ thread[c].pc \in Ready
                             /\ thread[c].pc = "barrier_wait" => c \in barrier.released
          /\ status = "run" => /\ step >= 11
                               /\ step = 11 => Main \in barrier.released
          /\ \A c \in Cpus : status # "run" \/ step > 12 + c => thread[c].pc = "done"

IInv ==
    /\ TypeOK /\ LoopWasMeasured
    /\ StepsInv /\ GovernorsInv /\ LoopsInv /\ ThreadsInv /\ WaitingInv /\ OpenedInv

-----------------------------------------------------------------------------
(* The search for a busy loop: what one of its steps may be.               *)
SearchStep ==
    \/ \E f \in Frequencies \cup {0} : CreateCpuBusyloop(f)
    \/ \E res \in {0, -1, -3} : BusyloopSearchThread(res)
    \/ \E actual \in Measurements \cup {-1} : BusyloopSearch(actual)
    \/ search' = NoSearch
    \/ UNCHANGED search

(* A search from its fields.                                               *)
SearchOf(st, freq, nth, count, measured, actual, res) ==
    [state |-> st, curr_freq |-> freq, nth_pass |-> nth, loop_count |-> count,
     measured |-> measured, actual |-> actual, rc |-> res]

LEMMA SearchTypeIs ==
    SearchTypeOK =>
        \E st \in {"idle", "thread", "pass", "done"}, freq \in {0} \cup Frequencies, nth \in 1..MAX_PASSES,
           count \in 0..ULONG_MAX, measured \in -1..ULONG_MAX, actual \in {-1} \cup Measurements,
           res \in -4..0 : search = SearchOf(st, freq, nth, count, measured, actual, res)
  BY DEF SearchTypeOK, SearchOf

(* What two changes of fields make of it.                                  *)
LEMMA DoneIs ==
    ASSUME NEW st, NEW freq, NEW nth, NEW count, NEW measured, NEW actual, NEW res, NEW res2
    PROVE  Done(SearchOf(st, freq, nth, count, measured, actual, res), res2)
             = SearchOf("done", freq, nth, count, measured, actual, res2)
<1> DEFINE s == SearchOf(st, freq, nth, count, measured, actual, res)
<1>1. PICK s1 : s1 = [s EXCEPT !.state = "done"]
  OBVIOUS
<1>2. s1 = SearchOf("done", freq, nth, count, measured, actual, res)
  BY <1>1 DEF SearchOf
<1>3. Done(s, res2) = [s1 EXCEPT !.rc = res2]
  BY <1>1 DEF Done
<1>4. [s1 EXCEPT !.rc = res2] = SearchOf("done", freq, nth, count, measured, actual, res2)
  BY <1>2 DEF SearchOf
<1> QED BY <1>3, <1>4

LEMMA MeasuredIs ==
    ASSUME NEW st, NEW freq, NEW nth, NEW count, NEW measured, NEW last, NEW res, NEW actual,
           search = SearchOf(st, freq, nth, count, measured, last, res)
    PROVE  Measured(actual) = SearchOf(st, freq, nth, count, count, actual, res)
<1>1. PICK s1 : s1 = [search EXCEPT !.measured = search.loop_count]
  OBVIOUS
<1>2. s1 = SearchOf(st, freq, nth, count, count, last, res)
  BY <1>1 DEF SearchOf
<1>3. Measured(actual) = [s1 EXCEPT !.actual = actual]
  BY <1>1 DEF Measured
<1>4. [s1 EXCEPT !.actual = actual] = SearchOf(st, freq, nth, count, count, actual, res)
  BY <1>2 DEF SearchOf
<1> QED BY <1>3, <1>4

NextPass(s, count) == [s EXCEPT !.nth_pass = @ + 1, !.loop_count = count]

LEMMA NextPassIs ==
    ASSUME NEW st, NEW freq, NEW nth, NEW count, NEW measured, NEW actual, NEW res, NEW count2,
           NEW s, s = SearchOf(st, freq, nth, count, measured, actual, res)
    PROVE  NextPass(s, count2)
             = SearchOf(st, freq, nth + 1, count2, measured, actual, res)
<1>1. PICK s1 : s1 = [s EXCEPT !.nth_pass = @ + 1]
  OBVIOUS
<1>2. s1 = SearchOf(st, freq, nth + 1, count, measured, actual, res)
  BY <1>1 DEF SearchOf
<1>3. NextPass(s, count2) = [s1 EXCEPT !.loop_count = count2]
  BY <1>1 DEF NextPass
<1>4. [s1 EXCEPT !.loop_count = count2] = SearchOf(st, freq, nth + 1, count2, measured, actual, res)
  BY <1>2 DEF SearchOf
<1> QED BY <1>3, <1>4

LEMMA BeginningIs ==
    ASSUME NEW freq, NEW count
    PROVE  [[NoSearch EXCEPT !.curr_freq = freq, !.loop_count = count] EXCEPT !.state = "thread"]
             = SearchOf("thread", freq, 1, count, -1, -1, 0)
<1>1. PICK s1 : s1 = [NoSearch EXCEPT !.curr_freq = freq]
  OBVIOUS
<1>2. s1 = SearchOf("idle", freq, 1, 0, -1, -1, 0)
  BY <1>1 DEF SearchOf, NoSearch
<1>3. PICK s2 : s2 = [s1 EXCEPT !.loop_count = count]
  OBVIOUS
<1>4. s2 = SearchOf("idle", freq, 1, count, -1, -1, 0)
  BY <1>2, <1>3 DEF SearchOf
<1>5. [NoSearch EXCEPT !.curr_freq = freq, !.loop_count = count] = s2
  BY <1>1, <1>3
<1>6. [s2 EXCEPT !.state = "thread"] = SearchOf("thread", freq, 1, count, -1, -1, 0)
  BY <1>4 DEF SearchOf
<1> QED BY <1>5, <1>6

(* What a new search has to be.                                            *)
LEMMA SearchIsKept ==
    ASSUME NEW st \in {"idle", "thread", "pass", "done"}, NEW freq \in {0} \cup Frequencies,
           NEW nth \in 1..MAX_PASSES, NEW count \in 0..ULONG_MAX, NEW measured \in -1..ULONG_MAX,
           NEW actual \in {-1} \cup Measurements, NEW res \in -4..0,
           search' = SearchOf(st, freq, nth, count, measured, actual, res),
           st = "done" /\ res = 0 => count = measured /\ (Near(actual) \/ nth = MAX_PASSES)
    PROVE  SearchTypeOK' /\ LoopWasMeasured'
  BY DEF SearchTypeOK, SearchOf, LoopWasMeasured, Near

(* What the correction of a pass makes of loop_count fits into it.         *)
LEMMA CorrectionsFit ==
    ASSUME NEW n \in 0..ULONG_MAX, NEW d \in Nat
    PROVE  /\ (n + d) % (ULONG_MAX + 1) \in 0..ULONG_MAX
           /\ d <= n => n - d \in 0..ULONG_MAX
  BY UtilityCpuAssumption

LEMMA SearchKept ==
    ASSUME SearchTypeOK, LoopWasMeasured, SearchStep
    PROVE  SearchTypeOK' /\ LoopWasMeasured'
<1> DEFINE Kept == SearchTypeOK' /\ LoopWasMeasured'
<1> HIDE DEF Kept
<1>0. PICK st \in {"idle", "thread", "pass", "done"}, freq \in {0} \cup Frequencies, nth \in 1..MAX_PASSES,
           n \in 0..ULONG_MAX, measured \in -1..ULONG_MAX, last \in {-1} \cup Measurements,
           result \in -4..0 : search = SearchOf(st, freq, nth, n, measured, last, result)
  BY SearchTypeIs
<1>b. /\ freq \in Nat /\ n \in Nat /\ n \in -1..ULONG_MAX
       /\ {0, -2, -3, -4} \subseteq -4..0 /\ -1 \in -1..ULONG_MAX /\ 0 \in 0..ULONG_MAX /\ 1 \in 1..MAX_PASSES
  BY UtilityCpuAssumption
<1>a. ASSUME NEW st2 \in {"idle", "thread", "pass", "done"}, NEW freq2 \in {0} \cup Frequencies,
             NEW nth2 \in 1..MAX_PASSES, NEW count2 \in 0..ULONG_MAX,
             NEW measured2 \in -1..ULONG_MAX, NEW last2 \in {-1} \cup Measurements,
             NEW res2 \in -4..0, st2 # "done" \/ res2 # 0,
             search' = SearchOf(st2, freq2, nth2, count2, measured2, last2, res2)
      PROVE  Kept
  BY <1>a, SearchIsKept DEF Kept
<1>1. search' = NoSearch => Kept
  <2>1. NoSearch = SearchOf("idle", 0, 1, 0, -1, -1, 0)
    BY DEF NoSearch, SearchOf
  <2> QED BY <2>1, <1>b, <1>a
<1>2. UNCHANGED search => Kept
  BY DEF Kept, SearchTypeOK, LoopWasMeasured, Near
<1>3. ASSUME NEW f \in Frequencies \cup {0}, CreateCpuBusyloop(f)
      PROVE  Kept
  <2> DEFINE p == f * DURATION
  <2>1. p \in Nat
    BY UtilityCpuAssumption
  <2>2. search' = IF p > ULONG_MAX THEN SearchOf("done", 0, 1, 0, -1, -1, -4)
                                   ELSE SearchOf("thread", f, 1, p, -1, -1, 0)
    <3>1. NoSearch = SearchOf("idle", 0, 1, 0, -1, -1, 0)
      BY DEF NoSearch, SearchOf
    <3>2. Done(NoSearch, -4) = SearchOf("done", 0, 1, 0, -1, -1, -4)
      BY <3>1, DoneIs
    <3>3. [[NoSearch EXCEPT !.curr_freq = f, !.loop_count = p] EXCEPT !.state = "thread"]
            = SearchOf("thread", f, 1, p, -1, -1, 0)
      BY BeginningIs
    <3> QED BY <1>3, <3>2, <3>3 DEF CreateCpuBusyloop
  <2> HIDE DEF p
  <2>3. p > ULONG_MAX \/ p \in 0..ULONG_MAX
    BY <2>1, UtilityCpuAssumption
  <2>4. CASE p > ULONG_MAX
    BY <2>2, <2>4, <1>b, <1>a
  <2>5. CASE p \in 0..ULONG_MAX
    <3>1. ~(p > ULONG_MAX)
      BY <2>5, UtilityCpuAssumption
    <3> QED BY <2>2, <2>5, <3>1, <1>b, <1>a
  <2> QED BY <2>3, <2>4, <2>5
<1>4. ASSUME NEW res \in {0, -1, -3}, BusyloopSearchThread(res)
      PROVE  Kept
  <2>1. CASE res = 0
    <3>1. search' = SearchOf("pass", freq, nth, n, measured, last, result)
      BY <1>0, <1>4, <2>1 DEF BusyloopSearchThread, SearchOf
    <3> QED BY <3>1, <1>a
  <2>2. CASE res # 0
    <3>1. search' = SearchOf("done", freq, nth, n, measured, last, res)
      BY <1>0, <1>4, <2>2 DEF BusyloopSearchThread, SearchOf, Done
    <3>2. res \in -4..0
      OBVIOUS
    <3> QED BY <3>1, <3>2, <2>2, <1>a
  <2> QED BY <2>1, <2>2
<1>5. ASSUME NEW actual \in Measurements \cup {-1}, BusyloopSearch(actual)
      PROVE  Kept
  <2> DEFINE Ends(res) == SearchOf("done", freq, nth, n, n, actual, res)
  <2>0. Measured(actual) = SearchOf(st, freq, nth, n, n, actual, result)
    BY <1>0, MeasuredIs
  <2>1. \A res : Done(Measured(actual), res) = Ends(res)
    BY <2>0, DoneIs
  <2>2. ASSUME NEW res \in {-2, -3}, search' = Ends(res)
        PROVE  Kept
    <3>1. res \in -4..0 /\ res # 0
      OBVIOUS
    <3> QED BY <2>2, <3>1, <1>b, <1>a
  <2>3. CASE PassEnds(actual)
    <3>1. CASE search' = Done(Measured(actual), -3)
      BY <3>1, <2>1, <2>2
    <3>2. CASE /\ search.nth_pass = MAX_PASSES \/ Near(actual)
               /\ search' = Done(Measured(actual), 0)
      <4>1. search' = Ends(0) /\ (Near(actual) \/ nth = MAX_PASSES)
        BY <3>2, <2>1, <1>0 DEF SearchOf
      <4> QED BY <4>1, <1>b, SearchIsKept DEF Kept
    <3> QED BY <2>3, <3>1, <3>2 DEF PassEnds
  <2>4. CASE PassCorrects(actual)
    <3> DEFINE d == Correction(actual)
    <3>1. d \in Nat
      <4>1. actual \in Nat /\ DURATION \in Nat
        BY <2>4, UtilityCpuAssumption DEF PassCorrects
      <4>2. Abs(actual - DURATION) \in Nat
        BY <4>1 DEF Abs
      <4> QED BY <1>0, <1>b, <4>2 DEF Correction, SearchOf
    <3> HIDE DEF d
    <3>2. /\ (n + d) % (ULONG_MAX + 1) \in 0..ULONG_MAX
          /\ d <= n => n - d \in 0..ULONG_MAX
      BY <3>1, CorrectionsFit
    <3>3. Correct(actual) /\ search.nth_pass < MAX_PASSES
      BY <2>4 DEF PassCorrects
    <3>3b. nth + 1 \in 1..MAX_PASSES
      BY <1>0, <3>3, UtilityCpuAssumption DEF SearchOf
    <3> DEFINE Goes(count) == SearchOf("pass", freq, nth + 1, count, n, actual, result)
    <3>4. ASSUME NEW count \in 0..ULONG_MAX, search' = Goes(count), st = "pass"
          PROVE  Kept
      BY <1>b, <3>3b, <3>4, <1>a
    <3>5. ASSUME st = "pass", NEW count
          PROVE  [Measured(actual) EXCEPT !.nth_pass = @ + 1, !.loop_count = count] = Goes(count)
      <4>1. NextPass(Measured(actual), count) = Goes(count)
        BY <2>0, <3>5, NextPassIs
      <4> QED BY <4>1 DEF NextPass
    <3>6. search.loop_count = n /\ st = "pass"
      BY <1>0, <1>5 DEF SearchOf, BusyloopSearch
    <3>7. \/ \E res \in {-2, -3} : search' = Done(Measured(actual), res)
          \/ search' = Goes((n + d) % (ULONG_MAX + 1))
          \/ d <= n /\ search' = Goes(n - d)
      <4> HIDE DEF Goes
      <4> QED BY <3>3, <3>5, <3>6 DEF Correct, d
    <3> QED BY <3>7, <3>6, <3>4, <3>2, <2>1, <2>2
  <2> QED BY <1>5, <2>3, <2>4 DEF BusyloopSearch
<1> QED BY <1>1, <1>2, <1>3, <1>4, <1>5 DEF SearchStep, Kept

-----------------------------------------------------------------------------
(* The reading of a file.                                                  *)
FileFields == {"pc", "text", "line", "feof", "ferror", "buffer", "ptr", "proc_count", "rc"}

Stored == Bytes \cup {"NUL", "?"}

FileType ==
    /\ DOMAIN file = FileFields
    /\ file.text \in Seq(Bytes) /\ file.buffer \in Seq(Stored)
    /\ file.line \in 0..Len(file.text) /\ file.ptr \in Nat /\ file.proc_count \in Nat
    /\ file.feof \in BOOLEAN

LineStartsAt(text, k) == k = 0 \/ text[k] = "\n"

ProcessorsUpTo(text, k) == {i \in ProcessorLines(text) : i <= k}

(* The first ptr bytes of the buffer are the text from the line on, and    *)
(* none of them ends the line.                                             *)
Holds(buffer, ptr, text, k) ==
    /\ ptr < Len(buffer) /\ k + ptr <= Len(text)
    /\ \A i \in 1..ptr : buffer[i] = text[k + i] /\ text[k + i] # "\n"

(* The line that is being read, or that has been read.                     *)
LineInv ==
    FileAt("fgetc") \/ FileAt("line") =>
        /\ LineStartsAt(file.text, file.line)
        /\ Holds(file.buffer, file.ptr, file.text, file.line)
        /\ file.proc_count = Cardinality(ProcessorsUpTo(file.text, file.line))

LineEndInv ==
    /\ FileAt("fgetc") => ~file.feof /\ Len(file.text) = file.line + file.ptr
    /\ FileAt("line") =>
          /\ file.buffer[file.ptr + 1] = "NUL"
          /\ file.feof => Len(file.text) = file.line + file.ptr
          /\ ~file.feof => /\ Len(file.text) = file.line + file.ptr + 1
                          /\ file.text[Len(file.text)] = "\n"

(* Between two lines, and after the last.                                  *)
CountInv ==
    /\ FileAt("readln") =>
          /\ file.line = Len(file.text) /\ file.ptr = 0
          /\ ~file.feof => LineStartsAt(file.text, file.line)
          /\ file.proc_count = Cardinality(ProcessorLines(file.text))
    /\ FileAt("close") =>
          \/ file.rc = -2 /\ ~file.feof
          \/ file.rc = -1 /\ file.feof /\ file.proc_count = Cardinality(ProcessorLines(file.text))
    /\ FileAt("returned") =>
          file.rc = IF file.feof THEN Cardinality(ProcessorLines(file.text)) - 1 ELSE -1

FileInv == FileType /\ LineInv /\ LineEndInv /\ CountInv

(* The lines that count are finitely many.                                 *)
LEMMA LinesAreFinite ==
    ASSUME NEW text \in Seq(Bytes)
    PROVE  /\ IsFiniteSet(ProcessorLines(text))
           /\ \A k : IsFiniteSet(ProcessorsUpTo(text, k))
           /\ Cardinality(ProcessorLines(text)) \in Nat
           /\ \A k : Cardinality(ProcessorsUpTo(text, k)) \in Nat
<1>1. IsFiniteSet(1..(Len(text) - 1))
  BY FS_Interval
<1>2. IsFiniteSet(ProcessorLines(text))
  BY <1>1, FS_Subset DEF ProcessorLines
<1>3. \A k : IsFiniteSet(ProcessorsUpTo(text, k))
  BY <1>2, FS_Subset DEF ProcessorsUpTo
<1> QED BY <1>2, <1>3, FS_CardinalityType

(* What is read after a line has begun changes nothing about those before. *)
LEMMA EarlierLines ==
    ASSUME NEW text \in Seq(Bytes), NEW c \in Bytes, NEW k \in 0..Len(text), LineStartsAt(text, k)
    PROVE  ProcessorsUpTo(Append(text, c), k) = ProcessorsUpTo(text, k)
<1> DEFINE more == Append(text, c)
           P(t, i) == (i = 1 \/ t[i - 1] = "\n") /\ t[i] = "p" /\ t[i + 1] = " "
<1>0. Len(text) \in Nat /\ k \in Nat
  BY LenProperties
<1>1. Len(more) = Len(text) + 1 /\ \A i \in 1..Len(text) : more[i] = text[i]
  OBVIOUS
<1>2. \A t : ProcessorsUpTo(t, k) = {i \in 1..(Len(t) - 1) : i <= k /\ P(t, i)}
  BY DEF ProcessorsUpTo, ProcessorLines
<1> HIDE DEF more
<1>3. ASSUME NEW i \in 1..k
      PROVE  /\ i \in 1..(Len(text) - 1) /\ P(text, i) => i \in 1..(Len(more) - 1) /\ P(more, i)
             /\ i \in 1..(Len(more) - 1) /\ P(more, i) => i \in 1..(Len(text) - 1) /\ P(text, i)
  <2>1. CASE i = k
    <3>1. text[i] = "\n" /\ more[i] = "\n"
      BY <1>1, <2>1 DEF LineStartsAt
    <3> QED BY <3>1
  <2>2. CASE i < k
    <3>1. i \in 1..(Len(text) - 1) /\ i \in 1..(Len(more) - 1)
      BY <1>1, <2>2
    <3>2. /\ more[i] = text[i] /\ more[i + 1] = text[i + 1]
          /\ i # 1 => more[i - 1] = text[i - 1]
      BY <1>1, <2>2
    <3> QED BY <3>1, <3>2
  <2> HIDE DEF P
  <2>3. i = k \/ i < k
    BY <1>0
  <2> QED BY <2>1, <2>2, <2>3
<1>4. \A i : i \in ProcessorsUpTo(more, k) <=> i \in ProcessorsUpTo(text, k)
  <2>1. ASSUME NEW i \in ProcessorsUpTo(more, k)
        PROVE  i \in ProcessorsUpTo(text, k)
    <3>1. i \in 1..(Len(more) - 1) /\ i <= k /\ P(more, i)
      BY <1>2
    <3> HIDE DEF P
    <3>2. i \in 1..k
      BY <3>1, <1>0, <1>1
    <3>3. i \in 1..(Len(text) - 1) /\ P(text, i)
      BY <3>1, <3>2, <1>3
    <3> QED BY <1>2, <3>1, <3>3
  <2>2. ASSUME NEW i \in ProcessorsUpTo(text, k)
        PROVE  i \in ProcessorsUpTo(more, k)
    <3>1. i \in 1..(Len(text) - 1) /\ i <= k /\ P(text, i)
      BY <1>2
    <3> HIDE DEF P
    <3>2. i \in 1..k
      BY <3>1, <1>0
    <3>3. i \in 1..(Len(more) - 1) /\ P(more, i)
      BY <3>1, <3>2, <1>3
    <3> QED BY <1>2, <3>1, <3>3
  <2> QED BY <2>1, <2>2
<1>5. ProcessorsUpTo(more, k) \subseteq 1..(Len(more) - 1) /\ ProcessorsUpTo(text, k) \subseteq 1..(Len(text) - 1)
  BY <1>2
<1> QED BY <1>4, <1>5 DEF more

(* The line that begins at k counts or not: it is in the buffer, with a    *)
(* NUL after it.                                                           *)
LEMMA LineCounted ==
    ASSUME NEW text \in Seq(Bytes), NEW buffer \in Seq(Stored), NEW k \in 0..Len(text), NEW ptr \in Nat,
           LineStartsAt(text, k), Holds(buffer, ptr, text, k), buffer[ptr + 1] = "NUL",
           \/ Len(text) = k + ptr
           \/ Len(text) = k + ptr + 1 /\ text[Len(text)] = "\n"
    PROVE  Cardinality(ProcessorLines(text))
             = IF IsProcessor(buffer) THEN Cardinality(ProcessorsUpTo(text, k)) + 1
                                      ELSE Cardinality(ProcessorsUpTo(text, k))
<1> DEFINE all == ProcessorLines(text)
           old == ProcessorsUpTo(text, k)
<1>1. old \subseteq all /\ \A i \in all : i <= k => i \in old
  BY DEF ProcessorsUpTo
<1>2. k + 1 \notin old
  BY DEF ProcessorsUpTo
<1>3. ASSUME NEW i \in all, i > k
      PROVE  i = k + 1
  <2>1. i \in 1..(Len(text) - 1) /\ (i = 1 \/ text[i - 1] = "\n")
    BY DEF ProcessorLines
  <2>2. SUFFICES ASSUME i > k + 1 PROVE FALSE
    BY <1>3, <2>1
  <2>3. text[i - 1] = "\n" /\ i - 1 \in (k + 1)..(Len(text) - 2)
    BY <2>1, <2>2
  <2>4. i - 1 - k \in 1..ptr /\ k + (i - 1 - k) = i - 1
    BY <2>3
  <2> QED BY <2>3, <2>4 DEF Holds
<1>4. k + 1 \in all <=> IsProcessor(buffer)
  <2>1. k + 1 \in all <=> k + 2 <= Len(text) /\ text[k + 1] = "p" /\ text[k + 2] = " "
    <3>1. (k + 1) - 1 = k /\ (k + 1) + 1 = k + 2 /\ (k + 1 = 1 <=> k = 0)
          /\ (k + 1 \in 1..(Len(text) - 1) <=> k + 2 <= Len(text))
      OBVIOUS
    <3> QED BY <3>1 DEF ProcessorLines, LineStartsAt
  <2>2. \A i \in 1..ptr : buffer[i] = text[k + i] /\ text[k + i] # "\n"
    BY DEF Holds
  <2>3. ptr \in Nat /\ ptr < Len(buffer) /\ Len(buffer) \in Nat
    BY DEF Holds
  <2>4. CASE ptr >= 2
    <3>1. buffer[1] = text[k + 1] /\ buffer[2] = text[k + 2]
      BY <2>2, <2>4
    <3>2. Len(buffer) > 1 /\ k + 2 <= Len(text)
      BY <2>3, <2>4
    <3> QED BY <2>1, <3>1, <3>2 DEF IsProcessor
  <2>5. CASE ptr = 1
    <3>1. buffer[2] = "NUL"
      BY <2>5
    <3>2. k + 2 <= Len(text) => text[k + 2] = "\n"
      BY <2>5
    <3> QED BY <2>1, <3>1, <3>2 DEF IsProcessor
  <2>6. CASE ptr = 0
    <3>1. buffer[1] = "NUL"
      BY <2>6
    <3>2. ~(k + 2 <= Len(text))
      BY <2>6
    <3> QED BY <2>1, <3>1, <3>2 DEF IsProcessor
  <2> QED BY <2>3, <2>4, <2>5, <2>6
<1>5. all = IF IsProcessor(buffer) THEN old \cup {k + 1} ELSE old
  <2>1. \A i \in all : i <= k \/ i > k
    <3>1. Len(text) \in Nat /\ k \in Nat
      BY LenProperties
    <3>2. all \subseteq 1..(Len(text) - 1)
      BY DEF ProcessorLines
    <3> HIDE DEF all
    <3> QED BY <3>1, <3>2
  <2> HIDE DEF all, old
  <2>2. \A i \in all : i \in old \/ i = k + 1
    BY <1>1, <1>3, <2>1
  <2>3. CASE IsProcessor(buffer)
    BY <1>1, <1>4, <2>2, <2>3
  <2>4. CASE ~IsProcessor(buffer)
    <3>1. all \subseteq old
      BY <1>4, <2>2, <2>4
    <3> QED BY <1>1, <2>4, <3>1
  <2> QED BY <2>3, <2>4
<1>6. IsFiniteSet(old)
  BY LinesAreFinite
<1>7. Cardinality(old \cup {k + 1}) = Cardinality(old) + 1
  BY <1>2, <1>6, FS_AddElement
<1> QED BY <1>5, <1>7

(* A byte that does not end the line is stored behind the others, and      *)
(* what has been stored survives the growth of the buffer.                 *)
LEMMA StoredBehind ==
    ASSUME NEW text \in Seq(Bytes), NEW buffer \in Seq(Stored), NEW k \in 0..Len(text), NEW ptr \in Nat,
           Holds(buffer, ptr, text, k), Len(text) = k + ptr, NEW c \in Bytes, c # "\n",
           NEW stored, stored = [i \in DOMAIN buffer |-> IF i = ptr + 1 THEN c ELSE buffer[i]]
    PROVE  /\ stored \in Seq(Stored) /\ Len(stored) = Len(buffer)
           /\ Enlarged(stored) \in Seq(Stored) /\ Len(Enlarged(stored)) = Len(stored) + BUFFER_INC
           /\ ptr + 1 < Len(stored) => Holds(stored, ptr + 1, Append(text, c), k)
           /\ Holds(Enlarged(stored), ptr + 1, Append(text, c), k)
<1> DEFINE more == Append(text, c)
           big == Enlarged(stored)
<1>1. stored \in Seq(Stored) /\ Len(stored) = Len(buffer)
  BY DEF Stored
<1>2. big \in Seq(Stored) /\ Len(big) = Len(stored) + BUFFER_INC
      /\ \A i \in 1..Len(stored) : big[i] = stored[i]
  <2>1. PICK new : new = [i \in 1..BUFFER_INC |-> "?"]
    OBVIOUS
  <2>2. new \in Seq(Stored) /\ Len(new) = BUFFER_INC
    BY <2>1, UtilityFileAssumption DEF Stored
  <2>3. big = stored \o new
    BY <2>1 DEF Enlarged
  <2> HIDE DEF big
  <2>4. big \in Seq(Stored) /\ Len(big) = Len(stored) + BUFFER_INC
    BY <1>1, <2>3, <2>2, ConcatProperties
  <2>5. \A i \in 1..Len(stored) : big[i] = stored[i]
    BY <1>1, <2>3, <2>2, ConcatProperties, UtilityFileAssumption
  <2> QED BY <2>4, <2>5
<1>3. Len(more) = Len(text) + 1 /\ more[Len(text) + 1] = c
      /\ \A i \in 1..Len(text) : more[i] = text[i]
  OBVIOUS
<1>4. ASSUME NEW i \in 1..(ptr + 1)
      PROVE  stored[i] = more[k + i] /\ more[k + i] # "\n" /\ i \in 1..Len(stored)
  <2>1. ptr < Len(buffer) /\ Len(buffer) \in Nat /\ i \in 1..Len(buffer) /\ DOMAIN buffer = 1..Len(buffer)
    BY DEF Holds
  <2>2. CASE i = ptr + 1
    BY <1>1, <1>3, <2>1, <2>2
  <2>3. CASE i \in 1..ptr
    <3>1. buffer[i] = text[k + i] /\ text[k + i] # "\n"
      BY <2>3 DEF Holds
    <3>2. k + i \in 1..Len(text)
      BY <2>3
    <3>3. stored[i] = buffer[i]
      BY <2>1, <2>3
    <3> QED BY <1>1, <1>3, <2>1, <3>1, <3>2, <3>3
  <2> QED BY <2>2, <2>3
<1> HIDE DEF more, big
<1>5. ptr + 1 <= Len(stored) /\ k + (ptr + 1) <= Len(more)
  BY <1>1, <1>3 DEF Holds
<1>6. ptr + 1 < Len(stored) => Holds(stored, ptr + 1, more, k)
  BY <1>4, <1>5 DEF Holds
<1>7. Holds(big, ptr + 1, more, k)
  <2>1. ptr + 1 < Len(big)
    BY <1>1, <1>2, <1>5, UtilityFileAssumption
  <2>2. \A i \in 1..(ptr + 1) : big[i] = more[k + i] /\ more[k + i] # "\n"
    BY <1>2, <1>4
  <2> QED BY <2>1, <2>2, <1>5 DEF Holds
<1> QED BY <1>1, <1>2, <1>6, <1>7 DEF more, big

-----------------------------------------------------------------------------
(* What the reading of a file keeps, one lemma for each kind of its steps. *)
(* A file that is not being read keeps it by itself.                       *)
LEMMA NoFileInv ==
    file = NoFile => FileInv
<1> SUFFICES ASSUME file = NoFile PROVE FileInv
  OBVIOUS
<1>1. /\ DOMAIN file = FileFields /\ file.pc = "closed" /\ file.text = <<>> /\ file.buffer = <<>>
      /\ file.line = 0 /\ file.ptr = 0 /\ file.proc_count = 0 /\ file.feof = FALSE
  BY DEF NoFile, FileFields
<1>2. <<>> \in Seq(Bytes) /\ <<>> \in Seq(Stored) /\ Len(<<>>) = 0
  BY EmptySeq
<1>3. file.text \in Seq(Bytes) /\ file.buffer \in Seq(Stored) /\ Len(file.text) = 0
  BY <1>1, <1>2
<1>4. file.feof \in BOOLEAN
  BY <1>1, Zenon
<1>5. FileType
  BY <1>1, <1>3, <1>4 DEF FileType
<1> QED BY <1>1, <1>5 DEF FileInv, LineInv, LineEndInv, CountInv, FileAt

LEMMA NoLines == ProcessorLines(<<>>) = {} /\ Cardinality(ProcessorLines(<<>>)) = 0
<1>1. Len(<<>>) = 0
  OBVIOUS
<1>2. ProcessorLines(<<>>) = {}
  BY <1>1 DEF ProcessorLines
<1> QED BY <1>2, FS_EmptySet

LEMMA OpenForReadingKept ==
    ASSUME NEW ok \in BOOLEAN, OpenForReading(ok)
    PROVE  FileInv'
<1>0. <<>> \in Seq(Bytes) /\ <<>> \in Seq(Stored)
  BY EmptySeq
<1>1. Len(<<>>) = 0
  OBVIOUS
<1>2. CASE ok
  <2>1. /\ DOMAIN file' = FileFields /\ file'.pc = "readln" /\ file'.text = <<>> /\ file'.buffer = <<>>
        /\ file'.line = 0 /\ file'.ptr = 0 /\ file'.proc_count = 0 /\ file'.feof = FALSE
    BY <1>1, <1>2 DEF OpenForReading, Readln, NoFile, FileFields
  <2>2. FileType'
    <3>1. file'.text \in Seq(Bytes) /\ file'.buffer \in Seq(Stored) /\ Len(file'.text) = 0
      BY <1>0, <1>1, <2>1
    <3>2. file'.feof \in BOOLEAN
      BY <2>1, Zenon
    <3> QED BY <2>1, <3>1, <3>2 DEF FileType
  <2> QED BY <2>1, <2>2, <1>1, NoLines DEF FileInv, LineInv, LineEndInv, CountInv, FileAt, LineStartsAt
<1>3. CASE ~ok
  <2>1. /\ DOMAIN file' = FileFields /\ file'.pc = "returned" /\ file'.text = <<>> /\ file'.buffer = <<>>
        /\ file'.line = 0 /\ file'.ptr = 0 /\ file'.proc_count = 0 /\ file'.feof = FALSE /\ file'.rc = -1
    BY <1>3 DEF OpenForReading, NoFile, FileFields
  <2>2. FileType'
    <3>1. file'.text \in Seq(Bytes) /\ file'.buffer \in Seq(Stored) /\ Len(file'.text) = 0
      BY <1>0, <1>1, <2>1
    <3>2. file'.feof \in BOOLEAN
      BY <2>1, Zenon
    <3> QED BY <2>1, <3>1, <3>2 DEF FileType
  <2> QED BY <2>1, <2>2, <1>1 DEF FileInv, LineInv, LineEndInv, CountInv, FileAt
<1> QED BY <1>2, <1>3

LEMMA BeginReadlnKept ==
    ASSUME FileInv, NEW memory \in BOOLEAN, BeginReadln(memory)
    PROVE  FileInv'
<1>0. /\ FileType /\ file.pc = "readln" /\ file.line = Len(file.text) /\ file.ptr = 0
      /\ ~file.feof => LineStartsAt(file.text, file.line)
      /\ file.proc_count = Cardinality(ProcessorLines(file.text))
  BY DEF FileInv, CountInv, BeginReadln, FileAt
<1>1. /\ DOMAIN file' = FileFields /\ file'.text = file.text /\ file'.line = file.line
      /\ file'.ptr = 0 /\ file'.proc_count = file.proc_count /\ file'.feof = file.feof
  BY <1>0 DEF BeginReadln, FileType, FileFields
<1>2. CASE file.feof \/ ~memory
  <2>1. /\ file'.buffer = file.buffer /\ file'.pc = "close"
        /\ file'.rc = IF file.feof THEN -1 ELSE -2
    BY <1>0, <1>2 DEF BeginReadln, FileType, FileFields
  <2> QED BY <1>0, <1>1, <2>1 DEF FileInv, FileType, LineInv, LineEndInv, CountInv, FileAt
<1>3. CASE ~file.feof /\ memory
  <2>1. file'.pc = "fgetc" /\ file'.buffer = IF file.buffer = <<>> THEN Enlarged(<<>>) ELSE file.buffer
    BY <1>0, <1>3 DEF BeginReadln, FileType, FileFields
  <2>2. file'.buffer \in Seq(Stored) /\ 0 < Len(file'.buffer)
    <3>1. CASE file.buffer = <<>>
      <4>1. PICK new : new = [i \in 1..BUFFER_INC |-> "?"]
        OBVIOUS
      <4>2. new \in Seq(Stored) /\ Len(new) = BUFFER_INC
        BY <4>1, UtilityFileAssumption DEF Stored
      <4>3. Enlarged(<<>>) = new
        BY <4>1, <4>2, ConcatEmptySeq DEF Enlarged
      <4> QED BY <2>1, <3>1, <4>2, <4>3, UtilityFileAssumption
    <3>2. CASE file.buffer # <<>>
      BY <1>0, <2>1, <3>2, EmptySeq DEF FileType
    <3> QED BY <3>1, <3>2
  <2>3. ProcessorsUpTo(file.text, file.line) = ProcessorLines(file.text)
    <3>1. file.text \in Seq(Bytes) /\ file.line = Len(file.text) /\ Len(file.text) \in Nat
      BY <1>0 DEF FileType
    <3>2. \A i \in 1..(Len(file.text) - 1) : i <= file.line
      BY <3>1
    <3> QED BY <3>2 DEF ProcessorsUpTo, ProcessorLines
  <2>4. FileType'
    BY <1>0, <1>1, <2>2 DEF FileType
  <2>5. Holds(file.buffer, file.ptr, file.text, file.line)'
    <3>1. Len(file.text) \in Nat /\ Len(file.text) + 0 <= Len(file.text)
      BY <1>0 DEF FileType
    <3> QED BY <1>0, <1>1, <2>2, <3>1 DEF Holds
  <2>6. LineInv' /\ LineEndInv'
    BY <1>0, <1>1, <1>3, <2>1, <2>3, <2>4, <2>5 DEF LineInv, LineEndInv, FileAt, FileType
  <2> QED BY <2>1, <2>4, <2>6 DEF FileInv, CountInv, FileAt
<1> QED BY <1>2, <1>3 DEF FileType

LEMMA FgetcKept ==
    ASSUME FileInv, NEW c \in Bytes, NEW memory \in BOOLEAN, Fgetc(c, memory)
    PROVE  FileInv'
<1> DEFINE text == file.text
           k == file.line
           n == file.ptr
           stored == [i \in DOMAIN file.buffer |-> IF i = n + 1 THEN c ELSE file.buffer[i]]
<1>1. /\ FileType /\ file.pc = "fgetc" /\ c # "\n" /\ ~file.feof /\ Len(text) = k + n
      /\ LineStartsAt(text, k) /\ Holds(file.buffer, n, text, k)
      /\ file.proc_count = Cardinality(ProcessorsUpTo(text, k))
  BY DEF FileInv, LineInv, LineEndInv, Fgetc, FileAt
<1>2. /\ DOMAIN file' = FileFields /\ file'.text = Append(text, c) /\ file'.line = k
      /\ file'.ptr = n + 1 /\ file'.proc_count = file.proc_count /\ file'.feof = file.feof
  BY <1>1, ZenonT(60) DEF Fgetc, StoreByte, FileType, FileFields
<1>3. \/ /\ n + 1 < Len(stored) /\ file'.pc = "fgetc" /\ file'.buffer = stored
      \/ file'.pc = "fgetc" /\ file'.buffer = Enlarged(stored)
      \/ file'.pc = "close" /\ file'.rc = -2 /\ file'.buffer = stored
  <2>1. PICK st : st = [[file EXCEPT !.text = Append(@, c)] EXCEPT !.ptr = @ + 1, !.buffer = stored]
    OBVIOUS
  <2>2. /\ DOMAIN st = FileFields /\ st.ptr = n + 1 /\ st.buffer = stored /\ st.pc = "fgetc"
    BY <2>1, <1>1 DEF FileType, FileFields
  <2>3. IF st.ptr < Len(st.buffer) THEN file' = st
        ELSE file' = IF memory THEN [st EXCEPT !.buffer = Enlarged(@)]
                               ELSE [st EXCEPT !.pc = "close", !.rc = -2]
    BY <2>1, <1>1 DEF Fgetc, StoreByte, FileType, FileFields
  <2> HIDE DEF stored
  <2> QED BY <2>2, <2>3 DEF FileFields
<1>4. /\ text \in Seq(Bytes) /\ file.buffer \in Seq(Stored) /\ k \in 0..Len(text) /\ n \in Nat
      /\ file.proc_count \in Nat /\ file.feof \in BOOLEAN /\ Len(text) \in Nat
  BY <1>1 DEF FileType
<1>5. PICK st : st = stored
  OBVIOUS
<1>6. /\ st \in Seq(Stored) /\ Len(st) = Len(file.buffer)
      /\ Enlarged(st) \in Seq(Stored) /\ Len(Enlarged(st)) = Len(st) + BUFFER_INC
      /\ n + 1 < Len(st) => Holds(st, n + 1, Append(text, c), k)
      /\ Holds(Enlarged(st), n + 1, Append(text, c), k)
  BY <1>1, <1>4, <1>5, StoredBehind, SMTT(30)
<1>7. \/ n + 1 < Len(st) /\ file'.pc = "fgetc" /\ file'.buffer = st
      \/ file'.pc = "fgetc" /\ file'.buffer = Enlarged(st)
      \/ file'.pc = "close" /\ file'.rc = -2 /\ file'.buffer = st
  BY <1>3, <1>5
<1> HIDE DEF stored
<1>8. Append(text, c) \in Seq(Bytes) /\ Len(Append(text, c)) = Len(text) + 1
  BY <1>4
<1>9. FileType'
  <2>1. file'.buffer \in Seq(Stored)
    BY <1>6, <1>7
  <2>2. file'.feof \in BOOLEAN
    BY <1>2, <1>4, Zenon
  <2>3. k \in 0..(Len(text) + 1) /\ n + 1 \in Nat
    BY <1>4
  <2> QED BY <1>2, <1>4, <1>8, <2>1, <2>2, <2>3 DEF FileType
<1>10. LineStartsAt(file'.text, k)
  <2>1. k # 0 => file'.text[k] = text[k]
    BY <1>2, <1>4
  <2> QED BY <1>1, <2>1 DEF LineStartsAt
<1>11. ProcessorsUpTo(file'.text, k) = ProcessorsUpTo(text, k)
  BY <1>1, <1>2, <1>4, EarlierLines
<1>12. CASE file'.pc = "fgetc"
  <2>1. Holds(file'.buffer, n + 1, Append(text, c), k)
    BY <1>6, <1>7, <1>12
  <2>2. LineInv'
    BY <1>1, <1>2, <1>10, <1>11, <2>1 DEF LineInv
  <2>3. Len(Append(text, c)) = k + (n + 1)
    BY <1>1, <1>4, <1>8
  <2> QED BY <1>1, <1>2, <1>9, <1>12, <2>2, <2>3 DEF FileInv, LineEndInv, CountInv, FileAt
<1>13. CASE file'.pc = "close" /\ file'.rc = -2
  BY <1>1, <1>2, <1>9, <1>13 DEF FileInv, LineInv, LineEndInv, CountInv, FileAt
<1> QED BY <1>7, <1>12, <1>13

LEMMA EndOfLineKept ==
    ASSUME FileInv, NEW end \in {"newline", "eof", "error"}, EndOfLine(end)
    PROVE  FileInv'
<1> DEFINE text == file.text
           k == file.line
           n == file.ptr
           buffer == file.buffer
<1>1. /\ FileType /\ file.pc = "fgetc" /\ ~file.feof /\ Len(text) = k + n
      /\ LineStartsAt(text, k) /\ Holds(buffer, n, text, k)
      /\ file.proc_count = Cardinality(ProcessorsUpTo(text, k))
  BY DEF FileInv, LineInv, LineEndInv, EndOfLine, FileAt
<1>2. /\ text \in Seq(Bytes) /\ buffer \in Seq(Stored) /\ k \in 0..Len(text) /\ n \in Nat
      /\ file.proc_count \in Nat /\ Len(text) \in Nat
  BY <1>1 DEF FileType
<1>3. /\ DOMAIN file' = FileFields /\ file'.line = k /\ file'.ptr = n
      /\ file'.proc_count = file.proc_count /\ file'.buffer = [buffer EXCEPT ![n + 1] = "NUL"]
      /\ file'.text = IF end = "newline" THEN Append(text, "\n") ELSE text
  BY <1>1 DEF EndOfLine, Terminated, FileType, FileFields
<1>4. /\ file'.feof = (end = "eof")
      /\ end # "error" => file'.pc = "line"
      /\ end = "error" => file'.pc = "close" /\ file'.rc = -2
  BY <1>1 DEF EndOfLine, FileType, FileFields
<1>5. file'.buffer \in Seq(Stored) /\ Len(file'.buffer) = Len(buffer) /\ file'.buffer[n + 1] = "NUL"
      /\ \A i \in 1..n : file'.buffer[i] = buffer[i]
  <2>1. n + 1 \in 1..Len(buffer) /\ n < Len(buffer) /\ Len(buffer) \in Nat
    BY <1>1, <1>2 DEF Holds
  <2>2. "NUL" \in Stored
    BY DEF Stored
  <2> QED BY <1>2, <1>3, <2>1, <2>2
<1>6. /\ file'.text \in Seq(Bytes) /\ Len(file'.text) \in Nat /\ Len(text) <= Len(file'.text)
      /\ \A i \in 1..Len(text) : file'.text[i] = text[i]
      /\ end # "newline" => Len(file'.text) = Len(text)
      /\ end = "newline" => Len(file'.text) = Len(text) + 1 /\ file'.text[Len(text) + 1] = "\n"
  <2>1. "\n" \in Bytes
    BY DEF Bytes
  <2> QED BY <1>2, <1>3, <2>1
<1>7. FileType'
  <2>1. file'.feof \in BOOLEAN
    BY <1>4, Zenon
  <2>2. k \in 0..Len(file'.text)
    BY <1>2, <1>6
  <2> QED BY <1>2, <1>3, <1>5, <1>6, <2>1, <2>2 DEF FileType
<1>8. CASE end = "error"
  <2>1. ~file'.feof
    BY <1>4, <1>8
  <2> QED BY <1>4, <1>7, <1>8, <2>1 DEF FileInv, LineInv, LineEndInv, CountInv, FileAt
<1>9. CASE end # "error"
  <2>1. LineStartsAt(file'.text, k)
    <3>1. k # 0 => file'.text[k] = text[k]
      BY <1>2, <1>6
    <3> QED BY <1>1, <3>1 DEF LineStartsAt
  <2>2. Holds(file'.buffer, n, file'.text, k)
    <3>1. \A i \in 1..n : file'.buffer[i] = file'.text[k + i] /\ file'.text[k + i] # "\n"
      <4>1. ASSUME NEW i \in 1..n
            PROVE  file'.buffer[i] = file'.text[k + i] /\ file'.text[k + i] # "\n"
        <5>1. k + i \in 1..Len(text)
          BY <1>1, <1>2
        <5>2. buffer[i] = text[k + i] /\ text[k + i] # "\n"
          BY <1>1 DEF Holds
        <5> QED BY <1>5, <1>6, <5>1, <5>2
      <4> QED BY <4>1
    <3> QED BY <1>1, <1>2, <1>5, <1>6, <3>1 DEF Holds
  <2>3. ProcessorsUpTo(file'.text, k) = ProcessorsUpTo(text, k)
    <3>1. CASE end = "newline"
      BY <1>1, <1>2, <1>3, <3>1, EarlierLines DEF Bytes
    <3>2. CASE end # "newline"
      BY <1>3, <3>2
    <3> QED BY <3>1, <3>2
  <2>4. LineInv'
    BY <1>1, <1>3, <2>1, <2>2, <2>3 DEF LineInv
  <2>5. LineEndInv'
    <3>1. file'.pc = "line" /\ (file'.feof <=> end = "eof")
      BY <1>4, <1>9
    <3>2. end = "newline" => Len(file'.text) = k + n + 1 /\ file'.text[Len(file'.text)] = "\n"
      BY <1>1, <1>6
    <3>3. end = "eof" => Len(file'.text) = k + n
      BY <1>1, <1>6
    <3> QED BY <1>3, <1>5, <1>9, <3>1, <3>2, <3>3 DEF LineEndInv, FileAt
  <2> QED BY <1>4, <1>7, <1>9, <2>4, <2>5 DEF FileInv, CountInv, FileAt
<1> QED BY <1>8, <1>9

LEMMA CountLineKept ==
    ASSUME FileInv, CountLine
    PROVE  FileInv'
<1> DEFINE text == file.text
           k == file.line
           n == file.ptr
           buffer == file.buffer
<1>1. /\ FileType /\ file.pc = "line"
      /\ LineStartsAt(text, k) /\ Holds(buffer, n, text, k) /\ buffer[n + 1] = "NUL"
      /\ file.feof => Len(text) = k + n
      /\ ~file.feof => Len(text) = k + n + 1 /\ text[Len(text)] = "\n"
      /\ file.proc_count = Cardinality(ProcessorsUpTo(text, k))
  BY DEF FileInv, LineInv, LineEndInv, CountLine, FileAt
<1>2. /\ text \in Seq(Bytes) /\ buffer \in Seq(Stored) /\ k \in 0..Len(text) /\ n \in Nat
      /\ file.proc_count \in Nat /\ file.feof \in BOOLEAN /\ Len(text) \in Nat
  BY <1>1 DEF FileType
<1>3. /\ DOMAIN file' = FileFields /\ file'.text = text /\ file'.line = Len(text) /\ file'.ptr = 0
      /\ file'.buffer = buffer /\ file'.feof = file.feof /\ file'.pc = "readln"
      /\ file'.proc_count = IF IsProcessor(buffer) THEN file.proc_count + 1 ELSE file.proc_count
  BY <1>1 DEF CountLine, Readln, FileType, FileFields
<1>4. file'.proc_count = Cardinality(ProcessorLines(text))
  BY <1>1, <1>2, <1>3, LineCounted
<1>5. FileType'
  <2>1. file'.feof \in BOOLEAN
    BY <1>2, <1>3, Zenon
  <2>2. Len(text) \in 0..Len(text) /\ file'.proc_count \in Nat
    BY <1>2, <1>4, LinesAreFinite
  <2> QED BY <1>2, <1>3, <2>1, <2>2 DEF FileType
<1>6. ~file'.feof => LineStartsAt(file'.text, file'.line)
  BY <1>1, <1>3 DEF LineStartsAt
<1> QED BY <1>3, <1>4, <1>5, <1>6 DEF FileInv, LineInv, LineEndInv, CountInv, FileAt

LEMMA CloseAndReturnKept ==
    ASSUME FileInv, CloseAndReturn
    PROVE  FileInv'
<1>1. /\ FileType /\ file.pc = "close"
      /\ \/ file.rc = -2 /\ ~file.feof
         \/ file.rc = -1 /\ file.feof /\ file.proc_count = Cardinality(ProcessorLines(file.text))
  BY DEF FileInv, CountInv, CloseAndReturn, FileAt
<1>2. /\ DOMAIN file' = FileFields /\ file'.text = file.text /\ file'.line = file.line
      /\ file'.ptr = file.ptr /\ file'.buffer = file.buffer /\ file'.feof = file.feof
      /\ file'.pc = "returned" /\ file'.proc_count = file.proc_count
      /\ file'.rc = IF file.rc = -2 THEN -1 ELSE file.proc_count - 1
  BY <1>1 DEF CloseAndReturn, FileType, FileFields
<1>3. FileType'
  BY <1>1, <1>2 DEF FileType
<1>4. file'.rc = IF file'.feof THEN Cardinality(ProcessorLines(file'.text)) - 1 ELSE -1
  BY <1>1, <1>2
<1> QED BY <1>2, <1>3, <1>4 DEF FileInv, LineInv, LineEndInv, CountInv, FileAt

FileStep == ReadFile \/ file' = NoFile \/ UNCHANGED file

LEMMA FileKept ==
    FileInv /\ FileStep => FileInv'
<1>1. FileInv /\ ReadFile => FileInv'
  BY OpenForReadingKept, BeginReadlnKept, FgetcKept, EndOfLineKept, CountLineKept, CloseAndReturnKept
  DEF ReadFile
<1>2. FileInv /\ UNCHANGED file => FileInv'
  BY DEF FileInv, FileType, LineInv, LineEndInv, CountInv, FileAt
<1>3. file' = NoFile => FileInv'
  <2>1. (file = NoFile)' => FileInv'
    BY NoFileInv, PTL
  <2>2. (file = NoFile)' <=> file' = NoFile
    BY DEF NoFile
  <2> QED BY <2>1, <2>2
<1> QED BY <1>1, <1>2, <1>3 DEF FileStep

(* What the caller sees of it.                                             *)
LEMMA CountIsRight ==
    FileInv => LastCpuCounted
<1> SUFFICES ASSUME FileInv PROVE LastCpuCounted
  OBVIOUS
<1>1. /\ file.text \in Seq(Bytes) /\ file.buffer \in Seq(Stored) /\ file.line \in 0..Len(file.text)
      /\ file.ptr \in Nat /\ Len(file.text) \in Nat /\ Len(file.buffer) \in Nat
  BY DEF FileInv, FileType
<1>2. ASSUME FileAt("fgetc")
      PROVE  /\ file.ptr < Len(file.buffer)
             /\ SubSeq(file.buffer, 1, file.ptr) = SubSeq(file.text, file.line + 1, Len(file.text))
  <2> DEFINE read == SubSeq(file.text, file.line + 1, Len(file.text))
             kept == SubSeq(file.buffer, 1, file.ptr)
  <2>1. /\ Holds(file.buffer, file.ptr, file.text, file.line)
        /\ Len(file.text) = file.line + file.ptr
    BY <1>2 DEF FileInv, LineInv, LineEndInv
  <2>2. kept \in Seq(Stored) /\ Len(kept) = file.ptr /\ \A i \in 1..file.ptr : kept[i] = file.buffer[i]
    <3>1. file.ptr \in 0..Len(file.buffer)
      BY <1>1, <2>1 DEF Holds
    <3> QED BY <1>1, <3>1, SubSeqProperties
  <2>3. read \in Seq(Bytes) /\ Len(read) = file.ptr /\ \A i \in 1..file.ptr : read[i] = file.text[file.line + i]
    <3> DEFINE first == file.line + 1
               last == Len(file.text)
    <3>1. /\ first \in Int /\ last \in Int /\ last - first + 1 = file.ptr
          /\ first <= last => last - first + 1 = file.ptr
          /\ ~(first <= last) => file.ptr = 0
      BY <1>1, <2>1
    <3>2. \A i \in first..last : file.text[i] \in Bytes
      BY <1>1
    <3>3. \A i \in 1..file.ptr : first + i - 1 = file.line + i
      BY <1>1
    <3> HIDE DEF first, last
    <3>4. /\ SubSeq(file.text, first, last) \in Seq(Bytes)
          /\ Len(SubSeq(file.text, first, last)) = IF first <= last THEN last - first + 1 ELSE 0
          /\ \A i \in 1..(last - first + 1) : SubSeq(file.text, first, last)[i] = file.text[first + i - 1]
      BY <3>1, <3>2, SubSeqProperties
    <3> QED BY <3>1, <3>3, <3>4 DEF first, last
  <2>4. \A i \in 1..file.ptr : file.buffer[i] = file.text[file.line + i]
    BY <2>1 DEF Holds
  <2> HIDE DEF read, kept
  <2>5. read = kept
    <3>1. read \in Seq(Stored)
      BY <2>3 DEF Stored
    <3> QED BY <2>2, <2>3, <2>4, <3>1, SeqEqual
  <2> QED BY <2>1, <2>5 DEF Holds, read, kept
<1>3. FileAt("returned") => file.rc = IF file.feof THEN Cardinality(ProcessorLines(file.text)) - 1 ELSE -1
  BY DEF FileInv, CountInv
<1> QED BY <1>2, <1>3 DEF LastCpuCounted

(* What the program does with the search and with the file.                *)
LEMMA StepsOfCpu ==
    [Next]_vars => SearchStep /\ FileStep
<1> DEFINE Goal == SearchStep /\ FileStep
<1>1. ASSUME NEW ok \in BOOLEAN
      PROVE  /\ EnterUPModeFreqMax(ok) \/ EnterUPModeFails(ok) \/ SetMax(ok) \/ SetMaxFails(ok) => Goal
             /\ Restore(ok) \/ Exit(ok) => Goal
  BY DEF EnterUPModeFreqMax, EnterUPModeFails, SetMax, SetMaxFails, Restore, Exit, SearchStep, FileStep
<1>2. ASSUME NEW ok \in BOOLEAN
      PROVE  GetGovernor(ok) \/ BarrierInit(ok) \/ CreateThread(ok) \/ BarrierDestroy(ok) => Goal
  BY DEF GetGovernor, BarrierInit, CreateThread, BarrierDestroy, cpuVars, SearchStep, FileStep
<1>3. MainArrives \/ MainLeaves \/ JoinThread \/ Compare \/ DestroyLoop \/ UNCHANGED vars => Goal
  BY DEF MainArrives, MainLeaves, JoinThread, Compare, DestroyLoop, vars, cpuVars, SearchStep, FileStep
<1>4. ReadCpuinfo \/ GetLastCpu => Goal
  BY DEF ReadCpuinfo, GetLastCpu, SearchStep, FileStep
<1>5. ASSUME NEW f \in Frequencies \cup {0}
      PROVE  Calibrate(f) => Goal
  BY DEF Calibrate, SearchStep, FileStep
<1>6. (\E memory \in BOOLEAN : Calibrated(memory)) \/ Search => Goal
  BY DEF Calibrated, Search, SearchStep, FileStep
<1>7. ASSUME NEW c \in Cpus, NEW ok \in BOOLEAN
      PROVE  ThreadProgress(c) \/ LockMeToCpu(c, ok) \/ SchedFifoEnterMax(c, ok) => Goal
  BY DEF ThreadProgress, LockMeToCpu, SchedFifoEnterMax, ThreadArrives, ThreadLeaves, ThreadEnds, cpuVars,
         SearchStep, FileStep
<1> HIDE DEF Goal
<1>8. Next => Goal
  BY <1>1, <1>2, <1>3, <1>4, <1>5, <1>6, <1>7 DEF Next, MainProgress
<1> QED BY <1>3, <1>8 DEF Goal

(* The busy loop that a search comes up with has been measured.            *)
THEOREM LoopAlwaysMeasured == Spec => []LoopWasMeasured
<1> DEFINE SInv == SearchTypeOK /\ LoopWasMeasured
<1>1. Init => SInv
  BY UtilityCpuAssumption DEF Init, SearchInit, NoSearch, SearchTypeOK, LoopWasMeasured
<1>2. SInv /\ [Next]_vars => SInv'
  BY StepsOfCpu, SearchKept
<1> QED BY <1>1, <1>2, PTL DEF Spec

(* get_last_cpu counts the processors of any file, however its lines and   *)
(* the growth of the buffer meet, and whatever fails.                      *)
THEOREM LastCpuAlwaysCounted == Spec => []LastCpuCounted
<1>1. Init => FileInv
  BY NoFileInv DEF Init
<1>2. FileInv /\ [Next]_vars => FileInv'
  BY StepsOfCpu, FileKept
<1> QED BY <1>1, <1>2, CountIsRight, PTL DEF Spec

-----------------------------------------------------------------------------
(* Where main is when it takes a step of Script or of Cleanup.             *)
LEMMA WhereMainIs ==
    ASSUME TypeOK, StepsInv
    PROVE  /\ step \in 1..14
           /\ At("get_last_cpu") => status = "run" /\ step = 1
           /\ At("save") => status = "run" /\ Cpu \in Cpus /\ step = 2 + Cpu
           /\ At("set") => status = "run" /\ Cpu \in Cpus /\ step = 4 + Cpu
           /\ At("busyloop") => status = "run" /\ Cpu \in Cpus /\ step = 6 + Cpu
           /\ At("barrier_init") => status = "run" /\ step = 8
           /\ At("create") => status = "run" /\ Cpu \in Cpus /\ step = 9 + Cpu
           /\ At("barrier_wait") => status = "run" /\ step = 11
           /\ At("join") => status = "run" /\ Cpu \in Cpus /\ step = 12 + Cpu
           /\ At("compare") => status = "run" /\ step = 14
           /\ Cleaning("destroy") => status = "cleanup" /\ Cpu \in Cpus /\ step = 2 - Cpu
           /\ Cleaning("restore") => status = "cleanup" /\ Cpu \in Cpus /\ step = 4 - Cpu
           /\ Cleaning("barrier_destroy") => status = "cleanup" /\ step = 5
<1>1. step \in 1..14
  BY ScriptSteps DEF TypeOK
<1>2. status = "cleanup" => step \in 1..5
  BY DEF StepsInv
<1>3. \A op : At(op) => status = "run" /\ Script[step].op = op /\ Cpu = Script[step].cpu
  BY DEF At, Cpu
<1>4. \A op : Cleaning(op) => /\ status = "cleanup" /\ step \in 1..5
                             /\ Cleanup[step].op = op /\ Cpu = Cleanup[step].cpu
  BY <1>2 DEF Cleaning, Cpu
<1> QED BY <1>1, <1>3, <1>4, ScriptSteps, CleanupSteps

(* What the types say of the governors and of the loops.                   *)
LEMMA GovernorsTyped ==
    TypeOK => /\ DOMAIN governor = Cpus /\ DOMAIN initially = Cpus /\ DOMAIN gov_cpu = Cpus /\ DOMAIN loop = Cpus
              /\ NULL \notin Governors /\ NULL # "userspace"
              /\ \A c \in Cpus : initially[c] # NULL /\ governor[c] # NULL
  BY GovernorsAssumption DEF TypeOK, NULL

(* What the types say of the threads and of the barrier.                   *)
LEMMA ThreadsTyped ==
    TypeOK => /\ DOMAIN thread = Cpus /\ \A c \in Cpus : DOMAIN thread[c] = {"pc", "cpu", "fifo"}
              /\ DOMAIN barrier = {"exists", "waiting", "released"}
              /\ barrier.waiting \subseteq {0, 1, Main} /\ barrier.released \subseteq {0, 1, Main}
  BY DEF TypeOK

(* Who arrives at the barrier waits there, unless all three are there.     *)
LEMMA ArriveIs ==
    ASSUME TypeOK, NEW p \in {0, 1, Main}, Arrive(p)
    PROVE  \/ /\ barrier.waiting \cup {p} = {0, 1, Main}
              /\ barrier'.waiting = {} /\ barrier'.released = {0, 1, Main}
           \/ barrier'.waiting = barrier.waiting \cup {p} /\ barrier'.released = barrier.released
<1> DEFINE all == barrier.waiting \cup {p}
<1>1. IsFiniteSet({0}) /\ Cardinality({0}) = 1
  BY FS_Singleton
<1>2. IsFiniteSet({0} \cup {1}) /\ Cardinality({0} \cup {1}) = 2
  BY <1>1, FS_AddElement
<1>3. IsFiniteSet(({0} \cup {1}) \cup {2}) /\ Cardinality(({0} \cup {1}) \cup {2}) = Parties
  BY <1>2, FS_AddElement DEF Parties
<1>4. ({0} \cup {1}) \cup {2} = {0, 1, Main} /\ all \subseteq {0, 1, Main}
  BY ThreadsTyped DEF Main
<1>5. Cardinality(all) = Parties => all = {0, 1, Main}
  BY <1>3, <1>4, FS_Subset
<1> HIDE DEF all
<1> QED BY <1>5, ThreadsTyped DEF Arrive, all

(* Main goes through its steps.                                            *)
LEMMA StepsKept ==
    TypeOK /\ StepsInv /\ [Next]_vars => StepsInv'
<1> SUFFICES ASSUME TypeOK /\ StepsInv, [Next]_vars PROVE StepsInv'
  OBVIOUS
<1> USE DEF StepsInv, Cpus, cpuVars, mainVars, Goto, NextStep, Error, NextOrError
<1>1. ASSUME NEW w \in BOOLEAN, EnterUPModeFreqMax(w)
      PROVE  StepsInv'
  BY <1>1, WhereMainIs DEF EnterUPModeFreqMax, CpuFreqSet
<1>2. ASSUME NEW b \in BOOLEAN, EnterUPModeFails(b)
      PROVE  StepsInv'
  BY <1>2, WhereMainIs DEF EnterUPModeFails, CpuFreqNotSet
<1>3. CASE ReadCpuinfo
  BY <1>3, WhereMainIs DEF ReadCpuinfo
<1>4. CASE GetLastCpu
  BY <1>4, WhereMainIs DEF GetLastCpu
<1>5. ASSUME NEW ok \in BOOLEAN, GetGovernor(ok)
      PROVE  StepsInv'
  BY <1>5, WhereMainIs DEF GetGovernor
<1>6. ASSUME NEW w \in BOOLEAN, SetMax(w)
      PROVE  StepsInv'
  BY <1>6, WhereMainIs DEF SetMax, CpuFreqSet
<1>7. ASSUME NEW b \in BOOLEAN, SetMaxFails(b)
      PROVE  StepsInv'
  BY <1>7, WhereMainIs DEF SetMaxFails, CpuFreqNotSet
<1>8. ASSUME NEW f \in Frequencies \cup {0}, Calibrate(f)
      PROVE  StepsInv'
  BY <1>8, WhereMainIs DEF Calibrate
<1>9. ASSUME NEW ok \in BOOLEAN, Calibrated(ok)
      PROVE  StepsInv'
  BY <1>9, WhereMainIs DEF Calibrated
<1>10. ASSUME NEW ok \in BOOLEAN, BarrierInit(ok)
      PROVE  StepsInv'
  BY <1>10, WhereMainIs DEF BarrierInit
<1>11. ASSUME NEW ok \in BOOLEAN, CreateThread(ok)
      PROVE  StepsInv'
  BY <1>11, WhereMainIs DEF CreateThread
<1>12. CASE MainArrives
  BY <1>12, WhereMainIs DEF MainArrives, Arrive
<1>13. CASE MainLeaves
  BY <1>13, WhereMainIs DEF MainLeaves, Leave
<1>14. CASE JoinThread
  BY <1>14, WhereMainIs DEF JoinThread
<1>15. CASE Compare
  BY <1>15, WhereMainIs DEF Compare
<1>16. CASE DestroyLoop
  BY <1>16, WhereMainIs DEF DestroyLoop
<1>17. ASSUME NEW ok \in BOOLEAN, Restore(ok)
      PROVE  StepsInv'
  BY <1>17, WhereMainIs DEF Restore, CpuFreqRestoreGovernor
<1>18. ASSUME NEW b \in BOOLEAN, BarrierDestroy(b)
      PROVE  StepsInv'
  BY <1>18, WhereMainIs DEF BarrierDestroy
<1>19. ASSUME NEW ok \in BOOLEAN, Exit(ok)
      PROVE  StepsInv'
  BY <1>19, WhereMainIs DEF Exit, CpuFreqRestoreGovernor
<1>20. ASSUME NEW c \in Cpus, NEW ok \in BOOLEAN, LockMeToCpu(c, ok)
      PROVE  StepsInv'
  BY <1>20, WhereMainIs DEF LockMeToCpu
<1>21. ASSUME NEW c \in Cpus, NEW ok \in BOOLEAN, SchedFifoEnterMax(c, ok)
      PROVE  StepsInv'
  BY <1>21, WhereMainIs DEF SchedFifoEnterMax
<1>22. ASSUME NEW c \in Cpus, ThreadArrives(c)
      PROVE  StepsInv'
  BY <1>22, WhereMainIs DEF ThreadArrives, Arrive
<1>23. ASSUME NEW c \in Cpus, ThreadLeaves(c)
      PROVE  StepsInv'
  BY <1>23, WhereMainIs DEF ThreadLeaves, Leave
<1>24. ASSUME NEW c \in Cpus, ThreadEnds(c)
      PROVE  StepsInv'
  BY <1>24, WhereMainIs DEF ThreadEnds
<1>25. CASE Search
  BY <1>25, WhereMainIs DEF Search
<1>26. CASE UNCHANGED vars
  BY <1>26, WhereMainIs DEF vars
<1> QED BY <1>1, <1>2, <1>3, <1>4, <1>5, <1>6, <1>7, <1>8, <1>9, <1>10, <1>11, <1>12, <1>13, <1>14, <1>15,
         <1>16, <1>17, <1>18, <1>19, <1>20, <1>21, <1>22, <1>23, <1>24, <1>25, <1>26 DEF Next, MainProgress, ThreadProgress

(* The types of everything, that of the search granted.                    *)
LEMMA TypeKept ==
    TypeOK /\ SearchTypeOK' /\ StepsInv /\ GovernorsInv /\ [Next]_vars => TypeOK'
<1> SUFFICES ASSUME TypeOK /\ SearchTypeOK' /\ StepsInv /\ GovernorsInv, [Next]_vars PROVE TypeOK'
  OBVIOUS
<1> USE DEF TypeOK, Cpus, cpuVars, mainVars, Goto, NextStep, Error, NextOrError
<1>1. ASSUME NEW w \in BOOLEAN, EnterUPModeFreqMax(w)
      PROVE  TypeOK'
  <2>1. governor' \in [Cpus -> Governors \cup {"userspace"}] /\ unnoticed' \subseteq Cpus
    BY <1>1, WhereMainIs DEF EnterUPModeFreqMax, CpuFreqSet, mainVars
  <2>2. step' \in 1..Len(Script)
    BY <1>1, WhereMainIs, ScriptSteps DEF EnterUPModeFreqMax
  <2>3. default_gov' \in Governors
    BY <1>1 DEF EnterUPModeFreqMax, GovernorsInv
  <2> QED BY <1>1, <2>1, <2>2, <2>3 DEF EnterUPModeFreqMax
<1>2. ASSUME NEW b \in BOOLEAN, EnterUPModeFails(b)
      PROVE  TypeOK'
  BY <1>2, WhereMainIs, ScriptSteps DEF EnterUPModeFails, CpuFreqNotSet
<1>3. CASE ReadCpuinfo
  BY <1>3, WhereMainIs, ScriptSteps DEF ReadCpuinfo
<1>4. CASE GetLastCpu
  BY <1>4, WhereMainIs, ScriptSteps DEF GetLastCpu
<1>5. ASSUME NEW ok \in BOOLEAN, GetGovernor(ok)
      PROVE  TypeOK'
  BY <1>5, WhereMainIs, ScriptSteps DEF GetGovernor
<1>6. ASSUME NEW w \in BOOLEAN, SetMax(w)
      PROVE  TypeOK'
  <2>1. governor' \in [Cpus -> Governors \cup {"userspace"}] /\ unnoticed' \subseteq Cpus
    BY <1>6, WhereMainIs DEF SetMax, CpuFreqSet, mainVars
  <2>2. step' \in 1..Len(Script)
    BY <1>6, WhereMainIs, ScriptSteps DEF SetMax
  <2> QED BY <1>6, <2>1, <2>2 DEF SetMax
<1>7. ASSUME NEW b \in BOOLEAN, SetMaxFails(b)
      PROVE  TypeOK'
  BY <1>7, WhereMainIs, ScriptSteps DEF SetMaxFails, CpuFreqNotSet
<1>8. ASSUME NEW f \in Frequencies \cup {0}, Calibrate(f)
      PROVE  TypeOK'
  BY <1>8, WhereMainIs, ScriptSteps DEF Calibrate
<1>9. ASSUME NEW ok \in BOOLEAN, Calibrated(ok)
      PROVE  TypeOK'
  BY <1>9, WhereMainIs, ScriptSteps DEF Calibrated
<1>10. ASSUME NEW ok \in BOOLEAN, BarrierInit(ok)
      PROVE  TypeOK'
  BY <1>10, WhereMainIs, ScriptSteps DEF BarrierInit
<1>11. ASSUME NEW ok \in BOOLEAN, CreateThread(ok)
      PROVE  TypeOK'
  BY <1>11, WhereMainIs, ScriptSteps DEF CreateThread
<1>12. CASE MainArrives
  BY <1>12, WhereMainIs, ScriptSteps DEF MainArrives, Arrive
<1>13. CASE MainLeaves
  BY <1>13, WhereMainIs, ScriptSteps DEF MainLeaves, Leave
<1>14. CASE JoinThread
  BY <1>14, WhereMainIs, ScriptSteps DEF JoinThread
<1>15. CASE Compare
  BY <1>15, WhereMainIs, ScriptSteps DEF Compare
<1>16. CASE DestroyLoop
  BY <1>16, WhereMainIs, ScriptSteps DEF DestroyLoop
<1>17. ASSUME NEW ok \in BOOLEAN, Restore(ok)
      PROVE  TypeOK'
  <2>1. Cpu \in Cpus
    BY <1>17, WhereMainIs DEF Restore
  <2>2. governor' \in [Cpus -> Governors \cup {"userspace"}]
    <3>1. CASE gov_cpu[Cpu] = NULL
      BY <1>17, <3>1 DEF Restore
    <3>2. CASE gov_cpu[Cpu] # NULL
      <4>1. gov_cpu[Cpu] \in Governors \cup {"userspace"}
        BY <2>1, <3>2
      <4> QED BY <1>17, <2>1, <3>2, <4>1 DEF Restore, CpuFreqRestoreGovernor
    <3> QED BY <3>1, <3>2
  <2>3. unnoticed' \subseteq Cpus /\ reported' \subseteq Cpus
    BY <1>17, <2>1 DEF Restore, CpuFreqRestoreGovernor
  <2>4. step' \in 1..Len(Script)
    BY <1>17, WhereMainIs, ScriptSteps DEF Restore
  <2> QED BY <1>17, <2>2, <2>3, <2>4 DEF Restore
<1>18. ASSUME NEW b \in BOOLEAN, BarrierDestroy(b)
      PROVE  TypeOK'
  BY <1>18, WhereMainIs, ScriptSteps DEF BarrierDestroy
<1>19. ASSUME NEW ok \in BOOLEAN, Exit(ok)
      PROVE  TypeOK'
  <2>1. governor' \in [Cpus -> Governors \cup {"userspace"}] /\ unnoticed' \subseteq Cpus /\ reported' \subseteq Cpus
    BY <1>19, ZenonT(60) DEF Exit, CpuFreqRestoreGovernor
  <2>2. thread' = [c \in Cpus |-> IF thread[c].pc = "done" THEN thread[c] ELSE NoThread]
    BY <1>19 DEF Exit
  <2>3. NoThread \in [pc : {"none", "lock", "fifo", "barrier_wait", "busy", "done", "failed"},
                      cpu : Cpus, fifo : BOOLEAN]
    BY DEF NoThread
  <2>4. thread' \in [Cpus -> [pc : {"none", "lock", "fifo", "barrier_wait", "busy", "done", "failed"},
                              cpu : Cpus, fifo : BOOLEAN]]
    BY <2>2, <2>3
  <2>5. step' \in 1..Len(Script)
    BY <1>19, ScriptSteps DEF Exit
  <2> QED BY <1>19, <2>1, <2>4, <2>5 DEF Exit
<1>20. ASSUME NEW c \in Cpus, NEW ok \in BOOLEAN, LockMeToCpu(c, ok)
      PROVE  TypeOK'
  BY <1>20, WhereMainIs, ScriptSteps DEF LockMeToCpu
<1>21. ASSUME NEW c \in Cpus, NEW ok \in BOOLEAN, SchedFifoEnterMax(c, ok)
      PROVE  TypeOK'
  <2> DEFINE Threads == [pc : {"none", "lock", "fifo", "barrier_wait", "busy", "done", "failed"},
                         cpu : Cpus, fifo : BOOLEAN]
  <2>1. PICK t : t = thread[c]
    OBVIOUS
  <2>2. PICK t2 : t2 = IF ok THEN [t EXCEPT !.pc = "barrier_wait", !.fifo = TRUE] ELSE [t EXCEPT !.pc = "failed"]
    OBVIOUS
  <2>3. t \in Threads /\ thread \in [Cpus -> Threads]
    BY <2>1
  <2>4. t2 \in Threads
    BY <2>2, <2>3
  <2>5. thread' = [thread EXCEPT ![c] = t2]
    BY <1>21, <2>1, <2>2, <2>3 DEF SchedFifoEnterMax
  <2>6. thread' \in [Cpus -> Threads]
    BY <2>3, <2>4, <2>5
  <2> QED BY <1>21, <2>6 DEF SchedFifoEnterMax
<1>22. ASSUME NEW c \in Cpus, ThreadArrives(c)
      PROVE  TypeOK'
  BY <1>22, WhereMainIs, ScriptSteps DEF ThreadArrives, Arrive
<1>23. ASSUME NEW c \in Cpus, ThreadLeaves(c)
      PROVE  TypeOK'
  BY <1>23, WhereMainIs, ScriptSteps DEF ThreadLeaves, Leave
<1>24. ASSUME NEW c \in Cpus, ThreadEnds(c)
      PROVE  TypeOK'
  BY <1>24, WhereMainIs, ScriptSteps DEF ThreadEnds
<1>25. CASE Search
  BY <1>25, WhereMainIs, ScriptSteps DEF Search
<1>26. CASE UNCHANGED vars
  BY <1>26, WhereMainIs, ScriptSteps DEF vars
<1> QED BY <1>1, <1>2, <1>3, <1>4, <1>5, <1>6, <1>7, <1>8, <1>9, <1>10, <1>11, <1>12, <1>13, <1>14, <1>15,
         <1>16, <1>17, <1>18, <1>19, <1>20, <1>21, <1>22, <1>23, <1>24, <1>25, <1>26 DEF Next, MainProgress, ThreadProgress

(* The governors: only main and the frame change or save them.             *)
LEMMA GovernorsKept ==
    TypeOK /\ StepsInv /\ GovernorsInv /\ [Next]_vars => GovernorsInv'
<1> SUFFICES ASSUME TypeOK /\ StepsInv /\ GovernorsInv, [Next]_vars PROVE GovernorsInv'
  OBVIOUS
<1> USE DEF GovernorsInv, Cpus, cpuVars, mainVars, Goto, NextStep, Error, NextOrError
<1>1. ASSUME NEW w \in BOOLEAN, EnterUPModeFreqMax(w)
      PROVE  GovernorsInv'
  BY <1>1, WhereMainIs, GovernorsTyped DEF EnterUPModeFreqMax, CpuFreqSet
<1>2. ASSUME NEW b \in BOOLEAN, EnterUPModeFails(b)
      PROVE  GovernorsInv'
  BY <1>2, WhereMainIs, GovernorsTyped DEF EnterUPModeFails, CpuFreqNotSet
<1>3. CASE ReadCpuinfo
  BY <1>3, WhereMainIs, GovernorsTyped DEF ReadCpuinfo
<1>4. CASE GetLastCpu
  BY <1>4, WhereMainIs, GovernorsTyped DEF GetLastCpu
<1>5. ASSUME NEW ok \in BOOLEAN, GetGovernor(ok)
      PROVE  GovernorsInv'
  BY <1>5, WhereMainIs, GovernorsTyped DEF GetGovernor
<1>6. ASSUME NEW w \in BOOLEAN, SetMax(w)
      PROVE  GovernorsInv'
  BY <1>6, WhereMainIs, GovernorsTyped DEF SetMax, CpuFreqSet
<1>7. ASSUME NEW b \in BOOLEAN, SetMaxFails(b)
      PROVE  GovernorsInv'
  BY <1>7, WhereMainIs, GovernorsTyped DEF SetMaxFails, CpuFreqNotSet
<1>8. ASSUME NEW f \in Frequencies \cup {0}, Calibrate(f)
      PROVE  GovernorsInv'
  BY <1>8, WhereMainIs, GovernorsTyped DEF Calibrate
<1>9. ASSUME NEW ok \in BOOLEAN, Calibrated(ok)
      PROVE  GovernorsInv'
  BY <1>9, WhereMainIs, GovernorsTyped DEF Calibrated
<1>10. ASSUME NEW ok \in BOOLEAN, BarrierInit(ok)
      PROVE  GovernorsInv'
  BY <1>10, WhereMainIs, GovernorsTyped DEF BarrierInit
<1>11. ASSUME NEW ok \in BOOLEAN, CreateThread(ok)
      PROVE  GovernorsInv'
  BY <1>11, WhereMainIs, GovernorsTyped DEF CreateThread
<1>12. CASE MainArrives
  BY <1>12, WhereMainIs, GovernorsTyped DEF MainArrives, Arrive
<1>13. CASE MainLeaves
  BY <1>13, WhereMainIs, GovernorsTyped DEF MainLeaves, Leave
<1>14. CASE JoinThread
  BY <1>14, WhereMainIs, GovernorsTyped DEF JoinThread
<1>15. CASE Compare
  BY <1>15, WhereMainIs, GovernorsTyped DEF Compare
<1>16. CASE DestroyLoop
  BY <1>16, WhereMainIs, GovernorsTyped DEF DestroyLoop
<1>17. ASSUME NEW ok \in BOOLEAN, Restore(ok)
      PROVE  GovernorsInv'
  BY <1>17, WhereMainIs, GovernorsTyped DEF Restore, CpuFreqRestoreGovernor
<1>18. ASSUME NEW b \in BOOLEAN, BarrierDestroy(b)
      PROVE  GovernorsInv'
  BY <1>18, WhereMainIs, GovernorsTyped DEF BarrierDestroy
<1>19. ASSUME NEW ok \in BOOLEAN, Exit(ok)
      PROVE  GovernorsInv'
  BY <1>19, WhereMainIs, GovernorsTyped DEF Exit, CpuFreqRestoreGovernor
<1>20. ASSUME NEW c \in Cpus, NEW ok \in BOOLEAN, LockMeToCpu(c, ok)
      PROVE  GovernorsInv'
  BY <1>20, WhereMainIs, GovernorsTyped DEF LockMeToCpu
<1>21. ASSUME NEW c \in Cpus, NEW ok \in BOOLEAN, SchedFifoEnterMax(c, ok)
      PROVE  GovernorsInv'
  BY <1>21, WhereMainIs, GovernorsTyped DEF SchedFifoEnterMax
<1>22. ASSUME NEW c \in Cpus, ThreadArrives(c)
      PROVE  GovernorsInv'
  BY <1>22, WhereMainIs, GovernorsTyped DEF ThreadArrives, Arrive
<1>23. ASSUME NEW c \in Cpus, ThreadLeaves(c)
      PROVE  GovernorsInv'
  BY <1>23, WhereMainIs, GovernorsTyped DEF ThreadLeaves, Leave
<1>24. ASSUME NEW c \in Cpus, ThreadEnds(c)
      PROVE  GovernorsInv'
  BY <1>24, WhereMainIs, GovernorsTyped DEF ThreadEnds
<1>25. CASE Search
  BY <1>25, WhereMainIs, GovernorsTyped DEF Search
<1>26. CASE UNCHANGED vars
  BY <1>26, WhereMainIs, GovernorsTyped DEF vars
<1> QED BY <1>1, <1>2, <1>3, <1>4, <1>5, <1>6, <1>7, <1>8, <1>9, <1>10, <1>11, <1>12, <1>13, <1>14, <1>15,
         <1>16, <1>17, <1>18, <1>19, <1>20, <1>21, <1>22, <1>23, <1>24, <1>25, <1>26 DEF Next, MainProgress, ThreadProgress

(* The loops, with the frequencies under which they were measured.         *)
LEMMA LoopsKept ==
    TypeOK /\ StepsInv /\ LoopsInv /\ [Next]_vars => LoopsInv'
<1> SUFFICES ASSUME TypeOK /\ StepsInv /\ LoopsInv, [Next]_vars PROVE LoopsInv'
  OBVIOUS
<1> USE DEF LoopsInv, FrequencySet, Cpus, cpuVars, mainVars, Goto, NextStep, Error, NextOrError
<1>1. ASSUME NEW w \in BOOLEAN, EnterUPModeFreqMax(w)
      PROVE  LoopsInv'
  BY <1>1, WhereMainIs, GovernorsTyped DEF EnterUPModeFreqMax, CpuFreqSet
<1>2. ASSUME NEW b \in BOOLEAN, EnterUPModeFails(b)
      PROVE  LoopsInv'
  BY <1>2, WhereMainIs, GovernorsTyped DEF EnterUPModeFails, CpuFreqNotSet
<1>3. CASE ReadCpuinfo
  BY <1>3, WhereMainIs, GovernorsTyped DEF ReadCpuinfo
<1>4. CASE GetLastCpu
  BY <1>4, WhereMainIs, GovernorsTyped DEF GetLastCpu
<1>5. ASSUME NEW ok \in BOOLEAN, GetGovernor(ok)
      PROVE  LoopsInv'
  BY <1>5, WhereMainIs, GovernorsTyped DEF GetGovernor
<1>6. ASSUME NEW w \in BOOLEAN, SetMax(w)
      PROVE  LoopsInv'
  BY <1>6, WhereMainIs, GovernorsTyped DEF SetMax, CpuFreqSet
<1>7. ASSUME NEW b \in BOOLEAN, SetMaxFails(b)
      PROVE  LoopsInv'
  BY <1>7, WhereMainIs, GovernorsTyped DEF SetMaxFails, CpuFreqNotSet
<1>8. ASSUME NEW f \in Frequencies \cup {0}, Calibrate(f)
      PROVE  LoopsInv'
  BY <1>8, WhereMainIs, GovernorsTyped DEF Calibrate
<1>9. ASSUME NEW ok \in BOOLEAN, Calibrated(ok)
      PROVE  LoopsInv'
  BY <1>9, WhereMainIs, GovernorsTyped DEF Calibrated
<1>10. ASSUME NEW ok \in BOOLEAN, BarrierInit(ok)
      PROVE  LoopsInv'
  BY <1>10, WhereMainIs, GovernorsTyped DEF BarrierInit
<1>11. ASSUME NEW ok \in BOOLEAN, CreateThread(ok)
      PROVE  LoopsInv'
  BY <1>11, WhereMainIs, GovernorsTyped DEF CreateThread
<1>12. CASE MainArrives
  BY <1>12, WhereMainIs, GovernorsTyped DEF MainArrives, Arrive
<1>13. CASE MainLeaves
  BY <1>13, WhereMainIs, GovernorsTyped DEF MainLeaves, Leave
<1>14. CASE JoinThread
  BY <1>14, WhereMainIs, GovernorsTyped DEF JoinThread
<1>15. CASE Compare
  BY <1>15, WhereMainIs, GovernorsTyped DEF Compare
<1>16. CASE DestroyLoop
  BY <1>16, WhereMainIs, GovernorsTyped DEF DestroyLoop
<1>17. ASSUME NEW ok \in BOOLEAN, Restore(ok)
      PROVE  LoopsInv'
  BY <1>17, WhereMainIs, GovernorsTyped DEF Restore, CpuFreqRestoreGovernor
<1>18. ASSUME NEW b \in BOOLEAN, BarrierDestroy(b)
      PROVE  LoopsInv'
  BY <1>18, WhereMainIs, GovernorsTyped DEF BarrierDestroy
<1>19. ASSUME NEW ok \in BOOLEAN, Exit(ok)
      PROVE  LoopsInv'
  BY <1>19, WhereMainIs, GovernorsTyped DEF Exit, CpuFreqRestoreGovernor
<1>20. ASSUME NEW c \in Cpus, NEW ok \in BOOLEAN, LockMeToCpu(c, ok)
      PROVE  LoopsInv'
  BY <1>20, WhereMainIs, GovernorsTyped DEF LockMeToCpu
<1>21. ASSUME NEW c \in Cpus, NEW ok \in BOOLEAN, SchedFifoEnterMax(c, ok)
      PROVE  LoopsInv'
  BY <1>21, WhereMainIs, GovernorsTyped DEF SchedFifoEnterMax
<1>22. ASSUME NEW c \in Cpus, ThreadArrives(c)
      PROVE  LoopsInv'
  BY <1>22, WhereMainIs, GovernorsTyped DEF ThreadArrives, Arrive
<1>23. ASSUME NEW c \in Cpus, ThreadLeaves(c)
      PROVE  LoopsInv'
  BY <1>23, WhereMainIs, GovernorsTyped DEF ThreadLeaves, Leave
<1>24. ASSUME NEW c \in Cpus, ThreadEnds(c)
      PROVE  LoopsInv'
  BY <1>24, WhereMainIs, GovernorsTyped DEF ThreadEnds
<1>25. CASE Search
  BY <1>25, WhereMainIs, GovernorsTyped DEF Search
<1>26. CASE UNCHANGED vars
  BY <1>26, WhereMainIs, GovernorsTyped DEF vars
<1> QED BY <1>1, <1>2, <1>3, <1>4, <1>5, <1>6, <1>7, <1>8, <1>9, <1>10, <1>11, <1>12, <1>13, <1>14, <1>15,
         <1>16, <1>17, <1>18, <1>19, <1>20, <1>21, <1>22, <1>23, <1>24, <1>25, <1>26 DEF Next, MainProgress, ThreadProgress

(* The threads on their ways.                                              *)
LEMMA ThreadsKept ==
    TypeOK /\ StepsInv /\ ThreadsInv /\ [Next]_vars => ThreadsInv'
<1> SUFFICES ASSUME TypeOK /\ StepsInv /\ ThreadsInv, [Next]_vars PROVE ThreadsInv'
  OBVIOUS
<1> USE DEF ThreadsInv, Ready, NoThread, Cpus, cpuVars, mainVars, Goto, NextStep, Error, NextOrError
<1>1. ASSUME NEW w \in BOOLEAN, EnterUPModeFreqMax(w)
      PROVE  ThreadsInv'
  BY <1>1, WhereMainIs, ThreadsTyped DEF EnterUPModeFreqMax, CpuFreqSet
<1>2. ASSUME NEW b \in BOOLEAN, EnterUPModeFails(b)
      PROVE  ThreadsInv'
  BY <1>2, WhereMainIs, ThreadsTyped DEF EnterUPModeFails, CpuFreqNotSet
<1>3. CASE ReadCpuinfo
  BY <1>3, WhereMainIs, ThreadsTyped DEF ReadCpuinfo
<1>4. CASE GetLastCpu
  BY <1>4, WhereMainIs, ThreadsTyped DEF GetLastCpu
<1>5. ASSUME NEW ok \in BOOLEAN, GetGovernor(ok)
      PROVE  ThreadsInv'
  BY <1>5, WhereMainIs, ThreadsTyped DEF GetGovernor
<1>6. ASSUME NEW w \in BOOLEAN, SetMax(w)
      PROVE  ThreadsInv'
  BY <1>6, WhereMainIs, ThreadsTyped DEF SetMax, CpuFreqSet
<1>7. ASSUME NEW b \in BOOLEAN, SetMaxFails(b)
      PROVE  ThreadsInv'
  BY <1>7, WhereMainIs, ThreadsTyped DEF SetMaxFails, CpuFreqNotSet
<1>8. ASSUME NEW f \in Frequencies \cup {0}, Calibrate(f)
      PROVE  ThreadsInv'
  BY <1>8, WhereMainIs, ThreadsTyped DEF Calibrate
<1>9. ASSUME NEW ok \in BOOLEAN, Calibrated(ok)
      PROVE  ThreadsInv'
  BY <1>9, WhereMainIs, ThreadsTyped DEF Calibrated
<1>10. ASSUME NEW ok \in BOOLEAN, BarrierInit(ok)
      PROVE  ThreadsInv'
  BY <1>10, WhereMainIs, ThreadsTyped DEF BarrierInit
<1>11. ASSUME NEW ok \in BOOLEAN, CreateThread(ok)
      PROVE  ThreadsInv'
  BY <1>11, WhereMainIs, ThreadsTyped DEF CreateThread
<1>12. CASE MainArrives
  BY <1>12, WhereMainIs, ThreadsTyped DEF MainArrives, Arrive
<1>13. CASE MainLeaves
  BY <1>13, WhereMainIs, ThreadsTyped DEF MainLeaves, Leave
<1>14. CASE JoinThread
  BY <1>14, WhereMainIs, ThreadsTyped DEF JoinThread
<1>15. CASE Compare
  BY <1>15, WhereMainIs, ThreadsTyped DEF Compare
<1>16. CASE DestroyLoop
  BY <1>16, WhereMainIs, ThreadsTyped DEF DestroyLoop
<1>17. ASSUME NEW ok \in BOOLEAN, Restore(ok)
      PROVE  ThreadsInv'
  BY <1>17, WhereMainIs, ThreadsTyped DEF Restore, CpuFreqRestoreGovernor
<1>18. ASSUME NEW b \in BOOLEAN, BarrierDestroy(b)
      PROVE  ThreadsInv'
  BY <1>18, WhereMainIs, ThreadsTyped DEF BarrierDestroy
<1>19. ASSUME NEW ok \in BOOLEAN, Exit(ok)
      PROVE  ThreadsInv'
  BY <1>19, WhereMainIs, ThreadsTyped DEF Exit, CpuFreqRestoreGovernor
<1>20. ASSUME NEW c \in Cpus, NEW ok \in BOOLEAN, LockMeToCpu(c, ok)
      PROVE  ThreadsInv'
  BY <1>20, WhereMainIs, ThreadsTyped DEF LockMeToCpu
<1>21. ASSUME NEW c \in Cpus, NEW ok \in BOOLEAN, SchedFifoEnterMax(c, ok)
      PROVE  ThreadsInv'
  BY <1>21, WhereMainIs, ThreadsTyped DEF SchedFifoEnterMax
<1>22. ASSUME NEW c \in Cpus, ThreadArrives(c)
      PROVE  ThreadsInv'
  BY <1>22, WhereMainIs, ThreadsTyped DEF ThreadArrives, Arrive
<1>23. ASSUME NEW c \in Cpus, ThreadLeaves(c)
      PROVE  ThreadsInv'
  BY <1>23, WhereMainIs, ThreadsTyped DEF ThreadLeaves, Leave
<1>24. ASSUME NEW c \in Cpus, ThreadEnds(c)
      PROVE  ThreadsInv'
  BY <1>24, WhereMainIs, ThreadsTyped DEF ThreadEnds
<1>25. CASE Search
  BY <1>25, WhereMainIs, ThreadsTyped DEF Search
<1>26. CASE UNCHANGED vars
  BY <1>26, WhereMainIs, ThreadsTyped DEF vars
<1> QED BY <1>1, <1>2, <1>3, <1>4, <1>5, <1>6, <1>7, <1>8, <1>9, <1>10, <1>11, <1>12, <1>13, <1>14, <1>15,
         <1>16, <1>17, <1>18, <1>19, <1>20, <1>21, <1>22, <1>23, <1>24, <1>25, <1>26 DEF Next, MainProgress, ThreadProgress

(* Those at the barrier.                                                   *)
LEMMA WaitingKept ==
    TypeOK /\ StepsInv /\ ThreadsInv /\ WaitingInv /\ OpenedInv /\ [Next]_vars => WaitingInv'
<1> SUFFICES ASSUME TypeOK /\ StepsInv /\ ThreadsInv /\ WaitingInv /\ OpenedInv, [Next]_vars PROVE WaitingInv'
  OBVIOUS
<1> USE DEF WaitingInv, ThreadsInv, OpenedInv, Opened, AtBarrier, Ready, NoThread, Cpus, Main, cpuVars, mainVars, Goto, NextStep, Error, NextOrError
<1>1. ASSUME NEW w \in BOOLEAN, EnterUPModeFreqMax(w)
      PROVE  WaitingInv'
  BY <1>1, WhereMainIs, ThreadsTyped DEF EnterUPModeFreqMax, CpuFreqSet
<1>2. ASSUME NEW b \in BOOLEAN, EnterUPModeFails(b)
      PROVE  WaitingInv'
  BY <1>2, WhereMainIs, ThreadsTyped DEF EnterUPModeFails, CpuFreqNotSet
<1>3. CASE ReadCpuinfo
  BY <1>3, WhereMainIs, ThreadsTyped DEF ReadCpuinfo
<1>4. CASE GetLastCpu
  BY <1>4, WhereMainIs, ThreadsTyped DEF GetLastCpu
<1>5. ASSUME NEW ok \in BOOLEAN, GetGovernor(ok)
      PROVE  WaitingInv'
  BY <1>5, WhereMainIs, ThreadsTyped DEF GetGovernor
<1>6. ASSUME NEW w \in BOOLEAN, SetMax(w)
      PROVE  WaitingInv'
  BY <1>6, WhereMainIs, ThreadsTyped DEF SetMax, CpuFreqSet
<1>7. ASSUME NEW b \in BOOLEAN, SetMaxFails(b)
      PROVE  WaitingInv'
  BY <1>7, WhereMainIs, ThreadsTyped DEF SetMaxFails, CpuFreqNotSet
<1>8. ASSUME NEW f \in Frequencies \cup {0}, Calibrate(f)
      PROVE  WaitingInv'
  BY <1>8, WhereMainIs, ThreadsTyped DEF Calibrate
<1>9. ASSUME NEW ok \in BOOLEAN, Calibrated(ok)
      PROVE  WaitingInv'
  BY <1>9, WhereMainIs, ThreadsTyped DEF Calibrated
<1>10. ASSUME NEW ok \in BOOLEAN, BarrierInit(ok)
      PROVE  WaitingInv'
  BY <1>10, WhereMainIs, ThreadsTyped DEF BarrierInit
<1>11. ASSUME NEW ok \in BOOLEAN, CreateThread(ok)
      PROVE  WaitingInv'
  BY <1>11, WhereMainIs, ThreadsTyped DEF CreateThread
<1>12. CASE MainArrives
  BY <1>12, WhereMainIs, ThreadsTyped, ArriveIs DEF MainArrives
<1>13. CASE MainLeaves
  BY <1>13, WhereMainIs, ThreadsTyped DEF MainLeaves, Leave
<1>14. CASE JoinThread
  BY <1>14, WhereMainIs, ThreadsTyped DEF JoinThread
<1>15. CASE Compare
  BY <1>15, WhereMainIs, ThreadsTyped DEF Compare
<1>16. CASE DestroyLoop
  BY <1>16, WhereMainIs, ThreadsTyped DEF DestroyLoop
<1>17. ASSUME NEW ok \in BOOLEAN, Restore(ok)
      PROVE  WaitingInv'
  BY <1>17, WhereMainIs, ThreadsTyped DEF Restore, CpuFreqRestoreGovernor
<1>18. ASSUME NEW b \in BOOLEAN, BarrierDestroy(b)
      PROVE  WaitingInv'
  BY <1>18, WhereMainIs, ThreadsTyped DEF BarrierDestroy
<1>19. ASSUME NEW ok \in BOOLEAN, Exit(ok)
      PROVE  WaitingInv'
  BY <1>19, WhereMainIs, ThreadsTyped DEF Exit, CpuFreqRestoreGovernor
<1>20. ASSUME NEW c \in Cpus, NEW ok \in BOOLEAN, LockMeToCpu(c, ok)
      PROVE  WaitingInv'
  BY <1>20, WhereMainIs, ThreadsTyped DEF LockMeToCpu
<1>21. ASSUME NEW c \in Cpus, NEW ok \in BOOLEAN, SchedFifoEnterMax(c, ok)
      PROVE  WaitingInv'
  BY <1>21, WhereMainIs, ThreadsTyped DEF SchedFifoEnterMax
<1>22. ASSUME NEW c \in Cpus, ThreadArrives(c)
      PROVE  WaitingInv'
  BY <1>22, WhereMainIs, ThreadsTyped, ArriveIs DEF ThreadArrives
<1>23. ASSUME NEW c \in Cpus, ThreadLeaves(c)
      PROVE  WaitingInv'
  BY <1>23, WhereMainIs, ThreadsTyped DEF ThreadLeaves, Leave
<1>24. ASSUME NEW c \in Cpus, ThreadEnds(c)
      PROVE  WaitingInv'
  BY <1>24, WhereMainIs, ThreadsTyped DEF ThreadEnds
<1>25. CASE Search
  BY <1>25, WhereMainIs, ThreadsTyped DEF Search
<1>26. CASE UNCHANGED vars
  BY <1>26, WhereMainIs, ThreadsTyped DEF vars
<1> QED BY <1>1, <1>2, <1>3, <1>4, <1>5, <1>6, <1>7, <1>8, <1>9, <1>10, <1>11, <1>12, <1>13, <1>14, <1>15,
         <1>16, <1>17, <1>18, <1>19, <1>20, <1>21, <1>22, <1>23, <1>24, <1>25, <1>26 DEF Next, MainProgress, ThreadProgress

(* The open barrier.                                                       *)
LEMMA OpenedKept ==
    TypeOK /\ StepsInv /\ ThreadsInv /\ WaitingInv /\ OpenedInv /\ [Next]_vars => OpenedInv'
<1> SUFFICES ASSUME TypeOK /\ StepsInv /\ ThreadsInv /\ WaitingInv /\ OpenedInv, [Next]_vars PROVE OpenedInv'
  OBVIOUS
<1> USE DEF OpenedInv, WaitingInv, ThreadsInv, Opened, AtBarrier, Ready, NoThread, Cpus, Main, cpuVars, mainVars, Goto, NextStep, Error, NextOrError
<1>1. ASSUME NEW w \in BOOLEAN, EnterUPModeFreqMax(w)
      PROVE  OpenedInv'
  BY <1>1, WhereMainIs, ThreadsTyped DEF EnterUPModeFreqMax, CpuFreqSet
<1>2. ASSUME NEW b \in BOOLEAN, EnterUPModeFails(b)
      PROVE  OpenedInv'
  BY <1>2, WhereMainIs, ThreadsTyped DEF EnterUPModeFails, CpuFreqNotSet
<1>3. CASE ReadCpuinfo
  BY <1>3, WhereMainIs, ThreadsTyped DEF ReadCpuinfo
<1>4. CASE GetLastCpu
  BY <1>4, WhereMainIs, ThreadsTyped DEF GetLastCpu
<1>5. ASSUME NEW ok \in BOOLEAN, GetGovernor(ok)
      PROVE  OpenedInv'
  BY <1>5, WhereMainIs, ThreadsTyped DEF GetGovernor
<1>6. ASSUME NEW w \in BOOLEAN, SetMax(w)
      PROVE  OpenedInv'
  BY <1>6, WhereMainIs, ThreadsTyped DEF SetMax, CpuFreqSet
<1>7. ASSUME NEW b \in BOOLEAN, SetMaxFails(b)
      PROVE  OpenedInv'
  BY <1>7, WhereMainIs, ThreadsTyped DEF SetMaxFails, CpuFreqNotSet
<1>8. ASSUME NEW f \in Frequencies \cup {0}, Calibrate(f)
      PROVE  OpenedInv'
  BY <1>8, WhereMainIs, ThreadsTyped DEF Calibrate
<1>9. ASSUME NEW ok \in BOOLEAN, Calibrated(ok)
      PROVE  OpenedInv'
  BY <1>9, WhereMainIs, ThreadsTyped DEF Calibrated
<1>10. ASSUME NEW ok \in BOOLEAN, BarrierInit(ok)
      PROVE  OpenedInv'
  BY <1>10, WhereMainIs, ThreadsTyped DEF BarrierInit
<1>11. ASSUME NEW ok \in BOOLEAN, CreateThread(ok)
      PROVE  OpenedInv'
  BY <1>11, WhereMainIs, ThreadsTyped DEF CreateThread
<1>12. CASE MainArrives
  BY <1>12, WhereMainIs, ThreadsTyped, ArriveIs DEF MainArrives
<1>13. CASE MainLeaves
  BY <1>13, WhereMainIs, ThreadsTyped DEF MainLeaves, Leave
<1>14. CASE JoinThread
  BY <1>14, WhereMainIs, ThreadsTyped DEF JoinThread
<1>15. CASE Compare
  BY <1>15, WhereMainIs, ThreadsTyped DEF Compare
<1>16. CASE DestroyLoop
  BY <1>16, WhereMainIs, ThreadsTyped DEF DestroyLoop
<1>17. ASSUME NEW ok \in BOOLEAN, Restore(ok)
      PROVE  OpenedInv'
  BY <1>17, WhereMainIs, ThreadsTyped DEF Restore, CpuFreqRestoreGovernor
<1>18. ASSUME NEW b \in BOOLEAN, BarrierDestroy(b)
      PROVE  OpenedInv'
  BY <1>18, WhereMainIs, ThreadsTyped DEF BarrierDestroy
<1>19. ASSUME NEW ok \in BOOLEAN, Exit(ok)
      PROVE  OpenedInv'
  BY <1>19, WhereMainIs, ThreadsTyped DEF Exit, CpuFreqRestoreGovernor
<1>20. ASSUME NEW c \in Cpus, NEW ok \in BOOLEAN, LockMeToCpu(c, ok)
      PROVE  OpenedInv'
  BY <1>20, WhereMainIs, ThreadsTyped DEF LockMeToCpu
<1>21. ASSUME NEW c \in Cpus, NEW ok \in BOOLEAN, SchedFifoEnterMax(c, ok)
      PROVE  OpenedInv'
  BY <1>21, WhereMainIs, ThreadsTyped DEF SchedFifoEnterMax
<1>22. ASSUME NEW c \in Cpus, ThreadArrives(c)
      PROVE  OpenedInv'
  BY <1>22, WhereMainIs, ThreadsTyped, ArriveIs DEF ThreadArrives
<1>23. ASSUME NEW c \in Cpus, ThreadLeaves(c)
      PROVE  OpenedInv'
  BY <1>23, WhereMainIs, ThreadsTyped DEF ThreadLeaves, Leave
<1>24. ASSUME NEW c \in Cpus, ThreadEnds(c)
      PROVE  OpenedInv'
  BY <1>24, WhereMainIs, ThreadsTyped DEF ThreadEnds
<1>25. CASE Search
  BY <1>25, WhereMainIs, ThreadsTyped DEF Search
<1>26. CASE UNCHANGED vars
  BY <1>26, WhereMainIs, ThreadsTyped DEF vars
<1> QED BY <1>1, <1>2, <1>3, <1>4, <1>5, <1>6, <1>7, <1>8, <1>9, <1>10, <1>11, <1>12, <1>13, <1>14, <1>15,
         <1>16, <1>17, <1>18, <1>19, <1>20, <1>21, <1>22, <1>23, <1>24, <1>25, <1>26 DEF Next, MainProgress, ThreadProgress

-----------------------------------------------------------------------------
LEMMA InitIInv == Init => IInv
<1> SUFFICES ASSUME Init PROVE IInv
  OBVIOUS
<1>1. SearchTypeOK /\ LoopWasMeasured
  BY UtilityCpuAssumption DEF Init, SearchInit, NoSearch, SearchTypeOK, LoopWasMeasured
<1>2. TypeOK
  BY <1>1, ScriptSteps DEF Init, TypeOK, NoThread, Cpus, Main
<1>3. StepsInv /\ GovernorsInv /\ LoopsInv
  BY DEF Init, StepsInv, GovernorsInv, LoopsInv, Cpus
<1>4. ThreadsInv /\ WaitingInv /\ OpenedInv
  BY DEF Init, ThreadsInv, WaitingInv, OpenedInv, Opened, AtBarrier, NoThread, Ready, Cpus
<1> QED BY <1>1, <1>2, <1>3, <1>4 DEF IInv

LEMMA NextIInv == IInv /\ [Next]_vars => IInv'
<1> SUFFICES ASSUME IInv, [Next]_vars PROVE IInv'
  OBVIOUS
<1>1. SearchTypeOK' /\ LoopWasMeasured'
  BY StepsOfCpu, SearchKept DEF IInv, TypeOK
<1>2. TypeOK' /\ StepsInv' /\ GovernorsInv' /\ LoopsInv'
  BY <1>1, TypeKept, StepsKept, GovernorsKept, LoopsKept DEF IInv
<1>3. ThreadsInv' /\ WaitingInv' /\ OpenedInv'
  BY ThreadsKept, WaitingKept, OpenedKept DEF IInv
<1> QED BY <1>1, <1>2, <1>3 DEF IInv

LEMMA AlwaysIInv == Spec => []IInv
  BY InitIInv, NextIInv, PTL DEF Spec

(* All variables of the experiment keep their types: the turns of a busy   *)
(* loop fit into an unsigned long, and no step is beyond the last.         *)
THEOREM TypeCorrect == Spec => []TypeOK
<1>1. IInv => TypeOK
  BY DEF IInv
<1> QED BY <1>1, AlwaysIInv, PTL

(* Wherever the experiment fails it leaves no governor changed that it     *)
(* does not report.                                                        *)
THEOREM GovernorsAlwaysRestored == Spec => []GovernorsRestored
<1>1. IInv => GovernorsRestored
  BY DEF IInv, GovernorsInv, GovernorsRestored, Cpus
<1> QED BY <1>1, AlwaysIInv, PTL

(* No busy loop is freed, and no governor given back, while a thread is    *)
(* busy.                                                                   *)
THEOREM LoopsAlwaysKeepTheirMeaning == Spec => []LoopsKeepTheirMeaning
<1>1. IInv => LoopsKeepTheirMeaning
  <2> SUFFICES ASSUME IInv, NEW c \in Cpus, thread[c].pc = "busy"
               PROVE  loop[c] = "made" /\ (governor[c] = "userspace" \/ c \in unnoticed)
    BY DEF LoopsKeepTheirMeaning
  <2>1. Opened /\ status # "exited"
    BY DEF IInv, ThreadsInv, Opened
  <2>2. status = "run" /\ step >= 11
    BY <2>1 DEF IInv, OpenedInv
  <2> QED BY <2>2, ScriptSteps DEF IInv, LoopsInv, FrequencySet, TypeOK, Cpus
<1> QED BY <1>1, AlwaysIInv, PTL

(* The barrier does what the experiment needs: a thread that is busy knows *)
(* that the other one is past everything that could delay it.              *)
THEOREM AlwaysRunTogether == Spec => []RunTogether
<1>1. IInv => RunTogether
  BY DEF IInv, ThreadsInv, OpenedInv, Opened, Ready, RunTogether
<1> QED BY <1>1, AlwaysIInv, PTL

=============================================================================
