----------------------------- MODULE UtilityCpu -----------------------------
(***************************************************************************)
(* utility_cpu.c: the frequency governors of the processors, and the       *)
(* search for the number of turns of a busy loop that lasts a given time.  *)
(* The files under /sys are the state of the governors; a busy loop is     *)
(* measured by its environment, which may come up with any duration.       *)
(***************************************************************************)
EXTENDS UtilityFile

CONSTANTS
    Frequencies,     \* what a processor may run at, in turns per unit of time
    Measurements,    \* how long a busy loop may turn out to last
    DURATION, TOLERANCE, MAX_PASSES,   \* what is searched for, and how long
    ULONG_MAX        \* the largest unsigned long: the asm of busyloop is for 32 bits

ASSUME UtilityCpuAssumption ==
    /\ Frequencies \subseteq Nat \ {0} /\ Measurements \subseteq Nat
    /\ {DURATION, TOLERANCE, ULONG_MAX} \subseteq Nat /\ MAX_PASSES \in Nat \ {0}

Cpus == {0, 1}

VARIABLES
    governor,     \* the governor of each processor
    unnoticed,    \* processors whose frequency was reported as set, but was not
    search        \* create_cpu_busyloop at work

cpuVars == <<governor, unnoticed, search, file>>

-----------------------------------------------------------------------------
(* cpu_freq_set: both files are opened before anything is written, so that *)
(* an error changes nothing; that the writing has failed goes unnoticed.   *)
CpuFreqSet(c, written) ==
    /\ written \/ Faults
    /\ governor' = IF written THEN [governor EXCEPT ![c] = "userspace"] ELSE governor
    /\ unnoticed' = IF written THEN unnoticed ELSE unnoticed \cup {c}

CpuFreqNotSet == Faults /\ UNCHANGED <<governor, unnoticed>>

(* cpu_freq_restore_governor of a governor with that name.                 *)
CpuFreqRestoreGovernor(c, name, ok) ==
    /\ ok \/ Faults
    /\ governor' = IF ok THEN [governor EXCEPT ![c] = name] ELSE governor
    /\ UNCHANGED unnoticed

-----------------------------------------------------------------------------
Abs(x) == IF x < 0 THEN -x ELSE x

(* state: "idle", "thread" (before the search thread searches), "pass", or *)
(* "done" with the result rc.                                              *)
NoSearch == [state |-> "idle", curr_freq |-> 0, nth_pass |-> 1, loop_count |-> 0,
             measured |-> -1, actual |-> -1, rc |-> 0]

SearchInit == search = NoSearch

Done(s, rc) == [s EXCEPT !.state = "done", !.rc = rc]

(* The current frequency, of which 0 says that it could not be read, gives *)
(* the first number of turns.                                              *)
CreateCpuBusyloop(curr_freq) ==
    /\ search.state = "idle"
    /\ curr_freq = 0 => Faults
    /\ LET loop_count == curr_freq * DURATION
           s == [NoSearch EXCEPT !.curr_freq = curr_freq, !.loop_count = loop_count]
       IN search' = IF loop_count > ULONG_MAX THEN Done(NoSearch, -4) ELSE [s EXCEPT !.state = "thread"]

(* The search thread is created, bound to the processor and given the      *)
(* highest priority, and that may fail.                                    *)
BusyloopSearchThread(rc) ==
    /\ search.state = "thread"
    /\ rc \in {-1, -3} => Faults
    /\ search' = IF rc = 0 THEN [search EXCEPT !.state = "pass"] ELSE Done(search, rc)

(* A pass: measure, and unless it is the last, correct loop_count by what  *)
(* the frequency makes of the difference.                                  *)
Measured(actual) == [search EXCEPT !.measured = search.loop_count, !.actual = actual]

Near(actual) == Abs(actual - DURATION) <= TOLERANCE

Correction(actual) == search.curr_freq * Abs(actual - DURATION)

PassEnds(actual) ==
    /\ actual < 0 => Faults
    /\ \/ actual < 0 /\ search' = Done(Measured(actual), -3)
       \/ actual >= 0 /\ (search.nth_pass = MAX_PASSES \/ Near(actual))
              /\ search' = Done(Measured(actual), 0)

Correct(actual) ==
    LET next(loop_count) == [Measured(actual) EXCEPT !.nth_pass = @ + 1, !.loop_count = loop_count]
        n == search.loop_count
        d == Correction(actual)
    IN \/ actual < DURATION /\ d > n \div 10  /\ search' = Done(Measured(actual), -3)
       \/ actual < DURATION /\ d <= n \div 10 /\ search' = next((n + d) % (ULONG_MAX + 1))
       \/ actual > DURATION /\ d > n          /\ search' = Done(Measured(actual), -2)
       \/ actual > DURATION /\ d <= n         /\ search' = next(n - d)

PassCorrects(actual) ==
    actual >= 0 /\ search.nth_pass < MAX_PASSES /\ ~Near(actual) /\ Correct(actual)

(* Variant: the last pass corrects loop_count too.                         *)
BusyloopSearchCorrectsLast(actual) ==
    /\ search.state = "pass"
    /\ \/ PassEnds(actual) /\ (actual < 0 \/ Near(actual))
       \/ /\ actual >= 0 /\ search.nth_pass = MAX_PASSES /\ ~Near(actual)
          /\ search' = [Done(Measured(actual), 0) EXCEPT !.loop_count = @ + Correction(actual)]
       \/ PassCorrects(actual)

BusyloopSearch(actual) == search.state = "pass" /\ (PassEnds(actual) \/ PassCorrects(actual))

SearchTypeOK ==
    search \in [state : {"idle", "thread", "pass", "done"},
                curr_freq : {0} \cup Frequencies, nth_pass : 1..MAX_PASSES,
                loop_count : 0..ULONG_MAX, measured : -1..ULONG_MAX,
                actual : {-1} \cup Measurements, rc : -4..0]

(* A search that succeeds ends with a number of turns that it has measured *)
(* and that lasted as long as wanted, unless its passes were used up: the  *)
(* last pass measures and corrects no more.                                *)
LoopWasMeasured ==
    search.state = "done" /\ search.rc = 0 =>
        /\ search.loop_count = search.measured
        /\ Near(search.actual) \/ search.nth_pass = MAX_PASSES

=============================================================================
