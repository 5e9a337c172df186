----------------------------- MODULE TaskStatsFile -----------------------------
(***************************************************************************)
(* Reading a task statistics file: task_statistics_read of task.c, with    *)
(* job_statistics_read of job.c and utility_file_read_bin of utility_file.c*)
(*                                                                         *)
(* A file is a number of whole units (task statistics, name, ring buffer   *)
(* parameters, then one per job; the parameters are not there when the job *)
(* statistics are disabled), perhaps followed by a part of a unit: what    *)
(* task_create and flush_stats_ringbuf write, cut off anywhere.  Reading   *)
(* one of the units may be an I/O error that comes back on every retry.    *)
(* The caller may call task_statistics_read again on the same stream, when *)
(* it is at its end or after rewinding it with fseek, which clears eof but *)
(* not ferr.                                                               *)
(***************************************************************************)
EXTENDS Integers, Sequences

CONSTANT MaxUnits       \* bound on the units of a file

ASSUME TaskStatsFileAssumption == MaxUnits \in Nat

None == 0

Files == [disabled : BOOLEAN, compatible : BOOLEAN, units : 0..MaxUnits,
          partial : BOOLEAN, bad : {None} \cup 1..MaxUnits]

VARIABLES file,        \* the file being read
          pos,         \* whole units read
          tail,        \* the part of a unit at the end is still unread
          eof, ferr,   \* the two flags of the stream
          section,          \* the next section of task_statistics_read
          task_name,   \* is the memory for the name allocated?
          told,        \* has task_statistics_fn been called?
          refused,     \* which callback has returned non-zero, if any
          delivered,   \* the job records job_statistics_fn was given
          garbage,     \* it was given an uninitialised record
          exit_code

readVars == <<file, pos, tail, eof, ferr, section, task_name, told, refused,
              delivered, garbage, exit_code>>

(* Where the records of the jobs start, and how many there are.            *)
Header == IF file.disabled THEN 2 ELSE 3
Jobs   == IF file.units > Header THEN file.units - Header ELSE 0

ReadInit ==
    /\ file \in Files
    /\ file.disabled => file.units <= 2
    /\ pos = 0
    /\ tail = file.partial
    /\ eof = FALSE /\ ferr = FALSE
    /\ section = "idle"
    /\ task_name = FALSE
    /\ told = FALSE
    /\ refused = "nobody"
    /\ delivered = <<>>
    /\ garbage = FALSE
    /\ exit_code = 0

(* fread of a unit: an I/O error sets one flag of the stream, a short read *)
(* the other.                                                              *)
Broken == file.bad = pos + 1
Whole  == ~Broken /\ pos < file.units
Short  == ~Broken /\ pos >= file.units

Fread ==
    /\ pos' = IF Whole THEN pos + 1 ELSE pos
    /\ tail' = (tail /\ ~Short)
    /\ ferr' = (ferr \/ Broken)
    /\ eof' = (eof \/ Short)

streamUnchanged == UNCHANGED <<pos, tail, eof, ferr>>

(* The label out.                                                          *)
Out(code) ==
    /\ exit_code' = code
    /\ task_name' = FALSE
    /\ section' = "done"

Enter ==
    /\ section = "idle" \/ (section = "done" /\ eof)
    /\ told' = FALSE
    /\ refused' = "nobody"
    /\ delivered' = <<>>
    /\ garbage' = FALSE
    /\ IF eof THEN Out(-4)
       ELSE /\ section' = "task_stats"
            /\ exit_code' = -3
            /\ UNCHANGED task_name
    /\ streamUnchanged
    /\ UNCHANGED file

(* The caller rewinds the stream.                                          *)
Rewind ==
    /\ section = "done"
    /\ section' = "idle"
    /\ pos' = 0
    /\ tail' = file.partial
    /\ eof' = FALSE
    /\ UNCHANGED <<file, ferr, task_name, told, refused, delivered, garbage,
                   exit_code>>

(* The task statistics, checked for compatibility with the host.           *)
ReadTaskStats ==
    /\ section = "task_stats"
    /\ Fread
    /\ IF Whole /\ file.compatible
       THEN section' = "name" /\ UNCHANGED <<exit_code, task_name>>
       ELSE Out(IF Short /\ ~tail /\ ~ferr THEN -4 ELSE -3)
    /\ UNCHANGED <<file, told, refused, delivered, garbage>>

ReadName(memory) ==
    /\ section = "name"
    /\ IF memory THEN Fread ELSE streamUnchanged
    /\ IF memory /\ Whole
       THEN section' = "params" /\ task_name' = TRUE /\ UNCHANGED exit_code
       ELSE Out(-3)
    /\ UNCHANGED <<file, told, refused, delivered, garbage>>

ReadRingbufParams ==
    /\ section = "params"
    /\ IF file.disabled THEN streamUnchanged ELSE Fread
    /\ IF file.disabled \/ Whole
       THEN section' = "task_fn" /\ UNCHANGED <<exit_code, task_name>>
       ELSE Out(-3)
    /\ UNCHANGED <<file, told, refused, delivered, garbage>>

(* task_statistics_fn; without job statistics the function is through, and *)
(* exit_code is what it was initialised to.                                *)
TaskStatisticsFn(zero) ==
    /\ section = "task_fn"
    /\ told' = TRUE
    /\ refused' = IF zero THEN refused ELSE "task_statistics_fn"
    /\ IF ~zero THEN Out(-1)
       ELSE IF file.disabled THEN Out(exit_code)
       ELSE section' = "jobs" /\ UNCHANGED <<exit_code, task_name>>
    /\ streamUnchanged
    /\ UNCHANGED <<file, delivered, garbage>>

(* Variant: a cut off record is taken for the end of the file.             *)
ReadJobTolerant ==
    /\ section = "jobs"
    /\ IF eof THEN streamUnchanged ELSE Fread
    /\ IF eof \/ Short THEN Out(0) /\ UNCHANGED <<delivered, garbage>>
       ELSE /\ section' = "job_fn"
            /\ delivered' = IF Whole THEN Append(delivered, pos' - Header) ELSE delivered
            /\ garbage' = (garbage \/ Broken)
            /\ UNCHANGED <<exit_code, task_name>>
    /\ UNCHANGED <<file, told, refused>>

(* Variant: the length of what was read is not looked at, and a record     *)
(* that is cut off is taken for one.                                       *)
ReadJobHalf ==
    /\ section = "jobs"
    /\ IF eof THEN streamUnchanged ELSE Fread
    /\ IF eof \/ (Short /\ ~tail) THEN Out(0) /\ UNCHANGED <<delivered, garbage>>
       ELSE /\ section' = "job_fn"
            /\ delivered' = IF Whole THEN Append(delivered, pos' - Header) ELSE delivered
            /\ garbage' = (garbage \/ ~Whole)
            /\ UNCHANGED <<exit_code, task_name>>
    /\ UNCHANGED <<file, told, refused>>

(* job_statistics_read.  utility_file_read_bin returns -3 on an I/O error, *)
(* which no case of job_statistics_read mentions: it returns 0 and a       *)
(* record that was never filled.                                           *)
ReadJob ==
    /\ section = "jobs"
    /\ IF eof THEN streamUnchanged ELSE Fread
    /\ IF eof THEN Out(0) /\ UNCHANGED <<delivered, garbage>>
       ELSE IF Short /\ ~ferr
       THEN Out(IF tail THEN -3 ELSE 0) /\ UNCHANGED <<delivered, garbage>>
       ELSE /\ section' = "job_fn"
            /\ delivered' = IF Whole THEN Append(delivered, pos' - Header) ELSE delivered
            /\ garbage' = (garbage \/ ~Whole)
            /\ UNCHANGED <<exit_code, task_name>>
    /\ UNCHANGED <<file, told, refused>>

JobStatisticsFn(zero) ==
    /\ section = "job_fn"
    /\ refused' = IF zero THEN refused ELSE "job_statistics_fn"
    /\ IF zero THEN section' = "jobs" /\ UNCHANGED <<exit_code, task_name>>
       ELSE Out(-2)
    /\ streamUnchanged
    /\ UNCHANGED <<file, told, delivered, garbage>>

ReadNext ==
    \/ Enter \/ Rewind
    \/ ReadTaskStats \/ ReadRingbufParams \/ ReadJob
    \/ \E b \in BOOLEAN : ReadName(b) \/ TaskStatisticsFn(b) \/ JobStatisticsFn(b)

ReadSpec == ReadInit /\ [][ReadNext]_readVars

-----------------------------------------------------------------------------
(* The stream and the local variables of task_statistics_read.             *)
ReadTypeOK ==
    /\ file \in Files
    /\ pos \in 0..file.units
    /\ tail \in BOOLEAN /\ eof \in BOOLEAN /\ ferr \in BOOLEAN
    /\ task_name \in BOOLEAN /\ told \in BOOLEAN /\ garbage \in BOOLEAN
    /\ section \in {"idle", "task_stats", "name", "params", "task_fn", "jobs",
               "job_fn", "done"}
    /\ refused \in {"nobody", "task_statistics_fn", "job_statistics_fn"}
    /\ delivered \in Seq(1..MaxUnits)
    /\ exit_code \in {-4, -3, -2, -1, 0}

(* Whatever the file, the callbacks of a call of task_statistics_read see  *)
(* the task first and then the job records of the file from the first one  *)
(* on, each once, and none that is cut off.  What task.h:421-422 and       *)
(* job.h:209-211 promise of an I/O error, that the call ends with -3, does *)
(* not hold: job_statistics_fn is given a record that was never filled     *)
(* (job.c:72).  But it is given one only for a record that cannot be read, *)
(* when it has had all those before it, and only its own refusal ends such *)
(* a call.                                                                 *)
DeliveredInOrder ==
    /\ Len(delivered) <= Jobs
    /\ \A j \in 1..Len(delivered) : delivered[j] = j
    /\ delivered # <<>> \/ garbage => told
    /\ garbage => ferr /\ file.bad = Header + Len(delivered) + 1
    /\ garbage /\ section = "done" => refused = "job_statistics_fn"

(* Everything there is to tell of the task has been told.                  *)
Deserialized ==
    /\ told /\ refused = "nobody" /\ ~garbage
    /\ ~file.disabled => eof /\ ~file.partial /\ Len(delivered) = Jobs

(* The stream is stuck at an I/O error, it ends too early, or what is      *)
(* behind the task statistics was not looked at: they are of another host, *)
(* or there is no memory for the name.                                     *)
CannotBeRead ==
    \/ ferr /\ Broken
    \/ eof /\ (file.partial \/ file.units < Header)
    \/ ~told /\ pos = 1

(* Each exit code comes exactly when, and -3 and -4 only when, task.h      *)
(* says: 0 when everything was deserialized, -1 and -2 when that callback  *)
(* has refused, -3 when the file cannot be read on, -4 at the end of the   *)
(* file, with no callback called.  The exception: when the job statistics  *)
(* are disabled, a call that has deserialized everything returns -3        *)
(* (task.c:720-747), against task.h:419-422.                               *)
ExitCodeTellsTheTruth ==
    section = "done" =>
        /\ exit_code = 0  <=> Deserialized /\ ~file.disabled
        /\ exit_code = -1 <=> refused = "task_statistics_fn"
        /\ exit_code = -2 <=> refused = "job_statistics_fn"
        /\ exit_code = -3 => CannotBeRead \/ (Deserialized /\ file.disabled)
        /\ exit_code = -4 => eof /\ ~told /\ delivered = <<>> /\ ~garbage
        /\ ~task_name

==============================================================================
