------------------------------- MODULE JobLog --------------------------------
(***************************************************************************)
(* What a job statistics log promises, with no ring in sight: the log      *)
(* keeps, in release order, the start of the first Size jobs (overrun      *)
(* disabled) or of the last Size jobs (overrun enabled) out of "attempts"  *)
(* many.  An entry is the number of the job it was taken for, or 0 for the *)
(* newest job when the clock could not be read.                            *)
(***************************************************************************)
EXTENDS Integers, Sequences

CONSTANT Sizes          \* sizes a log may be opened with

VARIABLES open,         \* is there a log?
          size,         \* how many entries it keeps
          keepFirst,    \* TRUE: keep the first entries, FALSE: the last ones
          attempts,     \* the number of jobs logged or refused
          kept          \* the entries, oldest first

vars == <<open, size, keepFirst, attempts, kept>>

Init == /\ open = FALSE
        /\ size = 0
        /\ keepFirst = FALSE
        /\ attempts = 0
        /\ kept = <<>>

Open(n, first) ==
    /\ ~open
    /\ open' = TRUE
    /\ size' = n
    /\ keepFirst' = first
    /\ attempts' = 0
    /\ kept' = <<>>

(* Enter the start of the next job; the newest entry is lost when the log  *)
(* keeps its first entries and is full, the oldest one when it keeps the   *)
(* last entries.                                                           *)
Log(clockRead) ==
    LET entry == IF clockRead THEN attempts + 1 ELSE 0
    IN /\ open
       /\ attempts' = attempts + 1
       /\ kept' = CASE Len(kept) < size            -> Append(kept, entry)
                    [] Len(kept) = size /\ keepFirst  -> kept
                    [] Len(kept) = size /\ ~keepFirst -> Append(Tail(kept), entry)
       /\ UNCHANGED <<open, size, keepFirst>>

Close ==
    /\ open
    /\ open' = FALSE
    /\ size' = 0
    /\ keepFirst' = FALSE
    /\ attempts' = 0
    /\ kept' = <<>>

Next == \/ \E n \in Sizes, first \in BOOLEAN : Open(n, first)
        \/ \E clockRead \in BOOLEAN : Log(clockRead)
        \/ Close

Spec == Init /\ [][Next]_vars

==============================================================================
