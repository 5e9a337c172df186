----------------------------- MODULE UtilityTime ------------------------------
(***************************************************************************)
(* The time arithmetic of utility_time.h: objects of seconds and           *)
(* nanoseconds, the operations that write them, and the comparisons.       *)
(*                                                                         *)
(* Operands and result may be the same object ("overlap is allowed"), so   *)
(* an object is a pair of memory cells and every operation reads and       *)
(* writes cells in the order of the C statements.  THOUSAND is a constant  *)
(* so that TLC can count in small units.  A ghost cell "ideal" holds, for  *)
(* every object, the time in nanoseconds it is meant to have.              *)
(*                                                                         *)
(* The variants with suffix _dyn, which allocate the result, and _gc,      *)
(* which free the operands afterwards, compute the same values.  Seconds   *)
(* are 64 bits wide in the program; times stay far below that.             *)
(***************************************************************************)
EXTENDS Integers

CONSTANTS Objs,         \* the utility_time objects
          Local,        \* the local variable t of utility_time_mul
          THOUSAND,     \* 1000 in the program
          MaxTime,      \* bound on the times computed
          MaxFactor     \* bound on the multiplier n of utility_time_mul

ASSUME UtilityTimeAssumption ==
    /\ Local \notin Objs
    /\ THOUSAND \in Nat \ {0}
    /\ MaxTime \in Nat
    /\ MaxFactor \in Nat

MILLION == THOUSAND * THOUSAND
BILLION == THOUSAND * MILLION

Cells == Objs \cup {Local}

VARIABLES tv_sec, tv_nsec,  \* the cells of the objects
          ideal,            \* ghost: the times the objects are meant to have
          pc,               \* "idle", or "mul" in the loop of utility_time_mul
          mul               \* arguments of utility_time_mul, n counting down
                            \* from n0

vars == <<tv_sec, tv_nsec, ideal, pc, mul>>

Zero == [c \in Cells |-> 0]

(* utility_time_init has cleared every object.                             *)
Init ==
    /\ tv_sec = Zero /\ tv_nsec = Zero
    /\ ideal = Zero
    /\ pc = "idle"
    /\ mul = [t1 |-> Local, res |-> Local, n |-> 0, n0 |-> 0]

Write(o, sec, nsec) ==
    /\ tv_sec' = [tv_sec EXCEPT ![o] = sec]
    /\ tv_nsec' = [tv_nsec EXCEPT ![o] = nsec]

SetIdeal(o, time) ==
    /\ time <= MaxTime
    /\ ideal' = [ideal EXCEPT ![o] = time]

-----------------------------------------------------------------------------
(* Comparisons.                                                            *)

utility_time_eq(t1, t2) == tv_sec[t1] = tv_sec[t2] /\ tv_nsec[t1] = tv_nsec[t2]

(* Variant: the nanoseconds are compared whatever the seconds are.         *)
LtNoTie(t1, t2) == tv_sec[t1] < tv_sec[t2] \/ tv_nsec[t1] < tv_nsec[t2]

utility_time_lt(t1, t2) ==
    \/ tv_sec[t1] < tv_sec[t2]
    \/ tv_sec[t1] = tv_sec[t2] /\ tv_nsec[t1] < tv_nsec[t2]

utility_time_le(t1, t2) == utility_time_eq(t1, t2) \/ utility_time_lt(t1, t2)
utility_time_gt(t1, t2) == ~utility_time_le(t1, t2)
utility_time_ge(t1, t2) == ~utility_time_lt(t1, t2)
utility_time_ne(t1, t2) == ~utility_time_eq(t1, t2)

-----------------------------------------------------------------------------
(* t units of the size "unit" make whole seconds and a rest.               *)
to_utility_time(t, unit, o) ==
    CASE unit = "s"  -> Write(o, t, 0) /\ SetIdeal(o, t * BILLION)
      [] unit = "ms" -> Write(o, t \div THOUSAND, (t % THOUSAND) * MILLION)
                        /\ SetIdeal(o, t * MILLION)
      [] unit = "us" -> Write(o, t \div MILLION, (t % MILLION) * THOUSAND)
                        /\ SetIdeal(o, t * THOUSAND)
      [] unit = "ns" -> Write(o, t \div BILLION, t % BILLION)
                        /\ SetIdeal(o, t)

utility_time_to_utility_time(src, dst) ==
    /\ Write(dst, tv_sec[src], tv_nsec[src])
    /\ SetIdeal(dst, ideal[src])

combined_ns_in_s(t1, t2) == (tv_nsec[t1] + tv_nsec[t2]) \div BILLION

(* Variant: the sum of the nanoseconds is not reduced.                     *)
LeftoverWhole(t1, t2) == tv_nsec[t1] + tv_nsec[t2]

combined_ns_leftover(t1, t2) == (tv_nsec[t1] + tv_nsec[t2]) % BILLION

(* Variant: the two statements swapped; the carry is computed from what    *)
(* the first one has written.                                              *)
AddSwapped(t1, t2, res) ==
    /\ tv_nsec' = [tv_nsec EXCEPT ![res] = combined_ns_leftover(t1, t2)]
    /\ tv_sec' = [tv_sec EXCEPT ![res] = tv_sec[t1] + tv_sec[t2]
                                         + (tv_nsec'[t1] + tv_nsec'[t2]) \div BILLION]
    /\ SetIdeal(res, ideal[t1] + ideal[t2])

(* res->t.tv_sec is written first; the nanoseconds of the operands are     *)
(* still the old ones when res->t.tv_nsec is computed from them.           *)
utility_time_add(t1, t2, res) ==
    /\ Write(res, tv_sec[t1] + tv_sec[t2] + combined_ns_in_s(t1, t2),
                  combined_ns_leftover(t1, t2))
    /\ SetIdeal(res, ideal[t1] + ideal[t2])

utility_time_inc(target, inc) == utility_time_add(target, inc, target)

(* Variant: nothing is borrowed from the seconds.                          *)
SubNoBorrow(t1, t2, res) ==
    /\ IF utility_time_le(t1, t2) THEN Write(res, 0, 0)
       ELSE Write(res, tv_sec[t1] - tv_sec[t2], tv_nsec[t1] - tv_nsec[t2])
    /\ SetIdeal(res, IF ideal[t1] <= ideal[t2] THEN 0 ELSE ideal[t1] - ideal[t2])

(* Differences below zero are zero.                                        *)
utility_time_sub(t1, t2, res) ==
    /\ IF utility_time_le(t1, t2) THEN Write(res, 0, 0)
       ELSE IF tv_nsec[t1] < tv_nsec[t2]
       THEN Write(res, tv_sec[t1] - 1 - tv_sec[t2],
                       BILLION + tv_nsec[t1] - tv_nsec[t2])
       ELSE Write(res, tv_sec[t1] - tv_sec[t2], tv_nsec[t1] - tv_nsec[t2])
    /\ SetIdeal(res, IF ideal[t1] <= ideal[t2] THEN 0 ELSE ideal[t1] - ideal[t2])

(* utility_time_mul adds t1 n times to a local object.                     *)
MulBegin(t1, n, res) ==
    /\ n * ideal[t1] <= MaxTime
    /\ pc' = "mul"
    /\ mul' = [t1 |-> t1, res |-> res, n |-> n, n0 |-> n]
    /\ Write(Local, 0, 0)
    /\ SetIdeal(Local, 0)

MulStep ==
    /\ pc = "mul"
    /\ mul.n > 0
    /\ mul' = [t1 |-> mul.t1, res |-> mul.res, n |-> mul.n - 1, n0 |-> mul.n0]
    /\ utility_time_inc(Local, mul.t1)
    /\ UNCHANGED pc

(* The loop has ended: the product is n0 times t1.                         *)
MulEnd ==
    /\ pc = "mul"
    /\ mul.n = 0
    /\ pc' = "idle"
    /\ Write(mul.res, tv_sec[Local], tv_nsec[Local])
    /\ SetIdeal(mul.res, mul.n0 * ideal[mul.t1])
    /\ UNCHANGED mul

Units == {"s", "ms", "us", "ns"}

Operation ==
    /\ pc = "idle"
    /\ \/ /\ \E o \in Objs, t \in 0..MaxTime, unit \in Units : to_utility_time(t, unit, o)
          /\ UNCHANGED <<pc, mul>>
       \/ /\ \E t1, t2, res \in Objs :
                \/ utility_time_to_utility_time(t1, res)
                \/ utility_time_add(t1, t2, res)
                \/ utility_time_inc(t1, t2)
                \/ utility_time_sub(t1, t2, res)
          /\ UNCHANGED <<pc, mul>>
       \/ \E t1, res \in Objs, n \in 0..MaxFactor : MulBegin(t1, n, res)

Next == Operation \/ MulStep \/ MulEnd

Spec == Init /\ [][Next]_vars

-----------------------------------------------------------------------------
(* The cells hold natural numbers; mul holds arguments of utility_time_mul.*)
TypeOK ==
    /\ tv_sec \in [Cells -> Nat] /\ tv_nsec \in [Cells -> Nat]
    /\ ideal \in [Cells -> Nat]
    /\ pc \in {"idle", "mul"}
    /\ mul \in [t1 : Cells, res : Cells, n : Nat, n0 : Nat]
    /\ mul.n <= mul.n0
    /\ pc = "mul" => mul.t1 \in Objs /\ mul.res \in Objs

(* Every operation leaves its result normalised, which all of them and     *)
(* clock_nanosleep require of the times they are given.                    *)
Normalised == \A c \in Cells : tv_nsec[c] < BILLION

(* After any sequence of operations, with any overlap of the operands and  *)
(* the result, every object has exactly the time it is meant to have.      *)
ValueIsIdeal == \A c \in Cells : tv_sec[c] * BILLION + tv_nsec[c] = ideal[c]

(* The six comparisons of two objects, made of seconds and nanoseconds,    *)
(* are the comparisons of the two times.                                   *)
ComparisonsAgree ==
    \A t1, t2 \in Objs :
        /\ utility_time_eq(t1, t2) <=> ideal[t1] = ideal[t2]
        /\ utility_time_ne(t1, t2) <=> ideal[t1] # ideal[t2]
        /\ utility_time_lt(t1, t2) <=> ideal[t1] < ideal[t2]
        /\ utility_time_le(t1, t2) <=> ideal[t1] <= ideal[t2]
        /\ utility_time_gt(t1, t2) <=> ideal[t1] > ideal[t2]
        /\ utility_time_ge(t1, t2) <=> ideal[t1] >= ideal[t2]

==============================================================================
