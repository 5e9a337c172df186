--------------------------- MODULE UtilityTimeProof ---------------------------
(***************************************************************************)
(* Proofs about UtilityTime, for every number of nanoseconds in a second,  *)
(* every set of objects and every bound.                                   *)
(*                                                                         *)
(* That every object has its ideal time is inductive together with its     *)
(* being normalised and, in the loop of utility_time_mul, with the local   *)
(* object having as many times t1 as the loop has gone round.  All         *)
(* operations write one cell, so the lemma WriteCells reduces each of them *)
(* to arithmetic about the value it writes.                                *)
(***************************************************************************)
EXTENDS UtilityTime, TLAPS

CellsOK ==
    /\ tv_sec \in [Cells -> Nat] /\ tv_nsec \in [Cells -> Nat]
    /\ ideal \in [Cells -> Nat]
    /\ Normalised
    /\ ValueIsIdeal

MulProgress ==
    pc = "mul" => ideal[Local] = (mul.n0 - mul.n) * ideal[mul.t1]

IInv == TypeOK /\ Normalised /\ ValueIsIdeal /\ MulProgress

-----------------------------------------------------------------------------
(* Arithmetic.                                                             *)

(* Division with remainder.                                                *)
LEMMA DivMod ==
    ASSUME NEW x \in Nat, NEW b \in Nat, b > 0
    PROVE  \E q \in Nat, r \in Nat :
              q = x \div b /\ r = x % b /\ r < b /\ x = q * b + r
<1>1. PICK q \in Nat : q = x \div b  OBVIOUS
<1>2. PICK r \in 0..(b - 1) : r = x % b  OBVIOUS
<1>3. x = b * q + r  BY <1>1, <1>2
<1>4. b * q = q * b  OBVIOUS
<1>5. x = q * b + r  BY <1>3, <1>4
<1> QED  BY <1>1, <1>2, <1>5

(* A multiplication by a natural number keeps the order.                   *)
LEMMA MulMono ==
    ASSUME NEW x \in Nat, NEW y \in Nat, NEW b \in Nat, x <= y
    PROVE  x * b \in Nat /\ y * b \in Nat /\ x * b <= y * b
<1> DEFINE d == y - x
<1>1. d \in Nat /\ y = x + d  OBVIOUS
<1> HIDE DEF d
<1>2. y * b = x * b + d * b  BY <1>1
<1>3. d * b \in Nat /\ x * b \in Nat  BY <1>1
<1> QED  BY <1>2, <1>3

(* Splitting t into t \div p and t % p keeps t times f: the units ms and us*)
(* of to_utility_time have p = 1000 and f = 1000000, or the other way.     *)
LEMMA SplitUnit ==
    ASSUME NEW t \in Nat, NEW p \in Nat, NEW f \in Nat, p > 0, f > 0
    PROVE  /\ t \div p \in Nat /\ (t % p) * f \in Nat
           /\ (t % p) * f < p * f
           /\ (t \div p) * (p * f) + (t % p) * f = t * f
<1>1. PICK q \in Nat, r \in Nat : q = t \div p /\ r = t % p /\ r < p /\ t = q * p + r
  BY DivMod
<1>2. t * f = q * (p * f) + r * f  BY <1>1
<1>3. (r + 1) * f <= p * f  BY <1>1, MulMono
<1>4. (r + 1) * f = r * f + f  OBVIOUS
<1>5. r * f \in Nat /\ p * f \in Nat  OBVIOUS
<1>6. r * f < p * f  BY <1>3, <1>4, <1>5
<1> QED  BY <1>1, <1>2, <1>5, <1>6

(* A second has at least one nanosecond.                                   *)
LEMMA Positive ==
    /\ THOUSAND \in Nat /\ THOUSAND > 0
    /\ MILLION \in Nat /\ MILLION > 0
    /\ BILLION \in Nat /\ BILLION > 0
<1>1. THOUSAND \in Nat /\ THOUSAND >= 1  BY UtilityTimeAssumption
<1>2. MILLION \in Nat /\ 1 * THOUSAND <= MILLION  BY <1>1, MulMono DEF MILLION
<1>3. BILLION \in Nat /\ 1 * MILLION <= BILLION  BY <1>1, <1>2, MulMono DEF BILLION
<1> QED  BY <1>1, <1>2, <1>3

(* The carry of an addition.                                               *)
LEMMA Carry ==
    ASSUME NEW s1 \in Nat, NEW m \in Nat, NEW s2 \in Nat, NEW n \in Nat,
           NEW q \in Nat, NEW r \in Nat, NEW b \in Nat, m + n = q * b + r
    PROVE  (s1 * b + m) + (s2 * b + n) = (s1 + s2 + q) * b + r
<1>1. (s1 + s2 + q) * b = s1 * b + s2 * b + q * b  OBVIOUS
<1>2. s1 * b \in Nat /\ s2 * b \in Nat /\ q * b \in Nat  OBVIOUS
<1> QED  BY <1>1, <1>2

(* Seconds and nanoseconds are ordered like the times they make.           *)
LEMMA Order ==
    ASSUME NEW s1 \in Nat, NEW n1 \in Nat, NEW s2 \in Nat, NEW n2 \in Nat,
           NEW b \in Nat, n1 < b, n2 < b
    PROVE  /\ s1 < s2 => s1 * b + n1 < s2 * b + n2
           /\ s1 = s2 => (s1 * b + n1 < s2 * b + n2 <=> n1 < n2)
           /\ s1 = s2 => (s1 * b + n1 = s2 * b + n2 <=> n1 = n2)
<1>1. s1 * b \in Nat /\ s2 * b \in Nat  OBVIOUS
<1>2. ASSUME s1 < s2  PROVE s1 * b + n1 < s2 * b + n2
  <2>1. (s1 + 1) * b <= s2 * b  BY <1>2, MulMono
  <2>2. (s1 + 1) * b = s1 * b + b  OBVIOUS
  <2> QED  BY <1>1, <2>1, <2>2
<1>3. ASSUME s1 = s2  PROVE /\ s1 * b + n1 < s2 * b + n2 <=> n1 < n2
                            /\ s1 * b + n1 = s2 * b + n2 <=> n1 = n2
  BY <1>1, <1>3
<1> QED  BY <1>2, <1>3

-----------------------------------------------------------------------------
(* An operation that writes a normalised pair into one object, and gives   *)
(* it that pair's time, keeps the cells in order.                          *)
LEMMA WriteCells ==
    ASSUME CellsOK, NEW o \in Cells, NEW sec \in Nat, NEW nsec \in Nat, nsec < BILLION,
           NEW time, time = sec * BILLION + nsec,
           Write(o, sec, nsec), SetIdeal(o, time)
    PROVE  CellsOK'
<1>1. BILLION \in Nat  BY Positive
<1>2. time \in Nat  BY <1>1
<1>3. tv_sec' = [tv_sec EXCEPT ![o] = sec]  BY DEF Write
<1>4. tv_nsec' = [tv_nsec EXCEPT ![o] = nsec]  BY DEF Write
<1>5. ideal' = [ideal EXCEPT ![o] = time]  BY DEF SetIdeal
<1>6. /\ tv_sec' \in [Cells -> Nat] /\ tv_nsec' \in [Cells -> Nat]
      /\ ideal' \in [Cells -> Nat]
  BY <1>2, <1>3, <1>4, <1>5 DEF CellsOK
<1>7. Normalised'  BY <1>4 DEF CellsOK, Normalised, BILLION, MILLION
<1>8. ValueIsIdeal'
  <2> SUFFICES ASSUME NEW d \in Cells
               PROVE  tv_sec'[d] * BILLION + tv_nsec'[d] = ideal'[d]
    BY DEF ValueIsIdeal, BILLION, MILLION
  <2>1. CASE d = o
    <3>1. tv_sec'[d] = sec /\ tv_nsec'[d] = nsec /\ ideal'[d] = time
      BY <2>1, <1>3, <1>4, <1>5 DEF CellsOK
    <3> QED  BY <3>1
  <2>2. CASE d # o
    <3>1. tv_sec'[d] = tv_sec[d] /\ tv_nsec'[d] = tv_nsec[d] /\ ideal'[d] = ideal[d]
      BY <2>2, <1>3, <1>4, <1>5 DEF CellsOK
    <3> QED  BY <3>1 DEF CellsOK, ValueIsIdeal
  <2> QED  BY <2>1, <2>2
<1> QED  BY <1>6, <1>7, <1>8 DEF CellsOK

(* What is known of an object whose cells are in order.                    *)
LEMMA CellFacts ==
    ASSUME CellsOK, NEW o \in Cells
    PROVE  /\ tv_sec[o] \in Nat /\ tv_nsec[o] \in Nat /\ ideal[o] \in Nat
           /\ tv_nsec[o] < BILLION
           /\ ideal[o] = tv_sec[o] * BILLION + tv_nsec[o]
  BY DEF CellsOK, Normalised, ValueIsIdeal

-----------------------------------------------------------------------------
(* The operations.                                                         *)

(* utility_time_add and utility_time_inc.                                  *)
LEMMA AddCells ==
    ASSUME CellsOK, NEW t1 \in Cells, NEW t2 \in Cells, NEW res \in Cells,
           utility_time_add(t1, t2, res)
    PROVE  CellsOK'
<1> DEFINE m == tv_nsec[t1]
           n == tv_nsec[t2]
<1>1. /\ tv_sec[t1] \in Nat /\ m \in Nat /\ tv_sec[t2] \in Nat /\ n \in Nat
      /\ ideal[t1] = tv_sec[t1] * BILLION + m
      /\ ideal[t2] = tv_sec[t2] * BILLION + n
  BY CellFacts
<1>2. BILLION \in Nat /\ BILLION > 0  BY Positive
<1>3. m + n \in Nat  BY <1>1
<1>4. PICK q \in Nat, r \in Nat :
         q = (m + n) \div BILLION /\ r = (m + n) % BILLION /\ r < BILLION
         /\ m + n = q * BILLION + r
  BY <1>2, <1>3, DivMod
<1> DEFINE sec == tv_sec[t1] + tv_sec[t2] + q
<1>5. Write(res, sec, r) /\ SetIdeal(res, ideal[t1] + ideal[t2])
  BY <1>4 DEF utility_time_add, combined_ns_in_s, combined_ns_leftover
<1>6. m + n = q * BILLION + r /\ r < BILLION  BY <1>4
<1>7. sec \in Nat  BY <1>1, <1>4
<1>8. PICK s1 \in Nat, s2 \in Nat, b \in Nat, x \in Nat, y \in Nat :
         /\ s1 = tv_sec[t1] /\ s2 = tv_sec[t2] /\ b = BILLION /\ x = m /\ y = n
  BY <1>1, <1>2, Zenon
<1>9. ideal[t1] + ideal[t2] = sec * BILLION + r
  <2>1. x + y = q * b + r  BY <1>6, <1>8
  <2>2. (s1 * b + x) + (s2 * b + y) = (s1 + s2 + q) * b + r  BY <2>1, Carry
  <2> QED  BY <1>1, <1>8, <2>2
<1> QED  BY <1>5, <1>6, <1>7, <1>9, WriteCells

(* utility_time_eq and utility_time_lt compare the times, and so do the    *)
(* four comparisons made from them.                                        *)
LEMMA Compare ==
    ASSUME CellsOK, NEW t1 \in Cells, NEW t2 \in Cells
    PROVE  /\ utility_time_lt(t1, t2) <=> ideal[t1] < ideal[t2]
           /\ utility_time_eq(t1, t2) <=> ideal[t1] = ideal[t2]
           /\ utility_time_le(t1, t2) <=> ideal[t1] <= ideal[t2]
<1>1. /\ tv_sec[t1] \in Nat /\ tv_nsec[t1] \in Nat /\ tv_nsec[t1] < BILLION
      /\ tv_sec[t2] \in Nat /\ tv_nsec[t2] \in Nat /\ tv_nsec[t2] < BILLION
      /\ ideal[t1] \in Nat /\ ideal[t2] \in Nat
      /\ ideal[t1] = tv_sec[t1] * BILLION + tv_nsec[t1]
      /\ ideal[t2] = tv_sec[t2] * BILLION + tv_nsec[t2]
  BY CellFacts
<1>2. BILLION \in Nat  BY Positive
<1>3. tv_sec[t1] < tv_sec[t2] => ideal[t1] < ideal[t2]  BY <1>1, <1>2, Order
<1>4. tv_sec[t2] < tv_sec[t1] => ideal[t2] < ideal[t1]  BY <1>1, <1>2, Order
<1>5. tv_sec[t1] = tv_sec[t2] =>
         /\ ideal[t1] < ideal[t2] <=> tv_nsec[t1] < tv_nsec[t2]
         /\ ideal[t1] = ideal[t2] <=> tv_nsec[t1] = tv_nsec[t2]
  BY <1>1, <1>2, Order
<1>6. utility_time_lt(t1, t2) <=> ideal[t1] < ideal[t2]
  BY <1>1, <1>3, <1>4, <1>5 DEF utility_time_lt
<1>7. utility_time_eq(t1, t2) <=> ideal[t1] = ideal[t2]
  BY <1>1, <1>3, <1>4, <1>5 DEF utility_time_eq
<1> QED  BY <1>1, <1>6, <1>7 DEF utility_time_le

(* utility_time_sub, whose three cases are the three branches of the code. *)
LEMMA SubCells ==
    ASSUME CellsOK, NEW t1 \in Cells, NEW t2 \in Cells, NEW res \in Cells,
           utility_time_sub(t1, t2, res)
    PROVE  CellsOK'
<1> DEFINE s1 == tv_sec[t1]
           s2 == tv_sec[t2]
           n1 == tv_nsec[t1]
           n2 == tv_nsec[t2]
<1>1. /\ s1 \in Nat /\ n1 \in Nat /\ n1 < BILLION
      /\ s2 \in Nat /\ n2 \in Nat /\ n2 < BILLION
      /\ ideal[t1] \in Nat /\ ideal[t2] \in Nat
      /\ ideal[t1] = s1 * BILLION + n1
      /\ ideal[t2] = s2 * BILLION + n2
  BY CellFacts
<1>2. BILLION \in Nat /\ BILLION > 0  BY Positive
<1>3. utility_time_le(t1, t2) <=> ideal[t1] <= ideal[t2]  BY Compare
<1>4. CASE utility_time_le(t1, t2)
  <2>1. Write(res, 0, 0) /\ SetIdeal(res, 0)  BY <1>3, <1>4 DEF utility_time_sub
  <2>2. 0 = 0 * BILLION + 0  BY <1>2
  <2> QED  BY <1>2, <2>1, <2>2, WriteCells
<1>5. CASE ~utility_time_le(t1, t2)
  <2>1. SetIdeal(res, ideal[t1] - ideal[t2])  BY <1>3, <1>5 DEF utility_time_sub
  <2>2. ~(s1 < s2)
    <3>1. s1 < s2 => ideal[t1] < ideal[t2]  BY <1>1, <1>2, Order
    <3> QED  BY <1>1, <1>3, <1>5, <3>1
  <2>3. CASE n1 < n2
    <3> DEFINE sec == s1 - 1 - s2
               nsec == BILLION + n1 - n2
    <3>1. Write(res, sec, nsec)  BY <1>5, <2>3 DEF utility_time_sub
    <3>2. s1 # s2
      <4>1. s1 = s2 => ideal[t1] < ideal[t2]  BY <1>1, <1>2, <2>3, Order
      <4> QED  BY <1>1, <1>3, <1>5, <4>1
    <3>3. sec \in Nat /\ nsec \in Nat /\ nsec < BILLION
      BY <1>1, <1>2, <2>2, <2>3, <3>2
    <3>4. s1 = sec + 1 + s2  BY <1>1
    <3> HIDE DEF s1, s2, n1, n2, sec
    <3>5. s1 * BILLION = sec * BILLION + BILLION + s2 * BILLION
      BY <1>1, <1>2, <3>3, <3>4
    <3>6. sec * BILLION \in Nat /\ s2 * BILLION \in Nat  BY <1>1, <1>2, <3>3
    <3>7. ideal[t1] - ideal[t2] = sec * BILLION + nsec
      BY <1>1, <1>2, <3>5, <3>6
    <3> QED  BY <2>1, <3>1, <3>3, <3>7, WriteCells
  <2>4. CASE ~(n1 < n2)
    <3> DEFINE sec == s1 - s2
               nsec == n1 - n2
    <3>1. Write(res, sec, nsec)  BY <1>5, <2>4 DEF utility_time_sub
    <3>2. sec \in Nat /\ nsec \in Nat /\ nsec < BILLION
      BY <1>1, <1>2, <2>2, <2>4
    <3>3. s1 = sec + s2  BY <1>1
    <3> HIDE DEF s1, s2, n1, n2, sec
    <3>4. s1 * BILLION = sec * BILLION + s2 * BILLION
      BY <1>1, <1>2, <3>2, <3>3
    <3>5. sec * BILLION \in Nat /\ s2 * BILLION \in Nat  BY <1>1, <1>2, <3>2
    <3>6. ideal[t1] - ideal[t2] = sec * BILLION + nsec
      BY <1>1, <1>2, <3>4, <3>5
    <3> QED  BY <2>1, <3>1, <3>2, <3>6, WriteCells
  <2> QED  BY <2>3, <2>4
<1> QED  BY <1>4, <1>5

(* utility_time_to_utility_time.                                           *)
LEMMA AssignCells ==
    ASSUME CellsOK, NEW src \in Cells, NEW dst \in Cells,
           utility_time_to_utility_time(src, dst)
    PROVE  CellsOK'
<1>1. Write(dst, tv_sec[src], tv_nsec[src]) /\ SetIdeal(dst, ideal[src])
  BY DEF utility_time_to_utility_time
<1> QED  BY <1>1, CellFacts, WriteCells

(* to_utility_time, one case per unit.                                     *)
LEMMA ConvertCells ==
    ASSUME CellsOK, NEW o \in Cells, NEW t \in Nat, NEW unit \in Units,
           to_utility_time(t, unit, o)
    PROVE  CellsOK'
<1>1. /\ THOUSAND \in Nat /\ THOUSAND > 0
      /\ MILLION \in Nat /\ MILLION > 0
      /\ BILLION \in Nat /\ BILLION > 0
  BY Positive
<1>2. BILLION = THOUSAND * MILLION  BY DEF BILLION
<1>3. BILLION = MILLION * THOUSAND  BY <1>1, <1>2
<1>4. CASE unit = "s"
  <2>1. Write(o, t, 0) /\ SetIdeal(o, t * BILLION)  BY <1>4 DEF to_utility_time
  <2>2. t * BILLION = t * BILLION + 0  BY <1>1
  <2> QED  BY <1>1, <2>1, <2>2, WriteCells
<1>5. CASE unit = "ms"
  <2>1. /\ Write(o, t \div THOUSAND, (t % THOUSAND) * MILLION)
        /\ SetIdeal(o, t * MILLION)
    BY <1>5 DEF to_utility_time
  <2>2. /\ t \div THOUSAND \in Nat /\ (t % THOUSAND) * MILLION \in Nat
        /\ (t % THOUSAND) * MILLION < THOUSAND * MILLION
        /\ (t \div THOUSAND) * (THOUSAND * MILLION) + (t % THOUSAND) * MILLION = t * MILLION
    BY <1>1, SplitUnit
  <2>3. /\ (t % THOUSAND) * MILLION < BILLION
        /\ t * MILLION = (t \div THOUSAND) * BILLION + (t % THOUSAND) * MILLION
    BY <1>2, <2>2
  <2> QED  BY <2>1, <2>2, <2>3, WriteCells
<1>6. CASE unit = "us"
  <2>1. /\ Write(o, t \div MILLION, (t % MILLION) * THOUSAND)
        /\ SetIdeal(o, t * THOUSAND)
    BY <1>6 DEF to_utility_time
  <2>2. /\ t \div MILLION \in Nat /\ (t % MILLION) * THOUSAND \in Nat
        /\ (t % MILLION) * THOUSAND < MILLION * THOUSAND
        /\ (t \div MILLION) * (MILLION * THOUSAND) + (t % MILLION) * THOUSAND = t * THOUSAND
    BY <1>1, SplitUnit
  <2>3. /\ (t % MILLION) * THOUSAND < BILLION
        /\ t * THOUSAND = (t \div MILLION) * BILLION + (t % MILLION) * THOUSAND
    BY <1>3, <2>2
  <2> QED  BY <2>1, <2>2, <2>3, WriteCells
<1>7. CASE unit = "ns"
  <2>1. Write(o, t \div BILLION, t % BILLION) /\ SetIdeal(o, t)
    BY <1>7 DEF to_utility_time
  <2>2. PICK q \in Nat, r \in Nat :
           q = t \div BILLION /\ r = t % BILLION /\ r < BILLION /\ t = q * BILLION + r
    BY <1>1, DivMod
  <2> QED  BY <2>1, <2>2, WriteCells
<1> QED  BY <1>4, <1>5, <1>6, <1>7 DEF Units

-----------------------------------------------------------------------------
(* The steps.                                                              *)

(* The five operations that are one step each.                             *)
LEMMA OneStepOperations ==
    ASSUME IInv, pc = "idle", UNCHANGED <<pc, mul>>,
           \/ \E o \in Objs, t \in 0..MaxTime, unit \in Units : to_utility_time(t, unit, o)
           \/ \E t1, t2, res \in Objs :
                \/ utility_time_to_utility_time(t1, res)
                \/ utility_time_add(t1, t2, res)
                \/ utility_time_inc(t1, t2)
                \/ utility_time_sub(t1, t2, res)
    PROVE  IInv'
<1>1. CellsOK  BY DEF IInv, TypeOK, CellsOK
<1>2. CellsOK'
  <2>1. ASSUME NEW o \in Objs, NEW t \in 0..MaxTime, NEW unit \in Units,
               to_utility_time(t, unit, o)
        PROVE  CellsOK'
    <3>1. o \in Cells /\ t \in Nat  BY UtilityTimeAssumption DEF Cells
    <3> QED  BY <1>1, <2>1, <3>1, ConvertCells
  <2>2. ASSUME NEW t1 \in Objs, NEW t2 \in Objs, NEW res \in Objs,
               \/ utility_time_to_utility_time(t1, res)
               \/ utility_time_add(t1, t2, res)
               \/ utility_time_inc(t1, t2)
               \/ utility_time_sub(t1, t2, res)
        PROVE  CellsOK'
    <3>1. t1 \in Cells /\ t2 \in Cells /\ res \in Cells  BY DEF Cells
    <3>2. utility_time_inc(t1, t2) => utility_time_add(t1, t2, t1)
      BY DEF utility_time_inc
    <3> QED  BY <1>1, <2>2, <3>1, <3>2, AssignCells, AddCells, SubCells
  <2> QED  BY <2>1, <2>2
<1>3. pc' = "idle" /\ mul' = mul  OBVIOUS
<1>4. TypeOK'  BY <1>2, <1>3 DEF IInv, TypeOK, CellsOK
<1>5. MulProgress'  BY <1>3 DEF MulProgress
<1> QED  BY <1>2, <1>4, <1>5 DEF IInv, CellsOK

(* utility_time_mul is called.                                             *)
LEMMA MulBeginStep ==
    ASSUME IInv, NEW t1 \in Objs, NEW res \in Objs, NEW n \in 0..MaxFactor,
           MulBegin(t1, n, res)
    PROVE  IInv'
<1>1. CellsOK  BY DEF IInv, TypeOK, CellsOK
<1>2. Local \in Cells /\ Objs \subseteq Cells /\ n \in Nat
  BY UtilityTimeAssumption DEF Cells
<1>3. /\ pc' = "mul" /\ mul' = [t1 |-> t1, res |-> res, n |-> n, n0 |-> n]
      /\ Write(Local, 0, 0) /\ SetIdeal(Local, 0)
  BY DEF MulBegin
<1>4. 0 = 0 * BILLION + 0 /\ 0 < BILLION  BY Positive
<1>5. CellsOK'  BY <1>1, <1>2, <1>3, <1>4, WriteCells
<1>6. TypeOK'  BY <1>2, <1>3, <1>5 DEF TypeOK, CellsOK
<1>7. ideal'[t1] \in Nat /\ ideal'[Local] = 0
  BY <1>1, <1>2, <1>3, <1>5 DEF SetIdeal, CellsOK
<1>8. MulProgress'
  <2>1. (n - n) * ideal'[t1] = 0  BY <1>2, <1>7
  <2> QED  BY <1>3, <1>7, <2>1 DEF MulProgress
<1> QED  BY <1>5, <1>6, <1>8 DEF IInv, CellsOK

(* One round of the loop of utility_time_mul.                              *)
LEMMA MulStepStep ==
    ASSUME IInv, MulStep
    PROVE  IInv'
<1>1. CellsOK  BY DEF IInv, TypeOK, CellsOK
<1> DEFINE t1 == mul.t1
<1>2. /\ pc = "mul" /\ pc' = "mul" /\ mul.n > 0
      /\ mul' = [t1 |-> t1, res |-> mul.res, n |-> mul.n - 1, n0 |-> mul.n0]
      /\ utility_time_add(Local, t1, Local)
  BY DEF MulStep, utility_time_inc
<1>3. /\ t1 \in Objs /\ mul.res \in Objs /\ mul.n \in Nat /\ mul.n0 \in Nat
      /\ mul.n <= mul.n0
  BY <1>2 DEF IInv, TypeOK
<1>4. Local \in Cells /\ t1 \in Cells /\ t1 # Local /\ mul.res \in Cells
  BY <1>3, UtilityTimeAssumption DEF Cells
<1>5. CellsOK'  BY <1>1, <1>2, <1>4, AddCells
<1>6. TypeOK'  BY <1>2, <1>3, <1>4, <1>5 DEF TypeOK, CellsOK
<1>7. ideal' = [ideal EXCEPT ![Local] = ideal[Local] + ideal[t1]]
  BY <1>2 DEF utility_time_add, SetIdeal
<1>8. ideal'[Local] = ideal[Local] + ideal[t1] /\ ideal'[t1] = ideal[t1]
  BY <1>1, <1>4, <1>7 DEF CellsOK
<1>9. ideal[Local] = (mul.n0 - mul.n) * ideal[t1]
  BY <1>2 DEF IInv, MulProgress
<1>10. PICK d \in Nat, i \in Nat : d = mul.n0 - mul.n /\ i = ideal[t1]
  BY <1>1, <1>3, <1>4 DEF CellsOK
<1>11. mul.n0 - (mul.n - 1) = d + 1  BY <1>3, <1>10
<1>12. (d + 1) * i = d * i + i  BY <1>10
<1>13. MulProgress'
  <2>1. mul'.n = mul.n - 1 /\ mul'.n0 = mul.n0 /\ mul'.t1 = t1  BY <1>2
  <2> QED  BY <1>8, <1>9, <1>10, <1>11, <1>12, <2>1 DEF MulProgress
<1> QED  BY <1>5, <1>6, <1>13 DEF IInv, CellsOK

(* The loop ends: the local object holds n0 times t1.                      *)
LEMMA MulEndStep ==
    ASSUME IInv, MulEnd
    PROVE  IInv'
<1>1. CellsOK  BY DEF IInv, TypeOK, CellsOK
<1>2. /\ pc = "mul" /\ pc' = "idle" /\ mul.n = 0 /\ mul' = mul
      /\ Write(mul.res, tv_sec[Local], tv_nsec[Local])
      /\ SetIdeal(mul.res, mul.n0 * ideal[mul.t1])
  BY DEF MulEnd
<1>3. /\ mul.t1 \in Objs /\ mul.res \in Objs /\ mul.n0 \in Nat
      /\ Local \in Cells /\ Objs \subseteq Cells
  BY <1>2 DEF IInv, TypeOK, Cells
<1>4. mul.n0 * ideal[mul.t1] = ideal[Local]
  <2>1. ideal[Local] = (mul.n0 - mul.n) * ideal[mul.t1]
    BY <1>2 DEF IInv, MulProgress
  <2>2. mul.n0 - mul.n = mul.n0  BY <1>2, <1>3
  <2> QED  BY <2>1, <2>2
<1>5. CellsOK'
  <2>1. SetIdeal(mul.res, ideal[Local])  BY <1>2, <1>4
  <2> QED  BY <1>1, <1>2, <1>3, <2>1, CellFacts, WriteCells
<1>6. TypeOK'  BY <1>2, <1>5 DEF IInv, TypeOK, CellsOK
<1>7. MulProgress'  BY <1>2 DEF MulProgress
<1> QED  BY <1>5, <1>6, <1>7 DEF IInv, CellsOK

LEMMA InitIInv == Init => IInv
<1> SUFFICES ASSUME Init PROVE IInv  OBVIOUS
<1>1. BILLION \in Nat /\ BILLION > 0  BY Positive
<1>2. TypeOK  BY UtilityTimeAssumption DEF Init, TypeOK, Zero, Cells
<1>3. Normalised  BY <1>1 DEF Init, Zero, Normalised
<1>4. ValueIsIdeal
  <2>1. 0 * BILLION + 0 = 0  BY <1>1
  <2> QED  BY <2>1 DEF Init, Zero, ValueIsIdeal
<1>5. MulProgress  BY DEF Init, MulProgress
<1> QED  BY <1>2, <1>3, <1>4, <1>5 DEF IInv

LEMMA NextIInv == IInv /\ [Next]_vars => IInv'
<1> SUFFICES ASSUME IInv, [Next]_vars PROVE IInv'  OBVIOUS
<1>1. CASE Operation
  <2>1. pc = "idle"  BY <1>1 DEF Operation
  <2> QED  BY <1>1, <2>1, OneStepOperations, MulBeginStep DEF Operation
<1>2. CASE MulStep  BY <1>2, MulStepStep
<1>3. CASE MulEnd  BY <1>3, MulEndStep
<1>4. CASE UNCHANGED vars
  BY <1>4 DEF vars, IInv, TypeOK, Normalised, ValueIsIdeal, MulProgress
<1> QED  BY <1>1, <1>2, <1>3, <1>4 DEF Next

LEMMA SpecIInv == Spec => []IInv
  BY InitIInv, NextIInv, PTL DEF Spec

-----------------------------------------------------------------------------
(* The cells hold natural numbers, utility_time_sub included.              *)
THEOREM TypeCorrect == Spec => []TypeOK
<1>1. IInv => TypeOK  BY DEF IInv
<1> QED  BY SpecIInv, <1>1, PTL

(* No operation leaves a second or more in tv_nsec.                        *)
THEOREM AlwaysNormalised == Spec => []Normalised
<1>1. IInv => Normalised  BY DEF IInv
<1> QED  BY SpecIInv, <1>1, PTL

(* Conversions, assignments, sums, differences and products are exact,     *)
(* whatever objects their operands and results share.                      *)
THEOREM ValueAlwaysIdeal == Spec => []ValueIsIdeal
<1>1. IInv => ValueIsIdeal  BY DEF IInv
<1> QED  BY SpecIInv, <1>1, PTL

(* The six comparisons compare the times, in every reachable state.        *)
THEOREM ComparisonsAlwaysAgree == Spec => []ComparisonsAgree
<1>1. IInv => ComparisonsAgree
  <2> SUFFICES ASSUME IInv, NEW t1 \in Objs, NEW t2 \in Objs
               PROVE  /\ utility_time_eq(t1, t2) <=> ideal[t1] = ideal[t2]
                      /\ utility_time_ne(t1, t2) <=> ideal[t1] # ideal[t2]
                      /\ utility_time_lt(t1, t2) <=> ideal[t1] < ideal[t2]
                      /\ utility_time_le(t1, t2) <=> ideal[t1] <= ideal[t2]
                      /\ utility_time_gt(t1, t2) <=> ideal[t1] > ideal[t2]
                      /\ utility_time_ge(t1, t2) <=> ideal[t1] >= ideal[t2]
    BY DEF ComparisonsAgree
  <2>1. CellsOK  BY DEF IInv, TypeOK, CellsOK
  <2>2. t1 \in Cells /\ t2 \in Cells  BY DEF Cells
  <2>3. ideal[t1] \in Nat /\ ideal[t2] \in Nat  BY <2>1, <2>2, CellFacts
  <2>4. /\ utility_time_lt(t1, t2) <=> ideal[t1] < ideal[t2]
        /\ utility_time_eq(t1, t2) <=> ideal[t1] = ideal[t2]
        /\ utility_time_le(t1, t2) <=> ideal[t1] <= ideal[t2]
    BY <2>1, <2>2, Compare
  <2> QED  BY <2>3, <2>4 DEF utility_time_ne, utility_time_gt, utility_time_ge
<1> QED  BY SpecIInv, <1>1, PTL

==============================================================================
