--------------------------- MODULE UtilityTimeText ---------------------------
(***************************************************************************)
(* The conversions of utility_time.h between times, strings and timespec:  *)
(* to_string, string_to_utility_time, timespec_to_utility_time.  A string  *)
(* is a sequence of digits and other characters; RADIX is 10 in the        *)
(* program, and FractionDigits is 9.                                       *)
(***************************************************************************)
EXTENDS UtilityTime, SequencesExt

CONSTANTS RADIX, FractionDigits,
          MaxSecondDigits,  \* longest_second_digit_count
          Texts             \* strings that string_to_utility_time is given

ASSUME UtilityTimeTextAssumption ==
    /\ RADIX \in Nat /\ RADIX > 1 /\ MaxSecondDigits \in Nat
    /\ FractionDigits \in Nat /\ BILLION = RADIX ^ FractionDigits

(* A character is a digit, the point or another one.                       *)
Digit == 0..(RADIX - 1)
Point == -1
Other == -2
IsDigit(c) == c \in Digit

(* strtoull, and how many digits a string has from position k on.          *)
Number(digits) == FoldLeft(LAMBDA n, d : n * RADIX + d, 0, digits)
DigitsFrom(str, k) ==
    CHOOSE n \in 0..(Len(str) - k + 1) :
        /\ \A i \in k..(k + n - 1) : IsDigit(str[i])
        /\ k + n <= Len(str) => ~IsDigit(str[k + n])

(* Variant: the digits of the fraction are not filled up with zeroes.      *)
FractionUnpadded(digits) == Number(SubSeq(digits, 1, Min({Len(digits), FractionDigits})))

(* The buffer of nine zeroes takes the first nine digits of the fraction.  *)
Fraction(digits) ==
    Number([i \in 1..FractionDigits |-> IF i <= Len(digits) THEN digits[i] ELSE 0])

(* No digits, or too many, give the time zero.                             *)
string_to_time(str) ==
    LET count == DigitsFrom(str, 1)
        dotted == count < Len(str) /\ str[count + 1] = Point
        digits == IF dotted THEN SubSeq(str, count + 2, count + 1 + DigitsFrom(str, count + 2))
                  ELSE <<>>
    IN IF count = 0 \/ count > MaxSecondDigits THEN [sec |-> 0, nsec |-> 0]
       ELSE [sec |-> Number(SubSeq(str, 1, count)), nsec |-> Fraction(digits)]

(* "%lu.%09lu"                                                             *)
DigitsOf(n, count) == [i \in 1..count |-> (n \div RADIX ^ (count - i)) % RADIX]
DigitCount(n) == CHOOSE k \in 1..(n + 1) : n < RADIX ^ k /\ (k > 1 => RADIX ^ (k - 1) <= n)
to_string(o) ==
    DigitsOf(tv_sec[o], DigitCount(tv_sec[o])) \o <<Point>> \o DigitsOf(tv_nsec[o], FractionDigits)

-----------------------------------------------------------------------------
(* What a string means: the digits of the whole seconds and those after    *)
(* the point, each at its place value, down to the smallest unit.          *)
Meaning(str) ==
    LET whole == {i \in DOMAIN str : \A j \in 1..i : IsDigit(str[j])}
        point == Cardinality(whole) + 1
        part  == {i \in DOMAIN str : /\ i > point /\ str[point] = Point
                                     /\ \A j \in (point + 1)..i : IsDigit(str[j])
                                     /\ i - point <= FractionDigits}
        value(i) == str[i] * RADIX ^ (FractionDigits + point - i - (IF i < point THEN 1 ELSE 0))
    IN IF Cardinality(whole) \in 1..MaxSecondDigits THEN MapThenSumSet(value, whole \cup part) ELSE 0

(* What the strings are converted to, with what they mean.                 *)
Conversions == {[t |-> string_to_time(str), meaning |-> Meaning(str)] : str \in Texts}

string_to_utility_time(conversion, o) ==
    /\ Write(o, conversion.t.sec, conversion.t.nsec)
    /\ SetIdeal(o, conversion.meaning)

(* A time written by to_string and read again is the same time.            *)
string_of_utility_time(src, o) ==
    /\ DigitCount(tv_sec[src]) <= MaxSecondDigits
    /\ LET time == string_to_time(to_string(src)) IN Write(o, time.sec, time.nsec)
    /\ SetIdeal(o, ideal[src])

(* The clock gives normalised times.                                       *)
timespec_to_utility_time(sec, nsec, o) ==
    /\ Write(o, sec, nsec)
    /\ SetIdeal(o, sec * BILLION + nsec)

Conversion ==
    /\ pc = "idle"
    /\ \E o \in Objs :
          \/ \E conversion \in Conversions : string_to_utility_time(conversion, o)
          \/ \E src \in Objs : string_of_utility_time(src, o)
          \/ \E sec \in 0..(MaxTime \div BILLION), nsec \in 0..(BILLION - 1) :
                timespec_to_utility_time(sec, nsec, o)
    /\ UNCHANGED <<pc, mul>>

TextSpec == Init /\ [][Next \/ Conversion]_vars

=============================================================================
