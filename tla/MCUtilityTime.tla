---------------------------- MODULE MCUtilityTime -----------------------------
(* UtilityTime and its strings for TLC: a second has eight nanoseconds, or *)
(* three binary digits (a thousand is two), and times go beyond one, so    *)
(* that carries and borrows occur with and without whole seconds.          *)
EXTENDS UtilityTimeText

CONSTANTS a, b, c, t

MCObjs == {a, b, c}

(* All short strings, and longer ones: every digit of a fraction used, and *)
(* digits that are too many, after the point and before it.                *)
MCTexts ==
    UNION {[1..n -> {0, 1, Point, Other}] : n \in 0..3}
    \cup {<<1, Point, 0, 1, 1>>, <<0, Point, 1, 1, 1, 1>>, <<1, Point, 0, 1, Other, 1>>,
          <<1, 1, 1, Point, 1>>, <<0, 1, Point, 0, 0, 1, Point>>, <<1, Point, Point, 1>>}

(* The objects are interchangeable.                                        *)
MCSymmetry == Permutations(MCObjs)

==============================================================================
