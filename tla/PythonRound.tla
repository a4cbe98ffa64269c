---------------------------- MODULE PythonRound -----------------------------
(***************************************************************************)
(* How Python rounds: round(a / b), and the printing of a number with a    *)
(* fixed count of digits.                                                  *)
(***************************************************************************)
EXTENDS Integers

\* round(a / b) for naturals: a tie goes to the even neighbour.
RoundDiv(a, b) ==
    LET q == a \div b
        r == 2 * (a % b)
    IN  IF r > b \/ (r = b /\ q % 2 = 1) THEN q + 1 ELSE q

\* v to the nearest multiple of a digit, away from its sign.
RoundTo(v, digit) == digit * (IF v < 0 THEN -RoundDiv(-v, digit) ELSE RoundDiv(v, digit))
=============================================================================
