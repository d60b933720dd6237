------------------------------ MODULE FloatScale ------------------------------
(***************************************************************************)
(* The arithmetic of "diff = diff * g_times" in speed.cpp: an int64_t is   *)
(* converted to float, multiplied by a float, and the product is truncated *)
(* back to int64_t.  g_times is kept in hundredths, enough for every       *)
(* constant SetTimeScale assigns (0.5, 0.4, 0.33, 0.25, 0.2, 0.1); that    *)
(* the float nearest to 0.1 is not 0.1 itself is left out.                 *)
(*                                                                         *)
(* A float has a significand of 24 bits: a value v of the binade           *)
(* [Mantissa/2 * s, Mantissa * s) is rounded to a multiple of the spacing  *)
(* s, to nearest, ties to even.  Grid lists the binades a model needs, the *)
(* spacing of each as the fraction u/w.  Its finest binade starts at 0 and *)
(* has the spacing 1/64: a finer one cannot change a truncated multiple of *)
(* 1/100.                                                                  *)
(***************************************************************************)
EXTENDS Integers

CONSTANTS Mantissa,  \* 2^24 for IEEE single precision
          Grid       \* the binades: records [u, w, lo]

ASSUME FloatAssumption ==
  /\ Mantissa \in Nat \ {0}
  /\ Grid \subseteq [u : Nat \ {0}, w : Nat \ {0}, lo : Nat]
  \* a spacing above 1 is an integer, and its binade starts at Mantissa/2 * u
  /\ \A p \in Grid : p.u > 1 => p.w = 1 /\ 2 * p.lo = Mantissa

(* The integer nearest to a/b, ties to even. *)
NearestEven(a, b) ==
  LET q == a \div b
      r == 2 * (a % b)
  IN  IF r > b \/ (r = b /\ q % 2 = 1) THEN q + 1 ELSE q

(* Binade p holds the value n/d. *)
InBinade(p, n, d) ==
  /\ p.lo * d * p.u <= n * p.w
  /\ n * p.w < Mantissa * d * p.u

Spacing(n, d) ==
  IF \E p \in Grid : InBinade(p, n, d)
    THEN CHOOSE p \in Grid : InBinade(p, n, d)
    ELSE [u |-> 1, w |-> 1, lo |-> 0]

(* The float nearest to n/d, truncated to an integer; for d = 1 it is the  *)
(* float itself, since no spacing splits an integer that does not fit.     *)
FloatInt(n, d) ==
  LET p == Spacing(n, d)
  IN  (NearestEven(n * p.w, d * p.u) * p.u) \div p.w

(* (int64_t) ((float) diff * g_times), g in hundredths *)
Scaled(diff, g) ==
  IF diff >= 0
    THEN FloatInt(FloatInt(diff, 1) * g, 100)
    ELSE -FloatInt(FloatInt(-diff, 1) * g, 100)
===============================================================================
