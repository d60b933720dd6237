------------------------------- MODULE TimeScale ------------------------------
(* The integers of C, and the speed ElfSpeed::SetTimeScale stores.  Speeds  *)
(* and arguments are kept in hundredths.                                    *)
EXTENDS Integers

(* C's integer division and remainder truncate towards zero. *)
CDiv(a, b) == IF a >= 0 THEN a \div b ELSE -((-a) \div b)
CMod(a, b) == a - b * CDiv(a, b)

(* The switch over (int) result. *)
SlowTable ==
  [k \in {-1, -2, -3, -4, -5, -10} |->
     CASE k = -1 -> 50 [] k = -2 -> 40 [] k = -3 -> 33
       [] k = -4 -> 25 [] k = -5 -> 20 [] k = -10 -> 10]

(* Mutant: "result += 1" is dropped. *)
NewScaleFromZero(result, g) ==
  IF result >= 0 THEN result
  ELSE IF CDiv(result, 100) \in DOMAIN SlowTable
         THEN SlowTable[CDiv(result, 100)]
         ELSE g

(* g_times after SetTimeScale(result / 100), g before it: an argument the   *)
(* switch does not list leaves it as it was.                                *)
NewScale(result, g) ==
  IF result >= 0 THEN result + 100
  ELSE IF CDiv(result, 100) \in DOMAIN SlowTable
         THEN SlowTable[CDiv(result, 100)]
         ELSE g
===============================================================================
