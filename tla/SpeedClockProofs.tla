--------------------------- MODULE SpeedClockProofs ---------------------------
(***************************************************************************)
(* Theorems about SpeedClock and its history SpeedDrift, for every set of  *)
(* clocks, every set of arguments of SetTimeScale, every float format and  *)
(* every width of time_t.                                                  *)
(***************************************************************************)
EXTENDS SpeedDrift, TLAPS

(* Rounding a fraction that is not negative gives a natural number. *)
LEMMA NearestEvenNat ==
  ASSUME NEW a \in Nat, NEW b \in Nat \ {0}
  PROVE  NearestEven(a, b) \in Nat
<1>1. a \div b \in Nat /\ a % b \in Nat
  OBVIOUS
<1> QED
  BY <1>1 DEF NearestEven

(* The spacing of the floats around any value is a fraction of positive     *)
(* integers.                                                                *)
LEMMA SpacingType ==
  ASSUME NEW n \in Nat, NEW d \in Nat \ {0}
  PROVE  Spacing(n, d).u \in Nat \ {0} /\ Spacing(n, d).w \in Nat \ {0}
<1>1. CASE \E p \in Grid : InBinade(p, n, d)
  <2>1. Spacing(n, d) \in Grid
    BY <1>1 DEF Spacing
  <2> QED
    BY <2>1, FloatAssumption
<1>2. CASE ~ \E p \in Grid : InBinade(p, n, d)
  BY <1>2 DEF Spacing
<1> QED
  BY <1>1, <1>2

(* A float made from a fraction that is not negative truncates to a natural *)
(* number.                                                                  *)
LEMMA FloatIntNat ==
  ASSUME NEW n \in Nat, NEW d \in Nat \ {0}
  PROVE  FloatInt(n, d) \in Nat
<1> DEFINE p == Spacing(n, d)
           r == NearestEven(n * p.w, d * p.u)
<1>1. p.u \in Nat \ {0} /\ p.w \in Nat \ {0}
  BY SpacingType
<1> HIDE DEF p
<1>2. n * p.w \in Nat /\ d * p.u \in Nat \ {0}
  BY <1>1
<1>3. r \in Nat
  BY <1>2, NearestEvenNat
<1> HIDE DEF r
<1>4. r * p.u \in Nat
  BY <1>1, <1>3
<1>5. (r * p.u) \div p.w \in Nat
  BY <1>1, <1>4
<1> QED
  BY <1>5 DEF FloatInt, r, p

(* "diff * g_times" keeps the sign of diff. *)
LEMMA ScaledSign ==
  ASSUME NEW diff \in Int, NEW g \in Nat
  PROVE  Scaled(diff, g) \in Int /\ (diff >= 0 => Scaled(diff, g) >= 0)
<1>1. CASE diff >= 0
  <2>1. FloatInt(diff, 1) \in Nat
    BY <1>1, FloatIntNat
  <2>2. FloatInt(diff, 1) * g \in Nat
    BY <2>1
  <2>3. FloatInt(FloatInt(diff, 1) * g, 100) \in Nat
    BY <2>2, FloatIntNat
  <2> QED
    BY <1>1, <2>3 DEF Scaled
<1>2. CASE diff < 0
  <2>1. -diff \in Nat
    BY <1>2
  <2>2. FloatInt(-diff, 1) \in Nat
    BY <2>1, FloatIntNat
  <2>3. FloatInt(-diff, 1) * g \in Nat
    BY <2>2
  <2>4. FloatInt(FloatInt(-diff, 1) * g, 100) \in Nat
    BY <2>3, FloatIntNat
  <2> QED
    BY <1>2, <2>4 DEF Scaled
<1> QED
  BY <1>1, <1>2

(* C's quotient and remainder are integers. *)
LEMMA CDivInt ==
  ASSUME NEW t \in Int, NEW u \in Nat \ {0}
  PROVE  CDiv(t, u) \in Int /\ CMod(t, u) \in Int
<1>1. CDiv(t, u) \in Int
  BY DEF CDiv
<1> QED
  BY <1>1 DEF CMod

(* Of a time that is not negative, the remainder is a proper fraction. *)
LEMMA CModRange ==
  ASSUME NEW t \in Nat, NEW u \in Nat \ {0}
  PROVE  CDiv(t, u) \in Nat /\ CMod(t, u) \in 0 .. u - 1
<1>1. CDiv(t, u) = t \div u
  BY DEF CDiv
<1>2. t \div u \in Nat /\ t % u \in 0 .. u - 1 /\ t = (u * (t \div u)) + (t % u)
  OBVIOUS
<1> QED
  BY <1>1, <1>2 DEF CMod

(* The narrowing conversion keeps the seconds that time_t can hold. *)
LEMMA ToTimeTInt ==
  ASSUME NEW s \in Int
  PROVE  /\ ToTimeT(s) \in Int
         /\ s \in 0 .. TimeT - 1 => ToTimeT(s) = s
<1>1. TimeT \in Nat \ {0}
  BY ClockAssumption
<1>2. (s + TimeT) % (2 * TimeT) \in Int
  BY <1>1
<1>3. ASSUME s \in 0 .. TimeT - 1
      PROVE  (s + TimeT) % (2 * TimeT) = s + TimeT
  BY <1>1, <1>3
<1> QED
  BY <1>1, <1>2, <1>3 DEF ToTimeT

(* What a caller computes from the timeval of a time that time_t holds is   *)
(* that time, and the fraction of any time is proper.                       *)
LEMMA TimevalOf ==
  ASSUME NEW t \in Nat
  PROVE  /\ Timeval(t) \in [sec : Int, frac : Int]
         /\ Timeval(t).frac \in 0 .. Unit - 1
         /\ t < TimeT * Unit => Timeval(t).sec * Unit + Timeval(t).frac = t
<1> DEFINE q == CDiv(t, Unit)
           r == CMod(t, Unit)
<1>1. Unit \in Nat \ {0} /\ TimeT \in Nat \ {0}
  BY ClockAssumption
<1>2. q \in Nat /\ r \in 0 .. Unit - 1
  BY <1>1, CModRange
<1>3. t = Unit * q + r
  BY <1>1, <1>2 DEF CMod
<1> HIDE DEF q, r
<1>4. t < TimeT * Unit => q < TimeT
  <2> SUFFICES ASSUME t < TimeT * Unit, q >= TimeT
               PROVE  FALSE
    BY <1>1, <1>2
  <2>1. Unit * q >= Unit * TimeT
    BY <1>1, <1>2
  <2>2. Unit * TimeT = TimeT * Unit /\ Unit * q \in Int
    BY <1>1, <1>2
  <2> QED
    BY <1>1, <1>2, <1>3, <2>1, <2>2
<1>5. ToTimeT(q) \in Int /\ (q < TimeT => ToTimeT(q) = q)
  BY <1>1, <1>2, ToTimeTInt
<1>6. Timeval(t) = [sec |-> ToTimeT(q), frac |-> r]
  BY DEF Timeval, q, r
<1>7. ASSUME t < TimeT * Unit
      PROVE  Timeval(t).sec * Unit + Timeval(t).frac = t
  <2>1. Timeval(t).sec = q /\ Timeval(t).frac = r
    BY <1>4, <1>5, <1>6, <1>7
  <2>2. q * Unit + r = t
    BY <1>1, <1>2, <1>3
  <2> QED
    BY <2>1, <2>2
<1> QED
  BY <1>2, <1>5, <1>6, <1>7

(* The timeval of any time, a negative one too, has integer fields. *)
LEMMA TimevalType ==
  ASSUME NEW t \in Int
  PROVE  Timeval(t) \in [sec : Int, frac : Int]
<1>1. Unit \in Nat \ {0}
  BY ClockAssumption
<1>2. CDiv(t, Unit) \in Int /\ CMod(t, Unit) \in Int
  BY <1>1, CDivInt
<1> QED
  BY <1>2, ToTimeTInt DEF Timeval

(* SetTimeScale never leaves a speed of zero or less. *)
LEMMA NewScalePositive ==
  ASSUME NEW x \in Int, NEW g \in Nat \ {0}
  PROVE  NewScale(x, g) \in Nat \ {0}
<1>1. \A k \in DOMAIN SlowTable : SlowTable[k] \in Nat \ {0}
  BY DEF SlowTable
<1> QED
  BY <1>1 DEF NewScale

LEMMA SlotType ==
  ASSUME NEW c
  PROVE  Slot(c) \in Slots /\ Api(c) \in Apis
BY DEF Slot, Api, Slots, Apis
-------------------------------------------------------------------------------
(* What the actions share: the hooking, and the frames of a read. *)
LEMMA HookType ==
  ASSUME TypeOK, do_speed_hook
  PROVE  /\ old' \in [Apis -> {"null", "libc", "hook"}]
         /\ entry' \in [Apis -> {"libc", "hook"}]
BY DEF TypeOK, do_speed_hook

LEMMA DeliverType ==
  ASSUME TypeOK, NEW c \in ClockIds, NEW t \in Int, Deliver(c, t)
  PROVE  /\ tv' \in [ClockIds -> [sec : Int, frac : Int]]
         /\ res' \in [ClockIds -> {0, -1}]
<1>1. Timeval(t) \in [sec : Int, frac : Int]
  BY TimevalType
<1> QED
  BY <1>1 DEF TypeOK, Deliver

LEMMA TypeStep == TypeOK /\ [Next]_vars => TypeOK'
<1> SUFFICES ASSUME TypeOK, [Next]_vars
             PROVE  TypeOK'
  OBVIOUS
<1> USE ClockAssumption
<1>1. CASE startServer
  BY <1>1, HookType DEF startServer, TypeOK, slotVars
<1>2. ASSUME NEW x \in Inputs, SetTimeScale(x)
      PROVE  TypeOK'
  <2>1. g_times' \in Nat \ {0}
    BY <1>2, NewScalePositive DEF SetTimeScale, TypeOK
  <2>2. /\ old' \in [Apis -> {"null", "libc", "hook"}]
        /\ entry' \in [Apis -> {"libc", "hook"}]
        /\ IsHooked' \in {0, 1}
    BY <1>2, HookType DEF SetTimeScale, TypeOK
  <2> QED
    BY <1>2, <2>1, <2>2 DEF SetTimeScale, TypeOK, slotVars
<1>3. ASSUME NEW c \in ClockIds, Tick(c)
      PROVE  TypeOK'
  BY <1>3 DEF Tick, TypeOK, hookVars, slotVars
<1>4. ASSUME NEW c \in ClockIds, SetBack(c)
      PROVE  TypeOK'
  BY <1>4 DEF SetBack, TypeOK, hookVars, slotVars
<1>5. ASSUME NEW c \in ClockIds, ReadLibc(c)
      PROVE  TypeOK'
  <2>1. kernel[c] \in Int /\ Deliver(c, kernel[c])
    BY <1>5 DEF ReadLibc, TypeOK
  <2> QED
    BY <1>5, <2>1, DeliverType DEF ReadLibc, TypeOK, hookVars, slotVars
<1>6. ASSUME NEW c \in ClockIds, ReadFails(c)
      PROVE  TypeOK'
  BY <1>6 DEF ReadFails, TypeOK, hookVars, slotVars
<1>7. ASSUME NEW c \in ClockIds, ReadFirst(c)
      PROVE  TypeOK'
  <2>1. kernel[c] \in Nat /\ Deliver(c, kernel[c])
    BY <1>7 DEF ReadFirst, TypeOK
  <2>2. saved' \in [Slots -> Nat] /\ last' \in [Slots -> Int]
    BY <1>7, <2>1, SlotType DEF ReadFirst, TypeOK
  <2> QED
    BY <1>7, <2>1, <2>2, DeliverType DEF ReadFirst, TypeOK, hookVars
<1>8. ASSUME NEW c \in ClockIds, ReadScaled(c)
      PROVE  TypeOK'
  <2> DEFINE ret == last[Slot(c)] + Scaled(Diff(c), g_times)
  <2>1. /\ Diff(c) \in Int
        /\ last[Slot(c)] \in Int
        /\ kernel[c] \in Nat
        /\ g_times \in Nat
    <3>1. Slot(c) \in Slots
      BY SlotType
    <3> QED
      BY <3>1 DEF TypeOK, Diff
  <2>2. ret \in Int
    <3>1. Scaled(Diff(c), g_times) \in Int
      BY <2>1, ScaledSign, Zenon
    <3> QED
      BY <2>1, <3>1
  <2>3. Deliver(c, ret)
    BY <1>8 DEF ReadScaled
  <2>4. saved' \in [Slots -> Nat] /\ last' \in [Slots -> Int]
    BY <1>8, <2>1, <2>2, SlotType DEF ReadScaled, TypeOK
  <2> QED
    BY <1>8, <2>2, <2>3, <2>4, DeliverType DEF ReadScaled, TypeOK, hookVars
<1>9. ASSUME NEW c \in ClockIds, Recurse(c)
      PROVE  TypeOK'
  BY <1>9 DEF Recurse, TypeOK, hookVars, slotVars
<1>10. CASE UNCHANGED vars
  BY <1>10 DEF vars, TypeOK
<1> QED
  BY <1>1, <1>2, <1>3, <1>4, <1>5, <1>6, <1>7, <1>8, <1>9, <1>10
     DEF Next, Read

LEMMA TypeInit == Init => TypeOK
<1> SUFFICES ASSUME Init
             PROVE  TypeOK
  OBVIOUS
<1>1. Timeval(0) \in [sec : Int, frac : Int]
  BY TimevalType
<1>2. tv \in [ClockIds -> [sec : Int, frac : Int]]
  BY <1>1, Zenon DEF Init
<1>3. entry \in [Apis -> {"libc", "hook"}]
      /\ old \in [Apis -> {"null", "libc", "hook"}]
  BY Zenon DEF Init
<1>4. crashed \in BOOLEAN /\ host \in {"injected", "standalone"}
  BY Zenon DEF Init
<1>5. /\ kernel \in [ClockIds -> Nat]
      /\ saved \in [Slots -> Nat]
      /\ last \in [Slots -> Int]
      /\ res \in [ClockIds -> {0, -1}]
      /\ entries \in Nat
      /\ IsHooked \in {0, 1}
      /\ g_times \in Nat \ {0}
  BY DEF Init
<1> QED
  BY <1>2, <1>3, <1>4, <1>5 DEF TypeOK

(* Type correctness: no sequence of calls leaves a state outside the types, *)
(* in particular none makes the speed that SetTimeScale stores zero or      *)
(* negative.                                                                *)
THEOREM TypeCorrect == Spec => []TypeOK
BY TypeInit, TypeStep, PTL DEF Spec
-------------------------------------------------------------------------------
(* Why a function is not hooked twice: before the first startServer, or     *)
(* the first SetTimeScale of the standalone server, IsHooked is still 1     *)
(* and the functions still are libc's.                                      *)
HookInv ==
  /\ host = "standalone" => entries = 0
  /\ host = "injected" /\ entries = 0 => IsHooked = 1
  /\ IsHooked = 1 => \A a \in Apis : entry[a] = "libc"
  /\ HookedOnce

LEMMA HookStep == TypeOK /\ HookInv /\ [Next]_vars => HookInv'
<1> SUFFICES ASSUME TypeOK, HookInv, [Next]_vars
             PROVE  HookInv'
  OBVIOUS
<1> USE DEF HookInv, HookedOnce
<1>1. CASE startServer
  <2>1. entries' = entries + 1 /\ entries \in Nat /\ host = "injected"
        /\ UNCHANGED <<host, crashed>> /\ IsHooked' = 0 /\ old' = entry
    BY <1>1 DEF startServer, do_speed_hook, TypeOK
  <2>2. entries' <= 1 => \A a \in Apis : old'[a] = "libc"
    BY <2>1
  <2> QED
    BY <2>1, <2>2
<1>2. ASSUME NEW x \in Inputs, SetTimeScale(x)
      PROVE  HookInv'
  <2>1. UNCHANGED <<host, entries, crashed>>
    BY <1>2 DEF SetTimeScale
  <2>2. CASE IsHooked = 1
    BY <1>2, <2>1, <2>2 DEF SetTimeScale, do_speed_hook, TypeOK
  <2>3. CASE IsHooked # 1
    BY <1>2, <2>1, <2>3 DEF SetTimeScale, TypeOK
  <2> QED
    BY <2>2, <2>3
<1>3. ASSUME NEW c \in ClockIds, Recurse(c)
      PROVE  HookInv'
  <2>1. Api(c) \in Apis
    BY SlotType
  <2>2. ~ (entries <= 1)
    BY <1>3, <2>1 DEF Recurse
  <2> QED
    BY <1>3, <2>2 DEF Recurse, hookVars
<1>4. ASSUME UNCHANGED <<host, hookVars, crashed>>
      PROVE  HookInv'
  BY <1>4 DEF hookVars
<1>5. ASSUME NEW c \in ClockIds,
             \/ Tick(c) \/ SetBack(c) \/ ReadLibc(c) \/ ReadFails(c)
             \/ ReadFirst(c) \/ ReadScaled(c)
      PROVE  UNCHANGED <<host, hookVars, crashed>>
  BY <1>5 DEF Tick, SetBack, ReadLibc, ReadFails, ReadFirst, ReadScaled
<1>6. CASE UNCHANGED vars
  BY <1>4, <1>6 DEF vars, hookVars
<1> QED
  BY <1>1, <1>2, <1>3, <1>4, <1>5, <1>6 DEF Next, Read

(* No hook becomes its own "old" function, whatever the clocks, the speeds  *)
(* and the number of calls: startServer and SetTimeScale hook once.         *)
THEOREM HookedOnceCorrect == Spec => []HookedOnce
<1>1. Init => HookInv
  BY DEF Init, HookInv, HookedOnce
<1>2. HookInv => HookedOnce
  BY DEF HookInv
<1> QED
  BY <1>1, <1>2, TypeInit, TypeStep, HookStep, PTL DEF Spec
-------------------------------------------------------------------------------
(* Why the monotonic clock goes forward: the kernel's clock is never behind *)
(* the sample saved at the previous call, so that the interval is not       *)
(* negative, and what was last delivered is what the next interval is added *)
(* to.  Before the first sample the application has seen the kernel's time. *)
MonoInv ==
  "MONOTONIC" \in ClockIds =>
    /\ kernel["MONOTONIC"] <= MaxTime
    /\ saved["mono"] <= kernel["MONOTONIC"]
    /\ last["mono"] >= 0
    /\ tv["MONOTONIC"].frac \in 0 .. Unit - 1
    /\ entry["clock_gettime"] = "libc" => saved["mono"] = 0
    /\ saved["mono"] = 0 => Shown("MONOTONIC") <= kernel["MONOTONIC"]
    /\ saved["mono"] # 0 /\ last["mono"] < TimeT * Unit
         => Shown("MONOTONIC") = last["mono"]

LEMMA DeliverMono ==
  ASSUME TypeOK, "MONOTONIC" \in ClockIds, NEW t \in Nat,
         Deliver("MONOTONIC", t)
  PROVE  /\ tv'["MONOTONIC"].frac \in 0 .. Unit - 1
         /\ t < TimeT * Unit => Shown("MONOTONIC")' = t
<1>1. tv'["MONOTONIC"] = Timeval(t)
  BY DEF Deliver, TypeOK
<1> QED
  BY <1>1, TimevalOf DEF Shown

LEMMA MonoStep ==
  TypeOK /\ MonoInv /\ [Next]_vars => MonoInv' /\ ForwardStep
<1> SUFFICES ASSUME TypeOK, MonoInv, [Next]_vars, "MONOTONIC" \in ClockIds
             PROVE  MonoInv' /\ ForwardStep
  BY DEF MonoInv, ForwardStep
<1> DEFINE m == "MONOTONIC"
<1> USE DEF MonoInv, ForwardStep
<1>1. /\ Unit \in Nat \ {0} /\ TimeT \in Nat \ {0} /\ MaxTime \in Nat
      /\ MaxTime < TimeT * Unit /\ TimeT * Unit \in Nat
  BY ClockAssumption
<1>2. /\ kernel[m] \in Nat /\ saved["mono"] \in Nat /\ last["mono"] \in Nat
      /\ tv[m].sec \in Int /\ tv[m].frac \in Int
      /\ Shown(m) \in Int /\ Slot(m) = "mono" /\ Api(m) = "clock_gettime"
  BY <1>1 DEF TypeOK, Slots, Shown, Slot, Api
<1>3. ASSUME UNCHANGED <<tv, saved, last, entry>>, kernel'[m] = kernel[m]
      PROVE  MonoInv' /\ ForwardStep
  BY <1>2, <1>3 DEF Shown
<1>4. CASE startServer
  <2>1. UNCHANGED <<tv, saved, last, kernel>>
    BY <1>4 DEF startServer, slotVars
  <2>2. entry'["clock_gettime"] = "hook"
    BY <1>4 DEF startServer, do_speed_hook, Apis
  <2> QED
    BY <1>2, <2>1, <2>2 DEF Shown
<1>5. ASSUME NEW x \in Inputs, SetTimeScale(x)
      PROVE  MonoInv' /\ ForwardStep
  <2>1. UNCHANGED <<tv, saved, last, kernel>>
    BY <1>5 DEF SetTimeScale, slotVars
  <2>2. entry'["clock_gettime"] = "hook" \/ UNCHANGED entry
    BY <1>5 DEF SetTimeScale, do_speed_hook, Apis
  <2> QED
    BY <1>2, <2>1, <2>2 DEF Shown
<1>6. ASSUME NEW c \in ClockIds, Tick(c)
      PROVE  MonoInv' /\ ForwardStep
  <2>1. UNCHANGED <<tv, saved, last, entry>>
    BY <1>6 DEF Tick, hookVars, slotVars
  <2>2. kernel'[m] \in Nat /\ kernel[m] <= kernel'[m] /\ kernel'[m] <= MaxTime
    BY <1>1, <1>2, <1>6 DEF Tick, TypeOK
  <2> QED
    BY <1>2, <2>1, <2>2 DEF Shown
<1>7. ASSUME NEW c \in ClockIds, SetBack(c)
      PROVE  MonoInv' /\ ForwardStep
  <2>1. c # m
    BY <1>7, ClockAssumption DEF SetBack
  <2>2. kernel'[m] = kernel[m]
    BY <1>7, <2>1 DEF SetBack, TypeOK
  <2> QED
    BY <1>3, <1>7, <2>2 DEF SetBack, hookVars, slotVars
<1>8. ASSUME NEW c \in ClockIds, ReadFails(c) \/ Recurse(c)
      PROVE  MonoInv' /\ ForwardStep
  BY <1>3, <1>8 DEF ReadFails, Recurse, hookVars, slotVars
<1>9. ASSUME NEW c \in ClockIds, c # m,
             ReadLibc(c) \/ ReadFirst(c) \/ ReadScaled(c)
      PROVE  MonoInv' /\ ForwardStep
  <2>1. Slot(c) # "mono" /\ Slot(c) \in Slots
    BY <1>9, SlotType DEF Slot
  <2>2. UNCHANGED <<kernel, entry>>
    BY <1>9 DEF ReadLibc, ReadFirst, ReadScaled, hookVars
  <2>3. saved'["mono"] = saved["mono"] /\ last'["mono"] = last["mono"]
    BY <1>9, <2>1 DEF ReadLibc, ReadFirst, ReadScaled, slotVars, TypeOK, Slots
  <2>4. tv'[m] = tv[m]
    BY <1>9 DEF ReadLibc, ReadFirst, ReadScaled, Deliver, TypeOK
  <2> QED
    BY <1>2, <2>2, <2>3, <2>4 DEF Shown
<1>10. CASE ReadLibc(m)
  <2>1. saved["mono"] = 0 /\ UNCHANGED <<kernel, saved, last, entry>>
    BY <1>2, <1>10 DEF ReadLibc, hookVars, slotVars
  <2>2. Shown(m)' = kernel[m] /\ tv'[m].frac \in 0 .. Unit - 1
    BY <1>1, <1>2, <1>10, DeliverMono DEF ReadLibc
  <2> QED
    BY <1>1, <1>2, <2>1, <2>2
<1>11. CASE ReadFirst(m)
  <2>1. /\ saved["mono"] = 0 /\ UNCHANGED <<kernel, entry>>
        /\ saved'["mono"] = kernel[m] /\ last'["mono"] = kernel[m]
        /\ entry["clock_gettime"] = "hook"
    BY <1>2, <1>11 DEF ReadFirst, Hooked, hookVars, TypeOK, Slots
  <2>2. Shown(m)' = kernel[m] /\ tv'[m].frac \in 0 .. Unit - 1
    BY <1>1, <1>2, <1>11, DeliverMono DEF ReadFirst
  <2> QED
    BY <1>1, <1>2, <2>1, <2>2
<1>12. CASE ReadScaled(m)
  <2> DEFINE ret == last["mono"] + Scaled(Diff(m), g_times)
  <2>1. Diff(m) \in Nat /\ Diff(m) \in Int /\ g_times \in Nat
    BY <1>2 DEF Diff, TypeOK
  <2>2. Scaled(Diff(m), g_times) \in Nat
    <3>1. Scaled(Diff(m), g_times) \in Int
          /\ (Diff(m) >= 0 => Scaled(Diff(m), g_times) >= 0)
      BY <2>1, ScaledSign, Zenon
    <3> QED
      BY <2>1, <3>1
  <2>3. ret \in Nat /\ ret >= last["mono"]
    BY <1>2, <2>2
  <2>4. /\ saved["mono"] # 0 /\ UNCHANGED <<kernel, entry>>
        /\ saved'["mono"] = kernel[m] /\ last'["mono"] = ret
        /\ entry["clock_gettime"] = "hook" /\ Deliver(m, ret)
    BY <1>2, <1>12 DEF ReadScaled, Hooked, hookVars, TypeOK, Slots
  <2> HIDE DEF ret
  <2>5. /\ tv'[m].frac \in 0 .. Unit - 1
        /\ ret < TimeT * Unit => Shown(m)' = ret
    BY <2>3, <2>4, DeliverMono
  <2>6. saved'["mono"] # 0
    BY <1>2, <2>4
  <2> QED
    BY <1>1, <1>2, <2>3, <2>4, <2>5, <2>6
<1>13. CASE UNCHANGED vars
  BY <1>3, <1>13 DEF vars
<1> QED
  BY <1>4, <1>5, <1>6, <1>7, <1>8, <1>9, <1>10, <1>11, <1>12, <1>13
     DEF Next, Read

LEMMA MonoInit == Init => MonoInv
<1> SUFFICES ASSUME Init, "MONOTONIC" \in ClockIds
             PROVE  MonoInv
  BY DEF MonoInv
<1>1. TimeT * Unit \in Nat /\ 0 < TimeT * Unit /\ MaxTime \in Nat
  BY ClockAssumption
<1>2. /\ Timeval(0).frac \in 0 .. Unit - 1
      /\ Timeval(0).sec * Unit + Timeval(0).frac = 0
  BY <1>1, TimevalOf
<1> QED
  BY <1>1, <1>2 DEF Init, MonoInv, Shown, Slots

(* CLOCK_MONOTONIC never goes back under the hook, for every sequence of    *)
(* speeds, every width of float and of time_t: the float rounding of        *)
(* "diff * g_times" cannot make an interval negative.                       *)
THEOREM MonotonicForwardCorrect == Spec => MonotonicForward
BY TypeInit, TypeStep, MonoInit, MonoStep, PTL DEF Spec, MonotonicForward

(* The timespec the application holds is normalised and is the time the     *)
(* hook continues from.                                                     *)
THEOREM DeliveredIsLastCorrect == Spec => []DeliveredIsLast
<1>1. MonoInv => DeliveredIsLast
  BY DEF MonoInv, DeliveredIsLast
<1> QED
  BY <1>1, TypeInit, TypeStep, MonoInit, MonoStep, PTL DEF Spec
-------------------------------------------------------------------------------
(* What "diff * g_times" loses.  The products below are not linear, so the  *)
(* steps name them and leave the solver linear facts about the names.       *)
LEMMA MulLe ==
  ASSUME NEW a \in Int, NEW b \in Int, NEW c \in Nat, a <= b
  PROVE  a * c \in Int /\ b * c \in Int /\ a * c <= b * c
OBVIOUS

(* Rounding to nearest is off by half of the denominator at most. *)
LEMMA NearestEvenNear ==
  ASSUME NEW a \in Nat, NEW b \in Nat \ {0}
  PROVE  LET m == NearestEven(a, b) * b
         IN  m \in Nat /\ 2 * m <= 2 * a + b /\ 2 * a <= 2 * m + b
<1> DEFINE q == a \div b
           r == a % b
           m == NearestEven(a, b) * b
<1>1. q \in Nat /\ r \in Nat /\ r < b /\ a = b * q + r
  OBVIOUS
<1>2. NearestEven(a, b) = IF 2 * r > b \/ (2 * r = b /\ q % 2 = 1)
                            THEN q + 1 ELSE q
  BY DEF NearestEven
<1> HIDE DEF q, r
<1> DEFINE y == b * q
<1>3. y \in Nat /\ q * b = y /\ (q + 1) * b = y + b
  BY <1>1
<1>4. a = y + r
  BY <1>1
<1> HIDE DEF y
<1>5. CASE 2 * r > b \/ (2 * r = b /\ q % 2 = 1)
  <2>1. m = y + b
    BY <1>2, <1>3, <1>5
  <2> QED
    BY <1>1, <1>3, <1>4, <1>5, <2>1
<1>6. CASE ~ (2 * r > b \/ (2 * r = b /\ q % 2 = 1))
  <2>1. m = y
    BY <1>2, <1>3, <1>6
  <2>2. 2 * r <= b
    BY <1>1, <1>6
  <2> QED
    BY <1>1, <1>3, <1>4, <2>1, <2>2
<1> QED
  BY <1>5, <1>6

(* A multiple of the denominator is not rounded. *)
LEMMA NearestEvenExact ==
  ASSUME NEW k \in Nat, NEW b \in Nat \ {0}
  PROVE  NearestEven(k * b, b) = k
<1> DEFINE e == NearestEven(k * b, b)
<1>1. k * b \in Nat /\ e \in Nat
  BY NearestEvenNat
<1>2. 2 * (e * b) <= 2 * (k * b) + b /\ 2 * (k * b) <= 2 * (e * b) + b
  BY <1>1, NearestEvenNear
<1> HIDE DEF e
<1>3. CASE e > k
  <2>1. (k + 1) * b <= e * b /\ (k + 1) * b = k * b + b /\ e * b \in Int
    BY <1>1, <1>3, MulLe
  <2> QED
    BY <1>1, <1>2, <2>1
<1>4. CASE e < k
  <2>1. (e + 1) * b <= k * b /\ (e + 1) * b = e * b + b /\ e * b \in Int
    BY <1>1, <1>4, MulLe
  <2> QED
    BY <1>1, <1>2, <2>1
<1> QED
  BY <1>1, <1>3, <1>4 DEF e

(* The two kinds of spacing: a fraction of the integers, or an integer, and *)
(* then the value is at least half a significand of it.                     *)
LEMMA SpacingKind ==
  ASSUME NEW n \in Nat, NEW d \in Nat \ {0}
  PROVE  LET p == Spacing(n, d)
         IN  \/ p.u = 1
             \/ /\ p.u > 1 /\ p.w = 1
                /\ p.lo \in Nat /\ 2 * p.lo = Mantissa
                /\ p.lo * d * p.u <= n
<1> DEFINE p == Spacing(n, d)
<1>1. CASE \E q \in Grid : InBinade(q, n, d)
  <2>1. p \in Grid /\ InBinade(p, n, d)
    BY <1>1 DEF Spacing
  <2>2. p.u \in Nat \ {0} /\ p.lo \in Nat
        /\ (p.u > 1 => p.w = 1 /\ 2 * p.lo = Mantissa)
    BY <2>1, FloatAssumption
  <2>3. p.lo * d * p.u <= n * p.w
    BY <2>1 DEF InBinade
  <2> HIDE DEF p
  <2>4. \/ p.u = 1
        \/ /\ p.u > 1 /\ p.w = 1
           /\ p.lo \in Nat /\ 2 * p.lo = Mantissa
           /\ p.lo * d * p.u <= n
    BY <2>2, <2>3
  <2> QED
    BY <2>4 DEF p
<1>2. CASE ~ \E q \in Grid : InBinade(q, n, d)
  BY <1>2 DEF Spacing
<1> QED
  BY <1>1, <1>2

(* The float of a value up to Mantissa is the value. *)
LEMMA FloatIntExact ==
  ASSUME NEW k \in Nat, NEW d \in Nat \ {0}, k <= Mantissa
  PROVE  FloatInt(k * d, d) = k
<1> DEFINE n == k * d
           p == Spacing(n, d)
<1>1. n \in Nat /\ Mantissa \in Nat \ {0}
  BY FloatAssumption
<1>2. p.u \in Nat \ {0} /\ p.w \in Nat \ {0}
  BY <1>1, SpacingType
<1>3. \/ p.u = 1
      \/ /\ p.u > 1 /\ p.w = 1
         /\ p.lo \in Nat /\ 2 * p.lo = Mantissa
         /\ p.lo * d * p.u <= n
  BY <1>1, SpacingKind
<1>4. FloatInt(n, d) = (NearestEven(n * p.w, d * p.u) * p.u) \div p.w
  BY DEF FloatInt
<1> HIDE DEF p
<1>5. CASE p.u = 1
  <2>1. n * p.w = (k * p.w) * d /\ k * p.w \in Nat /\ d * p.u = d
    BY <1>2, <1>5
  <2>2. NearestEven(n * p.w, d * p.u) = k * p.w
    BY <2>1, NearestEvenExact
  <2>3. ((k * p.w) * 1) \div p.w = k
    BY <1>2
  <2> QED
    BY <1>4, <1>5, <2>2, <2>3
<1>6. CASE p.u > 1
  <2> DEFINE v == p.lo * p.u
  <2>1. p.w = 1 /\ p.lo \in Nat /\ 2 * p.lo = Mantissa /\ v \in Nat
    BY <1>2, <1>3, <1>6
  <2>2. p.lo * d * p.u = v * d
    BY <1>2, <2>1
  <2>3. v * d <= k * d
    BY <1>3, <1>6, <2>2
  <2>4. v >= 2 * p.lo
    BY <1>2, <1>6, <2>1
  <2> HIDE DEF v
  <2>5. v <= k
    <3> SUFFICES ASSUME v > k PROVE FALSE
      BY <2>1
    <3>1. (k + 1) * d <= v * d /\ (k + 1) * d = k * d + d
      BY <2>1, MulLe
    <3> QED
      BY <1>1, <2>1, <2>3, <3>1
  <2>6. v = k
    BY <1>1, <2>1, <2>4, <2>5
  <2>7. n * p.w = p.lo * (d * p.u) /\ d * p.u \in Nat \ {0}
    BY <1>2, <2>1, <2>2, <2>6 DEF v
  <2>8. NearestEven(n * p.w, d * p.u) = p.lo
    BY <2>1, <2>7, NearestEvenExact
  <2>9. (p.lo * p.u) \div 1 = k
    BY <2>6, <2>1 DEF v
  <2> QED
    BY <1>4, <2>1, <2>8, <2>9
<1> QED
  BY <1>3, <1>5, <1>6

(* The float of n/d, truncated, is off by one at most, or by one part in    *)
(* Mantissa.                                                                *)
LEMMA FloatIntNear ==
  ASSUME NEW n \in Nat, NEW d \in Nat \ {0}
  PROVE  LET m == FloatInt(n, d) * d
         IN  \/ Spacing(n, d).u = 1 /\ m <= n + d /\ n <= m + d
             \/ /\ Mantissa * m <= Mantissa * n + n
                /\ Mantissa * n <= Mantissa * m + n
<1> DEFINE p == Spacing(n, d)
           r == NearestEven(n * p.w, d * p.u)
           f == FloatInt(n, d)
<1>1. p.u \in Nat \ {0} /\ p.w \in Nat \ {0} /\ Mantissa \in Nat \ {0}
  BY SpacingType, FloatAssumption
<1>2. \/ p.u = 1
      \/ /\ p.u > 1 /\ p.w = 1
         /\ p.lo \in Nat /\ 2 * p.lo = Mantissa
         /\ p.lo * d * p.u <= n
  BY SpacingKind
<1>3. f = (r * p.u) \div p.w /\ f \in Nat
  BY FloatIntNat DEF FloatInt
<1> HIDE DEF p, f
<1>4. n * p.w \in Nat /\ d * p.u \in Nat \ {0}
  BY <1>1
<1>5. /\ r \in Nat /\ r * (d * p.u) \in Nat
      /\ 2 * (r * (d * p.u)) <= 2 * (n * p.w) + d * p.u
      /\ 2 * (n * p.w) <= 2 * (r * (d * p.u)) + d * p.u
  BY <1>4, NearestEvenNat, NearestEvenNear
<1> HIDE DEF r
<1>6. ASSUME p.u = 1
      PROVE  f * d <= n + d /\ n <= f * d + d
  <2> DEFINE w == p.w
             t == r % w
             A == n * w
             B == r * d
             C == t * d
             D == d * w
             F == f * d
             E == F * w
  <2>1. w \in Nat \ {0} /\ f = r \div w
    BY <1>1, <1>3, <1>5, <1>6
  <2> HIDE DEF w
  <2>2. t \in Nat /\ t <= w - 1 /\ r = w * f + t
    BY <1>5, <2>1
  <2>3. F \in Nat /\ A \in Nat /\ B \in Nat /\ D \in Nat /\ d <= D
    BY <1>3, <1>5, <2>1
  <2> HIDE DEF t
  <2>4. C \in Nat /\ C <= (w - 1) * d /\ (w - 1) * d = D - d
    <3>1. t \in Int /\ w - 1 \in Int /\ d \in Nat
      BY <2>1, <2>2
    <3>2. t * d <= (w - 1) * d
      BY <2>2, <3>1, MulLe, Zenon
    <3>3. t * d \in Nat /\ (w - 1) * d = d * w - d
      BY <2>1, <2>2
    <3> QED
      BY <3>2, <3>3
  <2>5. E \in Nat /\ B = E + C
    <3>1. E \in Nat /\ E = (w * f) * d
      BY <1>3, <2>1
    <3>2. (w * f + t) * d = (w * f) * d + t * d
      BY <1>3, <2>1, <2>2
    <3> QED
      BY <2>2, <3>1, <3>2
  <2>6. 2 * B <= 2 * A + d /\ 2 * A <= 2 * B + d
    BY <1>5, <1>6 DEF w
  <2>7. (n + d + 1) * w = A + D + w /\ (F + d) * w = E + D
    BY <2>1, <2>3
  <2> HIDE DEF A, B, C, D, E, F
  <2>8. F <= n + d
    <3> SUFFICES ASSUME F > n + d PROVE FALSE
      BY <2>3
    <3>1. (n + d + 1) * w <= F * w
      BY <2>1, <2>3, MulLe
    <3> QED
      BY <2>1, <2>3, <2>4, <2>5, <2>6, <2>7, <3>1 DEF E
  <2>9. n <= F + d
    <3> SUFFICES ASSUME F + d < n PROVE FALSE
      BY <2>3
    <3>1. (F + d) * w <= n * w
      BY <2>1, <2>3, MulLe
    <3> QED
      BY <2>1, <2>3, <2>4, <2>5, <2>6, <2>7, <3>1 DEF A
  <2> QED
    BY <2>8, <2>9 DEF F
<1>7. ASSUME p.u > 1
      PROVE  /\ Mantissa * (f * d) <= Mantissa * n + n
             /\ Mantissa * n <= Mantissa * (f * d) + n
  <2> DEFINE e == d * p.u
             m == r * e
  <2>1. p.w = 1 /\ p.lo \in Nat /\ 2 * p.lo = Mantissa /\ p.lo * d * p.u <= n
    BY <1>1, <1>2, <1>7
  <2>2. f * d = m
    <3> DEFINE u == p.u
    <3>1. f = r * u /\ u \in Nat
      BY <1>1, <1>3, <1>5, <2>1
    <3> HIDE DEF u
    <3>2. (r * u) * d = r * (d * u)
      BY <1>5, <3>1
    <3> QED
      BY <3>1, <3>2 DEF u
  <2>3. m \in Nat /\ e \in Nat /\ 2 * m <= 2 * n + e /\ 2 * n <= 2 * m + e
    BY <1>4, <1>5, <2>1
  <2>4. p.lo * e <= n /\ p.lo * e \in Nat /\ Mantissa * e = 2 * (p.lo * e)
    BY <1>1, <2>1
  <2> HIDE DEF m, e
  <2> DEFINE M == Mantissa
  <2>5. (2 * m) * M <= (2 * n + e) * M /\ (2 * n) * M <= (2 * m + e) * M
    BY <1>1, <2>3, MulLe
  <2>6. /\ (2 * m) * M = 2 * (M * m) /\ (2 * n) * M = 2 * (M * n)
        /\ (2 * n + e) * M = 2 * (M * n) + M * e
        /\ (2 * m + e) * M = 2 * (M * m) + M * e
        /\ M * m \in Int /\ M * n \in Int
    BY <1>1, <2>3
  <2>7. M * m <= M * n + n /\ M * n <= M * m + n
    BY <2>4, <2>5, <2>6
  <2> QED
    BY <2>2, <2>7
<1> QED
  BY <1>1, <1>2, <1>6, <1>7 DEF p, f

(* "(float) diff" is off by one part in Mantissa: no spacing below 1 splits *)
(* an integer.                                                              *)
LEMMA FloatIntWhole ==
  ASSUME NEW n \in Nat
  PROVE  LET a == FloatInt(n, 1)
         IN  /\ a \in Nat
             /\ Mantissa * a <= Mantissa * n + n
             /\ Mantissa * n <= Mantissa * a + n
<1> DEFINE p == Spacing(n, 1)
           a == FloatInt(n, 1)
<1>1. /\ p.u \in Nat \ {0} /\ p.w \in Nat \ {0} /\ Mantissa \in Nat \ {0}
      /\ a \in Nat
  BY SpacingType, FloatIntNat, FloatAssumption
<1>2. \/ p.u = 1
      \/ /\ Mantissa * (a * 1) <= Mantissa * n + n
         /\ Mantissa * n <= Mantissa * (a * 1) + n
  BY FloatIntNear
<1>3. ASSUME p.u = 1
      PROVE  a = n
  <2>1. a = (NearestEven(n * p.w, 1 * p.u) * p.u) \div p.w
    BY DEF FloatInt
  <2> HIDE DEF a, p
  <2>2. NearestEven((n * p.w) * 1, 1) = n * p.w
    BY <1>1, NearestEvenExact
  <2>3. (n * p.w) * 1 = n * p.w /\ 1 * p.u = 1
    BY <1>1, <1>3
  <2>4. a = ((n * p.w) * 1) \div p.w
    BY <1>3, <2>1, <2>2, <2>3
  <2> QED
    BY <1>1, <2>4
<1> HIDE DEF a
<1>4. a * 1 = a /\ Mantissa * n \in Int
  BY <1>1
<1>5. /\ Mantissa * a <= Mantissa * n + n
      /\ Mantissa * n <= Mantissa * a + n
  BY <1>2, <1>3, <1>4
<1> QED
  BY <1>1, <1>5 DEF a

(* What the two roundings and the truncation lose of an exact product, for  *)
(* an interval that is not negative.                                        *)
LEMMA FloatProductNear ==
  ASSUME NEW x \in Nat, NEW g \in Nat
  PROVE  LET f == FloatInt(FloatInt(x, 1) * g, 100)
             K == Mantissa * Mantissa
             L == 100 * K + (2 * Mantissa + 1) * (x * g)
         IN  /\ f \in Nat
             /\ K * (100 * f) <= K * (x * g) + L
             /\ K * (x * g) <= K * (100 * f) + L
<1> DEFINE M == Mantissa
           a == FloatInt(x, 1)
           P == x * g
           Q == a * g
           f == FloatInt(Q, 100)
           h == f * 100
<1>1. M \in Nat \ {0} /\ a \in Nat /\ P \in Nat
      /\ M * a <= M * x + x /\ M * x <= M * a + x
  BY FloatIntWhole, FloatAssumption
<1> HIDE DEF a, M
<1>2. Q \in Nat
  BY <1>1
<1>3. M * Q <= M * P + P /\ M * P <= M * Q + P
  <2>1. (M * a) * g <= (M * x + x) * g /\ (M * x) * g <= (M * a + x) * g
    <3>1. M * a \in Int /\ M * x + x \in Int /\ M * x \in Int /\ M * a + x \in Int
      BY <1>1
    <3> QED
      BY <1>1, <3>1, MulLe
  <2>2. /\ (M * a) * g = M * Q /\ (M * x + x) * g = M * P + P
        /\ (M * x) * g = M * P /\ (M * a + x) * g = M * Q + P
    BY <1>1
  <2> QED
    BY <2>1, <2>2
<1> HIDE DEF P, Q
<1>4. f \in Nat
  BY <1>2, FloatIntNat
<1>5. \/ h <= Q + 100 /\ Q <= h + 100
      \/ M * h <= M * Q + Q /\ M * Q <= M * h + Q
  BY <1>2, FloatIntNear DEF M
<1> HIDE DEF f
<1>6. h \in Nat /\ h = 100 * f
  BY <1>4
<1> HIDE DEF h
<1> DEFINE U == M * h
           V == M * Q
           W == M * P
           c == 100 * M
<1>7. U \in Nat /\ V \in Nat /\ W \in Nat /\ c \in Nat
  BY <1>1, <1>2, <1>6
<1>8. U <= V + c + Q /\ V <= U + c + Q
  <2>1. CASE h <= Q + 100 /\ Q <= h + 100
    <3>1. h * M <= (Q + 100) * M /\ Q * M <= (h + 100) * M
      BY <1>1, <1>2, <1>6, <2>1, MulLe
    <3>2. /\ h * M = U /\ Q * M = V
          /\ (Q + 100) * M = V + c /\ (h + 100) * M = U + c
      BY <1>1, <1>2, <1>6
    <3> QED
      BY <1>2, <1>7, <3>1, <3>2
  <2>2. CASE M * h <= M * Q + Q /\ M * Q <= M * h + Q
    BY <1>2, <1>7, <2>2
  <2> QED
    BY <1>5, <2>1, <2>2
<1>9. V <= W + P /\ W <= V + P
  BY <1>3
<1> HIDE DEF U, V, W, c
<1>10. /\ U * M <= (V + c + Q) * M /\ V * M <= (U + c + Q) * M
       /\ V * M <= (W + P) * M /\ W * M <= (V + P) * M
  BY <1>1, <1>2, <1>7, <1>8, <1>9, MulLe
<1> DEFINE UM == U * M
           VM == V * M
           WM == W * M
           cM == c * M
<1>11. /\ (V + c + Q) * M = VM + cM + V /\ (U + c + Q) * M = UM + cM + V
       /\ (W + P) * M = WM + W /\ (V + P) * M = VM + W
       /\ UM \in Nat /\ VM \in Nat /\ WM \in Nat /\ cM \in Nat
  BY <1>1, <1>2, <1>7 DEF V, W
<1> HIDE DEF UM, VM, WM, cM
<1>12. /\ UM <= WM + cM + 2 * W + P
       /\ WM <= UM + cM + 2 * W + P
  BY <1>1, <1>7, <1>9, <1>10, <1>11 DEF UM, VM, WM
<1> DEFINE K == M * M
           L == 100 * K + (2 * M + 1) * P
<1>13. /\ K * (100 * f) = UM /\ K * P = WM
       /\ L = cM + 2 * W + P
  BY <1>1, <1>2, <1>4, <1>6 DEF U, W, c, UM, WM, cM
<1>14. K * (100 * f) <= K * P + L /\ K * P <= K * (100 * f) + L
  BY <1>1, <1>7, <1>11, <1>12, <1>13
<1> QED
  BY <1>4, <1>14 DEF M, P, Q, f, a

(* "diff * g_times" keeps to the exact product within the loss of one       *)
(* call, in either direction of time.                                       *)
LEMMA ScaledNear ==
  ASSUME NEW x \in Int, NEW g \in Nat
  PROVE  LET K == Mantissa * Mantissa
             e == 100 * Scaled(x, g) - x * g
         IN  K * Abs(e) <= 100 * K + (2 * Mantissa + 1) * Abs(x * g)
<1> DEFINE M == Mantissa
           K == M * M
           N == 2 * M + 1
<1>1. M \in Nat /\ K \in Nat /\ N \in Nat
  BY FloatAssumption
<1>2. ASSUME NEW y \in Nat, NEW f \in Nat,
             f = FloatInt(FloatInt(y, 1) * g, 100)
      PROVE  /\ K * (100 * f - y * g) <= 100 * K + N * (y * g)
             /\ K * (y * g - 100 * f) <= 100 * K + N * (y * g)
  <2> DEFINE P == y * g
             L == 100 * K + N * P
  <2>1. K * (100 * f) <= K * P + L /\ K * P <= K * (100 * f) + L
    BY <1>2, FloatProductNear
  <2>2. P \in Nat
    OBVIOUS
  <2> HIDE DEF P, K, N
  <2>3. /\ K * (100 * f - P) = K * (100 * f) - K * P
        /\ K * (P - 100 * f) = K * P - K * (100 * f)
        /\ K * P \in Int /\ K * (100 * f) \in Int /\ L \in Int
    BY <1>1, <1>2, <2>2
  <2>4. K * (100 * f - P) <= L /\ K * (P - 100 * f) <= L
    BY <2>1, <2>3
  <2> QED
    BY <2>4 DEF P
<1> HIDE DEF K, N
<1>3. CASE x >= 0
  <2> DEFINE f == FloatInt(FloatInt(x, 1) * g, 100)
  <2>1. x \in Nat /\ f \in Nat /\ Scaled(x, g) = f
    BY <1>3, FloatProductNear DEF Scaled
  <2>2. /\ K * (100 * f - x * g) <= 100 * K + N * (x * g)
        /\ K * (x * g - 100 * f) <= 100 * K + N * (x * g)
    BY <1>2, <2>1
  <2> HIDE DEF f
  <2>3. x * g \in Nat /\ 100 * f - x * g \in Int
        /\ -(100 * f - x * g) = x * g - 100 * f
    BY <2>1
  <2>4. Abs(x * g) = x * g
        /\ (Abs(100 * f - x * g) = 100 * f - x * g
              \/ Abs(100 * f - x * g) = x * g - 100 * f)
    BY <2>3 DEF Abs
  <2>5. K * Abs(100 * f - x * g) <= 100 * K + N * Abs(x * g)
    BY <2>2, <2>4
  <2> QED
    BY <2>1, <2>5 DEF K, N
<1>4. CASE x < 0
  <2> DEFINE y == -x
             f == FloatInt(FloatInt(y, 1) * g, 100)
  <2>1. y \in Nat /\ f \in Nat /\ Scaled(x, g) = -f
    BY <1>4, FloatProductNear DEF Scaled
  <2>2. /\ K * (100 * f - y * g) <= 100 * K + N * (y * g)
        /\ K * (y * g - 100 * f) <= 100 * K + N * (y * g)
    BY <1>2, <2>1
  <2> HIDE DEF f
  <2>3. y * g \in Nat /\ x * g = -(y * g)
    BY <2>1
  <2>4. Abs(x * g) = y * g
        /\ (Abs(100 * (-f) - x * g) = 100 * f - y * g
              \/ Abs(100 * (-f) - x * g) = y * g - 100 * f)
    <3> DEFINE z == y * g
    <3>1. z \in Nat /\ x * g = -z
      BY <2>3
    <3> HIDE DEF z
    <3>2. Abs(-z) = z
          /\ (Abs(100 * (-f) - (-z)) = 100 * f - z
                \/ Abs(100 * (-f) - (-z)) = z - 100 * f)
      BY <2>1, <3>1 DEF Abs
    <3> QED
      BY <3>1, <3>2 DEF z
  <2>5. K * Abs(100 * (-f) - x * g) <= 100 * K + N * Abs(x * g)
    BY <2>2, <2>4
  <2> QED
    BY <2>1, <2>5 DEF K, N
<1> QED
  BY <1>3, <1>4

(* At normal speed an interval up to Mantissa is not changed at all. *)
LEMMA ScaledExact ==
  ASSUME NEW x \in Int, Abs(x) <= Mantissa
  PROVE  Scaled(x, 100) = x
<1>1. ASSUME NEW y \in Nat, y <= Mantissa
      PROVE  FloatInt(FloatInt(y, 1) * 100, 100) = y
  <2>1. FloatInt(y * 1, 1) = y /\ y * 1 = y
    BY <1>1, FloatIntExact
  <2>2. FloatInt(y * 100, 100) = y
    BY <1>1, FloatIntExact
  <2> QED
    BY <2>1, <2>2
<1>2. CASE x >= 0
  BY <1>1, <1>2 DEF Scaled, Abs
<1>3. CASE x < 0
  <2>1. -x \in Nat /\ -x <= Mantissa /\ -(-x) = x
    BY <1>3 DEF Abs
  <2> QED
    BY <1>1, <1>3, <2>1 DEF Scaled
<1> QED
  BY <1>2, <1>3
-------------------------------------------------------------------------------
(* SpeedDrift: the types of the history, and what its steps are. *)
DriftType ==
  /\ first \in [Slots -> Int]
  /\ reads \in [Slots -> Nat]
  /\ exact \in [Slots -> Int]
  /\ moved \in [Slots -> Nat]
  /\ plain \in [Slots -> BOOLEAN]
  /\ stepped \in [ClockIds -> BOOLEAN]
  /\ reader \in [Slots -> ClockIds \cup {"none"}]

(* The steps that leave the slots and their history alone. *)
OtherStep ==
  \/ Unrecorded
  \/ \E c \in ClockIds : StepBack(c) \/ LibcCall(c)
  \/ UNCHANGED allVars

LEMMA DriftSteps ==
  ASSUME [DriftNext]_allVars
  PROVE  \/ \E c \in ClockIds : FirstCall(c)
         \/ \E c \in ClockIds : ScaledCall(c)
         \/ OtherStep
BY DEF DriftNext, OtherStep

LEMMA OtherFrame ==
  ASSUME OtherStep
  PROVE  UNCHANGED <<saved, last, first, reads, exact, moved, plain, reader>>
BY DEF OtherStep, Unrecorded, StepBack, LibcCall, startServer, SetTimeScale,
       Tick, ReadFails, Recurse, SetBack, ReadLibc, slotVars, driftVars, vars,
       allVars

(* The history hides nothing: without it these are the steps of SpeedClock. *)
LEMMA DriftIsNext == [DriftNext]_allVars => [Next]_vars
<1> SUFFICES ASSUME [DriftNext]_allVars
             PROVE  [Next]_vars
  OBVIOUS
<1>1. ASSUME NEW c \in ClockIds, FirstCall(c)
      PROVE  Next
  BY <1>1 DEF FirstCall, Next, Read
<1>2. ASSUME NEW c \in ClockIds, ScaledCall(c)
      PROVE  Next
  BY <1>2 DEF ScaledCall, Next, Read
<1>3. CASE OtherStep
  BY <1>3 DEF OtherStep, Unrecorded, StepBack, LibcCall, Next, Read, allVars
<1> QED
  BY <1>1, <1>2, <1>3, DriftSteps

LEMMA DriftTypeStep ==
  ASSUME TypeOK, DriftType, [DriftNext]_allVars
  PROVE  DriftType'
<1>1. ASSUME NEW c \in ClockIds, FirstCall(c)
      PROVE  DriftType'
  <2>1. Slot(c) \in Slots /\ kernel[c] \in Int
    BY SlotType DEF TypeOK
  <2> QED
    BY <1>1, <2>1 DEF FirstCall, DriftType
<1>2. ASSUME NEW c \in ClockIds, ScaledCall(c)
      PROVE  DriftType'
  <2> DEFINE p == Diff(c) * g_times
             b == g_times = 100 /\ Abs(Diff(c)) <= Mantissa
  <2>1. Slot(c) \in Slots
    BY SlotType
  <2>2. p \in Int /\ Abs(p) \in Nat
    <3>1. Diff(c) \in Int /\ g_times \in Int
      BY <2>1 DEF TypeOK, Diff
    <3>2. p \in Int
      BY <3>1
    <3> HIDE DEF p
    <3> QED
      BY <3>2 DEF Abs
  <2>3. /\ reads' = [reads EXCEPT ![Slot(c)] = @ + 1]
        /\ exact' = [exact EXCEPT ![Slot(c)] = @ + p]
        /\ moved' = [moved EXCEPT ![Slot(c)] = @ + Abs(p)]
        /\ plain' = [plain EXCEPT ![Slot(c)] = @ /\ b]
    BY <1>2 DEF ScaledCall, Record
  <2> HIDE DEF p
  <2>4. /\ reads' \in [Slots -> Nat] /\ exact' \in [Slots -> Int]
        /\ moved' \in [Slots -> Nat]
    BY <2>1, <2>2, <2>3 DEF DriftType
  <2>5. b \in BOOLEAN
    BY Zenon
  <2> HIDE DEF b
  <2>6. plain' \in [Slots -> BOOLEAN]
    BY <2>1, <2>3, <2>5, Zenon DEF DriftType
  <2>7. stepped' \in [ClockIds -> BOOLEAN]
    BY <1>2, Zenon DEF DriftType, ScaledCall
  <2>8. reader' \in [Slots -> ClockIds \cup {"none"}]
    BY <1>2, <2>1, Zenon DEF DriftType, ScaledCall
  <2> QED
    BY <1>2, <2>4, <2>6, <2>7, <2>8 DEF DriftType, ScaledCall
<1>3. CASE OtherStep
  <2>1. stepped' \in [ClockIds -> BOOLEAN]
    BY <1>3, Zenon DEF OtherStep, Unrecorded, StepBack, LibcCall, DriftType,
                      driftVars, allVars
  <2> QED
    BY <1>3, <2>1, OtherFrame DEF DriftType
<1> QED
  BY <1>1, <1>2, <1>3, DriftSteps

LEMMA DriftTypeInit == DriftInit => DriftType
BY DEF DriftInit, DriftType
-------------------------------------------------------------------------------
(* What a scaled call does to its own slot, and to the others. *)
LEMMA ScaledSlot ==
  ASSUME TypeOK, DriftType, NEW c \in ClockIds, ScaledCall(c)
  PROVE  LET k == Slot(c)
             p == Diff(c) * g_times
         IN  /\ k \in Slots /\ Diff(c) \in Int /\ g_times \in Nat /\ p \in Int
             /\ saved[k] # 0
             /\ saved'[k] = kernel[c]
             /\ last'[k] = last[k] + Scaled(Diff(c), g_times)
             /\ first'[k] = first[k]
             /\ reads'[k] = reads[k] + 1
             /\ exact'[k] = exact[k] + p
             /\ moved'[k] = moved[k] + Abs(p)
             /\ plain'[k] => plain[k] /\ g_times = 100
                               /\ Abs(Diff(c)) <= Mantissa
<1> DEFINE k == Slot(c)
<1>1. k \in Slots
  BY SlotType
<1>2. Diff(c) \in Int /\ g_times \in Nat /\ Diff(c) * g_times \in Int
  BY <1>1 DEF TypeOK, Diff
<1>3. /\ saved[k] # 0 /\ saved'[k] = kernel[c]
      /\ last'[k] = last[k] + Scaled(Diff(c), g_times)
  BY <1>1 DEF TypeOK, ScaledCall, ReadScaled
<1>4. /\ reads'[k] = reads[k] + 1
      /\ exact'[k] = exact[k] + Diff(c) * g_times
      /\ moved'[k] = moved[k] + Abs(Diff(c) * g_times)
  BY <1>1 DEF DriftType, ScaledCall, Record
<1>5. plain'[k] = (plain[k] /\ g_times = 100 /\ Abs(Diff(c)) <= Mantissa)
  BY <1>1, Zenon DEF DriftType, ScaledCall, Record
<1>6. UNCHANGED first
  BY DEF ScaledCall
<1> QED
  BY <1>1, <1>2, <1>3, <1>4, <1>5, <1>6

LEMMA FirstSlot ==
  ASSUME TypeOK, DriftType, NEW c \in ClockIds, FirstCall(c)
  PROVE  LET k == Slot(c)
         IN  /\ k \in Slots /\ kernel[c] \in Nat /\ saved[k] = 0
             /\ saved'[k] = kernel[c] /\ last'[k] = kernel[c]
             /\ first'[k] = kernel[c] /\ reads'[k] = 0
             /\ exact'[k] = 0 /\ moved'[k] = 0
<1> DEFINE k == Slot(c)
<1>1. k \in Slots /\ kernel[c] \in Nat
  BY SlotType DEF TypeOK
<1>2. saved[k] = 0 /\ saved'[k] = kernel[c] /\ last'[k] = kernel[c]
  BY <1>1 DEF TypeOK, FirstCall, ReadFirst
<1>3. first'[k] = kernel[c] /\ reads'[k] = 0 /\ exact'[k] = 0 /\ moved'[k] = 0
  BY <1>1 DEF DriftType, FirstCall
<1> QED
  BY <1>1, <1>2, <1>3

LEMMA OtherSlots ==
  ASSUME TypeOK, DriftType, NEW c \in ClockIds, FirstCall(c) \/ ScaledCall(c),
         NEW s \in Slots, s # Slot(c)
  PROVE  /\ saved'[s] = saved[s] /\ last'[s] = last[s]
         /\ first'[s] = first[s] /\ reads'[s] = reads[s]
         /\ exact'[s] = exact[s] /\ moved'[s] = moved[s]
         /\ plain'[s] = plain[s] /\ reader'[s] = reader[s]
<1>1. CASE FirstCall(c)
  <2>1. saved'[s] = saved[s] /\ last'[s] = last[s]
    BY <1>1 DEF FirstCall, ReadFirst, TypeOK
  <2> QED
    BY <1>1, <2>1, Zenon DEF FirstCall, DriftType
<1>2. CASE ScaledCall(c)
  <2>1. saved'[s] = saved[s] /\ last'[s] = last[s]
    BY <1>2 DEF ScaledCall, ReadScaled, TypeOK
  <2> QED
    BY <1>2, <2>1, Zenon DEF ScaledCall, Record, DriftType
<1> QED
  BY <1>1, <1>2

(* DriftBound for one slot. *)
SlotNear(s) ==
  saved[s] # 0 =>
    Mantissa * Mantissa * Abs(100 * (last[s] - first[s]) - exact[s])
      <= Mantissa * Mantissa * 100 * reads[s] + (2 * Mantissa + 1) * moved[s]

LEMMA AbsSum ==
  ASSUME NEW a \in Int, NEW b \in Int
  PROVE  Abs(a) \in Nat /\ Abs(b) \in Nat /\ Abs(a + b) \in Nat
         /\ Abs(a + b) <= Abs(a) + Abs(b)
BY DEF Abs

(* The bounds of the calls add up. *)
LEMMA DriftBoundStep ==
  ASSUME TypeOK, DriftType, DriftBound, [DriftNext]_allVars
  PROVE  DriftBound'
<1> SUFFICES ASSUME NEW s \in Slots
             PROVE  SlotNear(s)'
  BY DEF DriftBound, SlotNear
<1>0. SlotNear(s)
  BY DEF DriftBound, SlotNear
<1> DEFINE K == Mantissa * Mantissa
           N == 2 * Mantissa + 1
<1>1. K \in Nat /\ N \in Nat
  BY FloatAssumption
<1>2. CASE UNCHANGED <<saved, last, first, reads, exact, moved>>
  BY <1>0, <1>2 DEF SlotNear
<1>3. ASSUME NEW c \in ClockIds, FirstCall(c) \/ ScaledCall(c), s # Slot(c)
      PROVE  SlotNear(s)'
  <2>1. /\ saved'[s] = saved[s] /\ last'[s] = last[s]
        /\ first'[s] = first[s] /\ reads'[s] = reads[s]
        /\ exact'[s] = exact[s] /\ moved'[s] = moved[s]
    BY <1>3, OtherSlots
  <2> QED
    BY <1>0, <2>1 DEF SlotNear
<1>4. ASSUME NEW c \in ClockIds, FirstCall(c), s = Slot(c)
      PROVE  SlotNear(s)'
  <2>1. /\ kernel[c] \in Nat /\ last'[s] = kernel[c] /\ first'[s] = kernel[c]
        /\ reads'[s] = 0 /\ exact'[s] = 0 /\ moved'[s] = 0
    BY <1>4, FirstSlot
  <2>2. Abs(100 * (last'[s] - first'[s]) - exact'[s]) = 0
    BY <2>1 DEF Abs
  <2>3. K * 0 = 0 /\ K * 100 * 0 = 0 /\ N * 0 = 0
    BY <1>1
  <2> HIDE DEF K, N
  <2>4. K * Abs(100 * (last'[s] - first'[s]) - exact'[s])
          <= K * 100 * reads'[s] + N * moved'[s]
    BY <2>1, <2>2, <2>3
  <2> QED
    BY <2>4 DEF SlotNear, K, N
<1>5. ASSUME NEW c \in ClockIds, ScaledCall(c), s = Slot(c)
      PROVE  SlotNear(s)'
  <2> DEFINE p == Diff(c) * g_times
             S == Scaled(Diff(c), g_times)
             old_ == 100 * (last[s] - first[s]) - exact[s]
             new == 100 * (last'[s] - first'[s]) - exact'[s]
             e == 100 * S - p
             n == reads[s]
             v == moved[s]
  <2>1. /\ Diff(c) \in Int /\ g_times \in Nat /\ p \in Int /\ saved[s] # 0
        /\ last'[s] = last[s] + S /\ first'[s] = first[s]
        /\ reads'[s] = n + 1 /\ exact'[s] = exact[s] + p
        /\ moved'[s] = v + Abs(p)
    BY <1>5, ScaledSlot
  <2>2. /\ last[s] \in Int /\ first[s] \in Int /\ exact[s] \in Int
        /\ n \in Nat /\ v \in Nat
    BY DEF TypeOK, DriftType
  <2>3. S \in Int
    BY <2>1, ScaledSign, Zenon
  <2>4. K * Abs(e) <= 100 * K + N * Abs(p)
    BY <2>1, ScaledNear, Zenon
  <2>5. K * Abs(old_) <= K * 100 * n + N * v
    BY <1>0, <2>1 DEF SlotNear
  <2> HIDE DEF p, S, n, v
  <2>6. new = old_ + e /\ old_ \in Int /\ e \in Int
    BY <2>1, <2>2, <2>3
  <2> HIDE DEF old_, new, e, K, N
  <2>7. /\ Abs(old_) \in Nat /\ Abs(e) \in Nat /\ Abs(new) \in Nat
        /\ Abs(p) \in Nat /\ Abs(new) <= Abs(old_) + Abs(e)
    BY <2>1, <2>6, AbsSum
  <2>8. K * Abs(new) <= K * Abs(old_) + K * Abs(e)
    <3> DEFINE x == Abs(old_)
               y == Abs(e)
               z == Abs(new)
    <3>1. x \in Nat /\ y \in Nat /\ z \in Nat /\ z <= x + y
      BY <2>7
    <3> HIDE DEF x, y, z
    <3>2. z * K <= (x + y) * K
      BY <1>1, <3>1, MulLe
    <3>3. z * K = K * z /\ (x + y) * K = K * x + K * y
      BY <1>1, <3>1
    <3>4. K * z <= K * x + K * y
      BY <3>2, <3>3
    <3> QED
      BY <3>4 DEF x, y, z
  <2>9. K * 100 * (n + 1) = K * 100 * n + 100 * K
        /\ N * (v + Abs(p)) = N * v + N * Abs(p)
        /\ K * 100 * n \in Int /\ N * v \in Int /\ N * Abs(p) \in Int
        /\ K * Abs(new) \in Int /\ K * Abs(old_) \in Int /\ K * Abs(e) \in Int
    BY <1>1, <2>2, <2>7
  <2>10. K * Abs(new) <= K * 100 * (n + 1) + N * (v + Abs(p))
    BY <1>1, <2>4, <2>5, <2>8, <2>9
  <2>11. K * Abs(new) <= K * 100 * reads'[s] + N * moved'[s]
    BY <2>1, <2>10
  <2> QED
    BY <2>11 DEF SlotNear, K, N, new
<1> QED
  BY <1>2, <1>3, <1>4, <1>5, DriftSteps, OtherFrame

(* At normal speed every interval is added as it is. *)
LEMMA TransparentStep ==
  ASSUME TypeOK, DriftType, Transparent, [DriftNext]_allVars
  PROVE  Transparent'
<1> SUFFICES ASSUME NEW s \in Slots, saved'[s] # 0, plain'[s]
             PROVE  last'[s] = saved'[s]
  BY DEF Transparent
<1>1. CASE UNCHANGED <<saved, last, plain>>
  BY <1>1 DEF Transparent
<1>2. ASSUME NEW c \in ClockIds, FirstCall(c) \/ ScaledCall(c), s # Slot(c)
      PROVE  last'[s] = saved'[s]
  <2>1. saved'[s] = saved[s] /\ last'[s] = last[s] /\ plain'[s] = plain[s]
    BY <1>2, OtherSlots
  <2> QED
    BY <2>1 DEF Transparent
<1>3. ASSUME NEW c \in ClockIds, FirstCall(c), s = Slot(c)
      PROVE  last'[s] = saved'[s]
  BY <1>3, FirstSlot
<1>4. ASSUME NEW c \in ClockIds, ScaledCall(c), s = Slot(c)
      PROVE  last'[s] = saved'[s]
  <2>1. /\ Diff(c) \in Int /\ saved[s] # 0 /\ saved'[s] = kernel[c]
        /\ last'[s] = last[s] + Scaled(Diff(c), g_times)
        /\ plain[s] /\ g_times = 100 /\ Abs(Diff(c)) <= Mantissa
    BY <1>4, ScaledSlot
  <2>2. Scaled(Diff(c), 100) = Diff(c)
    BY <2>1, ScaledExact
  <2>3. last[s] = saved[s] /\ Diff(c) = kernel[c] - saved[s]
    BY <1>4, <2>1 DEF Transparent, Diff
  <2>4. kernel[c] \in Int /\ saved[s] \in Int
    BY DEF TypeOK
  <2> QED
    BY <2>1, <2>2, <2>3, <2>4
<1> QED
  BY <1>1, <1>2, <1>3, <1>4, DriftSteps, OtherFrame
-------------------------------------------------------------------------------
(* Drift and transparency are inductive with the types. *)
LEMMA DriftSafe ==
  DriftSpec => [](TypeOK /\ DriftType /\ DriftBound /\ Transparent)
<1> DEFINE DInv == TypeOK /\ DriftType /\ DriftBound /\ Transparent
<1>1. DriftInit => DInv
  <2> SUFFICES ASSUME DriftInit
               PROVE  DInv
    OBVIOUS
  <2>1. TypeOK
    BY TypeInit DEF DriftInit
  <2>2. \A s \in Slots : saved[s] = 0
    BY DEF DriftInit, Init
  <2>3. DriftBound /\ Transparent
    BY <2>2 DEF DriftBound, Transparent
  <2> QED
    BY <2>1, <2>3, DriftTypeInit
<1>2. DInv /\ [DriftNext]_allVars => DInv'
  BY TypeStep, DriftIsNext, DriftTypeStep, DriftBoundStep, TransparentStep
<1> QED
  BY <1>1, <1>2, PTL DEF DriftSpec

(* For every sequence of speeds, intervals and clock steps, and for every   *)
(* float format, the time gettimeofday and clock_gettime report keeps to    *)
(* the exactly scaled one within one sub-unit a call and the float's        *)
(* relative error.                                                          *)
THEOREM DriftBoundCorrect == DriftSpec => []DriftBound
BY DriftSafe, PTL

(* At normal speed the hooks report the kernel's time, for every float      *)
(* format and every sequence of clock steps within the float's significand. *)
THEOREM TransparentCorrect == DriftSpec => []Transparent
BY DriftSafe, PTL
-------------------------------------------------------------------------------
(* A caller can undo the division into seconds and fraction for a negative  *)
(* time too, as long as time_t holds the seconds.                           *)
LEMMA TimevalAbs ==
  ASSUME NEW t \in Int, Abs(t) < TimeT * Unit
  PROVE  Timeval(t).sec * Unit + Timeval(t).frac = t
<1>1. Unit \in Nat \ {0} /\ TimeT \in Nat \ {0}
  BY ClockAssumption
<1>2. ASSUME NEW x \in Nat, x < TimeT * Unit
      PROVE  x \div Unit \in Nat /\ x \div Unit < TimeT
  <2> DEFINE q == x \div Unit
  <2>1. q \in Nat /\ Unit * q <= x
    BY <1>1
  <2> HIDE DEF q
  <2>2. q < TimeT
    <3> SUFFICES ASSUME TimeT <= q PROVE FALSE
      BY <1>1, <2>1
    <3>1. TimeT * Unit <= q * Unit /\ q * Unit = Unit * q
      BY <1>1, <2>1, MulLe
    <3>2. TimeT * Unit \in Int /\ Unit * q \in Int
      BY <1>1, <2>1
    <3> QED
      BY <1>2, <2>1, <3>1, <3>2
  <2> QED
    BY <2>1, <2>2 DEF q
<1> DEFINE q == CDiv(t, Unit)
<1>3. q \in Int /\ -TimeT < q /\ q < TimeT
  <2>1. CASE t >= 0
    <3>1. t \in Nat /\ t < TimeT * Unit /\ q = t \div Unit
      BY <2>1 DEF Abs, CDiv
    <3>2. q \in Nat /\ q < TimeT
      BY <1>2, <3>1
    <3> HIDE DEF q
    <3> QED
      BY <1>1, <3>2
  <2>2. CASE t < 0
    <3>1. -t \in Nat /\ -t < TimeT * Unit /\ q = -((-t) \div Unit)
      BY <2>2 DEF Abs, CDiv
    <3>2. (-t) \div Unit \in Nat /\ (-t) \div Unit < TimeT
      BY <1>2, <3>1
    <3> DEFINE z == (-t) \div Unit
    <3> HIDE DEF z, q
    <3>3. z \in Nat /\ z < TimeT /\ q = -z
      BY <3>1, <3>2 DEF z
    <3> QED
      BY <1>1, <3>3
  <2> QED
    BY <2>1, <2>2
<1>4. Timeval(t) = [sec |-> ToTimeT(q), frac |-> t - Unit * q]
  BY DEF Timeval, CMod
<1> HIDE DEF q
<1>5. ToTimeT(q) = q
  <2>1. (q + TimeT) % (2 * TimeT) = q + TimeT
    BY <1>1, <1>3
  <2> QED
    BY <1>1, <1>3, <2>1 DEF ToTimeT
<1>6. q * Unit + (t - Unit * q) = t
  BY <1>1, <1>3
<1> QED
  BY <1>4, <1>5, <1>6

(* Why only a clock step or another user of the slot takes a clock back:    *)
(* until a slot is used the application has seen the kernel's time; while   *)
(* the slot is the clock's own, its sample is not ahead of the kernel's     *)
(* time and its last time is what the application was shown.                *)
BackInv(c) ==
  /\ kernel[c] <= MaxTime
  /\ entry[Api(c)] = "libc" => reader[Slot(c)] = "none"
  /\ reader[Slot(c)] = "none" =>
       saved[Slot(c)] = 0 /\ (stepped[c] \/ Shown(c) <= kernel[c])
  /\ reader[Slot(c)] = c /\ ~stepped[c] => saved[Slot(c)] <= kernel[c]
  /\ reader[Slot(c)] = c /\ saved[Slot(c)] # 0
       /\ Abs(last[Slot(c)]) < TimeT * Unit
         => Shown(c) = last[Slot(c)]

(* BackStep for one clock. *)
BackStepOf(c) ==
  \/ Shown(c)' >= Shown(c)
  \/ stepped[c]
  \/ reader[Slot(c)] \notin {c, "none"}
  \/ reader[Slot(c)] = c /\ saved[Slot(c)] = 0
  \/ Abs(last[Slot(c)])' >= TimeT * Unit
  \/ Abs(last[Slot(c)]) >= TimeT * Unit

LEMMA DeliverShown ==
  ASSUME TypeOK, NEW c \in ClockIds, NEW t \in Int, Deliver(c, t)
  PROVE  /\ Abs(t) < TimeT * Unit => Shown(c)' = t
         /\ \A e \in ClockIds \ {c} : Shown(e)' = Shown(e)
<1>1. tv'[c] = Timeval(t)
  BY DEF Deliver, TypeOK
<1>2. \A e \in ClockIds \ {c} : tv'[e] = tv[e]
  BY DEF Deliver, TypeOK
<1> QED
  BY <1>1, <1>2, TimevalAbs DEF Shown

(* The kernel's time fits in time_t. *)
LEMMA KernelFits ==
  ASSUME NEW t \in Nat, t <= MaxTime
  PROVE  Abs(t) < TimeT * Unit
<1>1. MaxTime \in Nat /\ MaxTime < TimeT * Unit /\ TimeT * Unit \in Nat
  BY ClockAssumption
<1> QED
  BY <1>1 DEF Abs

LEMMA BackClock ==
  ASSUME TypeOK, DriftType, NEW e \in ClockIds, BackInv(e),
         [DriftNext]_allVars
  PROVE  BackInv(e)' /\ BackStepOf(e)
<1> DEFINE k == Slot(e)
<1>1. /\ TimeT * Unit \in Nat /\ MaxTime \in Nat /\ "none" \notin ClockIds
      /\ k \in Slots /\ Api(e) \in Apis /\ kernel[e] \in Nat
      /\ saved[k] \in Nat /\ last[k] \in Int /\ Shown(e) \in Int
  <2>1. TimeT * Unit \in Nat /\ MaxTime \in Nat /\ Unit \in Nat
    BY ClockAssumption
  <2>2. "none" \notin ClockIds
    BY ClockAssumption DEF AllClocks
  <2>3. k \in Slots /\ Api(e) \in Apis
    BY SlotType
  <2>4. tv[e].sec \in Int /\ tv[e].frac \in Int
    BY DEF TypeOK
  <2> QED
    BY <2>1, <2>2, <2>3, <2>4 DEF TypeOK, Shown
(* Steps that do not read e and leave its slot alone. *)
<1>2. ASSUME Shown(e)' = Shown(e), UNCHANGED <<saved[k], last[k], reader[k]>>,
             kernel'[e] \in Nat, kernel'[e] <= MaxTime,
             \/ stepped'[e]
             \/ kernel[e] <= kernel'[e] /\ (stepped[e] => stepped'[e]),
             entry'[Api(e)] = "libc" => entry[Api(e)] = "libc"
      PROVE  BackInv(e)' /\ BackStepOf(e)
  <2>1. BackStepOf(e)
    BY <1>1, <1>2 DEF BackStepOf
  <2>2. BackInv(e)'
    BY <1>1, <1>2 DEF BackInv
  <2> QED
    BY <2>1, <2>2
<1>3. ASSUME NEW c \in ClockIds, c # e, FirstCall(c) \/ ScaledCall(c)
      PROVE  BackInv(e)' /\ BackStepOf(e)
  <2>1. UNCHANGED <<kernel, entry>> /\ entry[Api(c)] = "hook"
    BY <1>3 DEF FirstCall, ScaledCall, ReadFirst, ReadScaled, Hooked, hookVars
  <2>2. Shown(e)' = Shown(e)
    <3>1. \E t \in Int : Deliver(c, t)
      <4>1. CASE FirstCall(c)
        BY <4>1 DEF FirstCall, ReadFirst, TypeOK
      <4>2. CASE ScaledCall(c)
        <5> DEFINE ret == last[Slot(c)] + Scaled(Diff(c), g_times)
        <5>1. Deliver(c, ret)
          BY <4>2 DEF ScaledCall, ReadScaled
        <5>2. Diff(c) \in Int /\ g_times \in Nat /\ last[Slot(c)] \in Int
          BY <4>2, ScaledSlot DEF TypeOK
        <5>3. Scaled(Diff(c), g_times) \in Int
          BY <5>2, ScaledSign, Zenon
        <5>4. ret \in Int
          BY <5>2, <5>3
        <5> QED
          BY <5>1, <5>4
      <4> QED
        BY <1>3, <4>1, <4>2
    <3> QED
      BY <1>3, <3>1, DeliverShown
  <2>3. stepped'[e] = stepped[e]
    BY <1>3, Zenon DEF FirstCall, ScaledCall, DriftType
  <2>4. CASE Slot(c) # k
    <3>1. UNCHANGED <<saved[k], last[k], reader[k]>>
      BY <1>1, <1>3, <2>4, OtherSlots
    <3>2. kernel'[e] \in Nat /\ kernel'[e] <= MaxTime
          /\ kernel[e] <= kernel'[e]
      BY <1>1, <2>1 DEF BackInv
    <3> QED
      BY <1>2, <2>1, <2>2, <2>3, <3>1, <3>2
  <2>5. CASE Slot(c) = k
    <3>1. Api(c) = Api(e)
      BY <2>5 DEF Slot, Api
    <3>2. reader'[k] = c
      BY <1>1, <1>3, <2>5, Zenon DEF FirstCall, ScaledCall, DriftType
    <3>3. BackInv(e)'
      BY <1>1, <1>3, <2>1, <3>1, <3>2 DEF BackInv
    <3> QED
      BY <1>1, <2>2, <3>3 DEF BackStepOf
  <2> QED
    BY <2>4, <2>5
<1>4. CASE FirstCall(e)
  <2>1. /\ saved[k] = 0 /\ saved'[k] = kernel[e] /\ last'[k] = kernel[e]
        /\ UNCHANGED <<kernel, entry>> /\ Deliver(e, kernel[e])
        /\ entry[Api(e)] = "hook"
    BY <1>4, FirstSlot DEF FirstCall, ReadFirst, hookVars, Hooked
  <2>2. reader'[k] = e /\ ~stepped'[e]
    BY <1>1, <1>4, Zenon DEF FirstCall, DriftType
  <2>3. Shown(e)' = kernel[e]
    BY <1>1, <2>1, DeliverShown, KernelFits DEF BackInv
  <2>4. BackInv(e)'
    BY <1>1, <2>1, <2>2, <2>3 DEF BackInv
  <2>5. BackStepOf(e)
    BY <1>1, <2>1, <2>3 DEF BackInv, BackStepOf
  <2> QED
    BY <2>4, <2>5
<1>5. CASE ScaledCall(e)
  <2> DEFINE S == Scaled(Diff(e), g_times)
             ret == last[k] + S
  <2>1. /\ saved[k] # 0 /\ saved'[k] = kernel[e] /\ last'[k] = ret
        /\ UNCHANGED <<kernel, entry>> /\ Deliver(e, ret)
        /\ entry[Api(e)] = "hook" /\ Diff(e) \in Int /\ g_times \in Nat
    BY <1>5, ScaledSlot DEF ScaledCall, ReadScaled, hookVars, Hooked
  <2>2. reader'[k] = e /\ ~stepped'[e]
    BY <1>1, <1>5, Zenon DEF ScaledCall, DriftType
  <2>3. S \in Int /\ (Diff(e) >= 0 => S >= 0)
    BY <2>1, ScaledSign, Zenon
  <2>4. reader[k] = e /\ ~stepped[e] => Diff(e) >= 0
    BY <1>1 DEF BackInv, Diff
  <2> HIDE DEF S
  <2>5. ret \in Int
    BY <1>1, <2>3
  <2>6. Abs(ret) < TimeT * Unit => Shown(e)' = ret
    BY <2>1, <2>5, DeliverShown
  <2>7. BackInv(e)'
    BY <1>1, <2>1, <2>2, <2>6 DEF BackInv
  <2>8. BackStepOf(e)
    <3> SUFFICES ASSUME ~stepped[e], reader[k] \in {e, "none"},
                        ~(Abs(last[k])' >= TimeT * Unit),
                        ~(Abs(last[k]) >= TimeT * Unit)
                 PROVE  Shown(e)' >= Shown(e)
      BY DEF BackStepOf
    <3>1. reader[k] = e
      BY <1>1, <2>1 DEF BackInv
    <3>2. S >= 0
      BY <2>3, <2>4, <3>1
    <3>3. Abs(last[k]) \in Nat /\ Abs(ret) \in Nat
      BY <1>1, <2>5 DEF Abs
    <3>4. Abs(last[k])' = Abs(ret)
      BY <2>1 DEF Abs
    <3>5. Shown(e)' = ret /\ Shown(e) = last[k]
      BY <1>1, <2>1, <2>6, <3>1, <3>3, <3>4 DEF BackInv
    <3> QED
      BY <1>1, <2>3, <3>2, <3>5
  <2> QED
    BY <2>7, <2>8
<1>6. CASE OtherStep
  <2>1. UNCHANGED <<saved[k], last[k], reader[k]>>
    BY <1>6, OtherFrame
  <2>2. CASE startServer /\ UNCHANGED driftVars
    <3>1. UNCHANGED <<kernel, tv, stepped>> /\ entry'[Api(e)] = "hook"
      BY <1>1, <2>2 DEF startServer, do_speed_hook, driftVars
    <3> QED
      BY <1>1, <1>2, <2>1, <3>1 DEF Shown, BackInv
  <2>3. ASSUME NEW x \in Inputs, SetTimeScale(x), UNCHANGED driftVars
        PROVE  BackInv(e)' /\ BackStepOf(e)
    <3>1. /\ UNCHANGED <<kernel, tv, stepped>>
          /\ entry'[Api(e)] = "hook" \/ UNCHANGED entry
      BY <1>1, <2>3 DEF SetTimeScale, do_speed_hook, driftVars
    <3> QED
      BY <1>1, <1>2, <2>1, <3>1 DEF Shown, BackInv
  <2>4. ASSUME NEW c \in ClockIds, Tick(c), UNCHANGED driftVars
        PROVE  BackInv(e)' /\ BackStepOf(e)
    <3>1. UNCHANGED <<tv, entry, stepped>>
      BY <2>4 DEF Tick, hookVars, driftVars
    <3>2. kernel'[e] \in Nat /\ kernel[e] <= kernel'[e] /\ kernel'[e] <= MaxTime
      BY <1>1, <2>4 DEF Tick, TypeOK, BackInv
    <3> QED
      BY <1>1, <1>2, <2>1, <3>1, <3>2 DEF Shown
  <2>5. ASSUME NEW c \in ClockIds, ReadFails(c) \/ Recurse(c),
               UNCHANGED driftVars
        PROVE  BackInv(e)' /\ BackStepOf(e)
    <3>1. UNCHANGED <<kernel, tv, entry, stepped>>
      BY <2>5 DEF ReadFails, Recurse, hookVars, driftVars
    <3> QED
      BY <1>1, <1>2, <2>1, <3>1 DEF Shown, BackInv
  <2>6. ASSUME NEW c \in ClockIds, SetBack(c),
               stepped' = [stepped EXCEPT ![c] = TRUE]
        PROVE  BackInv(e)' /\ BackStepOf(e)
    <3>1. UNCHANGED <<tv, entry>>
      BY <2>6 DEF SetBack, hookVars
    <3>2. /\ c = e => stepped'[e]
          /\ c # e => stepped'[e] = stepped[e] /\ kernel'[e] = kernel[e]
      BY <2>6, Zenon DEF SetBack, DriftType, TypeOK
    <3>3. kernel'[e] \in Nat /\ kernel'[e] <= MaxTime
      BY <1>1, <2>6 DEF SetBack, TypeOK, BackInv
    <3> QED
      BY <1>1, <1>2, <2>1, <3>1, <3>2, <3>3 DEF Shown
  <2>7. ASSUME NEW c \in ClockIds, ReadLibc(c),
               stepped' = [stepped EXCEPT ![c] = FALSE]
        PROVE  BackInv(e)' /\ BackStepOf(e)
    <3>1. /\ UNCHANGED <<kernel, entry>> /\ Deliver(c, kernel[c])
          /\ entry[Api(c)] = "libc" /\ kernel[c] \in Nat
      BY <2>7 DEF ReadLibc, hookVars, TypeOK
    <3>2. CASE c = e
      <4>1. ~stepped'[e]
        BY <2>7, <3>2, Zenon DEF DriftType
      <4>2. Shown(e)' = kernel[e]
        BY <1>1, <3>1, <3>2, DeliverShown, KernelFits DEF BackInv
      <4>3. reader[k] = "none" /\ saved[k] = 0
        BY <3>1, <3>2 DEF BackInv
      <4>4. BackInv(e)'
        BY <1>1, <2>1, <3>1, <4>1, <4>2, <4>3 DEF BackInv
      <4>5. BackStepOf(e)
        BY <1>1, <4>2, <4>3 DEF BackInv, BackStepOf
      <4> QED
        BY <4>4, <4>5
    <3>3. CASE c # e
      <4>1. stepped'[e] = stepped[e]
        BY <2>7, <3>3, Zenon DEF DriftType
      <4>2. Shown(e)' = Shown(e)
        BY <3>1, <3>3, DeliverShown
      <4>3. kernel'[e] \in Nat /\ kernel'[e] <= MaxTime
            /\ kernel[e] <= kernel'[e]
        BY <1>1, <3>1 DEF BackInv
      <4> QED
        BY <1>2, <2>1, <3>1, <4>1, <4>2, <4>3
    <3> QED
      BY <3>2, <3>3
  <2>8. CASE UNCHANGED allVars
    <3>1. UNCHANGED <<kernel, tv, entry, stepped>>
      BY <2>8 DEF allVars, vars, driftVars
    <3> QED
      BY <1>1, <1>2, <2>1, <3>1 DEF Shown, BackInv
  <2> QED
    BY <1>6, <2>2, <2>3, <2>4, <2>5, <2>6, <2>7, <2>8
       DEF OtherStep, Unrecorded, StepBack, LibcCall
<1> QED
  BY <1>3, <1>4, <1>5, <1>6, DriftSteps

(* A clock goes back for the application only after a step of the kernel's  *)
(* clock, another user of its slot or a reading of 0, for every set of      *)
(* clocks, every sequence of speeds and every float format, while time_t    *)
(* holds the seconds.                                                       *)
THEOREM BackOnlyIfSetCorrect == DriftSpec => BackOnlyIfSet
<1> DEFINE BInv == TypeOK /\ DriftType /\ \A c \in ClockIds : BackInv(c)
<1>1. DriftInit => BInv
  <2> SUFFICES ASSUME DriftInit
               PROVE  BInv
    OBVIOUS
  <2>1. TypeOK /\ DriftType
    BY TypeInit, DriftTypeInit DEF DriftInit
  <2>2. ASSUME NEW c \in ClockIds
        PROVE  BackInv(c)
    <3>1. Slot(c) \in Slots /\ MaxTime \in Nat /\ 0 < TimeT * Unit
      BY SlotType, ClockAssumption
    <3>2. Abs(0) < TimeT * Unit
      BY <3>1 DEF Abs
    <3>3. Timeval(0).sec * Unit + Timeval(0).frac = 0
      BY <3>2, TimevalAbs
    <3>4. Shown(c) = 0
      BY <3>3 DEF Shown, DriftInit, Init
    <3>5. /\ reader[Slot(c)] = "none" /\ saved[Slot(c)] = 0 /\ kernel[c] = 0
          /\ c # "none"
      BY <3>1, ClockAssumption DEF DriftInit, Init, AllClocks
    <3> QED
      BY <3>1, <3>4, <3>5 DEF BackInv
  <2> QED
    BY <2>1, <2>2
<1>2. BInv /\ [DriftNext]_allVars => BInv' /\ BackStep
  <2> SUFFICES ASSUME BInv, [DriftNext]_allVars
               PROVE  BInv' /\ BackStep
    OBVIOUS
  <2>1. TypeOK' /\ DriftType'
    BY TypeStep, DriftIsNext, DriftTypeStep
  <2>2. \A c \in ClockIds : BackInv(c)' /\ BackStepOf(c)
    BY BackClock
  <2> QED
    BY <2>1, <2>2 DEF BackStep, BackStepOf
<1> QED
  BY <1>1, <1>2, PTL DEF DriftSpec, BackOnlyIfSet
===============================================================================
