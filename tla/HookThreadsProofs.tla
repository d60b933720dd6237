--------------------------- MODULE HookThreadsProofs --------------------------
(***************************************************************************)
(* Theorems about HookThreads, for any threads, any speeds and any float   *)
(* format.  When each clock is read by one thread, the hooks implement the *)
(* virtual clock although the speed changes between their loads and        *)
(* stores, and no call shows an earlier time than the one before it.       *)
(***************************************************************************)
EXTENDS HookThreads, TLAPS

(* No two threads read the same clock. *)
OwnClock == \A t, u \in Threads : Use[t] = Use[u] => t = u

Commits == {"firstlast", "base", "save", "last"}

(* What the clock of thread t stands at. *)
SampledOf(t) == IF pc[t] \in Commits THEN cur[t] ELSE saved[Use[t]]

ShownOf(t) ==
  IF pc[t] = "firstlast" THEN cur[t]
  ELSE IF pc[t] = "base" THEN last[Use[t]] + diff[t]
  ELSE IF pc[t] \in {"save", "last"} THEN ret[t]
  ELSE last[Use[t]]

(* The slot between two calls: no call was given more than what was shown   *)
(* last, and nothing was shown before the first sample.                     *)
SlotInv(s) ==
  /\ saved[s] <= kernel
  /\ \A v \in told[s] : v <= last[s]
  /\ saved[s] = 0 => last[s] = 0

(* A call: its sample is no older than the slot's, and nobody has used the  *)
(* slot since it began.                                                     *)
CallInv(t) ==
  pc[t] # "idle" =>
    /\ cur[t] >= 1 /\ cur[t] <= kernel
    /\ saved[Use[t]] <= cur[t]
    /\ \A v \in floor[t] : v <= last[Use[t]]
    /\ pc[t] = "first" => saved[Use[t]] = 0
    /\ pc[t] = "firstlast" => saved[Use[t]] = cur[t] /\ last[Use[t]] = 0
    /\ pc[t] \in {"diff", "scale", "base", "save"} => saved[Use[t]] # 0
    /\ pc[t] = "diff" => seen[t] = saved[Use[t]]
    /\ pc[t] = "scale" => diff[t] = cur[t] - saved[Use[t]]
    /\ pc[t] = "base" => diff[t] >= 0
    /\ pc[t] \in {"save", "last"} => ret[t] >= last[Use[t]]
    /\ pc[t] = "last" => saved[Use[t]] = cur[t]

IInv ==
  /\ TypeOK
  /\ kernel >= 1
  /\ \A s \in Slots : SlotInv(s)
  /\ \A t \in Threads : CallInv(t)
-------------------------------------------------------------------------------
(* A fraction that is not negative, made a float, truncates to a natural    *)
(* number.                                                                  *)
LEMMA FloatIntNat ==
  ASSUME NEW n \in Nat, NEW d \in Nat \ {0}
  PROVE  FloatInt(n, d) \in Nat
<1> DEFINE p == Spacing(n, d)
           r == NearestEven(n * p.w, d * p.u)
<1>1. p.u \in Nat \ {0} /\ p.w \in Nat \ {0}
  <2>1. CASE \E q \in Grid : InBinade(q, n, d)
    <3>1. p \in Grid
      BY <2>1 DEF Spacing
    <3> QED
      BY <3>1, FloatAssumption
  <2>2. CASE ~ \E q \in Grid : InBinade(q, n, d)
    BY <2>2 DEF Spacing
  <2> QED
    BY <2>1, <2>2
<1> HIDE DEF p
<1>2. n * p.w \in Nat /\ d * p.u \in Nat \ {0}
  BY <1>1
<1>3. r \in Nat
  <2> DEFINE a == n * p.w
             b == d * p.u
  <2>1. a \in Nat /\ b \in Nat \ {0}
    BY <1>2
  <2> HIDE DEF a, b
  <2>2. a \div b \in Nat /\ a % b \in Nat
    BY <2>1
  <2>3. NearestEven(a, b) \in Nat
    BY <2>1, <2>2 DEF NearestEven
  <2> QED
    BY <2>3 DEF a, b
<1> HIDE DEF r
<1>4. (r * p.u) \div p.w \in Nat
  <2>1. r * p.u \in Nat
    BY <1>1, <1>3
  <2> QED
    BY <1>1, <2>1
<1> QED
  BY <1>4 DEF FloatInt, r, p

(* "diff * g_times" is an integer, and not negative if diff is not. *)
LEMMA ScaledSign ==
  ASSUME NEW x \in Int, NEW g \in Nat
  PROVE  Scaled(x, g) \in Int /\ (x >= 0 => Scaled(x, g) >= 0)
<1>1. \A m \in Nat : FloatInt(FloatInt(m, 1) * g, 100) \in Nat
  <2> TAKE m \in Nat
  <2>1. FloatInt(m, 1) \in Nat
    BY FloatIntNat
  <2>2. FloatInt(m, 1) * g \in Nat
    BY <2>1
  <2> QED
    BY <2>2, FloatIntNat
<1>2. x >= 0 => x \in Nat
  OBVIOUS
<1>3. ~(x >= 0) => -x \in Nat
  OBVIOUS
<1> QED
  BY <1>1, <1>2, <1>3 DEF Scaled
-------------------------------------------------------------------------------
LEMMA TypeInit == Init => TypeOK
BY ThreadsAssumption DEF Init, TypeOK

LEMMA TypeStep == TypeOK /\ [Next]_vars => TypeOK'
<1> SUFFICES ASSUME TypeOK, [Next]_vars PROVE TypeOK'
  OBVIOUS
<1> USE DEF globals, locals, history
<1>1. CASE Tick
  <2>1. kernel' \in Nat
    BY <1>1, ThreadsAssumption, SMT DEF Tick, TypeOK
  <2> QED
    BY <1>1, <2>1 DEF Tick, TypeOK
<1>2. CASE SetTimeScale
  BY <1>2, ThreadsAssumption DEF SetTimeScale, TypeOK
<1>3. ASSUME NEW t \in Threads, Step(t) PROVE TypeOK'
  <2>1. Use[t] \in Slots
    BY ThreadsAssumption
  <2>2. /\ kernel \in Nat /\ saved[Use[t]] \in Nat /\ cur[t] \in Nat
        /\ seen[t] \in Nat /\ last[Use[t]] \in Int /\ diff[t] \in Int
        /\ ret[t] \in Int /\ told[Use[t]] \in SUBSET Int /\ g_times \in Nat
    BY <2>1 DEF TypeOK
  <2>3. cur[t] \in Int /\ \A v \in Nat : cur[t] - v \in Int
    BY <2>2, SMT
  <2>4. CASE Sample(t)
    BY <2>2, <2>4, Zenon DEF Sample, Goto, TypeOK
  <2>5. CASE Test(t)
    BY <2>2, <2>5 DEF Test, Goto, TypeOK
  <2>6. CASE FirstSaved(t)
    BY <2>2, <2>6, Zenon DEF FirstSaved, Goto, TypeOK
  <2>7. CASE FirstLast(t)
    BY <2>2, <2>3, <2>7, Zenon DEF FirstLast, Return, Goto, TypeOK
  <2>8. CASE LoadSaved(t)
    <3>1. PICK v \in {seen[t], saved[Use[t]]} :
             diff' = [diff EXCEPT ![t] = cur[t] - v]
      BY <2>8 DEF LoadSaved
    <3>2. cur[t] - v \in Int
      BY <2>2, <2>3
    <3> QED
      BY <2>8, <3>1, <3>2, Zenon DEF LoadSaved, Goto, TypeOK
  <2>9. CASE LoadTimes(t)
    <3>1. Scaled(diff[t], g_times) \in Int
      BY <2>2, ScaledSign
    <3> QED
      BY <2>9, <3>1, Zenon DEF LoadTimes, Goto, TypeOK
  <2>10. CASE LoadLast(t)
    <3>1. last[Use[t]] + diff[t] \in Int
      BY <2>2, SMT
    <3> QED
      BY <2>10, <3>1, Zenon DEF LoadLast, Goto, TypeOK
  <2>11. CASE StoreSaved(t)
    BY <2>2, <2>11, Zenon DEF StoreSaved, Goto, TypeOK
  <2>12. CASE StoreLast(t)
    BY <2>2, <2>12, Zenon DEF StoreLast, Return, Goto, TypeOK
  <2> QED
    BY <1>3, <2>4, <2>5, <2>6, <2>7, <2>8, <2>9, <2>10, <2>11, <2>12 DEF Step
<1>4. CASE UNCHANGED vars
  BY <1>4 DEF vars, TypeOK
<1> QED
  BY <1>1, <1>2, <1>3, <1>4 DEF Next

(* The types hold whoever shares a clock: a negative interval, which two    *)
(* threads of one clock can make, still scales to an integer.               *)
THEOREM TypeCorrect == Spec => []TypeOK
<1>1. Init => TypeOK
  BY TypeInit
<1>2. TypeOK /\ [Next]_vars => TypeOK'
  BY TypeStep
<1> QED
  BY <1>1, <1>2, PTL DEF Spec
-------------------------------------------------------------------------------
(* A step of thread t leaves the other threads and the other slots alone. *)
Apart(t) ==
  /\ kernel' = kernel
  /\ \A u \in Threads \ {t} :
       /\ pc'[u] = pc[u] /\ cur'[u] = cur[u] /\ seen'[u] = seen[u]
       /\ diff'[u] = diff[u] /\ ret'[u] = ret[u] /\ floor'[u] = floor[u]
  /\ \A s \in Slots \ {Use[t]} :
       saved'[s] = saved[s] /\ last'[s] = last[s] /\ told'[s] = told[s]

LEMMA StepApart ==
  ASSUME TypeOK, NEW t \in Threads, Step(t)
  PROVE  Apart(t)
<1> USE DEF globals, locals, history, Apart, Goto, Return
<1>1. Use[t] \in Slots
  BY ThreadsAssumption
<1>2. CASE Sample(t)
  BY <1>2, Zenon DEF Sample, TypeOK
<1>3. CASE Test(t)
  BY <1>3 DEF Test, TypeOK
<1>4. CASE FirstSaved(t)
  BY <1>4, Zenon DEF FirstSaved, TypeOK
<1>5. CASE FirstLast(t)
  BY <1>5, Zenon DEF FirstLast, TypeOK
<1>6. CASE LoadSaved(t)
  BY <1>6 DEF LoadSaved, TypeOK
<1>7. CASE LoadTimes(t)
  BY <1>7, Zenon DEF LoadTimes, TypeOK
<1>8. CASE LoadLast(t)
  BY <1>8, Zenon DEF LoadLast, TypeOK
<1>9. CASE StoreSaved(t)
  BY <1>9, Zenon DEF StoreSaved, TypeOK
<1>10. CASE StoreLast(t)
  BY <1>10, Zenon DEF StoreLast, TypeOK
<1> QED
  BY <1>2, <1>3, <1>4, <1>5, <1>6, <1>7, <1>8, <1>9, <1>10 DEF Step

(* What a step of thread t does to its clock: nothing, the first reading,   *)
(* or another one.                                                          *)
Starts(t) ==
  /\ SampledOf(t) = 0 /\ cur[t] >= 0 /\ cur[t] <= kernel
  /\ SampledOf(t)' = cur[t] /\ ShownOf(t)' = cur[t]

Reports(t) ==
  /\ SampledOf(t) # 0 /\ SampledOf(t) <= cur[t] /\ cur[t] <= kernel
  /\ SampledOf(t)' = cur[t]
  /\ ShownOf(t)' = ShownOf(t) + Scaled(cur[t] - SampledOf(t), g_times)

Shows(t) ==
  \/ SampledOf(t)' = SampledOf(t) /\ ShownOf(t)' = ShownOf(t)
  \/ Starts(t)
  \/ Reports(t)

(* A step keeps the invariant of its own call and slot, and takes effect at *)
(* the store of the first sample or at the load of g_times.                 *)
LEMMA StepOwn ==
  ASSUME IInv, NEW t \in Threads, Step(t)
  PROVE  CallInv(t)' /\ SlotInv(Use[t])' /\ Shows(t)
<1> DEFINE s == Use[t]
<1> USE DEF globals, locals, history
<1>1. s \in Slots
  BY ThreadsAssumption
<1>2. /\ kernel \in Nat /\ saved[s] \in Nat /\ cur[t] \in Nat
      /\ seen[t] \in Nat /\ last[s] \in Int /\ diff[t] \in Int
      /\ ret[t] \in Int /\ told[s] \in SUBSET Int /\ g_times \in Nat
      /\ floor[t] \in SUBSET Int
  BY <1>1 DEF IInv, TypeOK
<1>3. kernel >= 1 /\ SlotInv(s) /\ CallInv(t)
  BY <1>1 DEF IInv
<1>4. CASE Sample(t)
  <2>1. /\ pc[t] = "idle" /\ pc'[t] = "test"
        /\ cur'[t] = kernel
        /\ floor'[t] = told[s]
        /\ kernel' = kernel /\ g_times' = g_times /\ saved'[s] = saved[s]
        /\ last'[s] = last[s] /\ told'[s] = told[s]
    BY <1>1, <1>4, Zenon DEF Sample, Goto, IInv, TypeOK
  <2>8. CallInv(t)' /\ SlotInv(s)'
    BY <1>2, <1>3, <2>1, SMT DEF CallInv, SlotInv
  <2>9. Shows(t)
    BY <1>2, <1>3, <2>1, SMT
       DEF CallInv, SlotInv, Shows, Starts, Reports, SampledOf, ShownOf, Commits
  <2> QED
    BY <2>8, <2>9
<1>5. CASE Test(t)
  <2>1. /\ pc[t] = "test" /\ pc'[t] = IF saved[s] = 0 THEN "first" ELSE "diff"
        /\ seen'[t] = saved[s]
        /\ kernel' = kernel /\ saved'[s] = saved[s] /\ last'[s] = last[s]
        /\ told'[s] = told[s] /\ cur'[t] = cur[t] /\ floor'[t] = floor[t]
    BY <1>1, <1>5 DEF Test, Goto, IInv, TypeOK
  <2>8. CallInv(t)' /\ SlotInv(s)'
    BY <1>2, <1>3, <2>1, SMT DEF CallInv, SlotInv
  <2>9. Shows(t)
    BY <1>2, <1>3, <2>1, SMT DEF Shows, SampledOf, ShownOf, Commits
  <2> QED
    BY <2>8, <2>9
<1>6. CASE FirstSaved(t)
  <2>1. /\ pc[t] = "first" /\ pc'[t] = "firstlast"
        /\ saved'[s] = cur[t]
        /\ kernel' = kernel /\ last'[s] = last[s] /\ told'[s] = told[s]
        /\ cur'[t] = cur[t] /\ floor'[t] = floor[t]
    BY <1>1, <1>6, Zenon DEF FirstSaved, Goto, IInv, TypeOK
  <2>8. CallInv(t)' /\ SlotInv(s)'
    BY <1>2, <1>3, <2>1, SMT DEF CallInv, SlotInv
  <2>9. Shows(t)
    BY <1>2, <1>3, <2>1, SMT
       DEF CallInv, SlotInv, Shows, Starts, Reports, SampledOf, ShownOf, Commits
  <2> QED
    BY <2>8, <2>9
<1>7. CASE FirstLast(t)
  <2>1. /\ pc[t] = "firstlast" /\ pc'[t] = "idle"
        /\ last'[s] = cur[t]
        /\ told'[s] = IF \A w \in told[s] : cur[t] >= w THEN {cur[t]} ELSE told[s]
        /\ kernel' = kernel /\ saved'[s] = saved[s] /\ cur'[t] = cur[t]
    BY <1>1, <1>7, Zenon DEF FirstLast, Goto, Return, IInv, TypeOK
  <2>8. CallInv(t)' /\ SlotInv(s)'
    BY <1>2, <1>3, <2>1, SMT DEF CallInv, SlotInv
  <2>9. Shows(t)
    BY <1>2, <1>3, <2>1, SMT
       DEF CallInv, SlotInv, Shows, Starts, Reports, SampledOf, ShownOf, Commits
  <2> QED
    BY <2>8, <2>9
<1>8. CASE LoadSaved(t)
  <2>1. /\ pc[t] = "diff" /\ pc'[t] = "scale"
        /\ kernel' = kernel /\ saved'[s] = saved[s] /\ last'[s] = last[s]
        /\ told'[s] = told[s] /\ cur'[t] = cur[t] /\ floor'[t] = floor[t]
    BY <1>1, <1>8, Zenon DEF LoadSaved, Goto, IInv, TypeOK
  <2>2. seen[t] = saved[s]
    BY <1>3, <2>1 DEF CallInv
  <2>3. diff' = [diff EXCEPT ![t] = cur[t] - saved[s]]
    BY <1>8, <2>2 DEF LoadSaved
  <2>4. diff'[t] = cur[t] - saved[s]
    BY <2>3, Zenon DEF IInv, TypeOK
  <2>8. CallInv(t)' /\ SlotInv(s)'
    BY <1>2, <1>3, <2>1, <2>4, SMT DEF CallInv, SlotInv
  <2>9. Shows(t)
    BY <1>2, <1>3, <2>1, SMT DEF Shows, SampledOf, ShownOf, Commits
  <2> QED
    BY <2>8, <2>9
<1>9. CASE LoadTimes(t)
  <2>1. /\ pc[t] = "scale" /\ pc'[t] = "base"
        /\ diff'[t] = Scaled(diff[t], g_times)
        /\ kernel' = kernel /\ saved'[s] = saved[s] /\ last'[s] = last[s]
        /\ told'[s] = told[s] /\ cur'[t] = cur[t] /\ floor'[t] = floor[t]
    BY <1>1, <1>9, Zenon DEF LoadTimes, Goto, IInv, TypeOK
  <2>2. diff[t] = cur[t] - saved[s] /\ diff[t] >= 0
    BY <1>2, <1>3, <2>1, SMT DEF CallInv
  <2>3. Scaled(diff[t], g_times) \in Int /\ Scaled(diff[t], g_times) >= 0
    BY <1>2, <2>2, ScaledSign
  <2>8. CallInv(t)' /\ SlotInv(s)'
    BY <1>2, <1>3, <2>1, <2>2, <2>3, SMT DEF CallInv, SlotInv
  <2>9. Shows(t)
    BY <1>2, <1>3, <2>1, <2>2, <2>3, SMT
       DEF CallInv, SlotInv, Shows, Starts, Reports, SampledOf, ShownOf, Commits
  <2> QED
    BY <2>8, <2>9
<1>10. CASE LoadLast(t)
  <2>1. /\ pc[t] = "base" /\ pc'[t] = "save"
        /\ ret'[t] = last[s] + diff[t]
        /\ kernel' = kernel /\ saved'[s] = saved[s] /\ last'[s] = last[s]
        /\ told'[s] = told[s] /\ cur'[t] = cur[t] /\ floor'[t] = floor[t]
    BY <1>1, <1>10, Zenon DEF LoadLast, Goto, IInv, TypeOK
  <2>8. CallInv(t)' /\ SlotInv(s)'
    BY <1>2, <1>3, <2>1, SMT DEF CallInv, SlotInv
  <2>9. Shows(t)
    BY <1>2, <1>3, <2>1, SMT
       DEF CallInv, SlotInv, Shows, Starts, Reports, SampledOf, ShownOf, Commits
  <2> QED
    BY <2>8, <2>9
<1>11. CASE StoreSaved(t)
  <2>1. /\ pc[t] = "save" /\ pc'[t] = "last"
        /\ saved'[s] = cur[t]
        /\ kernel' = kernel /\ last'[s] = last[s] /\ told'[s] = told[s]
        /\ cur'[t] = cur[t] /\ ret'[t] = ret[t] /\ floor'[t] = floor[t]
    BY <1>1, <1>11, Zenon DEF StoreSaved, Goto, IInv, TypeOK
  <2>8. CallInv(t)' /\ SlotInv(s)'
    BY <1>2, <1>3, <2>1, SMT DEF CallInv, SlotInv
  <2>9. Shows(t)
    BY <1>2, <1>3, <2>1, SMT
       DEF CallInv, SlotInv, Shows, Starts, Reports, SampledOf, ShownOf, Commits
  <2> QED
    BY <2>8, <2>9
<1>12. CASE StoreLast(t)
  <2>1. /\ pc[t] = "last" /\ pc'[t] = "idle"
        /\ last'[s] = ret[t]
        /\ told'[s] = IF \A w \in told[s] : ret[t] >= w THEN {ret[t]} ELSE told[s]
        /\ kernel' = kernel /\ saved'[s] = saved[s]
    BY <1>1, <1>12, Zenon DEF StoreLast, Goto, Return, IInv, TypeOK
  <2>8. CallInv(t)' /\ SlotInv(s)'
    BY <1>2, <1>3, <2>1, SMT DEF CallInv, SlotInv
  <2>9. Shows(t)
    BY <1>2, <1>3, <2>1, SMT
       DEF CallInv, SlotInv, Shows, Starts, Reports, SampledOf, ShownOf, Commits
  <2> QED
    BY <2>8, <2>9
<1> QED
  BY <1>4, <1>5, <1>6, <1>7, <1>8, <1>9, <1>10, <1>11, <1>12 DEF Step

LEMMA IInvInit == Init => IInv
<1> SUFFICES ASSUME Init PROVE IInv
  OBVIOUS
<1>1. TypeOK
  BY TypeInit
<1>2. \A s \in Slots : SlotInv(s)
  BY DEF Init, SlotInv
<1>3. \A t \in Threads : CallInv(t)
  BY DEF Init, CallInv
<1> QED
  BY <1>1, <1>2, <1>3 DEF Init, IInv

LEMMA IInvStep ==
  ASSUME OwnClock, IInv, [Next]_vars
  PROVE  IInv'
<1>1. TypeOK' /\ TypeOK
  BY TypeStep DEF IInv
<1>2. \A t \in Threads : Use[t] \in Slots
  BY ThreadsAssumption
<1>3. CASE Tick
  <2>1. /\ kernel \in Nat /\ kernel' \in Nat /\ kernel' >= kernel
        /\ UNCHANGED <<saved, last, pc, cur, seen, diff, ret, told, floor>>
    BY <1>1, <1>3, ThreadsAssumption, SMT DEF Tick, locals, history, TypeOK
  <2>2. /\ \A s \in Slots : saved[s] \in Nat
        /\ \A t \in Threads : cur[t] \in Nat
    BY <1>1 DEF TypeOK
  <2>3. ASSUME NEW s \in Slots PROVE SlotInv(s)'
    <3>1. SlotInv(s)
      BY DEF IInv
    <3> QED
      BY <2>1, <2>2, <3>1, SMT DEF SlotInv
  <2>4. ASSUME NEW t \in Threads PROVE CallInv(t)'
    <3>1. CallInv(t)
      BY DEF IInv
    <3> QED
      BY <2>1, <2>2, <3>1, SMT DEF CallInv
  <2>5. kernel' >= 1
    BY <2>1, SMT DEF IInv
  <2> QED
    BY <1>1, <2>3, <2>4, <2>5 DEF IInv
<1>4. CASE SetTimeScale \/ UNCHANGED vars
  <2>1. UNCHANGED <<kernel, saved, last, pc, cur, seen, diff, ret, told, floor>>
    BY <1>4 DEF SetTimeScale, vars, globals, locals, history
  <2> QED
    BY <1>1, <2>1 DEF IInv, SlotInv, CallInv
<1>5. ASSUME NEW t \in Threads, Step(t) PROVE IInv'
  <2>1. Apart(t)
    BY <1>1, <1>5, StepApart
  <2>2. CallInv(t)' /\ SlotInv(Use[t])'
    BY <1>5, StepOwn
  <2>3. ASSUME NEW u \in Threads, u # t PROVE CallInv(u)'
    <3>1. Use[u] # Use[t] /\ Use[u] \in Slots
      BY <1>2, <2>3 DEF OwnClock
    <3>2. CallInv(u)
      BY DEF IInv
    <3> QED
      BY <2>1, <2>3, <3>1, <3>2 DEF Apart, CallInv
  <2>4. ASSUME NEW s \in Slots, s # Use[t] PROVE SlotInv(s)'
    <3>1. SlotInv(s)
      BY DEF IInv
    <3> QED
      BY <2>1, <2>4, <3>1 DEF Apart, SlotInv
  <2>5. kernel' >= 1
    BY <2>1 DEF Apart, IInv
  <2> QED
    BY <1>1, <2>2, <2>3, <2>4, <2>5 DEF IInv
<1> QED
  BY <1>3, <1>4, <1>5 DEF Next
-------------------------------------------------------------------------------
(* A call that ends shows no earlier time than its clock showed when it     *)
(* began.                                                                   *)
LEMMA OrderStep ==
  ASSUME IInv, NEW t \in Threads
  PROVE  /\ FirstLast(t) => \A v \in floor[t] : cur[t] >= v
         /\ StoreLast(t) => \A v \in floor[t] : ret[t] >= v
<1>1. /\ CallInv(t) /\ cur[t] \in Nat /\ ret[t] \in Int
      /\ last[Use[t]] \in Int /\ floor[t] \subseteq Int
  BY ThreadsAssumption DEF IInv, TypeOK
<1>2. FirstLast(t) => pc[t] = "firstlast"
  BY DEF FirstLast, Goto
<1>3. StoreLast(t) => pc[t] = "last"
  BY DEF StoreLast, Goto
<1> QED
  BY <1>1, <1>2, <1>3, SMT DEF CallInv

(* The clock of a thread, which is the only one that reads it. *)
Bars ==
  OwnClock =>
    /\ \A t \in Threads : /\ SampledBar[Use[t]] = SampledOf(t)
                          /\ ShownBar[Use[t]] = ShownOf(t)
    /\ \A s \in Slots :
         (\A t \in Threads : Use[t] # s) =>
           SampledBar[s] = saved[s] /\ ShownBar[s] = last[s]

LEMMA BarsHold == Bars
<1> SUFFICES ASSUME OwnClock
             PROVE  /\ \A t \in Threads : /\ SampledBar[Use[t]] = SampledOf(t)
                                          /\ ShownBar[Use[t]] = ShownOf(t)
                    /\ \A s \in Slots :
                         (\A t \in Threads : Use[t] # s) =>
                           SampledBar[s] = saved[s] /\ ShownBar[s] = last[s]
  BY DEF Bars
<1>1. \A t \in Threads : Use[t] \in Slots
  BY ThreadsAssumption
<1>2. ASSUME NEW s \in Slots, Committed(s) = {}
      PROVE  SampledBar[s] = saved[s] /\ ShownBar[s] = last[s]
  BY <1>2 DEF SampledBar, ShownBar
<1>3. ASSUME NEW t \in Threads
      PROVE  SampledBar[Use[t]] = SampledOf(t) /\ ShownBar[Use[t]] = ShownOf(t)
  <2>1. CASE pc[t] \in Commits
    <3>1. Committed(Use[t]) = {t}
      BY <2>1 DEF OwnClock, Committed, Commits
    <3>2. (CHOOSE u \in Committed(Use[t]) : TRUE) = t /\ Committed(Use[t]) # {}
      BY <3>1
    <3>3. SampledBar[Use[t]] = cur[t]
      BY <1>1, <3>2 DEF SampledBar
    <3>4. ShownBar[Use[t]] = CASE pc[t] = "firstlast" -> cur[t]
                               [] pc[t] = "base" -> last[Use[t]] + diff[t]
                               [] OTHER -> ret[t]
      BY <1>1, <3>2, Zenon DEF ShownBar
    <3>5. ShownOf(t) = CASE pc[t] = "firstlast" -> cur[t]
                         [] pc[t] = "base" -> last[Use[t]] + diff[t]
                         [] OTHER -> ret[t]
      BY <2>1 DEF ShownOf, Commits
    <3> QED
      BY <2>1, <3>3, <3>4, <3>5 DEF SampledOf
  <2>2. CASE pc[t] \notin Commits
    <3>1. Committed(Use[t]) = {}
      BY <2>2 DEF OwnClock, Committed, Commits
    <3> QED
      BY <1>1, <1>2, <2>2, <3>1 DEF SampledOf, ShownOf, Commits
  <2> QED
    BY <2>1, <2>2
<1>4. ASSUME NEW s \in Slots, \A t \in Threads : Use[t] # s
      PROVE  SampledBar[s] = saved[s] /\ ShownBar[s] = last[s]
  <2>1. Committed(s) = {}
    BY <1>4 DEF Committed
  <2> QED
    BY <1>2, <2>1
<1> QED
  BY <1>3, <1>4

LEMMA BarsAfter == Bars'
BY BarsHold, PTL

(* The bars are functions on the slots. *)
LEMMA BarsEqual ==
  ASSUME \A s \in Slots : SampledBar'[s] = SampledBar[s]
                          /\ ShownBar'[s] = ShownBar[s]
  PROVE  SampledBar' = SampledBar /\ ShownBar' = ShownBar
<1> DEFINE f == SampledBar
           g == ShownBar
<1>1. f = [s \in Slots |-> f[s]] /\ g = [s \in Slots |-> g[s]]
  BY DEF SampledBar, ShownBar
<1>2. f' = [s \in Slots |-> f'[s]] /\ g' = [s \in Slots |-> g'[s]]
  BY DEF SampledBar, ShownBar
<1> HIDE DEF f, g
<1>3. f' = f /\ g' = g
  <2>1. \A s \in Slots : f'[s] = f[s] /\ g'[s] = g[s]
    BY DEF f, g
  <2> QED
    BY <1>1, <1>2, <2>1
<1> QED
  BY <1>3 DEF f, g

LEMMA BarsExcept ==
  ASSUME NEW k \in Slots, NEW v, NEW w,
         SampledBar'[k] = v, ShownBar'[k] = w,
         \A s \in Slots \ {k} : SampledBar'[s] = SampledBar[s]
                                /\ ShownBar'[s] = ShownBar[s]
  PROVE  /\ SampledBar' = [SampledBar EXCEPT ![k] = v]
         /\ ShownBar' = [ShownBar EXCEPT ![k] = w]
<1> DEFINE f == SampledBar
           g == ShownBar
<1>1. f = [s \in Slots |-> f[s]] /\ g = [s \in Slots |-> g[s]]
  BY DEF SampledBar, ShownBar
<1>2. f' = [s \in Slots |-> f'[s]] /\ g' = [s \in Slots |-> g'[s]]
  BY DEF SampledBar, ShownBar
<1>3. /\ f'[k] = v /\ g'[k] = w
      /\ \A s \in Slots \ {k} : f'[s] = f[s] /\ g'[s] = g[s]
  OBVIOUS
<1> HIDE DEF f, g
<1>4. f' = [f EXCEPT ![k] = v] /\ g' = [g EXCEPT ![k] = w]
  BY <1>1, <1>2, <1>3
<1> QED
  BY <1>4 DEF f, g

(* The virtual clock scales as the hooks do. *)
LEMMA SameScale ==
  ASSUME NEW x, NEW g
  PROVE  Virtual!Scaled(x, g) = Scaled(x, g)
BY DEF Virtual!Scaled, Virtual!FloatInt, Virtual!Spacing, Virtual!InBinade,
       Virtual!NearestEven, Scaled, FloatInt, Spacing, InBinade, NearestEven

(* Every step of the hooks is a step of the virtual clock, or none. *)
LEMMA RefinesStep ==
  ASSUME OwnClock, IInv, [Next]_vars
  PROVE  [Virtual!VNext]_(Virtual!vcvars)
<1> USE DEF globals, locals, history
<1>1. /\ \A t \in Threads : /\ SampledBar[Use[t]] = SampledOf(t)
                            /\ ShownBar[Use[t]] = ShownOf(t)
                            /\ SampledBar'[Use[t]] = SampledOf(t)'
                            /\ ShownBar'[Use[t]] = ShownOf(t)'
      /\ \A s \in Slots :
           (\A t \in Threads : Use[t] # s) =>
             /\ SampledBar[s] = saved[s] /\ ShownBar[s] = last[s]
             /\ SampledBar'[s] = saved'[s] /\ ShownBar'[s] = last'[s]
  BY BarsHold, BarsAfter, Zenon DEF Bars
<1>2. \A t \in Threads : Use[t] \in Slots
  BY ThreadsAssumption
<1>3. ASSUME UNCHANGED <<saved, last, pc, cur, diff, ret>>
      PROVE  SampledBar' = SampledBar /\ ShownBar' = ShownBar
  <2>1. ASSUME NEW s \in Slots
        PROVE  SampledBar'[s] = SampledBar[s] /\ ShownBar'[s] = ShownBar[s]
    <3>1. CASE \A t \in Threads : Use[t] # s
      BY <1>1, <1>3, <3>1
    <3>2. ASSUME NEW t \in Threads, Use[t] = s
          PROVE  SampledBar'[s] = SampledBar[s] /\ ShownBar'[s] = ShownBar[s]
      BY <1>1, <1>3, <3>2 DEF SampledOf, ShownOf
    <3> QED
      BY <3>1, <3>2
  <2> QED
    BY <2>1, BarsEqual
<1>4. CASE Tick
  <2>1. SampledBar' = SampledBar /\ ShownBar' = ShownBar
    BY <1>3, <1>4 DEF Tick
  <2>2. Virtual!Pass
    BY <1>4, <2>1 DEF Tick, Virtual!Pass
  <2> QED
    BY <2>2 DEF Virtual!VNext
<1>5. CASE SetTimeScale
  <2>1. SampledBar' = SampledBar /\ ShownBar' = ShownBar
    BY <1>3, <1>5 DEF SetTimeScale
  <2>2. Virtual!SetSpeed
    BY <1>5, <2>1 DEF SetTimeScale, Virtual!SetSpeed
  <2> QED
    BY <2>2 DEF Virtual!VNext
<1>6. ASSUME NEW t \in Threads, Step(t)
      PROVE  [Virtual!VNext]_(Virtual!vcvars)
  <2> DEFINE k == Use[t]
  <2>1. k \in Slots
    BY <1>2
  <2>2. Apart(t) /\ Shows(t)
    BY <1>6, StepApart, StepOwn DEF IInv
  <2>3. g_times' = g_times /\ kernel' = kernel
    <3>1. g_times' = g_times
      BY <1>6 DEF Step, Sample, Test, FirstSaved, FirstLast, LoadSaved,
                  LoadTimes, LoadLast, StoreSaved, StoreLast
    <3> QED
      BY <2>2, <3>1 DEF Apart
  <2>4. ASSUME NEW s \in Slots, s # k
        PROVE  SampledBar'[s] = SampledBar[s] /\ ShownBar'[s] = ShownBar[s]
    <3>1. saved'[s] = saved[s] /\ last'[s] = last[s]
      BY <2>2, <2>4 DEF Apart
    <3>2. CASE \A u \in Threads : Use[u] # s
      BY <1>1, <3>1, <3>2
    <3>3. ASSUME NEW u \in Threads, Use[u] = s
          PROVE  SampledBar'[s] = SampledBar[s] /\ ShownBar'[s] = ShownBar[s]
      <4>1. /\ pc'[u] = pc[u] /\ cur'[u] = cur[u]
            /\ diff'[u] = diff[u] /\ ret'[u] = ret[u]
        BY <2>2, <2>4, <3>3 DEF Apart
      <4> QED
        BY <1>1, <3>1, <3>3, <4>1 DEF SampledOf, ShownOf
    <3> QED
      BY <3>2, <3>3
  <2>5. /\ SampledBar[k] = SampledOf(t) /\ ShownBar[k] = ShownOf(t)
        /\ SampledBar'[k] = SampledOf(t)' /\ ShownBar'[k] = ShownOf(t)'
    BY <1>1
  <2>6. CASE SampledOf(t)' = SampledOf(t) /\ ShownOf(t)' = ShownOf(t)
    <3>1. SampledBar' = SampledBar /\ ShownBar' = ShownBar
      BY <2>4, <2>5, <2>6, BarsEqual
    <3> QED
      BY <2>3, <3>1 DEF Virtual!vcvars
  <2>7. CASE Starts(t)
    <3>1. /\ SampledBar' = [SampledBar EXCEPT ![k] = cur[t]]
          /\ ShownBar' = [ShownBar EXCEPT ![k] = cur[t]]
      BY <2>1, <2>4, <2>5, <2>7, BarsExcept DEF Starts
    <3>2. cur[t] \in 0 .. kernel
      BY <2>7 DEF Starts, IInv, TypeOK
    <3>3. Virtual!Start(k)
      BY <2>3, <2>5, <2>7, <3>1, <3>2 DEF Virtual!Start, Starts
    <3> QED
      BY <2>1, <3>3 DEF Virtual!VNext
  <2>8. CASE Reports(t)
    <3> DEFINE w == ShownBar[k] + Scaled(cur[t] - SampledBar[k], g_times)
    <3>1. SampledBar'[k] = cur[t] /\ ShownBar'[k] = w
      BY <2>5, <2>8 DEF Reports
    <3>2. /\ SampledBar' = [SampledBar EXCEPT ![k] = cur[t]]
          /\ ShownBar' = [ShownBar EXCEPT ![k] = w]
      BY <2>1, <2>4, <3>1, BarsExcept
    <3>3. cur[t] \in SampledBar[k] .. kernel /\ SampledBar[k] # 0
      <4>1. cur[t] \in Nat /\ saved[k] \in Nat /\ kernel \in Nat
        BY <2>1 DEF IInv, TypeOK
      <4>2. SampledBar[k] \in Nat
        BY <2>5, <4>1 DEF SampledOf
      <4> QED
        BY <2>5, <2>8, <4>1, <4>2 DEF Reports
    <3>4. w = ShownBar[k] + Virtual!Scaled(cur[t] - SampledBar[k], g_times)
      BY SameScale
    <3> HIDE DEF w
    <3>5. ShownBar' = [ShownBar EXCEPT ![k] =
                         @ + Virtual!Scaled(cur[t] - SampledBar[k], g_times)]
      BY <3>2, <3>4
    <3>6. Virtual!Report(k)
      BY <2>3, <3>2, <3>3, <3>5 DEF Virtual!Report
    <3> QED
      BY <2>1, <3>6 DEF Virtual!VNext
  <2> QED
    BY <2>2, <2>6, <2>7, <2>8 DEF Shows
<1>7. CASE UNCHANGED vars
  <2>1. SampledBar' = SampledBar /\ ShownBar' = ShownBar
    BY <1>3, <1>7 DEF vars
  <2> QED
    BY <1>7, <2>1 DEF vars, Virtual!vcvars
<1> QED
  BY <1>4, <1>5, <1>6, <1>7 DEF Next

LEMMA RefinesInit ==
  ASSUME OwnClock, Init
  PROVE  Virtual!VInit
<1>1. \A s \in Slots : Committed(s) = {}
  BY DEF Init, Committed
<1>2. /\ SampledBar = [s \in Slots |-> 0]
      /\ ShownBar = [s \in Slots |-> 0]
  BY <1>1 DEF Init, SampledBar, ShownBar
<1>3. kernel \in 0 .. MaxNow /\ g_times \in Nat \ {0}
  BY ThreadsAssumption DEF Init
<1> QED
  BY <1>2, <1>3 DEF Virtual!VInit

(* When each clock is read by one thread, a call begun after another has    *)
(* returned shows no earlier time, whatever the server's thread stores into *)
(* g_times between the loads and stores of both calls.                      *)
THEOREM OrderedCallsCorrect == OwnClock => (Spec => OrderedCalls)
<1> SUFFICES ASSUME OwnClock PROVE Spec => OrderedCalls
  OBVIOUS
<1>1. Init => IInv
  BY IInvInit
<1>2. IInv /\ [Next]_vars => IInv'
  BY IInvStep
<1>3. IInv /\ [Next]_vars =>
        [\A t \in Threads : /\ FirstLast(t) => \A v \in floor[t] : cur[t] >= v
                            /\ StoreLast(t) => \A v \in floor[t] : ret[t] >= v]_vars
  BY OrderStep
<1> QED
  BY <1>1, <1>2, <1>3, PTL DEF Spec, OrderedCalls

(* When each clock is read by one thread, the unsynchronised hooks are the  *)
(* virtual clock: a call takes effect in one step, with one speed.          *)
THEOREM IsVirtualClockCorrect == OwnClock => (Spec => IsVirtualClock)
<1> SUFFICES ASSUME OwnClock PROVE Spec => IsVirtualClock
  OBVIOUS
<1>1. Init => IInv
  BY IInvInit
<1>2. IInv /\ [Next]_vars => IInv'
  BY IInvStep
<1>3. Init => Virtual!VInit
  BY RefinesInit
<1>4. IInv /\ [Next]_vars => [Virtual!VNext]_(Virtual!vcvars)
  BY RefinesStep
<1> QED
  BY <1>1, <1>2, <1>3, <1>4, PTL DEF Spec, IsVirtualClock, Virtual!VSpec
===============================================================================
