---------------------------- MODULE InjectorProofs ----------------------------
(***************************************************************************)
(* Theorems about Injector, for any number of runs of elfinject, killed at *)
(* any point: the check of the mappings keeps a second one out, the        *)
(* registers are given back, and the application survives.                 *)
(***************************************************************************)
EXTENDS Injector, TLAPS

Points == Remote \cup {"find", "check", "attach", "getregs", "restore",
                       "detach", "hung", "done", "killed"}

(* Between the check and the return of hook_entry. *)
Early(i) == pc[i] \in {"attach", "getregs", "mmap", "substrate", "dlopen",
                       "dlsym", "hook_entry"}

(* Only an injector between attach and detach traces, and only a process    *)
(* that is there.                                                           *)
Tracing ==
  \A i \in Injectors :
    tracer = i => alive /\ pc[i] \in Remote \cup {"getregs", "restore",
                                                  "detach", "hung"}

OnlyOne ==
  ~overlap => \A i, j \in Injectors : AtWork(i) /\ AtWork(j) => i = j

(* A tracer that has opened the library still has it. *)
Opened ==
  \A i \in Injectors :
    tracer = i /\ pc[i] \in {"dlsym", "hook_entry", "dlclose"} => refs > 0

(* Once hook_entry has run, the library is there for every check to see, so *)
(* that nobody is on the way to a second hook_entry.                        *)
StaysMapped == ~unloaded /\ entries > 0 /\ alive => refs > 0

NoneEarly ==
  ~overlap /\ ~unloaded /\ entries > 0 /\ alive =>
    \A i \in Injectors : ~Early(i)

(* A server for each hook_entry that ran. *)
Servers ==
  /\ pending <= entries
  /\ listening => pending + 1 <= entries

Excused == disturbed \/ lib = "unloadable"

(* The registers the main thread had are in place or in original_regs. *)
Registers ==
  \A i \in Injectors :
    tracer = i =>
      \/ Excused
      \/ pc[i] \in {"getregs", "detach"} /\ regs = "own"
      \/ pc[i] \in Remote \cup {"restore"} /\ orig[i] = "own"
      \/ pc[i] = "hung"

IInv ==
  /\ TypeOK /\ Tracing /\ OnlyOne /\ Opened /\ StaysMapped /\ NoneEarly
  /\ SecondEntryNeedsOverlap /\ Servers /\ Registers /\ LetGoAsFound
-------------------------------------------------------------------------------
LEMMA GotoMoves ==
  ASSUME TypeOK, NEW i \in Injectors, NEW to \in Points, Goto(i, to)
  PROVE  /\ pc' \in [Injectors -> Points]
         /\ \A j \in Injectors : pc'[j] = IF j = i THEN to ELSE pc[j]
BY Zenon DEF Goto, TypeOK, Points

(* The end of an injector that leaves the registers as they were, or is     *)
(* excused.                                                                 *)
LEMMA ExitStep ==
  ASSUME IInv, NEW i \in Injectors, NEW r \in {0, -1, -2}, Exit(i, r),
         UNCHANGED <<lib, sameBase, alive, regs, refs, pending, listening,
                     orig, history>>,
         tracer = i => regs = "own" \/ Excused
  PROVE  IInv'
<1>1. /\ pc' \in [Injectors -> Points]
      /\ \A j \in Injectors : pc'[j] = IF j = i THEN "done" ELSE pc[j]
  BY GotoMoves DEF Exit, IInv, Points
<1>2. /\ tracer' = IF tracer = i THEN None ELSE tracer
      /\ None \notin Injectors
  BY InjectorAssumption DEF Exit
<1>3. TypeOK'
  BY <1>1, <1>2, Zenon DEF IInv, TypeOK, Exit, history, Points
<1>4. Tracing' /\ Opened'
  BY <1>1, <1>2, SMT DEF IInv, Tracing, Opened, history
<1>5. OnlyOne' /\ NoneEarly'
  BY <1>1, SMT DEF IInv, OnlyOne, NoneEarly, AtWork, Early, history
<1>6. StaysMapped' /\ SecondEntryNeedsOverlap' /\ Servers'
  BY DEF IInv, StaysMapped, SecondEntryNeedsOverlap, Servers, history
<1>7. Registers'
  BY <1>1, <1>2, SMT DEF IInv, Registers, Excused, history
<1>8. LetGoAsFound'
  BY <1>2, SMT DEF IInv, LetGoAsFound, Excused, history
<1> QED
  BY <1>3, <1>4, <1>5, <1>6, <1>7, <1>8 DEF IInv

(* A step of an injector to another point. *)
LEMMA InjectStep ==
  ASSUME IInv, NEW i \in Injectors, Inject(i)
  PROVE  IInv'
<1> USE DEF target, history
<1>1. /\ TypeOK /\ None \notin Injectors
      /\ pc \in [Injectors -> Points]
      /\ refs \in Nat /\ pending \in Nat /\ entries \in Nat
  BY InjectorAssumption DEF IInv, TypeOK, Points
<1>2. CASE Find(i)
  <2>1. CASE alive
    <3>1. UNCHANGED <<lib, sameBase, target, running, orig, ret, history>>
          /\ Goto(i, "check") /\ pc[i] = "find"
      BY <1>2, <2>1 DEF Find
    <3>2. /\ pc' \in [Injectors -> Points]
          /\ \A j \in Injectors : pc'[j] = IF j = i THEN "check" ELSE pc[j]
      BY <1>1, <3>1, GotoMoves DEF Points
    <3>3. TypeOK'
      BY <1>1, <3>1, <3>2, Zenon DEF TypeOK, Points
    <3>4. Tracing' /\ Opened' /\ Registers'
      BY <3>1, <3>2, SMT DEF IInv, Tracing, Opened, Registers, Excused, Remote
    <3>5. OnlyOne' /\ NoneEarly'
      BY <3>1, <3>2, SMT DEF IInv, OnlyOne, NoneEarly, AtWork, Early
    <3>6. /\ StaysMapped' /\ SecondEntryNeedsOverlap' /\ Servers'
          /\ LetGoAsFound'
      BY <3>1, Zenon DEF IInv, StaysMapped, SecondEntryNeedsOverlap, Servers,
                         LetGoAsFound
    <3> QED
      BY <3>3, <3>4, <3>5, <3>6 DEF IInv
  <2>2. CASE ~alive
    <3>1. Exit(i, -1) /\ tracer # i
      BY <1>2, <2>2 DEF Find, IInv, Tracing
    <3> QED
      BY <1>2, <3>1, ExitStep DEF Find
  <2> QED
    BY <2>1, <2>2
<1>3. CASE Check(i)
  <2>1. CASE Mapped
    <3>1. Exit(i, -2) /\ tracer # i
      BY <1>3, <2>1 DEF Check, IInv, Tracing, Remote
    <3> QED
      BY <1>3, <2>1, <3>1, ExitStep DEF Check
  <2>2. CASE ~Mapped
    <3>1. /\ UNCHANGED <<lib, sameBase, target, running, orig, ret, entries,
                         disturbed, unthreaded, unloaded>>
          /\ Goto(i, "attach") /\ pc[i] = "check"
          /\ overlap' = (overlap \/ \E j \in Injectors \ {i} : AtWork(j))
      BY <1>3, <2>2 DEF Check
    <3>2. /\ pc' \in [Injectors -> Points]
          /\ \A j \in Injectors : pc'[j] = IF j = i THEN "attach" ELSE pc[j]
      BY <1>1, <3>1, GotoMoves DEF Points
    <3>3. TypeOK'
      BY <1>1, <3>1, <3>2, Zenon DEF TypeOK, Points
    <3>4. Tracing' /\ Opened' /\ Registers'
      BY <3>1, <3>2, SMT DEF IInv, Tracing, Opened, Registers, Excused, Remote
    <3>5. OnlyOne'
      <4>1. ~overlap' => ~overlap /\ \A j \in Injectors : AtWork(j) => j = i
        BY <3>1, Zenon
      <4>2. \A j \in Injectors : j # i => (AtWork(j)' <=> AtWork(j))
        BY <3>2, Zenon DEF AtWork
      <4> QED
        BY <4>1, <4>2, Zenon DEF OnlyOne
    <3>6. NoneEarly'
      BY <1>1, <2>2, <3>1, <3>2, SMT
         DEF IInv, NoneEarly, Early, StaysMapped, Mapped
    <3>7. StaysMapped' /\ Servers' /\ LetGoAsFound'
      BY <3>1, Zenon DEF IInv, StaysMapped, Servers, LetGoAsFound
    <3>8. SecondEntryNeedsOverlap'
      BY <3>1, Zenon DEF IInv, SecondEntryNeedsOverlap
    <3> QED
      BY <3>3, <3>4, <3>5, <3>6, <3>7, <3>8 DEF IInv
  <2> QED
    BY <2>1, <2>2
<1>4. CASE Attach(i)
  <2>1. CASE alive /\ tracer = None
    <3>1. /\ UNCHANGED <<lib, sameBase, alive, regs, refs, pending, listening,
                         running, orig, ret, history>>
          /\ Goto(i, "getregs") /\ pc[i] = "attach" /\ tracer' = i
      BY <1>4, <2>1 DEF Attach
    <3>2. /\ pc' \in [Injectors -> Points]
          /\ \A j \in Injectors : pc'[j] = IF j = i THEN "getregs" ELSE pc[j]
      BY <1>1, <3>1, GotoMoves DEF Points
    <3>3. TypeOK'
      BY <1>1, <3>1, <3>2, Zenon DEF TypeOK, Points
    <3>4. Tracing' /\ Opened'
      BY <2>1, <3>1, <3>2, SMT DEF IInv, Tracing, Opened
    <3>5. Registers'
      <4>1. regs = "own" \/ Excused
        BY <1>1, <2>1, SMT DEF IInv, LetGoAsFound, Excused, TypeOK
      <4> QED
        BY <3>1, <3>2, <4>1, SMT DEF Registers, Excused
    <3>6. OnlyOne' /\ NoneEarly'
      BY <3>1, <3>2, SMT DEF IInv, OnlyOne, NoneEarly, AtWork, Early
    <3>7. StaysMapped' /\ SecondEntryNeedsOverlap' /\ Servers'
      BY <3>1, Zenon DEF IInv, StaysMapped, SecondEntryNeedsOverlap, Servers
    <3>8. LetGoAsFound'
      BY <1>1, <3>1 DEF LetGoAsFound
    <3> QED
      BY <3>3, <3>4, <3>5, <3>6, <3>7, <3>8 DEF IInv
  <2>2. CASE ~(alive /\ tracer = None)
    <3>1. Exit(i, -1) /\ tracer # i
      BY <1>4, <2>2 DEF Attach, IInv, Tracing, Remote
    <3> QED
      BY <1>4, <3>1, ExitStep DEF Attach
  <2> QED
    BY <2>1, <2>2
<1>5. CASE GetRegs(i)
  <2>1. CASE tracer = i
    <3>1. /\ UNCHANGED <<lib, sameBase, target, running, ret, history>>
          /\ Goto(i, "mmap") /\ pc[i] = "getregs"
          /\ orig' = [orig EXCEPT ![i] = regs]
      BY <1>5, <2>1 DEF GetRegs
    <3>2. /\ pc' \in [Injectors -> Points]
          /\ \A j \in Injectors : pc'[j] = IF j = i THEN "mmap" ELSE pc[j]
      BY <1>1, <3>1, GotoMoves DEF Points, Remote
    <3>3. TypeOK'
      BY <1>1, <3>1, <3>2, Zenon DEF TypeOK, Points
    <3>4. Tracing' /\ Opened'
      BY <2>1, <3>1, <3>2, SMT DEF IInv, Tracing, Opened, Remote
    <3>5. Registers'
      <4>1. regs = "own" \/ Excused
        BY <2>1, <3>1, SMT DEF IInv, Registers, Remote
      <4>2. orig'[i] = regs
        BY <1>1, <3>1, Zenon DEF TypeOK
      <4> QED
        BY <2>1, <3>1, <3>2, <4>1, <4>2, SMT DEF Registers, Excused, Remote
    <3>6. OnlyOne' /\ NoneEarly'
      BY <3>1, <3>2, SMT DEF IInv, OnlyOne, NoneEarly, AtWork, Early
    <3>7. /\ StaysMapped' /\ SecondEntryNeedsOverlap' /\ Servers'
          /\ LetGoAsFound'
      BY <3>1, Zenon DEF IInv, StaysMapped, SecondEntryNeedsOverlap, Servers,
                         LetGoAsFound
    <3> QED
      BY <3>3, <3>4, <3>5, <3>6, <3>7 DEF IInv
  <2>2. CASE tracer # i
    BY <1>5, <2>2, ExitStep DEF GetRegs
  <2> QED
    BY <2>1, <2>2
<1>6. CASE Call(i)
  <2>1. /\ UNCHANGED <<lib, sameBase, alive, tracer, refs, pending, listening,
                       pc, orig, ret, history>>
        /\ pc[i] \in Remote /\ tracer = i /\ regs' = "scratch"
        /\ running' = running \cup {i}
    BY <1>6 DEF Call
  <2>2. TypeOK'
    BY <1>1, <2>1, Zenon DEF TypeOK
  <2>3. Tracing' /\ Opened' /\ OnlyOne' /\ NoneEarly' /\ StaysMapped'
        /\ SecondEntryNeedsOverlap' /\ Servers'
    BY <2>1, Zenon DEF IInv, Tracing, Opened, OnlyOne, NoneEarly, AtWork,
                       Early, StaysMapped, SecondEntryNeedsOverlap, Servers
  <2>4. Registers'
    BY <2>1, SMT DEF IInv, Registers, Excused, Remote
  <2>5. LetGoAsFound'
    BY <1>1, <2>1 DEF LetGoAsFound
  <2> QED
    BY <2>2, <2>3, <2>4, <2>5 DEF IInv
<1>7. CASE CallFails(i) \/ HangEnds(i)
  <2>1. PICK r \in LeftAs(i) : Exit(i, r)
    BY <1>7 DEF CallFails, HangEnds
  <2>2. r \in {0, -1, -2}
    BY DEF LeftAs
  <2>3. /\ UNCHANGED <<lib, sameBase, alive, regs, refs, pending, listening,
                       orig, history>>
        /\ tracer # i
    BY <1>7 DEF CallFails, HangEnds
  <2> QED
    BY <2>1, <2>2, <2>3, ExitStep
<1>8. CASE DlopenFails(i)
  BY <1>8, ExitStep DEF DlopenFails, Excused
<1>9. CASE ReturnPlain(i)
  <2>1. PICK f \in {"mmap", "substrate", "dlsym"} : Returned(i, f)
    BY <1>9 DEF ReturnPlain
  <2>2. /\ UNCHANGED <<lib, sameBase, target, orig, ret, history>>
        /\ pc[i] = f /\ tracer = i /\ running' = running \ {i}
        /\ Goto(i, After[f])
    BY <1>9, <2>1 DEF ReturnPlain, Returned
  <2>3. /\ f = "mmap" => After[f] = "substrate"
        /\ f = "substrate" => After[f] = "dlopen"
        /\ f = "dlsym" => After[f] = "hook_entry"
    BY DEF After, Remote
  <2> DEFINE to == After[f]
  <2>4. to \in Remote /\ to \in Points /\ Goto(i, to)
    BY <2>2, <2>3 DEF Points, Remote
  <2>5. to \in {"dlsym", "hook_entry", "dlclose"} => f = "dlsym"
    BY <2>3
  <2>6. to \in {"substrate", "dlopen", "hook_entry"}
    BY <2>3
  <2> HIDE DEF to
  <2>7. /\ pc' \in [Injectors -> Points]
        /\ \A j \in Injectors : pc'[j] = IF j = i THEN to ELSE pc[j]
    BY <1>1, <2>4, GotoMoves
  <2>8. TypeOK'
    BY <1>1, <2>2, <2>7, Zenon DEF TypeOK, Points
  <2>9. Tracing' /\ Opened'
    BY <2>2, <2>4, <2>5, <2>7, SMT DEF IInv, Tracing, Opened
  <2>10. Registers'
    BY <2>2, <2>4, <2>7, SMT DEF IInv, Registers, Excused, Remote
  <2>11. OnlyOne' /\ NoneEarly'
    BY <2>2, <2>6, <2>7, SMT DEF IInv, OnlyOne, NoneEarly, AtWork, Early
  <2>12. /\ StaysMapped' /\ SecondEntryNeedsOverlap' /\ Servers'
         /\ LetGoAsFound'
    BY <2>2, Zenon DEF IInv, StaysMapped, SecondEntryNeedsOverlap, Servers,
                       LetGoAsFound
  <2> QED
    BY <2>8, <2>9, <2>10, <2>11, <2>12 DEF IInv
<1>10. CASE ReturnDlopen(i)
  <2>1. /\ UNCHANGED <<lib, sameBase, alive, tracer, regs, pending, listening,
                       orig, ret, history>>
        /\ pc[i] = "dlopen" /\ tracer = i /\ running' = running \ {i}
        /\ Goto(i, "dlsym") /\ refs' = refs + 1
    BY <1>10 DEF ReturnDlopen, Returned, After, Remote
  <2>2. /\ pc' \in [Injectors -> Points]
        /\ \A j \in Injectors : pc'[j] = IF j = i THEN "dlsym" ELSE pc[j]
    BY <1>1, <2>1, GotoMoves DEF Points, Remote
  <2>3. refs' \in Nat /\ refs' > 0
    BY <1>1, <2>1, SMT
  <2>4. TypeOK'
    BY <1>1, <2>1, <2>2, <2>3, Zenon DEF TypeOK, Points
  <2>5. Tracing' /\ Opened' /\ StaysMapped'
    BY <2>1, <2>2, <2>3, SMT DEF IInv, Tracing, Opened, StaysMapped, Remote
  <2>6. Registers'
    BY <2>1, <2>2, SMT DEF IInv, Registers, Excused, Remote
  <2>7. OnlyOne' /\ NoneEarly'
    BY <2>1, <2>2, SMT DEF IInv, OnlyOne, NoneEarly, AtWork, Early
  <2>8. SecondEntryNeedsOverlap' /\ Servers' /\ LetGoAsFound'
    BY <2>1, Zenon DEF IInv, SecondEntryNeedsOverlap, Servers, LetGoAsFound
  <2> QED
    BY <2>4, <2>5, <2>6, <2>7, <2>8 DEF IInv
<1>11. CASE ReturnHookEntry(i)
  <2>1. /\ UNCHANGED <<lib, sameBase, alive, tracer, regs, refs, listening,
                       orig, ret, overlap, disturbed, unloaded>>
        /\ pc[i] = "hook_entry" /\ tracer = i /\ running' = running \ {i}
        /\ Goto(i, "dlclose")
        /\ pending' = pending \/ pending' = pending + 1
        /\ entries' = entries + 1 \/ UNCHANGED <<pending, entries>>
        /\ unthreaded' = unthreaded \/ unthreaded' = TRUE
    BY <1>11 DEF ReturnHookEntry, Returned, After, Remote
  <2>2. /\ pc' \in [Injectors -> Points]
        /\ \A j \in Injectors : pc'[j] = IF j = i THEN "dlclose" ELSE pc[j]
    BY <1>1, <2>1, GotoMoves DEF Points, Remote
  <2>3. pending' \in Nat /\ entries' \in Nat
    BY <1>1, <2>1, SMT
  <2>4. TypeOK'
    BY <1>1, <2>1, <2>2, <2>3, Zenon DEF TypeOK, Points
  <2>5. alive /\ refs > 0
    BY <2>1 DEF IInv, Tracing, Opened
  <2>6. Tracing' /\ Opened' /\ StaysMapped'
    BY <2>1, <2>2, <2>5, SMT DEF IInv, Tracing, Opened, StaysMapped, Remote
  <2>7. Registers'
    BY <2>1, <2>2, SMT DEF IInv, Registers, Excused, Remote
  <2>8. OnlyOne'
    BY <2>1, <2>2, SMT DEF IInv, OnlyOne, AtWork
  <2>9. NoneEarly'
    <3>1. ~overlap => \A j \in Injectors : AtWork(j) => j = i
      BY <2>1 DEF IInv, OnlyOne, AtWork
    <3>2. \A j \in Injectors : Early(j) => AtWork(j)
      BY DEF Early, AtWork
    <3>3. ~Early(i)' /\ \A j \in Injectors : j # i => (Early(j)' <=> Early(j))
      BY <2>2 DEF Early
    <3> QED
      BY <2>1, <3>1, <3>2, <3>3, Zenon DEF NoneEarly
  <2>10. SecondEntryNeedsOverlap'
    <3>1. ~overlap /\ ~unloaded => ~(entries > 0)
      BY <2>1, <2>5 DEF IInv, NoneEarly, Early
    <3> QED
      BY <1>1, <2>1, <3>1, SMT DEF SecondEntryNeedsOverlap
  <2>11. Servers'
    BY <1>1, <2>1, SMT DEF IInv, Servers
  <2>12. LetGoAsFound'
    BY <2>1, Zenon DEF IInv, LetGoAsFound
  <2> QED
    BY <2>4, <2>6, <2>7, <2>8, <2>9, <2>10, <2>11, <2>12 DEF IInv
<1>12. CASE ReturnDlclose(i)
  <2>1. /\ UNCHANGED <<lib, sameBase, alive, tracer, regs, pending, listening,
                       orig, ret, entries, overlap, disturbed, unthreaded>>
        /\ pc[i] = "dlclose" /\ tracer = i /\ running' = running \ {i}
        /\ Goto(i, "restore")
        /\ refs' = IF sameBase THEN refs - 1 ELSE refs
        /\ unloaded' = (unloaded \/ refs' = 0)
    BY <1>12 DEF ReturnDlclose, Returned, After, Remote
  <2>2. /\ pc' \in [Injectors -> Points]
        /\ \A j \in Injectors : pc'[j] = IF j = i THEN "restore" ELSE pc[j]
    BY <1>1, <2>1, GotoMoves DEF Points
  <2>3. refs > 0
    BY <2>1 DEF IInv, Opened
  <2>4. refs' \in Nat
    BY <1>1, <2>1, <2>3, SMT
  <2>5. TypeOK'
    BY <1>1, <2>1, <2>2, <2>4, Zenon DEF TypeOK, Points
  <2>6. Tracing' /\ Opened'
    <3>1. sameBase \/ refs' = refs
      BY <2>1
    <3> QED
      BY <2>1, <2>2, SMT DEF IInv, Tracing, Opened
  <2>7. Registers'
    BY <2>1, <2>2, SMT DEF IInv, Registers, Excused, Remote
  <2>8. OnlyOne' /\ NoneEarly' /\ StaysMapped'
    <3>1. unloaded => unloaded'
      BY <2>1, Zenon
    <3>2. ~unloaded' => refs' # 0
      BY <2>1, Zenon
    <3>3. StaysMapped'
      BY <2>4, <3>2, SMT DEF StaysMapped
    <3> QED
      BY <2>1, <2>2, <3>1, <3>3, SMT DEF IInv, OnlyOne, NoneEarly, AtWork, Early
  <2>9. SecondEntryNeedsOverlap' /\ Servers' /\ LetGoAsFound'
    BY <2>1, Zenon DEF IInv, SecondEntryNeedsOverlap, Servers, LetGoAsFound
  <2> QED
    BY <2>5, <2>6, <2>7, <2>8, <2>9 DEF IInv
<1>13. CASE DlcloseHangs(i)
  <2>1. /\ UNCHANGED <<lib, sameBase, target, running, orig, ret, history>>
        /\ pc[i] = "dlclose" /\ tracer = i /\ Goto(i, "hung")
    BY <1>13 DEF DlcloseHangs
  <2>2. /\ pc' \in [Injectors -> Points]
        /\ \A j \in Injectors : pc'[j] = IF j = i THEN "hung" ELSE pc[j]
    BY <1>1, <2>1, GotoMoves DEF Points
  <2>3. TypeOK'
    BY <1>1, <2>1, <2>2, Zenon DEF TypeOK, Points
  <2>4. Tracing' /\ Opened' /\ Registers'
    BY <2>1, <2>2, SMT DEF IInv, Tracing, Opened, Registers, Excused
  <2>5. OnlyOne' /\ NoneEarly'
    BY <2>1, <2>2, SMT DEF IInv, OnlyOne, NoneEarly, AtWork, Early
  <2>6. /\ StaysMapped' /\ SecondEntryNeedsOverlap' /\ Servers'
        /\ LetGoAsFound'
    BY <2>1, Zenon DEF IInv, StaysMapped, SecondEntryNeedsOverlap, Servers,
                       LetGoAsFound
  <2> QED
    BY <2>3, <2>4, <2>5, <2>6 DEF IInv
<1>14. CASE Restore(i)
  <2>1. /\ UNCHANGED <<lib, sameBase, alive, tracer, refs, pending, listening,
                       running, orig, ret, history>>
        /\ pc[i] = "restore" /\ Goto(i, "detach")
        /\ regs' = IF tracer = i THEN orig[i] ELSE regs
    BY <1>14 DEF Restore
  <2>2. /\ pc' \in [Injectors -> Points]
        /\ \A j \in Injectors : pc'[j] = IF j = i THEN "detach" ELSE pc[j]
    BY <1>1, <2>1, GotoMoves DEF Points
  <2>3. TypeOK'
    BY <1>1, <2>1, <2>2, Zenon DEF TypeOK, Points
  <2>4. Tracing' /\ Opened'
    BY <2>1, <2>2, SMT DEF IInv, Tracing, Opened
  <2>5. Registers'
    <3>1. tracer = i => orig[i] = "own" \/ Excused
      BY <2>1, SMT DEF IInv, Registers, Remote
    <3> QED
      BY <2>1, <2>2, <3>1, SMT DEF IInv, Registers, Excused
  <2>6. OnlyOne' /\ NoneEarly'
    BY <2>1, <2>2, SMT DEF IInv, OnlyOne, NoneEarly, AtWork, Early
  <2>7. StaysMapped' /\ SecondEntryNeedsOverlap' /\ Servers'
    BY <2>1, Zenon DEF IInv, StaysMapped, SecondEntryNeedsOverlap, Servers
  <2>8. LetGoAsFound'
    BY <1>1, <2>1, Zenon DEF IInv, LetGoAsFound
  <2> QED
    BY <2>3, <2>4, <2>5, <2>6, <2>7, <2>8 DEF IInv
<1>15. CASE Detach(i)
  <2>1. tracer = i => regs = "own" \/ Excused
    BY <1>15, SMT DEF Detach, IInv, Registers, Remote
  <2> QED
    BY <1>15, <2>1, ExitStep DEF Detach
<1> QED
  BY <1>2, <1>3, <1>4, <1>5, <1>6, <1>7, <1>8, <1>9, <1>10, <1>11, <1>12,
     <1>13, <1>14, <1>15 DEF Inject

(* The end of the application, whatever brought it about. *)
LEMMA DiesStep ==
  ASSUME IInv, Dies, UNCHANGED <<lib, sameBase, injector, entries, overlap,
                                 unthreaded, unloaded>>,
         disturbed' \in BOOLEAN
  PROVE  IInv'
<1> USE DEF injector, Dies
<1>1. TypeOK /\ None \notin Injectors /\ entries \in Nat
  BY InjectorAssumption DEF IInv, TypeOK
<1>2. 0 \in Nat /\ 0 <= entries
  BY <1>1, SMT
<1>3. TypeOK'
  BY <1>1, <1>2, Zenon DEF TypeOK
<1>4. Tracing' /\ Opened' /\ Registers'
  BY <1>1, Zenon DEF Tracing, Opened, Registers
<1>5. OnlyOne' /\ SecondEntryNeedsOverlap'
  BY Zenon DEF IInv, OnlyOne, AtWork, SecondEntryNeedsOverlap
<1>6. StaysMapped' /\ NoneEarly' /\ LetGoAsFound'
  BY Zenon DEF StaysMapped, NoneEarly, LetGoAsFound
<1>7. Servers'
  BY <1>2, Zenon DEF Servers
<1> QED
  BY <1>3, <1>4, <1>5, <1>6, <1>7 DEF IInv

(* The death of an injector frees the thread as it is. *)
LEMMA KillStep ==
  ASSUME IInv, NEW i \in Injectors, KillInjector(i)
  PROVE  IInv'
<1>1. /\ UNCHANGED <<lib, sameBase, alive, regs, refs, pending, listening, orig,
                     ret, entries, overlap, unthreaded, unloaded>>
      /\ Goto(i, "killed") /\ running' = running \ {i}
      /\ tracer' = IF tracer = i THEN None ELSE tracer
      /\ disturbed' = TRUE
      /\ None \notin Injectors
  BY InjectorAssumption DEF KillInjector
<1>2. /\ pc' \in [Injectors -> Points]
      /\ \A j \in Injectors : pc'[j] = IF j = i THEN "killed" ELSE pc[j]
  BY <1>1, GotoMoves DEF IInv, Points
<1>3. TypeOK'
  BY <1>1, <1>2, Zenon DEF IInv, TypeOK, Points
<1>4. Tracing' /\ Opened'
  BY <1>1, <1>2, SMT DEF IInv, Tracing, Opened
<1>5. OnlyOne' /\ NoneEarly'
  BY <1>1, <1>2, SMT DEF IInv, OnlyOne, NoneEarly, AtWork, Early
<1>6. StaysMapped' /\ SecondEntryNeedsOverlap' /\ Servers'
  BY <1>1, Zenon DEF IInv, StaysMapped, SecondEntryNeedsOverlap, Servers
<1>7. Registers' /\ LetGoAsFound'
  BY <1>1, Zenon DEF Registers, LetGoAsFound, Excused
<1> QED
  BY <1>3, <1>4, <1>5, <1>6, <1>7 DEF IInv

(* A thread of hook_entry starts its server. *)
LEMMA StartStep ==
  ASSUME IInv, StartServer
  PROVE  IInv'
<1>1. CASE listening
  <2>1. disturbed' \in BOOLEAN
    BY DEF StartServer, history, IInv, TypeOK
  <2> QED
    BY <1>1, <2>1, DiesStep DEF StartServer, history
<1>2. CASE ~listening
  <2>1. /\ UNCHANGED <<lib, sameBase, alive, tracer, regs, refs, injector,
                       history>>
        /\ listening' = TRUE /\ pending' = pending - 1 /\ pending > 0
    BY <1>2 DEF StartServer
  <2>2. pending \in Nat /\ entries \in Nat
    BY DEF IInv, TypeOK
  <2>3. pending' \in Nat /\ Servers'
    BY <2>1, <2>2, SMT DEF IInv, Servers, history
  <2>4. TypeOK'
    BY <2>1, <2>3, Zenon DEF IInv, TypeOK, injector, history
  <2>5. Tracing' /\ Opened' /\ Registers' /\ OnlyOne' /\ NoneEarly'
    BY <2>1, Zenon DEF IInv, Tracing, Opened, Registers, Excused, OnlyOne,
                       NoneEarly, AtWork, Early, injector, history
  <2>6. StaysMapped' /\ SecondEntryNeedsOverlap' /\ LetGoAsFound'
    BY <2>1, Zenon DEF IInv, StaysMapped, SecondEntryNeedsOverlap,
                       LetGoAsFound, history
  <2> QED
    BY <2>3, <2>4, <2>5, <2>6 DEF IInv
<1> QED
  BY <1>1, <1>2

LEMMA IInvInit == Init => IInv
<1> SUFFICES ASSUME Init PROVE IInv
  OBVIOUS
<1>1. None \notin Injectors /\ \A i \in Injectors : pc[i] = "find"
  BY InjectorAssumption DEF Init
<1>2. TypeOK
  BY InjectorAssumption DEF Init, TypeOK
<1>3. Tracing /\ Opened /\ Registers
  BY <1>1 DEF Init, Tracing, Opened, Registers
<1>4. OnlyOne /\ NoneEarly
  BY <1>1 DEF Init, OnlyOne, NoneEarly, AtWork, Early
<1>5. StaysMapped /\ SecondEntryNeedsOverlap /\ Servers /\ LetGoAsFound
  BY DEF Init, StaysMapped, SecondEntryNeedsOverlap, Servers, LetGoAsFound
<1> QED
  BY <1>2, <1>3, <1>4, <1>5 DEF IInv

LEMMA IInvStep == IInv /\ [Next]_vars => IInv'
<1> SUFFICES ASSUME IInv, [Next]_vars PROVE IInv'
  OBVIOUS
<1>1. CASE StartServer
  BY <1>1, StartStep
<1>2. CASE Fault \/ KillTarget
  <2>1. disturbed' \in BOOLEAN
    BY <1>2 DEF Fault, KillTarget, history, IInv, TypeOK
  <2> QED
    BY <1>2, <2>1, DiesStep DEF Fault, KillTarget, history
<1>3. ASSUME NEW i \in Injectors, Inject(i) PROVE IInv'
  BY <1>3, InjectStep
<1>4. ASSUME NEW i \in Injectors, KillInjector(i) PROVE IInv'
  BY <1>4, KillStep
<1>5. CASE UNCHANGED vars
  BY <1>5, Zenon DEF vars, target, injector, history, IInv, TypeOK, Tracing,
     Opened, Registers, Excused, OnlyOne, NoneEarly, AtWork, Early,
     StaysMapped, SecondEntryNeedsOverlap, Servers, LetGoAsFound
<1> QED
  BY <1>1, <1>2, <1>3, <1>4, <1>5 DEF Next

LEMMA IInvAlways == Spec => []IInv
<1>1. Init => IInv
  BY IInvInit
<1>2. IInv /\ [Next]_vars => IInv'
  BY IInvStep
<1> QED
  BY <1>1, <1>2, PTL DEF Spec
-------------------------------------------------------------------------------
(* No step of an injector itself ends the application, or forgets. *)
LEMMA InjectSpares ==
  ASSUME NEW i \in Injectors, Inject(i) \/ KillInjector(i)
  PROVE  /\ UNCHANGED <<lib, sameBase, alive>>
         /\ overlap => overlap'
         /\ disturbed => disturbed'
         /\ unloaded => unloaded'
<1> USE DEF target, history
<1>1. CASE KillInjector(i)
  BY <1>1 DEF KillInjector
<1>2. CASE Find(i) \/ Attach(i) \/ GetRegs(i) \/ Call(i) \/ CallFails(i)
  BY <1>2 DEF Find, Attach, GetRegs, Call, CallFails
<1>3. CASE Check(i)
  BY <1>3 DEF Check
<1>4. CASE ReturnPlain(i) \/ ReturnDlopen(i) \/ DlopenFails(i)
  BY <1>4 DEF ReturnPlain, ReturnDlopen, DlopenFails
<1>5. CASE ReturnHookEntry(i) \/ DlcloseHangs(i)
  BY <1>5 DEF ReturnHookEntry, DlcloseHangs
<1>7. CASE ReturnDlclose(i)
  BY <1>7, Zenon DEF ReturnDlclose
<1>6. CASE HangEnds(i) \/ Restore(i) \/ Detach(i)
  BY <1>6 DEF HangEnds, Restore, Detach
<1> QED
  BY <1>1, <1>2, <1>3, <1>4, <1>5, <1>6, <1>7 DEF Inject

(* The one hook_entry there is excludes a second server on the first one's  *)
(* port; the library that stays and the registers that are put back exclude *)
(* a thread that runs where nothing is mapped.                              *)
LEMMA NoneDies ==
  ASSUME IInv, lib # "unloadable", ~unloaded, ~overlap, ~disturbed, alive
  PROVE  /\ StartServer => alive'
         /\ ~Fault
<1>1. entries \in Nat /\ pending \in Nat /\ refs \in Nat
  BY DEF IInv, TypeOK
<1>2. ~(entries > 1)
  BY DEF IInv, SecondEntryNeedsOverlap
<1>3. pending > 0 => ~listening
  BY <1>1, <1>2, SMT DEF IInv, Servers
<1>4. pending > 0 \/ listening => refs > 0
  BY <1>1, SMT DEF IInv, Servers, StaysMapped
<1>5. ~(tracer = None /\ regs = "scratch")
  BY DEF IInv, LetGoAsFound
<1>6. StartServer => alive'
  BY <1>3, Zenon DEF StartServer
<1>7. ~Fault
  BY <1>4, <1>5, Zenon DEF Fault, Mapped
<1> QED
  BY <1>6, <1>7

LEMMA SurvivesStep ==
  ASSUME IInv, SurvivesInjection, [Next]_vars
  PROVE  SurvivesInjection'
<1>1. CASE StartServer \/ Fault
  <2>1. UNCHANGED <<lib, overlap, disturbed, unloaded>>
    BY <1>1 DEF StartServer, Fault, history
  <2> QED
    BY <1>1, <2>1, NoneDies, Zenon DEF SurvivesInjection
<1>2. CASE KillTarget
  BY <1>2 DEF SurvivesInjection, KillTarget
<1>3. ASSUME NEW i \in Injectors, Inject(i) \/ KillInjector(i)
      PROVE  SurvivesInjection'
  BY <1>3, InjectSpares DEF SurvivesInjection
<1>4. CASE UNCHANGED vars
  BY <1>4 DEF vars, target, history, SurvivesInjection
<1> QED
  BY <1>1, <1>2, <1>3, <1>4 DEF Next
-------------------------------------------------------------------------------
(* The state stays in its types: the library is never closed more often     *)
(* than it was opened (refs), whatever address dlclose is called at.        *)
THEOREM TypeCorrect == Spec => []TypeOK
<1>1. IInv => TypeOK
  BY DEF IInv
<1> QED
  BY <1>1, IInvAlways, PTL

(* hook_entry runs a second time in one application only if an injector     *)
(* checked /proc/<pid>/maps while another was at work, or after dlclose     *)
(* unmapped the library: the check keeps every other one out.               *)
THEOREM SecondEntryNeedsOverlapCorrect == Spec => []SecondEntryNeedsOverlap
<1>1. IInv => SecondEntryNeedsOverlap
  BY DEF IInv
<1> QED
  BY <1>1, IInvAlways, PTL

(* The borrowed thread is let go with the registers ptrace_getregs found,   *)
(* but by an injector that is killed, or that leaves with "goto exit" after *)
(* a dlopen that failed.                                                    *)
THEOREM LetGoAsFoundCorrect == Spec => []LetGoAsFound
<1>1. IInv => LetGoAsFound
  BY DEF IInv
<1> QED
  BY <1>1, IInvAlways, PTL

(* The application survives the injection of a library that loads, by any   *)
(* number of injectors, unless somebody is killed, two of them overlap, or  *)
(* dlclose has taken the library from under its server.                     *)
THEOREM SurvivesInjectionCorrect == Spec => []SurvivesInjection
<1>1. Init => SurvivesInjection
  BY DEF Init, SurvivesInjection
<1>2. IInv /\ SurvivesInjection /\ [Next]_vars => SurvivesInjection'
  BY SurvivesStep
<1> QED
  BY <1>1, <1>2, IInvAlways, PTL DEF Spec
===============================================================================
