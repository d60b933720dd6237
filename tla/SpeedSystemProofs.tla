--------------------------- MODULE SpeedSystemProofs --------------------------
(***************************************************************************)
(* The theorem about the whole system, from the lemmas about its parts:    *)
(* the inductive invariant of Injector, and the parts of SpeedServer's     *)
(* that hold whatever ends the application.                                *)
(***************************************************************************)
EXTENDS SpeedSystem, TLAPS

IP == INSTANCE InjectorProofs WITH
        pc <- ipc, alive <- Alive, listening <- Listening
SP == INSTANCE SpeedServerProofs

(* What is blamed on the injectors, or on those who kill. *)
Blamed == disturbed \/ overlap \/ unloaded \/ lib = "unloadable"

Serves == SP!TypeOK /\ SP!Serving /\ SP!SocketInv /\ SP!PeerInv

IInv == IP!IInv /\ Serves /\ (Blamed \/ SP!DiesOnlyOfReset)
-------------------------------------------------------------------------------
LEMMA Assumptions == IP!InjectorAssumption /\ SP!ServerAssumption
BY SystemAssumption DEF IP!None

(* The steps of the parts are those their lemmas are about. *)
LEMMA SameInjector ==
  /\ I!StartServer <=> IP!StartServer
  /\ I!Dies <=> IP!Dies
  /\ I!Fault <=> IP!Fault
  /\ I!KillTarget <=> IP!KillTarget
  /\ I!Init <=> IP!Init
BY Zenon DEF I!StartServer, I!Dies, I!Fault, I!KillTarget, I!Init, I!Mapped,
   I!None, I!injector, I!history,
   IP!StartServer, IP!Dies, IP!Fault, IP!KillTarget, IP!Init, IP!Mapped,
   IP!None, IP!injector, IP!history

LEMMA SameInject ==
  ASSUME NEW i \in Injectors
  PROVE  /\ I!Inject(i) <=> IP!Inject(i)
         /\ I!KillInjector(i) <=> IP!KillInjector(i)
<1> USE DEF I!Goto, I!Exit, I!None, I!target, I!injector, I!history, I!Mapped,
            I!AtWork, I!Remote, I!After, I!Returned, I!LeftAs,
            IP!Goto, IP!Exit, IP!None, IP!target, IP!injector, IP!history,
            IP!Mapped, IP!AtWork, IP!Remote, IP!After, IP!Returned, IP!LeftAs
<1>1. I!Find(i) <=> IP!Find(i)
  BY Zenon DEF I!Find, IP!Find
<1>2. I!Check(i) <=> IP!Check(i)
  BY Zenon DEF I!Check, IP!Check
<1>3. I!Attach(i) <=> IP!Attach(i)
  BY Zenon DEF I!Attach, IP!Attach
<1>4. I!GetRegs(i) <=> IP!GetRegs(i)
  BY Zenon DEF I!GetRegs, IP!GetRegs
<1>5. I!Call(i) <=> IP!Call(i)
  BY Zenon DEF I!Call, IP!Call
<1>6. I!CallFails(i) <=> IP!CallFails(i)
  BY Zenon DEF I!CallFails, IP!CallFails
<1>7. I!ReturnPlain(i) <=> IP!ReturnPlain(i)
  BY Zenon DEF I!ReturnPlain, IP!ReturnPlain
<1>8. I!ReturnDlopen(i) <=> IP!ReturnDlopen(i)
  BY Zenon DEF I!ReturnDlopen, IP!ReturnDlopen
<1>9. I!DlopenFails(i) <=> IP!DlopenFails(i)
  BY Zenon DEF I!DlopenFails, IP!DlopenFails
<1>10. I!ReturnHookEntry(i) <=> IP!ReturnHookEntry(i)
  BY Zenon DEF I!ReturnHookEntry, IP!ReturnHookEntry
<1>11. I!ReturnDlclose(i) <=> IP!ReturnDlclose(i)
  BY Zenon DEF I!ReturnDlclose, IP!ReturnDlclose
<1>12. I!DlcloseHangs(i) <=> IP!DlcloseHangs(i)
  BY Zenon DEF I!DlcloseHangs, IP!DlcloseHangs
<1>13. I!HangEnds(i) <=> IP!HangEnds(i)
  BY Zenon DEF I!HangEnds, IP!HangEnds
<1>14. I!Restore(i) <=> IP!Restore(i)
  BY Zenon DEF I!Restore, IP!Restore
<1>15. I!Detach(i) <=> IP!Detach(i)
  BY Zenon DEF I!Detach, IP!Detach
<1>16. I!KillInjector(i) <=> IP!KillInjector(i)
  BY Zenon DEF I!KillInjector, IP!KillInjector
<1> QED
  BY <1>1, <1>2, <1>3, <1>4, <1>5, <1>6, <1>7, <1>8, <1>9, <1>10, <1>11,
     <1>12, <1>13, <1>14, <1>15, <1>16, Zenon DEF I!Inject, IP!Inject

LEMMA SameServer ==
  /\ S!Die <=> SP!Die
  /\ S!Calls = SP!Calls
  /\ S!Init <=> SP!Init
  /\ \/ S!StartIPCServer \/ S!Accept \/ S!RecvText \/ S!RecvClosed
     \/ S!RecvFails \/ S!SetTimeScale \/ S!Send \/ S!HostCallFails
     => SP!Next
<1> USE DEF S!Die, S!None, S!server, S!client, S!net, S!history, S!Calls,
            SP!Die, SP!None, SP!server, SP!client, SP!net, SP!history, SP!Calls
<1>1. S!Init <=> SP!Init
  BY Zenon DEF S!Init, SP!Init
<1>2. S!StartIPCServer => SP!StartIPCServer
  BY Zenon DEF S!StartIPCServer, SP!StartIPCServer
<1>3. S!Accept => SP!Accept
  BY Zenon DEF S!Accept, SP!Accept
<1>4. S!RecvText => SP!RecvText
  BY Zenon DEF S!RecvText, SP!RecvText
<1>5. S!RecvClosed => SP!RecvClosed
  BY Zenon DEF S!RecvClosed, SP!RecvClosed
<1>6. S!RecvFails => SP!RecvFails
  BY Zenon DEF S!RecvFails, SP!RecvFails
<1>7. S!SetTimeScale => SP!SetTimeScale
  BY Zenon DEF S!SetTimeScale, SP!SetTimeScale, S!NewScale, SP!NewScale,
               S!SlowTable, SP!SlowTable, S!CDiv, SP!CDiv
<1>8. S!Send => SP!Send
  BY Zenon DEF S!Send, SP!Send
<1>9. S!HostCallFails => SP!HostCallFails
  BY Zenon DEF S!HostCallFails, SP!HostCallFails
<1> QED
  BY <1>1, <1>2, <1>3, <1>4, <1>5, <1>6, <1>7, <1>8, <1>9, Zenon
     DEF SP!Next, SP!Server

LEMMA SameClient ==
  ASSUME NEW p \in Clients, S!upspeed(p) \/ S!InCall(p) \/ S!Kill(p)
  PROVE  SP!Next /\ at' = at
<1> USE DEF S!server, S!client, S!net, S!history, S!Calls, S!Call, S!Returns,
            S!Listens,
            SP!server, SP!client, SP!net, SP!history, SP!Calls, SP!Call,
            SP!Returns, SP!Listens
<1>1. S!upspeed(p) => SP!upspeed(p) /\ at' = at
  BY Zenon DEF S!upspeed, SP!upspeed
<1>2. S!Connect(p) => SP!Connect(p) /\ at' = at
  BY Zenon DEF S!Connect, SP!Connect
<1>3. S!ConnectFails(p) => SP!ConnectFails(p) /\ at' = at
  BY Zenon DEF S!ConnectFails, SP!ConnectFails
<1>4. S!SendText(p) => SP!SendText(p) /\ at' = at
  BY Zenon DEF S!SendText, SP!SendText
<1>5. S!RecvEcho(p) => SP!RecvEcho(p) /\ at' = at
  BY Zenon DEF S!RecvEcho, SP!RecvEcho
<1>6. S!RecvEchoFails(p) => SP!RecvEchoFails(p) /\ at' = at
  BY Zenon DEF S!RecvEchoFails, SP!RecvEchoFails
<1>7. S!Kill(p) => SP!Kill(p) /\ at' = at
  BY Zenon DEF S!Kill, SP!Kill
<1> QED
  BY <1>1, <1>2, <1>3, <1>4, <1>5, <1>6, <1>7, Zenon
     DEF SP!Next, S!InCall, SP!InCall
-------------------------------------------------------------------------------
(* A step of the server's thread or of a client is one of SpeedServer.      *)
LEMMA ServeStep ==
  ASSUME Serves, SP!Next
  PROVE  Serves' /\ (SP!DiesOnlyOfReset => SP!DiesOnlyOfReset')
<1>1. [SP!Next]_(SP!vars)
  OBVIOUS
<1>2. SP!ServerAssumption
  BY Assumptions
<1>3. SP!TypeOK' /\ SP!Serving' /\ SP!SocketInv' /\ SP!PeerInv'
  BY <1>1, <1>2, SP!TypeStep, SP!ServingStep, SP!SocketStep, SP!PeerStep
     DEF Serves
<1>4. SP!DiesOnlyOfReset => SP!DiesOnlyOfReset'
  BY <1>1, <1>2, SP!DeathStep DEF Serves
<1> QED
  BY <1>3, <1>4 DEF Serves

(* The end of the process leaves the clients as they are. *)
LEMMA ProcessEndsStep ==
  ASSUME Serves, ProcessEnds
  PROVE  Serves'
<1>1. /\ at' = "dead" /\ queue' = <<>> /\ sock' = SP!None
      /\ UNCHANGED <<g_times, pc, n, fds, arg, result, peer, up, down, applied,
                     failed>>
  BY SameServer DEF ProcessEnds, SP!Die
<1>2. queue' \in Seq(SP!Calls) /\ Len(queue') <= Backlog
  BY <1>1, SystemAssumption, SMT
<1>3. SP!TypeOK'
  BY <1>1, <1>2, Zenon DEF Serves, SP!TypeOK
<1>4. SP!Serving' /\ SP!PeerInv' /\ SP!SocketInv'
  BY <1>1, Zenon DEF Serves, SP!Serving, SP!PeerInv, SP!SocketInv, SP!Unreturned,
     SP!Unconnected, SP!Connected, SP!ToCome, SP!Current, SP!Failed
<1> QED
  BY <1>3, <1>4 DEF Serves

(* A step that the injectors do not see. *)
LEMMA InjectorKeeps ==
  ASSUME IP!IInv, UNCHANGED injecting, Alive' = Alive, Listening' = Listening
  PROVE  IP!IInv' /\ (Blamed => Blamed')
<1>1. UNCHANGED IP!vars
  BY DEF injecting, IP!vars, IP!target, IP!injector, IP!history
<1>2. IP!IInv'
  BY <1>1, Assumptions, IP!IInvStep
<1>3. Blamed => Blamed'
  BY DEF injecting, Blamed
<1> QED
  BY <1>2, <1>3

(* A death that is the server's doing. *)
LEMMA MappingsEndStep ==
  ASSUME IP!IInv, MappingsEnd
  PROVE  IP!IInv' /\ (Blamed => Blamed')
<1>1. /\ IP!Dies /\ disturbed' \in BOOLEAN
      /\ UNCHANGED <<lib, sameBase, IP!injector, entries, overlap, unthreaded,
                     unloaded>>
  BY SameInjector DEF MappingsEnd, IP!injector, IP!IInv, IP!TypeOK
<1>2. IP!IInv'
  BY <1>1, Assumptions, IP!DiesStep
<1>3. Blamed => Blamed'
  BY DEF MappingsEnd, Blamed
<1> QED
  BY <1>2, <1>3

(* A death that only the blamed can bring about. *)
LEMMA SystemFaultStep ==
  ASSUME IInv, Alive, ProcessEnds, I!StartServer \/ I!Fault
  PROVE  IInv'
<1>1. IP!StartServer \/ IP!Fault
  BY SameInjector
<1>2. IP!IInv'
  <2>1. [IP!Next]_(IP!vars)
    BY <1>1 DEF IP!Next
  <2> QED
    BY <2>1, Assumptions, IP!IInvStep DEF IInv
<1>3. ~Alive' /\ UNCHANGED <<lib, overlap, disturbed, unloaded>>
  BY <1>1 DEF ProcessEnds, S!Die, Alive, IP!StartServer, IP!Fault, IP!history
<1>4. Blamed'
  <2> SUFFICES ASSUME ~Blamed PROVE FALSE
    BY <1>3 DEF Blamed
  <2> QED
    BY <1>1, <1>3, Assumptions, IP!NoneDies DEF IInv, Blamed
<1> QED
  BY <1>2, <1>4, ProcessEndsStep DEF IInv

LEMMA IInvStep == IInv /\ [Next]_vars => IInv'
<1> SUFFICES ASSUME IInv, [Next]_vars PROVE IInv'
  OBVIOUS
<1> USE DEF IInv
<1>1. CASE ServerStarts
  <2>1. Serves' /\ (SP!DiesOnlyOfReset => SP!DiesOnlyOfReset')
    BY <1>1, SameServer, ServeStep DEF ServerStarts
  <2>2. IP!IInv' /\ (Blamed => Blamed')
    <3>1. CASE Alive'
      <4>1. IP!StartServer
        BY <1>1, <3>1, SameInjector DEF ServerStarts
      <4>2. Blamed => Blamed'
        BY <4>1 DEF IP!StartServer, IP!history, Blamed
      <4> QED
        BY <4>1, <4>2, Assumptions, IP!StartStep
    <3>2. CASE ~Alive'
      BY <1>1, <3>2, MappingsEndStep DEF ServerStarts
    <3> QED
      BY <3>1, <3>2
  <2> QED
    BY <2>1, <2>2
<1>2. CASE SecondServer
  <2>1. Alive
    BY <1>2 DEF SecondServer, Listening, Alive
  <2> QED
    BY <1>2, <2>1, SystemFaultStep DEF SecondServer
<1>3. CASE Serve
  <2>1. Serves' /\ (SP!DiesOnlyOfReset => SP!DiesOnlyOfReset')
    BY <1>3, SameServer, ServeStep DEF Serve
  <2>2. Alive' = Alive /\ Listening' = Listening
    BY <1>3 DEF Serve, Alive, Listening, S!Accept, S!RecvText, S!RecvClosed,
                S!SetTimeScale, S!Send
  <2> QED
    BY <1>3, <2>1, <2>2, InjectorKeeps DEF Serve
<1>4. CASE ServeFails \/ HostCallFails
  <2>1. Serves' /\ (SP!DiesOnlyOfReset => SP!DiesOnlyOfReset')
    BY <1>4, SameServer, ServeStep DEF ServeFails, HostCallFails
  <2> QED
    BY <1>4, <2>1, MappingsEndStep DEF ServeFails, HostCallFails
<1>5. CASE Fault
  <2>1. Alive
    BY <1>5 DEF Fault, I!Fault
  <2> QED
    BY <1>5, <2>1, SystemFaultStep DEF Fault
<1>6. CASE KillTarget
  <2>1. IP!KillTarget
    BY <1>6, SameInjector DEF KillTarget
  <2>2. [IP!Next]_(IP!vars)
    BY <2>1 DEF IP!Next
  <2>3. IP!IInv'
    BY <2>2, Assumptions, IP!IInvStep
  <2>4. Blamed'
    BY <2>1 DEF IP!KillTarget, Blamed
  <2> QED
    BY <1>6, <2>3, <2>4, ProcessEndsStep DEF KillTarget
<1>7. ASSUME NEW i \in Injectors, Inject(i) \/ KillInjector(i) PROVE IInv'
  <2>1. (IP!Inject(i) \/ IP!KillInjector(i)) /\ UNCHANGED serving
    BY <1>7, SameInject DEF Inject, KillInjector
  <2>2. IP!IInv'
    BY <2>1, Assumptions, IP!InjectStep, IP!KillStep
  <2>3. Blamed => Blamed'
    BY <2>1, Assumptions, IP!InjectSpares DEF Blamed
  <2>4. UNCHANGED SP!vars
    BY <2>1 DEF serving, SP!vars, SP!server, SP!client, SP!net, SP!history
  <2>5. Serves'
    BY <2>4, Assumptions, SP!TypeStep, SP!ServingStep, SP!SocketStep,
       SP!PeerStep DEF Serves
  <2>6. SP!DiesOnlyOfReset => SP!DiesOnlyOfReset'
    BY <2>4, Assumptions, SP!DeathStep DEF Serves
  <2> QED
    BY <2>2, <2>3, <2>5, <2>6
<1>8. ASSUME NEW p \in Clients, Calls(p) \/ InCall(p) \/ KillClient(p)
      PROVE  IInv'
  <2>1. SP!Next /\ at' = at /\ UNCHANGED injecting
    BY <1>8, SameClient DEF Calls, InCall, KillClient
  <2>2. Alive' = Alive /\ Listening' = Listening
    BY <2>1 DEF Alive, Listening
  <2> QED
    BY <2>1, <2>2, ServeStep, InjectorKeeps
<1>9. CASE UNCHANGED vars
  <2>1. UNCHANGED injecting /\ UNCHANGED serving
    BY <1>9 DEF vars
  <2>2. UNCHANGED SP!vars /\ Alive' = Alive /\ Listening' = Listening
    BY <2>1 DEF serving, SP!vars, SP!server, SP!client, SP!net, SP!history,
                Alive, Listening
  <2>3. Serves' /\ (SP!DiesOnlyOfReset => SP!DiesOnlyOfReset')
    BY <2>2, Assumptions, SP!TypeStep, SP!ServingStep, SP!SocketStep,
       SP!PeerStep, SP!DeathStep DEF Serves
  <2> QED
    BY <2>1, <2>2, <2>3, InjectorKeeps
<1> QED
  BY <1>1, <1>2, <1>3, <1>4, <1>5, <1>6, <1>7, <1>8, <1>9
     DEF Next, Application

LEMMA IInvInit == Init => IInv
<1> SUFFICES ASSUME Init PROVE IInv
  OBVIOUS
<1>1. IP!IInv
  BY SameInjector, Assumptions, IP!IInvInit DEF Init
<1>2. SP!IInv
  BY SameServer, Assumptions, SP!IInvInit DEF Init
<1> QED
  BY <1>1, <1>2 DEF IInv, Serves, SP!IInv

(* With injectors and callers of upspeed in any number, the application     *)
(* ends only if somebody was killed, two injectors overlapped, dlclose      *)
(* unmapped the library, the library does not load, bind or listen failed,  *)
(* accept or recv failed for a reason of its own, or a caller died with its *)
(* echo unread.  This holds of the injection too, before anybody calls.     *)
THEOREM ApplicationSurvivesCorrect == Spec => []ApplicationSurvives
<1>1. Init => IInv
  BY IInvInit
<1>2. IInv /\ [Next]_vars => IInv'
  BY IInvStep
<1>3. IInv => ApplicationSurvives
  BY SameServer DEF IInv, Blamed, ApplicationSurvives, Alive,
                    SP!DiesOnlyOfReset
<1> QED
  BY <1>1, <1>2, <1>3, PTL DEF Spec
===============================================================================
