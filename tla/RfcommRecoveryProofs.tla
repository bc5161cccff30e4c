------------------------ MODULE RfcommRecoveryProofs ------------------------
(***************************************************************************)
(* Theorems about RfcommRecovery for any number of callers, workers,       *)
(* processes and rounds, proved by TLAPS.                                  *)
(***************************************************************************)
EXTENDS RfcommRecovery, TLAPS

(* Names of one expression each, expanded everywhere. *)
USE DEF Killed, GateFree, DevFree, RoundsLeft

-----------------------------------------------------------------------------
(* Type correctness *)

LEMMA DevMembers == CmdDev \in Dev /\ DataDev \in Dev
  BY DEF Dev

LEMMA FirstRound == 1 \in 1..MaxRounds
  BY RoundsAssumption

(* A listener start keeps the three process variables well typed. *)
LEMMA StartListenerType ==
  ASSUME NEW d \in Dev, TypeOK, StartListener(d)
  PROVE  /\ rfcomm_procs' \in [Dev -> Pid \cup {None}]
         /\ pst' \in [Pid -> ProcState]
         /\ pdev' \in [Pid -> Dev \cup {None}]
  BY DEF StartListener, TypeOK, ProcState

(* The steps of one restart keep the types. *)
LEMMA RestartType ==
  ASSUME NEW t \in Runner, TypeOK, Restart(t)
  PROVE  TypeOK'
<1> USE DEF TypeOK, Goto, RunnerPc, procVars, gateVars, runnerVars
<1>1. CASE LockDev(t)        BY <1>1 DEF LockDev
<1>2. CASE StopDead(t)       BY <1>2 DEF StopDead
<1>3. CASE StopAlive(t)      BY <1>3 DEF StopAlive, Alive, ProcState
<1>4. CASE WaitTerminated(t) BY <1>4 DEF WaitTerminated
<1>5. CASE WaitKilled(t)     BY <1>5 DEF WaitKilled
<1>6. CASE PopAndRelease(t)  BY <1>6 DEF PopAndRelease, ProcState
<1>7. CASE RestartStart(t)
  <2>1. /\ rfcomm_procs' \in [Dev -> Pid \cup {None}]
        /\ pst' \in [Pid -> ProcState]
        /\ pdev' \in [Pid -> Dev \cup {None}]
    BY <1>7, StartListenerType DEF RestartStart
  <2>2. pc' \in [Runner -> RunnerPc] /\ dev' \in [Runner -> Dev]
    BY <1>7, DevMembers DEF RestartStart, CheckNext
  <2>3. QED BY <1>7, <2>1, <2>2 DEF RestartStart
<1>8. QED
  BY <1>1, <1>2, <1>3, <1>4, <1>5, <1>6, <1>7 DEF Restart

(* TypeOK: no interleaving of the threads of bt_init.py puts a value of    *)
(* the wrong kind into the handle table, the flag or a program counter.    *)
THEOREM TypeCorrect == Spec => []TypeOK
<1>1. Init => TypeOK
  <2> SUFFICES ASSUME Init PROVE TypeOK
    OBVIOUS
  <2>1. /\ boot \in BootStep /\ running \in BOOLEAN /\ gate \in Caller \cup {None}
        /\ cpc \in [Caller -> CallerPc]
        /\ devlock \in [Dev -> Runner \cup {None}]
        /\ rfcomm_procs \in [Dev -> Pid \cup {None}]
    BY DEF Init, BootStep, CallerPc
  <2>2. pst \in [Pid -> ProcState] /\ pdev \in [Pid -> Dev \cup {None}]
    BY DEF Init, ProcState
  <2>3. /\ pc \in [Runner -> RunnerPc] /\ dev \in [Runner -> Dev]
        /\ target \in [Runner -> Pid \cup {None}]
        /\ cmd_ok \in [Runner -> BOOLEAN] /\ round \in [Runner -> 1..MaxRounds]
    BY FirstRound, DevMembers DEF Init, RunnerPc
  <2>4. QED BY <2>1, <2>2, <2>3 DEF TypeOK
<1>2. TypeOK /\ [Next]_vars => TypeOK'
  <2> SUFFICES ASSUME TypeOK, [Next]_vars PROVE TypeOK'
    OBVIOUS
  <2> USE DEF TypeOK, Goto, procVars, gateVars, runnerVars
  <2>1. CASE BootKill
    BY <2>1 DEF BootKill, BootStep, ProcState, Serving
  <2>2. CASE BootStart
    <3>1. PICK d \in Dev : StartListener(d)
      BY <2>2, DevMembers DEF BootStart
    <3>2. QED
      BY <2>2, <3>1, StartListenerType DEF BootStart, BootStep
  <2>3. CASE Crash
    BY <2>3, FirstRound, DevMembers DEF Crash, BootStep, CallerPc, RunnerPc
  <2>4. ASSUME NEW p \in Pid, ProcessStep(p) PROVE TypeOK'
    BY <2>4 DEF ProcessStep, Connect, LinkDrop, Exit, Reap, ProcState
  <2>5. ASSUME NEW c \in Caller, TriggerEnter(c) \/ CallerStep(c) PROVE TypeOK'
    BY <2>5 DEF TriggerEnter, CallerStep, TriggerSkip, TriggerSeesIdle,
       TriggerAccept, TriggerSpawn, CallerPc, RunnerPc, Runner
  <2>6. ASSUME NEW w \in Worker, WorkerStep(w) PROVE TypeOK'
    <3> w \in Runner BY DEF Runner
    <3> USE DEF RunnerPc
    <3>1. CASE EnsureAlive(w)   BY <3>1, DevMembers DEF EnsureAlive, EnsureReturns
    <3>2. CASE EnsureDead(w)    BY <3>2 DEF EnsureDead
    <3>3. CASE EnsureRecheck(w)
      <4>1. Alive(dev[w]) \in BOOLEAN BY DEF Alive
      <4>2. QED BY <3>3, <4>1, DevMembers DEF EnsureRecheck, EnsureReturns
    <3>4. CASE NextRound(w)     BY <3>4, RoundsAssumption, DevMembers DEF NextRound
    <3>5. CASE WorkerFinish(w)  BY <3>5, FirstRound, DevMembers DEF WorkerFinish
    <3>6. CASE Restart(w)       BY <3>6, RestartType
    <3>7. QED
      BY <2>6, <3>1, <3>2, <3>3, <3>4, <3>5, <3>6 DEF WorkerStep
  <2>7. ASSUME NEW k \in Checker, CheckStart(k) \/ CheckerStep(k) PROVE TypeOK'
    <3> k \in Runner BY DEF Runner
    <3> USE DEF RunnerPc
    <3>1. CASE CheckStart(k) BY <3>1 DEF CheckStart
    <3>2. CASE CheckProbe(k) BY <3>2, DevMembers DEF CheckProbe, CheckNext
    <3>3. CASE CheckDrop(k)  BY <3>3 DEF CheckDrop
    <3>4. CASE Restart(k)    BY <3>4, RestartType
    <3>5. QED BY <2>7, <3>1, <3>2, <3>3, <3>4 DEF CheckerStep
  <2>8. CASE UNCHANGED vars
    BY <2>8 DEF vars
  <2>9. QED
    BY <2>1, <2>2, <2>3, <2>4, <2>5, <2>6, <2>7, <2>8 DEF Next
<1>3. QED
  BY <1>1, <1>2, PTL DEF Spec

-----------------------------------------------------------------------------
(* At most one recovery *)

FlightInv == TypeOK /\ GateDiscipline /\ OneRecovery

(* A restart moves one thread between labels other than "off", and touches *)
(* neither the gate nor the flag; only a checker leaves it for "off".      *)
LEMMA RestartMoves ==
  ASSUME NEW t \in Runner, TypeOK, Restart(t)
  PROVE  /\ pc[t] # "off"
         /\ t \in Worker => pc'[t] # "off"
         /\ \A s \in Runner : s # t => pc'[s] = pc[s]
         /\ UNCHANGED <<boot, running, gate, cpc>>
<1> USE DEF TypeOK, Goto, gateVars
<1>1. CASE LockDev(t)        BY <1>1 DEF LockDev
<1>2. CASE StopDead(t)       BY <1>2 DEF StopDead
<1>3. CASE StopAlive(t)      BY <1>3 DEF StopAlive
<1>4. CASE WaitTerminated(t) BY <1>4 DEF WaitTerminated
<1>5. CASE WaitKilled(t)     BY <1>5 DEF WaitKilled
<1>6. CASE PopAndRelease(t)  BY <1>6 DEF PopAndRelease
<1>7. CASE RestartStart(t)   BY <1>7 DEF RestartStart, CheckNext
<1>8. QED
  BY <1>1, <1>2, <1>3, <1>4, <1>5, <1>6, <1>7 DEF Restart

(* Until it finishes, a worker's step leaves the set of active workers and *)
(* everything the callers use as it is.                                    *)
LEMMA WorkerStaysActive ==
  ASSUME NEW w \in Worker, TypeOK, WorkerStep(w), ~WorkerFinish(w)
  PROVE  Active' = Active /\ UNCHANGED <<running, gate, cpc>>
<1> w \in Runner BY DEF Runner
<1> USE DEF TypeOK, Goto, gateVars
<1>1. /\ pc[w] # "off" /\ pc'[w] # "off"
      /\ \A s \in Runner : s # w => pc'[s] = pc[s]
      /\ UNCHANGED <<running, gate, cpc>>
  <2>1. CASE EnsureAlive(w)   BY <2>1 DEF EnsureAlive, EnsureReturns
  <2>2. CASE EnsureDead(w)    BY <2>2 DEF EnsureDead
  <2>3. CASE EnsureRecheck(w) BY <2>3 DEF EnsureRecheck, EnsureReturns
  <2>4. CASE NextRound(w)     BY <2>4 DEF NextRound
  <2>5. CASE Restart(w)       BY <2>5, RestartMoves
  <2>6. QED BY <2>1, <2>2, <2>3, <2>4, <2>5 DEF WorkerStep
<1>2. QED
  BY <1>1 DEF Active, Runner

(* A checker is not a worker. *)
LEMMA CheckerNotActive ==
  ASSUME NEW k \in Checker, TypeOK, CheckStart(k) \/ CheckerStep(k)
  PROVE  Active' = Active /\ UNCHANGED <<running, gate, cpc>>
<1> k \in Runner BY DEF Runner
<1> USE DEF TypeOK, Goto, gateVars
<1>1. /\ \A s \in Runner : s # k => pc'[s] = pc[s]
      /\ UNCHANGED <<running, gate, cpc>>
  <2>1. CASE CheckStart(k) BY <2>1 DEF CheckStart
  <2>2. CASE CheckProbe(k) BY <2>2 DEF CheckProbe, CheckNext
  <2>3. CASE CheckDrop(k)  BY <2>3 DEF CheckDrop
  <2>4. CASE Restart(k)    BY <2>4, RestartMoves
  <2>5. QED BY <2>1, <2>2, <2>3, <2>4 DEF CheckerStep
<1>2. QED
  BY <1>1, ThreadAssumption DEF Active, Runner

(* Steps that leave the callers' variables and the active workers alone    *)
(* keep the invariant.                                                     *)
LEMMA FlightInvFrame ==
  ASSUME GateDiscipline, OneRecovery, Active' = Active,
         UNCHANGED <<running, gate, cpc>>
  PROVE  GateDiscipline' /\ OneRecovery'
  BY DEF GateDiscipline, OneRecovery

LEMMA FlightInvCaller ==
  ASSUME NEW c \in Caller, FlightInv, TriggerEnter(c) \/ CallerStep(c)
  PROVE  GateDiscipline' /\ OneRecovery'
<1> c # None BY NoneAssumption
<1> USE DEF FlightInv, TypeOK, GateDiscipline, Goto, runnerVars
<1>1. CASE TriggerEnter(c)
  <2>1. Active' = Active BY <1>1 DEF TriggerEnter, Active
  <2>2. \A b \in Caller : cpc[b] \notin {"check", "set"}
    BY <1>1, NoneAssumption DEF TriggerEnter
  <2>3. \A b \in Caller : cpc'[b] = IF b = c THEN "check" ELSE cpc[b]
    BY <1>1 DEF TriggerEnter
  <2>4. GateDiscipline' BY <1>1, <2>2, <2>3 DEF TriggerEnter
  <2>5. OneRecovery' BY <1>1, <2>1, <2>3 DEF TriggerEnter, OneRecovery
  <2>6. QED BY <2>4, <2>5
<1>2. CASE TriggerSkip(c)
  <2>1. Active' = Active BY <1>2 DEF TriggerSkip, Active
  <2>2. QED BY <1>2, <2>1 DEF TriggerSkip, OneRecovery
<1>3. CASE TriggerSeesIdle(c)
  <2>1. Active' = Active BY <1>3 DEF TriggerSeesIdle, Active
  <2>2. QED BY <1>3, <2>1 DEF TriggerSeesIdle, OneRecovery
<1>4. CASE TriggerAccept(c)
  <2>1. Active' = Active BY <1>4 DEF TriggerAccept, Active
  <2>2. ~running /\ Active = {} /\ \A b \in Caller : cpc[b] # "spawn"
    BY <1>4 DEF TriggerAccept, OneRecovery
  <2>3. QED BY <1>4, <2>1, <2>2 DEF TriggerAccept, OneRecovery
<1>5. CASE TriggerSpawn(c)
  <2>1. PICK w \in Worker : pc[w] = "off" /\ pc' = [pc EXCEPT ![w] = "ensure"]
    BY <1>5 DEF TriggerSpawn
  <2>2. Active = {} /\ running
    BY <1>5 DEF TriggerSpawn, OneRecovery
  <2>3. Active' = {w}
    BY <2>1, <2>2 DEF Active, Runner
  <2>4. QED BY <1>5, <2>2, <2>3 DEF TriggerSpawn, OneRecovery
<1>6. QED
  BY <1>1, <1>2, <1>3, <1>4, <1>5 DEF CallerStep

LEMMA FlightInvFinish ==
  ASSUME NEW w \in Worker, FlightInv, WorkerFinish(w)
  PROVE  GateDiscipline' /\ OneRecovery'
<1> w \in Runner BY DEF Runner
<1> USE DEF FlightInv, TypeOK, WorkerFinish, Goto
<1>1. Active = {w}
  BY DEF Active, OneRecovery
<1>2. Active' = {}
  BY <1>1 DEF Active, Runner
<1>3. \A c \in Caller : cpc[c] \notin {"check", "set", "spawn"}
  BY <1>1, NoneAssumption DEF GateDiscipline, OneRecovery
<1>4. QED
  BY <1>2, <1>3 DEF GateDiscipline, OneRecovery

LEMMA FlightInvariant == Spec => []FlightInv
<1>1. Init => GateDiscipline /\ OneRecovery
  BY DEF Init, GateDiscipline, OneRecovery, Active, Runner
<1>2. FlightInv /\ [Next]_vars => GateDiscipline' /\ OneRecovery'
  <2> SUFFICES ASSUME FlightInv, [Next]_vars
               PROVE  GateDiscipline' /\ OneRecovery'
    OBVIOUS
  <2> USE DEF FlightInv
  <2>1. ASSUME UNCHANGED <<gateVars, runnerVars>>
        PROVE  GateDiscipline' /\ OneRecovery'
    <3>1. Active' = Active BY <2>1 DEF Active, runnerVars
    <3>2. QED BY <2>1, <3>1, FlightInvFrame DEF gateVars
  <2>2. CASE BootKill \/ BootStart
    BY <2>1, <2>2 DEF BootKill, BootStart
  <2>3. CASE Crash
    BY <2>3 DEF Crash, GateDiscipline, OneRecovery, Active, Runner
  <2>4. ASSUME NEW p \in Pid, ProcessStep(p)
        PROVE  GateDiscipline' /\ OneRecovery'
    BY <2>1, <2>4 DEF ProcessStep, Connect, LinkDrop, Exit, Reap
  <2>5. ASSUME NEW c \in Caller, TriggerEnter(c) \/ CallerStep(c)
        PROVE  GateDiscipline' /\ OneRecovery'
    BY <2>5, FlightInvCaller
  <2>6. ASSUME NEW w \in Worker, WorkerStep(w)
        PROVE  GateDiscipline' /\ OneRecovery'
    BY <2>6, FlightInvFinish, WorkerStaysActive, FlightInvFrame
  <2>7. ASSUME NEW k \in Checker, CheckStart(k) \/ CheckerStep(k)
        PROVE  GateDiscipline' /\ OneRecovery'
    BY <2>7, CheckerNotActive, FlightInvFrame
  <2>8. CASE UNCHANGED vars
    BY <2>1, <2>8 DEF vars
  <2>9. QED
    BY <2>2, <2>3, <2>4, <2>5, <2>6, <2>7, <2>8 DEF Next
<1>3. QED
  BY <1>1, <1>2, TypeCorrect, PTL DEF Spec, FlightInv

(* OneRecovery: however the requests of several threads interleave with    *)
(* each other and with a worker's end, there is never a second recovery    *)
(* and the flag is never left behind.                                      *)
THEOREM AtMostOneRecovery == Spec => []OneRecovery
<1>1. FlightInv => OneRecovery
  BY DEF FlightInv
<1>2. QED
  BY <1>1, FlightInvariant, PTL

-----------------------------------------------------------------------------
(* Listeners and their handles, in a program where nothing runs            *)
(* check_rfcomm_listener                                                   *)

(* A process was started for a device, and a handle is that of a process   *)
(* of its own device that has not been reaped.                             *)
HandlesMatch ==
  /\ \A p \in Pid : pst[p] # "free" => pdev[p] \in Dev
  /\ \A d \in Dev : rfcomm_procs[d] # None =>
       pst[rfcomm_procs[d]] # "free" /\ pdev[rfcomm_procs[d]] = d

(* init() runs alone, on a clean table, after it has killed the old ones.  *)
BootAlone ==
  /\ boot # "up" => Active = {} /\ \A c \in Caller : cpc[c] = "idle"
  /\ boot \in {"down", "cmd"} => \A d \in Dev : rfcomm_procs[d] = None
  /\ boot = "cmd" => \A p \in Pid : pst[p] \notin Serving
  /\ boot = "data" => rfcomm_procs[DataDev] = None

(* What a worker saw dead stays dead until it restarts it, so it never     *)
(* reaches terminate().                                                    *)
RestartsDead ==
  \A w \in Worker :
    /\ pc[w] \in {"lock", "stop", "pop"} => ~Alive(dev[w])
    /\ pc[w] = "start" => rfcomm_procs[dev[w]] = None
    /\ pc[w] \notin {"term", "kill", "probe", "drop"}

ListenerParts == HandlesMatch /\ BootAlone /\ RestartsDead /\ HandleCoversListener
ListenerInv == FlightInv /\ ListenerParts

LEMMA DevIs == \A d \in Dev : d = CmdDev \/ d = DataDev
  BY DEF Dev

(* A device without a handle has no listener, so one may be started for it. *)
LEMMA StartCovers ==
  ASSUME NEW d \in Dev, TypeOK, HandlesMatch, HandleCoversListener, boot # "down",
         rfcomm_procs[d] = None, StartListener(d), boot' # "down"
  PROVE  /\ HandlesMatch' /\ HandleCoversListener'
         /\ \A e \in Dev : e # d => rfcomm_procs'[e] = rfcomm_procs[e]
<1> USE NoneAssumption DEF TypeOK, HandlesMatch, HandleCoversListener, Serving
<1>1. CASE rfcomm_procs' = [rfcomm_procs EXCEPT ![d] = None] /\ UNCHANGED <<pst, pdev>>
  BY <1>1
<1>2. ASSUME NEW p \in Pid, pst[p] = "free",
             pst' = [pst EXCEPT ![p] = "listening"],
             pdev' = [pdev EXCEPT ![p] = d],
             rfcomm_procs' = [rfcomm_procs EXCEPT ![d] = p]
      PROVE  /\ HandlesMatch' /\ HandleCoversListener'
             /\ \A e \in Dev : e # d => rfcomm_procs'[e] = rfcomm_procs[e]
  <2>1. \A q \in Pid : q # p => pst'[q] = pst[q] /\ pdev'[q] = pdev[q]
    BY <1>2
  <2>2. pst'[p] = "listening" /\ pdev'[p] = d /\ rfcomm_procs'[d] = p
    BY <1>2
  <2>3. \A e \in Dev : e # d => rfcomm_procs'[e] = rfcomm_procs[e]
    BY <1>2
  <2>4. \A e \in Dev : rfcomm_procs[e] # p
    BY <1>2, NoneAssumption
  <2>5. HandlesMatch'
    <3>1. \A q \in Pid : pst'[q] # "free" => pdev'[q] \in Dev
      BY <2>1, <2>2
    <3>2. ASSUME NEW e \in Dev, rfcomm_procs'[e] # None
          PROVE  pst'[rfcomm_procs'[e]] # "free" /\ pdev'[rfcomm_procs'[e]] = e
      <4>1. CASE e = d BY <4>1, <2>2
      <4>2. CASE e # d
        <5>1. rfcomm_procs'[e] = rfcomm_procs[e] BY <4>2, <2>3
        <5>2. rfcomm_procs[e] \in Pid BY <3>2, <5>1
        <5>3. QED BY <3>2, <5>1, <5>2, <2>1, <2>4
      <4>3. QED BY <4>1, <4>2
    <3>3. QED BY <3>1, <3>2
  <2>6. HandleCoversListener'
    <3>1. ASSUME NEW q \in Pid, pst'[q] \in Serving, q # p
          PROVE  rfcomm_procs'[pdev'[q]] = q
      <4>1. pst[q] \in Serving /\ pdev'[q] = pdev[q] BY <3>1, <2>1
      <4>2. rfcomm_procs[pdev[q]] = q /\ pdev[q] \in Dev BY <4>1
      <4>3. pdev[q] # d BY <4>2, NoneAssumption
      <4>4. QED BY <4>1, <4>2, <4>3, <2>3
    <3>2. QED BY <3>1, <2>2
  <2>7. QED BY <2>3, <2>5, <2>6
<1>3. QED BY <1>1, <1>2 DEF StartListener

(* A step that touches no listener and no handle. *)
LEMMA ListenerFrame ==
  ASSUME ListenerInv, boot' = boot, UNCHANGED procVars
  PROVE  HandlesMatch' /\ HandleCoversListener' /\ \A d \in Dev : Alive(d)' = Alive(d)
  BY DEF ListenerInv, ListenerParts, HandlesMatch, HandleCoversListener, Alive, procVars

LEMMA ListenerProcess ==
  ASSUME NEW p \in Pid, ListenerInv, ProcessStep(p)
  PROVE  ListenerParts'
<1> USE DEF ListenerInv, ListenerParts, FlightInv, TypeOK, gateVars, runnerVars
<1>1. /\ UNCHANGED <<boot, rfcomm_procs, cpc, pc, dev>>
      /\ \A q \in Pid : q # p => pst'[q] = pst[q] /\ pdev'[q] = pdev[q]
      /\ pst'[p] \in Serving => pst[p] \in Serving /\ pdev'[p] = pdev[p]
      /\ pst'[p] \in LiveState => pst[p] \in LiveState
      /\ pst'[p] # "free" => pst[p] # "free" /\ pdev'[p] = pdev[p]
      /\ pst'[p] = "free" => \A d \in Dev : rfcomm_procs[d] # p
  BY DEF ProcessStep, Connect, LinkDrop, Exit, Reap, Serving, LiveState
<1>2. HandlesMatch'
  BY <1>1 DEF HandlesMatch
<1>3. HandleCoversListener'
  BY <1>1 DEF HandleCoversListener
<1>4. BootAlone'
  BY <1>1 DEF BootAlone, Active
<1>5. \A d \in Dev : Alive(d)' => Alive(d)
  BY <1>1 DEF Alive
<1>6. RestartsDead'
  BY <1>1, <1>5 DEF RestartsDead, Runner
<1>7. QED BY <1>2, <1>3, <1>4, <1>6

LEMMA ListenerBoot ==
  ASSUME ListenerInv, BootKill \/ BootStart \/ Crash
  PROVE  ListenerParts'
<1> USE DEF ListenerInv, ListenerParts, FlightInv, TypeOK
<1>1. CASE BootKill
  <2> USE DEF BootKill, gateVars, runnerVars
  <2>1. \A p \in Pid : pst'[p] \notin Serving /\ (pst'[p] = "free" <=> pst[p] = "free")
    BY <1>1 DEF Serving
  <2>2. HandlesMatch' BY <1>1, <2>1, NoneAssumption DEF HandlesMatch
  <2>3. HandleCoversListener' BY <2>1 DEF HandleCoversListener
  <2>4. BootAlone' BY <1>1, <2>1 DEF BootAlone, Active
  <2>5. RestartsDead' BY <1>1 DEF RestartsDead, BootAlone, Active, Runner
  <2>6. QED BY <2>2, <2>3, <2>4, <2>5
<1>2. CASE BootStart
  <2> DEFINE d == IF boot = "cmd" THEN CmdDev ELSE DataDev
  <2>1. /\ boot \in {"cmd", "data"} /\ StartListener(d) /\ d \in Dev
        /\ boot' \in {"data", "up"} /\ (boot' = "data" <=> boot = "cmd")
        /\ UNCHANGED <<cpc, pc, dev>>
    BY <1>2, DevMembers DEF BootStart, gateVars, runnerVars
  <2>2. rfcomm_procs[d] = None /\ Active = {}
    BY <2>1 DEF BootAlone
  <2>3. /\ HandlesMatch' /\ HandleCoversListener'
        /\ \A e \in Dev : e # d => rfcomm_procs'[e] = rfcomm_procs[e]
    BY <2>1, <2>2, StartCovers
  <2>4. Active' = {} BY <2>1, <2>2 DEF Active
  <2>5. BootAlone'
    BY <2>1, <2>3, <2>4, DevAssumption, DevMembers DEF BootAlone
  <2>6. RestartsDead'
    BY <2>1, <2>2 DEF RestartsDead, Active, Runner
  <2>7. QED BY <2>3, <2>5, <2>6
<1>3. CASE Crash
  BY <1>3 DEF Crash, HandlesMatch, HandleCoversListener, BootAlone, RestartsDead,
              Active, Runner
<1>4. QED BY <1>1, <1>2, <1>3

LEMMA ListenerCaller ==
  ASSUME NEW c \in Caller, ListenerInv, TriggerEnter(c) \/ CallerStep(c)
  PROVE  ListenerParts'
<1> USE DEF ListenerInv, ListenerParts, FlightInv, TypeOK, Goto, runnerVars
<1>1. boot = "up" /\ boot' = boot /\ UNCHANGED procVars /\ UNCHANGED dev
  BY DEF CallerStep, TriggerEnter, TriggerSkip, TriggerSeesIdle, TriggerAccept,
         TriggerSpawn, BootAlone
<1>2. HandlesMatch' /\ HandleCoversListener' /\ \A d \in Dev : Alive(d)' = Alive(d)
  BY <1>1, ListenerFrame
<1>3. BootAlone' BY <1>1 DEF BootAlone
<1>4. \A w \in Worker : pc'[w] = pc[w] \/ pc'[w] = "ensure"
  BY DEF CallerStep, TriggerEnter, TriggerSkip, TriggerSeesIdle, TriggerAccept,
         TriggerSpawn, Runner
<1>5. RestartsDead'
  BY <1>1, <1>2, <1>4 DEF RestartsDead, procVars, Runner
<1>6. QED BY <1>2, <1>3, <1>5

(* The only worker there is takes a step; init() is over. *)
LEMMA WorkerAlone ==
  ASSUME NEW w \in Worker, ListenerInv, pc[w] # "off"
  PROVE  boot = "up" /\ \A v \in Worker : v # w => pc[v] = "off"
<1>1. w \in Active BY DEF Active
<1>2. QED
  BY <1>1 DEF ListenerInv, ListenerParts, FlightInv, OneRecovery, BootAlone, Active

LEMMA ListenerRestart ==
  ASSUME Checker = {}, NEW w \in Worker, ListenerInv, Restart(w)
  PROVE  ListenerParts'
<1> w \in Runner BY DEF Runner
<1> USE DEF ListenerInv, ListenerParts, FlightInv, TypeOK, Goto
<1>1. boot = "up" /\ (\A v \in Worker : v # w => pc[v] = "off") /\ pc[w] # "off"
  BY RestartMoves, WorkerAlone
<1>2. boot' = "up" /\ \A v \in Worker : v # w => pc'[v] = "off"
  BY <1>1, RestartMoves DEF Runner
<1>3. BootAlone' BY <1>2 DEF BootAlone
<1>4. CASE LockDev(w) \/ StopDead(w)
  <2>1. UNCHANGED procVars /\ dev' = dev /\ ~Alive(dev[w])
        /\ pc'[w] \in {"stop", "pop"}
    BY <1>4 DEF LockDev, StopDead, RestartsDead
  <2>2. HandlesMatch' /\ HandleCoversListener' /\ \A d \in Dev : Alive(d)' = Alive(d)
    BY <1>1, <1>2, <2>1, ListenerFrame
  <2>3. RestartsDead' BY <1>2, <2>1, <2>2 DEF RestartsDead
  <2>4. QED BY <1>3, <2>2, <2>3
<1>5. CASE StopAlive(w) \/ WaitTerminated(w) \/ WaitKilled(w)
  BY <1>5 DEF StopAlive, WaitTerminated, WaitKilled, RestartsDead
<1>6. CASE PopAndRelease(w)
  <2>1. /\ dev' = dev /\ pc'[w] = "start" /\ pdev' = pdev
        /\ rfcomm_procs' = [rfcomm_procs EXCEPT ![dev[w]] = None]
        /\ ~Alive(dev[w])
    BY <1>6 DEF PopAndRelease, RestartsDead
  <2>2. \A p \in Pid : pst[p] \in Serving => pdev[p] # dev[w]
    BY <1>1, <2>1, NoneAssumption DEF HandleCoversListener, Alive, LiveState
  <2>3. pst' = pst
    BY <1>6, <2>2 DEF PopAndRelease, Serving
  <2>4. HandlesMatch' BY <2>1, <2>3 DEF HandlesMatch
  <2>5. HandleCoversListener'
    BY <1>1, <1>2, <2>1, <2>2, <2>3 DEF HandleCoversListener, HandlesMatch, Serving
  <2>6. RestartsDead' BY <1>2, <2>1 DEF RestartsDead
  <2>7. QED BY <1>3, <2>4, <2>5, <2>6
<1>7. CASE RestartStart(w)
  <2>1. /\ dev[w] \in Dev /\ rfcomm_procs[dev[w]] = None
        /\ StartListener(dev[w]) /\ pc'[w] = "recheck"
    BY <1>7 DEF RestartStart, RestartsDead
  <2>2. HandlesMatch' /\ HandleCoversListener'
    BY <1>1, <1>2, <2>1, StartCovers
  <2>3. RestartsDead' BY <1>2, <2>1 DEF RestartsDead
  <2>4. QED BY <1>3, <2>2, <2>3
<1>8. QED BY <1>4, <1>5, <1>6, <1>7 DEF Restart

LEMMA ListenerWorker ==
  ASSUME Checker = {}, NEW w \in Worker, ListenerInv, WorkerStep(w)
  PROVE  ListenerParts'
<1> w \in Runner BY DEF Runner
<1> USE DEF ListenerInv, ListenerParts, FlightInv, TypeOK, Goto
<1>1. CASE Restart(w) BY <1>1, ListenerRestart
<1>2. CASE ~Restart(w)
  <2>1. /\ pc[w] # "off" /\ UNCHANGED procVars /\ boot' = boot
        /\ \A v \in Runner : v # w => pc'[v] = pc[v]
        /\ pc'[w] \in {"ensure", "lock", "done", "pause", "off"}
        /\ pc'[w] = "lock" => dev' = dev /\ ~Alive(dev[w])
    BY <1>2 DEF WorkerStep, EnsureAlive, EnsureDead, EnsureRecheck, EnsureReturns,
                NextRound, WorkerFinish
  <2>2. boot = "up" /\ \A v \in Worker : v # w => pc'[v] = "off"
    BY <2>1, WorkerAlone DEF Runner
  <2>3. HandlesMatch' /\ HandleCoversListener' /\ \A d \in Dev : Alive(d)' = Alive(d)
    BY <2>1, ListenerFrame
  <2>4. BootAlone' BY <2>1, <2>2 DEF BootAlone
  <2>5. RestartsDead' BY <2>1, <2>2, <2>3 DEF RestartsDead
  <2>6. QED BY <2>3, <2>4, <2>5
<1>3. QED BY <1>1, <1>2

LEMMA ListenerStep ==
  ASSUME Checker = {}, ListenerInv, [Next]_vars
  PROVE  ListenerParts'
<1>1. CASE BootKill \/ BootStart \/ Crash BY <1>1, ListenerBoot
<1>2. ASSUME NEW p \in Pid, ProcessStep(p) PROVE ListenerParts'
  BY <1>2, ListenerProcess
<1>3. ASSUME NEW c \in Caller, TriggerEnter(c) \/ CallerStep(c) PROVE ListenerParts'
  BY <1>3, ListenerCaller
<1>4. ASSUME NEW w \in Worker, WorkerStep(w) PROVE ListenerParts'
  BY <1>4, ListenerWorker
<1>5. CASE UNCHANGED vars
  BY <1>5 DEF vars, procVars, gateVars, runnerVars, ListenerInv, ListenerParts,
     HandlesMatch, BootAlone, RestartsDead, HandleCoversListener, Active, Alive
<1>6. QED BY <1>1, <1>2, <1>3, <1>4, <1>5 DEF Next

(* The invariant of the listeners, from which both theorems below follow. *)
LEMMA ListenerInvariant ==
  ASSUME Checker = {}
  PROVE  Spec => []ListenerInv
<1>1. Init => ListenerParts
  BY NoneAssumption, DevMembers
  DEF Init, ListenerParts, HandlesMatch, BootAlone, RestartsDead,
      HandleCoversListener, Active, Runner
<1>2. ListenerInv /\ [Next]_vars => ListenerParts'
  BY ListenerStep
<1>3. Spec => []FlightInv
  BY FlightInvariant
<1>4. QED
  BY <1>1, <1>2, <1>3, PTL DEF Spec, ListenerInv

(* HandleCoversListener: no sequence of link losses, exits, crashes and    *)
(* recoveries leaves a listener running that the program has no handle of, *)
(* or two of them for one device.                                          *)
THEOREM EveryListenerHandled ==
  ASSUME Checker = {}
  PROVE  Spec => []HandleCoversListener
<1>1. ListenerInv => HandleCoversListener
  BY DEF ListenerInv, ListenerParts
<1>2. QED
  BY <1>1, ListenerInvariant, PTL

(* RecoverySparesListeners: a recovery, however it is timed, never stops a *)
(* listener that works nor cuts the link of a phone.                       *)
THEOREM RecoveryIsHarmless ==
  ASSUME Checker = {}
  PROVE  Spec => RecoverySparesListeners
<1> DEFINE Spared(p) == pst[p] \in {"listening", "connected"} =>
             \/ pst'[p] \in {"listening", "connected", "exited"}
             \/ LinkDrop(p)
<1>1. ASSUME ListenerInv, [Next]_vars, boot = "up", NEW p \in Pid
      PROVE  Spared(p)
  <2> USE DEF ListenerInv, ListenerParts, FlightInv, TypeOK
  <2>1. ASSUME pst' = pst PROVE Spared(p)
    BY <2>1
  <2>2. CASE BootKill \/ BootStart \/ Crash
    BY <1>1, <2>2 DEF BootKill, BootStart, Crash
  <2>3. ASSUME NEW q \in Pid, ProcessStep(q) PROVE Spared(p)
    <3>1. CASE LinkDrop(q)
      BY <1>1, <3>1 DEF LinkDrop
    <3>2. CASE Connect(q) \/ Exit(q) \/ Reap(q)
      BY <1>1, <3>2 DEF Connect, Exit, Reap
    <3>3. QED BY <2>3, <3>1, <3>2 DEF ProcessStep
  <2>4. ASSUME NEW c \in Caller, TriggerEnter(c) \/ CallerStep(c) PROVE Spared(p)
    BY <1>1, <2>1, <2>4 DEF CallerStep, TriggerEnter, TriggerSkip, TriggerSeesIdle,
       TriggerAccept, TriggerSpawn, procVars
  <2>5. ASSUME NEW w \in Worker, WorkerStep(w) PROVE Spared(p)
    <3> w \in Runner BY DEF Runner
    <3>1. CASE Restart(w)
      <4>1. CASE StopAlive(w)
        BY <1>1, <4>1 DEF StopAlive, RestartsDead
      <4>2. CASE PopAndRelease(w)
        <5>1. ~Alive(dev[w]) /\ dev[w] \in Dev
          BY <1>1, <4>2 DEF PopAndRelease, RestartsDead
        <5>2. pst[p] = "connected" => pdev[p] # dev[w]
          BY <1>1, <5>1, NoneAssumption
          DEF HandleCoversListener, Alive, LiveState, Serving
        <5>3. QED BY <1>1, <4>2, <5>2 DEF PopAndRelease
      <4>3. CASE RestartStart(w)
        BY <1>1, <4>3 DEF RestartStart, StartListener
      <4>4. CASE LockDev(w) \/ StopDead(w) \/ WaitTerminated(w) \/ WaitKilled(w)
        BY <1>1, <2>1, <4>4 DEF LockDev, StopDead, WaitTerminated, WaitKilled, procVars
      <4>5. QED BY <3>1, <4>1, <4>2, <4>3, <4>4 DEF Restart
    <3>2. CASE ~Restart(w)
      BY <1>1, <2>1, <2>5, <3>2 DEF WorkerStep, EnsureAlive, EnsureDead, EnsureRecheck,
         NextRound, WorkerFinish, procVars
    <3>3. QED BY <3>1, <3>2
  <2>6. CASE UNCHANGED vars
    BY <2>1, <2>6 DEF vars, procVars
  <2>7. QED BY <1>1, <2>2, <2>3, <2>4, <2>5, <2>6 DEF Next
<1>2. ListenerInv /\ [Next]_vars =>
        [boot = "up" =>
           \A p \in Pid : pst[p] \in {"listening", "connected"} =>
             \/ pst'[p] \in {"listening", "connected", "exited"}
             \/ LinkDrop(p)]_vars
  BY <1>1
<1>3. QED
  BY <1>2, ListenerInvariant, PTL DEF Spec, RecoverySparesListeners

-----------------------------------------------------------------------------
(* Single flight *)

Spawning == \E c \in Caller : cpc[c] = "spawn"
Phase == IF Spawning THEN "accepted" ELSE IF Active # {} THEN "flying" ELSE "idle"

(* The safety part of ImplementsSingleFlight: whatever the threads do, what *)
(* a caller sees is one recovery at a time, accepted, flown and landed.    *)
THEOREM RefinesSingleFlight == Spec => Flight!Safety
<1> USE DEF FlightInv, TypeOK, Goto, gateVars, runnerVars
<1>1. Init => Flight!Init
  <2> SUFFICES ASSUME Init PROVE Flight!Init
    OBVIOUS
  <2>1. ~Spawning /\ Active = {} BY DEF Init, Spawning, Active, Runner
  <2>2. QED BY <2>1 DEF Flight!Init, Spawning
<1>2. FlightInv /\ [Next]_vars => [Flight!Next]_(Flight!vars)
  <2> SUFFICES ASSUME FlightInv, [Next]_vars
               PROVE  Flight!Next \/ (Phase' = Phase /\ Active' = Active)
    BY DEF Flight!vars, Phase, Spawning
  <2>1. ASSUME UNCHANGED cpc, Active' = Active
        PROVE  Phase' = Phase /\ Active' = Active
    BY <2>1 DEF Phase, Spawning
  <2>2. CASE BootKill \/ BootStart \/ (\E p \in Pid : ProcessStep(p)) \/ UNCHANGED vars
    <3>1. UNCHANGED <<cpc, pc>>
      BY <2>2 DEF BootKill, BootStart, ProcessStep, Connect, LinkDrop, Exit, Reap, vars
    <3>2. QED BY <2>1, <3>1 DEF Active
  <2>3. CASE Crash
    <3>1. ~Spawning' /\ Active' = {}
      BY <2>3 DEF Crash, Spawning, Active, Runner
    <3>2. CASE Spawning
      <4>1. Active = {} BY <3>2 DEF Spawning, OneRecovery
      <4>2. Flight!Abandon BY <3>1, <3>2, <4>1 DEF Flight!Abandon, Spawning
      <4>3. QED BY <4>2 DEF Flight!Next
    <3>3. CASE ~Spawning /\ Active # {}
      <4>1. Flight!Land BY <3>1, <3>3 DEF Flight!Land, Spawning
      <4>2. QED BY <4>1 DEF Flight!Next
    <3>4. CASE ~Spawning /\ Active = {}
      BY <3>1, <3>4 DEF Phase
    <3>5. QED BY <3>2, <3>3, <3>4
  <2>4. ASSUME NEW c \in Caller, TriggerEnter(c) \/ CallerStep(c)
        PROVE  Flight!Next \/ (Phase' = Phase /\ Active' = Active)
    <3>1. CASE TriggerEnter(c) \/ TriggerSkip(c) \/ TriggerSeesIdle(c)
      <4>1. Active' = Active
        BY <3>1 DEF TriggerEnter, TriggerSkip, TriggerSeesIdle, Active
      <4>2. Spawning' <=> Spawning
        BY <3>1 DEF TriggerEnter, TriggerSkip, TriggerSeesIdle, Spawning
      <4>3. QED BY <4>1, <4>2 DEF Phase
    <3>2. CASE TriggerAccept(c)
      <4>1. ~Spawning /\ Active = {}
        BY <3>2 DEF TriggerAccept, GateDiscipline, OneRecovery, Spawning
      <4>2. Spawning' /\ Active' = Active
        BY <3>2 DEF TriggerAccept, Spawning, Active
      <4>3. Flight!Accept BY <4>1, <4>2 DEF Flight!Accept, Spawning
      <4>4. QED BY <4>3 DEF Flight!Next
    <3>3. CASE TriggerSpawn(c)
      <4>1. Spawning /\ Active = {}
        BY <3>3 DEF TriggerSpawn, OneRecovery, Spawning
      <4>2. PICK w \in Worker : pc[w] = "off" /\ pc' = [pc EXCEPT ![w] = "ensure"]
        BY <3>3 DEF TriggerSpawn
      <4>3. Active' = {w} BY <4>1, <4>2 DEF Active, Runner
      <4>4. ~Spawning' BY <3>3 DEF TriggerSpawn, GateDiscipline, Spawning
      <4>5. Flight!Launch(w) BY <4>1, <4>3, <4>4 DEF Flight!Launch, Spawning
      <4>6. QED BY <4>5 DEF Flight!Next
    <3>4. QED BY <2>4, <3>1, <3>2, <3>3 DEF CallerStep
  <2>5. ASSUME NEW w \in Worker, WorkerStep(w)
        PROVE  Flight!Next \/ (Phase' = Phase /\ Active' = Active)
    <3>1. CASE WorkerFinish(w)
      <4>1. Active = {w}
        BY <3>1 DEF WorkerFinish, Active, OneRecovery
      <4>2. ~Spawning BY <4>1 DEF OneRecovery, Spawning
      <4>3. ~Spawning' /\ Active' = {}
        BY <3>1, <4>1, <4>2 DEF WorkerFinish, Active, Spawning, Runner
      <4>4. Flight!Land BY <4>1, <4>2, <4>3 DEF Flight!Land, Spawning
      <4>5. QED BY <4>4 DEF Flight!Next
    <3>2. CASE ~WorkerFinish(w)
      BY <2>1, <2>5, <3>2, WorkerStaysActive
    <3>3. QED BY <3>1, <3>2
  <2>6. ASSUME NEW k \in Checker, CheckStart(k) \/ CheckerStep(k)
        PROVE  Phase' = Phase /\ Active' = Active
    BY <2>1, <2>6, CheckerNotActive
  <2>7. QED BY <2>2, <2>3, <2>4, <2>5, <2>6 DEF Next
<1>3. QED
  BY <1>1, <1>2, FlightInvariant, PTL DEF Spec, Flight!Safety
-----------------------------------------------------------------------------
(* One restart of a device at a time, with checkers as well as workers     *)

(* A runner between stop and start of a listener holds its device's lock.  *)
HoldsLock == \A t \in Runner : pc[t] \in InRestart => devlock[dev[t]] = t

(* init() runs before any thread that restarts.                            *)
BootQuiet ==
  boot # "up" => /\ \A t \in Runner : pc[t] = "off"
                 /\ \A c \in Caller : cpc[c] = "idle"

RestartParts == HoldsLock /\ BootQuiet
RestartInv == TypeOK /\ RestartParts

(* Whoever holds a lock, no other runner is restarting that device.        *)
LEMMA LockExcludes ==
  ASSUME HoldsLock, NEW s \in Runner, NEW t \in Runner, s # t, dev[s] = dev[t],
         devlock[dev[t]] \in {t, None}
  PROVE  pc[s] \notin InRestart
  BY NoneAssumption DEF HoldsLock, Runner

(* A started thread finds init() finished.                                 *)
LEMMA RunsUp ==
  ASSUME BootQuiet, NEW t \in Runner, pc[t] # "off"
  PROVE  boot = "up"
  BY DEF BootQuiet

(* A runner that moves outside a restart and leaves the locks alone.      *)
LEMMA RestartFrame ==
  ASSUME RestartInv, NEW t \in Runner, boot = "up",
         UNCHANGED <<boot, devlock>>,
         \A s \in Runner : s # t => pc'[s] = pc[s] /\ dev'[s] = dev[s],
         pc'[t] \notin InRestart
  PROVE  RestartParts'
<1> USE DEF RestartInv, RestartParts
<1>1. HoldsLock' BY DEF HoldsLock
<1>2. BootQuiet' BY DEF BootQuiet
<1>3. QED BY <1>1, <1>2

(* A step of a restart under the lock that keeps it.                       *)
LEMMA RestartInside ==
  ASSUME RestartInv, NEW t \in Runner, pc[t] \in InRestart, boot = "up",
         UNCHANGED <<boot, devlock, dev>>,
         \A s \in Runner : s # t => pc'[s] = pc[s]
  PROVE  RestartParts'
<1> USE DEF RestartInv, RestartParts
<1>1. HoldsLock' BY DEF HoldsLock
<1>2. BootQuiet' BY DEF BootQuiet
<1>3. QED BY <1>1, <1>2

LEMMA RestartKeeps ==
  ASSUME RestartInv, NEW t \in Runner, Restart(t)
  PROVE  RestartParts'
<1> USE DEF RestartInv, RestartParts, TypeOK, Goto
<1>1. pc[t] # "off" /\ boot = "up" /\ boot' = boot
  BY RestartMoves, RunsUp
<1>2. \A s \in Runner : s # t => pc'[s] = pc[s]
  BY RestartMoves
<1>3. CASE LockDev(t)
  <2>1. /\ dev' = dev /\ pc'[t] = "stop" /\ devlock[dev[t]] = None
        /\ devlock' = [devlock EXCEPT ![dev[t]] = t]
        /\ dev[t] \in Dev
    BY <1>3 DEF LockDev, procVars
  <2>2. ASSUME NEW s \in Runner, s # t, pc[s] \in InRestart PROVE dev[s] # dev[t]
    BY <2>1, <2>2, LockExcludes
  <2>3. HoldsLock' BY <1>2, <2>1, <2>2 DEF HoldsLock
  <2>4. BootQuiet' BY <1>1 DEF BootQuiet
  <2>5. QED BY <2>3, <2>4
<1>4. CASE \/ StopDead(t) \/ StopAlive(t) \/ WaitTerminated(t) \/ WaitKilled(t)
           \/ PopAndRelease(t)
  <2>1. pc[t] \in InRestart /\ UNCHANGED <<devlock, dev>>
    BY <1>4 DEF StopDead, StopAlive, WaitTerminated, WaitKilled, PopAndRelease,
       InRestart, procVars
  <2>2. QED BY <1>1, <1>2, <2>1, RestartInside
<1>5. CASE RestartStart(t)
  <2>1. /\ pc[t] = "start" /\ dev[t] \in Dev /\ pc'[t] \notin InRestart
        /\ devlock' = [devlock EXCEPT ![dev[t]] = None]
        /\ \A s \in Runner : s # t => dev'[s] = dev[s]
    BY <1>5 DEF RestartStart, CheckNext, InRestart
  <2>2. devlock[dev[t]] = t BY <2>1 DEF HoldsLock, InRestart
  <2>3. ASSUME NEW s \in Runner, s # t, pc[s] \in InRestart PROVE dev[s] # dev[t]
    BY <2>2, <2>3, LockExcludes
  <2>4. HoldsLock' BY <1>2, <2>1, <2>3 DEF HoldsLock
  <2>5. BootQuiet' BY <1>1 DEF BootQuiet
  <2>6. QED BY <2>4, <2>5
<1>6. QED BY <1>3, <1>4, <1>5 DEF Restart

LEMMA RestartStep ==
  ASSUME RestartInv, [Next]_vars
  PROVE  RestartParts'
<1> USE DEF RestartInv, RestartParts, TypeOK, Goto
<1>1. CASE BootKill
  BY <1>1 DEF BootKill, HoldsLock, BootQuiet, gateVars, runnerVars
<1>2. CASE BootStart
  <2>1. /\ boot \in {"cmd", "data"} /\ boot' = IF boot = "cmd" THEN "data" ELSE "up"
        /\ UNCHANGED <<cpc, pc, dev, devlock>>
    BY <1>2 DEF BootStart, gateVars, runnerVars
  <2>2. QED BY <2>1 DEF HoldsLock, BootQuiet
<1>3. CASE Crash
  BY <1>3 DEF Crash, HoldsLock, BootQuiet, InRestart
<1>4. ASSUME NEW p \in Pid, ProcessStep(p) PROVE RestartParts'
  BY <1>4 DEF ProcessStep, Connect, LinkDrop, Exit, Reap, gateVars, runnerVars,
     HoldsLock, BootQuiet
<1>5. ASSUME NEW c \in Caller, TriggerEnter(c) \/ CallerStep(c) PROVE RestartParts'
  <2>1. boot = "up" /\ UNCHANGED <<boot, devlock, dev>>
    BY <1>5 DEF TriggerEnter, CallerStep, TriggerSkip, TriggerSeesIdle, TriggerAccept,
       TriggerSpawn, procVars, runnerVars, BootQuiet
  <2>2. CASE UNCHANGED pc
    BY <2>1, <2>2 DEF HoldsLock, BootQuiet
  <2>3. CASE TriggerSpawn(c)
    <3>1. PICK w \in Worker : pc' = [pc EXCEPT ![w] = "ensure"]
      BY <2>3 DEF TriggerSpawn
    <3>2. w \in Runner BY DEF Runner
    <3>3. QED BY <2>1, <3>1, <3>2, RestartFrame DEF InRestart
  <2>4. QED
    BY <1>5, <2>2, <2>3 DEF TriggerEnter, CallerStep, TriggerSkip, TriggerSeesIdle,
       TriggerAccept, runnerVars
<1>6. ASSUME NEW w \in Worker, WorkerStep(w) PROVE RestartParts'
  <2> w \in Runner BY DEF Runner
  <2>1. CASE Restart(w) BY <2>1, RestartKeeps
  <2>2. CASE ~Restart(w)
    <3>1. /\ pc[w] # "off" /\ UNCHANGED <<boot, devlock>>
          /\ \A s \in Runner : s # w => pc'[s] = pc[s] /\ dev'[s] = dev[s]
          /\ pc'[w] \notin InRestart
      BY <1>6, <2>2 DEF WorkerStep, EnsureAlive, EnsureDead, EnsureRecheck,
         EnsureReturns, NextRound, WorkerFinish, procVars, InRestart
    <3>2. QED BY <3>1, RunsUp, RestartFrame
  <2>3. QED BY <2>1, <2>2
<1>7. ASSUME NEW k \in Checker, CheckStart(k) \/ CheckerStep(k) PROVE RestartParts'
  <2> k \in Runner BY DEF Runner
  <2>1. CASE Restart(k) BY <2>1, RestartKeeps
  <2>2. CASE CheckStart(k) \/ CheckProbe(k) \/ CheckDrop(k)
    <3>1. /\ boot = "up" /\ UNCHANGED <<boot, devlock>>
          /\ \A s \in Runner : s # k => pc'[s] = pc[s] /\ dev'[s] = dev[s]
          /\ pc'[k] \notin InRestart
      BY <2>2, RunsUp DEF CheckStart, CheckProbe, CheckDrop, CheckNext, procVars, InRestart
    <3>2. QED BY <3>1, RestartFrame
  <2>3. QED BY <1>7, <2>1, <2>2 DEF CheckerStep
<1>8. CASE UNCHANGED vars
  BY <1>8 DEF vars, procVars, gateVars, runnerVars, HoldsLock, BootQuiet
<1>9. QED BY <1>1, <1>2, <1>3, <1>4, <1>5, <1>6, <1>7, <1>8 DEF Next

LEMMA RestartInvariant == Spec => []RestartInv
<1>1. Init => RestartParts
  BY DevMembers DEF Init, RestartParts, HoldsLock, BootQuiet, InRestart
<1>2. RestartInv /\ [Next]_vars => RestartParts'
  BY RestartStep
<1>3. QED
  BY <1>1, <1>2, TypeCorrect, PTL DEF Spec, RestartInv

(* RestartExclusive: any number of workers and health checkers that find a *)
(* device dead at once restart it one after the other.                     *)
THEOREM OneRestartAtATime == Spec => []RestartExclusive
<1>1. RestartInv => RestartExclusive
  BY DEF RestartInv, RestartParts, HoldsLock, RestartExclusive
<1>2. QED BY <1>1, RestartInvariant, PTL
=============================================================================
