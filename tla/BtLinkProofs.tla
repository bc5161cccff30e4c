---------------------------- MODULE BtLinkProofs ----------------------------
(***************************************************************************)
(* The composition is a RfcommRecovery: what is proved of the recovery     *)
(* alone holds with the transports and the event queue around it.  And no  *)
(* lost link is forgotten on the way from its reader to the recovery.      *)
(***************************************************************************)
EXTENDS BtLink, RfcommRecoveryProofs

(* Each step of the transports, of the main thread that empties the queue, *)
(* of the processes and of the worker is a step of RfcommRecovery, or      *)
(* leaves its variables alone: bt_init.py sees nothing new.                *)
THEOREM RefinesRecovery == LinkSpec => Spec
<1>1. LinkInit => Init
  BY DEF LinkInit
<1>2. ASSUME [LinkNext]_allVars
      PROVE  [Next]_vars
  <2>1. CASE UNCHANGED allVars
    BY <2>1 DEF allVars
  <2>2. CASE Boot
    BY <2>2 DEF Boot, Next
  <2>3. CASE Handle
    <3>1. TriggerEnter(Main) BY <2>3 DEF Handle
    <3>2. QED BY <3>1, MainAssumption DEF Next
  <2>4. CASE Trigger
    <3>1. CallerStep(Main) BY <2>4 DEF Trigger, CallerStep
    <3>2. QED BY <3>1, MainAssumption DEF Next
  <2>5. ASSUME NEW d \in Dev, Open(d) \/ ReportLost(d) \/ CloseSilently(d)
        PROVE  UNCHANGED vars
    BY <2>5 DEF Open, ReportLost, CloseSilently
  <2>6. ASSUME NEW p \in Pid, Phone(p) \/ Drop(p) \/ ProcessExit(p)
        PROVE  Next
    <3>1. ProcessStep(p) BY <2>6 DEF Phone, Drop, ProcessExit, ProcessStep
    <3>2. QED BY <3>1 DEF Next
  <2>7. ASSUME NEW w \in Worker, Recover(w)
        PROVE  Next
    <3>1. WorkerStep(w) BY <2>7 DEF Recover, WorkerStep
    <3>2. QED BY <3>1 DEF Next
  <2>8. QED
    BY <1>2, <2>1, <2>2, <2>3, <2>4, <2>5, <2>6, <2>7 DEF LinkNext
<1>3. QED
  BY <1>1, <1>2, PTL DEF LinkSpec, Spec

(* End to end there is one recovery at a time as well, and the flag is up  *)
(* exactly while there is one.                                             *)
THEOREM OneRecoveryEndToEnd == LinkSpec => []OneRecovery
  BY RefinesRecovery, AtMostOneRecovery, PTL

(* End to end no listener is out of the program's reach, and no recovery   *)
(* that a lost link brings about stops a listener that works.              *)
THEOREM ListenersEndToEnd ==
  ASSUME Checker = {}
  PROVE  LinkSpec => [](HandleCoversListener) /\ RecoverySparesListeners
  BY RefinesRecovery, EveryListenerHandled, RecoveryIsHarmless, PTL

-----------------------------------------------------------------------------
(* What the composition adds to the recovery                               *)

LEMMA MainCalls == Main \in Caller /\ \A c \in Caller : c = Main
  BY MainAssumption

(* A worker's step, whatever it is, ends no listener that works and no     *)
(* link: what it restarts is dead.                                         *)
LEMMA RecoverSpares ==
  ASSUME NEW w \in Worker, ListenerInv, WorkerStep(w)
  PROVE  /\ \A p \in Pid : pst[p] \in {"listening", "connected"} =>
                             pst'[p] = pst[p] /\ pdev'[p] = pdev[p]
         /\ \A d \in Dev : Works(d) => Works(d)'
         /\ pc[w] # "off" /\ boot = "up" /\ boot' = "up" /\ cpc' = cpc
<1> w \in Runner BY DEF Runner
<1> USE NoneAssumption
    DEF ListenerInv, ListenerParts, FlightInv, TypeOK, Goto, procVars, gateVars
<1>1. pc[w] # "off" /\ boot' = boot /\ cpc' = cpc
  BY RestartMoves DEF WorkerStep, EnsureAlive, EnsureDead, EnsureRecheck, NextRound,
     WorkerFinish
<1>2. boot = "up" BY <1>1, WorkerAlone
<1>3. CASE UNCHANGED procVars
  BY <1>1, <1>2, <1>3 DEF Works
<1>4. CASE PopAndRelease(w)
  <2>1. /\ ~Alive(dev[w]) /\ dev[w] \in Dev /\ pdev' = pdev
        /\ rfcomm_procs' = [rfcomm_procs EXCEPT ![dev[w]] = None]
    BY <1>4 DEF PopAndRelease, RestartsDead
  <2>2. \A p \in Pid : pst[p] \in Serving => pdev[p] # dev[w]
    BY <1>2, <2>1 DEF HandleCoversListener, Alive, LiveState
  <2>3. pst' = pst BY <1>4, <2>2 DEF PopAndRelease, Serving
  <2>4. ASSUME NEW d \in Dev, Works(d) PROVE Works(d)'
    <3>1. d # dev[w] BY <2>1, <2>4 DEF Works, Alive, LiveState, Serving
    <3>2. QED BY <2>1, <2>3, <2>4, <3>1 DEF Works
  <2>5. QED BY <1>1, <1>2, <2>1, <2>3, <2>4
<1>5. CASE RestartStart(w)
  <2>1. rfcomm_procs[dev[w]] = None /\ dev[w] \in Dev /\ StartListener(dev[w])
    BY <1>5 DEF RestartStart, RestartsDead
  <2>2. \A p \in Pid : pst[p] # "free" => pst'[p] = pst[p] /\ pdev'[p] = pdev[p]
    BY <2>1 DEF StartListener
  <2>3. \A d \in Dev : d # dev[w] => rfcomm_procs'[d] = rfcomm_procs[d]
    BY <2>1 DEF StartListener
  <2>4. ASSUME NEW d \in Dev, Works(d) PROVE Works(d)'
    BY <2>1, <2>2, <2>3, <2>4 DEF Works
  <2>5. QED BY <1>1, <1>2, <2>2, <2>4
<1>6. CASE StopAlive(w)
  BY <1>6 DEF StopAlive, RestartsDead
<1>7. QED
  BY <1>3, <1>4, <1>5, <1>6 DEF WorkerStep, Restart, LockDev, StopDead,
     WaitTerminated, WaitKilled, EnsureAlive, EnsureDead, EnsureRecheck, NextRound,
     WorkerFinish

(* The end of a process leaves the descriptors open on its link dead, and  *)
(* the links of the other processes up.                                    *)
LEMMA CutKeeps ==
  ASSUME NEW p \in Pid, TypeOK, fd \in [Dev -> {"none", "open", "dead"}],
         \A d \in Dev : fd[d] = "open" => LinkUp(d),
         Cut(p), pdev' = pdev,
         \A q \in Pid : q # p => pst'[q] = pst[q]
  PROVE  /\ fd' \in [Dev -> {"none", "open", "dead"}]
         /\ \A d \in Dev : fd'[d] = "open" => LinkUp(d)'
<1>1. fd' \in [Dev -> {"none", "open", "dead"}] BY DEF Cut
<1>2. ASSUME NEW d \in Dev, fd'[d] = "open" PROVE LinkUp(d)'
  <2>1. fd[d] = "open" /\ ~(d = pdev[p] /\ pst[p] = "connected")
    BY <1>2 DEF Cut
  <2>2. PICK q \in Pid : pdev[q] = d /\ pst[q] = "connected"
    BY <2>1 DEF LinkUp
  <2>3. QED BY <2>1, <2>2 DEF LinkUp
<1>3. QED BY <1>1, <1>2

(* LinkTypeOK needs of init() that no descriptor is open before it is over. *)
BootClosed == boot # "up" => queue = <<>> /\ \A d \in Dev : fd[d] = "none"
LinkInv == LinkTypeOK /\ BootClosed

LEMMA UnwatchType ==
  ASSUME NEW lost \in SUBSET Dev, unwatched \subseteq Dev, Unwatch(lost)
  PROVE  unwatched' \subseteq Dev
  BY DEF Unwatch

LEMMA LinkStep ==
  ASSUME Checker = {}, LinkInv, ListenerInv, TypeOK', [LinkNext]_allVars
  PROVE  LinkInv'
<1> USE NoneAssumption, QueueAssumption DEF LinkInv, LinkTypeOK, BootClosed, linkVars
<1>1. CASE UNCHANGED allVars
  BY <1>1 DEF allVars, vars, procVars, gateVars, LinkUp
<1>2. CASE Boot
  <2>1. /\ UNCHANGED <<fd, queue, handling, cpc>> /\ boot # "up"
        /\ unwatched' \subseteq Dev
    BY <1>2, UnwatchType DEF Boot, BootKill, BootStart, gateVars
  <2>2. \A d \in Dev : fd'[d] # "open" BY <2>1
  <2>3. QED BY <2>1, <2>2
<1>3. CASE Handle
  <2>1. /\ queue' = Tail(queue) /\ handling' = Head(queue) /\ cpc'[Main] = "check"
        /\ queue # <<>> /\ UNCHANGED <<fd, unwatched, boot, pst, pdev>> /\ boot = "up"
    BY <1>3, MainCalls DEF Handle, TriggerEnter, procVars, TypeOK
  <2>2. queue' \in Seq(Dev) /\ Len(queue') <= MaxQueue /\ handling' \in Dev
    BY <2>1
  <2>3. QED BY <2>1, <2>2 DEF LinkUp, Dev
<1>4. CASE Trigger
  <2>1. /\ UNCHANGED <<fd, queue, boot, pst, pdev>> /\ boot = "up" /\ handling # None
        /\ unwatched' \subseteq Dev /\ handling' \in {handling, None}
        /\ (handling' = None) = (cpc'[Main] = "idle")
    <3>1. cpc[Main] # "idle"
      BY <1>4 DEF Trigger, TriggerSkip, TriggerSpawn, TriggerSeesIdle, TriggerAccept
    <3>2. boot = "up" /\ handling \in Dev
      BY <3>1, MainCalls DEF ListenerInv, ListenerParts, BootAlone
    <3>3. UNCHANGED <<fd, queue, boot, pst, pdev>>
      BY <1>4 DEF Trigger, TriggerSkip, TriggerSpawn, TriggerSeesIdle, TriggerAccept,
         procVars
    <3>4. unwatched' \subseteq Dev
      <4>1. If(\E w \in Active : ~WillVisit(w, handling), handling) \in SUBSET Dev
        BY <3>2 DEF If
      <4>2. QED BY <1>4, <4>1, UnwatchType DEF Trigger
    <3>5. handling' \in {handling, None} /\ (handling' = None) = (cpc'[Main] = "idle")
      BY <1>4, <3>2, MainCalls
      DEF Trigger, TriggerSkip, TriggerSpawn, TriggerSeesIdle, TriggerAccept, After,
          TypeOK
    <3>6. QED BY <3>1, <3>2, <3>3, <3>4, <3>5
  <2>2. QED BY <2>1 DEF LinkUp
<1>5. ASSUME NEW d \in Dev, Open(d) \/ ReportLost(d) \/ CloseSilently(d) PROVE LinkInv'
  <2>1. /\ UNCHANGED <<boot, pst, pdev, handling, cpc>>
        /\ \/ fd' = [fd EXCEPT ![d] = "open"] /\ LinkUp(d) /\ boot = "up"
           \/ fd' = [fd EXCEPT ![d] = "none"] /\ fd[d] # "none"
        /\ unwatched' \subseteq Dev
    <3>1. CASE Open(d)
      BY <3>1 DEF Open, vars, procVars, gateVars
    <3>2. CASE ReportLost(d)
      BY <3>2 DEF ReportLost, vars, procVars, gateVars
    <3>3. CASE CloseSilently(d)
      <4>1. If(fd[d] = "dead", d) \in SUBSET Dev BY DEF If
      <4>2. unwatched' \subseteq Dev BY <3>3, <4>1, UnwatchType DEF CloseSilently
      <4>3. QED BY <3>3, <4>2 DEF CloseSilently, vars, procVars, gateVars
    <3>4. QED BY <1>5, <3>1, <3>2, <3>3
  <2>2. queue' \in Seq(Dev) /\ Len(queue') <= MaxQueue
    BY <1>5 DEF Open, ReportLost, CloseSilently, Emit
  <2>3. boot = "up" BY <2>1
  <2>4. \A e \in Dev : fd'[e] = "open" => LinkUp(e)'
    BY <2>1 DEF LinkUp
  <2>5. QED BY <2>1, <2>2, <2>3, <2>4
<1>6. ASSUME NEW p \in Pid, Phone(p) PROVE LinkInv'
  <2>1. /\ UNCHANGED <<boot, cpc, linkVars, unwatched>>
        /\ \A q \in Pid : pst[q] = "connected" => pst'[q] = "connected" /\ pdev'[q] = pdev[q]
    BY <1>6 DEF Phone, Connect, Reap, gateVars, ListenerInv, FlightInv, TypeOK
  <2>2. \A d \in Dev : LinkUp(d) => LinkUp(d)' BY <2>1 DEF LinkUp
  <2>3. QED BY <2>1, <2>2
<1>7. ASSUME NEW p \in Pid, Drop(p) \/ ProcessExit(p) PROVE LinkInv'
  <2>1. /\ UNCHANGED <<boot, cpc, queue, handling, pdev>> /\ Cut(p)
        /\ \A q \in Pid : q # p => pst'[q] = pst[q]
        /\ pst[p] # "free"
    BY <1>7 DEF Drop, ProcessExit, LinkDrop, Exit, gateVars, LiveState, Serving,
       ListenerInv, FlightInv, TypeOK
  <2>2. pdev[p] \in Dev BY <2>1 DEF ListenerInv, ListenerParts, HandlesMatch
  <2>3. unwatched' \subseteq Dev BY <1>7, <2>2, UnwatchType DEF Drop, ProcessExit, If
  <2>4. /\ fd' \in [Dev -> {"none", "open", "dead"}]
        /\ \A d \in Dev : fd'[d] = "open" => LinkUp(d)'
    BY <2>1, CutKeeps
  <2>5. boot # "up" => \A d \in Dev : fd'[d] = "none" BY <2>1 DEF Cut
  <2>6. QED BY <2>1, <2>3, <2>4, <2>5
<1>8. ASSUME NEW w \in Worker, Recover(w) PROVE LinkInv'
  <2>1. WorkerStep(w) BY <1>8 DEF Recover, WorkerStep
  <2>2. /\ \A p \in Pid : pst[p] = "connected" => pst'[p] = "connected" /\ pdev'[p] = pdev[p]
        /\ boot = "up" /\ boot' = "up" /\ cpc' = cpc
    BY <2>1, RecoverSpares
  <2>3. dev[w] \in Dev BY DEF TypeOK, Runner
  <2>4. unwatched' \subseteq Dev BY <1>8, <2>3, UnwatchType DEF Recover, If
  <2>5. UNCHANGED linkVars BY <1>8 DEF Recover
  <2>6. \A d \in Dev : LinkUp(d) => LinkUp(d)' BY <2>2 DEF LinkUp
  <2>7. QED BY <2>2, <2>4, <2>5, <2>6
<1>9. QED
  BY <1>1, <1>2, <1>3, <1>4, <1>5, <1>6, <1>7, <1>8 DEF LinkNext

LEMMA LinkInvariant ==
  ASSUME Checker = {}
  PROVE  LinkSpec => [](LinkInv /\ ListenerInv)
<1>1. LinkInit /\ TypeOK => LinkInv
  BY QueueAssumption, MainCalls DEF LinkInit, Init, LinkInv, LinkTypeOK, BootClosed
<1>2. LinkInv /\ ListenerInv /\ TypeOK' /\ [LinkNext]_allVars => LinkInv'
  BY LinkStep
<1>3. ListenerInv => TypeOK BY DEF ListenerInv, FlightInv
<1>4. LinkSpec => []ListenerInv
  BY RefinesRecovery, ListenerInvariant, PTL
<1>5. QED
  BY <1>1, <1>2, <1>3, <1>4, PTL DEF LinkSpec

(* LinkTypeOK: the main thread is in the trigger exactly while it handles  *)
(* an event, and whatever the recovery does beside it, no link ends but by *)
(* its phone or its process: self._fd is never open on one that is gone.   *)
THEOREM LinkTypeCorrect ==
  ASSUME Checker = {}
  PROVE  LinkSpec => []LinkTypeOK
<1>1. LinkInv => LinkTypeOK BY DEF LinkInv
<1>2. QED BY <1>1, LinkInvariant, PTL

-----------------------------------------------------------------------------
(* No listener is lost unnoticed                                           *)

(* Where a worker is: it starts at the first device and pauses, or is      *)
(* done, after the second.                                                 *)
WorkerPlace ==
  \A w \in Worker :
    /\ pc[w] = "off" => dev[w] = CmdDev
    /\ pc[w] \in {"pause", "done"} => dev[w] = DataDev

(* w has a round left and, from what it has seen, will use it.             *)
AnotherRound(w) ==
  /\ round[w] < MaxRounds
  /\ \/ pc[w] = "pause"
     \/ dev[w] = DataDev /\ ~cmd_ok[w] /\ pc[w] # "done"

(* w is at d, or will come to it before it is done.                        *)
Attends(w, d) ==
  \/ pc[w] \notin {"pause", "done"} /\ (dev[w] = CmdDev \/ d = DataDev)
  \/ AnotherRound(w)

(* The loss of d's listener is on its way to a worker: in a descriptor, in *)
(* the queue, at the main thread, or in a worker about to be started.      *)
Reported(d) ==
  \/ fd[d] = "dead"
  \/ \E i \in DOMAIN queue : queue[i] = d
  \/ handling = d
  \/ cpc[Main] = "spawn"

Attended(d) == \E w \in Active : Attends(w, d)
Covered(d) == Works(d) \/ d \in unwatched \/ Reported(d) \/ Attended(d)
Started(d) == boot = "up" \/ (boot = "data" /\ d = CmdDev)

(* The strengthening of QuietMeansServed: at any time, quiet or not, each  *)
(* device whose listener init() has started works, or somebody is on it.   *)
AllCovered == \A d \in Dev : Started(d) => Covered(d)
CoverInv == WorkerPlace /\ AllCovered

LEMMA UnwatchKeeps ==
  ASSUME NEW lost, Unwatch(lost), NEW d \in unwatched \cup lost
  PROVE  d \in unwatched' \/ Works(d)'
  BY DEF Unwatch

(* A step after which the state still says of d what it said before.       *)
LEMMA CoverFrame ==
  ASSUME NEW d \in Dev, Covered(d),
         Works(d) => Works(d)' \/ d \in unwatched',
         d \in unwatched => Works(d)' \/ d \in unwatched',
         Reported(d) => Reported(d)' \/ Works(d)' \/ d \in unwatched' \/ Attended(d)',
         UNCHANGED <<pc, dev, cmd_ok, round>>
  PROVE  Covered(d)'
<1>1. Attended(d)' = Attended(d)
  BY DEF Attended, Active, Attends, AnotherRound
<1>2. QED BY <1>1 DEF Covered

LEMMA PlaceFrame ==
  ASSUME WorkerPlace, UNCHANGED <<pc, dev>>
  PROVE  WorkerPlace'
  BY DEF WorkerPlace

(* Listeners that are not touched work as before.                          *)
LEMMA WorksFrame ==
  ASSUME NEW d \in Dev, UNCHANGED procVars
  PROVE  Works(d)' = Works(d)
  BY DEF Works, procVars

(* The worker leaves a device that it attends only when its listener works *)
(* or when the loss is one of those that count as unwatched.               *)
LEMMA WorkerAttends ==
  ASSUME NEW w \in Worker, TypeOK, WorkerPlace, Recover(w), NEW d \in Dev,
         pc[w] # "off", Attends(w, d)
  PROVE  Works(d)' \/ d \in unwatched' \/ (pc'[w] # "off" /\ Attends(w, d)')
<1> w \in Runner BY DEF Runner
<1> USE DevAssumption, RoundsAssumption DEF TypeOK, Goto, Attends, AnotherRound
<1>1. dev[w] = CmdDev \/ dev[w] = DataDev BY DevIs
<1>2. d = CmdDev \/ d = DataDev BY DevIs
<1>3. CASE EnsureAlive(w) /\ Unwatch({dev[w]})
  <2>1. d = dev[w] => Works(d)' \/ d \in unwatched' BY <1>3, UnwatchKeeps
  <2>2. CASE d # dev[w] /\ dev[w] = CmdDev
    BY <1>2, <1>3, <2>2 DEF EnsureAlive, EnsureReturns
  <2>3. CASE d # dev[w] /\ dev[w] = DataDev
    BY <1>2, <1>3, <2>3 DEF EnsureAlive, EnsureReturns
  <2>4. QED BY <1>1, <2>1, <2>2, <2>3
<1>4. CASE EnsureDead(w)
  BY <1>4 DEF EnsureDead
<1>5. CASE EnsureRecheck(w) /\ Unwatch(If(Alive(dev[w]) \/ round[w] = MaxRounds, dev[w]))
  <2>1. CASE Alive(dev[w]) \/ round[w] = MaxRounds
    <3>1. d = dev[w] => Works(d)' \/ d \in unwatched'
      BY <1>5, <2>1, UnwatchKeeps DEF If
    <3>2. CASE d # dev[w] /\ dev[w] = CmdDev
      BY <1>2, <1>5, <3>2 DEF EnsureRecheck, EnsureReturns
    <3>3. CASE d # dev[w] /\ dev[w] = DataDev
      BY <1>2, <1>5, <3>3 DEF EnsureRecheck, EnsureReturns
    <3>4. QED BY <1>1, <3>1, <3>2, <3>3
  <2>2. CASE ~Alive(dev[w]) /\ round[w] # MaxRounds
    <3>1. round[w] < MaxRounds BY <2>2
    <3>2. EnsureReturns(w, Alive(dev[w])) BY <1>5 DEF EnsureRecheck
    <3>3. CASE dev[w] = CmdDev
      BY <1>5, <2>2, <3>1, <3>2, <3>3 DEF EnsureRecheck, EnsureReturns
    <3>4. CASE dev[w] = DataDev
      BY <1>5, <2>2, <3>1, <3>2, <3>4 DEF EnsureRecheck, EnsureReturns
    <3>5. QED BY <1>1, <3>3, <3>4
  <2>3. QED BY <2>1, <2>2
<1>6. CASE NextRound(w)
  BY <1>1, <1>6 DEF NextRound, RoundsLeft
<1>7. CASE WorkerFinish(w)
  BY <1>7 DEF WorkerFinish
<1>8. CASE Restart(w)
  <2>1. /\ pc[w] \notin {"pause", "done"} /\ pc'[w] \notin {"pause", "done", "off"}
        /\ UNCHANGED <<dev, cmd_ok, round>>
    BY <1>8 DEF Restart, LockDev, StopDead, StopAlive, WaitTerminated, WaitKilled,
       PopAndRelease, RestartStart
  <2>2. QED BY <2>1
<1>9. QED
  BY <1>3, <1>4, <1>5, <1>6, <1>7, <1>8 DEF Recover

LEMMA WorkerPlaceStep ==
  ASSUME NEW w \in Worker, TypeOK, WorkerPlace, WorkerStep(w)
  PROVE  WorkerPlace'
<1> w \in Runner BY DEF Runner
<1> USE DEF TypeOK, Goto
<1>1. \A v \in Worker : v # w => pc'[v] = pc[v] /\ dev'[v] = dev[v]
  BY DEF WorkerStep, Restart, LockDev, StopDead, StopAlive, WaitTerminated, WaitKilled,
     PopAndRelease, RestartStart, EnsureAlive, EnsureDead, EnsureRecheck, EnsureReturns,
     NextRound, WorkerFinish, Runner
<1>2. dev[w] = CmdDev \/ dev[w] = DataDev BY DevIs
<1>3. /\ pc'[w] = "off" => dev'[w] = CmdDev
      /\ pc'[w] \in {"pause", "done"} => dev'[w] = DataDev
  <2>1. CASE Restart(w)
    BY <2>1 DEF Restart, LockDev, StopDead, StopAlive, WaitTerminated, WaitKilled,
       PopAndRelease, RestartStart
  <2>2. CASE EnsureAlive(w) \/ EnsureDead(w) \/ EnsureRecheck(w)
    BY <1>2, <2>2, DevAssumption DEF EnsureAlive, EnsureDead, EnsureRecheck, EnsureReturns
  <2>3. CASE NextRound(w) \/ WorkerFinish(w)
    BY <2>3 DEF NextRound, WorkerFinish, WorkerPlace
  <2>4. QED BY <2>1, <2>2, <2>3 DEF WorkerStep
<1>4. QED BY <1>1, <1>3 DEF WorkerPlace

LEMMA CoverRecover ==
  ASSUME NEW w \in Worker, ListenerInv, LinkInv, CoverInv, Recover(w)
  PROVE  CoverInv'
<1> USE DEF CoverInv
<1>1. WorkerStep(w) BY DEF Recover, WorkerStep
<1>2. TypeOK BY DEF ListenerInv, FlightInv
<1>3. WorkerPlace' BY <1>1, <1>2, WorkerPlaceStep
<1>4. /\ \A d \in Dev : Works(d) => Works(d)'
      /\ pc[w] # "off" /\ boot = "up" /\ cpc' = cpc
  BY <1>1, RecoverSpares
<1>5. ASSUME NEW d \in Dev PROVE Covered(d)'
  <2>1. Covered(d) BY <1>4 DEF AllCovered, Started
  <2>2. d \in unwatched => Works(d)' \/ d \in unwatched'
    BY UnwatchKeeps DEF Recover
  <2>3. Reported(d)' = Reported(d) BY <1>4 DEF Reported, Recover, linkVars
  <2>4. CASE Attended(d)
    <3>1. PICK v \in Active : Attends(v, d) BY <2>4 DEF Attended
    <3>2. v = w BY <1>4, WorkerAlone DEF Active
    <3>3. Works(d)' \/ d \in unwatched' \/ (pc'[w] # "off" /\ Attends(w, d)')
      BY <1>2, <1>4, <3>1, <3>2, WorkerAttends
    <3>4. QED BY <3>3 DEF Covered, Attended, Active
  <2>5. QED BY <1>4, <2>1, <2>2, <2>3, <2>4 DEF Covered
<1>6. QED BY <1>3, <1>5 DEF AllCovered

(* The one way on to a worker for a report: queue, main thread, worker.    *)
LEMMA CoverHandle ==
  ASSUME LinkInv, ListenerInv, CoverInv, Handle
  PROVE  CoverInv'
<1> USE DEF CoverInv
<1>1. /\ queue # <<>> /\ handling' = Head(queue) /\ queue' = Tail(queue)
      /\ boot = "up" /\ cpc[Main] = "idle" /\ UNCHANGED <<fd, unwatched, procVars>>
      /\ UNCHANGED <<pc, dev, cmd_ok, round>>
  BY DEF Handle, TriggerEnter, runnerVars
<1>2. queue \in Seq(Dev) /\ handling = None BY <1>1 DEF LinkInv, LinkTypeOK
<1>3. WorkerPlace' BY <1>1, PlaceFrame
<1>4. ASSUME NEW d \in Dev PROVE Covered(d)'
  <2>1. Covered(d) BY <1>1 DEF AllCovered, Started
  <2>2. d # None BY NoneAssumption
  <2>3. ASSUME NEW i \in DOMAIN queue, queue[i] = d PROVE Reported(d)'
    <3>1. CASE i = 1 BY <1>1, <1>2, <2>3, <3>1 DEF Reported
    <3>2. CASE i # 1
      <4>1. i - 1 \in DOMAIN queue' /\ queue'[i - 1] = d
        BY <1>1, <1>2, <2>3, <3>2
      <4>2. QED BY <4>1 DEF Reported
    <3>3. QED BY <3>1, <3>2
  <2>4. Reported(d) => Reported(d)'
    <3>1. fd[d] = "dead" => Reported(d)' BY <1>1 DEF Reported
    <3>2. QED BY <1>1, <1>2, <2>2, <2>3, <3>1 DEF Reported
  <2>5. QED BY <1>1, <2>1, <2>4, CoverFrame, WorksFrame
<1>5. QED BY <1>3, <1>4 DEF AllCovered

LEMMA CoverTrigger ==
  ASSUME LinkInv, ListenerInv, CoverInv, Trigger
  PROVE  CoverInv'
<1> USE DEF CoverInv
<1>1. TypeOK /\ boot = "up" /\ boot' = "up" /\ UNCHANGED <<fd, queue, procVars>>
  BY MainCalls
  DEF Trigger, TriggerSkip, TriggerSpawn, TriggerSeesIdle, TriggerAccept,
      ListenerInv, ListenerParts, FlightInv, BootAlone
<1>2. \A d \in Dev : Covered(d) BY <1>1 DEF AllCovered, Started
<1>3. \A d \in Dev : Works(d)' = Works(d) BY <1>1, WorksFrame
<1>4. CASE TriggerSkip(Main) /\ After
           /\ Unwatch(If(\E w \in Active : ~WillVisit(w, handling), handling))
  <2>1. /\ cpc[Main] = "check" /\ running /\ UNCHANGED <<pc, dev, cmd_ok, round>>
    BY <1>4 DEF TriggerSkip, runnerVars
  <2>2. WorkerPlace' BY <2>1, PlaceFrame
  <2>3. Active # {}
    BY <2>1, MainCalls DEF ListenerInv, FlightInv, OneRecovery
  <2>4. ASSUME NEW d \in Dev PROVE Covered(d)'
    <3>1. d \in unwatched => Works(d)' \/ d \in unwatched' BY <1>4, UnwatchKeeps
    <3>2. CASE handling = d
      <4>1. CASE \E w \in Active : ~WillVisit(w, handling)
        <5>1. d \in If(\E w \in Active : ~WillVisit(w, handling), handling)
          BY <3>2, <4>1 DEF If
        <5>2. QED BY <1>4, <5>1, UnwatchKeeps DEF Covered
      <4>2. CASE \A w \in Active : WillVisit(w, handling)
        <5>1. PICK w \in Active : WillVisit(w, d) BY <2>3, <3>2, <4>2
        <5>2. Attends(w, d)
          BY <5>1, DevIs, DevAssumption DEF WillVisit, Attends, WorkerPlace, Active
        <5>3. Attended(d)' BY <2>1, <5>2 DEF Attended, Active, Attends, AnotherRound
        <5>4. QED BY <5>3 DEF Covered
      <4>3. QED BY <4>1, <4>2
    <3>3. CASE handling # d
      <4>1. Reported(d) => Reported(d)' BY <1>1, <2>1, <3>3 DEF Reported
      <4>2. QED BY <1>2, <1>3, <2>1, <3>1, <4>1, CoverFrame
    <3>4. QED BY <3>2, <3>3
  <2>5. QED BY <2>2, <2>4 DEF AllCovered
<1>5. CASE TriggerSpawn(Main) /\ After
  <2>1. PICK w \in Worker : pc[w] = "off" /\ pc' = [pc EXCEPT ![w] = "ensure"]
    BY <1>5 DEF TriggerSpawn, Goto
  <2>2. dev' = dev BY <1>5 DEF TriggerSpawn
  <2>3. w \in Runner /\ dev[w] = CmdDev BY <2>1 DEF WorkerPlace, Runner
  <2>4. pc'[w] = "ensure" /\ \A v \in Worker : v # w => pc'[v] = pc[v]
    BY <1>1, <2>1, <2>3 DEF TypeOK, Runner
  <2>5. WorkerPlace' BY <2>2, <2>4 DEF WorkerPlace
  <2>6. \A d \in Dev : Attended(d)'
    BY <2>2, <2>3, <2>4 DEF Attended, Active, Attends
  <2>7. QED BY <2>5, <2>6 DEF AllCovered, Covered
<1>6. CASE (TriggerSeesIdle(Main) \/ TriggerAccept(Main)) /\ UNCHANGED <<handling, unwatched>>
  <2>1. /\ UNCHANGED <<pc, dev, cmd_ok, round>> /\ cpc[Main] # "spawn"
    BY <1>6 DEF TriggerSeesIdle, TriggerAccept, runnerVars
  <2>2. WorkerPlace' BY <2>1, PlaceFrame
  <2>3. ASSUME NEW d \in Dev PROVE Covered(d)'
    <3>1. Reported(d) => Reported(d)' BY <1>1, <1>6, <2>1 DEF Reported
    <3>2. QED BY <1>2, <1>3, <1>6, <2>1, <3>1, CoverFrame
  <2>4. QED BY <2>2, <2>3 DEF AllCovered
<1>7. QED BY <1>4, <1>5, <1>6 DEF Trigger

(* A transport: what it notices it reports, or counts as unwatched.        *)
LEMMA CoverTransport ==
  ASSUME LinkInv, CoverInv, NEW e \in Dev,
         Open(e) \/ ReportLost(e) \/ CloseSilently(e)
  PROVE  CoverInv'
<1> USE DEF CoverInv, LinkInv, LinkTypeOK
<1>1. UNCHANGED vars /\ handling' = handling
  BY DEF Open, ReportLost, CloseSilently
<1>2. /\ UNCHANGED <<boot, procVars, cpc, pc, dev, cmd_ok, round>>
  BY <1>1 DEF vars, gateVars, runnerVars
<1>3. WorkerPlace' BY <1>2, PlaceFrame
<1>4. ASSUME NEW d \in Dev, Covered(d) PROVE Covered(d)'
  <2>1. Works(d)' = Works(d) BY <1>2, WorksFrame
  <2>2. CASE Open(e)
    <3>1. fd[d] = "dead" => fd'[d] = "dead" BY <2>2 DEF Open
    <3>2. Reported(d) => Reported(d)' BY <1>1, <1>2, <2>2, <3>1 DEF Reported, Open
    <3>3. QED BY <1>2, <1>4, <2>1, <2>2, <3>2, CoverFrame DEF Open
  <2>3. CASE ReportLost(e)
    <3>1. queue' = Append(queue, e) /\ fd' = [fd EXCEPT ![e] = "none"]
          /\ unwatched' = unwatched
      BY <2>3 DEF ReportLost, Emit
    <3>2. \A i \in DOMAIN queue : i \in DOMAIN queue' /\ queue'[i] = queue[i]
      BY <3>1
    <3>3. Len(queue) + 1 \in DOMAIN queue' /\ queue'[Len(queue) + 1] = e
      BY <3>1
    <3>4. Reported(d) => Reported(d)' BY <1>1, <1>2, <3>1, <3>2, <3>3 DEF Reported
    <3>5. QED BY <1>2, <1>4, <2>1, <3>1, <3>4, CoverFrame
  <2>4. CASE CloseSilently(e)
    <3>1. /\ fd' = [fd EXCEPT ![e] = "none"] /\ queue' = queue
          /\ Unwatch(If(fd[e] = "dead", e))
      BY <2>4 DEF CloseSilently
    <3>2. d \in unwatched => Works(d)' \/ d \in unwatched' BY <3>1, UnwatchKeeps
    <3>3. fd[d] = "dead" => Works(d)' \/ d \in unwatched' \/ fd'[d] = "dead"
      BY <3>1, UnwatchKeeps DEF If
    <3>4. Reported(d) => Reported(d)' \/ Works(d)' \/ d \in unwatched'
      BY <1>1, <1>2, <3>1, <3>3 DEF Reported
    <3>5. QED BY <1>2, <1>4, <2>1, <3>2, <3>4, CoverFrame
  <2>5. QED BY <2>2, <2>3, <2>4
<1>5. QED BY <1>2, <1>3, <1>4 DEF AllCovered, Started

(* A process that ends, or loses its link, leaves a dead descriptor or is  *)
(* counted; one that is connected or reaped changes nobody's handle.       *)
LEMMA CoverProcess ==
  ASSUME LinkInv, ListenerInv, CoverInv, NEW p \in Pid,
         Phone(p) \/ Drop(p) \/ ProcessExit(p)
  PROVE  CoverInv'
<1> USE DEF CoverInv
<1>1. TypeOK /\ fd \in [Dev -> {"none", "open", "dead"}]
      /\ UNCHANGED <<boot, rfcomm_procs, queue, handling, cpc, pc, dev, cmd_ok, round>>
  BY DEF Phone, Drop, ProcessExit, Connect, Reap, LinkDrop, Exit, linkVars, gateVars,
     runnerVars, LinkInv, LinkTypeOK
<1>2. WorkerPlace' BY <1>1, PlaceFrame
<1>3. \A q \in Pid : q # p => pst'[q] = pst[q] /\ pdev'[q] = pdev[q]
  BY <1>1 DEF Phone, Drop, ProcessExit, Connect, Reap, LinkDrop, Exit, TypeOK
<1>4. ASSUME NEW d \in Dev, Covered(d) PROVE Covered(d)'
  <2>1. rfcomm_procs[d] # p /\ Works(d) => Works(d)'
    BY <1>1, <1>3, NoneAssumption DEF Works, TypeOK
  <2>2. CASE Phone(p)
    <3>1. UNCHANGED <<fd, queue, handling, unwatched>> BY <2>2 DEF Phone, linkVars
    <3>2. Works(d) => Works(d)'
      <4>1. CASE Connect(p) BY <1>1, <2>1, <4>1 DEF Connect, Works, TypeOK
      <4>2. CASE Reap(p) BY <2>1, <4>2 DEF Reap
      <4>3. QED BY <2>2, <4>1, <4>2 DEF Phone
    <3>3. Reported(d)' = Reported(d) BY <1>1, <3>1 DEF Reported
    <3>4. QED BY <1>1, <1>4, <3>1, <3>2, <3>3, CoverFrame
  <2>3. CASE Drop(p) \/ ProcessExit(p)
    <3>1. PICK lost :
            /\ Unwatch(lost) /\ Cut(p)
            /\ pst[p] = "listening" => pdev[p] \in lost
            /\ pst[p] = "connected" => fd[pdev[p]] # "none" \/ pdev[p] \in lost
      <4>1. CASE Drop(p) BY <4>1 DEF Drop, LinkDrop, If
      <4>2. CASE ProcessExit(p) BY <4>2 DEF ProcessExit, If
      <4>3. QED BY <2>3, <4>1, <4>2
    <3>2. fd[d] = "dead" => fd'[d] = "dead" BY <3>1 DEF Cut
    <3>3. d \in unwatched => Works(d)' \/ d \in unwatched' BY <3>1, UnwatchKeeps
    <3>4. CASE rfcomm_procs[d] = p /\ Works(d)
      <4>1. pdev[p] = d /\ pst[p] \in {"listening", "connected"}
        BY <3>4 DEF Works, ListenerInv, ListenerParts, HandlesMatch
      <4>2. d \in lost \/ (pst[p] = "connected" /\ fd[d] # "none")
        BY <3>1, <4>1
      <4>3. pst[p] = "connected" /\ fd[d] # "none" => fd'[d] = "dead"
        BY <1>1, <3>1, <4>1 DEF Cut
      <4>4. QED BY <3>1, <4>2, <4>3, UnwatchKeeps DEF Covered, Reported
    <3>5. CASE ~(rfcomm_procs[d] = p /\ Works(d))
      <4>1. Reported(d) => Reported(d)' BY <1>1, <3>2 DEF Reported
      <4>2. QED BY <1>1, <1>4, <2>1, <3>3, <3>5, <4>1, CoverFrame
    <3>6. QED BY <3>4, <3>5
  <2>4. QED BY <2>2, <2>3
<1>5. QED BY <1>1, <1>2, <1>4 DEF AllCovered, Started

(* init(): a listener that cannot be started is counted.                   *)
LEMMA CoverBoot ==
  ASSUME LinkInv, ListenerInv, CoverInv, Boot
  PROVE  CoverInv'
<1> DEFINE lost == {d \in Dev : boot = IF d = CmdDev THEN "cmd" ELSE "data"}
<1> USE DEF CoverInv
<1>1. /\ UNCHANGED <<fd, queue, handling, cpc, pc, dev, cmd_ok, round>>
      /\ Unwatch(lost)
  BY DEF Boot, BootKill, BootStart, linkVars, gateVars, runnerVars
<1>2. WorkerPlace' BY <1>1, PlaceFrame
<1>3. CASE BootKill BY <1>2, <1>3 DEF BootKill, AllCovered, Started
<1>4. CASE BootStart
  <2>1. CASE boot = "cmd"
    <3>1. boot' = "data" BY <1>4, <2>1 DEF BootStart
    <3>2. CmdDev \in lost BY <2>1, DevMembers
    <3>3. Covered(CmdDev)' BY <1>1, <3>2, UnwatchKeeps DEF Covered
    <3>4. QED BY <1>2, <3>1, <3>3 DEF AllCovered, Started
  <2>2. CASE boot = "data"
    <3>1. StartListener(DataDev) BY <1>4, <2>2 DEF BootStart
    <3>2. DataDev \in lost BY <2>2, DevMembers, DevAssumption
    <3>3. Covered(DataDev)' BY <1>1, <3>2, UnwatchKeeps DEF Covered
    <3>4. TypeOK /\ Covered(CmdDev)
      BY <2>2, DevMembers DEF AllCovered, Started, ListenerInv, FlightInv
    <3>5. Works(CmdDev) => Works(CmdDev)'
      BY <3>1, <3>4, DevMembers, DevAssumption DEF StartListener, Works, TypeOK
    <3>6. CmdDev \in unwatched => Works(CmdDev)' \/ CmdDev \in unwatched'
      BY <1>1, UnwatchKeeps
    <3>7. Reported(CmdDev)' = Reported(CmdDev) BY <1>1 DEF Reported
    <3>8. Covered(CmdDev)'
      BY <1>1, <3>4, <3>5, <3>6, <3>7, DevMembers, CoverFrame
    <3>9. QED BY <1>2, <3>3, <3>8, DevIs DEF AllCovered
  <2>3. QED BY <1>4, <2>1, <2>2 DEF BootStart
<1>5. QED BY <1>3, <1>4 DEF Boot

LEMMA CoverInvariant ==
  ASSUME Checker = {}
  PROVE  LinkSpec => []CoverInv
<1>1. LinkInit => CoverInv
  BY DevMembers
  DEF LinkInit, Init, CoverInv, WorkerPlace, AllCovered, Started, Runner
<1>2. ASSUME LinkInv /\ ListenerInv, CoverInv, [LinkNext]_allVars PROVE CoverInv'
  <2>1. CASE UNCHANGED allVars
    <3>1. UNCHANGED <<boot, procVars, cpc, fd, queue, handling, unwatched, pc, dev, cmd_ok,
                      round>>
      BY <2>1 DEF allVars, vars, linkVars, gateVars, runnerVars
    <3>2. ASSUME NEW d \in Dev, Covered(d) PROVE Covered(d)'
      <4>1. Reported(d)' = Reported(d) BY <3>1 DEF Reported
      <4>2. QED BY <3>1, <3>2, <4>1, WorksFrame, CoverFrame
    <3>3. QED
      BY <1>2, <3>1, <3>2, PlaceFrame DEF CoverInv, AllCovered, Started
  <2>2. QED
    BY <1>2, <2>1, CoverBoot, CoverHandle, CoverTrigger, CoverTransport, CoverProcess,
       CoverRecover DEF LinkNext
<1>3. QED
  BY <1>1, <1>2, LinkInvariant, PTL DEF LinkSpec

(* QuietMeansServed: with any number of rounds and events, the loss of a   *)
(* listener is never forgotten between the reader, the queue, the main     *)
(* thread and the worker, but in the ways that `unwatched` names.          *)
THEOREM NoListenerForgotten ==
  ASSUME Checker = {}
  PROVE  LinkSpec => []QuietMeansServed
<1>1. ASSUME LinkInv, CoverInv PROVE QuietMeansServed
  <2> SUFFICES ASSUME boot = "up", queue = <<>>, handling = None, Active = {},
                      NEW d \in Dev
               PROVE  Works(d) \/ fd[d] = "dead" \/ d \in unwatched
    BY DEF QuietMeansServed
  <2>1. Covered(d) BY <1>1 DEF CoverInv, AllCovered, Started
  <2>2. cpc[Main] = "idle" BY <1>1 DEF LinkInv, LinkTypeOK
  <2>3. ~Attended(d) BY DEF Attended
  <2>4. d # None BY NoneAssumption
  <2>5. QED BY <2>1, <2>2, <2>3, <2>4 DEF Covered, Reported
<1>2. QED
  BY <1>1, LinkInvariant, CoverInvariant, PTL
=============================================================================
