--------------------------- MODULE RfcommRecovery ---------------------------
(***************************************************************************)
(* BtInitializer of bt_init.py: the two "rfcomm listen" child processes,   *)
(* the table rfcomm_procs of their handles, and the threads that restart   *)
(* them.  A thread of Caller runs trigger_rfcomm_recovery, a thread of     *)
(* Worker runs _rfcomm_recovery_worker, a thread of Checker runs           *)
(* check_rfcomm_listener.  One action is one stretch of code between two   *)
(* points where another thread or a child process can be observed: a lock, *)
(* a sleep, a poll of a child, an unlocked write of shared state.          *)
(*                                                                         *)
(* The processes themselves are external: they connect, hang up, ignore a  *)
(* signal for a while and exit when they like.  The server process may     *)
(* crash at any point; its listeners survive it (start_new_session).       *)
(***************************************************************************)
EXTENDS Naturals, FiniteSets

CONSTANTS
  CmdDev, DataDev,  (* /dev/rfcomm0 and /dev/rfcomm1                          *)
  Pid,              (* process identities the operating system hands out      *)
  Worker,           (* identities of recovery worker threads                  *)
  Caller,           (* threads that call trigger_rfcomm_recovery              *)
  Checker,          (* threads that call check_rfcomm_listener (none in src/) *)
  MaxRounds,        (* max_rounds of the worker, 10 in the code               *)
  None

Dev == {CmdDev, DataDev}
Runner == Worker \cup Checker

ASSUME DevAssumption == CmdDev # DataDev
ASSUME NoneAssumption ==
  None \notin Pid \cup Worker \cup Caller \cup Checker \cup Dev
ASSUME ThreadAssumption ==
  /\ Worker \cap Caller = {}
  /\ Worker \cap Checker = {}
ASSUME RoundsAssumption == MaxRounds \in Nat \ {0}

VARIABLES
  boot,         (* how far init() is: "down", "cmd", "data", "up"           *)
  rfcomm_procs, (* handle of each device's listener, or None                *)
  pst,          (* what each process is doing                               *)
  pdev,         (* the device each process was started for, None when free  *)
  running,      (* _rfcomm_recovery_running                                 *)
  gate,         (* holder of _rfcomm_recovery_lock                          *)
  cpc,          (* program counter of each caller                           *)
  devlock,      (* holder of rfcomm_locks[dev]                              *)
  pc,           (* program counter of each runner                           *)
  dev,          (* the device a runner is at                                *)
  target,       (* local `proc` of stop_rfcomm_listener                     *)
  cmd_ok,       (* local of the worker                                      *)
  round         (* round_idx of the worker                                  *)

procVars   == <<rfcomm_procs, pst, pdev>>
gateVars   == <<running, gate, cpc>>
runnerVars == <<devlock, pc, dev, target, cmd_ok, round>>
vars == <<boot, procVars, gateVars, runnerVars>>

BootStep   == {"down", "cmd", "data", "up"}
ProcState  == {"free", "listening", "connected", "hangup", "term", "exited"}
Serving    == {"listening", "connected", "hangup"}  \* not told to stop
LiveState  == Serving \cup {"term"}                 \* poll() is None
CallerPc   == {"idle", "check", "set", "spawn"}
RunnerPc   == {"off", "ensure", "probe", "drop", "lock", "stop", "term", "kill",
               "pop", "start", "recheck", "pause", "done"}

Init ==
  /\ boot = "down"
  /\ rfcomm_procs = [d \in Dev |-> None]
  /\ pst = [p \in Pid |-> "free"]
  /\ pdev = [p \in Pid |-> None]
  /\ running = FALSE
  /\ gate = None
  /\ cpc = [c \in Caller |-> "idle"]
  /\ devlock = [d \in Dev |-> None]
  /\ pc = [t \in Runner |-> "off"]
  /\ dev = [t \in Runner |-> CmdDev]
  /\ target = [t \in Runner |-> None]
  /\ cmd_ok = [t \in Runner |-> TRUE]
  /\ round = [t \in Runner |-> 1]

Goto(t, label) == pc' = [pc EXCEPT ![t] = label]

-----------------------------------------------------------------------------
(* Listener processes: Popen, poll, and what they do on their own.         *)

Alive(d) == rfcomm_procs[d] # None /\ pst[rfcomm_procs[d]] \in LiveState

(* start_rfcomm_listener: Popen makes a process and its handle is stored,  *)
(* or Popen raises and the entry is popped.                                *)
StartListener(d) ==
  \/ \E p \in Pid :
       /\ pst[p] = "free"
       /\ pst' = [pst EXCEPT ![p] = "listening"]
       /\ pdev' = [pdev EXCEPT ![p] = d]
       /\ rfcomm_procs' = [rfcomm_procs EXCEPT ![d] = p]
  \/ /\ rfcomm_procs' = [rfcomm_procs EXCEPT ![d] = None]
     /\ UNCHANGED <<pst, pdev>>

(* A phone opens the channel of the one process that accepts on it. *)
Connect(p) ==
  /\ pst[p] = "listening"
  /\ \A q \in Pid : pdev[q] = pdev[p] => pst[q] # "connected"
  /\ pst' = [pst EXCEPT ![p] = "connected"]
  /\ UNCHANGED <<boot, rfcomm_procs, pdev, gateVars, runnerVars>>

(* The link goes down; the process has not noticed yet. *)
LinkDrop(p) ==
  /\ pst[p] = "connected"
  /\ pst' = [pst EXCEPT ![p] = "hangup"]
  /\ UNCHANGED <<boot, rfcomm_procs, pdev, gateVars, runnerVars>>

Exit(p) ==
  /\ pst[p] \in LiveState
  /\ pst' = [pst EXCEPT ![p] = "exited"]
  /\ UNCHANGED <<boot, rfcomm_procs, pdev, gateVars, runnerVars>>

(* An exited process nobody holds a handle of is reaped, its pid reused. *)
Reap(p) ==
  /\ pst[p] = "exited"
  /\ \A d \in Dev : rfcomm_procs[d] # p
  /\ \A t \in Runner : target[t] # p
  /\ pst' = [pst EXCEPT ![p] = "free"]
  /\ pdev' = [pdev EXCEPT ![p] = None]
  /\ UNCHANGED <<boot, rfcomm_procs, gateVars, runnerVars>>

-----------------------------------------------------------------------------
(* init(): pkill the listeners an earlier run left behind, start new ones. *)

KillNothing(p) == pst[p]  \* fault: pkill -f "rfcomm listen" is lost
Killed(p) == IF pst[p] \in Serving THEN "term" ELSE pst[p]

BootKill ==
  /\ boot = "down"
  /\ boot' = "cmd"
  /\ pst' = [p \in Pid |-> Killed(p)]
  /\ UNCHANGED <<rfcomm_procs, pdev, gateVars, runnerVars>>

BootStart ==
  /\ boot \in {"cmd", "data"}
  /\ StartListener(IF boot = "cmd" THEN CmdDev ELSE DataDev)
  /\ boot' = IF boot = "cmd" THEN "data" ELSE "up"
  /\ UNCHANGED <<gateVars, runnerVars>>

(* The server process dies: every thread, lock and handle is gone, the     *)
(* listeners live on.                                                      *)
Crash ==
  /\ boot # "down"
  /\ boot' = "down"
  /\ rfcomm_procs' = [d \in Dev |-> None]
  /\ running' = FALSE
  /\ gate' = None
  /\ cpc' = [c \in Caller |-> "idle"]
  /\ devlock' = [d \in Dev |-> None]
  /\ pc' = [t \in Runner |-> "off"]
  /\ dev' = [t \in Runner |-> CmdDev]
  /\ target' = [t \in Runner |-> None]
  /\ cmd_ok' = [t \in Runner |-> TRUE]
  /\ round' = [t \in Runner |-> 1]
  /\ UNCHANGED <<pst, pdev>>

-----------------------------------------------------------------------------
(* trigger_rfcomm_recovery *)

GateIgnored == TRUE  \* fault: the `with self._rfcomm_recovery_lock` is lost
GateFree == gate = None

TriggerEnter(c) ==
  /\ boot = "up"
  /\ cpc[c] = "idle"
  /\ GateFree
  /\ gate' = c
  /\ cpc' = [cpc EXCEPT ![c] = "check"]
  /\ UNCHANGED <<boot, procVars, running, runnerVars>>

(* "rfcomm recovery already running, skip" *)
TriggerSkip(c) ==
  /\ cpc[c] = "check"
  /\ running
  /\ gate' = None
  /\ cpc' = [cpc EXCEPT ![c] = "idle"]
  /\ UNCHANGED <<boot, procVars, running, runnerVars>>

TriggerSeesIdle(c) ==
  /\ cpc[c] = "check"
  /\ ~running
  /\ cpc' = [cpc EXCEPT ![c] = "set"]
  /\ UNCHANGED <<boot, procVars, running, gate, runnerVars>>

TriggerAccept(c) ==
  /\ cpc[c] = "set"
  /\ running' = TRUE
  /\ gate' = None
  /\ cpc' = [cpc EXCEPT ![c] = "spawn"]
  /\ UNCHANGED <<boot, procVars, runnerVars>>

(* threading.Thread(target=self._rfcomm_recovery_worker).start() *)
TriggerSpawn(c) ==
  /\ cpc[c] = "spawn"
  /\ \E w \in Worker :
       /\ pc[w] = "off"
       /\ Goto(w, "ensure")
  /\ cpc' = [cpc EXCEPT ![c] = "idle"]
  /\ UNCHANGED <<boot, procVars, running, gate, devlock, dev, target, cmd_ok, round>>

-----------------------------------------------------------------------------
(* restart_rfcomm_listener, run by a recovery worker or by a checker *)

DevIgnored(d) == TRUE  \* fault: the `with lock` of restart_rfcomm_listener is lost
DevFree(d) == devlock[d] = None

LockDev(t) ==
  /\ pc[t] = "lock"
  /\ DevFree(dev[t])
  /\ devlock' = [devlock EXCEPT ![dev[t]] = t]
  /\ Goto(t, "stop")
  /\ UNCHANGED <<boot, procVars, gateVars, dev, target, cmd_ok, round>>

(* stop_rfcomm_listener(dev_path): no handle, or poll() says it exited *)
StopDead(t) ==
  /\ pc[t] = "stop"
  /\ ~Alive(dev[t])
  /\ Goto(t, "pop")
  /\ UNCHANGED <<boot, procVars, gateVars, devlock, dev, target, cmd_ok, round>>

(* proc.terminate() *)
StopAlive(t) ==
  /\ pc[t] = "stop"
  /\ Alive(dev[t])
  /\ target' = [target EXCEPT ![t] = rfcomm_procs[dev[t]]]
  /\ pst' = [pst EXCEPT ![rfcomm_procs[dev[t]]] = "term"]
  /\ Goto(t, "term")
  /\ UNCHANGED <<boot, rfcomm_procs, pdev, gateVars, devlock, dev, cmd_ok, round>>

(* proc.wait(timeout=2) returns, or raises TimeoutExpired and kill() follows *)
WaitTerminated(t) ==
  /\ pc[t] = "term"
  /\ Goto(t, IF pst[target[t]] = "exited" THEN "pop" ELSE "kill")
  /\ UNCHANGED <<boot, procVars, gateVars, devlock, dev, target, cmd_ok, round>>

(* the second wait returns, or its TimeoutExpired is logged: go on either way *)
WaitKilled(t) ==
  /\ pc[t] = "kill"
  /\ Goto(t, "pop")
  /\ UNCHANGED <<boot, procVars, gateVars, devlock, dev, target, cmd_ok, round>>

(* rfcomm_procs.pop(path), then `rfcomm release dev`, which hangs up a link *)
(* that is still there; pkill 'rfcomm watch' matches none of the listeners. *)
PopAndRelease(t) ==
  /\ pc[t] = "pop"
  /\ rfcomm_procs' = [rfcomm_procs EXCEPT ![dev[t]] = None]
  /\ pst' = [p \in Pid |-> IF pdev[p] = dev[t] /\ pst[p] = "connected"
                           THEN "hangup" ELSE pst[p]]
  /\ target' = [target EXCEPT ![t] = None]
  /\ Goto(t, "start")
  /\ UNCHANGED <<boot, pdev, gateVars, devlock, dev, cmd_ok, round>>

(* a checker goes on to the next device of its loop *)
CheckNext(t) ==
  IF dev[t] = CmdDev
  THEN dev' = [dev EXCEPT ![t] = DataDev] /\ Goto(t, "probe")
  ELSE dev' = [dev EXCEPT ![t] = CmdDev] /\ Goto(t, "off")

(* start_rfcomm_listener after the sleep, and the release of the lock *)
RestartStart(t) ==
  /\ pc[t] = "start"
  /\ StartListener(dev[t])
  /\ devlock' = [devlock EXCEPT ![dev[t]] = None]
  /\ IF t \in Worker THEN Goto(t, "recheck") /\ UNCHANGED dev ELSE CheckNext(t)
  /\ UNCHANGED <<boot, gateVars, target, cmd_ok, round>>

Restart(t) ==
  \/ LockDev(t) \/ StopDead(t) \/ StopAlive(t) \/ WaitTerminated(t)
  \/ WaitKilled(t) \/ PopAndRelease(t) \/ RestartStart(t)

-----------------------------------------------------------------------------
(* _rfcomm_recovery_worker and ensure_rfcomm_listener *)

EnsureShortCircuits(w, b) ==  \* fault: `ensure(cmd) and ensure(data)` in one expression
  IF dev[w] = CmdDev /\ b
  THEN /\ cmd_ok' = [cmd_ok EXCEPT ![w] = b]
       /\ dev' = [dev EXCEPT ![w] = DataDev]
       /\ Goto(w, "ensure")
  ELSE /\ Goto(w, IF b THEN "done" ELSE "pause")
       /\ UNCHANGED <<cmd_ok, dev>>

(* ensure_rfcomm_listener(dev[w]) returns b: cmd first, then data, then    *)
(* `if cmd_ok and data_ok: return`                                         *)
EnsureReturns(w, b) ==
  IF dev[w] = CmdDev
  THEN /\ cmd_ok' = [cmd_ok EXCEPT ![w] = b]
       /\ dev' = [dev EXCEPT ![w] = DataDev]
       /\ Goto(w, "ensure")
  ELSE /\ Goto(w, IF cmd_ok[w] /\ b THEN "done" ELSE "pause")
       /\ UNCHANGED <<cmd_ok, dev>>

EnsureAlive(w) ==
  /\ pc[w] = "ensure"
  /\ Alive(dev[w])
  /\ EnsureReturns(w, TRUE)
  /\ UNCHANGED <<boot, procVars, gateVars, devlock, target, round>>

EnsureAnyway(w) ==  \* fault: the restart does not ask is_rfcomm_listener_alive
  /\ pc[w] = "ensure"
  /\ Goto(w, "lock")
  /\ UNCHANGED <<boot, procVars, gateVars, devlock, dev, target, cmd_ok, round>>

EnsureDead(w) ==
  /\ pc[w] = "ensure"
  /\ ~Alive(dev[w])
  /\ Goto(w, "lock")
  /\ UNCHANGED <<boot, procVars, gateVars, devlock, dev, target, cmd_ok, round>>

EnsureRecheck(w) ==
  /\ pc[w] = "recheck"
  /\ EnsureReturns(w, Alive(dev[w]))
  /\ UNCHANGED <<boot, procVars, gateVars, devlock, target, round>>

NextRoundForever(w) ==  \* fault: `while True` for the bounded loop
  /\ pc[w] = "pause"
  /\ dev' = [dev EXCEPT ![w] = CmdDev]
  /\ Goto(w, "ensure")
  /\ UNCHANGED <<boot, procVars, gateVars, devlock, target, cmd_ok, round>>

OneMore(w) == round[w] <= MaxRounds  \* fault: one round more than max_rounds
RoundsLeft(w) == round[w] < MaxRounds

(* time.sleep(interval_sec), then the next round or "failed after retry" *)
NextRound(w) ==
  /\ pc[w] = "pause"
  /\ IF RoundsLeft(w)
     THEN /\ round' = [round EXCEPT ![w] = @ + 1]
          /\ dev' = [dev EXCEPT ![w] = CmdDev]
          /\ Goto(w, "ensure")
     ELSE Goto(w, "done") /\ UNCHANGED <<round, dev>>
  /\ UNCHANGED <<boot, procVars, gateVars, devlock, target, cmd_ok>>

(* the finally clause; the locals die with the thread *)
WorkerFinish(w) ==
  /\ pc[w] = "done"
  /\ gate = None
  /\ running' = FALSE
  /\ Goto(w, "off")
  /\ dev' = [dev EXCEPT ![w] = CmdDev]
  /\ cmd_ok' = [cmd_ok EXCEPT ![w] = TRUE]
  /\ round' = [round EXCEPT ![w] = 1]
  /\ UNCHANGED <<boot, procVars, gate, cpc, devlock, target>>

-----------------------------------------------------------------------------
(* check_rfcomm_listener: called by nothing in src/, kept as an operation *)

CheckStart(k) ==
  /\ boot = "up"
  /\ pc[k] = "off"
  /\ Goto(k, "probe")
  /\ UNCHANGED <<boot, procVars, gateVars, devlock, dev, target, cmd_ok, round>>

CheckProbe(k) ==
  /\ pc[k] = "probe"
  /\ IF Alive(dev[k]) THEN CheckNext(k) ELSE Goto(k, "drop") /\ UNCHANGED dev
  /\ UNCHANGED <<boot, procVars, gateVars, devlock, target, cmd_ok, round>>

(* rfcomm_procs.pop(dev) outside the device lock *)
CheckDrop(k) ==
  /\ pc[k] = "drop"
  /\ rfcomm_procs' = [rfcomm_procs EXCEPT ![dev[k]] = None]
  /\ Goto(k, "lock")
  /\ UNCHANGED <<boot, pst, pdev, gateVars, devlock, dev, target, cmd_ok, round>>

-----------------------------------------------------------------------------
ProcessStep(p) == Connect(p) \/ LinkDrop(p) \/ Exit(p) \/ Reap(p)

CallerStep(c) ==
  TriggerSkip(c) \/ TriggerSeesIdle(c) \/ TriggerAccept(c) \/ TriggerSpawn(c)

WorkerStep(w) ==
  \/ EnsureAlive(w) \/ EnsureDead(w) \/ EnsureRecheck(w) \/ NextRound(w)
  \/ WorkerFinish(w)
  \/ Restart(w)

CheckerStep(k) == CheckProbe(k) \/ CheckDrop(k) \/ Restart(k)

Next ==
  \/ BootKill \/ BootStart \/ Crash
  \/ \E p \in Pid : ProcessStep(p)
  \/ \E c \in Caller : TriggerEnter(c) \/ CallerStep(c)
  \/ \E w \in Worker : WorkerStep(w)
  \/ \E k \in Checker : CheckStart(k) \/ CheckerStep(k)

Spec == Init /\ [][Next]_vars

(* Every started thread keeps running.  A lock that is free again and      *)
(* again is obtained in the end: the sections under it last microseconds   *)
(* (gate) or end by themselves (devlock), and the requests that compete    *)
(* for it are seconds apart.                                               *)
Fairness ==
  /\ \A c \in Caller : WF_vars(CallerStep(c))
  /\ \A w \in Worker :
       WF_vars(WorkerStep(w)) /\ SF_vars(WorkerFinish(w)) /\ SF_vars(LockDev(w))
  /\ \A k \in Checker : WF_vars(CheckerStep(k)) /\ SF_vars(LockDev(k))

FairSpec == Spec /\ Fairness

(* `rfcomm listen` exits once it notices that its link is gone. *)
HangupExit(p) == pst[p] = "hangup" /\ Exit(p)

LinkFairSpec == FairSpec /\ \A p \in Pid : WF_vars(HangupExit(p))

-----------------------------------------------------------------------------
(* Properties *)

Active == {w \in Worker : pc[w] # "off"}

(* The types of the state: bt_init.py lines 23-28 and the locals of its threads. *)
TypeOK ==
  /\ boot \in BootStep
  /\ rfcomm_procs \in [Dev -> Pid \cup {None}]
  /\ pst \in [Pid -> ProcState]
  /\ pdev \in [Pid -> Dev \cup {None}]
  /\ running \in BOOLEAN
  /\ gate \in Caller \cup {None}
  /\ cpc \in [Caller -> CallerPc]
  /\ devlock \in [Dev -> Runner \cup {None}]
  /\ pc \in [Runner -> RunnerPc]
  /\ dev \in [Runner -> Dev]
  /\ target \in [Runner -> Pid \cup {None}]
  /\ cmd_ok \in [Runner -> BOOLEAN]
  /\ round \in [Runner -> 1..MaxRounds]

(* However many threads report a disconnect at once, at most one recovery  *)
(* worker exists, no second one has been promised, and the flag that turns *)
(* requests away is up exactly while there is a worker to wait for: never  *)
(* stuck up, never down too early.                                         *)
OneRecovery ==
  /\ \A v, w \in Active : v = w
  /\ \A c \in Caller : cpc[c] = "spawn" => Active = {}
  /\ running <=> (Active # {} \/ \E c \in Caller : cpc[c] = "spawn")

(* The part of OneRecovery's induction that the callers carry: the lock    *)
(* stands for the check and the set, so what the check saw still holds.    *)
GateDiscipline ==
  /\ \A c \in Caller : cpc[c] \in {"check", "set"} => gate = c
  /\ \A c \in Caller : cpc[c] = "set" => ~running
  /\ \A b, c \in Caller : cpc[b] = "spawn" /\ cpc[c] = "spawn" => b = c

(* Two threads restarting the same device never interleave the stop of the *)
(* old listener with the start of the new one.                             *)
InRestart == {"stop", "term", "kill", "pop", "start"}
RestartExclusive ==
  \A s, t \in Runner :
    pc[s] \in InRestart /\ pc[t] \in InRestart /\ dev[s] = dev[t] => s = t

(* A listener that has not been told to stop is the one in rfcomm_procs,   *)
(* so no device has two of them and none runs out of the program's reach.  *)
(* (While the server is down the handles are gone and the listeners stay.) *)
HandleCoversListener ==
  boot # "down" =>
    \A p \in Pid : pst[p] \in Serving => rfcomm_procs[pdev[p]] = p

(* Recovery restarts what is dead and nothing else: once init() is over no *)
(* listener is told to stop and no phone's link is cut by the program.     *)
RecoverySparesListeners ==
  [][boot = "up" =>
       \A p \in Pid : pst[p] \in {"listening", "connected"} =>
         \/ pst'[p] \in {"listening", "connected", "exited"}
         \/ LinkDrop(p)]_vars

(* An accepted request finds every dead listener and does not give it up:  *)
(* it is alive again, or it was started again in the last round too,       *)
(* whatever became of the other device, or the server died.                *)
DeadListenerRetried ==
  \A d \in Dev :
    ((\E c \in Caller : cpc[c] = "spawn") /\ ~Alive(d))
      ~> \/ Alive(d)
         \/ \E w \in Worker : pc[w] = "recheck" /\ dev[w] = d /\ round[w] = MaxRounds
         \/ boot = "down"

(* What auto_agent.py:33 says a request does, "kick the dead connection and *)
(* restart listen": a request accepted when the link of p is down brings a  *)
(* listener back, or all rounds were spent on it, or the server died.       *)
HungLinkReset ==
  \A p \in Pid : \A d \in Dev :
    ((\E c \in Caller : cpc[c] = "spawn") /\ pdev[p] = d /\ pst[p] = "hangup")
      ~> \/ \E q \in Pid : pdev[q] = d /\ pst[q] \in {"listening", "connected"}
         \/ \E w \in Worker : pc[w] = "done" /\ round[w] = MaxRounds
         \/ boot = "down"

(* The threads, flag and lock implement the single flight promised. *)
Flight == INSTANCE SingleFlight WITH
  phase <- IF \E c \in Caller : cpc[c] = "spawn" THEN "accepted"
           ELSE IF Active # {} THEN "flying" ELSE "idle",
  flight <- Active

ImplementsSingleFlight == Flight!Spec
=============================================================================
