------------------------------- MODULE BtLink -------------------------------
(***************************************************************************)
(* Bluetooth end to end: the listeners and their recovery (RfcommRecovery), *)
(* a transport per device, and the queue of Qt events that joins them.  A  *)
(* reader that finds its link gone emits bt_disconnected; the main thread  *)
(* handles the event by asking for a recovery, and nobody else asks.       *)
(*                                                                         *)
(* Of BtRfcommTransport this keeps whether self._fd is open and whether    *)
(* the link behind it is up; BtTransport has the rest.  /dev/rfcommN       *)
(* exists while a process of the device is connected.                      *)
(***************************************************************************)
EXTENDS RfcommRecovery, Sequences

CONSTANTS
  Main,      (* the Qt main thread, the one caller                          *)
  MaxQueue   (* bound: events waiting for the main thread                   *)

ASSUME MainAssumption == Caller = {Main}
ASSUME QueueAssumption == MaxQueue \in Nat

VARIABLES
  fd,        (* of each device's transport: "none", "open", or "dead" when  *)
             (* the link it was opened on is gone                           *)
  queue,     (* bt_disconnected events the main thread has not handled      *)
  handling,  (* the device whose event it handles, or None                  *)
  unwatched  (* history: the devices without a working listener about which *)
             (* the one report there was is spent, or never came            *)

linkVars == <<fd, queue, handling>>
allVars == <<vars, linkVars, unwatched>>

LinkInit ==
  /\ Init
  /\ fd = [d \in Dev |-> "none"]
  /\ queue = <<>>
  /\ handling = None
  /\ unwatched = {}

(* A phone is connected to d, or can be. *)
Works(d) == rfcomm_procs[d] # None /\ pst[rfcomm_procs[d]] \in {"listening", "connected"}

LinkUp(d) == \E p \in Pid : pdev[p] = d /\ pst[p] = "connected"

(* p's link goes down; a descriptor open on it stays behind, dead. *)
Cut(p) ==
  fd' = [d \in Dev |-> IF d = pdev[p] /\ pst[p] = "connected" /\ fd[d] = "open"
                       THEN "dead" ELSE fd[d]]

(* This step spends, or does without, the report about the devices of lost. *)
Unwatch(lost) == unwatched' = {d \in unwatched \cup lost : ~Works(d)'}

If(test, d) == IF test THEN {d} ELSE {}

-----------------------------------------------------------------------------
(* The transports *)

Open(d) ==
  /\ boot = "up"
  /\ fd[d] = "none" /\ LinkUp(d)
  /\ fd' = [fd EXCEPT ![d] = "open"]
  /\ UNCHANGED <<vars, queue, handling, unwatched>>

EmitNothing(d) == UNCHANGED queue  \* fault: bt_disconnected is not emitted
Emit(d) == queue' = Append(queue, d)

(* os.read returns b"": close, emit, break.  While the link is up it is a  *)
(* foreign file that was at its end, behind a number the sender had closed. *)
ReportLost(d) ==
  /\ fd[d] # "none"
  /\ Len(queue) < MaxQueue
  /\ fd' = [fd EXCEPT ![d] = "none"]
  /\ Emit(d)
  /\ UNCHANGED <<vars, handling, unwatched>>

(* A send fails, or the reader's loop raises: the descriptor is closed and  *)
(* nothing is emitted.  While the link is up the reader opens it again.     *)
CloseSilently(d) ==
  /\ fd[d] # "none"
  /\ fd' = [fd EXCEPT ![d] = "none"]
  /\ UNCHANGED <<vars, queue, handling>>
  /\ Unwatch(If(fd[d] = "dead", d))

-----------------------------------------------------------------------------
(* The main thread: bt_cmd_disconnect_handler, bt_data_disconnect_handler *)

Handle ==
  /\ queue # <<>>
  /\ TriggerEnter(Main)
  /\ handling' = Head(queue)
  /\ queue' = Tail(queue)
  /\ UNCHANGED <<fd, unwatched>>

(* w will still ask after d's listener before its round is over. *)
WillVisit(w, d) ==
  \/ dev[w] = d /\ pc[w] \notin {"recheck", "pause", "done"}
  \/ dev[w] = CmdDev /\ d = DataDev

AfterKept == UNCHANGED handling  \* fault: the handler returns twice
After == handling' = None

Trigger ==
  /\ UNCHANGED <<fd, queue>>
  /\ \/ /\ TriggerSkip(Main)
        /\ After
        /\ Unwatch(If(\E w \in Active : ~WillVisit(w, handling), handling))
     \/ TriggerSpawn(Main) /\ After /\ UNCHANGED unwatched
     \/ (TriggerSeesIdle(Main) \/ TriggerAccept(Main)) /\ UNCHANGED <<handling, unwatched>>

-----------------------------------------------------------------------------
(* Listener processes and the recovery worker *)

(* No report: the link goes down before the reader has opened the device. *)
Drop(p) ==
  /\ LinkDrop(p) /\ Cut(p)
  /\ Unwatch(If(fd[pdev[p]] = "none", pdev[p]))
  /\ UNCHANGED <<queue, handling>>

(* No report: a listener exits that had no link, or one not opened yet. *)
ProcessExit(p) ==
  /\ Exit(p) /\ Cut(p)
  /\ Unwatch(If(pst[p] = "listening" \/ (pst[p] = "connected" /\ fd[pdev[p]] = "none"),
                pdev[p]))
  /\ UNCHANGED <<queue, handling>>

Phone(p) == (Connect(p) \/ Reap(p)) /\ UNCHANGED <<linkVars, unwatched>>

(* Report spent: the process is there still, though its link is gone; or it *)
(* could not be started in the last round.                                  *)
Recover(w) ==
  /\ UNCHANGED linkVars
  /\ \/ (EnsureDead(w) \/ Restart(w) \/ NextRound(w) \/ WorkerFinish(w)) /\ Unwatch({})
     \/ EnsureAlive(w) /\ Unwatch({dev[w]})
     \/ EnsureRecheck(w) /\ Unwatch(If(Alive(dev[w]) \/ round[w] = MaxRounds, dev[w]))

(* No report: Popen fails in init(). *)
Boot ==
  /\ BootKill \/ BootStart
  /\ UNCHANGED linkVars
  /\ Unwatch({d \in Dev : boot = IF d = CmdDev THEN "cmd" ELSE "data"})

-----------------------------------------------------------------------------
LinkNext ==
  \/ Boot \/ Handle \/ Trigger
  \/ \E d \in Dev : Open(d) \/ ReportLost(d) \/ CloseSilently(d)
  \/ \E p \in Pid : Phone(p) \/ Drop(p) \/ ProcessExit(p)
  \/ \E w \in Worker : Recover(w)

LinkSpec == LinkInit /\ [][LinkNext]_allVars

(* A reader notices what select tells it, one way or the other. *)
Notice(d) == fd[d] = "dead" /\ (ReportLost(d) \/ CloseSilently(d))

(* Threads run, the main thread goes through its events, and a worker gets *)
(* the recovery lock, which the main thread holds for microseconds.        *)
LinkFairness ==
  /\ WF_allVars(Handle) /\ WF_allVars(Trigger)
  /\ \A d \in Dev : WF_allVars(Notice(d))
  /\ \A w \in Worker : SF_allVars(Recover(w))

FairLinkSpec == LinkSpec /\ LinkFairness

-----------------------------------------------------------------------------
(* Properties *)

(* The types of what is added here.  The main thread is in the trigger     *)
(* exactly while it handles an event, and no link goes down but by Cut: a  *)
(* worker releases only devices that have none.                            *)
LinkTypeOK ==
  /\ TypeOK
  /\ fd \in [Dev -> {"none", "open", "dead"}]
  /\ queue \in Seq(Dev) /\ Len(queue) <= MaxQueue
  /\ handling \in Dev \cup {None}
  /\ (handling = None) = (cpc[Main] = "idle")
  /\ \A d \in Dev : fd[d] = "open" => LinkUp(d)
  /\ unwatched \subseteq Dev

(* Every way to lose a listener for good is one of those named above: when *)
(* all is quiet (no event waits, no recovery runs, every reader has        *)
(* noticed what there is to notice), a device without a working listener   *)
(* is one whose report never came, or was spent while the process was      *)
(* still there, on a recovery that had passed it, or on all the rounds.    *)
QuietMeansServed ==
  (boot = "up" /\ queue = <<>> /\ handling = None /\ Active = {}) =>
    \A d \in Dev : Works(d) \/ fd[d] = "dead" \/ d \in unwatched

(* From a lost link to a listener: whatever device loses its listener gets *)
(* it back through reader, event, main thread and worker, whatever other   *)
(* events wait or are handled then, unless it is one of the cases above.   *)
LostListenerReturns ==
  \A d \in Dev : (boot = "up" /\ ~Works(d)) ~> (Works(d) \/ d \in unwatched)
=============================================================================
