----------------------------- MODULE BtTracker -----------------------------
(***************************************************************************)
(* BtStateTracker of bt_tracker.py, the bluetooth state the program keeps  *)
(* in memory and mirrors in /run/ar_bt_state.json, with the threads that   *)
(* use it: the two reader threads of bt_rfcomm_transport.py, the D-Bus     *)
(* thread of auto_agent.py and the watchdogs that one starts.              *)
(*                                                                         *)
(* The dictionary is changed without a lock; file_lock covers a save only. *)
(* One action is one access to what threads share: a field of the          *)
(* dictionary, the lock, the files.  The time strings are left out.        *)
(* add_bt_auth and set_rfcomm_connected(True) are called by nothing.       *)
(* True and False are 1 and 0, as they are to Python.                      *)
(***************************************************************************)
EXTENDS Naturals

CONSTANTS
  Reader,       (* reader threads, one per transport                        *)
  Agent,        (* the D-Bus main loop thread                               *)
  Watchdog,     (* identities of _rfcomm_watchdog threads                   *)
  MaxConnects,  (* bound: times a transport opens its device                *)
  MaxAuths,     (* bound: value of bt_auth_count                            *)
  None

Thread == Reader \cup {Agent}

ASSUME ThreadAssumption == Agent \notin Reader /\ None \notin Thread \cup Nat
ASSUME BoundAssumption  == MaxConnects \in Nat /\ MaxAuths \in Nat

(* The keys of self.state, in the order json.dump writes them. *)
Key == <<"bt_auth_count", "rfcomm_connect_count",
         "is_bt_authorized", "is_rfcomm_connected">>
KeySet == {Key[i] : i \in 1..4}

VARIABLES
  up,         (* the server process runs                                    *)
  state,      (* self.state                                                 *)
  file,       (* what STATE_FILE holds for each key, None where nothing     *)
  tmp,        (* ... and STATE_FILE.tmp                                     *)
  file_lock,  (* its holder                                                 *)
  at,         (* the next key a thread's json.dump comes to                 *)
  pc,
  ret,        (* where a thread goes on after _save                         *)
  local,      (* the count a reader has read in `+= 1`                      *)
  wpc,        (* the watchdogs                                              *)
  begun,      (* history: openings, ...                                     *)
  counted,    (* ... those whose add_rfcomm_connect returned after a save   *)
  raced,      (* history: an increment overwrote another                    *)
  stale       (* history: the last save to end had failed                   *)

history == <<begun, counted, raced, stale>>
files == <<file, tmp, file_lock, at>>
vars == <<up, state, files, pc, ret, local, wpc, history>>

Default  == [k \in KeySet |-> 0]
NoFile   == [k \in KeySet |-> None]
Whole(f) == \A k \in KeySet : f[k] # None

(* _load: the defaults, or what is in the file if it parses. *)
Loaded(f) == IF Whole(f) THEN f ELSE Default

Rest(t) == IF t = Agent THEN "idle" ELSE "closed"

Init ==
  /\ up = TRUE
  /\ state = Default
  /\ file = NoFile /\ tmp = NoFile /\ file_lock = None
  /\ at = [t \in Thread |-> 1]
  /\ pc = [t \in Thread |-> Rest(t)]
  /\ ret = [t \in Thread |-> Rest(t)]
  /\ local = [r \in Reader |-> 0]
  /\ wpc = [w \in Watchdog |-> "off"]
  /\ begun = 0 /\ counted = 0 /\ raced = FALSE /\ stale = FALSE

Goto(t, label) == pc' = [pc EXCEPT ![t] = label]

(* self._save(), after which t goes on at label *)
CallSave(t, label) == Goto(t, "lock") /\ ret' = [ret EXCEPT ![t] = label]

(* _save returns; its caller's locals are forgotten *)
Return(t) == Goto(t, ret[t]) /\ ret' = [ret EXCEPT ![t] = Rest(t)]

-----------------------------------------------------------------------------
(* _save *)

FileIgnored == TRUE  \* fault: no `with self.file_lock`
FileFree == file_lock = None

(* the lock, and open(tmp_file, 'w'), which empties it *)
Lock(t) ==
  /\ pc[t] = "lock"
  /\ FileFree
  /\ file_lock' = t
  /\ tmp' = NoFile
  /\ Goto(t, "dump")
  /\ UNCHANGED <<up, state, file, at, ret, local, wpc, history>>

(* json.dump asks for one key after the other, others may write in between *)
Dump(t) ==
  /\ pc[t] = "dump"
  /\ at[t] <= 4
  /\ tmp' = [tmp EXCEPT ![Key[at[t]]] = state[Key[at[t]]]]
  /\ at' = [at EXCEPT ![t] = @ + 1]
  /\ UNCHANGED <<up, state, file, file_lock, pc, ret, local, wpc, history>>

(* os.rename of whatever the temporary file holds then; the end of the with *)
Rename(t) ==
  /\ pc[t] = "dump"
  /\ at[t] = 5
  /\ file' = tmp /\ tmp' = NoFile
  /\ file_lock' = None
  /\ at' = [at EXCEPT ![t] = 1]
  /\ Return(t)
  /\ counted' = IF ret[t] = "connected" THEN counted + 1 ELSE counted
  /\ stale' = FALSE
  /\ UNCHANGED <<up, state, local, wpc, begun, raced>>

StayLocked == UNCHANGED file_lock  \* fault: acquire() and release() without try/finally
Unlock == file_lock' = None

(* open, dump or rename raises: logged *)
SaveFails(t) ==
  /\ pc[t] = "dump"
  /\ Unlock
  /\ at' = [at EXCEPT ![t] = 1]
  /\ Return(t)
  /\ stale' = TRUE
  /\ UNCHANGED <<up, state, file, tmp, local, wpc, begun, counted, raced>>

SaveStep(t) == Lock(t) \/ Dump(t) \/ Rename(t) \/ SaveFails(t)

-----------------------------------------------------------------------------
(* A reader: the device is opened, and add_rfcomm_connect counts it *)

Opened(r) ==
  /\ up
  /\ pc[r] = "closed"
  /\ begun < MaxConnects
  /\ begun' = begun + 1
  /\ local' = [local EXCEPT ![r] = state["rfcomm_connect_count"]]
  /\ Goto(r, "store")
  /\ UNCHANGED <<up, state, files, ret, wpc, counted, raced, stale>>

CountStore(r) ==
  /\ pc[r] = "store"
  /\ state' = [state EXCEPT !["rfcomm_connect_count"] = local[r] + 1]
  /\ raced' = (raced \/ state["rfcomm_connect_count"] # local[r])
  /\ local' = [local EXCEPT ![r] = 0]
  /\ CallSave(r, "connected")
  /\ UNCHANGED <<up, files, wpc, begun, counted, stale>>

(* `if not chunk`: set_rfcomm_connected(False), set_bt_authorized(False) *)
SetDisconnected(r) ==
  /\ pc[r] = "connected"
  /\ state' = [state EXCEPT !["is_rfcomm_connected"] = 0]
  /\ CallSave(r, "unauthorize")
  /\ UNCHANGED <<up, files, local, wpc, history>>

UnauthorizeUnsaved(r) ==  \* fault: the _save of set_bt_authorized is inside `if status`
  /\ pc[r] = "unauthorize"
  /\ state' = [state EXCEPT !["is_bt_authorized"] = 0]
  /\ Goto(r, "closed")
  /\ UNCHANGED <<up, files, ret, local, wpc, history>>

Unauthorize(r) ==
  /\ pc[r] = "unauthorize"
  /\ state' = [state EXCEPT !["is_bt_authorized"] = 0]
  /\ CallSave(r, "closed")
  /\ UNCHANGED <<up, files, local, wpc, history>>

(* the loop ends by an exception or a failed send: nothing is recorded *)
ClosedQuietly(r) ==
  /\ pc[r] = "connected"
  /\ Goto(r, "closed")
  /\ UNCHANGED <<up, state, files, ret, local, wpc, history>>

-----------------------------------------------------------------------------
(* AuthorizeService: set_bt_authorized(True) and a watchdog *)

Authorize ==
  /\ up
  /\ pc[Agent] = "idle"
  /\ state["bt_auth_count"] < MaxAuths
  /\ state' = [state EXCEPT !["is_bt_authorized"] = 1]
  /\ Goto(Agent, "tally")
  /\ UNCHANGED <<up, files, ret, local, wpc, history>>

CountedTwice(n) == n + 2  \* fault: add_bt_auth is called as well
Counted(n) == n + 1

Tally ==
  /\ pc[Agent] = "tally"
  /\ state' = [state EXCEPT !["bt_auth_count"] = Counted(@)]
  /\ CallSave(Agent, "watch")
  /\ UNCHANGED <<up, files, local, wpc, history>>

StartWatchdog ==
  /\ pc[Agent] = "watch"
  /\ \E w \in Watchdog : wpc[w] = "off" /\ wpc' = [wpc EXCEPT ![w] = "asleep"]
  /\ Goto(Agent, "idle")
  /\ UNCHANGED <<up, state, files, ret, local, history>>

(* the sleep is over: is_bt_authorized *)
AskAuthorized(w) ==
  /\ wpc[w] = "asleep"
  /\ wpc' = [wpc EXCEPT ![w] = IF state["is_bt_authorized"] = 1 THEN "asking" ELSE "off"]
  /\ UNCHANGED <<up, state, files, pc, ret, local, history>>

(* `and not is_rfcomm_connected` *)
AskConnected(w) ==
  /\ wpc[w] = "asking"
  /\ wpc' = [wpc EXCEPT ![w] = IF state["is_rfcomm_connected"] = 1 THEN "off" ELSE "zombie"]
  /\ UNCHANGED <<up, state, files, pc, ret, local, history>>

(* `if self.bt_init`: there is no such attribute, AttributeError ends the  *)
(* thread before the recovery and set_bt_authorized(False).                *)
NoBtInit(w) ==
  /\ wpc[w] = "zombie"
  /\ wpc' = [wpc EXCEPT ![w] = "off"]
  /\ UNCHANGED <<up, state, files, pc, ret, local, history>>

WatchdogStep(w) == AskAuthorized(w) \/ AskConnected(w) \/ NoBtInit(w)

-----------------------------------------------------------------------------
(* The server process dies, at any point, and is started again *)

Crash ==
  /\ up
  /\ up' = FALSE
  /\ state' = Default
  /\ file_lock' = None
  /\ at' = [t \in Thread |-> 1]
  /\ pc' = [t \in Thread |-> Rest(t)]
  /\ ret' = [t \in Thread |-> Rest(t)]
  /\ local' = [r \in Reader |-> 0]
  /\ wpc' = [w \in Watchdog |-> "off"]
  /\ stale' = FALSE
  /\ UNCHANGED <<file, tmp, begun, counted, raced>>

Unloaded == Default  \* fault: _init_state does not load
Reloaded == Loaded(file)

Restart ==
  /\ ~up
  /\ up' = TRUE
  /\ state' = Reloaded
  /\ UNCHANGED <<files, pc, ret, local, wpc, history>>

-----------------------------------------------------------------------------
ReaderStep(r) ==
  Opened(r) \/ CountStore(r) \/ SetDisconnected(r) \/ Unauthorize(r) \/ ClosedQuietly(r)

AgentStep == Authorize \/ Tally \/ StartWatchdog

Next ==
  \/ \E t \in Thread : SaveStep(t)
  \/ \E r \in Reader : ReaderStep(r)
  \/ AgentStep
  \/ \E w \in Watchdog : WatchdogStep(w)
  \/ Crash \/ Restart

Spec == Init /\ [][Next]_vars

(* Threads keep running, and file_lock, held for a moment, is obtained.    *)
Fairness ==
  /\ \A t \in Thread : WF_vars(SaveStep(t)) /\ SF_vars(Lock(t))
  /\ \A w \in Watchdog : WF_vars(WatchdogStep(w))

FairSpec == Spec /\ Fairness

-----------------------------------------------------------------------------
(* Properties *)

ReaderPc   == {"closed", "store", "lock", "dump", "connected", "unauthorize"}
AgentPc    == {"idle", "tally", "lock", "dump", "watch"}
WatchdogPc == {"off", "asleep", "asking", "zombie"}
ReturnPc   == {"closed", "connected", "unauthorize", "idle", "watch"}

(* The types of the state: bt_tracker.py lines 23-32 and its users' locals. *)
TypeOK ==
  /\ up \in BOOLEAN
  /\ state \in [KeySet -> Nat]
  /\ file \in [KeySet -> Nat \cup {None}]
  /\ tmp \in [KeySet -> Nat \cup {None}]
  /\ \A f \in {state, file, tmp} : f["bt_auth_count"] \in 0..MaxAuths \cup {None}
  /\ file_lock \in Thread \cup {None}
  /\ at \in [Thread -> 1..5]
  /\ pc \in [Thread -> ReaderPc \cup AgentPc]
  /\ ret \in [Thread -> ReturnPc]
  /\ local \in [Reader -> Nat]
  /\ wpc \in [Watchdog -> WatchdogPc]
  /\ begun \in 0..MaxConnects /\ counted \in Nat
  /\ raced \in BOOLEAN /\ stale \in BOOLEAN

(* bt_tracker.py:47: another program that reads the file never sees a      *)
(* fragment, whoever saves or dies meanwhile.  The temporary file has one   *)
(* name for all threads and the rename takes what is in it: it is whole     *)
(* only because nobody else opens it between a thread's dump and rename.    *)
FileComplete == [][file' # file => Whole(file')]_vars

(* Once every update has ended, the file holds what the program knows,     *)
(* although saves run beside updates of other threads and a dump may mix   *)
(* an older and a newer state; unless the last save failed.                *)
Unsaved == {"tally", "lock", "dump"}
FileCatchesUp ==
  up /\ ~stale /\ (\A t \in Thread : pc[t] \notin Unsaved) => state = Loaded(file)

(* A connection that was counted and saved is in the file for good, across *)
(* crashes and restarts, and none is counted twice.  Counts are lost only  *)
(* if the two readers' increments, which no lock protects, overlap.        *)
CountDurable ==
  /\ ~raced => counted <= Loaded(file)["rfcomm_connect_count"]
  /\ Loaded(file)["rfcomm_connect_count"] <= begun

(* No save waits for ever, although saves of others fail under the lock.   *)
SavesEnd ==
  \A t \in Thread : (pc[t] \in {"lock", "dump"}) ~> (pc[t] \notin {"lock", "dump"})

(* auto_agent.py:32-39: a watchdog that takes the phone for a zombie gets  *)
(* its state reset.                                                        *)
ZombieReset ==
  \A w \in Watchdog : (wpc[w] = "zombie") ~> (~up \/ state["is_bt_authorized"] = 0)
=============================================================================
