-------------------------- MODULE BtTrackerProofs --------------------------
(***************************************************************************)
(* Proofs about BtTracker: its types, the completeness of the state file   *)
(* at every moment, its agreement with the program at rest, and the count  *)
(* of connections it keeps, for any number of reader threads.              *)
(***************************************************************************)
EXTENDS BtTracker, FiniteSetTheorems, TLAPS

(* Names of one expression each, expanded everywhere. *)
USE DEF Unlock, Counted, Reloaded, FileFree

LEMMA Threads ==
  /\ \A r \in Reader : r \in Thread /\ r # Agent
  /\ Agent \in Thread
  BY ThreadAssumption DEF Thread

LEMMA Keys ==
  /\ \A i \in 1..4 : Key[i] \in KeySet
  /\ "bt_auth_count" \in KeySet /\ "rfcomm_connect_count" \in KeySet
  /\ "is_bt_authorized" \in KeySet /\ "is_rfcomm_connected" \in KeySet
<1>1. 1 \in 1..4 /\ 2 \in 1..4 /\ 3 \in 1..4 /\ 4 \in 1..4
  OBVIOUS
<1>2. /\ Key[1] = "bt_auth_count" /\ Key[2] = "rfcomm_connect_count"
      /\ Key[3] = "is_bt_authorized" /\ Key[4] = "is_rfcomm_connected"
  BY DEF Key
<1>3. \A i \in 1..4 : Key[i] \in KeySet
  BY DEF KeySet
<1>4. QED
  BY <1>1, <1>2, <1>3

-----------------------------------------------------------------------------
(* Types *)

(* What TypeOK says of the files and of the dictionary, ...                *)
DataType ==
  /\ state \in [KeySet -> Nat]
  /\ file \in [KeySet -> Nat \cup {None}]
  /\ tmp \in [KeySet -> Nat \cup {None}]
  /\ state["bt_auth_count"] \in 0..MaxAuths
  /\ file["bt_auth_count"] \in 0..MaxAuths \cup {None}
  /\ tmp["bt_auth_count"] \in 0..MaxAuths \cup {None}

(* ... of the threads ...                                                  *)
ThreadType ==
  /\ file_lock \in Thread \cup {None}
  /\ at \in [Thread -> 1..5]
  /\ pc \in [Thread -> ReaderPc \cup AgentPc]
  /\ ret \in [Thread -> ReturnPc]
  /\ local \in [Reader -> Nat]
  /\ wpc \in [Watchdog -> WatchdogPc]

(* ... and of the rest.                                                    *)
RestType ==
  /\ up \in BOOLEAN
  /\ begun \in 0..MaxConnects /\ counted \in Nat
  /\ raced \in BOOLEAN /\ stale \in BOOLEAN

(* The agent counts only what it has allowed itself to begin.              *)
Allowed == pc[Agent] = "tally" => state["bt_auth_count"] < MaxAuths

(* While the server is down it has no threads.                             *)
NoThreads == ~up => \A t \in Thread : pc[t] = Rest(t)

TypeInv == DataType /\ ThreadType /\ RestType /\ Allowed /\ NoThreads

LEMMA TypeParts == TypeInv => TypeOK
<1>1. DataType => state["bt_auth_count"] # None
  BY ThreadAssumption, BoundAssumption DEF DataType
<1>2. QED
  BY <1>1 DEF TypeInv, DataType, ThreadType, RestType, TypeOK

(* A dump writes one of the keys. *)
LEMMA DumpsKey ==
  ASSUME TypeInv, NEW t \in Thread, Dump(t)
  PROVE  /\ at[t] \in 1..4 /\ at' = [at EXCEPT ![t] = at[t] + 1]
         /\ tmp' = [tmp EXCEPT ![Key[at[t]]] = state[Key[at[t]]]]
  BY DEF Dump, TypeInv, ThreadType

(* A save keeps the types. *)
LEMMA SaveType ==
  ASSUME TypeInv, NEW t \in Thread, SaveStep(t)
  PROVE  TypeInv'
<1> USE DEF TypeInv, history, files
<1>1. ThreadType'
  BY DEF ThreadType, SaveStep, Lock, Dump, Rename, SaveFails, Goto, Return, Rest,
         ReaderPc, AgentPc, ReturnPc
<1>2. RestType'
  <2>1. up' \in BOOLEAN /\ raced' \in BOOLEAN /\ stale' \in BOOLEAN
    BY Zenon DEF RestType, SaveStep, Lock, Dump, Rename, SaveFails
  <2>2. begun' \in 0..MaxConnects /\ counted' \in Nat
    BY DEF RestType, SaveStep, Lock, Dump, Rename, SaveFails
  <2>3. QED
    BY <2>1, <2>2 DEF RestType
<1>3. DataType'
  <2>1. CASE Lock(t)
    BY <2>1, Keys DEF Lock, NoFile, DataType
  <2>2. CASE Dump(t)
    <3>1. PICK i \in 1..4 : tmp' = [tmp EXCEPT ![Key[i]] = state[Key[i]]]
      BY <2>2, DumpsKey
    <3>2. tmp' \in [KeySet -> Nat \cup {None}]
      BY <3>1, Keys DEF DataType
    <3>3. tmp'["bt_auth_count"] \in 0..MaxAuths \cup {None}
      BY <3>1, Keys DEF DataType
    <3>4. QED
      BY <2>2, <3>2, <3>3 DEF Dump, DataType
  <2>3. CASE Rename(t)
    BY <2>3, Keys DEF Rename, NoFile, DataType
  <2>4. CASE SaveFails(t)
    BY <2>4 DEF SaveFails, DataType
  <2>5. QED
    BY <2>1, <2>2, <2>3, <2>4 DEF SaveStep
<1>4. Allowed'
  BY Threads DEF Allowed, SaveStep, Lock, Dump, Rename, SaveFails, Goto, Return,
                 ThreadType, ReturnPc
<1>5. NoThreads'
  BY DEF NoThreads, Rest, ThreadType, SaveStep, Lock, Dump, Rename, SaveFails
<1>6. QED
  BY <1>1, <1>2, <1>3, <1>4, <1>5

(* A step of a reader keeps the types. *)
LEMMA ReaderType ==
  ASSUME TypeInv, NEW r \in Reader, ReaderStep(r)
  PROVE  TypeInv'
<1> USE Threads, Keys DEF TypeInv, history, files
<1>1. ThreadType'
  BY DEF ThreadType, ReaderStep, Opened, CountStore, SetDisconnected, Unauthorize,
         ClosedQuietly, Goto, CallSave, ReaderPc, ReturnPc, DataType
<1>2. RestType'
  <2>1. up' \in BOOLEAN /\ raced' \in BOOLEAN /\ stale' \in BOOLEAN
    BY Zenon DEF RestType, ReaderStep, Opened, CountStore, SetDisconnected,
                 Unauthorize, ClosedQuietly
  <2>2. begun' \in 0..MaxConnects /\ counted' \in Nat
    BY BoundAssumption DEF RestType, ReaderStep, Opened, CountStore, SetDisconnected,
                           Unauthorize, ClosedQuietly
  <2>3. QED
    BY <2>1, <2>2 DEF RestType
<1>3. DataType'
  BY DEF DataType, ThreadType, ReaderStep, Opened, CountStore, SetDisconnected,
         Unauthorize, ClosedQuietly
<1>4. Allowed'
  BY DEF Allowed, DataType, ThreadType, ReaderStep, Opened, CountStore,
         SetDisconnected, Unauthorize, ClosedQuietly, Goto, CallSave
<1>5. NoThreads'
  BY DEF NoThreads, Rest, ReaderStep, Opened, CountStore, SetDisconnected, Unauthorize,
         ClosedQuietly, Goto, CallSave, ThreadType
<1>6. QED
  BY <1>1, <1>2, <1>3, <1>4, <1>5

(* So does one of the agent, ... *)
LEMMA AgentType ==
  ASSUME TypeInv, AgentStep
  PROVE  TypeInv'
<1> USE Threads, Keys DEF TypeInv, history, files
<1>1. ThreadType'
  BY DEF ThreadType, AgentStep, Authorize, Tally, StartWatchdog, Goto, CallSave,
         AgentPc, ReturnPc, WatchdogPc
<1>2. RestType'
  BY Zenon DEF RestType, AgentStep, Authorize, Tally, StartWatchdog
<1>3. DataType'
  BY BoundAssumption DEF DataType, ThreadType, Allowed, AgentStep, Authorize, Tally,
                         StartWatchdog
<1>4. Allowed'
  BY DEF Allowed, DataType, ThreadType, AgentStep, Authorize, Tally, StartWatchdog,
         Goto, CallSave
<1>5. NoThreads'
  BY DEF NoThreads, Rest, AgentStep, Authorize, Tally, StartWatchdog, Goto, CallSave,
         ThreadType
<1>6. QED
  BY <1>1, <1>2, <1>3, <1>4, <1>5

(* ... and whatever happens to the process. *)
LEMMA OtherType ==
  ASSUME TypeInv, (\E w \in Watchdog : WatchdogStep(w)) \/ Crash \/ Restart
  PROVE  TypeInv'
<1> USE Threads, Keys DEF TypeInv, history, files
<1>1. ThreadType'
  BY DEF ThreadType, WatchdogStep, AskAuthorized, AskConnected, NoBtInit, Crash, Restart,
         Rest, ReaderPc, AgentPc, ReturnPc, WatchdogPc
<1>2. RestType'
  BY Zenon DEF RestType, WatchdogStep, AskAuthorized, AskConnected, NoBtInit, Crash, Restart
<1>3. DataType'
  BY BoundAssumption DEF DataType, WatchdogStep, AskAuthorized, AskConnected, NoBtInit,
                         Crash, Restart, Loaded, Default, Whole
<1>4. Allowed'
  <2>1. CASE Restart
    <3>1. pc[Agent] # "tally"
      BY <2>1 DEF Restart, NoThreads, Rest
    <3>2. QED
      BY <2>1, <3>1 DEF Restart, Allowed
  <2>2. CASE (\E w \in Watchdog : WatchdogStep(w)) \/ Crash
    BY <2>2 DEF Allowed, WatchdogStep, AskAuthorized, AskConnected, NoBtInit, Crash, Rest
  <2>3. QED
    BY <2>1, <2>2
<1>5. NoThreads'
  BY DEF NoThreads, WatchdogStep, AskAuthorized, AskConnected, NoBtInit, Crash, Restart,
         Rest
<1>6. QED
  BY <1>1, <1>2, <1>3, <1>4, <1>5

LEMMA TypeInvariant == Spec => []TypeInv
<1>1. Init => TypeInv
  <2> SUFFICES ASSUME Init
               PROVE  TypeInv
    OBVIOUS
  <2>1. DataType
    BY Keys, BoundAssumption DEF Init, DataType, Default, NoFile
  <2>2. ThreadType
    BY Threads DEF Init, ThreadType, Rest, ReaderPc, AgentPc, ReturnPc, WatchdogPc
  <2>3. RestType
    <3>1. 0 \in 0..MaxConnects /\ 0 \in Nat
      BY BoundAssumption
    <3>2. QED
      BY <3>1, Zenon DEF Init, RestType
  <2>4. Allowed /\ NoThreads
    BY Keys, Threads, BoundAssumption DEF Init, Allowed, NoThreads, Default, Rest
  <2>5. QED
    BY <2>1, <2>2, <2>3, <2>4 DEF TypeInv
<1>2. TypeInv /\ [Next]_vars => TypeInv'
  <2> SUFFICES ASSUME TypeInv, [Next]_vars
               PROVE  TypeInv'
    OBVIOUS
  <2>1. CASE UNCHANGED vars
    BY <2>1 DEF vars, files, history, TypeInv, DataType, ThreadType, RestType, Allowed,
                NoThreads
  <2>2. CASE Next
    BY <2>2, SaveType, ReaderType, AgentType, OtherType DEF Next
  <2>3. QED
    BY <2>1, <2>2
<1>3. QED
  BY <1>1, <1>2, PTL DEF Spec

(* TypeOK: the dictionary, the files and the threads of bt_tracker.py keep  *)
(* their types, and bt_auth_count never exceeds what was authorized.        *)
THEOREM TypeCorrect == Spec => []TypeOK
  BY TypeInvariant, TypeParts, PTL

-----------------------------------------------------------------------------
(* The state file *)

(* What makes the renamed file whole.  One thread dumps at a time, under    *)
(* the lock, and the temporary file holds every key it has passed: nobody   *)
(* has emptied the file meanwhile.  A dump begins at the first key.         *)
OneDumps == \A t \in Thread : pc[t] = "dump" => file_lock = t
Dumped ==
  \A t \in Thread : pc[t] = "dump" =>
    \A i \in 1..4 : i < at[t] => tmp[Key[i]] # None
AtFirst == \A t \in Thread : pc[t] # "dump" => at[t] = 1
DumpInv == OneDumps /\ Dumped /\ AtFirst

LEMMA DumpSave ==
  ASSUME TypeInv, DumpInv, NEW t \in Thread, SaveStep(t)
  PROVE  DumpInv'
<1> USE ThreadAssumption DEF files, history, Goto, Return, DumpInv
<1>1. OneDumps'
  BY DEF TypeInv, ThreadType, ReturnPc, OneDumps, SaveStep, Lock, Dump, Rename, SaveFails
<1>2. ASSUME NEW u \in Thread, u # t PROVE pc'[u] # "dump"
  BY <1>2 DEF TypeInv, ThreadType, OneDumps, SaveStep, Lock, Dump, Rename, SaveFails
<1>3. ASSUME pc'[t] = "dump", NEW i \in 1..4, i < at'[t]
      PROVE  tmp'[Key[i]] # None
  <2>1. CASE Lock(t)
    <3>1. at'[t] = at[t] BY <2>1 DEF Lock
    <3>2. at[t] = 1 BY <2>1 DEF Lock, AtFirst
    <3>3. QED BY <1>3, <3>1, <3>2
  <2>2. CASE Dump(t)
    <3>1. /\ at[t] \in 1..4 /\ at' = [at EXCEPT ![t] = at[t] + 1]
          /\ tmp' = [tmp EXCEPT ![Key[at[t]]] = state[Key[at[t]]]]
      BY <2>2, DumpsKey
    <3>2. state[Key[at[t]]] # None BY <3>1, Keys DEF TypeInv, DataType
    <3>3. CASE i = at[t]
      BY <3>1, <3>2, <3>3, Keys DEF TypeInv, DataType
    <3>4. CASE i < at[t]
      <4>1. tmp[Key[i]] # None BY <2>2, <3>4 DEF Dump, Dumped
      <4>2. QED BY <3>1, <3>2, <4>1, Keys DEF TypeInv, DataType
    <3>5. at'[t] = at[t] + 1 BY <3>1 DEF TypeInv, ThreadType
    <3>6. QED BY <1>3, <3>1, <3>3, <3>4, <3>5
  <2>3. CASE Rename(t) \/ SaveFails(t)
    BY <1>3, <2>3 DEF Rename, SaveFails, TypeInv, ThreadType, ReturnPc
  <2>4. QED BY <2>1, <2>2, <2>3 DEF SaveStep
<1>4. Dumped' BY <1>2, <1>3 DEF Dumped
<1>5. AtFirst'
  BY DEF TypeInv, ThreadType, AtFirst, SaveStep, Lock, Dump, Rename, SaveFails
<1>6. QED BY <1>1, <1>4, <1>5

LEMMA DumpInvariant == Spec => []DumpInv
<1>1. Init => DumpInv
  BY DEF Init, DumpInv, OneDumps, Dumped, AtFirst, Rest
<1>2. TypeInv /\ DumpInv /\ [Next]_vars => DumpInv'
  <2> SUFFICES ASSUME TypeInv, DumpInv, [Next]_vars
               PROVE  DumpInv'
    OBVIOUS
  <2> USE Threads DEF files, history, DumpInv, OneDumps, Dumped, AtFirst, Goto, CallSave
  <2>1. CASE UNCHANGED vars
    BY <2>1 DEF vars
  <2>2. ASSUME NEW t \in Thread, SaveStep(t) PROVE DumpInv'
    BY <2>2, DumpSave
  <2>3. ASSUME NEW r \in Reader, ReaderStep(r) PROVE DumpInv'
    BY <2>3 DEF TypeInv, ThreadType, ReaderStep, Opened, CountStore, SetDisconnected,
                Unauthorize, ClosedQuietly
  <2>4. ASSUME AgentStep PROVE DumpInv'
    BY <2>4 DEF TypeInv, ThreadType, AgentStep, Authorize, Tally, StartWatchdog
  <2>5. ASSUME (\E w \in Watchdog : WatchdogStep(w)) \/ Restart PROVE DumpInv'
    BY <2>5 DEF WatchdogStep, AskAuthorized, AskConnected, NoBtInit, Restart
  <2>6. CASE Crash
    BY <2>6 DEF Crash, Rest
  <2>7. QED
    BY <2>1, <2>2, <2>3, <2>4, <2>5, <2>6 DEF Next
<1>3. QED
  BY <1>1, <1>2, TypeInvariant, PTL DEF Spec

(* A thread that has dumped all keys renames a whole file. *)
LEMMA RenamesWhole ==
  ASSUME DumpInv, NEW t \in Thread, Rename(t)
  PROVE  Whole(tmp)
<1>1. \A i \in 1..4 : tmp[Key[i]] # None
  BY DEF Rename, DumpInv, Dumped
<1>2. QED BY <1>1 DEF Whole, KeySet

(* FileComplete: STATE_FILE changes only by the rename of a temporary file  *)
(* that its thread has dumped to the end and that no other thread, saving   *)
(* at the same time, has emptied again: nobody ever reads a fragment.       *)
THEOREM NeverAFragment == Spec => FileComplete
<1>1. DumpInv /\ [Next]_vars => [file' # file => Whole(file')]_vars
  <2> SUFFICES ASSUME DumpInv, Next, file' # file
               PROVE  Whole(file')
    OBVIOUS
  <2> USE DEF files, history
  <2>1. ASSUME NEW t \in Thread, SaveStep(t)
        PROVE  Whole(file')
    <3>1. Rename(t) BY <2>1 DEF SaveStep, Lock, Dump, SaveFails
    <3>2. Whole(tmp) /\ file' = tmp BY <3>1, RenamesWhole DEF Rename
    <3>3. QED BY <3>2
  <2>2. ASSUME NEW r \in Reader, ReaderStep(r)
        PROVE  file' = file
    BY <2>2 DEF ReaderStep, Opened, CountStore, SetDisconnected, Unauthorize, ClosedQuietly
  <2>3. ASSUME AgentStep
        PROVE  file' = file
    BY <2>3 DEF AgentStep, Authorize, Tally, StartWatchdog
  <2>4. ASSUME (\E w \in Watchdog : WatchdogStep(w)) \/ Crash \/ Restart
        PROVE  file' = file
    BY <2>4 DEF WatchdogStep, AskAuthorized, AskConnected, NoBtInit, Crash, Restart
  <2>5. QED
    BY <2>1, <2>2, <2>3, <2>4 DEF Next
<1>2. QED
  BY <1>1, DumpInvariant, PTL DEF Spec, FileComplete

(* A thread has changed the dictionary and not begun to save the change.    *)
Pending(t) == pc[t] \in {"tally", "lock"}

(* The strengthening of FileCatchesUp.  What the one thread that dumps has  *)
(* dumped is what the dictionary says, or the thread that has changed it    *)
(* since will save after it.                                                *)
DumpFollows ==
  (\E t \in Thread : pc[t] = "dump") /\ (\A t \in Thread : ~Pending(t)) =>
    \A k \in KeySet : tmp[k] # None => tmp[k] = state[k]
CatchUpInv == DumpFollows /\ FileCatchesUp

LEMMA CatchUpSave ==
  ASSUME TypeInv, DumpInv, CatchUpInv, NEW t \in Thread, SaveStep(t)
  PROVE  CatchUpInv'
<1> USE DEF history, files, Goto, Return
<1>1. DumpFollows' /\ FileCatchesUp'
  <2>1. CASE Lock(t)
    <3>1. pc'[t] = "dump" /\ tmp' = NoFile
      BY <2>1 DEF Lock, TypeInv, ThreadType
    <3>2. QED
      BY <3>1 DEF DumpFollows, FileCatchesUp, Unsaved, NoFile
  <2>2. CASE Dump(t)
    <3>1. PICK i \in 1..4 : tmp' = [tmp EXCEPT ![Key[i]] = state[Key[i]]]
      BY <2>2, DumpsKey
    <3>2. \A k \in KeySet : tmp'[k] = tmp[k] \/ tmp'[k] = state[k]
      BY <3>1, Keys DEF TypeInv, DataType
    <3>3. DumpFollows'
      BY <2>2, <3>2 DEF Dump, CatchUpInv, DumpFollows, Pending
    <3>4. FileCatchesUp'
      BY <2>2 DEF Dump, FileCatchesUp, Unsaved
    <3>5. QED
      BY <3>3, <3>4
  <2>3. CASE Rename(t)
    <3>1. \A u \in Thread : u # t => pc[u] # "dump"
      BY <2>3 DEF Rename, DumpInv, OneDumps
    <3>2. \A u \in Thread : pc'[u] # "dump"
      BY <2>3, <3>1 DEF Rename, TypeInv, ThreadType, ReturnPc
    <3>3. (\A u \in Thread : pc'[u] \notin Unsaved) => \A u \in Thread : ~Pending(u)
      BY <2>3 DEF Rename, Unsaved, Pending
    <3>4. Whole(tmp)
      BY <2>3, RenamesWhole
    <3>5. (\A u \in Thread : ~Pending(u)) => tmp = state
      BY <2>3, <3>4 DEF Rename, CatchUpInv, DumpFollows, Whole, TypeInv, DataType
    <3>6. state' = state /\ Loaded(file') = tmp
      BY <2>3, <3>4 DEF Rename, Loaded
    <3>7. QED
      BY <3>2, <3>3, <3>5, <3>6 DEF DumpFollows, FileCatchesUp
  <2>4. CASE SaveFails(t)
    <3>1. \A u \in Thread : u # t => pc[u] # "dump"
      BY <2>4 DEF SaveFails, DumpInv, OneDumps
    <3>2. \A u \in Thread : pc'[u] # "dump"
      BY <2>4, <3>1 DEF SaveFails, TypeInv, ThreadType, ReturnPc
    <3>3. QED
      BY <2>4, <3>2 DEF SaveFails, DumpFollows, FileCatchesUp
  <2>5. QED
    BY <2>1, <2>2, <2>3, <2>4 DEF SaveStep
<1>2. QED
  BY <1>1 DEF CatchUpInv

(* A step that changes the dictionary leaves its thread with a save to do. *)
LEMMA CatchUpChange ==
  ASSUME TypeInv, CatchUpInv, NEW t \in Thread, NEW label,
         pc' = [pc EXCEPT ![t] = label], label \in {"tally", "lock"},
         pc[t] # "dump"
  PROVE  CatchUpInv'
<1>1. pc'[t] = label
  BY DEF TypeInv, ThreadType
<1>2. QED
  BY <1>1 DEF CatchUpInv, DumpFollows, FileCatchesUp, Pending, Unsaved

(* A step that does not touch it leaves its thread where it has none.      *)
LEMMA CatchUpQuiet ==
  ASSUME TypeInv, CatchUpInv, NEW t \in Thread, NEW label,
         pc' = [pc EXCEPT ![t] = label], label \notin {"tally", "lock", "dump"},
         pc[t] \notin {"tally", "lock", "dump"}, UNCHANGED <<up, state, files, stale>>
  PROVE  CatchUpInv'
<1>1. \A u \in Thread : pc'[u] \in {"tally", "lock", "dump"} <=> pc[u] \in {"tally", "lock", "dump"}
  BY DEF TypeInv, ThreadType
<1>2. \A u \in Thread : pc[u] \in {"tally", "lock", "dump"} => pc'[u] = pc[u]
  BY DEF TypeInv, ThreadType
<1>3. QED
  BY <1>1, <1>2 DEF CatchUpInv, DumpFollows, FileCatchesUp, Pending, Unsaved, files

LEMMA CatchUpReader ==
  ASSUME TypeInv, CatchUpInv, NEW r \in Reader, ReaderStep(r)
  PROVE  CatchUpInv'
<1> USE Threads DEF Goto, CallSave, files, history
<1>1. CASE Opened(r)
  BY <1>1, CatchUpQuiet DEF Opened
<1>2. CASE ClosedQuietly(r)
  BY <1>2, CatchUpQuiet DEF ClosedQuietly
<1>3. CASE CountStore(r) \/ SetDisconnected(r) \/ Unauthorize(r)
  BY <1>3, CatchUpChange DEF CountStore, SetDisconnected, Unauthorize
<1>4. QED
  BY <1>1, <1>2, <1>3 DEF ReaderStep

LEMMA CatchUpAgent ==
  ASSUME TypeInv, CatchUpInv, AgentStep
  PROVE  CatchUpInv'
<1> USE Threads DEF Goto, CallSave, files, history
<1>1. CASE Authorize \/ Tally
  BY <1>1, CatchUpChange DEF Authorize, Tally
<1>2. CASE StartWatchdog
  BY <1>2, CatchUpQuiet DEF StartWatchdog
<1>3. QED
  BY <1>1, <1>2 DEF AgentStep

LEMMA CatchUpOther ==
  ASSUME TypeInv, CatchUpInv, (\E w \in Watchdog : WatchdogStep(w)) \/ Crash \/ Restart
  PROVE  CatchUpInv'
<1> USE DEF files, history, CatchUpInv, DumpFollows, FileCatchesUp, Pending, Unsaved
<1>1. CASE \E w \in Watchdog : WatchdogStep(w)
  BY <1>1 DEF WatchdogStep, AskAuthorized, AskConnected, NoBtInit
<1>2. CASE Crash
  BY <1>2 DEF Crash, Rest
<1>3. CASE Restart
  <2>1. \A t \in Thread : pc[t] # "dump"
    BY <1>3 DEF Restart, TypeInv, NoThreads, Rest
  <2>2. QED
    BY <1>3, <2>1 DEF Restart
<1>4. QED
  BY <1>1, <1>2, <1>3

LEMMA CatchUpInvariant == Spec => []CatchUpInv
<1>1. Init => CatchUpInv
  BY DEF Init, CatchUpInv, DumpFollows, FileCatchesUp, Rest, Loaded, Whole, NoFile,
         KeySet, Default
<1>2. TypeInv /\ DumpInv /\ CatchUpInv /\ [Next]_vars => CatchUpInv'
  <2> SUFFICES ASSUME TypeInv, DumpInv, CatchUpInv, [Next]_vars
               PROVE  CatchUpInv'
    OBVIOUS
  <2>1. CASE UNCHANGED vars
    BY <2>1 DEF vars, files, history, CatchUpInv, DumpFollows, FileCatchesUp,
                Pending
  <2>2. CASE Next
    BY <2>2, CatchUpSave, CatchUpReader, CatchUpAgent, CatchUpOther DEF Next
  <2>3. QED
    BY <2>1, <2>2
<1>3. QED
  BY <1>1, <1>2, TypeInvariant, DumpInvariant, PTL DEF Spec

(* FileCatchesUp: when no update is under way and the last save succeeded,  *)
(* a restart would load exactly what the program knows, although updates    *)
(* run beside dumps without a lock.                                         *)
THEOREM FileAgrees == Spec => []FileCatchesUp
<1>1. CatchUpInv => FileCatchesUp
  BY DEF CatchUpInv
<1>2. QED
  BY <1>1, CatchUpInvariant, PTL

-----------------------------------------------------------------------------
(* The count of connections *)

Connections == "rfcomm_connect_count"

(* The threads whose connection is counted in the dictionary, but not in   *)
(* `counted` before their save has ended.                                  *)
Saving == {t \in Thread : pc[t] \in {"lock", "dump"} /\ ret[t] = "connected"}
If1(test) == IF test THEN 1 ELSE 0

(* The strengthening of CountDurable.  As long as no increment was lost the *)
(* dictionary is ahead of what was saved by the saves under way, and a dump *)
(* that holds the count holds its own thread's connection too.              *)
Ahead ==
  ~raced =>
    /\ up => counted + Cardinality(Saving) <= state[Connections]
    /\ \A t \in Thread : pc[t] = "dump" /\ tmp[Connections] # None =>
         counted + If1(t \in Saving) <= tmp[Connections]

(* No copy of the count exceeds the number of openings.                    *)
Begun ==
  /\ state[Connections] <= begun
  /\ tmp[Connections] # None => tmp[Connections] <= begun
  /\ file[Connections] # None => file[Connections] <= begun
  /\ \A r \in Reader : pc[r] = "store" => local[r] < begun

CountInv == IsFiniteSet(Saving) /\ Ahead /\ Begun /\ CountDurable

LEMMA CountTypes ==
  ASSUME TypeInv
  PROVE  /\ state[Connections] \in Nat /\ begun \in Nat /\ counted \in Nat
         /\ tmp[Connections] \in Nat \cup {None}
         /\ file[Connections] \in Nat \cup {None}
         /\ None \notin Nat
  BY Keys, ThreadAssumption, BoundAssumption DEF TypeInv, DataType, RestType, Connections

LEMMA LoadedCount ==
  Loaded(file)[Connections] = IF Whole(file) THEN file[Connections] ELSE 0
  BY Keys DEF Loaded, Default, Connections

(* One thread's step moves only that thread in or out of Saving.           *)
LEMMA SavingMoves ==
  ASSUME NEW t \in Thread, IsFiniteSet(Saving),
         \A u \in Thread : u # t => pc'[u] = pc[u] /\ ret'[u] = ret[u]
  PROVE  /\ IsFiniteSet(Saving') /\ Cardinality(Saving') \in Nat
         /\ Cardinality(Saving) \in Nat
         /\ Cardinality(Saving') + If1(t \in Saving)
              = Cardinality(Saving) + If1(t \in Saving')
<1> DEFINE Others == Saving \ {t}
<1>1. /\ IsFiniteSet(Others) /\ Cardinality(Saving) \in Nat
      /\ Cardinality(Others) = Cardinality(Saving) - If1(t \in Saving)
  BY FS_RemoveElement, FS_CardinalityType DEF If1
<1>2. Cardinality(Others) \in Nat BY <1>1, FS_CardinalityType
<1>3. CASE t \in Saving'
  <2>1. Saving' = Others \cup {t} BY <1>3 DEF Saving
  <2>2. IsFiniteSet(Others \cup {t}) /\ Cardinality(Others \cup {t}) = Cardinality(Others) + 1
    BY <1>1, FS_AddElement
  <2>3. QED BY <1>1, <1>2, <1>3, <2>1, <2>2 DEF If1
<1>4. CASE t \notin Saving'
  <2>1. Saving' = Others BY <1>4 DEF Saving
  <2>2. QED BY <1>1, <1>2, <1>4, <2>1 DEF If1
<1>5. QED BY <1>3, <1>4

LEMMA CountSave ==
  ASSUME TypeInv, DumpInv, CountInv, NEW t \in Thread, SaveStep(t)
  PROVE  CountInv'
<1> USE DEF CountInv, history, files, Goto, Return
<1>1. /\ pc[t] \in {"lock", "dump"}
      /\ pc' \in [Thread -> ReaderPc \cup AgentPc] /\ ret' \in [Thread -> ReturnPc]
      /\ \A u \in Thread : u # t => pc'[u] = pc[u] /\ ret'[u] = ret[u]
      /\ UNCHANGED <<up, state, begun, raced, local>>
  BY SaveType
  DEF SaveStep, Lock, Dump, Rename, SaveFails, TypeInv, ThreadType
<1>2. /\ IsFiniteSet(Saving') /\ Cardinality(Saving') \in Nat
      /\ Cardinality(Saving) \in Nat
      /\ Cardinality(Saving') + If1(t \in Saving)
           = Cardinality(Saving) + If1(t \in Saving')
  BY <1>1, SavingMoves
<1>3. up BY <1>1 DEF TypeInv, NoThreads, Rest
<1>4. \A r \in Reader : pc'[r] = "store" => pc[r] = "store"
  BY <1>1, Threads
  DEF SaveStep, Lock, Dump, Rename, SaveFails, TypeInv, ThreadType, ReturnPc
<1>5. CASE Lock(t)
  <2>1. /\ tmp' = NoFile /\ UNCHANGED <<file, counted>>
        /\ pc[t] = "lock" /\ pc'[t] = "dump" /\ ret'[t] = ret[t]
    BY <1>5 DEF Lock, TypeInv, ThreadType
  <2>2. tmp'[Connections] = None BY <2>1, Keys DEF NoFile, Connections
  <2>3. t \in Saving' <=> t \in Saving BY <2>1 DEF Saving
  <2>4. Ahead' BY <1>1, <1>2, <2>1, <2>2, <2>3 DEF Ahead, If1
  <2>5. Begun' BY <1>1, <1>4, <2>1, <2>2 DEF Begun
  <2>6. QED BY <1>1, <1>2, <2>1, <2>4, <2>5 DEF CountDurable
<1>6. CASE Dump(t)
  <2>1. /\ UNCHANGED <<file, counted, pc, ret>> /\ pc[t] = "dump"
        /\ tmp'[Connections] \in {tmp[Connections], state[Connections]}
    <3>1. PICK i \in 1..4 : tmp' = [tmp EXCEPT ![Key[i]] = state[Key[i]]]
      BY <1>6, DumpsKey
    <3>2. QED BY <1>6, <3>1, Keys DEF Dump, TypeInv, DataType, Connections
  <2>2. Saving' = Saving BY <2>1 DEF Saving
  <2>3. ASSUME NEW u \in Thread, pc[u] = "dump" PROVE u = t
    BY <2>1, <2>3 DEF DumpInv, OneDumps
  <2>4. ~raced /\ tmp'[Connections] = state[Connections] =>
          counted + If1(t \in Saving) <= tmp'[Connections]
    <3>1. t \in Saving => 1 <= Cardinality(Saving)
      BY <1>2, FS_EmptySet, FS_CardinalityType
    <3>2. ~raced => counted + Cardinality(Saving) <= state[Connections]
      BY <1>3 DEF Ahead
    <3>3. QED BY <1>2, <3>1, <3>2, CountTypes DEF If1
  <2>5. Ahead' BY <1>1, <2>1, <2>2, <2>3, <2>4 DEF Ahead
  <2>6. Begun' BY <1>1, <2>1 DEF Begun
  <2>7. QED BY <1>1, <1>2, <2>1, <2>5, <2>6 DEF CountDurable
<1>7. CASE Rename(t)
  <2>0. Whole(tmp) BY <1>7, RenamesWhole
  <2>1. /\ file' = tmp /\ tmp' = NoFile /\ Whole(tmp) /\ pc[t] = "dump"
        /\ t \in Saving <=> ret[t] = "connected"
        /\ t \notin Saving'
        /\ counted' = counted + If1(t \in Saving)
    BY <1>7, <2>0, CountTypes DEF Rename, TypeInv, ThreadType, Saving, ReturnPc, If1
  <2>2. tmp'[Connections] = None /\ tmp[Connections] # None
    BY <2>1, Keys DEF NoFile, Whole, Connections
  <2>3. ~raced => counted' <= tmp[Connections]
    BY <2>1, <2>2 DEF Ahead
  <2>4. Ahead'
    BY <1>1, <1>2, <2>1, <2>2, CountTypes DEF Ahead, If1
  <2>5. Begun' BY <1>1, <1>4, <2>1, <2>2 DEF Begun
  <2>6. Loaded(file')[Connections] = tmp[Connections]
    BY <2>1 DEF Loaded
  <2>7. CountDurable'
    BY <1>1, <2>2, <2>3, <2>6 DEF CountDurable, Begun, Connections
  <2>8. QED BY <1>2, <2>4, <2>5, <2>7
<1>8. CASE SaveFails(t)
  <2>1. /\ UNCHANGED <<file, tmp, counted>> /\ t \notin Saving'
        /\ \A u \in Thread : pc'[u] = "dump" => u # t
    BY <1>8 DEF SaveFails, TypeInv, ThreadType, ReturnPc, Saving
  <2>2. Ahead'
    <3>1. ASSUME NEW u \in Thread, pc'[u] = "dump" PROVE FALSE
      BY <1>1, <1>8, <2>1, <3>1 DEF SaveFails, DumpInv, OneDumps
    <3>2. counted \in Nat /\ state[Connections] \in Nat BY CountTypes
    <3>3. QED BY <1>1, <1>2, <2>1, <3>1, <3>2 DEF Ahead, If1
  <2>3. Begun' BY <1>1, <1>4, <2>1 DEF Begun
  <2>4. QED BY <1>1, <1>2, <2>1, <2>2, <2>3 DEF CountDurable
<1>9. QED BY <1>5, <1>6, <1>7, <1>8 DEF SaveStep

(* A thread that does not save, and does not touch the count.              *)
LEMMA CountQuiet ==
  ASSUME TypeInv, CountInv, NEW t \in Thread,
         \A u \in Thread : u # t => pc'[u] = pc[u] /\ ret'[u] = ret[u],
         t \notin Saving, t \notin Saving',
         pc'[t] # "dump", UNCHANGED <<up, files, counted, raced>>,
         state'[Connections] = state[Connections],
         begun' \in Nat, begun <= begun',
         \A r \in Reader : pc'[r] = "store" => local'[r] < begun'
  PROVE  CountInv'
<1> USE DEF CountInv, files
<1>1. /\ IsFiniteSet(Saving') /\ Cardinality(Saving') = Cardinality(Saving)
  BY SavingMoves DEF If1
<1>2. \A u \in Thread : pc'[u] = "dump" => pc[u] = "dump" /\ (u \in Saving' <=> u \in Saving)
  BY DEF Saving
<1>3. Ahead' BY <1>1, <1>2 DEF Ahead, If1
<1>4. Begun' BY CountTypes DEF Begun
<1>5. CountDurable'
  <2>1. Loaded(file)[Connections] \in Nat BY LoadedCount, CountTypes, Keys DEF Whole, Connections
  <2>2. QED BY <2>1, CountTypes DEF CountDurable, Connections
<1>6. QED BY <1>1, <1>3, <1>4, <1>5

LEMMA CountReader ==
  ASSUME TypeInv, CountInv, NEW r \in Reader, ReaderStep(r)
  PROVE  CountInv'
<1> USE DEF Goto, CallSave, files, history
<1>1. /\ r \in Thread
      /\ \A u \in Thread : u # r => pc'[u] = pc[u] /\ ret'[u] = ret[u]
      /\ \A q \in Reader : q # r => pc'[q] = pc[q] /\ local'[q] = local[q]
      /\ pc[r] \in {"closed", "store", "connected", "unauthorize"} /\ r \notin Saving
  BY Threads DEF ReaderStep, Opened, CountStore, SetDisconnected, Unauthorize,
     ClosedQuietly, TypeInv, ThreadType, Saving
<1>2. CASE Opened(r)
  <2>1. /\ begun' = begun + 1 /\ local'[r] = state[Connections] /\ pc'[r] = "store"
        /\ UNCHANGED <<up, state, files, counted, raced>>
    BY <1>1, <1>2 DEF Opened, TypeInv, ThreadType, Connections
  <2>2. r \notin Saving' BY <2>1 DEF Saving
  <2>3. \A q \in Reader : pc'[q] = "store" => local'[q] < begun'
    BY <1>1, <2>1, CountTypes DEF CountInv, Begun, TypeInv, ThreadType
  <2>4. QED BY <1>1, <2>1, <2>2, <2>3, CountTypes, CountQuiet
<1>3. CASE CountStore(r)
  <2>1. /\ state'[Connections] = local[r] + 1 /\ local[r] \in Nat /\ local[r] < begun
        /\ raced' = (raced \/ state[Connections] # local[r])
        /\ pc'[r] = "lock" /\ ret'[r] = "connected"
        /\ UNCHANGED <<up, files, counted, begun>>
    BY <1>1, <1>3, Keys
    DEF CountStore, TypeInv, ThreadType, DataType, CountInv, Begun, Connections
  <2>2. r \in Saving' BY <1>1, <2>1 DEF Saving
  <2>3. /\ IsFiniteSet(Saving') /\ Cardinality(Saving) \in Nat
        /\ Cardinality(Saving') = Cardinality(Saving) + 1
    BY <1>1, <2>2, SavingMoves DEF CountInv, If1
  <2>4. \A u \in Thread : pc'[u] = "dump" => pc[u] = "dump" /\ (u \in Saving' <=> u \in Saving)
    BY <1>1, <2>1 DEF Saving
  <2>5. Ahead'
    <3>1. ~raced' => ~raced /\ state[Connections] = local[r]
      BY <2>1, Zenon
    <3>2. ~raced' => (up' => counted' + Cardinality(Saving') <= state'[Connections])
      BY <2>1, <2>3, <3>1, CountTypes DEF CountInv, Ahead
    <3>3. ASSUME ~raced', NEW u \in Thread, pc'[u] = "dump", tmp'[Connections] # None
          PROVE  counted' + If1(u \in Saving') <= tmp'[Connections]
      <4>1. counted + If1(u \in Saving) <= tmp[Connections]
        BY <2>1, <2>4, <3>1, <3>3 DEF CountInv, Ahead, files
      <4>2. If1(u \in Saving') = If1(u \in Saving) BY <2>4, <3>3 DEF If1
      <4>3. QED BY <2>1, <4>1, <4>2 DEF files
    <3>4. QED BY <3>2, <3>3 DEF Ahead
  <2>6. Begun' BY <1>1, <2>1, CountTypes DEF CountInv, Begun
  <2>7. CountDurable' BY <2>1 DEF CountInv, CountDurable
  <2>8. QED BY <2>3, <2>5, <2>6, <2>7 DEF CountInv
<1>4. CASE SetDisconnected(r) \/ Unauthorize(r) \/ ClosedQuietly(r)
  <2>1. /\ state'[Connections] = state[Connections]
        /\ UNCHANGED <<up, files, counted, raced, begun, local>>
    BY <1>4, Keys DEF SetDisconnected, Unauthorize, ClosedQuietly, TypeInv, DataType,
       Connections
  <2>2. /\ pc'[r] \in {"lock", "closed"} /\ r \notin Saving'
    BY <1>1, <1>4 DEF SetDisconnected, Unauthorize, ClosedQuietly, TypeInv, ThreadType,
       Saving
  <2>3. \A q \in Reader : pc'[q] = "store" => local'[q] < begun'
    BY <1>1, <2>1, <2>2 DEF CountInv, Begun
  <2>4. QED BY <1>1, <2>1, <2>2, <2>3, CountTypes, CountQuiet
<1>5. QED BY <1>2, <1>3, <1>4 DEF ReaderStep

LEMMA CountOther ==
  ASSUME TypeInv, CountInv,
         AgentStep \/ (\E w \in Watchdog : WatchdogStep(w)) \/ Crash \/ Restart
  PROVE  CountInv'
<1> USE DEF files, history
<1>1. CASE AgentStep
  <2> USE DEF Goto, CallSave
  <2>1. /\ Agent \in Thread /\ Agent \notin Saving /\ Agent \notin Saving'
        /\ \A u \in Thread : u # Agent => pc'[u] = pc[u] /\ ret'[u] = ret[u]
        /\ pc'[Agent] # "dump"
    BY <1>1, Threads DEF AgentStep, Authorize, Tally, StartWatchdog, TypeInv, ThreadType,
       Saving
  <2>2. /\ state'[Connections] = state[Connections]
        /\ UNCHANGED <<up, files, counted, raced, begun, local>>
    BY <1>1, Keys DEF AgentStep, Authorize, Tally, StartWatchdog, TypeInv, DataType,
       Connections
  <2>3. \A q \in Reader : pc'[q] = "store" => local'[q] < begun'
    BY <2>1, <2>2, Threads DEF CountInv, Begun
  <2>4. QED BY <2>1, <2>2, <2>3, CountTypes, CountQuiet
<1>2. CASE \E w \in Watchdog : WatchdogStep(w)
  <2>1. UNCHANGED <<up, state, files, pc, ret, local, begun, counted, raced>>
    BY <1>2 DEF WatchdogStep, AskAuthorized, AskConnected, NoBtInit
  <2>2. QED
    BY <2>1 DEF CountInv, Ahead, Begun, CountDurable, Saving, If1, Loaded, Whole
<1>3. CASE Crash
  <2>1. Saving' = {} BY <1>3 DEF Crash, Rest, Saving
  <2>2. Ahead' BY <1>3 DEF Crash, Rest, Ahead
  <2>3. Begun' BY <1>3, Keys, Threads, CountTypes
    DEF Crash, Rest, Default, CountInv, Begun, Connections
  <2>4. CountDurable' BY <1>3 DEF Crash, CountInv, CountDurable
  <2>5. QED BY <2>1, <2>2, <2>3, <2>4, FS_EmptySet DEF CountInv
<1>4. CASE Restart
  <2>1. /\ \A t \in Thread : pc[t] = Rest(t)
        /\ state' = Loaded(file) /\ UNCHANGED <<file, tmp, pc, ret, local, begun, counted, raced>>
    BY <1>4 DEF Restart, TypeInv, NoThreads
  <2>2. Saving' = {} BY <2>1 DEF Rest, Saving
  <2>3. Ahead'
    BY <2>1, <2>2, FS_EmptySet, CountTypes DEF CountInv, Ahead, CountDurable, Rest, Connections
  <2>4. Begun' BY <2>1 DEF CountInv, Begun, CountDurable, Connections
  <2>5. CountDurable' BY <2>1 DEF CountInv, CountDurable, Loaded, Whole
  <2>6. QED BY <2>2, <2>3, <2>4, <2>5, FS_EmptySet DEF CountInv
<1>5. QED BY <1>1, <1>2, <1>3, <1>4

(* CountDurable: across any crashes and failed saves, a counted connection *)
(* that was saved stays counted, unless two increments overlapped; and no  *)
(* connection is ever counted twice.                                       *)
THEOREM CountsKept == Spec => []CountDurable
<1>1. Init => CountInv
  <2> SUFFICES ASSUME Init PROVE CountInv
    OBVIOUS
  <2>1. Saving = {} BY DEF Init, Rest, Saving
  <2>2. /\ state[Connections] = 0 /\ tmp[Connections] = None /\ file[Connections] = None
        /\ begun = 0 /\ counted = 0
    BY Keys DEF Init, Default, NoFile, Connections
  <2>3. Ahead /\ Begun
    BY <2>1, <2>2, FS_EmptySet, Threads DEF Init, Rest, Ahead, Begun
  <2>4. Loaded(file)[Connections] = 0
    BY <2>2, LoadedCount, Keys DEF Whole, Connections
  <2>5. CountDurable BY <2>2, <2>4 DEF CountDurable, Connections
  <2>6. QED BY <2>1, <2>3, <2>5, FS_EmptySet DEF CountInv
<1>2. TypeInv /\ DumpInv /\ CountInv /\ [Next]_vars => CountInv'
  <2> SUFFICES ASSUME TypeInv, DumpInv, CountInv, [Next]_vars
               PROVE  CountInv'
    OBVIOUS
  <2>1. CASE UNCHANGED vars
    BY <2>1 DEF vars, files, history, CountInv, Ahead, Begun, CountDurable, Saving, If1,
                Loaded, Whole
  <2>2. CASE Next
    BY <2>2, CountSave, CountReader, CountOther DEF Next
  <2>3. QED
    BY <2>1, <2>2
<1>3. CountInv => CountDurable
  BY DEF CountInv
<1>4. QED
  BY <1>1, <1>2, <1>3, TypeInvariant, DumpInvariant, PTL DEF Spec
=============================================================================
