---------------------------- MODULE BtTransport ----------------------------
(***************************************************************************)
(* One BtRfcommTransport of bt_rfcomm_transport.py: its reader thread      *)
(* (_read_loop) and the Qt main thread (send) share self._fd, a number     *)
(* the whole process may be given again as soon as it is closed.  Only     *)
(* os.read and os.write/tcflush are under _io_lock; _close_fd, the select  *)
(* and every test of self._fd are not.                                     *)
(*                                                                         *)
(* The tty and the descriptor table are external.  Links are numbered in   *)
(* the order phones open them; /dev/rfcommN exists while one is up.  stop() *)
(* is called by nothing, so _running is TRUE throughout.                   *)
(***************************************************************************)
EXTENDS Naturals

CONSTANTS
  Reader, Sender,  (* the thread of _read_loop and the thread that sends    *)
  FdNum,           (* descriptor numbers                                    *)
  MaxLinks,        (* bound: links opened in a behaviour                    *)
  MaxOthers,       (* bound: files the rest of the process opens            *)
  None

Thread == {Reader, Sender}
Link   == 1..MaxLinks

ASSUME ThreadAssumption == Reader # Sender /\ None \notin FdNum \cup Thread
ASSUME BoundAssumption == MaxLinks \in Nat \ {0} /\ MaxOthers \in Nat

Free  == 0              \* a descriptor number nobody has open
Other == MaxLinks + 1   \* ... open on some other file of the process

VARIABLES
  prompt,   (* os.close of one thread is over before the other's            *)
            (* time.sleep(1): assumed of some behaviours, never changed     *)
  fd,       (* self._fd                                                     *)
  files,    (* what each descriptor number is open on: Free, a Link, Other  *)
  link,     (* the link that is up, or 0                                    *)
  drops,    (* links that have gone down                                    *)
  pending,  (* input waits in the tty                                       *)
  io_lock,  (* holder of _io_lock                                           *)
  pc,
  eof,      (* what file the reader found at its end (`if not chunk`)       *)
  others,   (* history: how many foreign files have been opened             *)
  buffer,   (* links, or Other, whose bytes the unfinished message holds    *)
  message,  (* ... and those the last delivered message was made of         *)
  reports   (* bt_disconnected signals, by the file whose end caused them   *)

envVars == <<prompt, link, drops, others>>
msgVars == <<buffer, message, reports>>
vars == <<fd, files, envVars, pending, io_lock, pc, eof, msgVars>>

Closing  == {"check", "close", "clear"}  \* inside _close_fd
ReaderPc == {"probe", "loop", "read", "report"} \cup Closing
SenderPc == {"idle", "write", "flush"} \cup Closing

Init ==
  /\ prompt \in BOOLEAN
  /\ fd = None
  /\ files = [f \in FdNum |-> Free]
  /\ link = 0 /\ drops = 0 /\ others = 0
  /\ pending = FALSE
  /\ io_lock = None
  /\ pc = [t \in Thread |-> IF t = Reader THEN "probe" ELSE "idle"]
  /\ eof = Free
  /\ buffer = {} /\ message = {}
  /\ reports = [l \in Link \cup {Other} |-> 0]

Goto(t, label) == pc' = [pc EXCEPT ![t] = label]

(* What self._fd leads to when a system call evaluates it now; a None or a *)
(* closed number raises TypeError or EBADF.                                *)
Target == IF fd = None THEN Free ELSE files[fd]
OnLiveLink == Target = link /\ link # 0
OnDeadLink == Target \in Link /\ Target # link

-----------------------------------------------------------------------------
(* The phone, the kernel and the rest of the process *)

LinkUp ==
  /\ link = 0
  /\ drops < MaxLinks
  /\ link' = drops + 1
  /\ UNCHANGED <<prompt, fd, files, drops, others, pending, io_lock, pc, eof, msgVars>>

LinkDown ==
  /\ link # 0
  /\ link' = 0
  /\ drops' = drops + 1
  /\ pending' = FALSE
  /\ UNCHANGED <<prompt, fd, files, others, io_lock, pc, eof, msgVars>>

Input ==
  /\ link # 0
  /\ pending' = TRUE
  /\ UNCHANGED <<fd, files, envVars, io_lock, pc, eof, msgVars>>

(* Another part of the process opens or closes a file; one at a time. *)
OtherOpens ==
  /\ others < MaxOthers
  /\ \A f \in FdNum : files[f] # Other
  /\ \E f \in FdNum : files[f] = Free /\ files' = [files EXCEPT ![f] = Other]
  /\ others' = others + 1
  /\ UNCHANGED <<prompt, fd, link, drops, pending, io_lock, pc, eof, msgVars>>

OtherCloses ==
  /\ \E f \in FdNum : files[f] = Other /\ files' = [files EXCEPT ![f] = Free]
  /\ UNCHANGED <<fd, envVars, pending, io_lock, pc, eof, msgVars>>

-----------------------------------------------------------------------------
(* _close_fd: test, os.close(self._fd) with its exceptions swallowed, and  *)
(* self._fd = None.                                                        *)

CloseCheck(t) ==
  /\ pc[t] = "check"
  /\ Goto(t, IF fd # None THEN "close" ELSE "clear")
  /\ UNCHANGED <<fd, files, envVars, pending, io_lock, eof, msgVars>>

NoneFreed == files  \* fault: os.close(self._fd) is lost
Freed == IF fd # None THEN [files EXCEPT ![fd] = Free] ELSE files

CloseFile(t) ==
  /\ pc[t] = "close"
  /\ files' = Freed
  /\ Goto(t, "clear")
  /\ UNCHANGED <<fd, envVars, pending, io_lock, eof, msgVars>>

AfterCloseDies(t) ==  \* fault: the exception ends the reader thread
  IF t = Sender THEN "idle" ELSE IF eof # Free THEN "report" ELSE "stopped"

AfterClose(t) ==
  IF t = Sender THEN "idle" ELSE IF eof # Free THEN "report" ELSE "probe"

NotCleared == fd  \* fault: `self._fd = None` is lost
Cleared == None

ClearFd(t) ==
  /\ pc[t] = "clear"
  /\ fd' = Cleared
  /\ Goto(t, AfterClose(t))
  /\ UNCHANGED <<files, envVars, pending, io_lock, eof, msgVars>>

Close(t) == CloseCheck(t) \/ CloseFile(t) \/ ClearFd(t)

-----------------------------------------------------------------------------
(* _read_loop *)

NotEmptied == buffer  \* fault: `buffer = b""` after the open is lost
Emptied == {}

(* The device is there: open it.  (The kernel picks the lowest free number; *)
(* any will do.)                                                            *)
Reopen ==
  /\ pc[Reader] = "probe"
  /\ link # 0
  /\ prompt => pc[Sender] \notin {"close", "clear"}
  /\ \E f \in FdNum :
       /\ files[f] = Free
       /\ files' = [files EXCEPT ![f] = link]
       /\ fd' = f
  /\ buffer' = Emptied
  /\ Goto(Reader, "loop")
  /\ UNCHANGED <<envVars, pending, io_lock, eof, message, reports>>

(* os.open raises: the device went away again, or no number is free *)
OpenRaises ==
  /\ pc[Reader] = "probe"
  /\ link = 0 \/ \A f \in FdNum : files[f] # Free
  /\ Goto(Reader, "check")
  /\ UNCHANGED <<fd, files, envVars, pending, io_lock, eof, msgVars>>

(* select reports input or a hangup; on a foreign file, whatever it says *)
SelectReady ==
  /\ pc[Reader] = "loop"
  /\ (OnLiveLink /\ pending) \/ OnDeadLink \/ Target = Other
  /\ Goto(Reader, "read")
  /\ UNCHANGED <<fd, files, envVars, pending, io_lock, eof, msgVars>>

(* `self._fd is not None` ends the loop, or select raises: line 245 closes *)
LoopEnds ==
  /\ pc[Reader] = "loop"
  /\ Target = Free
  /\ Goto(Reader, "check")
  /\ UNCHANGED <<fd, files, envVars, pending, io_lock, eof, msgVars>>

(* Bytes of the link, or of the foreign file the number now leads to *)
ReadChunk ==
  /\ pc[Reader] = "read"
  /\ io_lock = None
  /\ (OnLiveLink /\ pending) \/ Target = Other
  /\ pending' \in IF OnLiveLink THEN BOOLEAN ELSE {pending}
  /\ \/ buffer' = buffer \cup {Target} /\ UNCHANGED message
     \/ buffer' \in {{}, {Target}} /\ message' = buffer \cup {Target}
  /\ Goto(Reader, "loop")
  /\ UNCHANGED <<fd, files, envVars, io_lock, eof, reports>>

GoOn == UNCHANGED eof /\ Goto(Reader, "loop")  \* fault: `if not chunk: continue`
GiveUp == eof' = Target /\ Goto(Reader, "check")

(* os.read returns b"" : the link is gone (or a foreign file is at its end) *)
ReadEof ==
  /\ pc[Reader] = "read"
  /\ io_lock = None
  /\ OnDeadLink \/ Target = Other
  /\ GiveUp
  /\ UNCHANGED <<fd, files, envVars, pending, io_lock, msgVars>>

(* os.read raises: no descriptor, or EAGAIN since tcflush took the input *)
ReadRaises ==
  /\ pc[Reader] = "read"
  /\ io_lock = None
  /\ Target = Free \/ Target = Other \/ (OnLiveLink /\ ~pending)
  /\ Goto(Reader, "check")
  /\ UNCHANGED <<fd, files, envVars, pending, io_lock, eof, msgVars>>

Again == UNCHANGED eof /\ Goto(Reader, "report")  \* fault: no break after the emit
Break == eof' = Free /\ Goto(Reader, "check")

(* bt_disconnected.emit, whatever file was at its end and whether or not   *)
(* the link is up; break, and the _close_fd after the loop                 *)
Report ==
  /\ pc[Reader] = "report"
  /\ reports' = [reports EXCEPT ![eof] = @ + 1]
  /\ Break
  /\ UNCHANGED <<fd, files, envVars, pending, io_lock, buffer, message>>

-----------------------------------------------------------------------------
(* send *)

SendStart ==
  /\ pc[Sender] = "idle"
  /\ fd # None
  /\ Goto(Sender, "write")
  /\ UNCHANGED <<fd, files, envVars, pending, io_lock, eof, msgVars>>

SendWrite ==
  /\ pc[Sender] = "write"
  /\ io_lock = None
  /\ OnLiveLink \/ Target = Other
  /\ io_lock' = Sender
  /\ Goto(Sender, "flush")
  /\ UNCHANGED <<fd, files, envVars, pending, eof, msgVars>>

(* os.write raises (no descriptor, EIO, a full tty, a foreign file that    *)
(* cannot be written): the with ends, _close_fd follows                    *)
SendRaises ==
  /\ pc[Sender] = "write"
  /\ io_lock = None
  /\ Goto(Sender, "check")
  /\ UNCHANGED <<fd, files, envVars, pending, io_lock, eof, msgVars>>

(* tcflush(TCIFLUSH) throws the waiting input away (that of another channel *)
(* if the foreign file is its tty)                                          *)
SendFlush ==
  /\ pc[Sender] = "flush"
  /\ OnLiveLink \/ Target = Other
  /\ pending' = (pending /\ ~OnLiveLink)
  /\ io_lock' = None
  /\ Goto(Sender, "idle")
  /\ UNCHANGED <<fd, files, envVars, eof, msgVars>>

FlushRaises ==
  /\ pc[Sender] = "flush"
  /\ ~OnLiveLink
  /\ io_lock' = None
  /\ Goto(Sender, "check")
  /\ UNCHANGED <<fd, files, envVars, pending, eof, msgVars>>

-----------------------------------------------------------------------------
ReaderStep ==
  \/ Reopen \/ OpenRaises \/ SelectReady \/ LoopEnds
  \/ ReadChunk \/ ReadEof \/ ReadRaises \/ Report \/ Close(Reader)

SenderStep == SendWrite \/ SendRaises \/ SendFlush \/ FlushRaises \/ Close(Sender)

Next ==
  \/ LinkUp \/ LinkDown \/ Input \/ OtherOpens \/ OtherCloses
  \/ ReaderStep
  \/ SendStart \/ SenderStep

Spec == Init /\ [][Next]_vars

(* Both threads run; the reader gets _io_lock although the sender takes it *)
(* again and again (sends are as rare as the commands of the phone).       *)
Fairness ==
  /\ WF_vars(ReaderStep) /\ SF_vars(ReadChunk \/ ReadEof \/ ReadRaises)
  /\ WF_vars(SenderStep)

FairSpec == Spec /\ Fairness

-----------------------------------------------------------------------------
(* Properties *)

(* The types of the state: bt_rfcomm_transport.py lines 21-29, the locals of *)
(* _read_loop, and the environment.                                          *)
TypeOK ==
  /\ prompt \in BOOLEAN
  /\ fd \in FdNum \cup {None}
  /\ files \in [FdNum -> {Free, Other} \cup Link]
  /\ link \in Link \cup {0} /\ drops \in 0..MaxLinks
  /\ link # 0 => link = drops + 1
  /\ pending \in BOOLEAN
  /\ eof \in {Free, Other} \cup Link
  /\ io_lock \in {None, Sender}
  /\ pc \in [Thread -> ReaderPc \cup SenderPc]
  /\ pc[Reader] \in ReaderPc /\ pc[Sender] \in SenderPc
  /\ others \in 0..MaxOthers
  /\ buffer \subseteq Link \cup {Other} /\ message \subseteq Link \cup {Other}
  /\ reports \in [Link \cup {Other} -> Nat]

(* self._fd leads to a file that is not the transport's only in the window  *)
(* a thread leaves open between os.close and `self._fd = None`: outside it  *)
(* neither thread can read, write or close somebody else's file.            *)
StaleOnlyWhileClosing ==
  fd # None /\ Target \notin Link => \E t \in Thread : pc[t] = "clear"

(* However the reader's and the sender's _close_fd interleave with each     *)
(* other, no descriptor is left open behind self._fd; provided that a close *)
(* is over before the device is opened again, which only a sleep ensures.   *)
NoDescriptorLeak == prompt => \A f \in FdNum : files[f] \in Link => f = fd

(* What bt_disconnected tells the main thread (line 202, emitted on every   *)
(* b"").  Seen on a link, the end is that of a link that is lost, and each  *)
(* is reported once.  A link that is up is reported lost only when the read *)
(* met the end of a foreign file behind a number somebody had closed, and   *)
(* one such file costs one false report: however the two threads, the links *)
(* and the other files interleave, the main thread is asked for at most one *)
(* recovery per lost link and per foreign file.                             *)
ReportedOnce ==
  /\ \A l \in Link : reports[l] <= IF l <= drops THEN 1 ELSE 0
  /\ reports[Other] <= others

(* A message delivered to the command handler never joins the bytes one     *)
(* phone left unfinished to those of the next (those of a foreign file can  *)
(* be among them, read through a number that was closed).                   *)
OneLinkPerMessage == \A m, n \in message \cap Link : m = n

(* Whatever the sender breaks, a link that stays up is served: the reader   *)
(* thread survives every exception and opens the device again (and no leak  *)
(* has used up the descriptors).                                            *)
LinkServed == \A n \in Link : (prompt /\ link = n) ~> (OnLiveLink \/ link # n)

(* A descriptor whose link is gone is not kept: a new link never waits      *)
(* behind a dead one.                                                       *)
DeadLinkDropped == OnDeadLink ~> ~OnDeadLink
=============================================================================
