------------------------- MODULE BtTransportProofs -------------------------
(***************************************************************************)
(* Theorems about BtTransport for any number of descriptors and links, and *)
(* however long a close() takes, proved by TLAPS.                          *)
(***************************************************************************)
EXTENDS BtTransport, TLAPS

USE DEF Freed, Cleared, Emptied, GiveUp, Break

LEMMA LinkNumbers ==
  /\ Link \subseteq Nat
  /\ Free \notin Link /\ Other \notin Link /\ Free # Other
  BY BoundAssumption DEF Link, Free, Other

LEMMA NoneFd == None \notin FdNum
  BY ThreadAssumption

(* TypeOK: no interleaving of the reader, the sender and the rest of the   *)
(* process takes self._fd, a program counter or a message out of its type. *)
THEOREM TypeCorrect == Spec => []TypeOK
<1> USE BoundAssumption, ThreadAssumption DEF ReaderPc, SenderPc, Closing, Thread
<1>1. Init => TypeOK
  <2> SUFFICES ASSUME Init PROVE TypeOK
    OBVIOUS
  <2>1. pc[Reader] = "probe" /\ pc[Sender] = "idle"
    BY DEF Init
  <2>2. pc \in [Thread -> ReaderPc \cup SenderPc]
    BY DEF Init
  <2>3. reports \in [Link \cup {Other} -> Nat] /\ files \in [FdNum -> {Free, Other} \cup Link]
    BY DEF Init
  <2>4. drops \in 0..MaxLinks /\ others \in 0..MaxOthers
    BY DEF Init
  <2>5. QED BY <2>1, <2>2, <2>3, <2>4 DEF Init, TypeOK
<1>2. TypeOK /\ [Next]_vars => TypeOK'
  <2> SUFFICES ASSUME TypeOK, [Next]_vars PROVE TypeOK'
    OBVIOUS
  <2> USE DEF TypeOK, Goto, envVars, msgVars
  <2>1. CASE LinkUp      BY <2>1 DEF LinkUp, Link
  <2>2. CASE LinkDown
    <3>1. drops' \in 0..MaxLinks /\ link' = 0
      BY <2>2 DEF LinkDown, Link
    <3>2. QED BY <2>2, <3>1 DEF LinkDown
  <2>3. CASE Input       BY <2>3 DEF Input
  <2>4. CASE OtherOpens
    <3>1. others' \in 0..MaxOthers BY <2>4 DEF OtherOpens
    <3>2. QED BY <2>4, <3>1 DEF OtherOpens
  <2>5. CASE OtherCloses BY <2>5 DEF OtherCloses
  <2>6. ASSUME NEW t \in Thread, Close(t) PROVE TypeOK'
    <3>1. CASE CloseCheck(t) BY <3>1 DEF CloseCheck
    <3>2. CASE CloseFile(t)  BY <3>2 DEF CloseFile
    <3>3. CASE ClearFd(t)    BY <3>3 DEF ClearFd, AfterClose
    <3>4. QED BY <2>6, <3>1, <3>2, <3>3 DEF Close
  <2>7. CASE Reopen      BY <2>7 DEF Reopen
  <2>8. CASE OpenRaises \/ SelectReady \/ LoopEnds
    BY <2>8 DEF OpenRaises, SelectReady, LoopEnds
  <2>9. CASE ReadChunk
    <3>1. Target \in Link \cup {Other} BY <2>9 DEF ReadChunk, OnLiveLink
    <3>2. pending' \in BOOLEAN BY <2>9 DEF ReadChunk
    <3>3. QED BY <2>9, <3>1, <3>2 DEF ReadChunk
  <2>10. CASE ReadEof
    <3>1. Target \in {Free, Other} \cup Link BY DEF Target
    <3>2. QED BY <2>10, <3>1 DEF ReadEof
  <2>11. CASE ReadRaises BY <2>11 DEF ReadRaises
  <2>12. CASE Report
    <3>1. CASE eof = Free
      <4>1. reports' = reports BY <2>12, <3>1, LinkNumbers DEF Report
      <4>2. QED BY <2>12, <4>1 DEF Report
    <3>2. CASE eof # Free
      <4>1. reports[eof] + 1 \in Nat BY <3>2
      <4>2. reports' \in [Link \cup {Other} -> Nat] BY <2>12, <4>1 DEF Report
      <4>3. QED BY <2>12, <4>2 DEF Report
    <3>3. QED BY <3>1, <3>2
  <2>13. CASE SendStart \/ SendWrite \/ SendRaises
    BY <2>13 DEF SendStart, SendWrite, SendRaises
  <2>14. CASE SendFlush \/ FlushRaises
    <3>1. pending' \in BOOLEAN BY <2>14 DEF SendFlush, FlushRaises
    <3>2. QED BY <2>14, <3>1 DEF SendFlush, FlushRaises
  <2>15. CASE UNCHANGED vars BY <2>15 DEF vars
  <2>16. QED
    BY <2>1, <2>2, <2>3, <2>4, <2>5, <2>6, <2>7, <2>8, <2>9, <2>10, <2>11, <2>12,
       <2>13, <2>14, <2>15 DEF Next, ReaderStep, SenderStep
<1>3. QED
  BY <1>1, <1>2, PTL DEF Spec

-----------------------------------------------------------------------------
(* What self._fd may lead to *)

(* The only file a thread opens for the transport is the link's, and the   *)
(* only step that lets a number go while self._fd still holds it is a      *)
(* close(), whose thread is then about to clear self._fd.                  *)
LEMMA StaleStep ==
  ASSUME TypeOK, StaleOnlyWhileClosing, [Next]_vars
  PROVE  StaleOnlyWhileClosing'
<1> USE LinkNumbers DEF TypeOK, StaleOnlyWhileClosing, Target, Goto, envVars, msgVars
<1>1. CASE LinkUp \/ LinkDown \/ Input
  BY <1>1 DEF LinkUp, LinkDown, Input
<1>2. CASE OtherOpens \/ OtherCloses
  BY <1>2 DEF OtherOpens, OtherCloses
<1>3. ASSUME NEW t \in Thread, Close(t) PROVE StaleOnlyWhileClosing'
  <2>1. CASE CloseCheck(t) BY <1>3, <2>1 DEF CloseCheck
  <2>2. CASE CloseFile(t)  BY <1>3, <2>2 DEF CloseFile
  <2>3. CASE ClearFd(t)    BY <1>3, <2>3, ThreadAssumption DEF ClearFd
  <2>4. QED BY <1>3, <2>1, <2>2, <2>3 DEF Close
<1>4. CASE Reopen
  <2>1. link \in Link BY <1>4 DEF Reopen
  <2>2. QED BY <1>4, <2>1 DEF Reopen
<1>5. CASE OpenRaises \/ SelectReady \/ LoopEnds
  BY <1>5 DEF OpenRaises, SelectReady, LoopEnds, Thread
<1>6. CASE ReadChunk \/ ReadEof \/ ReadRaises \/ Report
  BY <1>6 DEF ReadChunk, ReadEof, ReadRaises, Report, Thread
<1>7. CASE SendStart \/ SendWrite \/ SendRaises \/ SendFlush \/ FlushRaises
  BY <1>7 DEF SendStart, SendWrite, SendRaises, SendFlush, FlushRaises, Thread
<1>8. CASE UNCHANGED vars BY <1>8 DEF vars
<1>9. QED
  BY <1>1, <1>2, <1>3, <1>4, <1>5, <1>6, <1>7, <1>8
  DEF Next, ReaderStep, SenderStep, Thread

(* StaleOnlyWhileClosing: whatever the other files of the process do, the  *)
(* transport can touch a foreign one only in the window of _close_fd.      *)
THEOREM StaleWindow == Spec => []StaleOnlyWhileClosing
<1>1. Init => StaleOnlyWhileClosing
  BY DEF Init, StaleOnlyWhileClosing
<1>2. TypeOK /\ StaleOnlyWhileClosing /\ [Next]_vars => StaleOnlyWhileClosing'
  BY StaleStep
<1>3. QED
  BY <1>1, <1>2, TypeCorrect, PTL DEF Spec

-----------------------------------------------------------------------------
(* Reports and messages *)

(* The strengthening of ReportedOnce.  A link whose end was seen but not    *)
(* reported yet is lost and not counted; a descriptor is one of a lost link *)
(* or of the one that is up; self._fd leads to none of a link that was      *)
(* counted, and nowhere when a report is due.                               *)
ReportInv ==
  /\ \A l \in Link : reports[l] <= IF l <= drops THEN 1 ELSE 0
  /\ \A f \in FdNum : files[f] \in Link => files[f] <= drops \/ files[f] = link
  /\ eof \in Link => reports[eof] = 0 /\ eof <= drops
  /\ eof # Free => pc[Reader] \in Closing \cup {"report"}
  /\ Target \in Link => reports[Target] = 0
  /\ pc[Reader] = "report" => fd = None

(* The foreign file whose end is to be reported, or that self._fd leads to, *)
(* is one that was opened and has cost no report yet.                       *)
ForeignInv ==
  reports[Other] + (IF eof = Other \/ Target = Other THEN 1 ELSE 0) <= others

(* The strengthening of OneLinkPerMessage: the unfinished message holds     *)
(* bytes of one link at most, the one self._fd leads to if it leads to one. *)
MessageInv ==
  /\ OneLinkPerMessage
  /\ \A m, n \in buffer \cap Link : m = n
  /\ Target \in Link => buffer \cap Link \subseteq {Target}

(* A step of _close_fd leaves self._fd on its file or leads it nowhere.    *)
LEMMA CloseTarget ==
  ASSUME NEW t \in Thread, TypeOK, Close(t)
  PROVE  /\ Target' \in Link => Target' = Target
         /\ fd = None => fd' = None
         /\ \A f \in FdNum : files'[f] \in Link => files'[f] = files[f]
        /\ UNCHANGED <<link, drops, eof, buffer, message, reports>>
<1> USE LinkNumbers DEF TypeOK, Target, Goto, envVars, msgVars
<1>1. CASE CloseCheck(t) BY <1>1 DEF CloseCheck
<1>2. CASE CloseFile(t)  BY <1>2 DEF CloseFile
<1>3. CASE ClearFd(t)    BY <1>3 DEF ClearFd
<1>4. QED BY <1>1, <1>2, <1>3 DEF Close

LEMMA ReportStep ==
  ASSUME TypeOK, ReportInv, [Next]_vars
  PROVE  ReportInv'
<1> USE LinkNumbers DEF TypeOK, ReportInv, Goto, envVars, msgVars
<1>1. CASE LinkUp
  <2>1. link = 0 /\ UNCHANGED <<fd, files, drops, pc, eof, reports>>
    BY <1>1 DEF LinkUp
  <2>2. Target' = Target BY <2>1 DEF Target
  <2>3. 0 \notin Link BY DEF Link
  <2>4. QED BY <2>1, <2>2, <2>3
<1>13. CASE Input
  BY <1>13 DEF Input, Target
<1>2. CASE LinkDown
  <2>1. drops' = drops + 1 /\ UNCHANGED <<fd, files, pc, eof, reports>>
    BY <1>2 DEF LinkDown
  <2>2. (\A l \in Link : reports[l] <= IF l <= drops THEN 1 ELSE 0)'
    BY <2>1 DEF Link
  <2>3. eof' \in Link => eof' <= drops' BY <2>1 DEF Link
  <2>4. Target' = Target BY <2>1 DEF Target
  <2>5. (\A f \in FdNum : files[f] \in Link => files[f] <= drops \/ files[f] = link)'
    BY <1>2, <2>1 DEF LinkDown, Link
  <2>6. (eof \in Link => reports[eof] = 0)' BY <2>1
  <2>7. QED BY <2>1, <2>2, <2>3, <2>4, <2>5, <2>6
<1>3. CASE OtherOpens \/ OtherCloses
  <2>1. Target' \in Link => Target' = Target
    BY <1>3 DEF OtherOpens, OtherCloses, Target
  <2>2. /\ \A f \in FdNum : files'[f] \in Link => files'[f] = files[f]
        /\ UNCHANGED <<fd, link, drops, pc, eof, reports>>
    BY <1>3 DEF OtherOpens, OtherCloses
  <2>3. QED BY <2>1, <2>2
<1>4. ASSUME NEW t \in Thread, Close(t) PROVE ReportInv'
  <2>1. /\ Target' \in Link => Target' = Target
        /\ fd = None => fd' = None
        /\ \A f \in FdNum : files'[f] \in Link => files'[f] = files[f]
        /\ UNCHANGED <<link, drops, eof, reports>>
    BY <1>4, CloseTarget
  <2>2. (eof # Free => pc[Reader] \in Closing \cup {"report"})'
    BY <1>4, <2>1, ThreadAssumption
    DEF Close, CloseCheck, CloseFile, ClearFd, AfterClose, Closing, Thread
  <2>3. (pc[Reader] = "report" => fd = None)'
    BY <1>4, <2>1, ThreadAssumption
    DEF Close, CloseCheck, CloseFile, ClearFd, AfterClose, Closing, Thread
  <2>4. QED BY <2>1, <2>2, <2>3
<1>5. CASE Reopen
  <2>1. PICK f \in FdNum : files' = [files EXCEPT ![f] = link] /\ fd' = f
    BY <1>5 DEF Reopen
  <2>2. /\ pc[Reader] = "probe" /\ pc'[Reader] = "loop" /\ link \in Link
        /\ UNCHANGED <<link, drops, eof, reports>>
    BY <1>5 DEF Reopen, Thread
  <2>3. Target' = link
    BY <2>1, NoneFd DEF Target
  <2>4. reports[link] = 0
    BY <2>2 DEF Link
  <2>5. eof = Free BY <2>2 DEF Closing
  <2>6. (\A g \in FdNum : files[g] \in Link => files[g] <= drops \/ files[g] = link)'
    BY <2>1, <2>2
  <2>7. QED BY <2>2, <2>3, <2>4, <2>5, <2>6
<1>6. CASE OpenRaises \/ SelectReady \/ LoopEnds
  BY <1>6 DEF OpenRaises, SelectReady, LoopEnds, Target, Closing, Thread
<1>7. CASE ReadChunk \/ ReadRaises
  BY <1>7 DEF ReadChunk, ReadRaises, Target, Closing, Thread
<1>8. CASE ReadEof
  <2>1. /\ pc'[Reader] = "check" /\ eof' = Target
        /\ UNCHANGED <<fd, files, link, drops, reports>>
    BY <1>8 DEF ReadEof, Thread
  <2>2. Target \in Link => Target <= drops
    BY <1>8 DEF ReadEof, OnDeadLink, Target
  <2>3. Target' = Target BY <2>1 DEF Target
  <2>4. QED BY <2>1, <2>2, <2>3 DEF Closing
<1>9. CASE Report
  <2>1. /\ fd = None /\ fd' = None /\ eof' = Free
        /\ UNCHANGED <<files, link, drops>>
        /\ pc'[Reader] = "check" /\ reports' = [reports EXCEPT ![eof] = @ + 1]
    BY <1>9 DEF Report, Thread
  <2>2. Target' = Free BY <2>1 DEF Target
  <2>3. (\A l \in Link : reports[l] <= IF l <= drops THEN 1 ELSE 0)' BY <2>1
  <2>4. QED BY <2>1, <2>2, <2>3
<1>10. CASE SendStart \/ SendWrite \/ SendRaises \/ SendFlush \/ FlushRaises
  BY <1>10, ThreadAssumption
  DEF SendStart, SendWrite, SendRaises, SendFlush, FlushRaises, Target, Thread
<1>11. CASE UNCHANGED vars BY <1>11 DEF vars, Target
<1>12. QED
  BY <1>1, <1>13, <1>2, <1>3, <1>4, <1>5, <1>6, <1>7, <1>8, <1>9, <1>10, <1>11
  DEF Next, ReaderStep, SenderStep, Thread

(* The bill of the foreign files: opening one allows one more report, and   *)
(* the reader leaves the file it reports behind (self._fd is None by then). *)
LEMMA ForeignStep ==
  ASSUME TypeOK, ReportInv, ForeignInv, [Next]_vars
  PROVE  ForeignInv'
<1> USE LinkNumbers DEF TypeOK, ForeignInv, Goto, envVars, msgVars
<1>1. ASSUME UNCHANGED <<reports, others>>,
             eof' = Other \/ Target' = Other => eof = Other \/ Target = Other
      PROVE  ForeignInv'
  BY <1>1
<1>2. CASE LinkUp \/ LinkDown \/ Input \/ OtherCloses
  <2>1. Target' = Other => Target = Other
    BY <1>2 DEF LinkUp, LinkDown, Input, OtherCloses, Target
  <2>2. QED BY <1>1, <1>2, <2>1 DEF LinkUp, LinkDown, Input, OtherCloses
<1>3. CASE OtherOpens
  <2>1. others' = others + 1 /\ UNCHANGED <<fd, eof, reports>>
    BY <1>3 DEF OtherOpens
  <2>2. reports[Other] \in Nat /\ others \in Nat BY DEF Other
  <2>3. QED BY <2>1, <2>2
<1>4. ASSUME NEW t \in Thread, Close(t) PROVE ForeignInv'
  <2>1. Target' = Other => Target = Other
    BY <1>4 DEF Close, CloseCheck, CloseFile, ClearFd, Target
  <2>2. UNCHANGED <<eof, reports, others>>
    BY <1>4 DEF Close, CloseCheck, CloseFile, ClearFd
  <2>3. QED BY <1>1, <2>1, <2>2
<1>5. CASE Reopen
  <2>1. Target' = link /\ link \in Link
    BY <1>5, NoneFd DEF Reopen, Target
  <2>2. UNCHANGED <<eof, reports, others>> BY <1>5 DEF Reopen
  <2>3. QED BY <1>1, <2>1, <2>2
<1>6. CASE ReadEof
  <2>1. eof' = Target /\ UNCHANGED <<fd, files, reports, others>>
    BY <1>6 DEF ReadEof
  <2>2. Target' = Target BY <2>1 DEF Target
  <2>3. QED BY <1>1, <2>1, <2>2
<1>7. CASE Report
  <2>1. /\ fd' = None /\ eof' = Free /\ UNCHANGED others
        /\ reports' = [reports EXCEPT ![eof] = @ + 1]
    BY <1>7 DEF Report, ReportInv
  <2>2. Target' = Free BY <2>1 DEF Target
  <2>3. CASE eof = Other
    <3>1. reports'[Other] = reports[Other] + 1 BY <2>1, <2>3 DEF Other
    <3>2. QED BY <2>1, <2>2, <2>3, <3>1
  <2>4. CASE eof # Other
    <3>1. reports'[Other] = reports[Other] BY <2>1, <2>4 DEF Other
    <3>2. reports[Other] \in Nat BY DEF Other
    <3>3. QED BY <2>1, <2>2, <2>4, <3>1, <3>2
  <2>5. QED BY <2>3, <2>4
<1>8. CASE UNCHANGED <<fd, files, eof, reports, others>>
  BY <1>8 DEF Target
<1>9. QED
  BY <1>2, <1>3, <1>4, <1>5, <1>6, <1>7, <1>8
  DEF Next, ReaderStep, SenderStep, Thread, OpenRaises, SelectReady, LoopEnds,
      ReadChunk, ReadRaises, SendStart, SendWrite, SendRaises, SendFlush,
      FlushRaises, vars

(* ReportedOnce: two threads that close, reopen and read at their own pace *)
(* never make one lost link into two reports, and what the end of a foreign *)
(* file makes of a link that is up is one report per such file.            *)
THEOREM OneReportPerLink == Spec => []ReportedOnce
<1>1. Init => ReportInv
  BY LinkNumbers DEF Init, ReportInv, Target, Thread, Link
<1>2. TypeOK /\ ReportInv /\ [Next]_vars => ReportInv'
  BY ReportStep
<1>3. Init => ForeignInv
  BY LinkNumbers DEF Init, ForeignInv, Target
<1>4. TypeOK /\ ReportInv /\ ForeignInv /\ [Next]_vars => ForeignInv'
  BY ForeignStep
<1>5. TypeOK /\ ReportInv /\ ForeignInv => ReportedOnce
  <2> SUFFICES ASSUME TypeOK, ReportInv, ForeignInv PROVE ReportedOnce
    OBVIOUS
  <2>1. reports[Other] \in Nat /\ others \in Nat BY DEF TypeOK
  <2>2. reports[Other] <= others BY <2>1 DEF ForeignInv
  <2>3. QED BY <2>2 DEF ReportInv, ReportedOnce
<1>6. QED
  BY <1>1, <1>2, <1>3, <1>4, <1>5, TypeCorrect, PTL DEF Spec

LEMMA MessageStep ==
  ASSUME TypeOK, MessageInv, [Next]_vars
  PROVE  MessageInv'
<1> USE LinkNumbers DEF TypeOK, MessageInv, OneLinkPerMessage, Goto, envVars, msgVars
<1>1. ASSUME UNCHANGED <<buffer, message>>, Target' \in Link => Target' = Target
      PROVE  MessageInv'
  BY <1>1
<1>2. CASE LinkUp \/ LinkDown \/ Input \/ OtherOpens \/ OtherCloses
  <2>1. Target' \in Link => Target' = Target
    BY <1>2 DEF LinkUp, LinkDown, Input, OtherOpens, OtherCloses, Target
  <2>2. QED
    BY <1>1, <1>2, <2>1 DEF LinkUp, LinkDown, Input, OtherOpens, OtherCloses
<1>3. ASSUME NEW t \in Thread, Close(t) PROVE MessageInv'
  BY <1>1, <1>3, CloseTarget
<1>4. CASE Reopen
  BY <1>4 DEF Reopen
<1>5. CASE ReadChunk
  <2>1. Target \in Link \cup {Other} /\ UNCHANGED <<fd, files>>
    BY <1>5 DEF ReadChunk, OnLiveLink
  <2>2. Target' = Target
    BY <2>1 DEF Target
  <2>3. /\ buffer' = buffer \cup {Target} \/ buffer' \in {{}, {Target}}
        /\ message' = message \/ message' = buffer \cup {Target}
    BY <1>5 DEF ReadChunk
  <2>4. \A m, n \in (buffer \cup {Target}) \cap Link : m = n
    BY <2>1
  <2>5. OneLinkPerMessage' BY <2>3, <2>4
  <2>6. (\A m, n \in buffer \cap Link : m = n)' BY <2>3, <2>4
  <2>7. (Target \in Link => buffer \cap Link \subseteq {Target})'
    BY <2>2, <2>3
  <2>8. QED BY <2>5, <2>6, <2>7
<1>6. CASE UNCHANGED <<fd, files, buffer, message>>
  BY <1>1, <1>6 DEF Target
<1>7. QED
  BY <1>2, <1>3, <1>4, <1>5, <1>6
  DEF Next, ReaderStep, SenderStep, Thread, OpenRaises, SelectReady, LoopEnds,
      ReadEof, ReadRaises, Report, SendStart, SendWrite, SendRaises, SendFlush,
      FlushRaises, vars

(* OneLinkPerMessage: a command is never pieced together from two phones,  *)
(* whichever thread closed the link between them.                          *)
THEOREM NoMixedMessage == Spec => []OneLinkPerMessage
<1>1. Init => MessageInv
  BY DEF Init, MessageInv, OneLinkPerMessage
<1>2. TypeOK /\ MessageInv /\ [Next]_vars => MessageInv'
  BY MessageStep
<1>3. MessageInv => OneLinkPerMessage
  BY DEF MessageInv
<1>4. QED
  BY <1>1, <1>2, <1>3, TypeCorrect, PTL DEF Spec

-----------------------------------------------------------------------------
(* Descriptors *)

(* The strengthening of NoDescriptorLeak: the reader opens the device only  *)
(* when self._fd is None, and a thread that is about to clear self._fd does *)
(* not lose a link by it; the latter is what `prompt` assumes of the sleep. *)
LeakInv ==
  /\ NoDescriptorLeak
  /\ pc[Reader] = "probe" => fd = None
  /\ prompt => \A t \in Thread : pc[t] = "clear" => Target \notin Link

(* What keeps LeakInv: no file becomes a link's, self._fd stays or is left  *)
(* behind empty, and nobody comes to "clear" or "probe" with it set.        *)
LEMMA LeakFrame ==
  ASSUME TypeOK, LeakInv, UNCHANGED <<prompt, fd>>,
         \A f \in FdNum : files'[f] \in Link => files'[f] = files[f],
         pc'[Reader] = "probe" => pc[Reader] = "probe",
         \A t \in Thread : pc'[t] = "clear" => pc[t] = "clear" \/ Target' \notin Link
  PROVE  LeakInv'
<1> USE LinkNumbers DEF TypeOK, LeakInv, NoDescriptorLeak
<1>1. Target' \in Link => Target \in Link
  BY DEF Target
<1>2. QED BY <1>1

LEMMA LeakStep ==
  ASSUME TypeOK, LeakInv, [Next]_vars
  PROVE  LeakInv'
<1> USE LinkNumbers, NoneFd DEF TypeOK, Goto, envVars, msgVars
<1>1. CASE LinkUp \/ LinkDown \/ Input \/ OtherOpens \/ OtherCloses
  <2>1. UNCHANGED <<prompt, fd, pc>>
    BY <1>1 DEF LinkUp, LinkDown, Input, OtherOpens, OtherCloses
  <2>2. \A f \in FdNum : files'[f] \in Link => files'[f] = files[f]
    BY <1>1 DEF LinkUp, LinkDown, Input, OtherOpens, OtherCloses
  <2>3. QED BY <2>1, <2>2, LeakFrame
<1>2. ASSUME NEW t \in Thread, Close(t) PROVE LeakInv'
  <2>1. CASE CloseCheck(t)
    <3>1. /\ UNCHANGED <<prompt, fd, files>>
          /\ pc' = [pc EXCEPT ![t] = IF fd # None THEN "close" ELSE "clear"]
      BY <2>1 DEF CloseCheck
    <3>2. fd = None => Target' \notin Link BY <3>1 DEF Target
    <3>3. QED BY <3>1, <3>2, LeakFrame DEF Thread
  <2>2. CASE CloseFile(t)
    <3>1. /\ UNCHANGED <<prompt, fd>> /\ pc' = [pc EXCEPT ![t] = "clear"]
          /\ files' = IF fd # None THEN [files EXCEPT ![fd] = Free] ELSE files
      BY <2>2 DEF CloseFile
    <3>2. Target' \notin Link BY <3>1 DEF Target
    <3>3. \A f \in FdNum : files'[f] \in Link => files'[f] = files[f] BY <3>1
    <3>4. QED BY <3>1, <3>2, <3>3, LeakFrame DEF Thread
  <2>3. CASE ClearFd(t)
    <3>1. /\ fd' = None /\ UNCHANGED <<prompt, files>> /\ pc[t] = "clear"
      BY <2>3 DEF ClearFd
    <3>2. prompt => \A f \in FdNum : files[f] \notin Link
      BY <1>2, <3>1 DEF LeakInv, NoDescriptorLeak, Target
    <3>3. Target' \notin Link BY <3>1 DEF Target
    <3>4. QED BY <3>1, <3>2, <3>3 DEF LeakInv, NoDescriptorLeak
  <2>4. QED BY <1>2, <2>1, <2>2, <2>3 DEF Close
<1>3. CASE Reopen
  <2>1. PICK f \in FdNum : files' = [files EXCEPT ![f] = link] /\ fd' = f
    BY <1>3 DEF Reopen
  <2>2. /\ fd = None /\ UNCHANGED prompt
        /\ pc' = [pc EXCEPT ![Reader] = "loop"]
        /\ prompt => pc[Sender] # "clear"
    BY <1>3 DEF Reopen, LeakInv
  <2>3. NoDescriptorLeak' BY <2>1, <2>2 DEF LeakInv, NoDescriptorLeak
  <2>4. (prompt => \A t \in Thread : pc[t] = "clear" => Target \notin Link)'
    BY <2>2, ThreadAssumption DEF Thread
  <2>5. QED BY <2>2, <2>3, <2>4 DEF LeakInv, Thread
<1>4. CASE \/ OpenRaises \/ SelectReady \/ LoopEnds \/ ReadChunk \/ ReadEof
           \/ ReadRaises \/ Report
  <2>1. /\ UNCHANGED <<prompt, fd, files>>
        /\ pc' = [pc EXCEPT ![Reader] = "check"] \/ pc' = [pc EXCEPT ![Reader] = "read"]
           \/ pc' = [pc EXCEPT ![Reader] = "loop"]
    BY <1>4 DEF OpenRaises, SelectReady, LoopEnds, ReadChunk, ReadEof, ReadRaises, Report
  <2>2. QED BY <2>1, LeakFrame DEF Thread
<1>5. CASE SendStart \/ SendWrite \/ SendRaises \/ SendFlush \/ FlushRaises
  <2>1. /\ UNCHANGED <<prompt, fd, files>>
        /\ \E l \in {"write", "flush", "check", "idle"} : pc' = [pc EXCEPT ![Sender] = l]
    BY <1>5 DEF SendStart, SendWrite, SendRaises, SendFlush, FlushRaises
  <2>2. QED BY <2>1, LeakFrame, ThreadAssumption DEF Thread
<1>6. CASE UNCHANGED vars
  BY <1>6, LeakFrame DEF vars
<1>7. QED
  BY <1>1, <1>2, <1>3, <1>4, <1>5, <1>6 DEF Next, ReaderStep, SenderStep, Thread

(* NoDescriptorLeak: however many times a link breaks under the reader and *)
(* the sender, at most the descriptor in self._fd is open on one, as long  *)
(* as a close() is over before the other thread's sleep(1).                *)
THEOREM DescriptorsReturned == Spec => []NoDescriptorLeak
<1>1. Init => LeakInv
  BY LinkNumbers DEF Init, LeakInv, NoDescriptorLeak, Target, Thread
<1>2. TypeOK /\ LeakInv /\ [Next]_vars => LeakInv'
  BY LeakStep
<1>3. LeakInv => NoDescriptorLeak
  BY DEF LeakInv
<1>4. QED
  BY <1>1, <1>2, <1>3, TypeCorrect, PTL DEF Spec
=============================================================================
