----------------------------- MODULE AnswerPath -----------------------------
(***************************************************************************)
(* The way of an answer from an application to the phones: a connection of *)
(* UnixServer, whose signal send_msg_to_mobile is a direct call on the     *)
(* event loop, and the MobileClients.                                      *)
(***************************************************************************)
EXTENDS UnixServer, MobileSend

vars == <<serverVars, sendVars>>

Init == ServerInit /\ SendInit

(* fault: the handler awaits the sends instead of scheduling them *)
HandOnAwaits(i) == (\A c \in Client : step[c] = "free") /\ SendMsgToMobile(i)
HandOn(i) == SendMsgToMobile(i)

(* emit() schedules the sends in the same step. *)
Serve ==
  /\ Handler
  /\ IF emitted' = emitted THEN UNCHANGED sendVars ELSE HandOn(Len(emitted'))

Next ==
  \/ (AppStallsOrResumes \/ AppCloses) /\ UNCHANGED sendVars
  \/ Serve
  \/ \E c \in Client : (Registry(c) \/ Phone(c) \/ Send(c)) /\ UNCHANGED serverVars

Spec == Init /\ [][Next]_vars

(* The event loop runs what is ready.  drain() of an application, or of a  *)
(* phone, that reads now and then ends; one that reads no more is waited   *)
(* for.  The five seconds of a read pass.                                  *)
Runs(A) == A /\ UNCHANGED serverVars
Fairness ==
  /\ SF_vars(~deaf /\ batch # <<>> /\ Serve)
  /\ \A c \in Client :
       /\ WF_vars(Runs(Connect(c)))
       /\ WF_vars(Runs(Skip(c) \/ Write(c) \/ ReadReply(c) \/ Timeout(c) \/ Broken(c)))
       /\ SF_vars(c \notin stalled /\ Runs(Drained(c)))

FairSpec == Spec /\ Fairness

(* The types of both parts. *)
TypeOK == ServerTypeOK /\ SendTypeOK

(* Every answer that was handed on is sent to every phone that was         *)
(* registered then and stays connected, whether it is still registered or  *)
(* not, unless that phone stops reading for good.                          *)
AnswersGoThrough ==
  \A c \in Client : \A i \in 1..(2 * MaxMsg) :
    (conn[c] = "open" /\ \E k \in DOMAIN tasks[c] : tasks[c][k] = i)
      ~> (last[c] = i \/ conn[c] # "open" \/ [](c \in stalled))

Listed(n) == \E j \in DOMAIN batch : batch[j] = [msg |-> n, part |-> "whole"]
Sent(n, c) == \E i \in DOMAIN emitted : emitted[i].msg = n /\ i <= last[c]

(* A phone that stops reading holds up nobody but itself: an answer that   *)
(* the handler has in hand is sent to every phone that is registered and   *)
(* stays, reads and is connected, whatever the other phones do, unless the *)
(* loop ends or the application stops reading its replies for good.        *)
OthersServed ==
  \A c \in Client : \A n \in Msg :
    (Listed(n) /\ c \in known /\ conn[c] = "open")
      ~> \/ Sent(n, c) \/ c \notin known \/ conn[c] # "open" \/ link = "closed"
         \/ []deaf \/ [](c \in stalled)
=============================================================================
