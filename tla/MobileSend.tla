----------------------------- MODULE MobileSend -----------------------------
(***************************************************************************)
(* MobileClient: a connection to a phone's own server, on which an answer  *)
(* is written and a reply awaited, one at a time under _send_lock.         *)
(* send_msg_to_mobile schedules a send() for every registered client.      *)
(*                                                                         *)
(* Everything runs on one event loop: an action is the code between two    *)
(* awaits.  asyncio.Lock serves its waiters in order, so the send()s of a  *)
(* client are a queue whose head holds the lock.  The connection is a      *)
(* stream of bytes: read() takes what has arrived, be it less than a reply *)
(* or more than one.                                                       *)
(***************************************************************************)
EXTENDS Naturals, Sequences

CONSTANTS
  Client,    (* the MobileClient objects, each of a phone                   *)
  MaxPieces  (* bound: pieces of a client's replies before the last ones    *)

VARIABLES
  known,    (* self.mobile_clients                                          *)
  conn,     (* of each client: "none", "connecting", "failed", "open", then *)
            (* "eof" when the phone has closed, "lost" when all is over     *)
  tasks,    (* the send()s that wait for the lock or hold it                *)
  step,     (* where the holder is: "free", "draining" or "reading"         *)
  stalled,  (* phones that do not read                                      *)
  replies,  (* pieces of replies that have arrived and are not read         *)
  owed,     (* messages the phone has not replied to in full                *)
  timeouts, (* history: reads that ended with TimeoutError                  *)
  split,    (* history: pieces that were not the last of their reply        *)
  last      (* history: the last message written, 0 before the first        *)

sendVars == <<known, conn, tasks, step, stalled, replies, owed, timeouts, split, last>>

SendInit ==
  /\ known = {} /\ stalled = {}
  /\ conn = [c \in Client |-> "none"]
  /\ tasks = [c \in Client |-> <<>>]
  /\ step = [c \in Client |-> "free"]
  /\ replies = [c \in Client |-> 0]
  /\ owed = [c \in Client |-> 0]
  /\ timeouts = [c \in Client |-> 0]
  /\ split = [c \in Client |-> 0]
  /\ last = [c \in Client |-> 0]

SetConn(c, s) ==
  /\ conn' = [conn EXCEPT ![c] = s]
  /\ UNCHANGED <<tasks, step, stalled, replies, owed, timeouts, split, last>>

-----------------------------------------------------------------------------
(* The registry: MobileRegistry has the rest of it. *)

Register(c) ==
  /\ conn[c] = "none"
  /\ known' = known \cup {c}
  /\ SetConn(c, "connecting")

(* Only the list forgets the client: its connection and tasks go on. *)
Unregister(c) ==
  /\ c \in known
  /\ known' = known \ {c}
  /\ UNCHANGED <<conn, tasks, step, stalled, replies, owed, timeouts, split, last>>

(* connect(), which nobody tries again *)
Connect(c) ==
  /\ conn[c] = "connecting"
  /\ \E s \in {"open", "failed"} : SetConn(c, s)
  /\ UNCHANGED known

(* send_msg_to_mobile(i) *)
SendMsgToMobile(i) ==
  /\ tasks' = [c \in Client |-> IF c \in known THEN Append(tasks[c], i) ELSE tasks[c]]
  /\ UNCHANGED <<known, conn, step, stalled, replies, owed, timeouts, split, last>>

-----------------------------------------------------------------------------
(* send() *)

(* fault: a phone that does not read is passed over *)
WritableNow(c) == conn[c] \in {"open", "eof"} /\ c \notin stalled
Writable(c) == conn[c] \in {"open", "eof"}

(* The lock is taken; no writer, or one that is closing: return *)
Skip(c) ==
  /\ step[c] = "free" /\ tasks[c] # <<>>
  /\ ~Writable(c)
  /\ tasks' = [tasks EXCEPT ![c] = Tail(@)]
  /\ UNCHANGED <<known, conn, step, stalled, replies, owed, timeouts, split, last>>

(* The lock is taken; write *)
Write(c) ==
  /\ step[c] = "free" /\ tasks[c] # <<>>
  /\ Writable(c)
  /\ last' = [last EXCEPT ![c] = Head(tasks[c])]
  /\ owed' = [owed EXCEPT ![c] = @ + 1]
  /\ step' = [step EXCEPT ![c] = "draining"]
  /\ UNCHANGED <<known, conn, tasks, stalled, replies, timeouts, split>>

(* drain() returns: when the phone reads, or has room for this message *)
Drained(c) ==
  /\ step[c] = "draining"
  /\ conn[c] # "lost"
  /\ step' = [step EXCEPT ![c] = "reading"]
  /\ UNCHANGED <<known, conn, tasks, stalled, replies, owed, timeouts, split, last>>

Keep(c) == UNCHANGED step  \* fault: the lock is not given up
Release(c) == step' = [step EXCEPT ![c] = "free"]

(* send() ends. *)
End(c) ==
  /\ Release(c)
  /\ tasks' = [tasks EXCEPT ![c] = Tail(@)]
  /\ UNCHANGED <<known, conn, stalled, owed, split, last>>

(* read() returns all that has arrived *)
ReadReply(c) ==
  /\ step[c] = "reading"
  /\ replies[c] > 0
  /\ replies' = [replies EXCEPT ![c] = 0]
  /\ End(c)
  /\ UNCHANGED timeouts

Timeout(c) ==
  /\ step[c] = "reading"
  /\ replies[c] = 0
  /\ timeouts' = [timeouts EXCEPT ![c] = @ + 1]
  /\ End(c)
  /\ UNCHANGED replies

OverAnyway(c) == TRUE  \* fault: what is in the way of read() is not waited for
Over(c) == conn[c] \in {"eof", "lost"}

(* read() returns b"" or raises, or drain() raises *)
Broken(c) ==
  /\ \/ step[c] = "reading" /\ replies[c] = 0 /\ Over(c)
     \/ step[c] = "draining" /\ conn[c] = "lost"
  /\ End(c)
  /\ UNCHANGED <<replies, timeouts>>

-----------------------------------------------------------------------------
(* The phone *)

(* The last piece of a reply arrives, or one before it *)
Answers(c) ==
  /\ conn[c] = "open" /\ c \notin stalled
  /\ owed[c] > 0
  /\ \/ owed' = [owed EXCEPT ![c] = @ - 1] /\ UNCHANGED split
     \/ split[c] < MaxPieces /\ split' = [split EXCEPT ![c] = @ + 1] /\ UNCHANGED owed
  /\ replies' = [replies EXCEPT ![c] = @ + 1]
  /\ UNCHANGED <<known, conn, tasks, step, stalled, timeouts, last>>

StallsOrResumes(c) ==
  /\ conn[c] = "open"
  /\ stalled' = IF c \in stalled THEN stalled \ {c} ELSE stalled \cup {c}
  /\ UNCHANGED <<known, conn, tasks, step, replies, owed, timeouts, split, last>>

(* The phone closes, or the connection is lost: it owes nothing any more. *)
Leaves(c) ==
  /\ \/ conn[c] = "open" /\ conn' = [conn EXCEPT ![c] = "eof"]
     \/ Writable(c) /\ conn' = [conn EXCEPT ![c] = "lost"]
  /\ owed' = [owed EXCEPT ![c] = 0]
  /\ stalled' = stalled \ {c}
  /\ UNCHANGED <<known, tasks, step, replies, timeouts, split, last>>

Registry(c) == Register(c) \/ Unregister(c) \/ Connect(c)
Phone(c) == Answers(c) \/ StallsOrResumes(c) \/ Leaves(c)
Send(c) == Skip(c) \/ Write(c) \/ Drained(c) \/ ReadReply(c) \/ Timeout(c) \/ Broken(c)

-----------------------------------------------------------------------------
(* Properties *)

(* The types of a client's state. *)
SendTypeOK ==
  /\ known \subseteq Client /\ stalled \subseteq Client
  /\ conn \in [Client -> {"none", "connecting", "failed", "open", "eof", "lost"}]
  /\ tasks \in [Client -> Seq(Nat)]
  /\ step \in [Client -> {"free", "draining", "reading"}]
  /\ \A f \in {replies, owed, timeouts, split, last} : f \in [Client -> Nat]
  /\ \A c \in Client : step[c] # "free" => tasks[c] # <<>>

(* What a phone is sent is an unbroken stretch of what was emitted: from   *)
(* the moment it is connected nothing is left out, repeated or overtaken,  *)
(* whatever times out, as long as the connection lasts.                    *)
Gapless ==
  [][\A c \in Client : last[c] > 0 => last'[c] \in {last[c], last[c] + 1}]_sendVars

(* The lock and the read pace a phone: until a read has timed out or a     *)
(* reply has come in pieces it is sent nothing before it has replied to    *)
(* the last message, and a reply is read by the send() it answers.  Each   *)
(* timeout and each piece too many lets one message more through           *)
(* unanswered, and no more than one.                                       *)
Paced ==
  \A c \in Client : conn[c] = "open" =>
    LET unanswered == owed[c] + replies[c] - (IF step[c] = "free" THEN 0 ELSE 1)
        slips == timeouts[c] + split[c]
    IN  unanswered <= slips /\ (slips = 0 => unanswered = 0)
=============================================================================
