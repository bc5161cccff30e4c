---------------------------- MODULE UnixForward ----------------------------
(***************************************************************************)
(* Forwarding commands to one application: a task of Cmd is one call of    *)
(* AsyncWorker.test_send_unix_msg (armessageserver.py), and all of them    *)
(* share the application's UnixClient (unix_client.py), which has no lock. *)
(* The three applications have a client each and do not interact.          *)
(*                                                                         *)
(* One action is the code from one await to the next; a task that goes on  *)
(* without awaiting keeps the event loop (Turn).  self.reader and          *)
(* self.writer always change together, so one variable stands for both.    *)
(* Commands are short: drain() never waits for room.  asyncio's streams    *)
(* and the applications are external: the socket is a stream of bytes, so  *)
(* an answer may come in pieces (or be two replies, which is the same to   *)
(* read()), and a peer that dies leaves either the end of the stream or,   *)
(* if it had not read everything, ECONNRESET.                              *)
(***************************************************************************)
EXTENDS Naturals, FiniteSets

CONSTANTS
  Cmd,       (* commands, each handled by a task of its own                 *)
  MaxConns,  (* bound: connections made to the application                  *)
  None

Stream == 1..MaxConns

ASSUME NoneAssumption  == None \notin Cmd \cup Stream
ASSUME BoundAssumption == MaxConns \in Nat \ {0}

VARIABLES
  listening,  (* the application runs and accepts connections               *)
  trans,      (* our transport of each connection                           *)
  gone,       (* the application's end of it is closed ...                  *)
  aborted,    (* ... with a command unread in it: the next recv() raises    *)
  asked,      (* commands the application has not answered on it yet        *)
  replies,    (* commands with (a piece of) their answer in the buffer of   *)
              (* the StreamReader                                           *)
  waiter,     (* the task in StreamReader.read, or None                     *)
  client,     (* self.reader and self.writer                                *)
  pc,
  on,         (* the connection a command was written to                    *)
  shut,       (* the writer a task is closing                               *)
  received,   (* history: commands that reached the application's socket,   *)
  answered,   (* ... and that it answered                                   *)
  ragged,     (* history: connections on which an answer came in pieces     *)
  overlap     (* history: two commands were under way at once               *)

appVars == <<listening, gone, aborted, asked, received, answered, ragged>>
readVars == <<replies, waiter>>
vars == <<appVars, trans, readVars, client, pc, on, shut, overlap>>

(* closing: by close(); breaking: by an exception, which the reader gets *)
TransState == {"none", "open", "closing", "breaking", "closed"}
CmdPc == {"new", "connecting", "write", "drain", "waiting", "woken", "raised",
          "closing", "reconnecting", "acked", "failed"}
Ended == {"acked", "failed"}

(* start_all_server has tried to connect once *)
Init ==
  /\ listening \in BOOLEAN
  /\ client = IF listening THEN 1 ELSE None
  /\ trans = [s \in Stream |-> IF s = client THEN "open" ELSE "none"]
  /\ gone = [s \in Stream |-> FALSE] /\ aborted = {} /\ ragged = {}
  /\ asked = [s \in Stream |-> {}] /\ replies = [s \in Stream |-> {}]
  /\ waiter = [s \in Stream |-> None]
  /\ pc = [c \in Cmd |-> "new"]
  /\ on = [c \in Cmd |-> None] /\ shut = [c \in Cmd |-> None]
  /\ received = {} /\ answered = {} /\ overlap = FALSE

Goto(c, label) == pc' = [pc EXCEPT ![c] = label]

(* Nobody is between two awaits. *)
Turn == \A c \in Cmd : pc[c] # "write"

(* The task that waits on s, if any, goes on at label, when its turn comes. *)
Wake(s, label) ==
  /\ pc' = [c \in Cmd |-> IF waiter[s] = c THEN label ELSE pc[c]]
  /\ waiter' = [waiter EXCEPT ![s] = None]

-----------------------------------------------------------------------------
(* The application, and asyncio's side of a connection *)

(* A piece of c's answer, the last one or not. *)
AppAnswers(s, c, last) ==
  /\ Turn
  /\ c \in asked[s] /\ ~gone[s]
  /\ IF last
     THEN /\ asked' = [asked EXCEPT ![s] = @ \ {c}]
          /\ answered' = answered \cup {c}
          /\ UNCHANGED ragged
     ELSE ragged' = ragged \cup {s} /\ UNCHANGED <<asked, answered>>
  /\ IF trans[s] = "open"
     THEN replies' = [replies EXCEPT ![s] = @ \cup {c}] /\ Wake(s, "woken")
     ELSE UNCHANGED <<readVars, pc>>
  /\ UNCHANGED <<listening, gone, aborted, received, trans, client, on, shut, overlap>>

(* Its connections end.  Those of unread had commands in them that it had  *)
(* not read; on the others the reader sees the end of the stream, which    *)
(* leaves our transport open.                                              *)
AppDies ==
  /\ listening
  /\ listening' = FALSE
  /\ gone' = [s \in Stream |-> gone[s] \/ trans[s] # "none"]
  /\ asked' = [s \in Stream |-> {}]
  /\ \E unread \in SUBSET {s \in Stream : asked[s] # {}} :
       LET ended == {s \in Stream : trans[s] = "open"} \ (aborted \cup unread)
       IN  /\ aborted' = aborted \cup unread
           /\ waiter' = [s \in Stream |-> IF s \in ended THEN None ELSE waiter[s]]
           /\ pc' = [c \in Cmd |-> IF \E s \in ended : waiter[s] = c
                                    THEN "woken" ELSE pc[c]]
  /\ UNCHANGED <<received, answered, ragged, trans, replies, client, on, shut, overlap>>

AppStarts ==
  /\ ~listening
  /\ listening' = TRUE
  /\ UNCHANGED <<gone, aborted, asked, received, answered, ragged>>
  /\ UNCHANGED <<trans, readVars, client, pc, on, shut, overlap>>

(* recv() raises ECONNRESET: the transport is torn down *)
ResetSeen(s) ==
  /\ Turn
  /\ s \in aborted
  /\ trans[s] = "open"
  /\ trans' = [trans EXCEPT ![s] = "breaking"]
  /\ UNCHANGED <<appVars, readVars, client, pc, on, shut, overlap>>

(* connection_lost: the reader gets the end of the stream, or the exception *)
ConnectionLost(s) ==
  /\ Turn
  /\ trans[s] \in {"closing", "breaking"}
  /\ trans' = [trans EXCEPT ![s] = "closed"]
  /\ Wake(s, IF trans[s] = "breaking" THEN "raised" ELSE "woken")
  /\ UNCHANGED <<appVars, replies, client, on, shut, overlap>>

-----------------------------------------------------------------------------
(* test_send_unix_msg and UnixClient.send *)

NeverConnect == FALSE  \* fault: self.writer is not looked at before the write
AlwaysConnect == TRUE  \* fault: each send() connects
Unconnected == client = None

Start(c) ==
  /\ Turn
  /\ pc[c] = "new"
  /\ Goto(c, IF Unconnected THEN "connecting" ELSE "write")
  /\ overlap' = (overlap \/ \E d \in Cmd \ {c} : pc[d] \notin Ended \cup {"new"})
  /\ UNCHANGED <<appVars, trans, readVars, client, on, shut>>

(* open_unix_connection returns, whatever the others have done meanwhile: *)
(* s is the next connection.                                              *)
Open(s) ==
  /\ listening
  /\ \A r \in Stream : trans[r] = "none" <=> r >= s
  /\ trans' = [trans EXCEPT ![s] = "open"]
  /\ client' = s

Connected(c) ==
  /\ Turn
  /\ pc[c] = "connecting"
  /\ \E s \in Stream : Open(s)
  /\ Goto(c, "write")
  /\ UNCHANGED <<appVars, readVars, on, shut, overlap>>

NoClientForever == "connecting"  \* fault: `while self.writer is None: await self.connect()`
NoClientAcked == "acked"         \* fault: no RuntimeError, send returns -1
NoClient == "failed"             \* "Client not connected" is raised

(* connect() has logged its failure, of whatever kind; another task may    *)
(* have connected meanwhile.                                               *)
ConnectFails(c) ==
  /\ Turn
  /\ pc[c] = "connecting"
  /\ Goto(c, IF client = None THEN NoClient ELSE "write")
  /\ UNCHANGED <<appVars, trans, readVars, client, on, shut, overlap>>

Healthy(s) == trans[s] = "open" /\ ~gone[s]

(* data.decode() raises if it ends inside a character, outside the try. *)
Decoded(s) == IF s \in ragged THEN {"acked", "failed"} ELSE {"acked"}

Unread(s) == TRUE  \* fault: the answer is not awaited
Answered(s) == replies[s] # {}

(* The write goes out, drain() returns at once and read() is called: what  *)
(* is in the buffer is the answer, or the task waits, or another one       *)
(* waits already and read() raises.                                        *)
Write(c) ==
  /\ pc[c] = "write"
  /\ Healthy(client)
  /\ on' = [on EXCEPT ![c] = client]
  /\ asked' = [asked EXCEPT ![client] = @ \cup {c}]
  /\ received' = received \cup {c}
  /\ replies' = [replies EXCEPT ![client] = {}]
  /\ IF Answered(client)
     THEN UNCHANGED waiter /\ \E label \in Decoded(client) : Goto(c, label)
     ELSE IF waiter[client] # None THEN Goto(c, "failed") /\ UNCHANGED waiter
     ELSE Goto(c, "waiting") /\ waiter' = [waiter EXCEPT ![client] = c]
  /\ UNCHANGED <<listening, gone, aborted, answered, ragged, trans, client, shut, overlap>>

(* EPIPE, or the transport is closing already: the command is dropped, and *)
(* drain() gives way once before it raises                                 *)
WriteBroken(c) ==
  /\ pc[c] = "write"
  /\ ~Healthy(client)
  /\ on' = [on EXCEPT ![c] = client]
  /\ trans' = [trans EXCEPT ![client] = IF @ = "open" THEN "breaking" ELSE @]
  /\ Goto(c, "drain")
  /\ UNCHANGED <<appVars, readVars, client, shut, overlap>>

(* _wait_for_data ends with `self._waiter = None`, whoever waits by then. *)
WaiterForgotten(c) == waiter' = [waiter EXCEPT ![on[c]] = None]

(* read() returns what the buffer holds, perhaps nothing, and if that can  *)
(* be decoded the command is acknowledged.                                 *)
Woken(c) ==
  /\ Turn
  /\ pc[c] = "woken"
  /\ replies' = [replies EXCEPT ![on[c]] = {}]
  /\ WaiterForgotten(c)
  /\ \E label \in Decoded(on[c]) : Goto(c, label)
  /\ UNCHANGED <<appVars, trans, client, on, shut, overlap>>

(* read() raises outside the try: no reconnect(), no acknowledgement *)
Raised(c) ==
  /\ Turn
  /\ pc[c] = "raised"
  /\ WaiterForgotten(c)
  /\ Goto(c, "failed")
  /\ UNCHANGED <<appVars, trans, replies, client, on, shut, overlap>>

-----------------------------------------------------------------------------
(* reconnect(), after a failed write: close() whatever is the client now, *)
(* then connect(); send returns -1, and the command is acknowledged       *)

Kept(c) == Goto(c, "acked") /\ UNCHANGED <<trans, shut>>  \* fault: only return -1
Close(c) ==
  /\ shut' = [shut EXCEPT ![c] = client]
  /\ trans' = [trans EXCEPT ![client] = IF @ = "open" THEN "closing" ELSE @]
  /\ Goto(c, "closing")

DrainRaises(c) ==
  /\ Turn
  /\ pc[c] = "drain"
  /\ trans[on[c]] = "closed"
  /\ IF client = None
     THEN Goto(c, "reconnecting") /\ UNCHANGED <<trans, shut>>
     ELSE Close(c)
  /\ UNCHANGED <<appVars, readVars, client, on, overlap>>

(* wait_closed() is over: self.writer = self.reader = None, and connect() *)
CloseDone(c) ==
  /\ Turn
  /\ pc[c] = "closing"
  /\ trans[shut[c]] = "closed"
  /\ client' = None
  /\ shut' = [shut EXCEPT ![c] = None]
  /\ Goto(c, "reconnecting")
  /\ UNCHANGED <<appVars, trans, readVars, on, overlap>>

Reconnected(c) ==
  /\ Turn
  /\ pc[c] = "reconnecting"
  /\ \E s \in Stream : Open(s)
  /\ Goto(c, "acked")
  /\ UNCHANGED <<appVars, readVars, on, shut, overlap>>

ReconnectFails(c) ==
  /\ Turn
  /\ pc[c] = "reconnecting"
  /\ Goto(c, "acked")
  /\ UNCHANGED <<appVars, trans, readVars, client, on, shut, overlap>>

-----------------------------------------------------------------------------
Task(c) ==
  \/ Connected(c) \/ ConnectFails(c) \/ Write(c) \/ WriteBroken(c) \/ Woken(c) \/ Raised(c)
  \/ DrainRaises(c) \/ CloseDone(c) \/ Reconnected(c) \/ ReconnectFails(c)

App ==
  \/ \E s \in Stream : \E c \in Cmd : \E last \in BOOLEAN : AppAnswers(s, c, last)
  \/ AppDies \/ AppStarts

Next ==
  \/ App
  \/ \E s \in Stream : ResetSeen(s) \/ ConnectionLost(s)
  \/ \E c \in Cmd : Start(c) \/ Task(c)

Spec == Init /\ [][Next]_vars

(* The event loop runs every task that can go on and every callback, and   *)
(* the application comes to the end of each answer.                        *)
Fairness ==
  /\ \A c \in Cmd : WF_vars(Task(c))
  /\ \A s \in Stream :
       /\ WF_vars(ResetSeen(s)) /\ WF_vars(ConnectionLost(s))
       /\ \A c \in Cmd : WF_vars(AppAnswers(s, c, TRUE))

FairSpec == Spec /\ Fairness

-----------------------------------------------------------------------------
(* Properties *)

Rest == \A c \in Cmd : pc[c] \in Ended \cup {"new"}

(* The types of the state: unix_client.py lines 9-14 and its tasks' locals. *)
TypeOK ==
  /\ listening \in BOOLEAN
  /\ trans \in [Stream -> TransState]
  /\ gone \in [Stream -> BOOLEAN] /\ aborted \subseteq Stream
  /\ asked \in [Stream -> SUBSET Cmd] /\ replies \in [Stream -> SUBSET Cmd]
  /\ waiter \in [Stream -> Cmd \cup {None}]
  /\ client \in Stream \cup {None}
  /\ \A c \in Cmd : pc[c] = "write" => client # None
  /\ pc \in [Cmd -> CmdPc]
  /\ on \in [Cmd -> Stream \cup {None}] /\ shut \in [Cmd -> Stream \cup {None}]
  /\ received \subseteq Cmd /\ answered \subseteq received /\ ragged \subseteq Stream
  /\ overlap \in BOOLEAN

(* A command the phone got an OK for is lost only if the connection it was *)
(* written to was broken: none is dropped in silence on one that works,    *)
(* however the tasks close and replace each other's connections.           *)
LostOnlyIfBroken ==
  \A c \in Cmd : pc[c] = "acked" /\ c \notin received =>
    on[c] # None /\ trans[on[c]] = "closed"

(* Between commands the client is a connection no command was lost on: a   *)
(* failed write always ends in another one.  It can be one that is over     *)
(* (and will cost the next command) only if its application died: with a   *)
(* command unread, so that the transport broke under read(), or without,   *)
(* and nobody has noticed.                                                 *)
BrokenClientReplaced ==
  Rest /\ client # None =>
    /\ \A c \in Cmd : on[c] = client => c \in received
    /\ trans[client] = "open" \/ client \in aborted

(* What the phone's OK stands for as long as commands come one at a time:  *)
(* the application has answered this command, or the connection is over,   *)
(* or an answer on it came in pieces, of which the first was taken for the *)
(* whole and the rest for the next command's.  And a command that reached  *)
(* the application stays without an OK only if it died before reading it,  *)
(* or a piece could not be decoded.                                        *)
AckMeansAnswered ==
  ~overlap => \A c \in Cmd :
    /\ pc[c] = "acked" => c \in answered \/ ~Healthy(on[c]) \/ on[c] \in ragged
    /\ pc[c] = "failed" /\ c \in received => on[c] \in aborted \cup ragged

(* As long as they do, no connection is left open behind the one in use.   *)
NoConnectionLeak ==
  ~overlap /\ Rest => \A s \in Stream : trans[s] = "open" => s = client

(* A task whose StreamReader has forgotten it: `self._waiter = None` of     *)
(* another that read before.                                               *)
Forgotten(c) == pc[c] = "waiting" /\ waiter[on[c]] # c

(* Every command ends, whatever the others do to its connection, as long   *)
(* as the application answers or goes away: again and again none is under  *)
(* way.  But for one case: the commands overlapped, three or more of them, *)
(* and one was forgotten.                                                  *)
CommandsEnd ==
  []<>(\A c \in Cmd :
         pc[c] \in Ended \cup {"new"} \/ (overlap /\ Forgotten(c)))
=============================================================================
