--------------------------- MODULE MobileRegistry ---------------------------
(***************************************************************************)
(* Which phones the server sends its data to.  A phone connects to         *)
(* TCPServer (tcp_server.py) and says HELLO with the port of its own       *)
(* server; AsyncWorker (armessageserver.py) keeps one MobileClient per     *)
(* address in mobile_clients and drops it when a connection ends.          *)
(*                                                                         *)
(* All of it runs on one event loop: one action is the code from one await *)
(* to the next, the Qt signals it emits being direct calls.  The rfcomm    *)
(* command channel feeds the same handler under the address BtIp.          *)
(***************************************************************************)
EXTENDS Integers, Sequences, FiniteSets

CONSTANTS
  Conn,      (* connections phones open                                     *)
  Ip,        (* their addresses, addr[0]                                    *)
  BtIp,      (* "bt_client", the address of the bluetooth transport         *)
  Port,      (* ports of the phones' own servers                            *)
  MaxBatch,  (* bound: messages in one chunk                                *)
  None

ASSUME AddressAssumption == BtIp \notin Ip
ASSUME NoneAssumption == None \notin Ip \cup Port
ASSUME BatchAssumption == MaxBatch \in Nat \ {0}

VARIABLES
  mobile_clients,  (* AsyncWorker.mobile_clients                             *)
  pc,              (* where _handle_client of each connection is             *)
  peer,            (* its addr[0]                                            *)
  todo,            (* the messages of its chunk that are still to be handled *)
  hello            (* the port of the last HELLO handled on it               *)

connVars == <<pc, peer, todo, hello>>
vars == <<mobile_clients, connVars>>

(* A message is the port of a HELLO; None is any other: a command, one that *)
(* is_data_valid turns down, a HELLO whose data has no "=".                 *)
Message  == Port \cup {None}
ConnPc   == {"none", "read", "reply", "closing", "ended", "aborted"}
LinkStep == {"connecting", "connected", "failed"}
Client   == [ip : Ip \cup {BtIp}, port : Port, link : LinkStep]

Init ==
  /\ mobile_clients = <<>>
  /\ pc = [c \in Conn |-> "none"]
  /\ peer = [c \in Conn |-> None]
  /\ todo = [c \in Conn |-> <<>>]
  /\ hello = [c \in Conn |-> None]

Registered == {mobile_clients[i].ip : i \in DOMAIN mobile_clients}

-----------------------------------------------------------------------------
(* handle_msg_cmd and mobile_client_disconnect *)

RegisterAnyway(ip, m) ==  \* fault: got_client is not looked at
  mobile_clients' =
    IF m # None
    THEN Append(mobile_clients, [ip |-> ip, port |-> m, link |-> "connecting"])
    ELSE mobile_clients

RegisterAnything(ip, m) ==  \* fault: MSG_SPEC_HELLO is not looked for
  mobile_clients' =
    IF ip \notin Registered
    THEN Append(mobile_clients, [ip |-> ip, port |-> m, link |-> "connecting"])
    ELSE mobile_clients

RegisterFirst(ip, m) ==  \* fault: `if len(self.mobile_clients) > 0: got_client = 1`
  mobile_clients' =
    IF m # None /\ mobile_clients = <<>>
    THEN Append(mobile_clients, [ip |-> ip, port |-> m, link |-> "connecting"])
    ELSE mobile_clients

(* Message m arrives from ip: a HELLO makes a client and schedules its     *)
(* connect(), unless one for this ip is there.                             *)
HandleMessage(ip, m) ==
  mobile_clients' =
    IF m # None /\ ip \notin Registered
    THEN Append(mobile_clients, [ip |-> ip, port |-> m, link |-> "connecting"])
    ELSE mobile_clients

ClientsAtAddr(ip) ==  \* fault: the whole (host, port) pair is compared, and differs
  mobile_clients

(* for c in self.mobile_clients: if c.mobile_host_ip == ip: remove(c).     *)
(* The removal moves the list under the loop, which then skips an element. *)
Removed(ip) ==
  CHOOSE R \in SUBSET DOMAIN mobile_clients :
    \A i \in DOMAIN mobile_clients :
      i \in R <=> mobile_clients[i].ip = ip /\ i - 1 \notin R

ClientsWithout(ip) ==
  LET kept == DOMAIN mobile_clients \ Removed(ip)
      Nth(n) == CHOOSE i \in kept : Cardinality({j \in kept : j <= i}) = n
  IN  [n \in 1..Cardinality(kept) |-> mobile_clients[Nth(n)]]

-----------------------------------------------------------------------------
(* TCPServer._handle_client *)

Accept(c, ip) ==
  /\ pc[c] = "none"
  /\ pc' = [pc EXCEPT ![c] = "read"]
  /\ peer' = [peer EXCEPT ![c] = ip]
  /\ UNCHANGED <<mobile_clients, todo, hello>>

(* A chunk arrives; the reply to its first message is written and drained. *)
ReadChunk(c) ==
  /\ pc[c] = "read"
  /\ \E n \in 1..MaxBatch : \E chunk \in [1..n -> Message] :
       todo' = [todo EXCEPT ![c] = chunk]
  /\ pc' = [pc EXCEPT ![c] = "reply"]
  /\ UNCHANGED <<mobile_clients, peer, hello>>

(* drain() is over: the message is emitted, and the next one replied to *)
Deliver(c) ==
  /\ pc[c] = "reply"
  /\ HandleMessage(peer[c], Head(todo[c]))
  /\ hello' = [hello EXCEPT ![c] = IF Head(todo[c]) = None THEN @ ELSE Head(todo[c])]
  /\ todo' = [todo EXCEPT ![c] = Tail(@)]
  /\ pc' = [pc EXCEPT ![c] = IF Len(todo[c]) > 1 THEN "reply" ELSE "read"]
  /\ UNCHANGED peer

(* read() returns b"": writer.close() *)
Eof(c) ==
  /\ pc[c] = "read"
  /\ pc' = [pc EXCEPT ![c] = "closing"]
  /\ UNCHANGED <<mobile_clients, peer, todo, hello>>

CloseAll(c) ==  \* fault: mobile_disconnected is taken for "all phones left"
  /\ pc[c] = "closing"
  /\ mobile_clients' = <<>>
  /\ pc' = [pc EXCEPT ![c] = "ended"]
  /\ UNCHANGED <<peer, todo, hello>>

(* wait_closed() returns: mobile_disconnected.emit(addr) *)
Closed(c) ==
  /\ pc[c] = "closing"
  /\ mobile_clients' = ClientsWithout(peer[c])
  /\ pc' = [pc EXCEPT ![c] = "ended"]
  /\ UNCHANGED <<peer, todo, hello>>

(* The connection is reset: read() or drain() raises, or replies are left  *)
(* to be sent, and wait_closed() raises (again) before the emit; the       *)
(* messages not handled yet are dropped.                                   *)
Reset(c) ==
  /\ pc[c] \in {"read", "reply", "closing"}
  /\ pc' = [pc EXCEPT ![c] = "aborted"]
  /\ todo' = [todo EXCEPT ![c] = <<>>]
  /\ UNCHANGED <<mobile_clients, peer, hello>>

(* The same handler is called for a message of the rfcomm command channel. *)
BtMessage(m) ==
  /\ HandleMessage(BtIp, m)
  /\ UNCHANGED connVars

(* MobileClient.connect: the exception of a failed attempt is only logged. *)
Connect(i) ==
  /\ mobile_clients[i].link = "connecting"
  /\ \E r \in {"connected", "failed"} :
       mobile_clients' = [mobile_clients EXCEPT ![i].link = r]
  /\ UNCHANGED connVars

-----------------------------------------------------------------------------
Next ==
  \/ \E c \in Conn : \E ip \in Ip : Accept(c, ip)
  \/ \E c \in Conn : ReadChunk(c) \/ Eof(c) \/ Reset(c) \/ Deliver(c) \/ Closed(c)
  \/ \E m \in Port : BtMessage(m)
  \/ \E i \in DOMAIN mobile_clients : Connect(i)

Spec == Init /\ [][Next]_vars

-----------------------------------------------------------------------------
(* Properties *)

Open(c) == pc[c] \in {"read", "reply", "closing"}

(* The types of the state: armessageserver.py:40 and the handlers' locals. *)
TypeOK ==
  /\ mobile_clients \in Seq(Client)
  /\ pc \in [Conn -> ConnPc]
  /\ peer \in [Conn -> Ip \cup {None}]
  /\ todo \in [Conn -> Seq(Message)]
  /\ hello \in [Conn -> Message]

(* However HELLOs and disconnections of several connections interleave, an *)
(* address never has two clients, so a phone gets its data once and the    *)
(* removal that changes the list under its own loop misses none.           *)
OneClientPerAddress ==
  \A i, j \in DOMAIN mobile_clients :
    mobile_clients[i].ip = mobile_clients[j].ip => i = j

(* A phone that is gone keeps its client only if a connection of it was    *)
(* reset: every orderly end clears it, whatever came in between.           *)
GhostOnlyAfterReset ==
  \A ip \in Registered \ {BtIp} :
    \E c \in Conn : peer[c] = ip /\ (Open(c) \/ pc[c] = "aborted")

(* A client leaves the list only when a connection from its own address    *)
(* ends: no phone is cut off from its data by another phone's leaving.     *)
OnlyOwnEndUnregisters ==
  [][\A ip \in Registered \ Registered' :
       \E c \in Conn : peer[c] = ip /\ pc[c] = "closing" /\ pc'[c] = "ended"]_vars

(* A phone that has said HELLO and has not left is sent the answers: while  *)
(* its connection lasts there is a client of its address, whatever other    *)
(* phones say and however they leave; unless another connection of the same *)
(* address has ended, in which case its end has taken the client with it    *)
(* (a phone that comes back before its old connection is over).             *)
HelloKept ==
  \A c \in Conn : Open(c) /\ hello[c] # None =>
    \/ peer[c] \in Registered
    \/ \E d \in Conn \ {c} : peer[d] = peer[c] /\ pc[d] = "ended"

(* armessageserver.py:131: the client is to be cleared once the phone has  *)
(* disconnected.                                                           *)
ClearedAfterDisconnect ==
  \A ip \in Registered \ {BtIp} : \E c \in Conn : peer[c] = ip /\ Open(c)
=============================================================================
