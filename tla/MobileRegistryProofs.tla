------------------------ MODULE MobileRegistryProofs ------------------------
(***************************************************************************)
(* Theorems about MobileRegistry for any phones, connections and messages, *)
(* proved by TLAPS.  What the loop that removes from the list it runs over *)
(* leaves behind is worked out first.                                      *)
(***************************************************************************)
EXTENDS MobileRegistry, FiniteSetTheorems, TLAPS

-----------------------------------------------------------------------------
(* The loop of mobile_client_disconnect *)

(* The first n numbers, and those without p. *)
LEMMA UpTo ==
  ASSUME NEW n \in Nat
  PROVE  /\ IsFiniteSet(1..n) /\ Cardinality(1..n) = n
         /\ \A p \in 1..n : Cardinality((1..n) \ {p}) = n - 1
<1>1. IsFiniteSet(1..n) /\ Cardinality(1..n) = n BY FS_Interval
<1>2. ASSUME NEW p \in 1..n PROVE Cardinality((1..n) \ {p}) = n - 1
  BY <1>1, FS_RemoveElement
<1>3. QED BY <1>1, <1>2

(* The place of i among the first n numbers but p. *)
LEMMA Rank ==
  ASSUME NEW n \in Nat, NEW p \in 1..n, NEW i \in (1..n) \ {p}
  PROVE  Cardinality({j \in (1..n) \ {p} : j <= i}) = IF i < p THEN i ELSE i - 1
<1>1. IsFiniteSet(1..i) /\ Cardinality(1..i) = i
  BY FS_Interval
<1>2. CASE i < p
  <2>1. {j \in (1..n) \ {p} : j <= i} = 1..i BY <1>2
  <2>2. QED BY <1>1, <1>2, <2>1
<1>3. CASE i > p
  <2>1. {j \in (1..n) \ {p} : j <= i} = (1..i) \ {p} BY <1>3
  <2>2. p \in 1..i BY <1>3
  <2>3. Cardinality((1..i) \ {p}) = i - 1 BY <1>1, <2>2, FS_RemoveElement
  <2>4. QED BY <1>3, <2>1, <2>3
<1>4. QED BY <1>2, <1>3

(* The client of ip, where it is the only one of that address, goes. *)
LEMMA RemovesOne ==
  ASSUME mobile_clients \in Seq(Client), OneClientPerAddress,
         NEW p \in DOMAIN mobile_clients, NEW ip, mobile_clients[p].ip = ip
  PROVE  ClientsWithout(ip) =
           [n \in 1..(Len(mobile_clients) - 1) |->
              IF n < p THEN mobile_clients[n] ELSE mobile_clients[n + 1]]
<1> DEFINE len == Len(mobile_clients)
           kept == DOMAIN mobile_clients \ Removed(ip)
           Nth(n) == CHOOSE i \in kept : Cardinality({j \in kept : j <= i}) = n
<1>1. len \in Nat /\ DOMAIN mobile_clients = 1..len /\ p \in 1..len
  OBVIOUS
<1>2. \A i \in 1..len : mobile_clients[i].ip = ip => i = p
  BY <1>1 DEF OneClientPerAddress
<1>3. Removed(ip) = {p}
  <2> DEFINE Looks(R) == \A i \in DOMAIN mobile_clients :
                           i \in R <=> mobile_clients[i].ip = ip /\ i - 1 \notin R
  <2>1. {p} \in SUBSET DOMAIN mobile_clients /\ Looks({p}) BY <1>1, <1>2
  <2>2. \A R \in SUBSET DOMAIN mobile_clients : Looks(R) => R = {p}
    <3> SUFFICES ASSUME NEW R \in SUBSET DOMAIN mobile_clients, Looks(R)
                 PROVE  R = {p}
      OBVIOUS
    <3>1. R \subseteq {p} BY <1>1, <1>2
    <3>2. p - 1 \notin R BY <1>1, <3>1
    <3>3. p \in R BY <3>2
    <3>4. QED BY <3>1, <3>3
  <2>3. Removed(ip) = CHOOSE R \in SUBSET DOMAIN mobile_clients : Looks(R)
    BY DEF Removed
  <2> HIDE DEF Looks
  <2>4. QED BY <2>1, <2>2, <2>3
<1>4. kept = (1..len) \ {p} BY <1>1, <1>3
<1>5. Cardinality(kept) = len - 1
  <2>1. Cardinality((1..len) \ {p}) = len - 1
    <3> HIDE DEF len
    <3>1. QED BY <1>1, UpTo
  <2>2. QED BY <1>4, <2>1
<1>6. ASSUME NEW n \in 1..(len - 1) PROVE Nth(n) = IF n < p THEN n ELSE n + 1
  <2> DEFINE r == IF n < p THEN n ELSE n + 1
             R(i) == Cardinality({j \in kept : j <= i})
  <2>1. r \in kept BY <1>1, <1>4
  <2>2. ASSUME NEW i \in kept PROVE R(i) = IF i < p THEN i ELSE i - 1
    <3> HIDE DEF kept
    <3>1. R(i) = Cardinality({j \in (1..len) \ {p} : j <= i}) BY <1>4
    <3>2. i \in (1..len) \ {p} BY <1>4
    <3> HIDE DEF len, R
    <3>3. QED BY <1>1, <3>1, <3>2, Rank
  <2> HIDE DEF R, kept, Nth
  <2>3. R(r) = n BY <1>1, <2>1, <2>2
  <2>4. \A i \in kept : R(i) = n => i = r BY <1>1, <1>4, <2>2
  <2>5. Nth(n) = CHOOSE i \in kept : R(i) = n BY DEF Nth, R
  <2> HIDE DEF r
  <2>6. Nth(n) = r BY <2>1, <2>3, <2>4, <2>5
  <2>7. QED BY <2>6 DEF r
<1>7. ClientsWithout(ip) = [n \in 1..Cardinality(kept) |-> mobile_clients[Nth(n)]]
  BY DEF ClientsWithout
<1> HIDE DEF kept, Nth
<1>8. QED BY <1>1, <1>5, <1>6, <1>7

(* Where there is none, none goes. *)
LEMMA RemovesNone ==
  ASSUME mobile_clients \in Seq(Client), NEW ip,
         \A i \in DOMAIN mobile_clients : mobile_clients[i].ip # ip
  PROVE  ClientsWithout(ip) = mobile_clients
<1> DEFINE len == Len(mobile_clients)
           kept == DOMAIN mobile_clients \ Removed(ip)
           Nth(n) == CHOOSE i \in kept : Cardinality({j \in kept : j <= i}) = n
<1>1. len \in Nat /\ DOMAIN mobile_clients = 1..len
  OBVIOUS
<1>2. Removed(ip) = {}
  <2> DEFINE Looks(R) == \A i \in DOMAIN mobile_clients :
                           i \in R <=> mobile_clients[i].ip = ip /\ i - 1 \notin R
  <2>1. {} \in SUBSET DOMAIN mobile_clients /\ Looks({}) OBVIOUS
  <2>2. \A R \in SUBSET DOMAIN mobile_clients : Looks(R) => R = {} OBVIOUS
  <2>3. Removed(ip) = CHOOSE R \in SUBSET DOMAIN mobile_clients : Looks(R)
    BY DEF Removed
  <2> HIDE DEF Looks
  <2>4. QED BY <2>1, <2>2, <2>3
<1>3. kept = 1..len BY <1>1, <1>2
<1>4. Cardinality(kept) = len
  <2>1. Cardinality(1..len) = len
    <3> HIDE DEF len
    <3>1. QED BY <1>1, UpTo
  <2>2. QED BY <1>3, <2>1
<1>5. ASSUME NEW n \in 1..len PROVE Nth(n) = n
  <2> DEFINE R(i) == Cardinality({j \in kept : j <= i})
  <2>1. ASSUME NEW i \in 1..len PROVE R(i) = i
    <3>1. {j \in 1..len : j <= i} = 1..i BY <1>1
    <3>2. Cardinality(1..i) = i BY FS_Interval
    <3>3. QED BY <1>3, <3>1, <3>2
  <2>2. Nth(n) = CHOOSE i \in kept : R(i) = n OBVIOUS
  <2> HIDE DEF R, Nth
  <2>3. QED BY <1>3, <2>1, <2>2
<1>6. ClientsWithout(ip) = [n \in 1..Cardinality(kept) |-> mobile_clients[Nth(n)]]
  BY DEF ClientsWithout
<1> HIDE DEF kept, Nth
<1>7. QED BY <1>1, <1>4, <1>5, <1>6

-----------------------------------------------------------------------------
(* The list *)

(* What every step keeps of the list. *)
ListInv == mobile_clients \in Seq(Client) /\ OneClientPerAddress

(* A message of ip makes a client of ip, or nothing; a HELLO finds one made. *)
LEMMA HandleKeeps ==
  ASSUME ListInv, NEW ip \in Ip \cup {BtIp}, NEW m \in Message, HandleMessage(ip, m)
  PROVE  /\ ListInv'
         /\ Registered' \in {Registered, Registered \cup {ip}}
         /\ m # None => ip \in Registered'
<1> DEFINE len == Len(mobile_clients)
           new == [ip |-> ip, port |-> m, link |-> "connecting"]
<1>1. mobile_clients \in Seq(Client) /\ len \in Nat /\ DOMAIN mobile_clients = 1..len
  BY DEF ListInv
<1>2. CASE m # None /\ ip \notin Registered
  <2>1. mobile_clients' = Append(mobile_clients, new) BY <1>2 DEF HandleMessage
  <2>2. new \in Client BY <1>2 DEF Message, Client, LinkStep
  <2>3. /\ mobile_clients' \in Seq(Client)
        /\ DOMAIN mobile_clients' = 1..(len + 1)
        /\ mobile_clients'[len + 1].ip = ip
        /\ \A i \in 1..len : mobile_clients'[i].ip = mobile_clients[i].ip
    BY <1>1, <2>1, <2>2
  <2>4. \A i \in 1..len : mobile_clients[i].ip # ip BY <1>1, <1>2 DEF Registered
  <2>5. OneClientPerAddress'
    BY <1>1, <2>3, <2>4 DEF ListInv, OneClientPerAddress
  <2>6. Registered' = Registered \cup {ip}
    <3>1. Registered' = {mobile_clients'[i].ip : i \in 1..(len + 1)}
      BY <2>3 DEF Registered
    <3>2. Registered = {mobile_clients[i].ip : i \in 1..len}
      BY <1>1 DEF Registered
    <3>3. 1..(len + 1) = (1..len) \cup {len + 1} BY <1>1
    <3> HIDE DEF len, new
    <3>4. QED BY <2>3, <3>1, <3>2, <3>3
  <2>7. QED BY <2>3, <2>5, <2>6 DEF ListInv
<1>3. CASE ~(m # None /\ ip \notin Registered)
  <2>1. mobile_clients' = mobile_clients BY <1>3 DEF HandleMessage
  <2>2. Registered' = Registered BY <2>1 DEF Registered
  <2>3. QED BY <1>3, <2>1, <2>2 DEF ListInv, OneClientPerAddress
<1>4. QED BY <1>2, <1>3

(* The end of a connection from ip takes the client of ip off, and no other. *)
LEMMA WithoutKeeps ==
  ASSUME ListInv, NEW ip, mobile_clients' = ClientsWithout(ip)
  PROVE  ListInv' /\ Registered' = Registered \ {ip}
<1> DEFINE len == Len(mobile_clients)
<1>1. /\ mobile_clients \in Seq(Client) /\ OneClientPerAddress
      /\ len \in Nat /\ DOMAIN mobile_clients = 1..len
  BY DEF ListInv
<1>2. CASE \E p \in DOMAIN mobile_clients : mobile_clients[p].ip = ip
  <2> PICK p \in 1..len : mobile_clients[p].ip = ip BY <1>1, <1>2
  <2>1. mobile_clients' = [n \in 1..(len - 1) |->
                             IF n < p THEN mobile_clients[n] ELSE mobile_clients[n + 1]]
    BY <1>1, RemovesOne
  <2>2. /\ mobile_clients' \in Seq(Client)
        /\ DOMAIN mobile_clients' = 1..(len - 1)
    <3>1. \A n \in 1..len : mobile_clients[n] \in Client BY <1>1
    <3>2. len - 1 \in Nat BY <1>1
    <3> HIDE DEF len
    <3>3. \A n \in 1..(len - 1) :
            (IF n < p THEN mobile_clients[n] ELSE mobile_clients[n + 1]) \in Client
      BY <1>1, <3>1
    <3>4. QED BY <2>1, <3>2, <3>3
  <2>3. \A n \in 1..(len - 1) :
          mobile_clients'[n] = IF n < p THEN mobile_clients[n] ELSE mobile_clients[n + 1]
    BY <2>1
  <2>4. \A i, j \in 1..len : mobile_clients[i].ip = mobile_clients[j].ip => i = j
    BY <1>1 DEF OneClientPerAddress
  <2> HIDE DEF len
  <2>5. OneClientPerAddress'
    <3> SUFFICES ASSUME NEW i \in 1..(len - 1), NEW j \in 1..(len - 1),
                        mobile_clients'[i].ip = mobile_clients'[j].ip
                 PROVE  i = j
      BY <2>2 DEF OneClientPerAddress
    <3> DEFINE k == IF i < p THEN i ELSE i + 1
               l == IF j < p THEN j ELSE j + 1
    <3>1. k \in 1..len /\ l \in 1..len BY <1>1
    <3>2. mobile_clients'[i] = mobile_clients[k] /\ mobile_clients'[j] = mobile_clients[l]
      BY <2>3
    <3>3. k = l BY <2>4, <3>1, <3>2
    <3>4. QED BY <1>1, <3>3
  <2>6. ASSUME NEW a \in Registered' PROVE a \in Registered \ {ip}
    <3> PICK n \in 1..(len - 1) : a = mobile_clients'[n].ip BY <2>2 DEF Registered
    <3> DEFINE k == IF n < p THEN n ELSE n + 1
    <3>1. k \in 1..len /\ k # p BY <1>1
    <3>2. a = mobile_clients[k].ip BY <2>3
    <3>3. QED BY <1>1, <2>4, <3>1, <3>2 DEF Registered
  <2>7. ASSUME NEW a \in Registered \ {ip} PROVE a \in Registered'
    <3> PICK k \in 1..len : a = mobile_clients[k].ip BY <1>1 DEF Registered
    <3> DEFINE n == IF k < p THEN k ELSE k - 1
    <3>1. k # p OBVIOUS
    <3>2. n \in 1..(len - 1) /\ k = IF n < p THEN n ELSE n + 1 BY <1>1, <3>1
    <3>3. mobile_clients'[n].ip = a BY <2>3, <3>2
    <3>4. QED BY <2>2, <3>2, <3>3 DEF Registered
  <2>8. QED BY <2>2, <2>5, <2>6, <2>7 DEF ListInv
<1>3. CASE \A i \in DOMAIN mobile_clients : mobile_clients[i].ip # ip
  <2>1. mobile_clients' = mobile_clients BY <1>1, <1>3, RemovesNone
  <2>2. ip \notin Registered BY <1>3 DEF Registered
  <2>3. QED BY <2>1, <2>2 DEF ListInv, OneClientPerAddress, Registered
<1>4. QED BY <1>2, <1>3

(* A connect() that ends leaves the addresses alone. *)
LEMMA ConnectKeeps ==
  ASSUME ListInv, NEW i \in DOMAIN mobile_clients, Connect(i)
  PROVE  ListInv' /\ Registered' = Registered
<1> PICK r \in {"connected", "failed"} :
      mobile_clients' = [mobile_clients EXCEPT ![i].link = r]
  BY DEF Connect
<1>1. mobile_clients \in Seq(Client) BY DEF ListInv
<1>2. \A j \in DOMAIN mobile_clients : mobile_clients[j] \in Client BY <1>1
<1>3. [mobile_clients[i] EXCEPT !.link = r] \in Client
  BY <1>2 DEF Client, LinkStep
<1>4. /\ mobile_clients' \in Seq(Client)
      /\ DOMAIN mobile_clients' = DOMAIN mobile_clients
  BY <1>1, <1>3
<1>5. \A j \in DOMAIN mobile_clients : mobile_clients'[j].ip = mobile_clients[j].ip
  BY <1>2 DEF Client
<1>6. OneClientPerAddress' BY <1>4, <1>5 DEF ListInv, OneClientPerAddress
<1>7. Registered' = Registered BY <1>4, <1>5 DEF Registered
<1>8. QED BY <1>4, <1>6, <1>7 DEF ListInv

-----------------------------------------------------------------------------
(* The inductive invariant *)

(* The types, with what the handler's place says: a message is there to be *)
(* delivered, and a connection that was made has an address.  A client is  *)
(* never alone: a connection of its address is open, or was reset.         *)
Witnessed(ip) == \E c \in Conn : peer[c] = ip /\ (Open(c) \/ pc[c] = "aborted")
PlaceInv ==
  \A c \in Conn : /\ pc[c] = "reply" => todo[c] # <<>>
                  /\ pc[c] # "none" => peer[c] \in Ip
RegistryInv == TypeOK /\ PlaceInv /\ OneClientPerAddress /\ GhostOnlyAfterReset

LEMMA RegistryInit == Init => RegistryInv
BY DEF Init, RegistryInv, TypeOK, PlaceInv, OneClientPerAddress,
       GhostOnlyAfterReset, Registered, ConnPc, Message

(* Every step keeps the types and the places. *)
LEMMA PlaceStep ==
  ASSUME RegistryInv, [Next]_vars
  PROVE  TypeOK' /\ PlaceInv' /\ OneClientPerAddress'
<1> USE DEF RegistryInv, TypeOK, PlaceInv
<1>0. ListInv BY DEF ListInv
<1>1. ASSUME NEW c \in Conn, NEW ip \in Ip, Accept(c, ip)
      PROVE  TypeOK' /\ PlaceInv' /\ OneClientPerAddress'
  BY <1>1 DEF Accept, ConnPc, OneClientPerAddress
<1>2. ASSUME NEW c \in Conn, ReadChunk(c)
      PROVE  TypeOK' /\ PlaceInv' /\ OneClientPerAddress'
  <2> PICK n \in 1..MaxBatch : \E chunk \in [1..n -> Message] :
        todo' = [todo EXCEPT ![c] = chunk]
    BY <1>2 DEF ReadChunk
  <2> PICK chunk \in [1..n -> Message] : todo' = [todo EXCEPT ![c] = chunk]
    OBVIOUS
  <2>1. chunk \in Seq(Message) /\ chunk # <<>>
    BY BatchAssumption
  <2>2. QED BY <1>2, <2>1 DEF ReadChunk, ConnPc, OneClientPerAddress
<1>3. ASSUME NEW c \in Conn, Deliver(c)
      PROVE  TypeOK' /\ PlaceInv' /\ OneClientPerAddress'
  <2>0. todo[c] \in Seq(Message) /\ todo[c] # <<>> /\ peer[c] \in Ip
    BY <1>3 DEF Deliver
  <2>1. /\ Head(todo[c]) \in Message /\ Tail(todo[c]) \in Seq(Message)
        /\ Len(todo[c]) > 1 => Tail(todo[c]) # <<>>
    <3> DEFINE s == todo[c]
    <3>1. s \in Seq(Message) /\ s # <<>> BY <2>0
    <3> HIDE DEF s
    <3>2. Head(s) \in Message /\ Tail(s) \in Seq(Message) BY <3>1
    <3>3. Len(Tail(s)) = Len(s) - 1 BY <3>1
    <3>4. Len(<<>>) = 0 OBVIOUS
    <3>5. ASSUME Len(s) > 1, Tail(s) = <<>> PROVE FALSE
      <4> DEFINE n == Len(s)
      <4>1. n - 1 = 0 /\ n > 1 BY <3>3, <3>4, <3>5
      <4>2. n \in Nat BY <3>1
      <4> HIDE DEF n
      <4>3. QED BY <4>1, <4>2
    <3>6. QED BY <3>2, <3>5 DEF s
  <2>2. ListInv' BY <1>0, <1>3, <2>0, <2>1, HandleKeeps DEF Deliver
  <2>3. QED BY <1>3, <2>0, <2>1, <2>2 DEF Deliver, ListInv, ConnPc, Message
<1>4. ASSUME NEW c \in Conn, Eof(c)
      PROVE  TypeOK' /\ PlaceInv' /\ OneClientPerAddress'
  BY <1>4 DEF Eof, ConnPc, OneClientPerAddress
<1>5. ASSUME NEW c \in Conn, Closed(c)
      PROVE  TypeOK' /\ PlaceInv' /\ OneClientPerAddress'
  <2>1. ListInv' BY <1>0, <1>5, WithoutKeeps DEF Closed
  <2>2. QED BY <1>5, <2>1 DEF Closed, ListInv, ConnPc
<1>6. ASSUME NEW c \in Conn, Reset(c)
      PROVE  TypeOK' /\ PlaceInv' /\ OneClientPerAddress'
  BY <1>6 DEF Reset, ConnPc, OneClientPerAddress
<1>7. ASSUME NEW m \in Port, BtMessage(m)
      PROVE  TypeOK' /\ PlaceInv' /\ OneClientPerAddress'
  <2>1. ListInv' BY <1>0, <1>7, HandleKeeps DEF BtMessage, Message
  <2>2. QED BY <1>7, <2>1 DEF BtMessage, ListInv, connVars
<1>8. ASSUME NEW i \in DOMAIN mobile_clients, Connect(i)
      PROVE  TypeOK' /\ PlaceInv' /\ OneClientPerAddress'
  <2>1. ListInv' BY <1>0, <1>8, ConnectKeeps
  <2>2. QED BY <1>8, <2>1 DEF Connect, ListInv, connVars
<1>9. CASE UNCHANGED vars
  BY <1>9 DEF vars, connVars, OneClientPerAddress
<1>10. QED
  BY <1>1, <1>2, <1>3, <1>4, <1>5, <1>6, <1>7, <1>8, <1>9 DEF Next

(* Every step keeps a witness for each client: the one step that takes an  *)
(* open connection away in order, Closed, takes the clients of its address *)
(* away as well, and a message comes in on a connection that is open.      *)
LEMMA GhostStep ==
  ASSUME RegistryInv, [Next]_vars
  PROVE  GhostOnlyAfterReset'
<1> USE DEF RegistryInv, TypeOK, PlaceInv
<1>0. ListInv BY DEF ListInv
<1>a. \A ip \in Registered \ {BtIp} : Witnessed(ip)
  BY DEF GhostOnlyAfterReset, Witnessed
<1>b. (\A ip \in Registered' \ {BtIp} : Witnessed(ip)') => GhostOnlyAfterReset'
  BY DEF GhostOnlyAfterReset, Witnessed
<1>1. ASSUME NEW c \in Conn, NEW ip \in Ip, Accept(c, ip) PROVE GhostOnlyAfterReset'
  <2>1. Registered' = Registered BY <1>1 DEF Accept, Registered
  <2>2. \A a : Witnessed(a) => Witnessed(a)' BY <1>1 DEF Accept, Witnessed, Open
  <2>3. QED BY <1>a, <1>b, <2>1, <2>2
<1>2. ASSUME NEW c \in Conn, ReadChunk(c) \/ Eof(c) \/ Reset(c) PROVE GhostOnlyAfterReset'
  <2>1. Registered' = Registered BY <1>2 DEF ReadChunk, Eof, Reset, Registered
  <2>2. \A a : Witnessed(a) => Witnessed(a)'
    BY <1>2 DEF ReadChunk, Eof, Reset, Witnessed, Open
  <2>3. QED BY <1>a, <1>b, <2>1, <2>2
<1>3. ASSUME NEW c \in Conn, Deliver(c) PROVE GhostOnlyAfterReset'
  <2>1. peer[c] \in Ip /\ Head(todo[c]) \in Message BY <1>3 DEF Deliver
  <2>2. Registered' \in {Registered, Registered \cup {peer[c]}}
    BY <1>0, <1>3, <2>1, HandleKeeps DEF Deliver
  <2>3. \A a : Witnessed(a) => Witnessed(a)' BY <1>3 DEF Deliver, Witnessed, Open
  <2>4. Witnessed(peer[c]) BY <1>3 DEF Deliver, Witnessed, Open
  <2>5. QED BY <1>a, <1>b, <2>2, <2>3, <2>4
<1>4. ASSUME NEW c \in Conn, Closed(c) PROVE GhostOnlyAfterReset'
  <2>1. Registered' = Registered \ {peer[c]}
    BY <1>0, <1>4, WithoutKeeps DEF Closed
  <2>2. \A a : a # peer[c] /\ Witnessed(a) => Witnessed(a)'
    BY <1>4 DEF Closed, Witnessed, Open
  <2>3. QED BY <1>a, <1>b, <2>1, <2>2
<1>5. ASSUME NEW m \in Port, BtMessage(m) PROVE GhostOnlyAfterReset'
  <2>1. Registered' \in {Registered, Registered \cup {BtIp}}
    BY <1>0, <1>5, HandleKeeps DEF BtMessage, Message
  <2>2. \A a : Witnessed(a) => Witnessed(a)'
    BY <1>5 DEF BtMessage, connVars, Witnessed, Open
  <2>3. QED BY <1>a, <1>b, <2>1, <2>2
<1>6. ASSUME NEW i \in DOMAIN mobile_clients, Connect(i) PROVE GhostOnlyAfterReset'
  <2>1. Registered' = Registered BY <1>0, <1>6, ConnectKeeps
  <2>2. \A a : Witnessed(a) => Witnessed(a)'
    BY <1>6 DEF Connect, connVars, Witnessed, Open
  <2>3. QED BY <1>a, <1>b, <2>1, <2>2
<1>7. CASE UNCHANGED vars
  <2>1. Registered' = Registered BY <1>7 DEF vars, Registered
  <2>2. \A a : Witnessed(a) => Witnessed(a)'
    BY <1>7 DEF vars, connVars, Witnessed, Open
  <2>3. QED BY <1>a, <1>b, <2>1, <2>2
<1>8. QED BY <1>1, <1>2, <1>3, <1>4, <1>5, <1>6, <1>7 DEF Next

LEMMA RegistryInvariant == Spec => []RegistryInv
<1>1. RegistryInv /\ [Next]_vars => RegistryInv'
  BY PlaceStep, GhostStep DEF RegistryInv
<1>2. QED BY RegistryInit, <1>1, PTL DEF Spec

(* A phone that has said HELLO: a connection that was not made yet has not *)
(* said it, so the address a connection gets is never that of its HELLO.   *)
Silent == \A c \in Conn : pc[c] = "none" => hello[c] = None

LEMMA SilentInit == Init => Silent /\ HelloKept
BY DEF Init, Silent, HelloKept, Open

(* Every step keeps the client of a HELLO.  Only Closed takes one away, and *)
(* the connection it ends is then the one that HelloKept asks for.         *)
LEMMA HelloStep ==
  ASSUME RegistryInv, Silent, HelloKept, [Next]_vars
  PROVE  Silent' /\ HelloKept'
<1> USE DEF RegistryInv, TypeOK, PlaceInv
<1> DEFINE Said(c) == Open(c) /\ hello[c] # None
           EndedBeside(c) == \E d \in Conn \ {c} : peer[d] = peer[c] /\ pc[d] = "ended"
<1>0. ListInv BY DEF ListInv
<1>a. \A c \in Conn : Said(c) => peer[c] \in Registered \/ EndedBeside(c)
  BY DEF HelloKept
<1>b. (\A c \in Conn : Said(c)' => peer'[c] \in Registered' \/ EndedBeside(c)')
        => HelloKept'
  BY DEF HelloKept
<1>1. ASSUME NEW c \in Conn, NEW ip \in Ip, Accept(c, ip) PROVE Silent' /\ HelloKept'
  <2>1. Registered' = Registered BY <1>1 DEF Accept, Registered
  <2>2. Silent' /\ ~Said(c)' BY <1>1 DEF Accept, Silent
  <2>3. \A d \in Conn \ {c} : Said(d)' => Said(d) /\ peer'[d] = peer[d]
    BY <1>1 DEF Accept, Open
  <2>4. \A d \in Conn \ {c} : EndedBeside(d) => EndedBeside(d)'
    BY <1>1 DEF Accept
  <2>5. QED BY <1>a, <1>b, <2>1, <2>2, <2>3, <2>4
<1>2. ASSUME NEW c \in Conn, ReadChunk(c) \/ Eof(c) \/ Reset(c)
      PROVE  Silent' /\ HelloKept'
  <2>1. Registered' = Registered BY <1>2 DEF ReadChunk, Eof, Reset, Registered
  <2>2. Silent' BY <1>2 DEF ReadChunk, Eof, Reset, Silent
  <2>3. \A d \in Conn : Said(d)' => Said(d) /\ peer'[d] = peer[d]
    BY <1>2 DEF ReadChunk, Eof, Reset, Open
  <2>4. \A d \in Conn : EndedBeside(d) => EndedBeside(d)'
    BY <1>2 DEF ReadChunk, Eof, Reset
  <2>5. QED BY <1>a, <1>b, <2>1, <2>2, <2>3, <2>4
<1>3. ASSUME NEW c \in Conn, Deliver(c) PROVE Silent' /\ HelloKept'
  <2>1. peer[c] \in Ip /\ Head(todo[c]) \in Message BY <1>3 DEF Deliver
  <2>2. /\ Registered' \in {Registered, Registered \cup {peer[c]}}
        /\ Head(todo[c]) # None => peer[c] \in Registered'
    BY <1>0, <1>3, <2>1, HandleKeeps DEF Deliver
  <2>3. Silent' BY <1>3 DEF Deliver, Silent
  <2>4. \A d \in Conn : Said(d)' => Said(d) \/ (d = c /\ Head(todo[c]) # None)
    BY <1>3 DEF Deliver, Open
  <2>5. \A d \in Conn : EndedBeside(d) => EndedBeside(d)' BY <1>3 DEF Deliver
  <2>6. peer' = peer BY <1>3 DEF Deliver
  <2>7. QED BY <1>a, <1>b, <2>2, <2>3, <2>4, <2>5, <2>6
<1>4. ASSUME NEW c \in Conn, Closed(c) PROVE Silent' /\ HelloKept'
  <2>1. Registered' = Registered \ {peer[c]}
    BY <1>0, <1>4, WithoutKeeps DEF Closed
  <2>2. Silent' /\ ~Said(c)' BY <1>4 DEF Closed, Silent, Open
  <2>3. \A d \in Conn : Said(d)' => Said(d) BY <1>4 DEF Closed, Open
  <2>4. \A d \in Conn : EndedBeside(d) => EndedBeside(d)' BY <1>4 DEF Closed
  <2>5. \A d \in Conn \ {c} : peer[d] = peer[c] => EndedBeside(d)'
    BY <1>4 DEF Closed
  <2>6. peer' = peer BY <1>4 DEF Closed
  <2>7. QED BY <1>a, <1>b, <2>1, <2>2, <2>3, <2>4, <2>5, <2>6
<1>5. ASSUME Registered \subseteq Registered', UNCHANGED connVars
      PROVE  Silent' /\ HelloKept'
  BY <1>5 DEF connVars, Silent, HelloKept, Open
<1>6. ASSUME NEW m \in Port, BtMessage(m) PROVE Silent' /\ HelloKept'
  <2>1. Registered \subseteq Registered'
    BY <1>0, <1>6, HandleKeeps DEF BtMessage, Message
  <2>2. QED BY <1>5, <1>6, <2>1 DEF BtMessage
<1>7. ASSUME NEW i \in DOMAIN mobile_clients, Connect(i) PROVE Silent' /\ HelloKept'
  <2>1. Registered' = Registered BY <1>0, <1>7, ConnectKeeps
  <2>2. QED BY <1>5, <1>7, <2>1 DEF Connect
<1>8. CASE UNCHANGED vars
  <2>1. Registered' = Registered BY <1>8 DEF vars, Registered
  <2>2. QED BY <1>5, <1>8, <2>1 DEF vars
<1>9. QED BY <1>1, <1>2, <1>3, <1>4, <1>6, <1>7, <1>8 DEF Next

-----------------------------------------------------------------------------
(* What the registry promises *)

(* The state of the registry always has its types (armessageserver.py:40). *)
THEOREM RegistryTypeCorrect == Spec => []TypeOK
BY RegistryInvariant, PTL DEF RegistryInv

(* However many phones connect, say HELLO and leave at once, an address    *)
(* never has two clients: handle_msg_cmd and mobile_client_disconnect need *)
(* no lock (armessageserver.py lines 62-70 and 131-139).                   *)
THEOREM ClientsDistinct == Spec => []OneClientPerAddress
BY RegistryInvariant, PTL DEF RegistryInv

(* A client whose phone has no connection left was left behind by a reset, *)
(* never by an orderly end (tcp_server.py, the finally of _handle_client). *)
THEOREM GhostsAreResets == Spec => []GhostOnlyAfterReset
BY RegistryInvariant, PTL DEF RegistryInv

(* Whatever other phones say and however they leave, a phone that has said *)
(* HELLO keeps its client while its connection lasts, unless another       *)
(* connection of its own address has ended (armessageserver.py lines 62-70 *)
(* and 131-139).                                                           *)
THEOREM HelloesLast == Spec => []HelloKept
<1>1. RegistryInv /\ Silent /\ HelloKept /\ [Next]_vars => Silent' /\ HelloKept'
  BY HelloStep
<1>2. QED BY SilentInit, RegistryInvariant, <1>1, PTL DEF Spec

(* The loop that removes from the list it runs over takes no client of     *)
(* another address away (armessageserver.py lines 131-139).                *)
THEOREM OnlyOwnClientsRemoved == Spec => OnlyOwnEndUnregisters
<1> DEFINE OwnEnd == \A ip \in Registered \ Registered' :
                       \E c \in Conn : peer[c] = ip /\ pc[c] = "closing" /\ pc'[c] = "ended"
<1>1. ASSUME RegistryInv, [Next]_vars PROVE [OwnEnd]_vars
  <2> USE DEF RegistryInv, TypeOK, PlaceInv
  <2>0. ListInv BY <1>1 DEF ListInv
  <2>1. ASSUME NEW c \in Conn, Closed(c) PROVE OwnEnd
    <3>1. Registered' = Registered \ {peer[c]}
      BY <2>0, <2>1, WithoutKeeps DEF Closed
    <3>2. pc[c] = "closing" /\ pc'[c] = "ended" BY <1>1, <2>1 DEF Closed
    <3>3. QED BY <3>1, <3>2
  <2>2. ASSUME NEW c \in Conn, Deliver(c) PROVE OwnEnd
    <3>1. peer[c] \in Ip /\ Head(todo[c]) \in Message BY <1>1, <2>2 DEF Deliver
    <3>2. Registered \subseteq Registered'
      BY <2>0, <2>2, <3>1, HandleKeeps DEF Deliver
    <3>3. QED BY <3>2
  <2>3. ASSUME NEW m \in Port, BtMessage(m) PROVE OwnEnd
    <3>1. Registered \subseteq Registered'
      BY <2>0, <2>3, HandleKeeps DEF BtMessage, Message
    <3>2. QED BY <3>1
  <2>4. ASSUME NEW i \in DOMAIN mobile_clients, Connect(i) PROVE OwnEnd
    BY <2>0, <2>4, ConnectKeeps
  <2>5. ASSUME mobile_clients' = mobile_clients PROVE OwnEnd
    BY <2>5 DEF Registered
  <2>6. QED
    BY <1>1, <2>1, <2>2, <2>3, <2>4, <2>5
       DEF Next, Accept, ReadChunk, Eof, Reset
<1>2. QED BY RegistryInvariant, <1>1, PTL DEF Spec, OnlyOwnEndUnregisters
=============================================================================
