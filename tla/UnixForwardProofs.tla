------------------------- MODULE UnixForwardProofs -------------------------
(***************************************************************************)
(* Theorems about UnixForward for any number of commands, tasks and        *)
(* connections, proved by TLAPS.  The parts of the inductive invariant     *)
(* come first, then one lemma for each part, then what they add up to.     *)
(***************************************************************************)
EXTENDS UnixForward, TLAPS

-----------------------------------------------------------------------------
(* A stream that was never opened is fresh, the client's never is, and a   *)
(* reset comes from a peer that is gone.                                   *)
StreamInv ==
  /\ \A s \in Stream : trans[s] = "none" => ~gone[s] /\ replies[s] = {}
  /\ client # None => trans[client] # "none"
  /\ \A c \in Cmd : on[c] # None => trans[on[c]] # "none"
  /\ \A s \in aborted : gone[s]

(* A command is asked on the connection it was written to, until it is     *)
(* answered.                                                               *)
AskedInv ==
  /\ \A s \in Stream : \A c \in asked[s] : on[c] = s /\ c \in received \ answered
  /\ \A c \in received : pc[c] \in {"waiting", "woken", "raised", "acked", "failed"}
  /\ \A c \in Cmd : pc[c] \in {"waiting", "woken", "raised"} => c \in received

(* The task that a StreamReader knows of waits on it; one task at most     *)
(* keeps the event loop.                                                   *)
WaiterInv ==
  /\ \A c, d \in Cmd : pc[c] = "write" /\ pc[d] = "write" => c = d
  /\ \A s \in Stream : waiter[s] # None => pc[waiter[s]] = "waiting" /\ on[waiter[s]] = s

(* A task that reconnects, or has, did so after its connection was lost.   *)
BrokenInv ==
  /\ \A c \in Cmd :
       pc[c] \in {"drain", "waiting", "woken", "raised", "closing", "reconnecting", "acked"}
         => on[c] # None
  /\ \A c \in Cmd : pc[c] \in {"closing", "reconnecting"} => trans[on[c]] = "closed"
  /\ \A c \in Cmd : pc[c] = "acked" /\ c \notin received => trans[on[c]] = "closed"

(* A client that a write failed on, or whose transport is over though no   *)
(* reset broke it, is on its way to being replaced.                        *)
ClientInv ==
  client # None =>
    /\ trans[client] = "open" \/ client \in aborted
         \/ \E c \in Cmd : pc[c] \in {"drain", "closing"}
    /\ \A c \in Cmd : on[c] = client /\ c \notin received => pc[c] \in {"drain", "closing"}

Active(c) == pc[c] \notin Ended \cup {"new"}

(* What the answer of c, or its absence, is about: the application has     *)
(* answered it, or its connection is over, or ragged.                      *)
Settled(c) == c \in answered \/ ~Healthy(on[c]) \/ on[c] \in ragged

(* As long as commands came one at a time, no StreamReader forgets a task, *)
(* an exception is a reset, and the buffer of a connection that works and  *)
(* whose answers come whole is empty unless one has just woken the task,   *)
(* so no command takes the answer of the one before for its own;           *)
SerialInv ==
  ~overlap =>
    /\ \A c, d \in Cmd : Active(c) /\ Active(d) => c = d
    /\ \A c \in Cmd : pc[c] = "waiting" => waiter[on[c]] = c
    /\ \A s \in Stream : trans[s] = "breaking" /\ waiter[s] # None => s \in aborted
    /\ \A c \in Cmd : pc[c] = "raised" => on[c] \in aborted
    /\ \A c \in Cmd : pc[c] = "failed" /\ c \in received => on[c] \in aborted \cup ragged
    /\ \A c \in Cmd : pc[c] \in {"woken", "acked"} => Settled(c)
    /\ \A s \in Stream \ ragged : Healthy(s) /\ replies[s] # {} =>
         \E c \in Cmd : pc[c] = "woken" /\ on[c] = s

(* ... and a task that connects has no connection in use to forget.        *)
LeakInv ==
  ~overlap =>
    /\ \A c \in Cmd : pc[c] \in {"connecting", "reconnecting"} => client = None
    /\ \A c \in Cmd : pc[c] = "closing" => shut[c] = client
    /\ \A s \in Stream : trans[s] = "open" => s = client

(* The inductive invariant. *)
ForwardInv ==
  /\ TypeOK /\ StreamInv /\ AskedInv /\ WaiterInv
  /\ BrokenInv /\ ClientInv /\ SerialInv /\ LeakInv

LEMMA ForwardInit == Init => ForwardInv
<1> SUFFICES ASSUME Init PROVE ForwardInv OBVIOUS
<1> USE DEF Init
<1>1. 1 \in Stream BY BoundAssumption DEF Stream
<1>2. TypeOK BY <1>1 DEF TypeOK, CmdPc, TransState
<1>3. StreamInv BY <1>1 DEF StreamInv
<1>4. AskedInv /\ WaiterInv BY DEF AskedInv, WaiterInv
<1>5. BrokenInv /\ ClientInv BY <1>1 DEF BrokenInv, ClientInv
<1>6. SerialInv /\ LeakInv BY DEF SerialInv, LeakInv, Active, Settled
<1>7. QED BY <1>2, <1>3, <1>4, <1>5, <1>6 DEF ForwardInv

(* The next connection is one that was not open before. *)
LEMMA OpenFresh ==
  ASSUME TypeOK, NEW s \in Stream, Open(s)
  PROVE  /\ listening /\ trans[s] = "none" /\ client' = s
         /\ trans' = [trans EXCEPT ![s] = "open"]
BY DEF Open, Stream

(* A connection is written to only while there is one, and what is         *)
(* answered was received.                                                  *)
LEMMA TypeStep ==
  ASSUME ForwardInv, [Next]_vars
  PROVE  TypeOK'
<1> USE NoneAssumption DEF ForwardInv, TypeOK, AskedInv, WaiterInv, CmdPc, TransState, readVars, appVars
<1>1. ASSUME NEW s \in Stream, NEW c \in Cmd, NEW last \in BOOLEAN, AppAnswers(s, c, last)
      PROVE  TypeOK'
  BY <1>1 DEF AppAnswers, Wake, Turn, appVars, readVars
<1>2. ASSUME AppDies PROVE TypeOK'
  <2>1. PICK unread \in SUBSET {s \in Stream : asked[s] # {}} :
          LET ended == {s \in Stream : trans[s] = "open"} \ (aborted \cup unread)
          IN  /\ aborted' = aborted \cup unread
              /\ waiter' = [s \in Stream |-> IF s \in ended THEN None ELSE waiter[s]]
              /\ pc' = [c \in Cmd |-> IF \E s \in ended : waiter[s] = c
                                       THEN "woken" ELSE pc[c]]
    BY <1>2 DEF AppDies
  <2> DEFINE ended == {s \in Stream : trans[s] = "open"} \ (aborted \cup unread)
  <2>2. waiter' \in [Stream -> Cmd \cup {None}] BY <2>1
  <2>3. pc' = [c \in Cmd |-> IF \E s \in ended : waiter[s] = c THEN "woken" ELSE pc[c]]
    BY <2>1
  <2> HIDE DEF ended
  <2>4. pc' \in [Cmd -> CmdPc] /\ \A c \in Cmd : pc'[c] = "write" => pc[c] = "write"
    BY <2>3
  <2>5. /\ aborted' \subseteq Stream
        /\ gone' \in [Stream -> BOOLEAN]
        /\ asked' \in [Stream -> SUBSET Cmd]
        /\ listening' = FALSE
        /\ UNCHANGED <<received, answered, ragged, trans, replies, client, on, shut, overlap>>
    BY <1>2, <2>1 DEF AppDies
  <2>6. QED BY <2>2, <2>4, <2>5
<1>3. ASSUME AppStarts PROVE TypeOK'
  BY <1>3 DEF AppStarts, appVars, readVars
<1>4. ASSUME NEW s \in Stream, ConnectionLost(s) PROVE TypeOK'
  BY <1>4 DEF ConnectionLost, Wake, Turn, appVars, readVars
<1>5. ASSUME NEW c \in Cmd, Start(c) PROVE TypeOK'
  BY <1>5 DEF Start, Turn, Goto, Unconnected, appVars, readVars
<1>6. ASSUME NEW c \in Cmd, Connected(c) PROVE TypeOK'
  <2> PICK s \in Stream : Open(s) BY <1>6 DEF Connected
  <2>1. QED BY <1>6, OpenFresh DEF Connected, Goto, Turn, appVars, readVars
<1>7. ASSUME NEW c \in Cmd, ConnectFails(c) PROVE TypeOK'
  BY <1>7 DEF ConnectFails, Goto, Turn, NoClient, appVars, readVars
<1>8. ASSUME NEW c \in Cmd, Write(c) PROVE TypeOK'
  BY <1>8 DEF Write, Goto, Decoded, Healthy, Answered, appVars, readVars
<1>9. ASSUME NEW c \in Cmd, WriteBroken(c) PROVE TypeOK'
  BY <1>9 DEF WriteBroken, Goto, Healthy, appVars, readVars
<1>10. ASSUME NEW c \in Cmd, Woken(c) PROVE TypeOK'
  <2>1. replies' \in [Stream -> SUBSET Cmd] BY <1>10 DEF Woken
  <2>2. pc' \in [Cmd -> CmdPc] BY <1>10 DEF Woken, Decoded, Goto
  <2>3. \A d \in Cmd : pc'[d] = "write" => pc[d] = "write" BY <1>10 DEF Woken, Decoded, Goto
  <2>4. waiter' \in [Stream -> Cmd \cup {None}] BY <1>10 DEF Woken, WaiterForgotten
  <2>5. UNCHANGED <<appVars, trans, client, on, shut, overlap>> BY <1>10 DEF Woken
  <2>6. QED BY <2>1, <2>2, <2>3, <2>4, <2>5 DEF appVars
<1>11. ASSUME NEW c \in Cmd, DrainRaises(c) PROVE TypeOK'
  BY <1>11 DEF DrainRaises, Close, Goto, Turn, appVars, readVars
<1>12. ASSUME NEW c \in Cmd, CloseDone(c) PROVE TypeOK'
  BY <1>12 DEF CloseDone, Goto, Turn, appVars, readVars
<1>13. ASSUME NEW c \in Cmd, Reconnected(c) PROVE TypeOK'
  <2> PICK s \in Stream : Open(s) BY <1>13 DEF Reconnected
  <2>1. QED BY <1>13, OpenFresh DEF Reconnected, Goto, Turn, appVars, readVars
<1>14. ASSUME NEW c \in Cmd, ReconnectFails(c) PROVE TypeOK'
  BY <1>14 DEF ReconnectFails, Goto, Turn, appVars, readVars
<1>15. ASSUME NEW s \in Stream, ResetSeen(s) PROVE TypeOK'
  BY <1>15 DEF ResetSeen, Turn, appVars, readVars
<1>16. ASSUME NEW c \in Cmd, Raised(c) PROVE TypeOK'
  <2>1. pc' \in [Cmd -> CmdPc] BY <1>16 DEF Raised, Goto
  <2>2. \A d \in Cmd : pc'[d] = "write" => pc[d] = "write" BY <1>16 DEF Raised, Goto
  <2>3. waiter' \in [Stream -> Cmd \cup {None}] BY <1>16 DEF Raised, WaiterForgotten
  <2>4. UNCHANGED <<appVars, trans, replies, client, on, shut, overlap>> BY <1>16 DEF Raised
  <2>5. QED BY <2>1, <2>2, <2>3, <2>4 DEF appVars
<1>17. CASE UNCHANGED vars
  BY <1>17 DEF vars, appVars, readVars
<1>18. QED
  BY <1>1, <1>2, <1>3, <1>4, <1>5, <1>6, <1>7, <1>8, <1>9, <1>10, <1>11, <1>12, <1>13, <1>14, <1>15, <1>16, <1>17
     DEF Next, App, Task

(* A connection is fresh until Open makes it the client.                   *)
LEMMA StreamStep ==
  ASSUME ForwardInv, [Next]_vars
  PROVE  StreamInv'
<1> USE NoneAssumption DEF ForwardInv, StreamInv, TypeOK
<1>1. ASSUME NEW s \in Stream, NEW c \in Cmd, NEW last \in BOOLEAN, AppAnswers(s, c, last)
      PROVE  StreamInv'
  BY <1>1 DEF AppAnswers, Wake, Turn, appVars, readVars
<1>2. ASSUME AppDies PROVE StreamInv'
  <2>1. \A s \in Stream : asked[s] # {} => trans[s] # "none" BY DEF AskedInv
  <2>2. \A s \in aborted' : s \in aborted \/ (s \in Stream /\ asked[s] # {})
    <3>1. PICK unread \in SUBSET {s \in Stream : asked[s] # {}} : aborted' = aborted \cup unread
      BY <1>2 DEF AppDies
    <3>2. QED BY <3>1
  <2>3. /\ gone' = [s \in Stream |-> gone[s] \/ trans[s] # "none"]
        /\ UNCHANGED <<trans, replies, client, on>>
    BY <1>2 DEF AppDies
  <2>4. QED BY <2>1, <2>2, <2>3
<1>3. ASSUME AppStarts PROVE StreamInv'
  BY <1>3 DEF AppStarts, appVars, readVars
<1>4. ASSUME NEW s \in Stream, ConnectionLost(s) PROVE StreamInv'
  BY <1>4 DEF ConnectionLost, Wake, Turn, appVars, readVars
<1>5. ASSUME NEW c \in Cmd, Start(c) PROVE StreamInv'
  BY <1>5 DEF Start, Turn, Goto, Unconnected, appVars, readVars
<1>6. ASSUME NEW c \in Cmd, Connected(c) PROVE StreamInv'
  <2> PICK s \in Stream : Open(s) BY <1>6 DEF Connected
  <2>1. QED BY <1>6, OpenFresh DEF Connected, Goto, Turn, appVars, readVars
<1>7. ASSUME NEW c \in Cmd, ConnectFails(c) PROVE StreamInv'
  BY <1>7 DEF ConnectFails, Goto, Turn, NoClient, appVars, readVars
<1>8. ASSUME NEW c \in Cmd, Write(c) PROVE StreamInv'
  BY <1>8 DEF Write, Goto, Decoded, Healthy, Answered, appVars, readVars
<1>9. ASSUME NEW c \in Cmd, WriteBroken(c) PROVE StreamInv'
  BY <1>9 DEF WriteBroken, Goto, Healthy, appVars, readVars
<1>10. ASSUME NEW c \in Cmd, Woken(c) PROVE StreamInv'
  BY <1>10 DEF Woken, WaiterForgotten, Decoded, Goto, Turn, appVars, readVars
<1>11. ASSUME NEW c \in Cmd, DrainRaises(c) PROVE StreamInv'
  BY <1>11 DEF DrainRaises, Close, Goto, Turn, appVars, readVars
<1>12. ASSUME NEW c \in Cmd, CloseDone(c) PROVE StreamInv'
  BY <1>12 DEF CloseDone, Goto, Turn, appVars, readVars
<1>13. ASSUME NEW c \in Cmd, Reconnected(c) PROVE StreamInv'
  <2> PICK s \in Stream : Open(s) BY <1>13 DEF Reconnected
  <2>1. QED BY <1>13, OpenFresh DEF Reconnected, Goto, Turn, appVars, readVars
<1>14. ASSUME NEW c \in Cmd, ReconnectFails(c) PROVE StreamInv'
  BY <1>14 DEF ReconnectFails, Goto, Turn, appVars, readVars
<1>15. ASSUME NEW s \in Stream, ResetSeen(s) PROVE StreamInv'
  BY <1>15 DEF ResetSeen, Turn, appVars, readVars
<1>16. ASSUME NEW c \in Cmd, Raised(c) PROVE StreamInv'
  BY <1>16 DEF Raised, WaiterForgotten, Goto, Turn, appVars, readVars
<1>17. CASE UNCHANGED vars
  BY <1>17 DEF vars, appVars, readVars
<1>18. QED
  BY <1>1, <1>2, <1>3, <1>4, <1>5, <1>6, <1>7, <1>8, <1>9, <1>10, <1>11, <1>12, <1>13, <1>14, <1>15, <1>16, <1>17
     DEF Next, App, Task

(* A command is asked once, on one connection, and leaves asked when it is *)
(* answered.                                                               *)
LEMMA AskedStep ==
  ASSUME ForwardInv, [Next]_vars
  PROVE  AskedInv'
<1> USE NoneAssumption DEF ForwardInv, AskedInv, TypeOK, WaiterInv
<1>1. ASSUME NEW s \in Stream, NEW c \in Cmd, NEW last \in BOOLEAN, AppAnswers(s, c, last)
      PROVE  AskedInv'
  BY <1>1 DEF AppAnswers, Wake, Turn, appVars, readVars
<1>2. ASSUME AppDies PROVE AskedInv'
  BY <1>2 DEF AppDies, appVars, readVars
<1>3. ASSUME AppStarts PROVE AskedInv'
  BY <1>3 DEF AppStarts, appVars, readVars
<1>4. ASSUME NEW s \in Stream, ConnectionLost(s) PROVE AskedInv'
  BY <1>4 DEF ConnectionLost, Wake, Turn, appVars, readVars
<1>5. ASSUME NEW c \in Cmd, Start(c) PROVE AskedInv'
  BY <1>5 DEF Start, Turn, Goto, Unconnected, appVars, readVars
<1>6. ASSUME NEW c \in Cmd, Connected(c) PROVE AskedInv'
  <2> PICK s \in Stream : Open(s) BY <1>6 DEF Connected
  <2>1. QED BY <1>6, OpenFresh DEF Connected, Goto, Turn, appVars, readVars
<1>7. ASSUME NEW c \in Cmd, ConnectFails(c) PROVE AskedInv'
  BY <1>7 DEF ConnectFails, Goto, Turn, NoClient, appVars, readVars
<1>8. ASSUME NEW c \in Cmd, Write(c) PROVE AskedInv'
  BY <1>8 DEF Write, Goto, Decoded, Healthy, Answered, appVars, readVars
<1>9. ASSUME NEW c \in Cmd, WriteBroken(c) PROVE AskedInv'
  BY <1>9 DEF WriteBroken, Goto, Healthy, appVars, readVars
<1>10. ASSUME NEW c \in Cmd, Woken(c) PROVE AskedInv'
  BY <1>10 DEF Woken, WaiterForgotten, Decoded, Goto, Turn, appVars, readVars
<1>11. ASSUME NEW c \in Cmd, DrainRaises(c) PROVE AskedInv'
  BY <1>11 DEF DrainRaises, Close, Goto, Turn, appVars, readVars
<1>12. ASSUME NEW c \in Cmd, CloseDone(c) PROVE AskedInv'
  BY <1>12 DEF CloseDone, Goto, Turn, appVars, readVars
<1>13. ASSUME NEW c \in Cmd, Reconnected(c) PROVE AskedInv'
  <2> PICK s \in Stream : Open(s) BY <1>13 DEF Reconnected
  <2>1. QED BY <1>13, OpenFresh DEF Reconnected, Goto, Turn, appVars, readVars
<1>14. ASSUME NEW c \in Cmd, ReconnectFails(c) PROVE AskedInv'
  BY <1>14 DEF ReconnectFails, Goto, Turn, appVars, readVars
<1>15. ASSUME NEW s \in Stream, ResetSeen(s) PROVE AskedInv'
  BY <1>15 DEF ResetSeen, Turn, appVars, readVars
<1>16. ASSUME NEW c \in Cmd, Raised(c) PROVE AskedInv'
  BY <1>16 DEF Raised, WaiterForgotten, Goto, Turn, appVars, readVars
<1>17. CASE UNCHANGED vars
  BY <1>17 DEF vars, appVars, readVars
<1>18. QED
  BY <1>1, <1>2, <1>3, <1>4, <1>5, <1>6, <1>7, <1>8, <1>9, <1>10, <1>11, <1>12, <1>13, <1>14, <1>15, <1>16, <1>17
     DEF Next, App, Task

(* A task waits only where no other does, and is woken when it is taken    *)
(* off.                                                                    *)
LEMMA WaiterStep ==
  ASSUME ForwardInv, [Next]_vars
  PROVE  WaiterInv'
<1> USE NoneAssumption DEF ForwardInv, WaiterInv, TypeOK, BrokenInv
<1>1. ASSUME NEW s \in Stream, NEW c \in Cmd, NEW last \in BOOLEAN, AppAnswers(s, c, last)
      PROVE  WaiterInv'
  BY <1>1 DEF AppAnswers, Wake, Turn, appVars, readVars
<1>2. ASSUME AppDies PROVE WaiterInv'
  BY <1>2 DEF AppDies, appVars, readVars
<1>3. ASSUME AppStarts PROVE WaiterInv'
  BY <1>3 DEF AppStarts, appVars, readVars
<1>4. ASSUME NEW s \in Stream, ConnectionLost(s) PROVE WaiterInv'
  BY <1>4 DEF ConnectionLost, Wake, Turn, appVars, readVars
<1>5. ASSUME NEW c \in Cmd, Start(c) PROVE WaiterInv'
  BY <1>5 DEF Start, Turn, Goto, Unconnected, appVars, readVars
<1>6. ASSUME NEW c \in Cmd, Connected(c) PROVE WaiterInv'
  <2> PICK s \in Stream : Open(s) BY <1>6 DEF Connected
  <2>1. QED BY <1>6, OpenFresh DEF Connected, Goto, Turn, appVars, readVars
<1>7. ASSUME NEW c \in Cmd, ConnectFails(c) PROVE WaiterInv'
  BY <1>7 DEF ConnectFails, Goto, Turn, NoClient, appVars, readVars
<1>8. ASSUME NEW c \in Cmd, Write(c) PROVE WaiterInv'
  BY <1>8 DEF Write, Goto, Decoded, Healthy, Answered, appVars, readVars
<1>9. ASSUME NEW c \in Cmd, WriteBroken(c) PROVE WaiterInv'
  BY <1>9 DEF WriteBroken, Goto, Healthy, appVars, readVars
<1>10. ASSUME NEW c \in Cmd, Woken(c) PROVE WaiterInv'
  BY <1>10 DEF Woken, WaiterForgotten, Decoded, Goto, Turn, appVars, readVars
<1>11. ASSUME NEW c \in Cmd, DrainRaises(c) PROVE WaiterInv'
  BY <1>11 DEF DrainRaises, Close, Goto, Turn, appVars, readVars
<1>12. ASSUME NEW c \in Cmd, CloseDone(c) PROVE WaiterInv'
  BY <1>12 DEF CloseDone, Goto, Turn, appVars, readVars
<1>13. ASSUME NEW c \in Cmd, Reconnected(c) PROVE WaiterInv'
  <2> PICK s \in Stream : Open(s) BY <1>13 DEF Reconnected
  <2>1. QED BY <1>13, OpenFresh DEF Reconnected, Goto, Turn, appVars, readVars
<1>14. ASSUME NEW c \in Cmd, ReconnectFails(c) PROVE WaiterInv'
  BY <1>14 DEF ReconnectFails, Goto, Turn, appVars, readVars
<1>15. ASSUME NEW s \in Stream, ResetSeen(s) PROVE WaiterInv'
  BY <1>15 DEF ResetSeen, Turn, appVars, readVars
<1>16. ASSUME NEW c \in Cmd, Raised(c) PROVE WaiterInv'
  BY <1>16 DEF Raised, WaiterForgotten, Goto, Turn, appVars, readVars
<1>17. CASE UNCHANGED vars
  BY <1>17 DEF vars, appVars, readVars
<1>18. QED
  BY <1>1, <1>2, <1>3, <1>4, <1>5, <1>6, <1>7, <1>8, <1>9, <1>10, <1>11, <1>12, <1>13, <1>14, <1>15, <1>16, <1>17
     DEF Next, App, Task

(* What is closed stays so, and only a write that failed leads to          *)
(* reconnect().                                                            *)
LEMMA BrokenStep ==
  ASSUME ForwardInv, [Next]_vars
  PROVE  BrokenInv'
<1> USE NoneAssumption DEF ForwardInv, BrokenInv, TypeOK, WaiterInv, AskedInv, StreamInv
<1>1. ASSUME NEW s \in Stream, NEW c \in Cmd, NEW last \in BOOLEAN, AppAnswers(s, c, last)
      PROVE  BrokenInv'
  BY <1>1 DEF AppAnswers, Wake, Turn, appVars, readVars
<1>2. ASSUME AppDies PROVE BrokenInv'
  BY <1>2 DEF AppDies, appVars, readVars
<1>3. ASSUME AppStarts PROVE BrokenInv'
  BY <1>3 DEF AppStarts, appVars, readVars
<1>4. ASSUME NEW s \in Stream, ConnectionLost(s) PROVE BrokenInv'
  BY <1>4 DEF ConnectionLost, Wake, Turn, appVars, readVars
<1>5. ASSUME NEW c \in Cmd, Start(c) PROVE BrokenInv'
  BY <1>5 DEF Start, Turn, Goto, Unconnected, appVars, readVars
<1>6. ASSUME NEW c \in Cmd, Connected(c) PROVE BrokenInv'
  <2> PICK s \in Stream : Open(s) BY <1>6 DEF Connected
  <2>1. QED BY <1>6, OpenFresh DEF Connected, Goto, Turn, appVars, readVars
<1>7. ASSUME NEW c \in Cmd, ConnectFails(c) PROVE BrokenInv'
  BY <1>7 DEF ConnectFails, Goto, Turn, NoClient, appVars, readVars
<1>8. ASSUME NEW c \in Cmd, Write(c) PROVE BrokenInv'
  BY <1>8 DEF Write, Goto, Decoded, Healthy, Answered, appVars, readVars
<1>9. ASSUME NEW c \in Cmd, WriteBroken(c) PROVE BrokenInv'
  BY <1>9 DEF WriteBroken, Goto, Healthy, appVars, readVars
<1>10. ASSUME NEW c \in Cmd, Woken(c) PROVE BrokenInv'
  BY <1>10 DEF Woken, WaiterForgotten, Decoded, Goto, Turn, appVars, readVars
<1>11. ASSUME NEW c \in Cmd, DrainRaises(c) PROVE BrokenInv'
  BY <1>11 DEF DrainRaises, Close, Goto, Turn, appVars, readVars
<1>12. ASSUME NEW c \in Cmd, CloseDone(c) PROVE BrokenInv'
  BY <1>12 DEF CloseDone, Goto, Turn, appVars, readVars
<1>13. ASSUME NEW c \in Cmd, Reconnected(c) PROVE BrokenInv'
  <2> PICK s \in Stream : Open(s) BY <1>13 DEF Reconnected
  <2>1. QED BY <1>13, OpenFresh DEF Reconnected, Goto, Turn, appVars, readVars
<1>14. ASSUME NEW c \in Cmd, ReconnectFails(c) PROVE BrokenInv'
  BY <1>14 DEF ReconnectFails, Goto, Turn, appVars, readVars
<1>15. ASSUME NEW s \in Stream, ResetSeen(s) PROVE BrokenInv'
  BY <1>15 DEF ResetSeen, Turn, appVars, readVars
<1>16. ASSUME NEW c \in Cmd, Raised(c) PROVE BrokenInv'
  BY <1>16 DEF Raised, WaiterForgotten, Goto, Turn, appVars, readVars
<1>17. CASE UNCHANGED vars
  BY <1>17 DEF vars, appVars, readVars
<1>18. QED
  BY <1>1, <1>2, <1>3, <1>4, <1>5, <1>6, <1>7, <1>8, <1>9, <1>10, <1>11, <1>12, <1>13, <1>14, <1>15, <1>16, <1>17
     DEF Next, App, Task

(* Whoever breaks the client's transport is in drain or closes it, until   *)
(* it is None.                                                             *)
LEMMA ClientStep ==
  ASSUME ForwardInv, [Next]_vars
  PROVE  ClientInv'
<1> USE NoneAssumption DEF ForwardInv, ClientInv, TypeOK, WaiterInv, StreamInv
<1>1. ASSUME NEW s \in Stream, NEW c \in Cmd, NEW last \in BOOLEAN, AppAnswers(s, c, last)
      PROVE  ClientInv'
  BY <1>1 DEF AppAnswers, Wake, Turn, appVars, readVars
<1>2. ASSUME AppDies PROVE ClientInv'
  BY <1>2 DEF AppDies, appVars, readVars
<1>3. ASSUME AppStarts PROVE ClientInv'
  BY <1>3 DEF AppStarts, appVars, readVars
<1>4. ASSUME NEW s \in Stream, ConnectionLost(s) PROVE ClientInv'
  BY <1>4 DEF ConnectionLost, Wake, Turn, appVars, readVars
<1>5. ASSUME NEW c \in Cmd, Start(c) PROVE ClientInv'
  BY <1>5 DEF Start, Turn, Goto, Unconnected, appVars, readVars
<1>6. ASSUME NEW c \in Cmd, Connected(c) PROVE ClientInv'
  <2> PICK s \in Stream : Open(s) BY <1>6 DEF Connected
  <2>1. QED BY <1>6, OpenFresh DEF Connected, Goto, Turn, appVars, readVars
<1>7. ASSUME NEW c \in Cmd, ConnectFails(c) PROVE ClientInv'
  BY <1>7 DEF ConnectFails, Goto, Turn, NoClient, appVars, readVars
<1>8. ASSUME NEW c \in Cmd, Write(c) PROVE ClientInv'
  BY <1>8 DEF Write, Goto, Decoded, Healthy, Answered, appVars, readVars
<1>9. ASSUME NEW c \in Cmd, WriteBroken(c) PROVE ClientInv'
  BY <1>9 DEF WriteBroken, Goto, Healthy, appVars, readVars
<1>10. ASSUME NEW c \in Cmd, Woken(c) PROVE ClientInv'
  BY <1>10 DEF Woken, WaiterForgotten, Decoded, Goto, Turn, appVars, readVars
<1>11. ASSUME NEW c \in Cmd, DrainRaises(c) PROVE ClientInv'
  BY <1>11 DEF DrainRaises, Close, Goto, Turn, appVars, readVars
<1>12. ASSUME NEW c \in Cmd, CloseDone(c) PROVE ClientInv'
  BY <1>12 DEF CloseDone, Goto, Turn, appVars, readVars
<1>13. ASSUME NEW c \in Cmd, Reconnected(c) PROVE ClientInv'
  <2> PICK s \in Stream : Open(s) BY <1>13 DEF Reconnected
  <2>1. QED BY <1>13, OpenFresh DEF Reconnected, Goto, Turn, appVars, readVars
<1>14. ASSUME NEW c \in Cmd, ReconnectFails(c) PROVE ClientInv'
  BY <1>14 DEF ReconnectFails, Goto, Turn, appVars, readVars
<1>15. ASSUME NEW s \in Stream, ResetSeen(s) PROVE ClientInv'
  BY <1>15 DEF ResetSeen, Turn, appVars, readVars
<1>16. ASSUME NEW c \in Cmd, Raised(c) PROVE ClientInv'
  BY <1>16 DEF Raised, WaiterForgotten, Goto, Turn, appVars, readVars
<1>17. CASE UNCHANGED vars
  BY <1>17 DEF vars, appVars, readVars
<1>18. QED
  BY <1>1, <1>2, <1>3, <1>4, <1>5, <1>6, <1>7, <1>8, <1>9, <1>10, <1>11, <1>12, <1>13, <1>14, <1>15, <1>16, <1>17
     DEF Next, App, Task

(* A step of one task at a time: the others are at rest.                   *)
LEMMA SerialStep ==
  ASSUME ForwardInv, [Next]_vars
  PROVE  SerialInv'
<1> USE NoneAssumption DEF ForwardInv, SerialInv, Settled, TypeOK, Active, Ended, WaiterInv, AskedInv, StreamInv, BrokenInv, Healthy, Answered
<1>1. ASSUME NEW s \in Stream, NEW c \in Cmd, NEW last \in BOOLEAN, AppAnswers(s, c, last)
      PROVE  SerialInv'
  BY <1>1 DEF AppAnswers, Wake, Turn, appVars, readVars
<1>2. ASSUME AppDies PROVE SerialInv'
  <2> SUFFICES ASSUME ~overlap' PROVE SerialInv' OBVIOUS
  <2>1. PICK unread \in SUBSET {s \in Stream : asked[s] # {}} :
          LET ended == {s \in Stream : trans[s] = "open"} \ (aborted \cup unread)
          IN  /\ aborted' = aborted \cup unread
              /\ waiter' = [s \in Stream |-> IF s \in ended THEN None ELSE waiter[s]]
              /\ pc' = [c \in Cmd |-> IF \E s \in ended : waiter[s] = c
                                       THEN "woken" ELSE pc[c]]
    BY <1>2 DEF AppDies
  <2> DEFINE ended == {s \in Stream : trans[s] = "open"} \ (aborted \cup unread)
  <2>2. pc' = [c \in Cmd |-> IF \E s \in ended : waiter[s] = c THEN "woken" ELSE pc[c]]
    BY <2>1
  <2>3. /\ waiter' = [s \in Stream |-> IF s \in ended THEN None ELSE waiter[s]]
        /\ aborted \subseteq aborted'
    BY <2>1
  <2>4. ended \subseteq Stream /\ \A s \in ended : trans[s] = "open" OBVIOUS
  <2>5. \A s \in Stream : ~Healthy(s)' BY <1>2 DEF AppDies
  <2>6. UNCHANGED <<overlap, received, ragged, trans, on, replies>> BY <1>2 DEF AppDies
  <2> HIDE DEF ended
  <2>7. \A c \in Cmd : \/ pc'[c] = "woken" /\ pc[c] = "waiting"
                       \/ pc'[c] = pc[c] /\ \A s \in ended : waiter[s] # c
    <3> TAKE c \in Cmd
    <3>1. CASE \E s \in ended : waiter[s] = c
      <4>1. pc[c] = "waiting" BY <3>1, <2>4
      <4>2. QED BY <3>1, <4>1, <2>2
    <3>2. CASE \A s \in ended : waiter[s] # c
      BY <3>2, <2>2
    <3>3. QED BY <3>1, <3>2
  <2>8. \A c \in Cmd : /\ Active(c)' => Active(c)
                       /\ pc'[c] = "failed" => pc[c] = "failed"
                       /\ pc'[c] = "raised" => pc[c] = "raised"
    BY <2>7
  <2>9. \A c \in Cmd : pc'[c] = "waiting" => waiter'[on'[c]] = c
    BY <2>3, <2>6, <2>7
  <2>10. \A s \in Stream : trans'[s] = "breaking" /\ waiter'[s] # None => s \in aborted'
    BY <2>3, <2>4, <2>6
  <2>11. \A c \in Cmd : pc'[c] \in {"woken", "acked"} => Settled(c)'
    BY <2>5, <2>6, <2>7
  <2> HIDE DEF Healthy, Active, Settled
  <2>12. QED BY <2>3, <2>5, <2>6, <2>8, <2>9, <2>10, <2>11
<1>3. ASSUME AppStarts PROVE SerialInv'
  BY <1>3 DEF AppStarts, appVars, readVars
<1>4. ASSUME NEW s \in Stream, ConnectionLost(s) PROVE SerialInv'
  BY <1>4 DEF ConnectionLost, Wake, Turn, appVars, readVars
<1>5. ASSUME NEW c \in Cmd, Start(c) PROVE SerialInv'
  <2> SUFFICES ASSUME ~overlap' PROVE SerialInv' OBVIOUS
  <2>1. /\ ~overlap
        /\ \A d \in Cmd \ {c} : ~Active(d)
    BY <1>5 DEF Start
  <2>2. pc' = [pc EXCEPT ![c] = IF Unconnected THEN "connecting" ELSE "write"]
    BY <1>5 DEF Start, Goto
  <2>3. UNCHANGED <<trans, gone, aborted, ragged, waiter, on, replies, received, answered>>
    BY <1>5 DEF Start, appVars, readVars
  <2>4. pc[c] = "new" BY <1>5 DEF Start
  <2>5. \A d \in Cmd \ {c} : ~Active(d)' BY <2>1, <2>2
  <2>6. \A d \in Cmd : \A label \in {"waiting", "raised", "failed", "woken", "acked"} :
          pc'[d] = label <=> pc[d] = label
    BY <2>2, <2>4
  <2>7. \A d \in Cmd : Settled(d)' <=> Settled(d) BY <2>3
  <2>8. \A s \in Stream : Healthy(s)' <=> Healthy(s) BY <2>3
  <2> HIDE DEF Healthy, Settled
  <2>9. QED BY <2>1, <2>3, <2>5, <2>6, <2>7, <2>8
<1>6. ASSUME NEW c \in Cmd, Connected(c) PROVE SerialInv'
  <2> PICK s \in Stream : Open(s) BY <1>6 DEF Connected
  <2>1. QED BY <1>6, OpenFresh DEF Connected, Goto, Turn, appVars, readVars
<1>7. ASSUME NEW c \in Cmd, ConnectFails(c) PROVE SerialInv'
  BY <1>7 DEF ConnectFails, Goto, Turn, NoClient, appVars, readVars
<1>8. ASSUME NEW c \in Cmd, Write(c) PROVE SerialInv'
  <2> SUFFICES ASSUME ~overlap' PROVE SerialInv' OBVIOUS
  <2>1. /\ ~overlap /\ client \in Stream /\ Healthy(client)
        /\ pc[c] = "write" /\ \A d \in Cmd \ {c} : ~Active(d)
    BY <1>8 DEF Write
  <2>2. waiter[client] = None
    BY <2>1
  <2>3. replies[client] # {} => client \in ragged
    BY <2>1
  <2>4. /\ UNCHANGED <<listening, gone, aborted, answered, ragged, trans, client>>
        /\ on' = [on EXCEPT ![c] = client]
        /\ received' = received \cup {c}
        /\ replies' = [replies EXCEPT ![client] = {}]
    BY <1>8 DEF Write
  <2>5. CASE replies[client] # {}
    <3>1. pc'[c] \in {"acked", "failed"} /\ UNCHANGED waiter
          /\ \A d \in Cmd \ {c} : pc'[d] = pc[d]
      BY <1>8, <2>3, <2>5 DEF Write, Decoded, Goto
    <3>2. QED BY <2>1, <2>3, <2>4, <2>5, <3>1
  <2>6. CASE replies[client] = {}
    <3>1. /\ pc' = [pc EXCEPT ![c] = "waiting"]
          /\ waiter' = [waiter EXCEPT ![client] = c]
      BY <1>8, <2>2, <2>6 DEF Write, Goto
    <3>2. QED BY <2>1, <2>2, <2>4, <2>6, <3>1
  <2>7. QED BY <2>5, <2>6
<1>9. ASSUME NEW c \in Cmd, WriteBroken(c) PROVE SerialInv'
  BY <1>9 DEF WriteBroken, Goto, Healthy, appVars, readVars
<1>10. ASSUME NEW c \in Cmd, Woken(c) PROVE SerialInv'
  BY <1>10 DEF Woken, WaiterForgotten, Decoded, Goto, Turn, appVars, readVars
<1>11. ASSUME NEW c \in Cmd, DrainRaises(c) PROVE SerialInv'
  BY <1>11 DEF DrainRaises, Close, Goto, Turn, appVars, readVars
<1>12. ASSUME NEW c \in Cmd, CloseDone(c) PROVE SerialInv'
  BY <1>12 DEF CloseDone, Goto, Turn, appVars, readVars
<1>13. ASSUME NEW c \in Cmd, Reconnected(c) PROVE SerialInv'
  <2> PICK s \in Stream : Open(s) BY <1>13 DEF Reconnected
  <2>1. QED BY <1>13, OpenFresh DEF Reconnected, Goto, Turn, appVars, readVars
<1>14. ASSUME NEW c \in Cmd, ReconnectFails(c) PROVE SerialInv'
  BY <1>14 DEF ReconnectFails, Goto, Turn, appVars, readVars
<1>15. ASSUME NEW s \in Stream, ResetSeen(s) PROVE SerialInv'
  BY <1>15 DEF ResetSeen, Turn, appVars, readVars
<1>16. ASSUME NEW c \in Cmd, Raised(c) PROVE SerialInv'
  BY <1>16 DEF Raised, WaiterForgotten, Goto, Turn, appVars, readVars
<1>17. CASE UNCHANGED vars
  BY <1>17 DEF vars, appVars, readVars
<1> HIDE DEF ForwardInv, SerialInv, Settled, TypeOK, Active, WaiterInv, AskedInv, StreamInv, BrokenInv, Healthy
<1>18. QED
  BY <1>1, <1>2, <1>3, <1>4, <1>5, <1>6, <1>7, <1>8, <1>9, <1>10, <1>11, <1>12, <1>13, <1>14, <1>15, <1>16, <1>17
     DEF Next, App, Task

(* A connection is opened only where client is None.                       *)
LEMMA LeakStep ==
  ASSUME ForwardInv, [Next]_vars
  PROVE  LeakInv'
<1> USE NoneAssumption DEF ForwardInv, LeakInv, SerialInv, Active, Ended, TypeOK, WaiterInv, BrokenInv, StreamInv
<1>1. ASSUME NEW s \in Stream, NEW c \in Cmd, NEW last \in BOOLEAN, AppAnswers(s, c, last)
      PROVE  LeakInv'
  BY <1>1 DEF AppAnswers, Wake, Turn, appVars, readVars
<1>2. ASSUME AppDies PROVE LeakInv'
  BY <1>2 DEF AppDies, appVars, readVars
<1>3. ASSUME AppStarts PROVE LeakInv'
  BY <1>3 DEF AppStarts, appVars, readVars
<1>4. ASSUME NEW s \in Stream, ConnectionLost(s) PROVE LeakInv'
  BY <1>4 DEF ConnectionLost, Wake, Turn, appVars, readVars
<1>5. ASSUME NEW c \in Cmd, Start(c) PROVE LeakInv'
  BY <1>5 DEF Start, Turn, Goto, Unconnected, appVars, readVars
<1>6. ASSUME NEW c \in Cmd, Connected(c) PROVE LeakInv'
  <2> PICK s \in Stream : Open(s) BY <1>6 DEF Connected
  <2>1. QED BY <1>6, OpenFresh DEF Connected, Goto, Turn, appVars, readVars
<1>7. ASSUME NEW c \in Cmd, ConnectFails(c) PROVE LeakInv'
  BY <1>7 DEF ConnectFails, Goto, Turn, NoClient, appVars, readVars
<1>8. ASSUME NEW c \in Cmd, Write(c) PROVE LeakInv'
  BY <1>8 DEF Write, Goto, Decoded, Healthy, Answered, appVars, readVars
<1>9. ASSUME NEW c \in Cmd, WriteBroken(c) PROVE LeakInv'
  BY <1>9 DEF WriteBroken, Goto, Healthy, appVars, readVars
<1>10. ASSUME NEW c \in Cmd, Woken(c) PROVE LeakInv'
  BY <1>10 DEF Woken, WaiterForgotten, Decoded, Goto, Turn, appVars, readVars
<1>11. ASSUME NEW c \in Cmd, DrainRaises(c) PROVE LeakInv'
  BY <1>11 DEF DrainRaises, Close, Goto, Turn, appVars, readVars
<1>12. ASSUME NEW c \in Cmd, CloseDone(c) PROVE LeakInv'
  BY <1>12 DEF CloseDone, Goto, Turn, appVars, readVars
<1>13. ASSUME NEW c \in Cmd, Reconnected(c) PROVE LeakInv'
  <2> PICK s \in Stream : Open(s) BY <1>13 DEF Reconnected
  <2>1. QED BY <1>13, OpenFresh DEF Reconnected, Goto, Turn, appVars, readVars
<1>14. ASSUME NEW c \in Cmd, ReconnectFails(c) PROVE LeakInv'
  BY <1>14 DEF ReconnectFails, Goto, Turn, appVars, readVars
<1>15. ASSUME NEW s \in Stream, ResetSeen(s) PROVE LeakInv'
  BY <1>15 DEF ResetSeen, Turn, appVars, readVars
<1>16. ASSUME NEW c \in Cmd, Raised(c) PROVE LeakInv'
  BY <1>16 DEF Raised, WaiterForgotten, Goto, Turn, appVars, readVars
<1>17. CASE UNCHANGED vars
  BY <1>17 DEF vars, appVars, readVars
<1>18. QED
  BY <1>1, <1>2, <1>3, <1>4, <1>5, <1>6, <1>7, <1>8, <1>9, <1>10, <1>11, <1>12, <1>13, <1>14, <1>15, <1>16, <1>17
     DEF Next, App, Task

LEMMA ForwardInvariant == Spec => []ForwardInv
<1>1. ForwardInv /\ [Next]_vars => ForwardInv'
  BY TypeStep, StreamStep, AskedStep, WaiterStep, BrokenStep, ClientStep,
     SerialStep, LeakStep
     DEF ForwardInv
<1>2. QED BY ForwardInit, <1>1, PTL DEF Spec

-----------------------------------------------------------------------------
(* What the forwarding of commands promises *)

(* The state always has its types, and a task that writes finds a writer:  *)
(* nothing can take it away after send() has looked (unix_client.py:37).   *)
THEOREM ForwardTypeCorrect == Spec => []TypeOK
BY ForwardInvariant, PTL DEF ForwardInv

(* A command that was acknowledged and never reached the application was   *)
(* written to a connection that is over, whatever the other tasks do to    *)
(* the client they share (unix_client.py lines 36-60).                     *)
THEOREM LossIsABrokenConnection == Spec => []LostOnlyIfBroken
<1>1. ForwardInv => LostOnlyIfBroken
  BY DEF ForwardInv, BrokenInv, LostOnlyIfBroken
<1>2. QED BY ForwardInvariant, <1>1, PTL

(* When no command is under way, the client is no connection that a write  *)
(* failed on, and one that is over only if its application died with a     *)
(* command unread: read() raised, and send() does not reconnect then       *)
(* (unix_client.py lines 45-50).                                           *)
THEOREM OnlyResetsAreKept == Spec => []BrokenClientReplaced
<1>1. ForwardInv => BrokenClientReplaced
  BY DEF ForwardInv, ClientInv, BrokenClientReplaced, Rest, Ended
<1>2. QED BY ForwardInvariant, <1>1, PTL

(* As long as no two commands are under way at once, the OK for a command  *)
(* stands for the application's answer to it unless the connection is over *)
(* or an answer came in pieces, and only a reset or such a piece takes the *)
(* OK away from a command that arrived (unix_client.py lines 50-52).       *)
THEOREM OkIsTheAnswer == Spec => []AckMeansAnswered
<1>1. ForwardInv => AckMeansAnswered
  BY DEF ForwardInv, SerialInv, Settled, AckMeansAnswered
<1>2. QED BY ForwardInvariant, <1>1, PTL

(* ... and send() and reconnect() leave no connection open behind the one  *)
(* in use.                                                                 *)
THEOREM ConnectionsReturned == Spec => []NoConnectionLeak
<1>1. ForwardInv => NoConnectionLeak
  BY DEF ForwardInv, LeakInv, NoConnectionLeak
<1>2. QED BY ForwardInvariant, <1>1, PTL
=============================================================================
