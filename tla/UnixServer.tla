----------------------------- MODULE UnixServer -----------------------------
(***************************************************************************)
(* A connection of UnixServer.  An application sends answers for the       *)
(* phones on a byte stream; _handle_client takes each read() for a list of *)
(* complete messages, splits it at "idx", and keeps nothing between reads. *)
(*                                                                         *)
(* Message n is two halves, 2n-1 and 2n: enough for a read to begin or end *)
(* inside it.  A message of Tricky has "idx" in its payload, and one of    *)
(* Malformed has an item without a colon, as a trailing ";" makes one.     *)
(***************************************************************************)
EXTENDS Naturals, Sequences, FiniteSets

CONSTANTS
  MaxMsg,  (* bound: messages of the application *)
  Tricky, Malformed

ASSUME MsgAssumption ==
  MaxMsg \in Nat \ {0} /\ Tricky \subseteq 1..MaxMsg /\ Malformed \subseteq 1..MaxMsg

VARIABLES
  got,     (* halves read                                                   *)
  batch,   (* msg_list: the segments of this read still to be handled       *)
  link,    (* "open", "gone" when the application has closed, or "closed"   *)
  deaf,    (* the application does not read its replies                     *)
  emitted, (* history: what send_msg_to_mobile was called with              *)
  cut,     (* history: the messages a read ended in, or just behind         *)
  failedAt (* history: the message an exception ended the loop at, or 0     *)

serverVars == <<got, batch, link, deaf, emitted, cut, failedAt>>

Msg == 1..MaxMsg

ServerInit ==
  /\ got = 0
  /\ batch = <<>>
  /\ link = "open"
  /\ deaf = FALSE
  /\ emitted = <<>>
  /\ cut = {}
  /\ failedAt = 0

-----------------------------------------------------------------------------
(* The application writes, reads its replies, and closes when it likes. *)

AppStallsOrResumes ==
  /\ link = "open"
  /\ deaf' = ~deaf
  /\ UNCHANGED <<got, batch, link, emitted, cut, failedAt>>

AppCloses ==
  /\ link = "open"
  /\ link' = "gone"
  /\ deaf' = FALSE
  /\ UNCHANGED <<got, batch, emitted, cut, failedAt>>

-----------------------------------------------------------------------------
(* _handle_client *)

MsgOf(h) == (h + 1) \div 2
First(h) == h % 2 = 1

(* msg_temp.split("idx") of the halves a+1..b: a message that is all there *)
(* is one segment, unless its payload is split too.                        *)
Segment(h, b) ==
  [msg |-> MsgOf(h),
   part |-> IF ~First(h) THEN "tail"
            ELSE IF h < b /\ MsgOf(h) \notin Tricky THEN "whole" ELSE "head"]
Starts(a, b) == {h \in (a + 1)..b : First(h) \/ h = a + 1 \/ MsgOf(h) \in Tricky}

Nth(S, n) == CHOOSE h \in S : Cardinality({g \in S : g <= h}) = n

Segments(a, b) ==
  [i \in 1..Cardinality(Starts(a, b)) |-> Segment(Nth(Starts(a, b), i), b)]

(* fault: the last of the list is taken to be incomplete and is dropped *)
ListButLast(a, b) == SubSeq(Segments(a, b), 1, Len(Segments(a, b)) - 1)
List(a, b) == Segments(a, b)

(* fault: an incomplete message stays in the buffer, and is handled as well *)
TakenAgain(b) == IF First(b) THEN b - 1 ELSE b
Taken(b) == b

Read ==
  /\ link # "closed"
  /\ batch = <<>>
  /\ \E b \in (got + 1)..(2 * MaxMsg) :
       /\ batch' = List(got, b)
       /\ got' = Taken(b)
       /\ cut' = cut \cup (IF First(b) THEN {MsgOf(b) - 1, MsgOf(b)} ELSE {})
  /\ UNCHANGED <<link, deaf, emitted, failedAt>>

(* read() returns b"": all that the application had written is read *)
Eof ==
  /\ link = "gone"
  /\ batch = <<>>
  /\ link' = "closed"
  /\ UNCHANGED <<got, batch, deaf, emitted, cut, failedAt>>

(* An exception at the first segment ends the loop; the rest is lost. *)
Fail ==
  /\ failedAt' = Head(batch).msg
  /\ link' = "closed"
  /\ batch' = <<>>
  /\ UNCHANGED <<got, deaf, emitted, cut>>

(* The application is gone when the reply to a segment is written: drain   *)
(* raises before the segment is looked at.                                 *)
ReplyFails ==
  /\ link = "gone"
  /\ batch # <<>>
  /\ Fail

Emit(n, intact, rest) ==
  /\ emitted' = Append(emitted, [msg |-> n, intact |-> intact])
  /\ batch' = rest
  /\ UNCHANGED <<got, link, deaf, cut, failedAt>>

(* A message that was read whole: dict() raises ValueError at an item      *)
(* without a colon.  When the read ends one or two letters into the next   *)
(* "idx", these are taken for the end of this message.                     *)
HandleWhole ==
  /\ link # "closed"
  /\ batch # <<>> /\ Head(batch).part = "whole"
  /\ LET n == Head(batch).msg IN
     IF n \in Malformed THEN Fail
     ELSE \/ Emit(n, TRUE, Tail(batch))
          \/ /\ Len(batch) = 2 /\ batch[2].part = "head"
             /\ Emit(n, FALSE, <<>>)

(* A tail is the message itself if the cut was right behind "idx"; the     *)
(* head was "idx" alone then, and not for the phones.                      *)
MayBeWhole(s) ==
  /\ s.part = "tail" /\ s.msg \notin Tricky \cup Malformed
  /\ \A i \in DOMAIN emitted : emitted[i].msg # s.msg

(* A piece of a message goes to the phones if there is a dst and a src in  *)
(* it (payloads may hold them too), is ignored if there is no dst, and     *)
(* raises ValueError if there is one and an item has no colon.             *)
HandlePiece ==
  /\ link # "closed"
  /\ batch # <<>> /\ Head(batch).part # "whole"
  /\ \/ \E intact \in {FALSE, MayBeWhole(Head(batch))} :
          Emit(Head(batch).msg, intact, Tail(batch))
     \/ batch' = Tail(batch) /\ UNCHANGED <<got, link, deaf, emitted, cut, failedAt>>
     \/ Fail

Handler == Read \/ Eof \/ ReplyFails \/ HandleWhole \/ HandlePiece

-----------------------------------------------------------------------------
(* Properties *)

(* The types of the loop's state and of what it emits. *)
ServerTypeOK ==
  /\ got \in 0..(2 * MaxMsg)
  /\ batch \in Seq([msg : Msg, part : {"whole", "head", "tail"}])
  /\ link \in {"open", "gone", "closed"} /\ deaf \in BOOLEAN
  /\ emitted \in Seq([msg : Msg, intact : BOOLEAN])
  /\ cut \subseteq 0..MaxMsg /\ failedAt \in 0..MaxMsg

(* However the stream is cut into reads, no answer overtakes another, and  *)
(* one goes to the phones twice only in pieces: never if any of them is    *)
(* the whole, nor if it was read whole.                                    *)
EachOnceInOrder ==
  \A i, j \in DOMAIN emitted : i < j =>
    \/ emitted[i].msg < emitted[j].msg
    \/ /\ emitted[i].msg = emitted[j].msg
       /\ emitted[i].msg \in Tricky \cup cut
       /\ ~emitted[i].intact /\ ~emitted[j].intact

(* An answer that was read is lost or altered only if a read ended inside  *)
(* it or at the first letters of the next, if it has "idx" in its payload  *)
(* or an item without a colon, or if the loop ended with an exception at   *)
(* an earlier one: the loop itself drops nothing.                          *)
LostOnlyIfCut ==
  \A n \in Msg \ (Tricky \cup Malformed \cup cut) :
    /\ 2 * n <= got
    /\ \A i \in DOMAIN batch : batch[i].msg # n
    /\ failedAt # 0 => n < failedAt
    => \E i \in DOMAIN emitted : emitted[i] = [msg |-> n, intact |-> TRUE]
=============================================================================
