-------------------------- MODULE AnswerPathProofs --------------------------
(***************************************************************************)
(* Theorems about AnswerPath, and so about UnixServer and MobileSend, for  *)
(* any number of answers, reads and phones, proved by TLAPS.               *)
(***************************************************************************)
EXTENDS AnswerPath, FiniteSetTheorems, TLAPS

-----------------------------------------------------------------------------
(* Sequences *)

(* What is left of a sequence when its head is taken. *)
LEMMA TailFacts ==
  ASSUME NEW S, NEW s \in Seq(S), s # <<>>
  PROVE  /\ Len(s) \in Nat \ {0} /\ DOMAIN s = 1..Len(s)
         /\ Head(s) = s[1] /\ Head(s) \in S
         /\ Tail(s) \in Seq(S) /\ Len(Tail(s)) = Len(s) - 1
         /\ DOMAIN Tail(s) = 1..(Len(s) - 1)
         /\ \A i \in 1..(Len(s) - 1) : Tail(s)[i] = s[i + 1]
OBVIOUS

(* A sequence with something added. *)
LEMMA AppendFacts ==
  ASSUME NEW S, NEW s \in Seq(S), NEW e \in S
  PROVE  /\ Append(s, e) \in Seq(S) /\ Append(s, e) # s
         /\ Len(s) \in Nat /\ DOMAIN s = 1..Len(s)
         /\ Len(Append(s, e)) = Len(s) + 1
         /\ DOMAIN Append(s, e) = 1..(Len(s) + 1)
         /\ Append(s, e)[Len(s) + 1] = e
         /\ \A i \in 1..Len(s) : Append(s, e)[i] = s[i]
<1>1. Len(Append(s, e)) = Len(s) + 1 /\ Len(s) \in Nat OBVIOUS
<1>2. Append(s, e) # s
  <2> DEFINE n == Len(s)
  <2>1. n + 1 # n BY <1>1
  <2>2. QED BY <1>1, <2>1
<1>3. QED BY <1>1, <1>2

-----------------------------------------------------------------------------
(* The halves of the stream *)

(* A message's first half is odd and its second even. *)
LEMMA Halves ==
  ASSUME NEW h \in Nat
  PROVE  /\ MsgOf(h) \in Nat
         /\ First(h) => h = 2 * MsgOf(h) - 1
         /\ ~First(h) => h = 2 * MsgOf(h)
BY DEF MsgOf, First

(* The elements of a set of numbers, in order: none is left out. *)
LEMMA Enumerated ==
  ASSUME NEW m \in Nat, NEW S \in SUBSET (1..m)
  PROVE  /\ Cardinality(S) \in Nat
         /\ \A i \in 1..Cardinality(S) : Nth(S, i) \in S
         /\ \A i, j \in 1..Cardinality(S) : i < j => Nth(S, i) < Nth(S, j)
         /\ \A h \in S : \E i \in 1..Cardinality(S) : Nth(S, i) = h
<1> DEFINE UpTo(h) == {g \in S : g <= h}
           rank == [h \in S |-> Cardinality(UpTo(h))]
           k == Cardinality(S)
<1>1. IsFiniteSet(S)
  <2>1. IsFiniteSet(1..m) BY FS_Interval
  <2>2. QED BY <2>1, FS_Subset
<1>2. k \in Nat BY <1>1, FS_CardinalityType
<1>3. ASSUME NEW h \in S PROVE rank[h] \in 1..k
  <2>1. UpTo(h) \in SUBSET S /\ h \in UpTo(h) OBVIOUS
  <2>2. IsFiniteSet(UpTo(h)) /\ Cardinality(UpTo(h)) <= k
    BY <1>1, <2>1, FS_Subset
  <2>3. Cardinality(UpTo(h)) \in Nat BY <2>2, FS_CardinalityType
  <2>4. Cardinality(UpTo(h)) # 0 BY <2>1, <2>2, FS_EmptySet
  <2> HIDE DEF UpTo, k
  <2>5. QED BY <1>2, <2>2, <2>3, <2>4
<1>4. ASSUME NEW g \in S, NEW h \in S, g < h PROVE rank[g] < rank[h]
  <2>1. UpTo(g) \in SUBSET UpTo(h) /\ h \in UpTo(h) /\ h \notin UpTo(g)
    <3>1. S \subseteq Int OBVIOUS
    <3>2. \A x \in S : x <= g => x <= h BY <1>4, <3>1
    <3>3. h <= h /\ ~(h <= g) BY <1>4, <3>1
    <3>4. QED BY <3>2, <3>3
  <2>2. IsFiniteSet(UpTo(h)) BY <1>1, FS_Subset
  <2>3. Cardinality(UpTo(g)) <= Cardinality(UpTo(h)) BY <2>1, <2>2, FS_Subset
  <2>4. Cardinality(UpTo(g)) # Cardinality(UpTo(h)) BY <2>1, <2>2, FS_Subset
  <2>5. rank[g] \in 1..k /\ rank[h] \in 1..k BY <1>3
  <2> HIDE DEF UpTo, k
  <2>6. QED BY <1>2, <2>3, <2>4, <2>5
<1> HIDE DEF rank
<1>5. \A g, h \in S : rank[g] = rank[h] => g = h
  <2> SUFFICES ASSUME NEW g \in S, NEW h \in S, g # h PROVE rank[g] # rank[h]
    OBVIOUS
  <2>1. g < h \/ h < g OBVIOUS
  <2>2. rank[g] \in 1..k /\ rank[h] \in 1..k BY <1>3
  <2> HIDE DEF k
  <2>3. QED BY <1>2, <1>4, <2>1, <2>2
<1>6. \A i \in 1..k : \E h \in S : rank[h] = i
  <2>1. rank \in [S -> 1..k] BY <1>3 DEF rank
  <2>2. rank \in Injection(S, 1..k) BY <1>5, <2>1 DEF Injection, IsInjective
  <2>3. IsFiniteSet(1..k) /\ Cardinality(1..k) = k BY <1>2, FS_Interval
  <2>4. rank \in Surjection(S, 1..k) BY <2>2, <2>3, FS_Injection
  <2>5. QED BY <2>4 DEF Surjection
<1>7. \A i : Nth(S, i) = CHOOSE h \in S : rank[h] = i
  BY DEF Nth, rank
<1>8. \A i \in 1..k : Nth(S, i) \in S /\ rank[Nth(S, i)] = i
  BY <1>6, <1>7
<1>9. \A i, j \in 1..k : i < j => Nth(S, i) < Nth(S, j)
  <2> SUFFICES ASSUME NEW i \in 1..k, NEW j \in 1..k, i < j,
                      ~(Nth(S, i) < Nth(S, j))
               PROVE  FALSE
    OBVIOUS
  <2>1. Nth(S, i) \in 1..m /\ Nth(S, j) \in 1..m BY <1>8
  <2>2. Nth(S, j) < Nth(S, i) \/ Nth(S, j) = Nth(S, i) BY <2>1
  <2>3. CASE Nth(S, j) < Nth(S, i)
    <3>1. rank[Nth(S, j)] < rank[Nth(S, i)] BY <1>4, <1>8, <2>3
    <3>2. j < i BY <1>8, <3>1
    <3> HIDE DEF k
    <3>3. QED BY <1>2, <3>2
  <2>4. CASE Nth(S, j) = Nth(S, i)
    <3>1. i = j BY <1>8, <2>4
    <3> HIDE DEF k
    <3>2. QED BY <1>2, <3>1
  <2>5. QED BY <2>2, <2>3, <2>4
<1>10. \A h \in S : Nth(S, rank[h]) = h
  BY <1>3, <1>5, <1>8
<1>11. QED BY <1>2, <1>3, <1>8, <1>9, <1>10

(* What the server makes of the halves a+1..b: segments in the order of    *)
(* their messages, one of them where a message begins.  One that is not    *)
(* whole is of a message cut at a or b, or has "idx" in its payload.       *)
LEMMA SegmentsOf ==
  ASSUME NEW a \in Nat, NEW b \in (a + 1)..(2 * MaxMsg)
  PROVE  LET s == Segments(a, b) IN
         /\ s \in Seq([msg : Msg, part : {"whole", "head", "tail"}])
         /\ \A j \in DOMAIN s :
              /\ MsgOf(a) <= s[j].msg /\ s[j].msg <= MsgOf(b)
              /\ s[j].part = "whole" \/ ~First(a) => MsgOf(a) # s[j].msg
              /\ s[j].part # "head" => 2 * s[j].msg <= b
              /\ \/ s[j].part = "whole" \/ s[j].msg \in Tricky
                 \/ First(a) /\ s[j].msg = MsgOf(a)
                 \/ First(b) /\ s[j].msg = MsgOf(b)
         /\ \A i, j \in DOMAIN s : i < j =>
              /\ s[i].msg <= s[j].msg
              /\ s[i].part # "head" \/ s[j].part = "whole" => s[i].msg # s[j].msg
         /\ Len(s) >= 2 /\ s[Len(s)].part = "head" =>
              First(b) /\ s[Len(s) - 1].msg = MsgOf(b) - 1
         /\ \A n \in Msg : a < 2 * n - 1 /\ 2 * n - 1 <= b =>
              \E j \in DOMAIN s : s[j].msg = n
<1> DEFINE S == Starts(a, b)
           k == Cardinality(S)
           q(i) == Nth(S, i)
           s == Segments(a, b)
<1>0. MaxMsg \in Nat \ {0} /\ b \in Nat /\ a < b /\ b <= 2 * MaxMsg
  BY MsgAssumption
<1>1. S \in SUBSET ((a + 1)..b) BY DEF Starts
<1>2. /\ k \in Nat
      /\ \A i \in 1..k : q(i) \in S
      /\ \A i, j \in 1..k : i < j => q(i) < q(j)
      /\ \A h \in S : \E i \in 1..k : q(i) = h
  <2>1. S \in SUBSET (1..b) BY <1>0, <1>1
  <2> HIDE DEF S
  <2>2. QED BY <1>0, <2>1, Enumerated
<1>3. s = [i \in 1..k |-> Segment(q(i), b)] BY DEF Segments
<1> HIDE DEF k, q, s
<1>4. DOMAIN s = 1..k /\ \A i \in 1..k : s[i] = Segment(q(i), b) BY <1>3
<1>5. \A h \in (a + 1)..b : h \in S <=> First(h) \/ h = a + 1 \/ MsgOf(h) \in Tricky
  BY DEF Starts
<1> HIDE DEF S
<1>6. ASSUME NEW h \in (a + 1)..b
      PROVE  /\ h \in Nat /\ MsgOf(h) \in Msg
             /\ MsgOf(a) <= MsgOf(h) /\ MsgOf(h) <= MsgOf(b)
             /\ First(h) \/ ~First(a) => MsgOf(a) # MsgOf(h)
             /\ First(h) => h = 2 * MsgOf(h) - 1
             /\ ~First(h) => h = 2 * MsgOf(h)
  <2>1. h \in Nat /\ a < h /\ h <= b BY <1>0
  <2> DEFINE x == MsgOf(a)
             y == MsgOf(h)
             z == MsgOf(b)
  <2>2. /\ x \in Nat /\ (a = 2 * x - 1 \/ a = 2 * x)
        /\ y \in Nat /\ (h = 2 * y - 1 \/ h = 2 * y)
        /\ z \in Nat /\ (b = 2 * z - 1 \/ b = 2 * z)
        /\ First(h) => h = 2 * y - 1
        /\ ~First(h) => h = 2 * y
        /\ ~First(a) => a = 2 * x
    BY <1>0, <2>1, Halves
  <2> HIDE DEF x, y, z
  <2>3. y \in 1..MaxMsg /\ x <= y /\ y <= z BY <1>0, <2>1, <2>2
  <2>4. h = 2 * y - 1 \/ a = 2 * x => x # y BY <1>0, <2>1, <2>2
  <2>5. QED BY <2>1, <2>2, <2>3, <2>4 DEF x, y, z, Msg
<1>7. ASSUME NEW j \in 1..k
      PROVE  /\ q(j) \in (a + 1)..b /\ q(j) \in S /\ s[j].msg = MsgOf(q(j))
             /\ s[j].part \in {"whole", "head", "tail"}
             /\ s[j] \in [msg : Msg, part : {"whole", "head", "tail"}]
             /\ s[j].part = "whole" <=> First(q(j)) /\ q(j) < b /\ MsgOf(q(j)) \notin Tricky
             /\ s[j].part = "tail" <=> ~First(q(j))
             /\ s[j].part = "head" => First(q(j)) /\ (q(j) < b => MsgOf(q(j)) \in Tricky)
  <2>1. q(j) \in S /\ q(j) \in (a + 1)..b BY <1>1, <1>2
  <2>2. MsgOf(q(j)) \in Msg BY <1>6, <2>1
  <2>3. s[j] = Segment(q(j), b) BY <1>4
  <2> DEFINE h == q(j)
  <2> HIDE DEF h
  <2>4. QED BY <2>1, <2>2, <2>3 DEF Segment, h
<1>8. s \in Seq([msg : Msg, part : {"whole", "head", "tail"}]) /\ Len(s) = k
  BY <1>2, <1>3, <1>4, <1>7
<1>9. ASSUME NEW j \in 1..k
      PROVE  /\ MsgOf(a) <= s[j].msg /\ s[j].msg <= MsgOf(b)
             /\ s[j].part = "whole" \/ ~First(a) => MsgOf(a) # s[j].msg
             /\ s[j].part # "head" => 2 * s[j].msg <= b
             /\ \/ s[j].part = "whole" \/ s[j].msg \in Tricky
                \/ First(a) /\ s[j].msg = MsgOf(a)
                \/ First(b) /\ s[j].msg = MsgOf(b)
  <2> DEFINE h == q(j)
             y == MsgOf(h)
  <2>1. h \in (a + 1)..b /\ s[j].msg = y BY <1>7
  <2>2. s[j].part # "head" => 2 * y <= b
    <3>1. /\ h \in Nat /\ y \in Nat
          /\ First(h) => h = 2 * y - 1
          /\ ~First(h) => h = 2 * y
      BY <1>6, <2>1, Halves
    <3>2. s[j].part # "head" => ~First(h) \/ h < b BY <1>7
    <3> HIDE DEF h, y
    <3>3. QED BY <1>0, <2>1, <3>1, <3>2
  <2> HIDE DEF h, y
  <2>3. /\ MsgOf(a) <= y /\ y <= MsgOf(b)
        /\ s[j].part = "whole" \/ ~First(a) => MsgOf(a) # y
    BY <1>6, <1>7, <2>1 DEF h, y
  <2>4. \/ s[j].part = "whole" \/ y \in Tricky
        \/ First(a) /\ y = MsgOf(a)
        \/ First(b) /\ y = MsgOf(b)
    <3>1. CASE First(h) BY <1>0, <1>7, <2>1, <3>1 DEF h, y
    <3>2. CASE ~First(h) /\ h = a + 1
      <4>1. First(a) /\ MsgOf(a) = MsgOf(a + 1) BY <3>2 DEF First, MsgOf
      <4>2. QED BY <3>2, <4>1 DEF y
    <3>3. CASE ~First(h) /\ h # a + 1 BY <1>5, <1>7, <3>3 DEF h, y
    <3>4. QED BY <3>1, <3>2, <3>3
  <2>5. QED BY <2>1, <2>2, <2>3, <2>4
<1>10. ASSUME NEW i \in 1..k, NEW j \in 1..k, i < j
       PROVE  /\ s[i].msg <= s[j].msg
              /\ s[i].part # "head" \/ s[j].part = "whole" => s[i].msg # s[j].msg
  <2> DEFINE g == q(i)
             h == q(j)
             x == MsgOf(g)
             y == MsgOf(h)
  <2>1. g \in (a + 1)..b /\ h \in (a + 1)..b /\ g < h BY <1>2, <1>7, <1>10
  <2>2. /\ x \in Nat /\ (First(g) => g = 2 * x - 1) /\ (~First(g) => g = 2 * x)
        /\ y \in Nat /\ (First(h) => h = 2 * y - 1) /\ (~First(h) => h = 2 * y)
    BY <1>6, <2>1, Halves
  <2>3. s[i].msg = x /\ s[j].msg = y BY <1>7
  <2>4. /\ s[i].part \in {"whole", "head", "tail"}
        /\ s[i].part = "whole" => First(g) /\ x \notin Tricky
        /\ s[i].part = "tail" => ~First(g)
    BY <1>7
  <2>5. s[j].part = "whole" => First(h) BY <1>7
  <2>6. First(h) \/ h = a + 1 \/ y \in Tricky BY <1>5, <1>7
  <2> HIDE DEF g, h, x, y
  <2>7. x <= y /\ (First(h) \/ ~First(g) => x # y) BY <1>0, <2>1, <2>2
  <2>8. h # a + 1 BY <1>0, <2>1
  <2>9. QED BY <2>3, <2>4, <2>5, <2>6, <2>7, <2>8
<1>11. ASSUME k >= 2, s[k].part = "head"
       PROVE  First(b) /\ s[k - 1].msg = MsgOf(b) - 1
  <2>1. k \in 1..k /\ k - 1 \in 1..k BY <1>2, <1>11
  <2> DEFINE h == q(k)
             g == q(k - 1)
  <2>2. /\ First(h) /\ (h < b => MsgOf(h) \in Tricky)
        /\ h \in (a + 1)..b /\ g \in (a + 1)..b
        /\ s[k - 1].msg = MsgOf(g)
    BY <1>7, <1>11, <2>1
  <2>3. g < h BY <1>2, <2>1
  <2>4. \A t \in S : t <= h
    <3> SUFFICES ASSUME NEW t \in S PROVE t <= h OBVIOUS
    <3> PICK i \in 1..k : q(i) = t BY <1>2
    <3>1. i = k \/ i < k BY <1>2
    <3>2. i < k => q(i) < h BY <1>2, <2>1
    <3>3. q(i) \in (a + 1)..b BY <1>7
    <3> HIDE DEF h
    <3>4. QED BY <1>0, <2>2, <3>1, <3>2, <3>3 DEF h
  <2>5. \A t \in S : t < h => t <= g
    <3> SUFFICES ASSUME NEW t \in S, t < h PROVE t <= g OBVIOUS
    <3> PICK i \in 1..k : q(i) = t BY <1>2
    <3>1. i # k
      <4> SUFFICES ASSUME i = k PROVE FALSE OBVIOUS
      <4>1. h < h OBVIOUS
      <4> HIDE DEF h
      <4>2. QED BY <1>0, <2>2, <4>1
    <3>2. i = k - 1 \/ i < k - 1 BY <1>2, <3>1
    <3>3. i < k - 1 => q(i) < g BY <1>2, <2>1
    <3>4. q(i) \in (a + 1)..b BY <1>7
    <3> HIDE DEF g
    <3>5. QED BY <1>0, <2>2, <3>2, <3>3, <3>4 DEF g
  <2> DEFINE x == MsgOf(g)
             y == MsgOf(h)
  <2>6. /\ h = 2 * y - 1 /\ y \in Nat
        /\ x \in Nat /\ (g = 2 * x - 1 \/ g = 2 * x)
    BY <1>6, <2>2, Halves
  <2>7. h = b
    <3> SUFFICES ASSUME h < b PROVE FALSE BY <1>0, <2>2
    <3>1. h + 1 \in (a + 1)..b BY <1>0, <2>2
    <3>2. MsgOf(h + 1) = MsgOf(h) BY <1>0, <2>2 DEF MsgOf, First
    <3>3. h + 1 \in S BY <1>5, <2>2, <3>1, <3>2
    <3>4. h + 1 <= h BY <2>4, <3>3
    <3> HIDE DEF h
    <3>5. QED BY <1>0, <2>2, <3>4
  <2>8. x = y - 1
    <3>1. CASE h - 2 \in (a + 1)..b
      <4>1. First(h - 2) BY <1>0, <2>2, <3>1 DEF First
      <4>2. h - 2 \in S BY <1>5, <3>1, <4>1
      <4>3. h - 2 <= g BY <1>0, <2>2, <2>5, <4>2
      <4> HIDE DEF g, h, x, y
      <4>4. QED BY <1>0, <2>2, <2>3, <2>6, <4>3
    <3>2. CASE h - 2 \notin (a + 1)..b
      <4> HIDE DEF g, h, x, y
      <4>1. QED BY <1>0, <2>2, <2>3, <2>6, <3>2
    <3>3. QED BY <3>1, <3>2
  <2>9. QED BY <2>2, <2>7, <2>8
<1>12. ASSUME NEW n \in Msg, a < 2 * n - 1, 2 * n - 1 <= b
       PROVE  \E j \in 1..k : s[j].msg = n
  <2>1. n \in Nat \ {0} /\ 2 * n - 1 \in (a + 1)..b BY <1>0, <1>12 DEF Msg
  <2>2. First(2 * n - 1) /\ MsgOf(2 * n - 1) = n BY <2>1 DEF First, MsgOf
  <2>3. 2 * n - 1 \in S BY <1>5, <2>1, <2>2
  <2> PICK j \in 1..k : q(j) = 2 * n - 1 BY <1>2, <2>3
  <2>4. s[j].msg = n BY <1>7, <2>2
  <2>5. QED BY <2>4
<1>13. QED BY <1>4, <1>8, <1>9, <1>10, <1>11, <1>12 DEF s

-----------------------------------------------------------------------------
(* The inductive invariant of UnixServer *)

(* A message that a read ended inside of is in cut. *)
CutInv == First(got) => MsgOf(got) \in cut

(* The segments of a read are in the order of their messages, and one that *)
(* was read whole has no other segment, nor has a tail one behind it;      *)
BatchOrder ==
  \A i, j \in DOMAIN batch : i < j =>
    /\ batch[i].msg <= batch[j].msg
    /\ batch[i].part # "head" \/ batch[j].part = "whole" => batch[i].msg # batch[j].msg

(* ... what was handed on comes before them, ...                           *)
EmittedFirst ==
  \A k \in DOMAIN emitted : \A j \in DOMAIN batch :
    /\ emitted[k].msg <= batch[j].msg
    /\ batch[j].part = "whole" => emitted[k].msg # batch[j].msg

(* ... and all of it has been read, to the end if it is no head.           *)
Reach ==
  /\ \A k \in DOMAIN emitted : emitted[k].msg <= MsgOf(got)
  /\ \A j \in DOMAIN batch :
       batch[j].msg <= MsgOf(got) /\ (batch[j].part # "head" => 2 * batch[j].msg <= got)

(* Nothing of a message that went to the phones whole is still to come.    *)
IntactInv ==
  \A k \in DOMAIN emitted : emitted[k].intact =>
    /\ 2 * emitted[k].msg <= got
    /\ \A j \in DOMAIN batch : batch[j].msg # emitted[k].msg

(* After an exception the loop has ended.                                  *)
FailInv == failedAt # 0 => link = "closed"

(* What is not whole was cut, or has "idx" in its payload, and so has the  *)
(* message that the letters of a cut "idx" may be taken for the end of.    *)
PieceInv ==
  /\ \A j \in DOMAIN batch :
       batch[j].part = "whole" \/ batch[j].msg \in Tricky \cup cut
  /\ Len(batch) >= 2 /\ batch[Len(batch)].part = "head"
       => batch[Len(batch) - 1].msg \in Tricky \cup cut

ServerInv ==
  /\ ServerTypeOK /\ CutInv /\ BatchOrder /\ EmittedFirst /\ Reach /\ PieceInv
  /\ IntactInv /\ FailInv /\ EachOnceInOrder /\ LostOnlyIfCut

Piece == [msg : Msg, part : {"whole", "head", "tail"}]
Answer == [msg : Msg, intact : BOOLEAN]

(* What follows from the types, for the provers. *)
LEMMA ServerTypes ==
  ASSUME ServerTypeOK
  PROVE  /\ MaxMsg \in Nat \ {0} /\ got \in Nat /\ MsgOf(got) \in Nat
         /\ batch \in Seq(Piece) /\ emitted \in Seq(Answer)
         /\ Len(batch) \in Nat /\ DOMAIN batch = 1..Len(batch)
         /\ Len(emitted) \in Nat /\ DOMAIN emitted = 1..Len(emitted)
         /\ \A j \in DOMAIN batch : batch[j] \in Piece /\ batch[j].msg \in Nat
         /\ \A k \in DOMAIN emitted : emitted[k] \in Answer /\ emitted[k].msg \in Nat
<1>1. MaxMsg \in Nat \ {0} /\ got \in Nat BY MsgAssumption DEF ServerTypeOK
<1>2. batch \in Seq(Piece) /\ emitted \in Seq(Answer)
  BY DEF ServerTypeOK, Piece, Answer
<1>3. \A p \in Piece : p.msg \in Nat BY DEF Piece, Msg
<1>4. \A e \in Answer : e.msg \in Nat BY DEF Answer, Msg
<1>5. MsgOf(got) \in Nat BY <1>1, Halves
<1>6. QED BY <1>1, <1>2, <1>3, <1>4, <1>5

(* The list without its head. *)
LEMMA TailKeeps ==
  ASSUME ServerInv, batch # <<>>, batch' = Tail(batch), UNCHANGED <<got, cut>>
  PROVE  /\ batch' \in Seq(Piece) /\ BatchOrder' /\ PieceInv'
         /\ \A j \in DOMAIN batch' : /\ j + 1 \in DOMAIN batch
                                     /\ batch'[j] = batch[j + 1]
         /\ \A j \in DOMAIN batch : j = 1 \/ (j - 1 \in DOMAIN batch' /\ batch'[j - 1] = batch[j])
<1> USE DEF ServerInv
<1> DEFINE len == Len(batch)
<1>1. batch \in Seq(Piece) /\ len \in Nat /\ DOMAIN batch = 1..len BY ServerTypes
<1>2. /\ len \in Nat \ {0}
      /\ batch' \in Seq(Piece) /\ Len(batch') = len - 1
      /\ DOMAIN batch' = 1..(len - 1)
      /\ \A j \in 1..(len - 1) : batch'[j] = batch[j + 1]
  BY <1>1, TailFacts
<1> HIDE DEF len
<1>3. \A j \in DOMAIN batch' : j + 1 \in DOMAIN batch /\ batch'[j] = batch[j + 1]
  BY <1>1, <1>2
<1>4. \A j \in DOMAIN batch : j = 1 \/ (j - 1 \in DOMAIN batch' /\ batch'[j - 1] = batch[j])
  <2>1. ASSUME NEW j \in 1..len, j # 1
        PROVE  j - 1 \in 1..(len - 1) /\ batch'[j - 1] = batch[j]
    <3>1. j - 1 \in 1..(len - 1) /\ (j - 1) + 1 = j BY <1>2, <2>1
    <3>2. QED BY <1>2, <3>1
  <2>2. ASSUME NEW j \in DOMAIN batch, j # 1
        PROVE  j - 1 \in DOMAIN batch' /\ batch'[j - 1] = batch[j]
    <3>1. j \in 1..len BY <1>1
    <3>2. QED BY <1>2, <2>1, <2>2, <3>1
  <2>3. QED BY <2>2
<1>5. BatchOrder'
  <2> SUFFICES ASSUME NEW i \in DOMAIN batch', NEW j \in DOMAIN batch', i < j
               PROVE  /\ batch'[i].msg <= batch'[j].msg
                      /\ batch'[i].part # "head" \/ batch'[j].part = "whole"
                           => batch'[i].msg # batch'[j].msg
    BY DEF BatchOrder
  <2>1. i + 1 < j + 1 BY <1>2
  <2>2. QED BY <1>3, <2>1 DEF BatchOrder
<1>6. PieceInv'
  <2>1. \A j \in DOMAIN batch' :
          batch'[j].part = "whole" \/ batch'[j].msg \in Tricky \cup cut
    BY <1>3 DEF PieceInv
  <2>2. ASSUME Len(batch') >= 2, batch'[Len(batch')].part = "head"
        PROVE  batch'[Len(batch') - 1].msg \in Tricky \cup cut
    <3>1. /\ len >= 3 /\ len - 1 \in 1..(len - 1) /\ len - 2 \in 1..(len - 1)
          /\ (len - 1) + 1 = len /\ (len - 2) + 1 = len - 1
          /\ (len - 1) - 1 = len - 2
      BY <1>2, <2>2
    <3>2. batch'[len - 1] = batch[len] /\ batch'[len - 2] = batch[len - 1]
      BY <1>2, <3>1
    <3>3. len >= 2 BY <1>1, <3>1
    <3>4. QED BY <1>2, <2>2, <3>1, <3>2, <3>3 DEF PieceInv, len
  <2>3. QED BY <2>1, <2>2 DEF PieceInv
<1>7. QED BY <1>2, <1>3, <1>4, <1>5, <1>6

(* What is handed on comes after all that was. *)
LEMMA EmitKeeps ==
  ASSUME ServerInv, batch # <<>>, NEW intact \in BOOLEAN,
         Emit(Head(batch).msg, intact, Tail(batch)) \/ Emit(Head(batch).msg, intact, <<>>),
         intact => /\ Head(batch).part # "head"
                   /\ \A k \in DOMAIN emitted : emitted[k].msg # Head(batch).msg
  PROVE  /\ batch' \in Seq(Piece) /\ emitted' \in Seq(Answer)
         /\ BatchOrder' /\ EmittedFirst' /\ Reach' /\ PieceInv'
         /\ IntactInv' /\ EachOnceInOrder'
         /\ emitted'[Len(emitted) + 1] = [msg |-> Head(batch).msg, intact |-> intact]
         /\ Len(emitted) + 1 \in DOMAIN emitted'
         /\ \A k \in DOMAIN emitted : k \in DOMAIN emitted' /\ emitted'[k] = emitted[k]
<1> USE DEF ServerInv
<1> DEFINE n == Head(batch).msg
           e == [msg |-> n, intact |-> intact]
           len == Len(emitted)
<1>1. /\ batch \in Seq(Piece) /\ emitted \in Seq(Answer) /\ MsgOf(got) \in Nat
      /\ Len(batch) \in Nat /\ DOMAIN batch = 1..Len(batch)
      /\ \A j \in DOMAIN batch : batch[j] \in Piece /\ batch[j].msg \in Nat
      /\ \A k \in DOMAIN emitted : emitted[k] \in Answer /\ emitted[k].msg \in Nat
  BY ServerTypes
<1>2. /\ 1 \in DOMAIN batch /\ Head(batch) = batch[1] /\ n \in Nat /\ n \in Msg
  <2>1. Len(batch) \in Nat \ {0} /\ Head(batch) = batch[1] BY <1>1, TailFacts
  <2>2. 1 \in DOMAIN batch BY <1>1, <2>1
  <2>3. QED BY <1>1, <2>1, <2>2 DEF Piece
<1>3. e \in Answer BY <1>2 DEF Answer
<1>4. /\ emitted' = Append(emitted, e) /\ UNCHANGED <<got, link, cut>>
      /\ batch' = Tail(batch) \/ batch' = <<>>
  BY DEF Emit
<1> HIDE DEF e
<1>5. /\ emitted' \in Seq(Answer) /\ len \in Nat
      /\ DOMAIN emitted = 1..len /\ DOMAIN emitted' = 1..(len + 1)
      /\ emitted'[len + 1] = e
      /\ \A k \in 1..len : emitted'[k] = emitted[k]
  BY <1>1, <1>3, <1>4, AppendFacts
<1> HIDE DEF len
<1>6. \A k \in 1..len : emitted[k].msg <= n
  BY <1>1, <1>2, <1>5 DEF EmittedFirst
<1>7. ASSUME NEW k \in 1..(len + 1)
      PROVE  emitted'[k].msg \in Nat /\ emitted'[k].msg <= n
  <2>1. k \in 1..len \/ k = len + 1 BY <1>5
  <2>2. CASE k \in 1..len
    <3>1. emitted'[k].msg = emitted[k].msg /\ emitted[k].msg \in Nat BY <1>1, <1>5, <2>2
    <3>2. emitted[k].msg <= n /\ n \in Nat BY <1>2, <1>6, <2>2
    <3> HIDE DEF n
    <3>3. QED BY <3>1, <3>2
  <2>3. CASE k = len + 1
    <3>1. emitted'[k].msg = n BY <1>5, <2>3 DEF e
    <3>2. n \in Nat BY <1>2
    <3> HIDE DEF n
    <3>3. QED BY <3>1, <3>2
  <2>4. QED BY <2>1, <2>2, <2>3
<1>8. EachOnceInOrder'
  <2> SUFFICES ASSUME NEW i \in 1..(len + 1), NEW j \in 1..(len + 1), i < j
               PROVE  \/ emitted'[i].msg < emitted'[j].msg
                      \/ /\ emitted'[i].msg = emitted'[j].msg
                         /\ emitted'[i].msg \in Tricky \cup cut
                         /\ ~emitted'[i].intact /\ ~emitted'[j].intact
    BY <1>4, <1>5 DEF EachOnceInOrder
  <2>1. i \in 1..len /\ (j \in 1..len \/ j = len + 1) BY <1>5
  <2>2. CASE j \in 1..len BY <1>5, <2>1, <2>2 DEF EachOnceInOrder
  <2>3. CASE j = len + 1
    <3>1. emitted'[i] = emitted[i] /\ emitted'[j] = e BY <1>5, <2>1, <2>3
    <3>2. emitted[i].msg < n \/ emitted[i].msg = n
      <4>1. emitted[i].msg \in Nat /\ emitted[i].msg <= n /\ n \in Nat
        BY <1>1, <1>2, <1>5, <1>6, <2>1
      <4> HIDE DEF n
      <4>2. QED BY <4>1
    <3>3. ASSUME emitted[i].msg = n
          PROVE  n \in Tricky \cup cut /\ ~emitted[i].intact /\ ~intact
      <4>1. i \in DOMAIN emitted BY <1>5, <2>1
      <4>2. batch[1].part # "whole" /\ ~emitted[i].intact
        BY <1>2, <3>3, <4>1 DEF EmittedFirst, IntactInv
      <4>3. n \in Tricky \cup cut BY <1>2, <4>2 DEF PieceInv
      <4>4. QED BY <3>3, <4>1, <4>2, <4>3
    <3>4. e.msg = n /\ e.intact = intact BY DEF e
    <3>5. QED BY <3>1, <3>2, <3>3, <3>4
  <2>4. QED BY <2>1, <2>2, <2>3
<1>9. ASSUME NEW j \in DOMAIN batch'
      PROVE  \E i \in DOMAIN batch : i > 1 /\ batch'[j] = batch[i]
  <2>1. batch' = Tail(batch) BY <1>4, <1>9
  <2>2. j + 1 \in DOMAIN batch /\ batch'[j] = batch[j + 1]
    BY <1>4, <2>1, TailKeeps
  <2>3. j + 1 > 1
    <3>1. batch' \in Seq(Piece) BY <1>4, <2>1, TailKeeps
    <3>2. j \in Nat \ {0} BY <3>1
    <3>3. QED BY <3>2
  <2>4. QED BY <2>2, <2>3
<1>10. ASSUME NEW j \in DOMAIN batch'
       PROVE  /\ batch'[j].msg \in Nat /\ n <= batch'[j].msg /\ batch'[j].msg <= MsgOf(got)
              /\ batch'[j].part # "head" => 2 * batch'[j].msg <= got
              /\ batch'[j].part = "whole" \/ Head(batch).part # "head" => n # batch'[j].msg
  <2> PICK i \in DOMAIN batch : i > 1 /\ batch'[j] = batch[i] BY <1>9
  <2>1. 1 < i BY <1>1
  <2>2. QED BY <1>1, <1>2, <2>1 DEF BatchOrder, Reach
<1>11. EmittedFirst'
  <2> SUFFICES ASSUME NEW k \in 1..(len + 1), NEW j \in DOMAIN batch'
               PROVE  /\ emitted'[k].msg <= batch'[j].msg
                      /\ batch'[j].part = "whole" => emitted'[k].msg # batch'[j].msg
    BY <1>5 DEF EmittedFirst
  <2>1. k \in 1..len \/ k = len + 1 BY <1>5
  <2>2. n \in Nat BY <1>2
  <2>3. k \in 1..len => /\ emitted'[k].msg <= n
                        /\ batch'[j].part = "whole" => emitted'[k].msg # batch'[j].msg
    <3> SUFFICES ASSUME k \in 1..len
                 PROVE  /\ emitted'[k].msg <= n
                        /\ batch'[j].part = "whole" => emitted'[k].msg # batch'[j].msg
      OBVIOUS
    <3>1. emitted'[k] = emitted[k] /\ k \in DOMAIN emitted BY <1>5
    <3> PICK i \in DOMAIN batch : i > 1 /\ batch'[j] = batch[i] BY <1>9
    <3>2. QED BY <1>6, <3>1 DEF EmittedFirst
  <2>4. k = len + 1 => emitted'[k].msg = n BY <1>5 DEF e
  <2>5. emitted'[k].msg \in Nat BY <1>7
  <2> DEFINE x == emitted'[k].msg
             y == batch'[j].msg
  <2> HIDE DEF n
  <2>6. /\ x \in Nat /\ n \in Nat /\ y \in Nat /\ n <= y
        /\ x <= n
        /\ batch'[j].part = "whole" => x # y
    <3>1. y \in Nat /\ n <= y /\ (batch'[j].part = "whole" => n # y) BY <1>10
    <3>2. x <= n BY <1>7
    <3>3. batch'[j].part = "whole" => x # y BY <2>1, <2>3, <2>4, <3>1
    <3>4. QED BY <2>2, <2>5, <3>1, <3>2, <3>3
  <2> HIDE DEF x, y
  <2>7. x <= y /\ (batch'[j].part = "whole" => x # y) BY <2>6
  <2>8. QED BY <2>7 DEF x, y
<1>12. Reach'
  <2>1. n <= MsgOf(got) BY <1>2 DEF Reach
  <2>2. \A k \in 1..(len + 1) : emitted'[k].msg <= MsgOf(got)
    <3> SUFFICES ASSUME NEW k \in 1..(len + 1) PROVE emitted'[k].msg <= MsgOf(got)
      OBVIOUS
    <3> DEFINE x == emitted'[k].msg
               z == MsgOf(got)
    <3>1. x \in Nat /\ x <= n BY <1>7
    <3>2. n \in Nat /\ z \in Nat BY <1>1, <1>2
    <3> HIDE DEF n, x, z
    <3>3. x <= z BY <2>1, <3>1, <3>2 DEF z
    <3>4. QED BY <3>3 DEF x, z
  <2>3. got' = got BY <1>4
  <2>4. QED BY <1>5, <1>10, <2>2, <2>3 DEF Reach
<1>13. batch' \in Seq(Piece) /\ BatchOrder' /\ PieceInv'
  <2>1. CASE batch' = Tail(batch) BY <1>4, <2>1, TailKeeps
  <2>2. CASE batch' = <<>> BY <2>2 DEF BatchOrder, PieceInv
  <2>3. QED BY <1>4, <2>1, <2>2
<1>14. IntactInv'
  <2> SUFFICES ASSUME NEW k \in 1..(len + 1), emitted'[k].intact
               PROVE  /\ 2 * emitted'[k].msg <= got
                      /\ \A j \in DOMAIN batch' : batch'[j].msg # emitted'[k].msg
    BY <1>4, <1>5 DEF IntactInv
  <2>1. k \in 1..len \/ k = len + 1 BY <1>5
  <2>2. CASE k \in 1..len
    <3>1. emitted'[k] = emitted[k] /\ k \in DOMAIN emitted BY <1>5, <2>2
    <3>2. QED BY <1>9, <3>1 DEF IntactInv
  <2>3. CASE k = len + 1
    <3>1. emitted'[k].msg = n /\ intact BY <1>5, <2>3 DEF e
    <3>2. Head(batch).part # "head" BY <3>1
    <3>3. 2 * n <= got BY <1>2, <3>2 DEF Reach
    <3>4. \A j \in DOMAIN batch' : batch'[j].msg # n BY <1>10, <3>2
    <3>5. QED BY <3>1, <3>3, <3>4
  <2>4. QED BY <2>1, <2>2, <2>3
<1>15. QED BY <1>5, <1>8, <1>11, <1>12, <1>13, <1>14 DEF e, len

(* read() returns: the segments come after all that was handed on. *)
LEMMA ReadKeeps ==
  ASSUME ServerInv, Read
  PROVE  ServerInv'
<1> USE DEF ServerInv
<1>1. /\ MaxMsg \in Nat \ {0} /\ got \in Nat /\ MsgOf(got) \in Nat
      /\ emitted \in Seq(Answer) /\ Len(emitted) \in Nat
      /\ DOMAIN emitted = 1..Len(emitted)
      /\ \A k \in DOMAIN emitted : emitted[k] \in Answer /\ emitted[k].msg \in Nat
  BY ServerTypes
<1> PICK b \in (got + 1)..(2 * MaxMsg) :
      /\ batch' = Segments(got, b) /\ got' = b
      /\ cut' = cut \cup (IF First(b) THEN {MsgOf(b) - 1, MsgOf(b)} ELSE {})
  BY DEF Read, List, Taken
<1>2. batch = <<>> /\ UNCHANGED <<link, deaf, emitted, failedAt>> BY DEF Read
<1>3. /\ batch' \in Seq(Piece)
      /\ \A j \in DOMAIN batch' :
           /\ MsgOf(got) <= batch'[j].msg /\ batch'[j].msg <= MsgOf(b)
           /\ batch'[j].part = "whole" \/ ~First(got) => MsgOf(got) # batch'[j].msg
           /\ batch'[j].part # "head" => 2 * batch'[j].msg <= b
           /\ \/ batch'[j].part = "whole" \/ batch'[j].msg \in Tricky
              \/ First(got) /\ batch'[j].msg = MsgOf(got)
              \/ First(b) /\ batch'[j].msg = MsgOf(b)
      /\ BatchOrder'
      /\ Len(batch') >= 2 /\ batch'[Len(batch')].part = "head" =>
           First(b) /\ batch'[Len(batch') - 1].msg = MsgOf(b) - 1
      /\ \A n \in Msg : got < 2 * n - 1 /\ 2 * n - 1 <= b =>
           \E j \in DOMAIN batch' : batch'[j].msg = n
  <2> DEFINE s == Segments(got, b)
  <2>1. /\ s \in Seq([msg : Msg, part : {"whole", "head", "tail"}])
        /\ \A j \in DOMAIN s :
             /\ MsgOf(got) <= s[j].msg /\ s[j].msg <= MsgOf(b)
             /\ s[j].part = "whole" \/ ~First(got) => MsgOf(got) # s[j].msg
             /\ s[j].part # "head" => 2 * s[j].msg <= b
             /\ \/ s[j].part = "whole" \/ s[j].msg \in Tricky
                \/ First(got) /\ s[j].msg = MsgOf(got)
                \/ First(b) /\ s[j].msg = MsgOf(b)
        /\ \A i, j \in DOMAIN s : i < j =>
             /\ s[i].msg <= s[j].msg
             /\ s[i].part # "head" \/ s[j].part = "whole" => s[i].msg # s[j].msg
        /\ Len(s) >= 2 /\ s[Len(s)].part = "head" =>
             First(b) /\ s[Len(s) - 1].msg = MsgOf(b) - 1
        /\ \A n \in Msg : got < 2 * n - 1 /\ 2 * n - 1 <= b =>
             \E j \in DOMAIN s : s[j].msg = n
    BY <1>1, SegmentsOf
  <2>2. batch' = s OBVIOUS
  <2> HIDE DEF s
  <2>3. QED BY <2>1, <2>2 DEF BatchOrder, Piece
<1>4. /\ b \in Nat /\ b \in 0..(2 * MaxMsg) /\ got < b /\ MsgOf(b) \in Nat
      /\ First(b) => b = 2 * MsgOf(b) - 1
      /\ ~First(b) => b = 2 * MsgOf(b)
  <2>1. b \in Nat /\ b \in 0..(2 * MaxMsg) /\ got < b BY <1>1
  <2>2. QED BY <2>1, Halves
<1>5. /\ First(got) => got = 2 * MsgOf(got) - 1
      /\ ~First(got) => got = 2 * MsgOf(got)
  BY <1>1, Halves
<1>6. MsgOf(got) <= MsgOf(b)
  <2> DEFINE x == MsgOf(got)
             z == MsgOf(b)
  <2>1. /\ x \in Nat /\ (got = 2 * x - 1 \/ got = 2 * x)
        /\ z \in Nat /\ (b = 2 * z - 1 \/ b = 2 * z)
    BY <1>1, <1>4, <1>5
  <2> HIDE DEF x, z
  <2>2. x <= z BY <1>1, <1>4, <2>1
  <2>3. QED BY <2>2 DEF x, z
<1>7. ServerTypeOK'
  <2>1. First(b) => MsgOf(b) - 1 \in 0..MaxMsg /\ MsgOf(b) \in 0..MaxMsg
    <3> DEFINE z == MsgOf(b)
    <3>1. z \in Nat /\ (First(b) => b = 2 * z - 1) BY <1>4
    <3> HIDE DEF z
    <3>2. First(b) => z - 1 \in 0..MaxMsg /\ z \in 0..MaxMsg BY <1>1, <1>4, <3>1
    <3>3. QED BY <3>2 DEF z
  <2>2. cut' \subseteq 0..MaxMsg BY <2>1 DEF ServerTypeOK
  <2>3. QED BY <1>2, <1>3, <1>4, <2>2 DEF ServerTypeOK, Piece
<1>8. CutInv' BY DEF CutInv
<1>9. EmittedFirst'
  <2> SUFFICES ASSUME NEW k \in DOMAIN emitted, NEW j \in DOMAIN batch'
               PROVE  /\ emitted[k].msg <= batch'[j].msg
                      /\ batch'[j].part = "whole" => emitted[k].msg # batch'[j].msg
    BY <1>2 DEF EmittedFirst
  <2> DEFINE x == emitted[k].msg
             y == batch'[j].msg
             g == MsgOf(got)
  <2>1. x \in Nat /\ x <= g /\ g \in Nat BY <1>1 DEF Reach
  <2>2. g <= y /\ (batch'[j].part = "whole" => g # y) BY <1>3
  <2>3. y \in Nat
    <3>1. batch'[j] \in Piece BY <1>3
    <3>2. QED BY <3>1 DEF Piece, Msg
  <2> HIDE DEF x, y, g
  <2>4. x <= y /\ (batch'[j].part = "whole" => x # y) BY <2>1, <2>2, <2>3
  <2>5. QED BY <2>4 DEF x, y
<1>10. Reach'
  <2> SUFFICES ASSUME NEW k \in DOMAIN emitted PROVE emitted[k].msg <= MsgOf(b)
    BY <1>2, <1>3 DEF Reach
  <2> DEFINE x == emitted[k].msg
             g == MsgOf(got)
             z == MsgOf(b)
  <2>1. x \in Nat /\ x <= g /\ g \in Nat /\ z \in Nat /\ g <= z
    BY <1>1, <1>4, <1>6 DEF Reach
  <2> HIDE DEF x, g, z
  <2>2. x <= z BY <2>1
  <2>3. QED BY <2>2 DEF x, z
<1>11. PieceInv' BY <1>3 DEF PieceInv, CutInv
<1>12. EachOnceInOrder' BY <1>2 DEF EachOnceInOrder
<1>0. \A g, n \in Nat : ~(g < 2 * n - 1) /\ g # 2 * n - 1 => 2 * n <= g
  OBVIOUS
<1>13. LostOnlyIfCut'
  <2> SUFFICES ASSUME NEW n \in Msg, n \notin Tricky \cup Malformed, n \notin cut',
                      2 * n <= b, \A j \in DOMAIN batch' : batch'[j].msg # n,
                      failedAt # 0 => n < failedAt
               PROVE  \E i \in DOMAIN emitted : emitted[i] = [msg |-> n, intact |-> TRUE]
    BY <1>2 DEF LostOnlyIfCut
  <2>1. n \in Nat \ {0} /\ n \notin cut BY DEF Msg
  <2>2. ~(got < 2 * n - 1) BY <1>3, <1>4, <2>1
  <2>3. got # 2 * n - 1
    <3> SUFFICES ASSUME got = 2 * n - 1 PROVE FALSE OBVIOUS
    <3>1. First(got) /\ MsgOf(got) = n BY <2>1 DEF First, MsgOf
    <3>2. QED BY <2>1, <3>1 DEF CutInv
  <2>4. 2 * n <= got
    <3>1. n \in Nat /\ got \in Nat BY <1>1, <2>1
    <3>2. QED BY <1>0, <2>2, <2>3, <3>1, Zenon
  <2>5. QED BY <1>2, <2>1, <2>4 DEF LostOnlyIfCut
<1>14. IntactInv'
  <2> SUFFICES ASSUME NEW k \in DOMAIN emitted, emitted[k].intact
               PROVE  /\ 2 * emitted[k].msg <= b
                      /\ \A j \in DOMAIN batch' : batch'[j].msg # emitted[k].msg
    BY <1>2 DEF IntactInv
  <2> DEFINE x == emitted[k].msg
             g == MsgOf(got)
  <2>1. x \in Nat /\ 2 * x <= got /\ x <= g /\ g \in Nat BY <1>1 DEF IntactInv, Reach
  <2>2. 2 * x <= b
    <3> HIDE DEF x
    <3>1. QED BY <1>1, <1>4, <2>1
  <2>3. ASSUME NEW j \in DOMAIN batch' PROVE batch'[j].msg # x
    <3> DEFINE y == batch'[j].msg
    <3>1. y \in Nat /\ g <= y /\ (~First(got) => g # y)
      <4>1. batch'[j] \in Piece BY <1>3
      <4>2. QED BY <1>3, <4>1 DEF Piece, Msg
    <3>2. First(got) => got = 2 * g - 1 BY <1>5
    <3> HIDE DEF x, y, g
    <3>3. x # y
      <4>1. CASE First(got) BY <1>1, <2>1, <3>1, <3>2, <4>1
      <4>2. CASE ~First(got) BY <2>1, <3>1, <4>2
      <4>3. QED BY <4>1, <4>2
    <3>4. QED BY <3>3 DEF y
  <2>4. QED BY <2>2, <2>3
<1>15. FailInv' BY <1>2 DEF FailInv
<1>16. QED
  BY <1>3, <1>7, <1>8, <1>9, <1>10, <1>11, <1>12, <1>13, <1>14, <1>15

(* An exception ends the loop: what came before it is settled. *)
LEMMA FailKeeps ==
  ASSUME ServerInv, batch # <<>>, link # "closed", Fail
  PROVE  ServerInv'
<1> USE DEF ServerInv
<1> DEFINE h == Head(batch).msg
<1>1. /\ failedAt' = h /\ link' = "closed" /\ batch' = <<>>
      /\ UNCHANGED <<got, deaf, emitted, cut>>
  BY DEF Fail
<1>2. /\ batch \in Seq(Piece) /\ Len(batch) \in Nat \ {0}
      /\ DOMAIN batch = 1..Len(batch) /\ Head(batch) = batch[1]
      /\ 1 \in DOMAIN batch /\ h \in Msg /\ h \in Nat
      /\ \A j \in DOMAIN batch : batch[j].msg \in Nat
  <2>1. batch \in Seq(Piece) /\ \A j \in DOMAIN batch : batch[j].msg \in Nat
    BY ServerTypes
  <2>2. /\ Len(batch) \in Nat \ {0} /\ DOMAIN batch = 1..Len(batch)
        /\ Head(batch) = batch[1] /\ Head(batch) \in Piece
    BY <2>1, TailFacts
  <2>3. QED BY <2>1, <2>2 DEF Piece, Msg
<1>3. failedAt = 0 BY DEF FailInv
<1>4. \A j \in DOMAIN batch : h <= batch[j].msg
  <2> SUFFICES ASSUME NEW j \in DOMAIN batch PROVE h <= batch[j].msg OBVIOUS
  <2>1. CASE j = 1
    <3>1. batch[j].msg = h BY <1>2, <2>1
    <3>2. h <= h
      <4> HIDE DEF h
      <4>1. QED BY <1>2
    <3>3. QED BY <3>1, <3>2
  <2>2. CASE j # 1
    <3>1. 1 < j BY <1>2, <2>2
    <3>2. QED BY <1>2, <3>1 DEF BatchOrder
  <2>3. QED BY <2>1, <2>2
<1>5. ServerTypeOK'
  <2>1. h \in 0..MaxMsg BY <1>2, MsgAssumption DEF Msg
  <2>2. QED BY <1>1, <2>1 DEF ServerTypeOK
<1>6. LostOnlyIfCut'
  <2> SUFFICES ASSUME NEW n \in Msg, n \notin Tricky \cup Malformed, n \notin cut,
                      2 * n <= got, h # 0 => n < h
               PROVE  \E i \in DOMAIN emitted : emitted[i] = [msg |-> n, intact |-> TRUE]
    BY <1>1 DEF LostOnlyIfCut
  <2>1. n < h /\ n \in Nat
    <3>1. h # 0 BY <1>2, MsgAssumption DEF Msg
    <3>2. QED BY <3>1 DEF Msg
  <2>2. \A j \in DOMAIN batch : batch[j].msg # n
    <3> SUFFICES ASSUME NEW j \in DOMAIN batch, batch[j].msg = n PROVE FALSE OBVIOUS
    <3>1. h <= n /\ h \in Nat BY <1>2, <1>4
    <3> HIDE DEF h
    <3>2. QED BY <2>1, <3>1
  <2>3. QED BY <1>3, <2>2 DEF LostOnlyIfCut
<1>7. QED
  BY <1>1, <1>5, <1>6
     DEF CutInv, BatchOrder, EmittedFirst, Reach, PieceInv, IntactInv, FailInv,
         EachOnceInOrder

(* A message that was read whole is handed on, or ends the loop. *)
LEMMA WholeKeeps ==
  ASSUME ServerInv, HandleWhole
  PROVE  ServerInv'
<1> USE DEF ServerInv
<1> DEFINE n == Head(batch).msg
<1>0. CASE n \in Malformed BY <1>0, FailKeeps DEF HandleWhole
<1>1. ASSUME NEW intact \in BOOLEAN,
             \/ intact /\ Emit(n, intact, Tail(batch))
             \/ /\ Emit(n, intact, <<>>) /\ ~intact
                /\ Len(batch) = 2 /\ batch[2].part = "head"
      PROVE  ServerInv'
  <2>1. /\ batch # <<>> /\ batch \in Seq(Piece)
        /\ 1 \in DOMAIN batch /\ Head(batch) = batch[1] /\ batch[1].part = "whole"
        /\ Len(batch) \in Nat /\ DOMAIN batch = 1..Len(batch)
    <3>1. batch # <<>> /\ Head(batch).part = "whole" BY DEF HandleWhole
    <3>2. batch \in Seq(Piece) BY ServerTypes
    <3>3. Len(batch) \in Nat \ {0} /\ DOMAIN batch = 1..Len(batch) /\ Head(batch) = batch[1]
      BY <3>1, <3>2, TailFacts
    <3>4. QED BY <3>1, <3>2, <3>3
  <2>2. \A k \in DOMAIN emitted : emitted[k].msg # n
    BY <2>1 DEF EmittedFirst
  <2>3. /\ UNCHANGED <<got, link, deaf, cut, failedAt>>
        /\ Emit(n, intact, Tail(batch)) \/ Emit(n, intact, <<>>)
    BY <1>1 DEF Emit
  <2>4. failedAt = 0 BY DEF HandleWhole, FailInv
  <2>5. /\ batch' \in Seq(Piece) /\ emitted' \in Seq(Answer)
        /\ BatchOrder' /\ EmittedFirst' /\ Reach' /\ PieceInv'
        /\ IntactInv' /\ EachOnceInOrder'
        /\ emitted'[Len(emitted) + 1] = [msg |-> n, intact |-> intact]
        /\ Len(emitted) + 1 \in DOMAIN emitted'
        /\ \A k \in DOMAIN emitted : k \in DOMAIN emitted' /\ emitted'[k] = emitted[k]
    BY <2>1, <2>2, <2>3, EmitKeeps
  <2>6. ServerTypeOK' BY <2>3, <2>5 DEF ServerTypeOK, Piece, Answer
  <2>7. CutInv' /\ FailInv' BY <2>3 DEF CutInv, FailInv
  <2>8. LostOnlyIfCut'
    <3> SUFFICES ASSUME NEW m \in Msg, m \notin Tricky \cup Malformed, m \notin cut,
                        2 * m <= got, \A j \in DOMAIN batch' : batch'[j].msg # m
                 PROVE  \E i \in DOMAIN emitted' : emitted'[i] = [msg |-> m, intact |-> TRUE]
      BY <2>3 DEF LostOnlyIfCut
    <3>1. CASE \A j \in DOMAIN batch : batch[j].msg # m
      BY <2>4, <2>5, <3>1 DEF LostOnlyIfCut
    <3>2. ASSUME NEW j \in DOMAIN batch, batch[j].msg = m PROVE intact /\ n = m
      <4>1. CASE intact /\ Emit(n, intact, Tail(batch))
        <5>1. batch' = Tail(batch) BY <4>1 DEF Emit
        <5>2. j = 1 \/ (j - 1 \in DOMAIN batch' /\ batch'[j - 1] = batch[j])
          BY <2>1, <2>3, <5>1, TailKeeps
        <5>3. QED BY <2>1, <3>2, <4>1, <5>2
      <4>2. CASE Len(batch) = 2 /\ batch[2].part = "head"
        <5>1. j \in {1, 2} BY <2>1, <4>2
        <5>2. batch[1].msg \in Tricky \cup cut
          <6>1. Len(batch) >= 2 /\ Len(batch) - 1 = 1 BY <4>2
          <6>2. QED BY <4>2, <6>1 DEF PieceInv
        <5>3. batch[2].msg \in Tricky \cup cut BY <2>1, <4>2 DEF PieceInv
        <5>4. QED BY <3>2, <5>1, <5>2, <5>3
      <4>3. QED BY <1>1, <4>1, <4>2
    <3>3. QED BY <2>5, <3>1, <3>2
  <2>9. QED BY <2>5, <2>6, <2>7, <2>8
<1>2. QED BY <1>0, <1>1 DEF HandleWhole

(* A piece goes to the phones, is ignored, or ends the loop. *)
LEMMA PieceKeeps ==
  ASSUME ServerInv, HandlePiece
  PROVE  ServerInv'
<1> USE DEF ServerInv
<1> DEFINE n == Head(batch).msg
<1>1. /\ batch # <<>> /\ batch \in Seq(Piece)
      /\ 1 \in DOMAIN batch /\ Head(batch) = batch[1] /\ batch[1].part # "whole"
  <2>1. batch # <<>> /\ Head(batch).part # "whole" BY DEF HandlePiece
  <2>2. batch \in Seq(Piece) BY ServerTypes
  <2>3. Len(batch) \in Nat \ {0} /\ DOMAIN batch = 1..Len(batch) /\ Head(batch) = batch[1]
    BY <2>1, <2>2, TailFacts
  <2>4. QED BY <2>1, <2>2, <2>3
<1>2. n \in Tricky \cup cut BY <1>1 DEF PieceInv
<1>3. failedAt = 0 /\ link # "closed" BY DEF HandlePiece, FailInv
<1>4. ASSUME UNCHANGED <<got, cut, failedAt>>, batch' = Tail(batch),
             \A k \in DOMAIN emitted : k \in DOMAIN emitted' /\ emitted'[k] = emitted[k]
      PROVE  LostOnlyIfCut'
  <2> SUFFICES ASSUME NEW m \in Msg, m \notin Tricky \cup Malformed, m \notin cut,
                      2 * m <= got, \A j \in DOMAIN batch' : batch'[j].msg # m
               PROVE  \E i \in DOMAIN emitted' : emitted'[i] = [msg |-> m, intact |-> TRUE]
    BY <1>4 DEF LostOnlyIfCut
  <2>1. \A j \in DOMAIN batch : j = 1 \/ (j - 1 \in DOMAIN batch' /\ batch'[j - 1] = batch[j])
    BY <1>1, <1>4, TailKeeps
  <2>2. \A j \in DOMAIN batch : batch[j].msg # m BY <1>1, <1>2, <2>1
  <2>3. \E i \in DOMAIN emitted : emitted[i] = [msg |-> m, intact |-> TRUE]
    BY <1>3, <2>2 DEF LostOnlyIfCut
  <2>4. QED BY <1>4, <2>3
<1>5. ASSUME NEW intact \in {FALSE, MayBeWhole(Head(batch))}, Emit(n, intact, Tail(batch))
      PROVE  ServerInv'
  <2>1. /\ intact \in BOOLEAN
        /\ intact => /\ Head(batch).part # "head"
                     /\ \A k \in DOMAIN emitted : emitted[k].msg # n
    BY DEF MayBeWhole
  <2>2. UNCHANGED <<got, link, deaf, cut, failedAt>> /\ batch' = Tail(batch)
    BY <1>5 DEF Emit
  <2>3. /\ batch' \in Seq(Piece) /\ emitted' \in Seq(Answer)
        /\ BatchOrder' /\ EmittedFirst' /\ Reach' /\ PieceInv'
        /\ IntactInv' /\ EachOnceInOrder'
        /\ \A k \in DOMAIN emitted : k \in DOMAIN emitted' /\ emitted'[k] = emitted[k]
    BY <1>1, <1>5, <2>1, EmitKeeps
  <2>4. ServerTypeOK' BY <2>2, <2>3 DEF ServerTypeOK, Piece, Answer
  <2>5. CutInv' /\ FailInv' BY <2>2 DEF CutInv, FailInv
  <2>6. LostOnlyIfCut' BY <1>4, <2>2, <2>3
  <2>7. QED BY <2>3, <2>4, <2>5, <2>6
<1>6. ASSUME batch' = Tail(batch), UNCHANGED <<got, link, deaf, emitted, cut, failedAt>>
      PROVE  ServerInv'
  <2>1. /\ batch' \in Seq(Piece) /\ BatchOrder' /\ PieceInv'
        /\ \A j \in DOMAIN batch' : j + 1 \in DOMAIN batch /\ batch'[j] = batch[j + 1]
    BY <1>1, <1>6, TailKeeps
  <2>2. ServerTypeOK' BY <1>6, <2>1 DEF ServerTypeOK, Piece
  <2>3. CutInv' /\ FailInv' /\ EachOnceInOrder'
    BY <1>6 DEF CutInv, FailInv, EachOnceInOrder
  <2>4. EmittedFirst' BY <1>6, <2>1 DEF EmittedFirst
  <2>5. Reach' /\ IntactInv' BY <1>6, <2>1 DEF Reach, IntactInv
  <2>6. LostOnlyIfCut' BY <1>4, <1>6
  <2>7. QED BY <2>1, <2>2, <2>3, <2>4, <2>5, <2>6
<1>7. CASE Fail BY <1>1, <1>3, <1>7, FailKeeps
<1>8. QED BY <1>5, <1>6, <1>7 DEF HandlePiece

(* Every step of the server or the application. *)
LEMMA ServerStep ==
  ASSUME ServerInv,
         AppStallsOrResumes \/ AppCloses \/ Handler \/ UNCHANGED serverVars
  PROVE  ServerInv'
<1>1. ASSUME link' \in {"open", "gone", "closed"}, deaf' \in BOOLEAN,
             UNCHANGED <<got, batch, emitted, cut, failedAt>>,
             failedAt # 0 => link' = "closed"
      PROVE  ServerInv'
  BY <1>1 DEF ServerInv, ServerTypeOK, CutInv, BatchOrder, EmittedFirst, Reach, PieceInv,
              IntactInv, FailInv, EachOnceInOrder, LostOnlyIfCut
<1>2. deaf \in BOOLEAN /\ link \in {"open", "gone", "closed"} /\ FailInv
  BY DEF ServerInv, ServerTypeOK
<1>3. CASE AppStallsOrResumes BY <1>1, <1>2, <1>3 DEF AppStallsOrResumes, FailInv
<1>4. CASE AppCloses BY <1>1, <1>2, <1>4 DEF AppCloses, FailInv
<1>5. CASE Eof BY <1>1, <1>2, <1>5 DEF Eof
<1>6. CASE ReplyFails
  <2>1. batch # <<>> /\ link # "closed" /\ Fail BY <1>6 DEF ReplyFails
  <2>2. QED BY <2>1, FailKeeps
<1>7. CASE UNCHANGED serverVars BY <1>1, <1>2, <1>7 DEF serverVars, FailInv
<1>8. QED
  BY <1>3, <1>4, <1>5, <1>6, <1>7, ReadKeeps, WholeKeeps, PieceKeeps DEF Handler

-----------------------------------------------------------------------------
(* The inductive invariant of MobileSend *)

(* The numbers of q follow each other. *)
Run(q) == \A k \in DOMAIN q : q[k] = q[1] + k - 1

LEMMA RunTail ==
  ASSUME NEW q \in Seq(Nat), Run(q), q # <<>>
  PROVE  /\ Head(q) = q[1] /\ q[1] \in Nat /\ q[Len(q)] \in Nat
         /\ Tail(q) \in Seq(Nat) /\ Run(Tail(q))
         /\ Tail(q) # <<>> => /\ Head(Tail(q)) = q[1] + 1
                              /\ Tail(q)[Len(Tail(q))] = q[Len(q)]
         /\ Tail(q) = <<>> => q[Len(q)] = q[1]
<1> DEFINE len == Len(q)
           t == Tail(q)
<1>1. /\ len \in Nat \ {0} /\ DOMAIN q = 1..len
      /\ t \in Seq(Nat) /\ Len(t) = len - 1
      /\ DOMAIN t = 1..(len - 1)
      /\ \A i \in 1..(len - 1) : t[i] = q[i + 1]
      /\ Head(q) = q[1]
  BY TailFacts
<1>2. \A k \in 1..len : q[k] \in Nat /\ q[k] = q[1] + k - 1 BY <1>1 DEF Run
<1> HIDE DEF len, t
<1>3. 1 \in 1..len /\ len \in 1..len BY <1>1
<1>4. CASE len = 1
  <2>1. t = <<>> BY <1>1, <1>4
  <2>2. Run(t) BY <2>1 DEF Run
  <2>3. QED BY <1>1, <1>2, <1>3, <1>4, <2>1, <2>2 DEF len, t
<1>5. CASE len # 1
  <2>1. len > 1 /\ len - 1 \in 1..(len - 1) /\ 1 \in 1..(len - 1) /\ (len - 1) + 1 = len
    BY <1>1, <1>5
  <2>2. t # <<>>
    <3> SUFFICES ASSUME t = <<>> PROVE FALSE OBVIOUS
    <3>1. Len(t) = 0 OBVIOUS
    <3>2. len - 1 = 0 BY <1>1, <3>1
    <3>3. QED BY <1>1, <2>1, <3>2
  <2>3. \A i \in 1..(len - 1) : i + 1 \in 1..len /\ t[i] = q[1] + i
    <3> SUFFICES ASSUME NEW i \in 1..(len - 1) PROVE i + 1 \in 1..len /\ t[i] = q[1] + i
      OBVIOUS
    <3>1. i + 1 \in 1..len BY <1>1
    <3>2. t[i] = q[i + 1] BY <1>1
    <3>3. q[i + 1] = q[1] + (i + 1) - 1 BY <1>2, <3>1
    <3>4. q[1] \in Nat BY <1>2, <1>3
    <3>5. QED BY <3>1, <3>2, <3>3, <3>4
  <2>4. q[1] \in Nat /\ q[len] \in Nat BY <1>2, <1>3
  <2>5. t[1] = q[1] + 1 /\ t[len - 1] = q[len]
    BY <1>1, <2>1, <2>3
  <2>6. Run(t)
    <3> SUFFICES ASSUME NEW k \in 1..(len - 1) PROVE t[k] = t[1] + k - 1
      BY <1>1 DEF Run
    <3>1. t[k] = q[1] + k /\ t[1] = q[1] + 1 BY <2>3, <2>5
    <3>2. QED BY <1>1, <2>4, <3>1
  <2>7. Head(t) = t[1] BY <1>1, <2>2, TailFacts
  <2>8. QED BY <1>1, <2>2, <2>4, <2>5, <2>6, <2>7 DEF len, t
<1>6. QED BY <1>4, <1>5

LEMMA RunAppend ==
  ASSUME NEW q \in Seq(Nat), Run(q), NEW n \in Nat, q # <<>> => q[Len(q)] = n
  PROVE  LET a == Append(q, n + 1) IN
         /\ a \in Seq(Nat) /\ a # <<>> /\ Run(a) /\ a[Len(a)] = n + 1
         /\ Head(a) = IF q = <<>> THEN n + 1 ELSE Head(q)
<1> DEFINE len == Len(q)
           a == Append(q, n + 1)
<1>1. /\ a \in Seq(Nat) /\ len \in Nat /\ DOMAIN q = 1..len
      /\ Len(a) = len + 1 /\ DOMAIN a = 1..(len + 1) /\ a[len + 1] = n + 1
      /\ \A i \in 1..len : a[i] = q[i]
  BY AppendFacts
<1>2. \A k \in 1..len : q[k] \in Nat /\ q[k] = q[1] + k - 1 BY <1>1 DEF Run
<1>3. q = <<>> <=> len = 0 OBVIOUS
<1> HIDE DEF a
<1>4. a # <<>>
  <2> SUFFICES ASSUME a = <<>> PROVE FALSE OBVIOUS
  <2>1. len + 1 = 0 BY <1>1
  <2> HIDE DEF len
  <2>2. QED BY <1>1, <2>1
<1>5. Head(a) = a[1] BY <1>1, <1>4, TailFacts
<1>6. q # <<>> => Head(q) = q[1] BY TailFacts
<1>7. q # <<>> => q[len] = n OBVIOUS
<1> HIDE DEF len
<1>8. CASE len = 0
  <2>1. \A k \in 1..(len + 1) : a[k] = a[1] + k - 1 BY <1>1, <1>8
  <2>2. QED BY <1>1, <1>3, <1>4, <1>5, <1>8, <2>1 DEF a, Run
<1>9. CASE len # 0
  <2>1. 1 \in 1..len /\ len \in 1..len BY <1>1, <1>9
  <2>2. a[1] = q[1] /\ q[1] \in Nat /\ n = q[1] + len - 1
    BY <1>1, <1>2, <1>3, <1>7, <1>9, <2>1
  <2>3. \A k \in 1..(len + 1) : a[k] = a[1] + k - 1
    <3> SUFFICES ASSUME NEW k \in 1..(len + 1) PROVE a[k] = a[1] + k - 1 OBVIOUS
    <3>1. k \in 1..len \/ k = len + 1 BY <1>1
    <3>2. CASE k \in 1..len BY <1>1, <1>2, <2>2, <3>2
    <3>3. CASE k = len + 1 BY <1>1, <2>2, <3>3
    <3>4. QED BY <3>1, <3>2, <3>3
  <2>4. QED BY <1>1, <1>3, <1>4, <1>5, <1>6, <1>9, <2>2, <2>3 DEF a, Run
<1>10. QED BY <1>8, <1>9

(* A client that was never connected has been sent nothing. *)
Unsent(c) ==
  /\ conn[c] \in {"none", "connecting", "failed"} =>
       step[c] = "free" /\ replies[c] = 0 /\ owed[c] = 0 /\ last[c] = 0
  /\ conn[c] = "none" => c \notin known /\ tasks[c] = <<>>

(* The send()s of a client are for consecutive answers, up to the last one *)
(* that was emitted while its phone is registered, and begin with the one  *)
(* after the last that was written, or with that one while it is sent.     *)
Queued(c) ==
  /\ Run(tasks[c])
  /\ c \in known /\ tasks[c] # <<>> => tasks[c][Len(tasks[c])] = Len(emitted)
  /\ step[c] # "free" => tasks[c] # <<>> /\ Head(tasks[c]) = last[c]
  /\ last[c] > 0 /\ Writable(c) /\ step[c] = "free" /\ tasks[c] # <<>>
       => Head(tasks[c]) = last[c] + 1
  /\ last[c] > 0 /\ Writable(c) /\ c \in known /\ tasks[c] = <<>>
       => last[c] = Len(emitted)

(* Paced, of one client *)
PacedAt(c) ==
  conn[c] = "open" =>
    LET unanswered == owed[c] + replies[c] - (IF step[c] = "free" THEN 0 ELSE 1)
        slips == timeouts[c] + split[c]
    IN  unanswered <= slips /\ (slips = 0 => unanswered = 0)

ClientInv(c) == Unsent(c) /\ Queued(c) /\ PacedAt(c)

SendInv == SendTypeOK /\ \A c \in Client : ClientInv(c)

(* The types of one client's state. *)
LEMMA SendTypes ==
  ASSUME SendTypeOK, NEW c \in Client
  PROVE  /\ conn[c] \in {"none", "connecting", "failed", "open", "eof", "lost"}
         /\ tasks[c] \in Seq(Nat) /\ step[c] \in {"free", "draining", "reading"}
         /\ replies[c] \in Nat /\ owed[c] \in Nat /\ timeouts[c] \in Nat
         /\ split[c] \in Nat /\ last[c] \in Nat
BY DEF SendTypeOK

(* What a step does not touch stays as it is; a phone may be unregistered. *)
LEMMA Untouched ==
  ASSUME NEW c \in Client, ClientInv(c), emitted' = emitted,
         conn'[c] = conn[c], tasks'[c] = tasks[c], step'[c] = step[c],
         replies'[c] = replies[c], owed'[c] = owed[c], timeouts'[c] = timeouts[c],
         split'[c] = split[c], last'[c] = last[c], c \in known' => c \in known
  PROVE  ClientInv(c)'
BY DEF ClientInv, Unsent, Queued, PacedAt, Writable, Run

(* Every step of a client keeps the types, *)
LEMMA SendTypeStep ==
  ASSUME SendInv, NEW c \in Client, Registry(c) \/ Phone(c) \/ Send(c)
  PROVE  SendTypeOK'
<1> USE DEF SendTypeOK
<1>0. /\ SendTypeOK /\ ClientInv(c)
      /\ tasks[c] # <<>> => Tail(tasks[c]) \in Seq(Nat) /\ Head(tasks[c]) \in Nat
  <2>1. SendTypeOK /\ ClientInv(c) BY DEF SendInv
  <2>2. tasks[c] \in Seq(Nat) BY <2>1
  <2>3. tasks[c] # <<>> => Tail(tasks[c]) \in Seq(Nat) /\ Head(tasks[c]) \in Nat
    BY <2>2, TailFacts
  <2>4. QED BY <2>1, <2>3
<1>1. CASE Register(c) BY <1>0, <1>1 DEF Register, SetConn
<1>2. CASE Unregister(c) BY <1>0, <1>2 DEF Unregister
<1>3. CASE Connect(c) BY <1>0, <1>3 DEF Connect, SetConn
<1>4. CASE Skip(c) BY <1>0, <1>4 DEF Skip
<1>5. CASE Write(c) BY <1>0, <1>5 DEF Write
<1>6. CASE Drained(c) BY <1>0, <1>6 DEF Drained
<1>7. CASE ReadReply(c) BY <1>0, <1>7 DEF ReadReply, End, Release
<1>8. CASE Timeout(c) BY <1>0, <1>8 DEF Timeout, End, Release
<1>9. CASE Broken(c) BY <1>0, <1>9 DEF Broken, End, Release, Over
<1>10. CASE Answers(c) BY <1>0, <1>10 DEF Answers
<1>11. CASE StallsOrResumes(c) BY <1>0, <1>11 DEF StallsOrResumes
<1>12. CASE Leaves(c)
  <2>1. PICK r \in {"eof", "lost"} : conn' = [conn EXCEPT ![c] = r] BY <1>12 DEF Leaves
  <2>2. conn' \in [Client -> {"none", "connecting", "failed", "open", "eof", "lost"}]
    BY <1>0, <2>1
  <2>3. owed' = [owed EXCEPT ![c] = 0] /\ stalled' = stalled \ {c}
    BY <1>12 DEF Leaves
  <2>4. UNCHANGED <<known, tasks, step, replies, timeouts, split, last>> BY <1>12 DEF Leaves
  <2>5. QED BY <1>0, <2>2, <2>3, <2>4
<1>13. QED BY <1>1, <1>2, <1>3, <1>4, <1>5, <1>6, <1>7, <1>8, <1>9, <1>10, <1>11, <1>12 DEF Registry, Phone, Send

(* ... leaves the others alone, *)
LEMMA SendFrame ==
  ASSUME SendInv, NEW c \in Client, Registry(c) \/ Phone(c) \/ Send(c),
         emitted' = emitted, NEW d \in Client, d # c
  PROVE  ClientInv(d)'
<1> USE DEF SendTypeOK
<1>0. SendTypeOK /\ ClientInv(d) BY DEF SendInv
<1> DEFINE Same == /\ conn'[d] = conn[d] /\ tasks'[d] = tasks[d] /\ step'[d] = step[d]
                   /\ replies'[d] = replies[d] /\ owed'[d] = owed[d]
                   /\ timeouts'[d] = timeouts[d] /\ split'[d] = split[d]
                   /\ last'[d] = last[d]
                   /\ (d \in known' => d \in known)
<1>1. CASE Register(c)
  <2>1. Same BY <1>0, <1>1 DEF Register, SetConn
  <2>2. QED BY <1>0, <2>1, Untouched
<1>2. CASE Unregister(c)
  <2>1. Same BY <1>0, <1>2 DEF Unregister
  <2>2. QED BY <1>0, <2>1, Untouched
<1>3. CASE Connect(c)
  <2>1. Same BY <1>0, <1>3 DEF Connect, SetConn
  <2>2. QED BY <1>0, <2>1, Untouched
<1>4. CASE Skip(c)
  <2>1. Same BY <1>0, <1>4 DEF Skip
  <2>2. QED BY <1>0, <2>1, Untouched
<1>5. CASE Write(c)
  <2>1. Same BY <1>0, <1>5 DEF Write
  <2>2. QED BY <1>0, <2>1, Untouched
<1>6. CASE Drained(c)
  <2>1. Same BY <1>0, <1>6 DEF Drained
  <2>2. QED BY <1>0, <2>1, Untouched
<1>7. CASE ReadReply(c)
  <2>1. Same BY <1>0, <1>7 DEF ReadReply, End, Release
  <2>2. QED BY <1>0, <2>1, Untouched
<1>8. CASE Timeout(c)
  <2>1. Same BY <1>0, <1>8 DEF Timeout, End, Release
  <2>2. QED BY <1>0, <2>1, Untouched
<1>9. CASE Broken(c)
  <2>1. Same BY <1>0, <1>9 DEF Broken, End, Release, Over
  <2>2. QED BY <1>0, <2>1, Untouched
<1>10. CASE Answers(c)
  <2>1. Same BY <1>0, <1>10 DEF Answers
  <2>2. QED BY <1>0, <2>1, Untouched
<1>11. CASE StallsOrResumes(c)
  <2>1. Same BY <1>0, <1>11 DEF StallsOrResumes
  <2>2. QED BY <1>0, <2>1, Untouched
<1>12. CASE Leaves(c)
  <2>1. Same BY <1>0, <1>12 DEF Leaves
  <2>2. QED BY <1>0, <2>1, Untouched
<1>13. QED BY <1>1, <1>2, <1>3, <1>4, <1>5, <1>6, <1>7, <1>8, <1>9, <1>10, <1>11, <1>12 DEF Registry, Phone, Send

(* ... and keeps what holds of its own. *)
LEMMA SendOwn ==
  ASSUME SendInv, NEW c \in Client, Registry(c) \/ Phone(c) \/ Send(c), emitted' = emitted
  PROVE  ClientInv(c)'
<1>0. SendTypeOK /\ ClientInv(c) BY DEF SendInv
<1>t. /\ conn[c] \in {"none", "connecting", "failed", "open", "eof", "lost"}
      /\ tasks[c] \in Seq(Nat) /\ step[c] \in {"free", "draining", "reading"}
      /\ replies[c] \in Nat /\ owed[c] \in Nat /\ timeouts[c] \in Nat
      /\ split[c] \in Nat /\ last[c] \in Nat
  BY <1>0, SendTypes
<1>d. /\ DOMAIN conn = Client /\ DOMAIN tasks = Client /\ DOMAIN step = Client
      /\ DOMAIN replies = Client /\ DOMAIN owed = Client /\ DOMAIN timeouts = Client
      /\ DOMAIN split = Client /\ DOMAIN last = Client
  BY <1>0 DEF SendTypeOK
<1>r. tasks[c] # <<>> =>
        LET q == tasks[c] IN
        /\ Head(q) = q[1] /\ q[1] \in Nat /\ q[Len(q)] \in Nat
        /\ Run(Tail(q))
        /\ Tail(q) # <<>> => /\ Head(Tail(q)) = q[1] + 1
                             /\ Tail(q)[Len(Tail(q))] = q[Len(q)]
        /\ Tail(q) = <<>> => q[Len(q)] = q[1]
  BY <1>0, <1>t, RunTail DEF ClientInv, Queued
<1> USE DEF ClientInv
<1>1. CASE Register(c)
  <2>1. Unsent(c)' BY <1>0, <1>t, <1>d, <1>1 DEF Register, SetConn, Unsent, Queued, Writable
  <2>2. Queued(c)' BY <1>0, <1>t, <1>d, <1>1 DEF Register, SetConn, Unsent, Queued, Writable, Run
  <2>3. PacedAt(c)' BY <1>0, <1>t, <1>d, <1>1 DEF Register, SetConn, Unsent, PacedAt
  <2>4. QED BY <2>1, <2>2, <2>3
<1>2. CASE Unregister(c)
  <2>1. Unsent(c)' BY <1>0, <1>t, <1>d, <1>2 DEF Unregister, Unsent, Queued, Writable
  <2>2. Queued(c)' BY <1>0, <1>t, <1>d, <1>2 DEF Unregister, Unsent, Queued, Writable, Run
  <2>3. PacedAt(c)' BY <1>0, <1>t, <1>d, <1>2 DEF Unregister, Unsent, PacedAt
  <2>4. QED BY <2>1, <2>2, <2>3
<1>3. CASE Connect(c)
  <2>1. Unsent(c)' BY <1>0, <1>t, <1>d, <1>3 DEF Connect, SetConn, Unsent, Queued, Writable
  <2>2. Queued(c)' BY <1>0, <1>t, <1>d, <1>3 DEF Connect, SetConn, Unsent, Queued, Writable, Run
  <2>3. PacedAt(c)' BY <1>0, <1>t, <1>d, <1>3 DEF Connect, SetConn, Unsent, PacedAt
  <2>4. QED BY <2>1, <2>2, <2>3
<1>4. CASE Skip(c)
  <2>1. Unsent(c)' BY <1>0, <1>t, <1>d, <1>4 DEF Skip, Unsent, Queued, Writable
  <2>2. Queued(c)' BY <1>0, <1>t, <1>d, <1>r, <1>4 DEF Skip, Unsent, Queued, Writable
  <2>3. PacedAt(c)' BY <1>0, <1>t, <1>d, <1>4 DEF Skip, Unsent, PacedAt
  <2>4. QED BY <2>1, <2>2, <2>3
<1>5. CASE Write(c)
  <2>1. Unsent(c)' BY <1>0, <1>t, <1>d, <1>5 DEF Write, Unsent, Queued, Writable
  <2>2. Queued(c)' BY <1>0, <1>t, <1>d, <1>r, <1>5 DEF Write, Unsent, Queued, Writable, Run
  <2>3. PacedAt(c)' BY <1>0, <1>t, <1>d, <1>5 DEF Write, Unsent, PacedAt
  <2>4. QED BY <2>1, <2>2, <2>3
<1>6. CASE Drained(c)
  <2>1. Unsent(c)' BY <1>0, <1>t, <1>d, <1>6 DEF Drained, Unsent, Queued, Writable
  <2>2. Queued(c)' BY <1>0, <1>t, <1>d, <1>6 DEF Drained, Unsent, Queued, Writable, Run
  <2>3. PacedAt(c)' BY <1>0, <1>t, <1>d, <1>6 DEF Drained, Unsent, PacedAt
  <2>4. QED BY <2>1, <2>2, <2>3
<1>7. CASE ReadReply(c)
  <2>1. Unsent(c)' BY <1>0, <1>t, <1>d, <1>7 DEF ReadReply, End, Release, Unsent, Queued, Writable
  <2>2. Queued(c)' BY <1>0, <1>t, <1>d, <1>r, <1>7 DEF ReadReply, End, Release, Unsent, Queued, Writable
  <2>3. PacedAt(c)' BY <1>0, <1>t, <1>d, <1>7 DEF ReadReply, End, Release, Unsent, PacedAt
  <2>4. QED BY <2>1, <2>2, <2>3
<1>8. CASE Timeout(c)
  <2>1. Unsent(c)' BY <1>0, <1>t, <1>d, <1>8 DEF Timeout, End, Release, Unsent, Queued, Writable
  <2>2. Queued(c)' BY <1>0, <1>t, <1>d, <1>r, <1>8 DEF Timeout, End, Release, Unsent, Queued, Writable
  <2>3. PacedAt(c)' BY <1>0, <1>t, <1>d, <1>8 DEF Timeout, End, Release, Unsent, PacedAt
  <2>4. QED BY <2>1, <2>2, <2>3
<1>9. CASE Broken(c)
  <2>1. Unsent(c)' BY <1>0, <1>t, <1>d, <1>9 DEF Broken, End, Release, Over, Unsent, Queued, Writable
  <2>2. Queued(c)' BY <1>0, <1>t, <1>d, <1>r, <1>9 DEF Broken, End, Release, Over, Unsent, Queued, Writable
  <2>3. PacedAt(c)' BY <1>0, <1>t, <1>d, <1>9 DEF Broken, End, Release, Over, Unsent, PacedAt
  <2>4. QED BY <2>1, <2>2, <2>3
<1>10. CASE Answers(c)
  <2>1. Unsent(c)' BY <1>0, <1>t, <1>d, <1>10 DEF Answers, Unsent, Queued, Writable
  <2>2. Queued(c)' BY <1>0, <1>t, <1>d, <1>10 DEF Answers, Unsent, Queued, Writable, Run
  <2>3. PacedAt(c)' BY <1>0, <1>t, <1>d, <1>10 DEF Answers, Unsent, PacedAt
  <2>4. QED BY <2>1, <2>2, <2>3
<1>11. CASE StallsOrResumes(c)
  <2>1. Unsent(c)' BY <1>0, <1>t, <1>d, <1>11 DEF StallsOrResumes, Unsent, Queued, Writable
  <2>2. Queued(c)' BY <1>0, <1>t, <1>d, <1>11 DEF StallsOrResumes, Unsent, Queued, Writable, Run
  <2>3. PacedAt(c)' BY <1>0, <1>t, <1>d, <1>11 DEF StallsOrResumes, Unsent, PacedAt
  <2>4. QED BY <2>1, <2>2, <2>3
<1>12. CASE Leaves(c)
  <2>1. Unsent(c)' BY <1>0, <1>t, <1>d, <1>12 DEF Leaves, Unsent, Queued, Writable
  <2>2. Queued(c)' BY <1>0, <1>t, <1>d, <1>12 DEF Leaves, Unsent, Queued, Writable, Run
  <2>3. PacedAt(c)' BY <1>0, <1>t, <1>d, <1>12 DEF Leaves, Unsent, PacedAt
  <2>4. QED BY <2>1, <2>2, <2>3
<1>13. QED BY <1>1, <1>2, <1>3, <1>4, <1>5, <1>6, <1>7, <1>8, <1>9, <1>10, <1>11, <1>12 DEF Registry, Phone, Send

-----------------------------------------------------------------------------
(* Both together *)

AnswerInv == ServerInv /\ SendInv

LEMMA AnswerInit == Init => AnswerInv
<1> SUFFICES ASSUME Init PROVE AnswerInv OBVIOUS
<1>1. ServerInv
  <2> USE DEF Init, ServerInit
  <2>1. ServerTypeOK
    <3>1. got \in 0..(2 * MaxMsg) /\ failedAt \in 0..MaxMsg BY MsgAssumption
    <3>2. deaf \in BOOLEAN OBVIOUS
    <3>3. QED BY <3>1, <3>2 DEF ServerTypeOK
  <2>2. CutInv BY DEF CutInv, First
  <2>3. LostOnlyIfCut
    <3>1. \A n \in Msg : ~(2 * n <= 0) BY MsgAssumption DEF Msg
    <3>2. QED BY <3>1 DEF LostOnlyIfCut
  <2>4. /\ BatchOrder /\ EmittedFirst /\ Reach /\ PieceInv
        /\ IntactInv /\ FailInv /\ EachOnceInOrder
    BY DEF BatchOrder, EmittedFirst, Reach, PieceInv, IntactInv, FailInv, EachOnceInOrder
  <2>5. QED BY <2>1, <2>2, <2>3, <2>4 DEF ServerInv
<1>2. SendInv
  BY DEF Init, SendInit, SendInv, SendTypeOK, ClientInv, Unsent, Queued, PacedAt, Run
<1>3. QED BY <1>1, <1>2 DEF AnswerInv

(* A step of the handler hands on one answer at most. *)
LEMMA OneAtATime ==
  ASSUME ServerInv, Handler
  PROVE  /\ Len(emitted) \in Nat
         /\ emitted' = emitted \/ Len(emitted') = Len(emitted) + 1
<1>1. batch \in Seq(Piece) /\ emitted \in Seq(Answer) BY ServerTypes DEF ServerInv
<1>2. ASSUME NEW intact \in BOOLEAN, NEW rest, batch # <<>>,
             Emit(Head(batch).msg, intact, rest)
      PROVE  Len(emitted') = Len(emitted) + 1
  <2>1. Head(batch) \in Piece BY <1>1, <1>2, TailFacts
  <2>2. [msg |-> Head(batch).msg, intact |-> intact] \in Answer
    BY <2>1 DEF Piece, Answer
  <2>3. QED BY <1>1, <1>2, <2>2, AppendFacts DEF Emit
<1>3. emitted' = emitted \/ Len(emitted') = Len(emitted) + 1
  BY <1>2 DEF Handler, Read, Eof, ReplyFails, Fail, HandleWhole, HandlePiece, MayBeWhole
<1>4. QED BY <1>1, <1>3

(* send_msg_to_mobile puts the answer behind those that wait, at every     *)
(* phone that is registered.                                               *)
LEMMA HandOnKeeps ==
  ASSUME SendInv, Len(emitted) \in Nat, Len(emitted') = Len(emitted) + 1,
         SendMsgToMobile(Len(emitted'))
  PROVE  SendInv'
<1> DEFINE n == Len(emitted)
<1>0. SendTypeOK /\ \A c \in Client : ClientInv(c) BY DEF SendInv
<1>1. /\ tasks' = [c \in Client |-> IF c \in known THEN Append(tasks[c], n + 1) ELSE tasks[c]]
      /\ UNCHANGED <<known, conn, step, stalled, replies, owed, timeouts, split, last>>
  BY DEF SendMsgToMobile
<1>2. n \in Nat /\ Len(emitted') = n + 1 OBVIOUS
<1> HIDE DEF n
<1>3. ASSUME NEW c \in Client, c \in known
      PROVE  /\ tasks'[c] = Append(tasks[c], n + 1)
             /\ tasks'[c] \in Seq(Nat) /\ tasks'[c] # <<>> /\ Run(tasks'[c])
             /\ tasks'[c][Len(tasks'[c])] = n + 1
             /\ Head(tasks'[c]) = IF tasks[c] = <<>> THEN n + 1 ELSE Head(tasks[c])
  <2>1. tasks[c] \in Seq(Nat) BY <1>0, SendTypes
  <2>2. Run(tasks[c]) /\ (tasks[c] # <<>> => tasks[c][Len(tasks[c])] = n)
    BY <1>0, <1>3 DEF ClientInv, Queued, n
  <2>3. tasks'[c] = Append(tasks[c], n + 1) BY <1>1, <1>3
  <2> DEFINE q == tasks[c]
             a == Append(q, n + 1)
  <2>4. /\ a \in Seq(Nat) /\ a # <<>> /\ Run(a) /\ a[Len(a)] = n + 1
        /\ Head(a) = IF q = <<>> THEN n + 1 ELSE Head(q)
    <3> HIDE DEF q
    <3>1. q \in Seq(Nat) /\ Run(q) /\ (q # <<>> => q[Len(q)] = n) BY <2>1, <2>2 DEF q
    <3>2. QED BY <1>2, <3>1, RunAppend
  <2>5. tasks'[c] = a BY <2>3
  <2> HIDE DEF a
  <2>6. QED BY <2>3, <2>4, <2>5
<1>4. ASSUME NEW c \in Client PROVE tasks'[c] \in Seq(Nat) /\ ClientInv(c)'
  <2>1. CASE c \in known
    <3>1. ClientInv(c) BY <1>0
    <3>2. last[c] \in Nat BY <1>0, SendTypes
    <3>3. Unsent(c)' BY <1>1, <2>1, <3>1 DEF ClientInv, Unsent
    <3>4. Queued(c)'
      BY <1>1, <1>2, <1>3, <2>1, <3>1, <3>2 DEF ClientInv, Queued, Writable, n, Run
    <3>5. PacedAt(c)' BY <1>1, <3>1 DEF ClientInv, PacedAt
    <3>6. QED BY <1>3, <2>1, <3>3, <3>4, <3>5 DEF ClientInv
  <2>2. CASE c \notin known
    <3>1. tasks'[c] = tasks[c] BY <1>1, <2>2
    <3>2. tasks[c] \in Seq(Nat) BY <1>0, SendTypes
    <3>3. Unsent(c)' /\ PacedAt(c)'
      BY <1>0, <1>1, <3>1 DEF ClientInv, Unsent, PacedAt
    <3>4. Queued(c)'
      BY <1>0, <1>1, <2>2, <3>1 DEF ClientInv, Queued, Writable, Run
    <3>5. QED BY <3>1, <3>2, <3>3, <3>4 DEF ClientInv
  <2>3. QED BY <2>1, <2>2
<1>5. SendTypeOK'
  <2>1. tasks' \in [Client -> Seq(Nat)] BY <1>1, <1>4
  <2>2. \A c \in Client : step'[c] # "free" => tasks'[c] # <<>>
    BY <1>4 DEF ClientInv, Queued
  <2>3. QED BY <1>0, <1>1, <2>1, <2>2 DEF SendTypeOK
<1>6. QED BY <1>4, <1>5 DEF SendInv

(* A step of the server hands on what it emits, and nothing else. *)
LEMMA ServeKeeps ==
  ASSUME AnswerInv, Serve
  PROVE  SendInv'
<1>1. ServerInv /\ SendInv /\ Handler BY DEF AnswerInv, Serve
<1>2. CASE emitted' = emitted
  <2>1. UNCHANGED sendVars BY <1>2 DEF Serve
  <2>2. \A c \in Client : ClientInv(c)'
    BY <1>1, <1>2, <2>1, Untouched DEF SendInv, sendVars
  <2>3. SendTypeOK' BY <1>1, <2>1 DEF SendInv, SendTypeOK, sendVars
  <2>4. QED BY <2>2, <2>3 DEF SendInv
<1>3. CASE emitted' # emitted
  <2>1. Len(emitted) \in Nat /\ Len(emitted') = Len(emitted) + 1
    BY <1>1, <1>3, OneAtATime
  <2>2. SendMsgToMobile(Len(emitted')) BY <1>3 DEF Serve, HandOn
  <2>3. QED BY <1>1, <2>1, <2>2, HandOnKeeps
<1>4. QED BY <1>2, <1>3

LEMMA AnswerStep ==
  ASSUME AnswerInv, [Next]_vars
  PROVE  AnswerInv'
<1>0. ServerInv /\ SendInv BY DEF AnswerInv
<1>1. ASSUME UNCHANGED sendVars, emitted' = emitted PROVE SendInv'
  <2>1. \A c \in Client : ClientInv(c)'
    BY <1>0, <1>1, Untouched DEF SendInv, sendVars
  <2>2. SendTypeOK' BY <1>0, <1>1 DEF SendInv, SendTypeOK, sendVars
  <2>3. QED BY <2>1, <2>2 DEF SendInv
<1>2. CASE (AppStallsOrResumes \/ AppCloses) /\ UNCHANGED sendVars
  BY <1>0, <1>1, <1>2, ServerStep DEF AppStallsOrResumes, AppCloses, AnswerInv
<1>3. CASE Serve
  BY <1>0, <1>3, ServerStep, ServeKeeps DEF Serve, AnswerInv
<1>4. ASSUME NEW c \in Client, Registry(c) \/ Phone(c) \/ Send(c), UNCHANGED serverVars
      PROVE  AnswerInv'
  <2>1. ServerInv' BY <1>0, <1>4, ServerStep
  <2>2. emitted' = emitted BY <1>4 DEF serverVars
  <2>3. SendTypeOK' BY <1>0, <1>4, SendTypeStep
  <2>4. \A d \in Client : ClientInv(d)'
    BY <1>0, <1>4, <2>2, SendFrame, SendOwn
  <2>5. QED BY <2>1, <2>3, <2>4 DEF AnswerInv, SendInv
<1>5. CASE UNCHANGED vars
  BY <1>0, <1>1, <1>5, ServerStep DEF vars, serverVars, AnswerInv
<1>6. QED BY <1>2, <1>3, <1>4, <1>5 DEF Next

LEMMA AnswerInvariant == Spec => []AnswerInv
<1>1. AnswerInv /\ [Next]_vars => AnswerInv' BY AnswerStep
<1>2. QED BY AnswerInit, <1>1, PTL DEF Spec

-----------------------------------------------------------------------------
(* What the way of an answer promises *)

(* The handler's state and every client's have their types, and a send()   *)
(* that holds the lock has a message (unix_server.py, mobile_client.py).   *)
THEOREM AnswerTypeCorrect == Spec => []TypeOK
<1>1. AnswerInv => TypeOK
  BY DEF AnswerInv, ServerInv, SendInv, TypeOK
<1>2. QED BY AnswerInvariant, <1>1, PTL

(* However the stream is cut into reads, UnixServer._handle_client hands   *)
(* no answer on out of order, and none twice that is ever handed on whole  *)
(* (unix_server.py lines 28-60).                                           *)
THEOREM NoAnswerTwice == Spec => []EachOnceInOrder
<1>1. AnswerInv => EachOnceInOrder BY DEF AnswerInv, ServerInv
<1>2. QED BY AnswerInvariant, <1>1, PTL

(* Up to the message an exception ends the loop at, an answer that was     *)
(* read is lost or altered only if a read was cut in it, or if it has      *)
(* "idx" in its payload or an item without a colon (unix_server.py lines   *)
(* 28-60).                                                                 *)
THEOREM OnlyCutsLose == Spec => []LostOnlyIfCut
<1>1. AnswerInv => LostOnlyIfCut BY DEF AnswerInv, ServerInv
<1>2. QED BY AnswerInvariant, <1>1, PTL

(* _send_lock and the read under it let no more messages through without a *)
(* reply than there were timeouts and replies in pieces: one each          *)
(* (mobile_client.py lines 28-51).                                         *)
THEOREM PhonesPaced == Spec => []Paced
<1>1. AnswerInv => Paced
  BY DEF AnswerInv, SendInv, ClientInv, PacedAt, Paced
<1>2. QED BY AnswerInvariant, <1>1, PTL

(* From its first message on a phone is sent every answer once and in      *)
(* order as long as its connection lasts, whatever times out.              *)
THEOREM NothingSkipped == Spec => Gapless
<1> DEFINE Stretch == \A c \in Client : last[c] > 0 => last'[c] \in {last[c], last[c] + 1}
<1>1. ASSUME AnswerInv, [Next]_vars PROVE [Stretch]_sendVars
  <2>0. SendTypeOK /\ \A c \in Client : ClientInv(c) BY <1>1 DEF AnswerInv, SendInv
  <2>1. ASSUME NEW d \in Client, Write(d) PROVE Stretch
    <3> SUFFICES ASSUME NEW c \in Client, last[c] > 0
                 PROVE  last'[c] \in {last[c], last[c] + 1}
      OBVIOUS
    <3>1. CASE c = d
      <4>1. last'[c] = Head(tasks[c]) BY <2>0, <2>1, <3>1 DEF Write, SendTypeOK
      <4>2. step[c] = "free" /\ tasks[c] # <<>> /\ Writable(c) BY <2>1, <3>1 DEF Write
      <4>3. QED BY <2>0, <4>1, <4>2 DEF ClientInv, Queued
    <3>2. CASE c # d BY <2>0, <2>1, <3>2 DEF Write, SendTypeOK
    <3>3. QED BY <3>1, <3>2
  <2>2. ASSUME last' = last PROVE Stretch BY <2>2
  <2>3. ASSUME NEW d \in Client, Registry(d) \/ Phone(d) \/ Send(d) PROVE Stretch
    BY <2>1, <2>2, <2>3
       DEF Registry, Phone, Send, Register, Unregister, Connect, SetConn, Skip, Drained,
           ReadReply, Timeout, Broken, End, Answers, StallsOrResumes, Leaves
  <2>4. ASSUME Serve PROVE [Stretch]_sendVars
    BY <2>2, <2>4 DEF Serve, HandOn, SendMsgToMobile, sendVars
  <2>5. QED BY <1>1, <2>3, <2>4 DEF Next, vars
<1>2. QED BY AnswerInvariant, <1>1, PTL DEF Spec, Gapless
=============================================================================
