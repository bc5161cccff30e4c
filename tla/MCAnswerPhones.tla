--------------------------- MODULE MCAnswerPhones ---------------------------
(* AnswerPath for TLC, from the moment the phones are registered and       *)
(* connected.  Those of Fickle may stop reading and be unregistered; the    *)
(* others may reply while a send waits for it; the application may stop    *)
(* reading its replies.  How all of these come and go is AnswerPath.cfg's.  *)
EXTENDS AnswerPath

CONSTANT Fickle

PhonesInit ==
  /\ ServerInit
  /\ known = Client /\ stalled = {}
  /\ conn = [c \in Client |-> "open"]
  /\ tasks = [c \in Client |-> <<>>]
  /\ step = [c \in Client |-> "free"]
  /\ replies = [c \in Client |-> 0] /\ owed = replies
  /\ timeouts = replies /\ split = replies /\ last = replies

PhoneStep(c) ==
  /\ \/ Send(c)
     \/ c \in Fickle /\ (StallsOrResumes(c) \/ Unregister(c))
     \/ c \notin Fickle /\ step[c] = "reading" /\ owed[c] = 1 /\ Answers(c)
  /\ UNCHANGED serverVars

PhonesNext ==
  \/ Serve
  \/ AppStallsOrResumes /\ UNCHANGED sendVars
  \/ \E c \in Client : PhoneStep(c)

PhonesSpec == PhonesInit /\ [][PhonesNext]_vars /\ Fairness
=============================================================================
