\* Three commands, so that one can forget another's waiter, for an application that
\* answers, dies and comes back.
SPECIFICATION FairSpec
CONSTANTS
  Cmd = {c1, c2, c3}
  MaxConns = 2
  None = None
INVARIANTS TypeOK LostOnlyIfBroken BrokenClientReplaced AckMeansAnswered NoConnectionLeak
PROPERTIES CommandsEnd
