\* Two devices, their transports and one recovery worker, no crash of the server.
SPECIFICATION FairLinkSpec
CONSTANTS
  CmdDev = CmdDev
  DataDev = DataDev
  Pid = {p1, p2}
  Worker = {w1}
  Caller = {Main}
  Checker = {}
  Main = Main
  MaxRounds = 2
  MaxQueue = 2
  None = None
INVARIANTS LinkTypeOK QuietMeansServed
PROPERTIES LostListenerReturns
CHECK_DEADLOCK FALSE
