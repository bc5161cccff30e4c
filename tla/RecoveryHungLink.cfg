\* A recovery is asked for while the listener of a dropped link still exits.
SPECIFICATION LinkFairSpec
CONSTANTS
  CmdDev = CmdDev
  DataDev = DataDev
  Pid = {p1, p2}
  Worker = {w1}
  Caller = {main}
  Checker = {}
  MaxRounds = 2
  None = None
PROPERTIES HungLinkReset
