\* A health checker thread runs check_rfcomm_listener beside the worker.
SPECIFICATION Spec
CONSTANTS
  CmdDev = CmdDev
  DataDev = DataDev
  Pid = {p1, p2, p3}
  Worker = {w1}
  Caller = {main}
  Checker = {health}
  MaxRounds = 1
  None = None
SYMMETRY Symmetry
INVARIANTS RestartExclusive
