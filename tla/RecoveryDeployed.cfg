\* Two threads ask for a recovery: the Qt main thread and the watchdog.
\* Nothing in the program calls check_rfcomm_listener.
SPECIFICATION FairSpec
CONSTANTS
  CmdDev = CmdDev
  DataDev = DataDev
  Pid = {p1, p2}
  Worker = {w1, w2}
  Caller = {main, watchdog}
  Checker = {}
  MaxRounds = 2
  None = None
INVARIANTS TypeOK OneRecovery HandleCoversListener
PROPERTIES RecoverySparesListeners ImplementsSingleFlight DeadListenerRetried
