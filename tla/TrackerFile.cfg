\* Two readers and the agent update and save; the server dies and restarts.
SPECIFICATION FairSpec
CONSTANTS
  Reader = {cmd, data}
  Agent = agent
  Watchdog = {w1}
  MaxConnects = 2
  MaxAuths = 1
  None = None
INVARIANTS TypeOK FileCatchesUp CountDurable
PROPERTIES FileComplete SavesEnd
