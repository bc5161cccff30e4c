\* A phone is authorized and its socket is never seen.
SPECIFICATION FairSpec
CONSTANTS
  Reader = {cmd}
  Agent = agent
  Watchdog = {w1}
  MaxConnects = 1
  MaxAuths = 1
  None = None
PROPERTIES ZombieReset
