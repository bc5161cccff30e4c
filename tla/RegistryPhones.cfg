\* Two addresses, three connections: a phone that comes back, two phones at once.
SPECIFICATION Spec
CONSTANTS
  Conn = {c1, c2, c3}
  Ip = {ip1, ip2}
  BtIp = bt_client
  Port = {port1}
  MaxBatch = 2
  None = None
SYMMETRY Symmetry
INVARIANTS TypeOK OneClientPerAddress GhostOnlyAfterReset HelloKept
PROPERTIES OnlyOwnEndUnregisters
