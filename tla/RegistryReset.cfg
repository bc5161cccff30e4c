\* A connection may be reset.
SPECIFICATION Spec
CONSTANTS
  Conn = {c1, c2}
  Ip = {ip1}
  BtIp = bt_client
  Port = {port1}
  MaxBatch = 1
  None = None
INVARIANTS ClearedAfterDisconnect
