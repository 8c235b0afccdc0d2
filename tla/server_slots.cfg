\* Three requests of two clients on two slots, one per client.
SPECIFICATION Spec
CONSTANTS
  Requests = {r1, r2, r3}
  Ips = {a, b}
  NoIp = NoIp
  SlotsPerIp = 1
  MaxConcurrent = 2
SYMMETRY Symmetry
CHECK_DEADLOCK FALSE
INVARIANTS SlotsInv RemarkIsTrue
PROPERTIES NeverLocksOut
