CONSTANTS
  Keys = {k1}
  Fields = {"bytes", "packets", "ingress_bytes", "ingress_packets", "egress_bytes", "egress_packets"}
  Half = 8
  Nil = Nil
  CPUs = {c1, c2}
  Slots = {s1}
  Lens = {2}
  MaxLen = 2
  MaxPackets = 2
SPECIFICATION Spec
INVARIANTS
  NothingLost
CHECK_DEADLOCK FALSE
