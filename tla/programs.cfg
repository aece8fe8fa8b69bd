CONSTANTS
  Keys = {k1, k2, k3}
  Fields = {"bytes", "packets", "ingress_bytes", "ingress_packets", "egress_bytes", "egress_packets"}
  Half = 8
  Nil = Nil
  CPUs = {c1, c2, c3}
  Slots = {s1, s2}
  Lens = {2}
  MaxLen = 2
  MaxPackets = 3
SPECIFICATION Spec
SYMMETRY Symmetry
INVARIANTS
  DirectionsAddUp
  OnlyReplacementLoses
PROPERTIES
  ImplementsTrafficMap
CHECK_DEADLOCK FALSE
