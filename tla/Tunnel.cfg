SPECIFICATION Spec
CONSTANTS
  Kinds = {"Wireguard", "Ikev2"}
  Devices <- MCDevices2
  Vals <- MCVals
  Admins <- MCAdmins2
  MaxStarts = 2
  MaxShakes = 2
  Faults = TRUE
  None = None
  d1 = d1  d2 = d2  v1 = v1  v2 = v2  a1 = a1  a2 = a2
SYMMETRY MCSymmetry
CHECK_DEADLOCK FALSE
INVARIANTS  NoStalePeer NoOrphanPeer NoLostAnswer
