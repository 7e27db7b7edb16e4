SPECIFICATION FairSpec
CONSTANTS
  Kinds = {"Wireguard"}
  Devices <- MCDevices1
  Vals <- MCVals
  Admins <- MCAdmins1
  MaxStarts = 1
  MaxShakes = 1
  Faults = FALSE
  None = None
  d1 = d1  d2 = d2  v1 = v1  v2 = v2  a1 = a1  a2 = a2
CHECK_DEADLOCK FALSE
PROPERTY EditCompletes
