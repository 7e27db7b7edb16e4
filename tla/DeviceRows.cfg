CONSTANTS
    d1 = d1
    d2 = d2
    s1 = s1
    s2 = s2
    i1 = i1
    None = None
    Devices = {d1, d2}
    Sessions = {s1, s2}
    Instances = {}
    Hosts = 2
    Ips <- MCIps
    Usable <- MCUsable
    NetworkType = "Public"
    RegModes = {"Normal", "PreRegister"}
    ClientTypes = {"Vnt"}
    IpTypes = {"Static"}
    Events = {"upsert", "save_fails", "delete", "expire", "metadata", "disconnect_subscription", "managed_rollback"}
    MaxVersion = 3
    MaxFaults = 1
SPECIFICATION RowsSpec
SYMMETRY Symmetry
VIEW RowsView
INVARIANTS RowsCurrent RowsExclusive ExclusiveOverRestarts
CHECK_DEADLOCK FALSE
