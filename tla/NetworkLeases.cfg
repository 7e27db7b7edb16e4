CONSTANTS
    d1 = d1
    d2 = d2
    s1 = s1
    s2 = s2
    s3 = s3
    i1 = i1
    None = None
    Devices = {d1, d2}
    Sessions = {s1, s2, s3}
    Instances = {i1}
    Hosts = 2
    Ips <- MCIps
    Usable <- MCUsable
    NetworkType = "Public"
    RegModes = {"Normal", "PreRegister"}
    ClientTypes = {"Vnt"}
    IpTypes = {"Static", "Fixed"}
    Events = {"upsert", "save_fails", "delete", "expire"}
    MaxVersion = 3
SPECIFICATION Spec
SYMMETRY Symmetry
VIEW LeaseView
INVARIANT AddressExclusive
PROPERTY BookKept
CHECK_DEADLOCK FALSE
