CONSTANTS
    d1 = d1
    d2 = d2
    s1 = s1
    s2 = s2
    i1 = i1
    None = None
    Devices = {d1, d2}
    Sessions = {s1, s2}
    Instances = {i1}
    Hosts = 2
    Ips <- MCIps
    Usable <- MCUsable
    NetworkType = "Public"
    RegModes = {"Normal"}
    ClientTypes = {"Vnt"}
    IpTypes = {"Static"}
    Events = {"upsert", "expire"}
    MaxVersion = 3
    Shown = {"Vnt"}
    MaxAnswers = 1
SPECIFICATION SyncSpec
SYMMETRY Symmetry
INVARIANTS ListExact LiveLinkStaysOnline LegacyGoesOffline
CHECK_DEADLOCK FALSE
