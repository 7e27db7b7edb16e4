SPECIFICATION MCSpec
CONSTANTS
    Nil = Nil
    Torn = Torn
    Binds = {b1, b2}
    WgBinds = {b1}
    RemoteIds = {i1, i2}
    CustomIds = {i2}
    Codes = {c1}
    Servers = {s1}
    WgKeys = {w1}
    BodyCerts = {"none"}
    CertKeys <- Keys
    MaxFaults = 1
    None = None
    Conns = {q1, q2}
    Instances = {r1}
    Disconnects = TRUE
    Malformed = TRUE
    OutboundCap = 1
    MaxRevision = 2
    MaxEdits = 3
    Absent = Absent
    Clients = {v1}
    Tunnels = {t1}
    Nets = {n1, n2}
    Default = n1
    Files = {Absent, n2}
INVARIANTS SavedServiceRuns  Bootable IssuerOffered   SessionsListed 
PROPERTIES RollbackExact AckMonotone LiveSessionKept
VIEW MCView
CHECK_DEADLOCK FALSE
