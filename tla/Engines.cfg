CONSTANTS
    k1 = k1
    k2 = k2
    k3 = k3
    c1 = c1
    c2 = c2
    i1 = i1
    d1 = d1
    d2 = d2
    None = None
    Keys = {k1, k2, k3}
    Spis = {c1, c2}
    Inits = {i1}
    Devices = {d1, d2}
    Total = 2
    MaxFragments = 2
    Width = 3
    MaxSeq = 7
    MaxRekeys = 1
    p1 = p1
    p2 = p2
    p3 = p3
    NoPeer = NoPeer
    PublicKeys = {p1, p2, p3}
    Owner <- MCOwner
    Ips = {a1, a2}
    Indexes = {1, 2, 3}
    MaxRelay = 1
SPECIFICATION MCSpec
INVARIANTS TablesAgree LinkExact NoReplay LatePacketAccepted IndexRouting PeersConfigured RelayCurrent
PROPERTIES HalfOpenEnds SilentPeerGoes
