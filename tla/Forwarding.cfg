SPECIFICATION FairSpec
CONSTANTS
  Servers = {s1, s2}
  Senders = {s1}
  ClientIps = {p1}
  Lats = {1, 30}
  PeerLats = {1}
  DefaultLatency = 10
  Nil = Nil
  s1 = s1  s2 = s2  p1 = p1
INVARIANTS OnlyAccepted SettledReach
PROPERTY RoutesSettle
