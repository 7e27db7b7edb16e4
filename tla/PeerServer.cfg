SPECIFICATION Spec
CONSTANTS
  Addrs = {a1}
  Links = {l1, l2}
  Tasks = {t1, t2}
  Admins = {m1, m2}
  Nets = {n1, n2}
  Ips = {p1}
  Lats = {1, 2}
  MaxRoutes = 1
  QueueCap = 1
  Exclusive = TRUE
  None = None
  a1 = a1  a2 = a2  l1 = l1  l2 = l2  l3 = l3  t1 = t1  t2 = t2  t3 = t3
  m1 = m1  m2 = m2  n1 = n1  n2 = n2  p1 = p1  p2 = p2
SYMMETRY MCSymmetry
CHECK_DEADLOCK FALSE
INVARIANTS  RouteIsLatest 
