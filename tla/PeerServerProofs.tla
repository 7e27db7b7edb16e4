-------------------------- MODULE PeerServerProofs --------------------------
(***************************************************************************)
(* Proofs about PeerServer: the cluster's connections and routes are       *)
(* consistent for any number of peers, tasks and requests, provided that   *)
(* requests about one address are made one at a time.  A live task is      *)
(* either the one kept for its address or one that a removal waits for, so *)
(* an address has at most one; and a listed outbound connection belongs to *)
(* a live task, or its loop was cancelled and the removal has yet to sweep *)
(* it.                                                                     *)
(***************************************************************************)
EXTENDS PeerServer, TLAPS

Alive(t) == task[t].pc \in {"connecting", "linked", "waiting"}
Up(l) == link[l].pc \in {"running", "blocked"}
AwaitedBy(m, t) == /\ admin[m].pc = "stopping" /\ admin[m].task = t
                   /\ admin[m].addr = task[t].addr

\* The tasks and the requests.
TasksKept ==
    /\ \A t \in Tasks : task[t].pc = "none" => task[t] = NoTask
    /\ \A t \in Tasks : task[t].pc # "none" => task[t].addr \in Addrs
    /\ \A a \in Addrs : outbound_tasks[a] # None =>
         /\ Alive(outbound_tasks[a]) /\ ~ task[outbound_tasks[a]].stop
         /\ task[outbound_tasks[a]].addr = a
         /\ a \in rows
    /\ \A t \in Tasks : Alive(t) =>
         outbound_tasks[task[t].addr] = t \/ \E m \in Admins : AwaitedBy(m, t)

RequestsApart ==
    /\ \A m, k \in Admins : admin[m].pc # "idle" /\ admin[k].pc # "idle"
                              /\ admin[m].addr = admin[k].addr => m = k
    /\ \A m \in Admins : admin[m].pc # "idle" =>
         admin[m].addr \in Addrs /\ outbound_tasks[admin[m].addr] = None
    /\ \A m \in Admins : admin[m].pc = "insert" => admin[m].addr \in rows

\* A listed outbound connection is in the hands of its task, or waits to be swept.
LinkedBy(t, l) == task[t].pc = "linked" /\ task[t].link = l
Cancelled(l) == /\ link[l].pc = "cancelled" /\ Stopping(link[l].addr)
                /\ \A t \in Tasks : Alive(t) => task[t].addr # link[l].addr

LinksListed ==
    /\ \A t \in Tasks : task[t].pc = "linked" =>
         /\ task[t].link \in peer_servers /\ Up(task[t].link)
         /\ link[task[t].link].outbound /\ link[task[t].link].addr = task[t].addr
    /\ \A l \in peer_servers : link[l].outbound =>
         /\ link[l].addr \in Addrs
         /\ (\E t \in Tasks : LinkedBy(t, l)) \/ Cancelled(l)
    /\ \A l \in peer_servers : ~ link[l].outbound => Up(l)
    /\ \A l \in Links : Up(l) => link[l].connected /\ l \in peer_servers

\* A route leads through a listed connection, which knows the route's network.
RoutesListed ==
    \A n \in Nets, ip \in Ips, l \in Links :
        ip_to_routes[n][ip][l] # None => l \in peer_servers /\ n \in link[l].codes

PeerInvariant ==
    /\ TypeOK /\ TasksKept /\ RequestsApart /\ LinksListed /\ RoutesListed
    /\ OneConnection /\ RouteIsLatest

-----------------------------------------------------------------------------
(* What the invariant says.                                                 *)

\* An address has at most one live task, and none while a request about it is past
\* the wait for the task.
LEMMA OneTask ==
    ASSUME PeerInvariant
    PROVE  /\ \A t, u \in Tasks : Alive(t) /\ Alive(u) /\ task[t].addr = task[u].addr => t = u
           /\ \A t \in Tasks, m \in Admins :
                Alive(t) /\ admin[m].pc # "idle" /\ admin[m].addr = task[t].addr => AwaitedBy(m, t)
<1> USE PeerAssumption
<1>1. TypeOK /\ TasksKept /\ RequestsApart
  BY Zenon DEF PeerInvariant
<1>2. ASSUME NEW t \in Tasks, NEW m \in Admins,
             Alive(t), admin[m].pc # "idle", admin[m].addr = task[t].addr
      PROVE  AwaitedBy(m, t)
  <2>1. outbound_tasks[task[t].addr] = None /\ t # None
    BY <1>1, <1>2, Zenon DEF RequestsApart
  <2>2. PICK k \in Admins : AwaitedBy(k, t)
    BY <1>1, <1>2, <2>1, Zenon DEF TasksKept
  <2>3. k = m
    BY <1>1, <1>2, <2>2, Zenon DEF RequestsApart, AwaitedBy
  <2> QED BY <2>2, <2>3, Zenon
<1>3. ASSUME NEW t \in Tasks, NEW u \in Tasks, Alive(t), Alive(u), task[t].addr = task[u].addr
      PROVE  t = u
  <2>1. CASE \E m \in Admins : AwaitedBy(m, t)
    <3>1. PICK m \in Admins : AwaitedBy(m, t)
      BY <2>1, Zenon
    <3>2. AwaitedBy(m, u)
      BY <1>2, <1>3, <3>1, Zenon DEF AwaitedBy
    <3> QED BY <3>1, <3>2, Zenon DEF AwaitedBy
  <2>2. CASE \E m \in Admins : AwaitedBy(m, u)
    <3>1. PICK m \in Admins : AwaitedBy(m, u)
      BY <2>2, Zenon
    <3>2. AwaitedBy(m, t)
      BY <1>2, <1>3, <3>1, Zenon DEF AwaitedBy
    <3> QED BY <3>1, <3>2, Zenon DEF AwaitedBy
  <2> QED BY <1>1, <1>3, <2>1, <2>2, Zenon DEF TasksKept
<1> QED BY <1>2, <1>3, Zenon

\* What the runs check of routes follows from the invariant.
LEMMA InvariantRoutes == PeerInvariant => NoDanglingRoute
<1> SUFFICES ASSUME PeerInvariant, NEW n \in Nets, NEW ip \in Ips, NEW l \in Links,
                    ip_to_routes[n][ip][l] # None, ~ Stopping(link[l].addr)
             PROVE  link[l].connected /\ l \in peer_servers /\ Up(l)
  BY Zenon DEF NoDanglingRoute, Up
<1>1. LinksListed /\ l \in peer_servers
  BY Zenon DEF PeerInvariant, RoutesListed
<1>2. Up(l)
  BY <1>1, Zenon DEF LinksListed, LinkedBy, Cancelled
<1> QED BY <1>1, <1>2, Zenon DEF LinksListed

\* The server starts with one task per row and no connection.
LEMMA PeerInit == Init => PeerInvariant
<1> SUFFICES ASSUME Init PROVE PeerInvariant
  BY Zenon
<1> USE PeerAssumption
<1>1. Default \in Lats
  BY Zenon DEF Default
<1>2. ASSUME NEW a \in rows
      PROVE  /\ outbound_tasks[a] \in Tasks
             /\ task[outbound_tasks[a]] = Spawn(outbound_tasks[a], a)
  <2> DEFINE t == outbound_tasks[a]
             b == CHOOSE c \in rows : outbound_tasks[c] = t
  <2>1. t \in Tasks /\ a \in Addrs
    BY Zenon DEF Init
  <2>2. b \in rows /\ outbound_tasks[b] = t
    BY Zenon
  <2>3. b = a
    BY <2>2, Zenon DEF Init
  <2>4. task[t] = Spawn(t, b)
    BY <2>1, Zenon DEF Init
  <2> QED BY <2>1, <2>3, <2>4, Zenon
<1>3. ASSUME NEW t \in Tasks, ~ \E a \in rows : outbound_tasks[a] = t
      PROVE  task[t] = NoTask
  BY <1>3, Zenon DEF Init
<1>4. rows \subseteq Addrs
  BY Zenon DEF Init
<1>5. NoTask \in Task /\ NoTask.pc = "none" /\ \A t \in Tasks, a \in rows : Spawn(t, a) \in Task
  BY <1>4, Zenon DEF NoTask, Spawn, Task
<1>6. ASSUME NEW t \in Tasks
      PROVE  /\ task[t] \in Task
             /\ \/ task[t] = NoTask /\ task[t].pc = "none"
                \/ /\ task[t].pc = "connecting" /\ task[t].addr \in rows
                   /\ outbound_tasks[task[t].addr] = t
  <2>1. CASE \E a \in rows : outbound_tasks[a] = t
    <3>1. PICK a \in rows : outbound_tasks[a] = t
      BY <2>1, Zenon
    <3>2. task[t] = Spawn(t, a)
      BY <1>2, <3>1, Zenon
    <3> QED BY <1>5, <3>1, <3>2 DEF Spawn
  <2>2. CASE ~ \E a \in rows : outbound_tasks[a] = t
    BY <1>3, <1>5, <2>2, Zenon
  <2> QED BY <2>1, <2>2, Zenon
<1>8. task \in [Tasks -> Task]
  <2>1. task = [t \in Tasks |-> task[t]]
    BY Zenon DEF Init
  <2> QED BY <1>6, <2>1, Zenon
<1>9. \A l \in Links : link[l] = [pc |-> "none", addr |-> None, outbound |-> FALSE,
                                  connected |-> FALSE, latency |-> Default, codes |-> {},
                                  queued |-> 0]
  BY Zenon DEF Init, Opened
<1>10. link \in [Links -> Link]
  <2>1. 0 \in 0 .. QueueCap /\ {} \in SUBSET Nets
    BY DEF PeerAssumption
  <2>2. \A l \in Links : link[l] \in Link
    <3>1. ASSUME NEW x \in Lats, NEW c \in SUBSET Nets, NEW q \in 0 .. QueueCap
          PROVE  [pc |-> "none", addr |-> None, outbound |-> FALSE, connected |-> FALSE,
                  latency |-> x, codes |-> c, queued |-> q] \in Link
      BY Zenon DEF Link
    <3> QED BY <1>1, <1>9, <2>1, <3>1, Zenon
  <2>3. link = [l \in Links |-> link[l]]
    BY Zenon DEF Init
  <2> QED BY <2>2, <2>3, Zenon
<1>11. TypeOK
  BY <1>4, <1>8, <1>10, Zenon DEF Init, TypeOK, Idle, Admin
<1>12. TasksKept
  <2>1. \A t \in Tasks : task[t].pc = "none" => task[t] = NoTask
    BY <1>6, Zenon
  <2>2. \A t \in Tasks : task[t].pc # "none" => task[t].addr \in Addrs
    BY <1>4, <1>6, Zenon
  <2>3. \A a \in Addrs : outbound_tasks[a] # None =>
         /\ Alive(outbound_tasks[a]) /\ ~ task[outbound_tasks[a]].stop
         /\ task[outbound_tasks[a]].addr = a
         /\ a \in rows
    BY <1>2, Zenon DEF Init, Alive, Spawn
  <2>4. \A t \in Tasks : Alive(t) => outbound_tasks[task[t].addr] = t
    BY <1>6, Zenon DEF Alive
  <2> QED BY <2>1, <2>2, <2>3, <2>4, Zenon DEF TasksKept
<1>13. RequestsApart
  BY Zenon DEF Init, RequestsApart, Idle
<1>14. LinksListed
  <2>1. \A t \in Tasks : task[t].pc # "linked"
    BY <1>6, Zenon
  <2>2. peer_servers = {}
    BY Zenon DEF Init
  <2>3. \A l \in Links : ~ Up(l)
    BY <1>9 DEF Up
  <2> QED BY <2>1, <2>2, <2>3, Zenon DEF LinksListed
<1>15. RoutesListed /\ OneConnection /\ RouteIsLatest
  BY Zenon DEF Init, RoutesListed, OneConnection, RouteIsLatest
<1> QED BY <1>11, <1>12, <1>13, <1>14, <1>15, Zenon DEF PeerInvariant

-----------------------------------------------------------------------------
(* The loop of a connection.                                                *)

\* What the loop's own steps leave of a connection: all but its latency, its queue, the
\* networks it has seen, and whether it is blocked.
SameLink(l) ==
    /\ link'[l].addr = link[l].addr /\ link'[l].outbound = link[l].outbound
    /\ link'[l].connected = link[l].connected
    /\ link[l].codes \subseteq link'[l].codes
    /\ Up(l)' = Up(l)
    /\ (link'[l].pc = "cancelled") = (link[l].pc = "cancelled")

\* Such steps keep tasks and connections in order.
LEMMA LoopKeeps ==
    ASSUME PeerInvariant, \A l \in Links : SameLink(l),
           UNCHANGED <<rows, outbound_tasks, task, peer_servers, admin>>
    PROVE  TasksKept' /\ RequestsApart' /\ LinksListed' /\ OneConnection'
<1>1. TypeOK /\ TasksKept /\ RequestsApart /\ LinksListed /\ OneConnection
  BY Zenon DEF PeerInvariant
<1>2. TasksKept'
  BY <1>1 DEF TasksKept, Alive, AwaitedBy
<1>3. RequestsApart'
  BY <1>1, Zenon DEF RequestsApart
<1>4. peer_servers \subseteq Links
  BY <1>1, Zenon DEF TypeOK
<1>5. LinksListed'
  <2>1. ASSUME NEW t \in Tasks, task'[t].pc = "linked"
        PROVE  /\ task'[t].link \in peer_servers' /\ Up(task[t].link)'
               /\ link'[task'[t].link].outbound /\ link'[task'[t].link].addr = task'[t].addr
    BY <1>1, <1>4, <2>1, Zenon DEF LinksListed, SameLink
  <2>2. ASSUME NEW l \in peer_servers, link'[l].outbound
        PROVE  /\ link'[l].addr \in Addrs
               /\ (\E t \in Tasks : LinkedBy(t, l)') \/ Cancelled(l)'
    <3>1. l \in Links /\ SameLink(l) /\ link[l].outbound
      BY <1>4, <2>2, Zenon DEF SameLink
    <3>2. link[l].addr \in Addrs
      BY <1>1, <3>1, Zenon DEF LinksListed
    <3>3. CASE \E t \in Tasks : LinkedBy(t, l)
      BY <3>1, <3>2, <3>3, Zenon DEF LinkedBy, SameLink
    <3>4. CASE Cancelled(l)
      BY <3>1, <3>2, <3>4 DEF Cancelled, Stopping, Alive, SameLink
    <3> QED BY <1>1, <3>1, <3>3, <3>4, Zenon DEF LinksListed
  <2>3. \A l \in peer_servers : ~ link'[l].outbound => Up(l)'
    BY <1>1, <1>4, Zenon DEF LinksListed, SameLink
  <2>4. \A l \in Links : Up(l)' => link'[l].connected /\ l \in peer_servers
    BY <1>1, Zenon DEF LinksListed, SameLink
  <2> QED BY <2>1, <2>2, <2>3, <2>4, Zenon DEF LinksListed, LinkedBy, Up
<1>6. OneConnection'
  BY <1>1, <1>4 DEF OneConnection, SameLink
<1> QED BY <1>2, <1>3, <1>5, <1>6, Zenon

\* Routes are kept by a step that touches neither them nor the reports.
LEMMA RoutesKept ==
    ASSUME PeerInvariant, UNCHANGED <<ip_to_routes, answered>>,
           \A l \in peer_servers : l \in peer_servers' /\ link[l].codes \subseteq link'[l].codes
    PROVE  RoutesListed' /\ RouteIsLatest'
BY Zenon DEF PeerInvariant, RoutesListed, RouteIsLatest

\* Queueing a frame, writing one and a measured latency.
LEMMA LoopSteps ==
    ASSUME PeerInvariant, NEW l \in Links,
           \/ QueueFrame(l) \/ WriteFrame(l)
           \/ \E x \in Lats : handle_ping_response(l, x)
    PROVE  PeerInvariant'
<1>1. TypeOK
  BY Zenon DEF PeerInvariant
<1>2. /\ link \in [Links -> Link] /\ link[l] \in Link /\ Running(l)
  BY <1>1, Zenon DEF TypeOK, QueueFrame, WriteFrame, handle_ping_response
<1>3. UNCHANGED <<rows, outbound_tasks, task, peer_servers, admin>>
        /\ UNCHANGED <<ip_to_routes, answered>>
  BY Zenon DEF QueueFrame, WriteFrame, handle_ping_response
<1>4. link' \in [Links -> Link] /\ \A k \in Links : SameLink(k)
  <2>1. CASE QueueFrame(l)
    <3>1. CASE ~ link[l].connected
      BY <1>2, <2>1, <3>1, Zenon DEF QueueFrame, Send, SameLink, Up
    <3>2. CASE link[l].connected /\ link[l].queued = QueueCap
      BY <1>2, <2>1, <3>2 DEF QueueFrame, Send, SameLink, Up, Running, Link
    <3>3. CASE link[l].connected /\ link[l].queued # QueueCap
      <4>1. link[l].queued + 1 \in 0 .. QueueCap
        BY <1>2, <3>3, PeerAssumption DEF Link
      <4> QED BY <1>2, <2>1, <3>3, <4>1, Zenon DEF QueueFrame, Send, SameLink, Up, Link
    <3> QED BY <3>1, <3>2, <3>3, Zenon
  <2>2. CASE WriteFrame(l)
    <3>1. link[l].queued - 1 \in 0 .. QueueCap
      BY <1>2, <2>2, PeerAssumption DEF Link, WriteFrame
    <3> QED BY <1>2, <2>2, <3>1, Zenon DEF WriteFrame, SameLink, Up, Link
  <2>3. ASSUME NEW x \in Lats, handle_ping_response(l, x)
        PROVE  link' \in [Links -> Link] /\ \A k \in Links : SameLink(k)
    BY <1>2, <2>3, Zenon DEF handle_ping_response, SameLink, Up, Link
  <2> QED BY <2>1, <2>2, <2>3, Zenon
<1>5. TypeOK'
  BY <1>1, <1>3, <1>4, Zenon DEF TypeOK
<1>6. RoutesListed' /\ RouteIsLatest'
  BY <1>1, <1>3, <1>4, RoutesKept, Zenon DEF TypeOK, SameLink
<1> QED BY <1>3, <1>4, <1>5, <1>6, LoopKeeps, Zenon DEF PeerInvariant

\* A report of the peer's clients.
LEMMA ReportStep ==
    ASSUME PeerInvariant, NEW l \in Links, NEW n \in Nets, NEW clients \in [Ips -> Lats \cup {None}],
           handle_client_info_response(l, n, clients)
    PROVE  PeerInvariant'
<1>1. TypeOK /\ LinksListed /\ RoutesListed /\ RouteIsLatest
  BY Zenon DEF PeerInvariant
<1>2. link \in [Links -> Link] /\ link[l] \in Link /\ Running(l)
  BY <1>1, Zenon DEF TypeOK, handle_client_info_response
<1>3. UNCHANGED <<rows, outbound_tasks, task, peer_servers, admin>>
  BY Zenon DEF handle_client_info_response
<1>4. link' \in [Links -> Link] /\ \A k \in Links : SameLink(k)
  BY <1>2, Zenon DEF handle_client_info_response, SameLink, Up, Link
<1>5. n \in link'[l].codes /\ l \in peer_servers
  BY <1>1, <1>2 DEF handle_client_info_response, LinksListed, Up, Running, Link
<1>6. PICK keep \in [Ips -> SUBSET Links] :
        ip_to_routes' = [ip_to_routes EXCEPT ![n] = [ip \in Ips |-> [k \in Links |->
            IF k \in keep[ip] THEN Learned(n, clients, l, ip)[k] ELSE None]]]
  BY Zenon DEF handle_client_info_response
<1>7. ASSUME NEW c \in Nets, NEW ip \in Ips, NEW k \in Links
      PROVE  \/ ip_to_routes'[c][ip][k] = None
             \/ ip_to_routes'[c][ip][k] = ip_to_routes[c][ip][k] /\ ~ (c = n /\ k = l)
             \/ ip_to_routes'[c][ip][k] = clients[ip] /\ c = n /\ k = l
  BY <1>1, <1>6 DEF TypeOK, Learned
<1>8. ip_to_routes' \in [Nets -> [Ips -> [Links -> Lats \cup {None}]]]
  <2>1. \A ip \in Ips, k \in Links : Learned(n, clients, l, ip)[k] \in Lats \cup {None}
    BY <1>1 DEF TypeOK, Learned
  <2>2. [ip \in Ips |-> [k \in Links |->
            IF k \in keep[ip] THEN Learned(n, clients, l, ip)[k] ELSE None]]
          \in [Ips -> [Links -> Lats \cup {None}]]
    BY <2>1, Zenon
  <2> QED BY <1>1, <1>6, <2>2, Zenon DEF TypeOK
<1>9. answered' \in [Links -> [Nets -> [Ips -> Lats \cup {None}]]]
        /\ answered'[l][n] = clients
        /\ \A k \in Links, c \in Nets : ~ (c = n /\ k = l) => answered'[k][c] = answered[k][c]
  BY <1>1, Zenon DEF TypeOK, handle_client_info_response
<1>10. TypeOK'
  BY <1>1, <1>3, <1>4, <1>8, <1>9, Zenon DEF TypeOK
<1>11. RoutesListed'
  BY <1>1, <1>3, <1>4, <1>5, <1>7 DEF RoutesListed, SameLink
<1>12. RouteIsLatest'
  <2> SUFFICES ASSUME NEW c \in Nets, NEW ip \in Ips, NEW k \in Links
               PROVE  ip_to_routes'[c][ip][k] \in {None, answered'[k][c][ip]}
    BY Zenon DEF RouteIsLatest
  <2>1. CASE c = n /\ k = l
    BY <1>7, <1>9, <2>1
  <2>2. CASE ~ (c = n /\ k = l)
    <3>1. ip_to_routes[c][ip][k] \in {None, answered[k][c][ip]}
      BY <1>1, Zenon DEF RouteIsLatest
    <3>2. answered'[k][c] = answered[k][c]
      BY <1>9, <2>2, Zenon
    <3> QED BY <1>7, <2>2, <3>1, <3>2, Zenon
  <2> QED BY <2>1, <2>2, Zenon
<1> QED BY <1>3, <1>4, <1>10, <1>11, <1>12, LoopKeeps, Zenon DEF PeerInvariant

-----------------------------------------------------------------------------
(* Connections that come and go.                                            *)

\* A new connection has the type of one.
LEMMA OpenedTyped ==
    \A a \in Addrs \cup {None} : Opened(a, TRUE) \in Link /\ Opened(a, FALSE) \in Link
<1>1. Default \in Lats
  BY PeerAssumption, Zenon DEF Default
<1>2. 0 \in 0 .. QueueCap /\ {} \in SUBSET Nets
  BY PeerAssumption
<1> QED BY <1>1, <1>2, Zenon DEF Opened, Link

\* A connection not yet open is not listed and no task has it.
LEMMA Fresh ==
    ASSUME PeerInvariant, NEW l \in Links, link[l].pc = "none"
    PROVE  /\ l \notin peer_servers
           /\ \A t \in Tasks : ~ LinkedBy(t, l)
           /\ \A n \in Nets, ip \in Ips : ip_to_routes[n][ip][l] = None
<1>1. ~ Up(l) /\ ~ Cancelled(l)
  BY Zenon DEF Up, Cancelled
<1>2. \A t \in Tasks : ~ LinkedBy(t, l)
  BY <1>1, Zenon DEF PeerInvariant, LinksListed, LinkedBy
<1>3. l \notin peer_servers
  BY <1>1, <1>2, Zenon DEF PeerInvariant, LinksListed
<1> QED BY <1>2, <1>3, Zenon DEF PeerInvariant, RoutesListed

\* Another server connects.
LEMMA AcceptStep ==
    ASSUME PeerInvariant, NEW l \in Links, Accept(l)
    PROVE  PeerInvariant'
<1>1. TypeOK /\ TasksKept /\ RequestsApart /\ LinksListed /\ OneConnection /\ RoutesListed
  BY Zenon DEF PeerInvariant
<1>2. /\ link \in [Links -> Link] /\ peer_servers \subseteq Links
      /\ l \notin peer_servers /\ \A t \in Tasks : ~ LinkedBy(t, l)
      /\ UNCHANGED <<rows, outbound_tasks, task, ip_to_routes, answered, admin>>
  BY <1>1, Fresh, Zenon DEF TypeOK, Accept
<1>3. /\ \A k \in Links : k # l => link'[k] = link[k]
      /\ link'[l].pc = "running" /\ link'[l].outbound = FALSE /\ link'[l].connected = TRUE
      /\ peer_servers' = peer_servers \cup {l}
  BY <1>2, Zenon DEF Accept, Opened
<1>4. TypeOK'
  <2>1. link' \in [Links -> Link]
    BY <1>2, OpenedTyped, Zenon DEF Accept
  <2> QED BY <1>1, <1>2, <1>3, <2>1, Zenon DEF TypeOK
<1>5. TasksKept'
  BY <1>1, <1>2 DEF TasksKept, Alive, AwaitedBy
<1>6. RequestsApart'
  BY <1>1, <1>2, Zenon DEF RequestsApart
<1>7. LinksListed'
  <2>1. ASSUME NEW k \in peer_servers, link[k].outbound
        PROVE  (\E t \in Tasks : LinkedBy(t, k)') \/ Cancelled(k)'
    <3>1. link'[k] = link[k]
      BY <1>2, <1>3, Zenon
    <3>2. CASE \E t \in Tasks : LinkedBy(t, k)
      BY <1>2, <3>2, Zenon DEF LinkedBy
    <3>3. CASE Cancelled(k)
      BY <1>2, <3>1, <3>3, Zenon DEF Cancelled, Stopping, Alive
    <3> QED BY <1>1, <2>1, <3>2, <3>3, Zenon DEF LinksListed
  <2> QED BY <1>1, <1>2, <1>3, <2>1 DEF LinksListed, LinkedBy, Up
<1>8. OneConnection'
  BY <1>1, <1>2, <1>3 DEF OneConnection
<1>9. RoutesListed' /\ RouteIsLatest'
  BY <1>2, <1>3, RoutesKept, Zenon
<1> QED BY <1>4, <1>5, <1>6, <1>7, <1>8, <1>9, Zenon DEF PeerInvariant

\* A task that moves on without starting or ending stays the one kept or waited for.
LEMMA TaskMoves ==
    ASSUME PeerInvariant, UNCHANGED <<rows, outbound_tasks, admin>>,
           \A u \in Tasks : /\ Alive(u)' = Alive(u)
                            /\ task'[u].addr = task[u].addr /\ task'[u].stop = task[u].stop
                            /\ Alive(u) \/ task'[u] = task[u]
    PROVE  TasksKept'
<1>1. TasksKept /\ TypeOK
  BY Zenon DEF PeerInvariant
<1>2. \A u \in Tasks : task'[u].pc = "none" => task'[u] = NoTask
  BY <1>1 DEF TasksKept, Alive
<1>3. \A u \in Tasks : task'[u].pc # "none" => task'[u].addr \in Addrs
  BY <1>1, Zenon DEF TasksKept, Alive
<1>4. \A a \in Addrs : outbound_tasks'[a] # None =>
         /\ Alive(outbound_tasks[a])' /\ ~ task'[outbound_tasks'[a]].stop
         /\ task'[outbound_tasks'[a]].addr = a
         /\ a \in rows'
  BY <1>1 DEF TasksKept, TypeOK, Alive
<1>5. \A u \in Tasks, m \in Admins : AwaitedBy(m, u)' = AwaitedBy(m, u)
  BY Zenon DEF AwaitedBy
<1>6. \A u \in Tasks : Alive(u)' =>
         outbound_tasks'[task'[u].addr] = u \/ \E m \in Admins : AwaitedBy(m, u)'
  BY <1>1, <1>5 DEF TasksKept
<1> QED BY <1>2, <1>3, <1>4, <1>6, Zenon DEF TasksKept, Alive, AwaitedBy

\* A task connects: its address has no connection, because the task is its only live one.
LEMMA ConnectStep ==
    ASSUME PeerInvariant, NEW l \in Links, NEW t \in Tasks, Connect(t, l)
    PROVE  PeerInvariant'
<1>1. TypeOK /\ TasksKept /\ RequestsApart /\ LinksListed /\ OneConnection /\ RoutesListed
  BY Zenon DEF PeerInvariant
<1>2. /\ link \in [Links -> Link] /\ task \in [Tasks -> Task] /\ peer_servers \subseteq Links
      /\ l \notin peer_servers /\ \A u \in Tasks : ~ LinkedBy(u, l)
      /\ UNCHANGED <<rows, outbound_tasks, ip_to_routes, answered, admin>>
  BY <1>1, Fresh, Zenon DEF TypeOK, Connect
<1>3. /\ \A k \in Links : k # l => link'[k] = link[k]
      /\ link'[l].pc = "running" /\ link'[l].outbound = TRUE /\ link'[l].connected = TRUE
      /\ link'[l].addr = task[t].addr
      /\ peer_servers' = peer_servers \cup {l}
  BY <1>2, Zenon DEF Connect, Opened
<1>4. /\ task[t].pc = "connecting" /\ Alive(t) /\ task[t].addr \in Addrs
      /\ \A u \in Tasks : u # t => task'[u] = task[u]
      /\ task'[t].pc = "linked" /\ task'[t].link = l
      /\ task'[t].addr = task[t].addr /\ task'[t].stop = task[t].stop
  BY <1>1, <1>2 DEF Connect, Alive, TasksKept, Task
<1>5. \A u \in Tasks : Alive(u)' = Alive(u) /\ task'[u].addr = task[u].addr
  BY <1>4 DEF Alive
<1>6. TypeOK'
  <2>1. link' \in [Links -> Link]
    BY <1>2, <1>4, OpenedTyped, Zenon DEF Connect
  <2>2. task' \in [Tasks -> Task]
    BY <1>2, ZenonT(30) DEF Connect, Task
  <2> QED BY <1>1, <1>2, <1>3, <2>1, <2>2, Zenon DEF TypeOK
<1>7. TasksKept'
  BY <1>2, <1>4, <1>5, TaskMoves, Zenon
<1>8. RequestsApart'
  BY <1>1, <1>2, Zenon DEF RequestsApart
<1>9. ASSUME NEW k \in peer_servers, link[k].outbound
      PROVE  link[k].addr # task[t].addr /\ ((\E u \in Tasks : LinkedBy(u, k)') \/ Cancelled(k)')
  <2>1. link'[k] = link[k]
    BY <1>2, <1>3, Zenon
  <2>2. CASE \E u \in Tasks : LinkedBy(u, k)
    <3>1. PICK u \in Tasks : LinkedBy(u, k)
      BY <2>2, Zenon
    <3>2. u # t /\ Alive(u) /\ task[u].addr = link[k].addr
      BY <1>1, <1>4, <3>1, Zenon DEF LinkedBy, Alive, LinksListed
    <3>3. task[u].addr # task[t].addr
      BY <1>4, <3>2, OneTask, Zenon
    <3> QED BY <1>4, <3>1, <3>2, <3>3, Zenon DEF LinkedBy
  <2>3. CASE Cancelled(k)
    BY <1>2, <1>4, <1>5, <2>1, <2>3, Zenon DEF Cancelled, Stopping
  <2> QED BY <1>1, <1>9, <2>2, <2>3, Zenon DEF LinksListed
<1>10. LinksListed'
  <2>1. ASSUME NEW u \in Tasks, task'[u].pc = "linked"
        PROVE  /\ task'[u].link \in peer_servers' /\ link'[task'[u].link].pc \in {"running", "blocked"}
               /\ link'[task'[u].link].outbound /\ link'[task'[u].link].addr = task'[u].addr
    <3>1. CASE u = t
      BY <1>3, <1>4, <3>1, Zenon
    <3>2. CASE u # t
      <4>1. task'[u] = task[u] /\ task[u].link # l
        BY <1>2, <1>4, <2>1, <3>2, Zenon DEF LinkedBy
      <4> QED BY <1>1, <1>2, <1>3, <2>1, <4>1 DEF LinksListed, Up
    <3> QED BY <3>1, <3>2, Zenon
  <2>2. LinkedBy(t, l)'
    BY <1>4, Zenon DEF LinkedBy
  <2>3. ASSUME NEW k \in peer_servers', link'[k].outbound
        PROVE  /\ link'[k].addr \in Addrs
               /\ (\E u \in Tasks : LinkedBy(u, k)') \/ Cancelled(k)'
    <3>1. CASE k = l
      BY <1>3, <1>4, <2>2, <3>1, Zenon
    <3>2. CASE k # l
      <4>1. k \in peer_servers /\ link'[k] = link[k]
        BY <1>2, <1>3, <3>2, Zenon
      <4> QED BY <1>1, <1>9, <2>3, <4>1, Zenon DEF LinksListed
    <3> QED BY <3>1, <3>2, Zenon
  <2>4. \A k \in peer_servers' : ~ link'[k].outbound => link'[k].pc \in {"running", "blocked"}
    BY <1>1, <1>2, <1>3, Zenon DEF LinksListed, Up
  <2>5. \A k \in Links : link'[k].pc \in {"running", "blocked"} =>
                           link'[k].connected /\ k \in peer_servers'
    BY <1>1, <1>2, <1>3, Zenon DEF LinksListed, Up
  <2> QED BY <2>1, <2>3, <2>4, <2>5, Zenon DEF LinksListed, LinkedBy, Up
<1>11. OneConnection'
  BY <1>1, <1>2, <1>3, <1>9 DEF OneConnection
<1>12. RoutesListed' /\ RouteIsLatest'
  BY <1>2, <1>3, RoutesKept, Zenon
<1> QED BY <1>6, <1>7, <1>8, <1>10, <1>11, <1>12, Zenon DEF PeerInvariant

\* A failed attempt, and the next one.
LEMMA RetrySteps ==
    ASSUME PeerInvariant, NEW t \in Tasks, ConnectFails(t) \/ Reconnect(t)
    PROVE  PeerInvariant'
<1>1. TypeOK /\ TasksKept /\ RequestsApart /\ LinksListed /\ OneConnection
  BY Zenon DEF PeerInvariant
<1>2. /\ task \in [Tasks -> Task] /\ task[t].pc \in {"connecting", "waiting"}
      /\ UNCHANGED <<rows, outbound_tasks, link, peer_servers, ip_to_routes, answered, admin>>
  BY <1>1, Zenon DEF TypeOK, ConnectFails, Reconnect
<1>3. /\ \A u \in Tasks : u # t => task'[u] = task[u]
      /\ task'[t].pc \in {"connecting", "waiting"}
      /\ task'[t].addr = task[t].addr /\ task'[t].stop = task[t].stop
  BY <1>2 DEF ConnectFails, Reconnect, Task
<1>4. \A u \in Tasks : /\ Alive(u)' = Alive(u) /\ task'[u].addr = task[u].addr
                       /\ \A l \in Links : LinkedBy(u, l)' = LinkedBy(u, l)
  BY <1>2, <1>3 DEF Alive, LinkedBy
<1>5. TypeOK'
  <2>1. task' \in [Tasks -> Task]
    BY <1>2 DEF ConnectFails, Reconnect, Task
  <2> QED BY <1>1, <1>2, <2>1, Zenon DEF TypeOK
<1>6. TasksKept'
  BY <1>2, <1>3, <1>4, TaskMoves, Zenon DEF Alive
<1>7. RequestsApart' /\ OneConnection'
  BY <1>1, <1>2, Zenon DEF RequestsApart, OneConnection
<1>8. LinksListed'
  <2>1. \A l \in Links : Cancelled(l)' = Cancelled(l)
    BY <1>2, <1>4, Zenon DEF Cancelled, Stopping
  <2>2. \A u \in Tasks : task'[u].pc = "linked" => task'[u] = task[u]
    BY <1>3, Zenon
  <2>3. \A u \in Tasks : task'[u].pc = "linked" =>
          /\ task'[u].link \in peer_servers /\ Up(task'[u].link)
          /\ link[task'[u].link].outbound /\ link[task'[u].link].addr = task'[u].addr
    BY <1>1, <2>2, Zenon DEF LinksListed
  <2>4. ASSUME NEW l \in peer_servers, link[l].outbound
        PROVE  link[l].addr \in Addrs /\ ((\E u \in Tasks : LinkedBy(u, l)') \/ Cancelled(l)')
    <3>1. l \in Links /\ link[l].addr \in Addrs /\ ((\E u \in Tasks : LinkedBy(u, l)) \/ Cancelled(l))
      BY <1>1, <2>4, Zenon DEF LinksListed, TypeOK
    <3> QED BY <1>4, <2>1, <3>1, Zenon
  <2>5. /\ \A l \in peer_servers : ~ link[l].outbound => Up(l)
        /\ \A l \in Links : Up(l) => link[l].connected /\ l \in peer_servers
    BY <1>1, Zenon DEF LinksListed
  <2> QED BY <1>2, <2>3, <2>4, <2>5, Zenon DEF LinksListed, Up
<1>9. RoutesListed' /\ RouteIsLatest'
  BY <1>2, RoutesKept, Zenon
<1> QED BY <1>5, <1>6, <1>7, <1>8, <1>9, Zenon DEF PeerInvariant

\* A connection breaks: its epilogue leaves nothing of it.
LEMMA LoopEndsStep ==
    ASSUME PeerInvariant, NEW l \in Links, LoopEnds(l)
    PROVE  PeerInvariant'
<1>1. TypeOK /\ TasksKept /\ RequestsApart /\ LinksListed /\ OneConnection /\ RoutesListed
        /\ RouteIsLatest
  BY Zenon DEF PeerInvariant
<1>2. /\ link \in [Links -> Link] /\ task \in [Tasks -> Task] /\ peer_servers \subseteq Links
      /\ link[l] \in Link /\ link[l].pc = "running"
      /\ UNCHANGED <<rows, outbound_tasks, answered, admin>>
      /\ peer_servers' = peer_servers \ {l}
  BY <1>1, Zenon DEF TypeOK, LoopEnds, Running
<1>3. /\ \A k \in Links : k # l => link'[k] = link[k]
      /\ link'[l].pc = "gone"
  BY <1>2 DEF LoopEnds
<1>4. \A u \in Tasks : /\ LinkedBy(u, l) => /\ task'[u].pc = "waiting"
                                            /\ task'[u].addr = task[u].addr
                                            /\ task'[u].stop = task[u].stop
                       /\ ~ LinkedBy(u, l) => task'[u] = task[u]
  BY <1>2, Zenon DEF LoopEnds, LinkedBy, Task
<1>5. \A u \in Tasks : Alive(u)' = Alive(u) /\ task'[u].addr = task[u].addr
  BY <1>4 DEF Alive, LinkedBy
<1>6. /\ ip_to_routes' \in [Nets -> [Ips -> [Links -> Lats \cup {None}]]]
      /\ \A n \in Nets, ip \in Ips, k \in Links :
           /\ ip_to_routes'[n][ip][k] \in {None, ip_to_routes[n][ip][k]}
           /\ k = l /\ n \in link[l].codes => ip_to_routes'[n][ip][k] = None
  <2>1. link[l].codes \in SUBSET Nets
    BY <1>2, Zenon DEF Link
  <2>2. ip_to_routes' = Without({l}, link[l].codes)
    BY Zenon DEF LoopEnds, cleanup_routes
  <2>3. ip_to_routes' \in [Nets -> [Ips -> [Links -> Lats \cup {None}]]]
    BY <1>1, <2>2 DEF TypeOK, Without
  <2>4. ASSUME NEW n \in Nets, NEW ip \in Ips, NEW k \in Links
        PROVE  /\ ip_to_routes'[n][ip][k] \in {None, ip_to_routes[n][ip][k]}
               /\ k = l /\ n \in link[l].codes => ip_to_routes'[n][ip][k] = None
    BY <2>2, Zenon DEF Without
  <2> QED BY <2>3, <2>4, Zenon
<1>7. TypeOK'
  <2>1. link' \in [Links -> Link]
    BY <1>2, Zenon DEF LoopEnds, Link
  <2>2. task' \in [Tasks -> Task]
    BY <1>2 DEF LoopEnds, Task
  <2> QED BY <1>1, <1>2, <1>6, <2>1, <2>2, Zenon DEF TypeOK
<1>8. TasksKept'
  <2>1. \A u \in Tasks : /\ task'[u].stop = task[u].stop
                         /\ Alive(u) \/ task'[u] = task[u]
    BY <1>4, Zenon DEF Alive, LinkedBy
  <2> QED BY <1>2, <1>5, <2>1, TaskMoves, Zenon
<1>9. RequestsApart' /\ OneConnection'
  BY <1>1, <1>2, <1>3 DEF RequestsApart, OneConnection
<1>10. LinksListed'
  <2>1. ASSUME NEW u \in Tasks, task'[u].pc = "linked"
        PROVE  /\ task'[u].link \in peer_servers' /\ link'[task'[u].link].pc \in {"running", "blocked"}
               /\ link'[task'[u].link].outbound /\ link'[task'[u].link].addr = task'[u].addr
    <3>1. task'[u] = task[u] /\ task[u].link # l
      BY <1>4, <2>1, Zenon DEF LinkedBy
    <3>2. task[u].link \in peer_servers
      BY <1>1, <2>1, <3>1, Zenon DEF LinksListed
    <3> QED BY <1>1, <1>2, <1>3, <2>1, <3>1, <3>2 DEF LinksListed, Up
  <2>2. ASSUME NEW k \in peer_servers', link'[k].outbound
        PROVE  /\ link'[k].addr \in Addrs
               /\ (\E u \in Tasks : LinkedBy(u, k)') \/ Cancelled(k)'
    <3>1. k \in peer_servers /\ k # l /\ link'[k] = link[k]
      BY <1>2, <1>3, Zenon
    <3>2. CASE \E u \in Tasks : LinkedBy(u, k)
      BY <1>1, <1>4, <2>2, <3>1, <3>2, Zenon DEF LinkedBy, LinksListed
    <3>3. CASE Cancelled(k)
      BY <1>1, <1>2, <1>5, <2>2, <3>1, <3>3 DEF Cancelled, Stopping, LinksListed
    <3> QED BY <1>1, <2>2, <3>1, <3>2, <3>3, Zenon DEF LinksListed
  <2>3. \A k \in peer_servers' : ~ link'[k].outbound => link'[k].pc \in {"running", "blocked"}
    BY <1>1, <1>2, <1>3, Zenon DEF LinksListed, Up
  <2>4. \A k \in Links : link'[k].pc \in {"running", "blocked"} =>
                           link'[k].connected /\ k \in peer_servers'
    BY <1>1, <1>2, <1>3, Zenon DEF LinksListed, Up
  <2> QED BY <2>1, <2>2, <2>3, <2>4, Zenon DEF LinksListed, LinkedBy, Up
<1>11. RoutesListed'
  <2>1. ASSUME NEW n \in Nets, NEW ip \in Ips, NEW k \in Links, ip_to_routes'[n][ip][k] # None
        PROVE  k \in peer_servers' /\ n \in link'[k].codes
    <3>1. ip_to_routes[n][ip][k] # None /\ ~ (k = l /\ n \in link[l].codes)
      BY <1>6, <2>1, Zenon
    <3>2. k \in peer_servers /\ n \in link[k].codes
      BY <1>1, <3>1, Zenon DEF RoutesListed
    <3> QED BY <1>2, <1>3, <3>1, <3>2, Zenon
  <2> QED BY <2>1, Zenon DEF RoutesListed
<1>12. RouteIsLatest'
  BY <1>1, <1>2, <1>6 DEF RouteIsLatest
<1> QED BY <1>7, <1>8, <1>9, <1>10, <1>11, <1>12, Zenon DEF PeerInvariant

-----------------------------------------------------------------------------
(* Tasks that end, and the requests.                                        *)

\* A task that was told to stop is one that a removal waits for: its connection is now
\* left to that removal.
LEMMA TaskStopsStep ==
    ASSUME PeerInvariant, NEW t \in Tasks, TaskStops(t)
    PROVE  PeerInvariant'
<1>1. TypeOK /\ TasksKept /\ RequestsApart /\ LinksListed /\ OneConnection /\ RoutesListed
  BY Zenon DEF PeerInvariant
<1>2. /\ link \in [Links -> Link] /\ task \in [Tasks -> Task] /\ peer_servers \subseteq Links
      /\ Alive(t) /\ task[t].stop /\ task[t].addr \in Addrs
      /\ UNCHANGED <<rows, outbound_tasks, peer_servers, ip_to_routes, answered, admin>>
  BY <1>1, Zenon DEF TypeOK, TasksKept, TaskStops, Alive
<1>3. /\ \A u \in Tasks : u # t => task'[u] = task[u]
      /\ task'[t].pc = "stopped" /\ task'[t].addr = task[t].addr
  BY <1>2, Zenon DEF TaskStops, Task
<1>4. \A a \in Addrs : outbound_tasks[a] # t
  BY <1>1, <1>2, PeerAssumption DEF TasksKept
<1>5. PICK m \in Admins : AwaitedBy(m, t)
  BY <1>1, <1>2, <1>4, Zenon DEF TasksKept
<1>6. \A u \in Tasks : /\ task'[u].addr = task[u].addr
                       /\ Alive(u)' = (Alive(u) /\ u # t)
  BY <1>3 DEF Alive
<1>7. \A k \in Links :
        /\ k # task[t].link \/ task[t].pc # "linked" => link'[k] = link[k]
        /\ link'[k].addr = link[k].addr /\ link'[k].outbound = link[k].outbound
        /\ link'[k].codes = link[k].codes /\ link'[k].connected = link[k].connected
  BY <1>2 DEF TaskStops, Link
<1>8. ASSUME task[t].pc = "linked"
      PROVE  /\ link'[task[t].link].pc = "cancelled" /\ task[t].link \in peer_servers
             /\ link[task[t].link].addr = task[t].addr /\ link[task[t].link].outbound
  BY <1>1, <1>2, <1>8 DEF TaskStops, LinksListed, Link
<1>9. TypeOK'
  <2>1. task' \in [Tasks -> Task]
    BY <1>2 DEF TaskStops, Task
  <2>2. CASE task[t].pc # "linked"
    BY <1>1, <1>2, <2>1, <2>2, Zenon DEF TypeOK, TaskStops
  <2>3. CASE task[t].pc = "linked"
    <3>1. task[t].link \in Links
      BY <1>2, <1>8, <2>3, Zenon
    <3>2. link' = [link EXCEPT ![task[t].link].pc = "cancelled"]
      BY <2>3, Zenon DEF TaskStops
    <3>3. [link[task[t].link] EXCEPT !.pc = "cancelled"] \in Link
      BY <1>2, <3>1 DEF Link
    <3>4. link' \in [Links -> Link]
      BY <1>2, <3>1, <3>2, <3>3, Zenon
    <3> QED BY <1>1, <1>2, <2>1, <3>4, Zenon DEF TypeOK
  <2> QED BY <2>2, <2>3, Zenon
<1>10. TasksKept'
  <2>1. \A u \in Tasks : task'[u].pc = "none" => task'[u] = NoTask
    BY <1>1, <1>3, Zenon DEF TasksKept
  <2>2. \A u \in Tasks : task'[u].pc # "none" => task'[u].addr \in Addrs
    BY <1>1, <1>2, <1>3, Zenon DEF TasksKept
  <2>3. \A a \in Addrs : outbound_tasks'[a] # None =>
         /\ Alive(outbound_tasks[a])' /\ ~ task'[outbound_tasks'[a]].stop
         /\ task'[outbound_tasks'[a]].addr = a
         /\ a \in rows'
    BY <1>1, <1>2, <1>3, <1>4 DEF TasksKept, TypeOK, Alive
  <2>4. \A u \in Tasks, k \in Admins : AwaitedBy(k, u)' = AwaitedBy(k, u)
    BY <1>2, <1>6, Zenon DEF AwaitedBy
  <2>5. ASSUME NEW u \in Tasks, Alive(u)'
        PROVE  outbound_tasks'[task'[u].addr] = u \/ \E k \in Admins : AwaitedBy(k, u)'
    <3>1. Alive(u) /\ task'[u].addr = task[u].addr
      BY <1>6, <2>5, Zenon
    <3>2. outbound_tasks[task[u].addr] = u \/ \E k \in Admins : AwaitedBy(k, u)
      BY <1>1, <3>1, Zenon DEF TasksKept
    <3> QED BY <1>2, <2>4, <3>1, <3>2, Zenon
  <2> QED BY <1>2, <2>1, <2>2, <2>3, <2>5, Zenon DEF TasksKept, Alive, AwaitedBy
<1>11. RequestsApart'
  BY <1>1, <1>2, Zenon DEF RequestsApart
<1>12. OneConnection'
  BY <1>1, <1>2, <1>7 DEF OneConnection
<1>13. \A u \in Tasks : Alive(u)' => task'[u].addr # task[t].addr
  BY <1>2, <1>6, OneTask, Zenon
<1>14. ASSUME NEW u \in Tasks, task[u].pc = "linked", task[t].pc = "linked",
              task[u].link = task[t].link
       PROVE  u = t
  <2>1. Alive(u) /\ task[u].addr = task[t].addr
    BY <1>1, <1>14, Zenon DEF LinksListed, Alive
  <2> QED BY <1>2, <2>1, OneTask, Zenon
<1>15. LinksListed'
  <2>1. ASSUME NEW u \in Tasks, task'[u].pc = "linked"
        PROVE  /\ task'[u].link \in peer_servers' /\ link'[task'[u].link].pc \in {"running", "blocked"}
               /\ link'[task'[u].link].outbound /\ link'[task'[u].link].addr = task'[u].addr
    <3>1. u # t /\ task'[u] = task[u]
      BY <1>3, <2>1, Zenon
    <3>2. task[u].link \in peer_servers /\ task[u].link \in Links
      BY <1>1, <1>2, <2>1, <3>1, Zenon DEF LinksListed
    <3>3. link'[task[u].link] = link[task[u].link]
      BY <1>7, <1>14, <2>1, <3>1, <3>2, Zenon
    <3> QED BY <1>1, <1>2, <2>1, <3>1, <3>3 DEF LinksListed, Up
  <2>2. ASSUME NEW k \in peer_servers', link'[k].outbound
        PROVE  /\ link'[k].addr \in Addrs
               /\ (\E u \in Tasks : LinkedBy(u, k)') \/ Cancelled(k)'
    <3>1. k \in peer_servers /\ k \in Links /\ link[k].outbound /\ link[k].addr \in Addrs
            /\ link'[k].addr = link[k].addr
      BY <1>1, <1>2, <1>7, <2>2, Zenon DEF LinksListed
    <3>2. CASE LinkedBy(t, k)
      <4>1. link'[k].pc = "cancelled" /\ link'[k].addr = task[t].addr
        BY <1>8, <3>1, <3>2, Zenon DEF LinkedBy
      <4>2. admin'[m].addr = link'[k].addr /\ admin'[m].pc = "stopping"
        BY <1>2, <1>5, <4>1, Zenon DEF AwaitedBy
      <4>3. Cancelled(k)'
        BY <1>13, <4>1, <4>2, Zenon DEF Cancelled, Stopping
      <4> QED BY <3>1, <4>3, Zenon
    <3>3. ASSUME NEW u \in Tasks, u # t, LinkedBy(u, k) PROVE LinkedBy(u, k)'
      BY <1>3, <3>3, Zenon DEF LinkedBy
    <3>4. CASE Cancelled(k)
      <4>1. link'[k] = link[k]
        BY <1>1, <1>7, <3>1, <3>4, Zenon DEF LinksListed, Cancelled, Up
      <4>2. Cancelled(k)'
        BY <1>2, <1>6, <3>4, <4>1, Zenon DEF Cancelled, Stopping
      <4> QED BY <3>1, <4>2, Zenon
    <3> QED BY <1>1, <3>1, <3>2, <3>3, <3>4, Zenon DEF LinksListed
  <2>3. \A k \in peer_servers' : ~ link'[k].outbound => link'[k].pc \in {"running", "blocked"}
    BY <1>1, <1>2, <1>7, <1>8, Zenon DEF LinksListed, Up
  <2>4. \A k \in Links : link'[k].pc \in {"running", "blocked"} =>
                           link'[k].connected /\ k \in peer_servers'
    BY <1>1, <1>2, <1>7, <1>8, Zenon DEF LinksListed, Up
  <2> QED BY <2>1, <2>2, <2>3, <2>4, Zenon DEF LinksListed, LinkedBy, Up
<1>16. RoutesListed' /\ RouteIsLatest'
  BY <1>2, <1>7, RoutesKept, Zenon
<1> QED BY <1>9, <1>10, <1>11, <1>12, <1>15, <1>16, Zenon DEF PeerInvariant

\* A step of one request keeps the requests apart if the address it is at is its own, has
\* no task and, once saved, has its row.
LEMMA RequestsMove ==
    ASSUME RequestsApart, NEW m \in Admins,
           \A k \in Admins : k # m => admin'[k] = admin[k],
           admin'[m].pc # "idle" =>
             /\ admin'[m].addr \in Addrs /\ outbound_tasks'[admin'[m].addr] = None
             /\ \A k \in Admins : k # m /\ admin[k].pc # "idle" => admin[k].addr # admin'[m].addr,
           admin'[m].pc = "insert" => admin'[m].addr \in rows',
           \A k \in Admins : k # m /\ admin[k].pc # "idle" => outbound_tasks'[admin[k].addr] = None,
           \A k \in Admins : k # m /\ admin[k].pc = "insert" => admin[k].addr \in rows'
    PROVE  RequestsApart'
<1>1. \A j, k \in Admins : admin'[j].pc # "idle" /\ admin'[k].pc # "idle"
                              /\ admin'[j].addr = admin'[k].addr => j = k
  BY DEF RequestsApart
<1>2. \A k \in Admins : admin'[k].pc # "idle" =>
        admin'[k].addr \in Addrs /\ outbound_tasks'[admin'[k].addr] = None
  BY Zenon DEF RequestsApart
<1>3. \A k \in Admins : admin'[k].pc = "insert" => admin'[k].addr \in rows'
  BY Zenon
<1> QED BY <1>1, <1>2, <1>3, Zenon DEF RequestsApart

\* A step of a request that leaves tasks and connections alone keeps them in order if no
\* removal is over while it is needed.
LEMMA RequestKeeps ==
    ASSUME PeerInvariant,
           UNCHANGED <<outbound_tasks, task, link, peer_servers, ip_to_routes, answered>>,
           rows' \subseteq Addrs, admin' \in [Admins -> Admin],
           \A a \in Addrs : outbound_tasks[a] # None => a \in rows',
           \A a \in Addrs : Stopping(a) => Stopping(a)',
           \A t \in Tasks, m \in Admins : Alive(t) /\ AwaitedBy(m, t) => AwaitedBy(m, t)'
    PROVE  TypeOK' /\ TasksKept' /\ LinksListed' /\ RoutesListed' /\ OneConnection' /\ RouteIsLatest'
<1>1. TypeOK /\ TasksKept /\ LinksListed /\ OneConnection
  BY Zenon DEF PeerInvariant
<1>2. TypeOK'
  BY <1>1, Zenon DEF TypeOK
<1>3. TasksKept'
  BY <1>1, Zenon DEF TasksKept, Alive
<1>4. \A l \in Links : link[l].addr \in Addrs /\ Cancelled(l) => Cancelled(l)'
  BY Zenon DEF Cancelled, Alive
<1>5. LinksListed'
  BY <1>1, <1>4, Zenon DEF LinksListed, LinkedBy, Up, TypeOK
<1>6. OneConnection'
  BY <1>1, Zenon DEF OneConnection
<1> QED BY <1>2, <1>3, <1>5, <1>6, RoutesKept, Zenon

\* The steps of a request that touch only it and the rows.
LEMMA RequestSteps ==
    ASSUME PeerInvariant, Exclusive, NEW m \in Admins,
           \/ \E a \in Addrs : AddRequest(m, a)
           \/ AddSaved(m) \/ AddFails(m) \/ TaskAwaited(m) \/ RowDeleted(m)
    PROVE  PeerInvariant'
<1>1. TypeOK /\ TasksKept /\ RequestsApart /\ LinksListed
  BY Zenon DEF PeerInvariant
<1>2. /\ admin \in [Admins -> Admin] /\ admin[m] \in Admin /\ rows \subseteq Addrs
      /\ UNCHANGED <<outbound_tasks, task, link, peer_servers, ip_to_routes, answered>>
  BY <1>1, Zenon DEF TypeOK, AddRequest, AddSaved, AddFails, TaskAwaited, RowDeleted
<1>3. \A k \in Admins : k # m => admin'[k] = admin[k]
  BY <1>2, Zenon DEF AddRequest, AddSaved, AddFails, TaskAwaited, RowDeleted
<1>4. Idle \in Admin /\ Idle.pc = "idle"
  BY Zenon DEF Idle, Admin
<1>4a. \A k \in Admins : k # m /\ admin[k].pc # "idle" => outbound_tasks'[admin[k].addr] = None
  BY <1>1, <1>2, Zenon DEF RequestsApart
<1>4b. admin[m].pc # "idle" =>
         /\ admin[m].addr \in Addrs /\ outbound_tasks'[admin[m].addr] = None
         /\ \A k \in Admins : k # m /\ admin[k].pc # "idle" => admin[k].addr # admin[m].addr
  BY <1>1, <1>2, Zenon DEF RequestsApart
<1>4c. \A a \in Addrs : outbound_tasks[a] # None => a \in rows
  BY <1>1, Zenon DEF TasksKept
<1>4d. \A k \in Admins : admin[k].pc = "insert" => admin[k].addr \in rows
  BY <1>1, Zenon DEF RequestsApart
<1> DEFINE Ok ==
      /\ admin' \in [Admins -> Admin] /\ rows' \subseteq Addrs
      /\ \A a \in Addrs : outbound_tasks[a] # None => a \in rows'
      /\ RequestsApart'
      /\ admin[m].pc \in {"stopping", "sweep"} =>
           /\ admin'[m].pc = "sweep" /\ admin'[m].addr = admin[m].addr
           /\ admin[m].pc = "stopping" /\ (admin[m].task # None => task[admin[m].task].pc = "stopped")
<1>5. Ok
  <2>1. ASSUME NEW a \in Addrs, AddRequest(m, a) PROVE Ok
    <3>1. /\ admin[m].pc = "idle" /\ outbound_tasks[a] = None /\ rows' = rows
          /\ \A k \in Admins : admin[k].pc # "idle" => admin[k].addr # a
          /\ admin'[m].pc = "save" /\ admin'[m].addr = a
      BY <1>2, <2>1, Zenon DEF AddRequest, May, Busy
    <3>2. admin' \in [Admins -> Admin]
      BY <1>2, <2>1, Zenon DEF AddRequest, Admin
    <3>3. RequestsApart'
      BY <1>1, <1>2, <1>3, <1>4a, <1>4b, <1>4d, <3>1, RequestsMove, Zenon
    <3> QED BY <1>2, <1>4b, <1>4c, <3>1, <3>2, <3>3, Zenon
  <2>2. CASE AddSaved(m)
    <3>1. /\ admin[m].pc = "save" /\ rows' = rows \cup {admin[m].addr}
          /\ admin'[m].pc = "insert" /\ admin'[m].addr = admin[m].addr
      BY <1>2, <2>2, Zenon DEF AddSaved, Admin
    <3>2. admin' \in [Admins -> Admin]
      BY <1>2, <2>2, Zenon DEF AddSaved, Admin
    <3>3. RequestsApart'
      BY <1>1, <1>2, <1>3, <1>4a, <1>4b, <1>4d, <3>1, RequestsMove
    <3> QED BY <1>2, <1>4b, <1>4c, <3>1, <3>2, <3>3, Zenon
  <2>3. CASE AddFails(m)
    <3>1. admin[m].pc = "save" /\ rows' = rows /\ admin'[m] = Idle
      BY <1>2, <2>3, Zenon DEF AddFails
    <3>2. admin' \in [Admins -> Admin]
      BY <1>2, <1>4, <2>3, Zenon DEF AddFails
    <3>3. RequestsApart'
      BY <1>1, <1>2, <1>3, <1>4, <1>4a, <1>4b, <1>4d, <3>1, RequestsMove, Zenon
    <3> QED BY <1>2, <1>4b, <1>4c, <3>1, <3>2, <3>3, Zenon
  <2>4. CASE TaskAwaited(m)
    <3>1. /\ admin[m].pc = "stopping" /\ rows' = rows
          /\ admin'[m].pc = "sweep" /\ admin'[m].addr = admin[m].addr
          /\ admin[m].task # None => task[admin[m].task].pc = "stopped"
      BY <1>2, <2>4, Zenon DEF TaskAwaited, Admin
    <3>2. admin' \in [Admins -> Admin]
      BY <1>2, <2>4, Zenon DEF TaskAwaited, Admin
    <3>3. RequestsApart'
      BY <1>1, <1>2, <1>3, <1>4a, <1>4b, <1>4d, <3>1, RequestsMove
    <3> QED BY <1>2, <1>4b, <1>4c, <3>1, <3>2, <3>3, Zenon
  <2>5. CASE RowDeleted(m)
    <3>1. /\ admin[m].pc = "delete" /\ admin'[m] = Idle
          /\ rows' \in {rows, rows \ {admin[m].addr}}
      BY <1>2, <2>5, Zenon DEF RowDeleted
    <3>2. admin' \in [Admins -> Admin]
      BY <1>2, <1>4, <2>5, Zenon DEF RowDeleted
    <3>3. \A a \in Addrs : outbound_tasks[a] # None => a \in rows'
      BY <1>2, <1>4b, <1>4c, <3>1, Zenon
    <3>4. \A k \in Admins : k # m /\ admin[k].pc = "insert" => admin[k].addr \in rows'
      BY <1>4b, <1>4d, <3>1, Zenon
    <3>5. RequestsApart'
      BY <1>1, <1>3, <1>4, <1>4a, <3>1, <3>4, RequestsMove, Zenon
    <3> QED BY <1>2, <3>1, <3>2, <3>3, <3>5, Zenon
  <2> QED BY <2>1, <2>2, <2>3, <2>4, <2>5, Zenon
<1>6. \A a \in Addrs : Stopping(a) => Stopping(a)'
  BY <1>3, <1>5, Zenon DEF Stopping
<1>7. ASSUME NEW t \in Tasks, NEW k \in Admins, Alive(t), AwaitedBy(k, t)
      PROVE  AwaitedBy(k, t)'
  <2>1. k # m
    BY <1>5, <1>7, PeerAssumption, Zenon DEF AwaitedBy, Alive
  <2> QED BY <1>2, <1>3, <1>7, <2>1, Zenon DEF AwaitedBy
<1> QED BY <1>2, <1>5, <1>6, <1>7, RequestKeeps, Zenon DEF PeerInvariant

\* A new task starts where there is none: no removal of its address is under way.
LEMMA AddInsertStep ==
    ASSUME PeerInvariant, NEW m \in Admins, NEW t \in Tasks, AddInsert(m, t)
    PROVE  PeerInvariant'
<1> DEFINE a == admin[m].addr
<1>1. TypeOK /\ TasksKept /\ RequestsApart /\ LinksListed /\ OneConnection
  BY Zenon DEF PeerInvariant
<1>2. /\ admin \in [Admins -> Admin] /\ task \in [Tasks -> Task]
      /\ outbound_tasks \in [Addrs -> Tasks \cup {None}] /\ peer_servers \subseteq Links
      /\ UNCHANGED <<rows, link, peer_servers, ip_to_routes, answered>>
      /\ admin[m].pc = "insert" /\ task[t] = NoTask
  BY <1>1, Zenon DEF TypeOK, AddInsert
<1>3. a \in Addrs /\ outbound_tasks[a] = None /\ a \in rows /\ t # None /\ None \notin Tasks
  BY <1>1, <1>2, PeerAssumption, Zenon DEF RequestsApart
<1>4. /\ task' = [task EXCEPT ![t] = Spawn(t, a)]
      /\ \A u \in Tasks : u # t => task'[u] = task[u]
      /\ task'[t].pc = "connecting" /\ task'[t].addr = a /\ ~ task'[t].stop
  <2>1. task' = [u \in Tasks |-> IF u = t THEN Spawn(t, a) ELSE task[u]]
    BY <1>2, <1>3, Zenon DEF AddInsert
  <2> QED BY <1>2, <2>1, Zenon DEF Spawn
<1>5. /\ outbound_tasks' = [outbound_tasks EXCEPT ![a] = t]
      /\ \A k \in Admins : k # m => admin'[k] = admin[k]
      /\ admin'[m].pc = "idle" /\ admin' \in [Admins -> Admin]
  BY <1>2, Zenon DEF AddInsert, Idle, Admin
<1>6. task[t].pc = "none" /\ ~ Alive(t)
  BY <1>2 DEF NoTask, Alive
<1>7. TypeOK'
  <2>1. Spawn(t, a) \in Task
    BY <1>3, Zenon DEF Spawn, Task
  <2> QED BY <1>1, <1>2, <1>3, <1>4, <1>5, <2>1, Zenon DEF TypeOK
<1>8. \A u \in Tasks : Alive(u) => u # t /\ task[u].addr \in Addrs
  BY <1>1, <1>6, Zenon DEF TasksKept, Alive
<1>9. \A u \in Tasks, k \in Admins : Alive(u) /\ AwaitedBy(k, u) => AwaitedBy(k, u)'
  BY <1>2, <1>4, <1>5, <1>8, Zenon DEF AwaitedBy
<1>10. TasksKept'
  <2>1. \A u \in Tasks : task'[u].pc = "none" => task'[u] = NoTask
    BY <1>1, <1>4, Zenon DEF TasksKept
  <2>2. \A u \in Tasks : task'[u].pc # "none" => task'[u].addr \in Addrs
    BY <1>1, <1>3, <1>4, Zenon DEF TasksKept
  <2>3. ASSUME NEW b \in Addrs, outbound_tasks'[b] # None
        PROVE  /\ task'[outbound_tasks'[b]].pc \in {"connecting", "linked", "waiting"}
               /\ ~ task'[outbound_tasks'[b]].stop
               /\ task'[outbound_tasks'[b]].addr = b
               /\ b \in rows'
    <3>1. CASE b = a
      BY <1>2, <1>3, <1>4, <1>5, <3>1, Zenon
    <3>2. CASE b # a
      <4>1. outbound_tasks'[b] = outbound_tasks[b] /\ outbound_tasks[b] \in Tasks
        BY <1>2, <1>5, <2>3, <3>2, Zenon
      <4>2. Alive(outbound_tasks[b])
        BY <1>1, <2>3, <4>1, Zenon DEF TasksKept
      <4> QED BY <1>1, <1>2, <1>4, <1>8, <2>3, <4>1, <4>2 DEF TasksKept, Alive
    <3> QED BY <3>1, <3>2, Zenon
  <2>4. ASSUME NEW u \in Tasks, Alive(u)'
        PROVE  outbound_tasks'[task'[u].addr] = u \/ \E k \in Admins : AwaitedBy(k, u)'
    <3>1. CASE u = t
      BY <1>2, <1>3, <1>4, <1>5, <3>1, Zenon
    <3>2. CASE u # t
      <4>1. Alive(u) /\ task'[u] = task[u]
        BY <1>4, <2>4, <3>2, Zenon DEF Alive
      <4>2. outbound_tasks[task[u].addr] = u \/ \E k \in Admins : AwaitedBy(k, u)
        BY <1>1, <4>1, Zenon DEF TasksKept
      <4>3. CASE outbound_tasks[task[u].addr] = u
        BY <1>2, <1>3, <1>5, <1>8, <4>1, <4>3
      <4> QED BY <1>9, <4>1, <4>2, <4>3, Zenon
    <3> QED BY <3>1, <3>2, Zenon
  <2> QED BY <2>1, <2>2, <2>3, <2>4, Zenon DEF TasksKept, Alive
<1>11. RequestsApart'
  <2>1. \A k \in Admins : admin'[k].pc # "idle" =>
          admin'[k] = admin[k] /\ k # m /\ admin[k].addr # a /\ admin[k].addr \in Addrs
    BY <1>1, <1>2, <1>5, Zenon DEF RequestsApart
  <2> QED BY <1>1, <1>2, <1>5, <2>1 DEF RequestsApart
<1>12. LinksListed'
  <2>1. \A u \in Tasks : task'[u].pc = "linked" => task'[u] = task[u]
    BY <1>4, Zenon
  <2>2. \A u \in Tasks, l \in Links : LinkedBy(u, l) => LinkedBy(u, l)'
    BY <1>4, <1>6, Zenon DEF LinkedBy
  <2>3. ASSUME NEW l \in Links, Cancelled(l) PROVE Cancelled(l)'
    <3>1. PICK k \in Admins : admin[k].addr = link[l].addr /\ admin[k].pc \in {"stopping", "sweep"}
      BY <2>3, Zenon DEF Cancelled, Stopping
    <3>2. k # m /\ link[l].addr # a /\ admin'[k] = admin[k]
      BY <1>1, <1>2, <1>5, <3>1, Zenon DEF RequestsApart
    <3>3. \A u \in Tasks : Alive(u)' => task'[u].addr # link[l].addr
      BY <1>4, <2>3, <3>2, Zenon DEF Cancelled, Alive
    <3> QED BY <1>2, <2>3, <3>1, <3>2, <3>3, Zenon DEF Cancelled, Stopping
  <2> QED BY <1>1, <1>2, <2>1, <2>2, <2>3, Zenon DEF LinksListed, Up
<1>13. OneConnection'
  BY <1>1, <1>2, Zenon DEF OneConnection
<1>14. RoutesListed' /\ RouteIsLatest'
  BY <1>2, RoutesKept, Zenon
<1> QED BY <1>7, <1>10, <1>11, <1>12, <1>13, <1>14, Zenon DEF PeerInvariant

\* A removal takes the task out and waits for it.
LEMMA RemoveRequestStep ==
    ASSUME PeerInvariant, Exclusive, NEW m \in Admins, NEW a \in Addrs, RemoveRequest(m, a)
    PROVE  PeerInvariant'
<1>1. TypeOK /\ TasksKept /\ RequestsApart /\ LinksListed /\ OneConnection
  BY Zenon DEF PeerInvariant
<1>2. /\ admin \in [Admins -> Admin] /\ task \in [Tasks -> Task]
      /\ outbound_tasks \in [Addrs -> Tasks \cup {None}] /\ peer_servers \subseteq Links
      /\ UNCHANGED <<rows, link, peer_servers, ip_to_routes, answered>>
      /\ admin[m].pc = "idle" /\ \A k \in Admins : admin[k].pc # "idle" => admin[k].addr # a
  BY <1>1, Zenon DEF TypeOK, RemoveRequest, May, Busy
<1>3. \A u \in Tasks : /\ task'[u].pc = task[u].pc /\ task'[u].addr = task[u].addr
                       /\ task'[u].link = task[u].link
                       /\ u # outbound_tasks[a] => task'[u] = task[u]
  BY <1>2, Zenon DEF RemoveRequest, Task
<1>4. /\ outbound_tasks' = [outbound_tasks EXCEPT ![a] = None]
      /\ \A k \in Admins : k # m => admin'[k] = admin[k]
      /\ admin'[m].pc = "stopping" /\ admin'[m].addr = a /\ admin'[m].task = outbound_tasks[a]
  BY <1>2, Zenon DEF RemoveRequest
<1>5. \A u \in Tasks : Alive(u)' = Alive(u) /\ \A l \in Links : LinkedBy(u, l)' = LinkedBy(u, l)
  BY <1>3, Zenon DEF Alive, LinkedBy
<1>6. TypeOK'
  <2>1. admin' \in [Admins -> Admin]
    BY <1>2, Zenon DEF RemoveRequest, Admin
  <2>2. task' \in [Tasks -> Task]
    BY <1>2, ZenonT(30) DEF RemoveRequest, Task
  <2> QED BY <1>1, <1>2, <1>4, <2>1, <2>2, Zenon DEF TypeOK
<1>7. TasksKept'
  <2>1. ASSUME NEW u \in Tasks, task'[u].pc = "none" PROVE task'[u] = NoTask
    <3>1. u # outbound_tasks[a]
      BY <1>1, <1>3, <2>1, PeerAssumption DEF TasksKept, Alive
    <3> QED BY <1>1, <1>3, <2>1, <3>1, Zenon DEF TasksKept
  <2>2. \A u \in Tasks : task'[u].pc # "none" => task'[u].addr \in Addrs
    BY <1>1, <1>3, Zenon DEF TasksKept
  <2>3. ASSUME NEW b \in Addrs, outbound_tasks'[b] # None
        PROVE  /\ task'[outbound_tasks'[b]].pc \in {"connecting", "linked", "waiting"}
               /\ ~ task'[outbound_tasks'[b]].stop
               /\ task'[outbound_tasks'[b]].addr = b
               /\ b \in rows'
    <3>1. b # a /\ outbound_tasks'[b] = outbound_tasks[b] /\ outbound_tasks[b] \in Tasks
      BY <1>2, <1>4, <2>3, Zenon
    <3>2. outbound_tasks[b] # outbound_tasks[a]
      BY <1>1, <2>3, <3>1, Zenon DEF TasksKept
    <3> QED BY <1>1, <1>2, <1>3, <2>3, <3>1, <3>2 DEF TasksKept, Alive
  <2>4. ASSUME NEW u \in Tasks, Alive(u)'
        PROVE  outbound_tasks'[task'[u].addr] = u \/ \E k \in Admins : AwaitedBy(k, u)'
    <3>1. Alive(u) /\ task[u].addr \in Addrs
      BY <1>1, <1>5, <2>4, Zenon DEF TasksKept, Alive
    <3>2. CASE outbound_tasks[task[u].addr] = u /\ task[u].addr = a
      BY <1>3, <1>4, <3>2 DEF AwaitedBy
    <3>3. CASE outbound_tasks[task[u].addr] = u /\ task[u].addr # a
      BY <1>2, <1>3, <1>4, <3>1, <3>3, Zenon
    <3>4. ASSUME NEW k \in Admins, AwaitedBy(k, u) PROVE AwaitedBy(k, u)'
      BY <1>2, <1>3, <1>4, <3>4, Zenon DEF AwaitedBy
    <3> QED BY <1>1, <3>1, <3>2, <3>3, <3>4, Zenon DEF TasksKept
  <2> QED BY <2>1, <2>2, <2>3, <2>4, Zenon DEF TasksKept, Alive
<1>8. RequestsApart'
  <2>1. outbound_tasks'[a] = None /\ \A b \in Addrs : b # a => outbound_tasks'[b] = outbound_tasks[b]
    BY <1>2, <1>4, Zenon
  <2>2. \A k \in Admins : k # m /\ admin[k].pc # "idle" => outbound_tasks'[admin[k].addr] = None
    BY <1>1, <2>1, Zenon DEF RequestsApart
  <2>3. \A k \in Admins : k # m /\ admin[k].pc = "insert" => admin[k].addr \in rows'
    BY <1>1, <1>2, Zenon DEF RequestsApart
  <2> QED BY <1>1, <1>2, <1>4, <2>1, <2>2, <2>3, RequestsMove, Zenon
<1>9. LinksListed'
  <2>1. \A b \in Addrs : Stopping(b) => Stopping(b)'
    BY <1>2, <1>4, Zenon DEF Stopping
  <2>2. ASSUME NEW l \in Links, link[l].addr \in Addrs, Cancelled(l) PROVE Cancelled(l)'
    BY <1>2, <1>3, <1>5, <2>1, <2>2, Zenon DEF Cancelled
  <2>3. \A t \in Tasks : task'[t].pc = "linked" =>
          /\ task'[t].link \in peer_servers /\ Up(task'[t].link)
          /\ link[task'[t].link].outbound /\ link[task'[t].link].addr = task'[t].addr
    BY <1>1, <1>3 DEF LinksListed
  <2>4. ASSUME NEW l \in peer_servers, link[l].outbound
        PROVE  link[l].addr \in Addrs /\ ((\E t \in Tasks : LinkedBy(t, l)') \/ Cancelled(l)')
    <3>1. l \in Links /\ link[l].addr \in Addrs /\ ((\E t \in Tasks : LinkedBy(t, l)) \/ Cancelled(l))
      BY <1>1, <2>4, Zenon DEF LinksListed, TypeOK
    <3> QED BY <1>5, <2>2, <3>1, Zenon
  <2>5. /\ \A l \in peer_servers : ~ link[l].outbound => Up(l)
        /\ \A l \in Links : Up(l) => link[l].connected /\ l \in peer_servers
    BY <1>1, Zenon DEF LinksListed
  <2> QED BY <1>2, <2>3, <2>4, <2>5, Zenon DEF LinksListed, Up
<1>10. OneConnection'
  BY <1>1, <1>2, Zenon DEF OneConnection
<1>11. RoutesListed' /\ RouteIsLatest'
  BY <1>2, RoutesKept, Zenon
<1> QED BY <1>6, <1>7, <1>8, <1>9, <1>10, <1>11, Zenon DEF PeerInvariant

\* What the task left behind is cleaned up: it has ended, so no loop that runs is cut off.
LEMMA SweepStep ==
    ASSUME PeerInvariant, NEW m \in Admins, Sweep(m)
    PROVE  PeerInvariant'
<1> DEFINE a == admin[m].addr
           L == Leftover(a)
<1>1. TypeOK /\ TasksKept /\ RequestsApart /\ LinksListed /\ OneConnection /\ RoutesListed
        /\ RouteIsLatest
  BY Zenon DEF PeerInvariant
<1>2. /\ admin \in [Admins -> Admin] /\ link \in [Links -> Link] /\ peer_servers \subseteq Links
      /\ ip_to_routes \in [Nets -> [Ips -> [Links -> Lats \cup {None}]]]
      /\ UNCHANGED <<rows, outbound_tasks, task, answered>>
      /\ admin[m].pc = "sweep" /\ peer_servers' = peer_servers \ L
  BY <1>1, Zenon DEF TypeOK, Sweep
<1>3. \A l \in Links : l \in L <=> l \in peer_servers /\ link[l].outbound /\ link[l].addr = a
  BY Zenon DEF Leftover
<1>4. /\ \A l \in Links : l \notin L => link'[l] = link[l]
      /\ \A l \in Links : /\ link'[l].pc = link[l].pc /\ link'[l].addr = link[l].addr
                          /\ link'[l].outbound = link[l].outbound /\ link'[l].codes = link[l].codes
  BY <1>2 DEF Sweep, Link
<1>5. /\ \A k \in Admins : k # m => admin'[k] = admin[k]
      /\ admin'[m].pc = "delete" /\ admin'[m].addr = a
      /\ admin' \in [Admins -> Admin]
  BY <1>2, Zenon DEF Sweep, Admin
<1>6. \A t \in Tasks : Alive(t) => task[t].addr # a
  <2>1. \A t \in Tasks : ~ AwaitedBy(m, t)
    BY <1>2, Zenon DEF AwaitedBy
  <2> QED BY <1>2, <2>1, OneTask, Zenon
<1>7. \A t \in Tasks : task[t].pc = "linked" => task[t].link \in peer_servers /\ task[t].link \notin L
  BY <1>1, <1>2, <1>3, <1>6, ZenonT(30) DEF LinksListed, Alive
<1>8. \A l \in L : ~ Up(l)
  <2> SUFFICES ASSUME NEW l \in L PROVE ~ Up(l)
    BY Zenon
  <2>1. l \in Links /\ l \in peer_servers /\ link[l].outbound
    BY <1>2, <1>3, Zenon DEF Leftover
  <2>2. \A t \in Tasks : ~ LinkedBy(t, l)
    BY <1>7, Zenon DEF LinkedBy
  <2> QED BY <1>1, <2>1, <2>2, Zenon DEF LinksListed, Cancelled, Up
<1>9. ip_to_routes' = [n \in Nets |-> [ip \in Ips |-> [l \in Links |->
        IF l \in L /\ n \in Nets THEN None ELSE ip_to_routes[n][ip][l]]]]
  BY Zenon DEF Sweep, cleanup_all_routes, Without
<1> HIDE DEF L
<1>10. TypeOK'
  <2>1. link' \in [Links -> Link]
    <3>1. link' = [l \in Links |-> IF l \in L THEN [link[l] EXCEPT !.connected = FALSE] ELSE link[l]]
      BY Zenon DEF Sweep, L
    <3>2. \A l \in Links : link[l] \in Link /\ [link[l] EXCEPT !.connected = FALSE] \in Link
      BY <1>2, ZenonT(30) DEF Link
    <3> QED BY <3>1, <3>2, Zenon
  <2>2. ip_to_routes' \in [Nets -> [Ips -> [Links -> Lats \cup {None}]]]
    BY <1>2, <1>9
  <2> QED BY <1>1, <1>2, <1>5, <2>1, <2>2, Zenon DEF TypeOK
<1>11. \A t \in Tasks, k \in Admins : AwaitedBy(k, t) => AwaitedBy(k, t)'
  BY <1>2, <1>5, Zenon DEF AwaitedBy
<1>12. TasksKept'
  BY <1>1, <1>2, <1>11, Zenon DEF TasksKept, Alive
<1>13. RequestsApart'
  <2>1. \A k \in Admins : /\ admin'[k].pc # "idle" => admin[k].pc # "idle"
                          /\ admin'[k].addr = admin[k].addr
                          /\ admin'[k].pc = "insert" => admin[k].pc = "insert"
    BY <1>2, <1>5, Zenon
  <2>2. \A j, k \in Admins : admin'[j].pc # "idle" /\ admin'[k].pc # "idle"
                              /\ admin'[j].addr = admin'[k].addr => j = k
    BY <1>1, <2>1, Zenon DEF RequestsApart
  <2>3. \A k \in Admins : admin'[k].pc # "idle" =>
            admin'[k].addr \in Addrs /\ outbound_tasks'[admin'[k].addr] = None
    BY <1>1, <1>2, <2>1, Zenon DEF RequestsApart
  <2>4. \A k \in Admins : admin'[k].pc = "insert" => admin'[k].addr \in rows'
    BY <1>1, <1>2, <2>1, Zenon DEF RequestsApart
  <2> QED BY <2>2, <2>3, <2>4, Zenon DEF RequestsApart
<1>14. LinksListed'
  <2>1. ASSUME NEW t \in Tasks, task'[t].pc = "linked"
        PROVE  /\ task'[t].link \in peer_servers' /\ link'[task'[t].link].pc \in {"running", "blocked"}
               /\ link'[task'[t].link].outbound /\ link'[task'[t].link].addr = task'[t].addr
    <3>1. task[t].link \in peer_servers /\ task[t].link \notin L /\ task'[t] = task[t]
      BY <1>2, <1>7, <2>1, Zenon
    <3>2. link'[task[t].link] = link[task[t].link]
      BY <1>2, <1>4, <3>1, Zenon
    <3> QED BY <1>1, <1>2, <2>1, <3>1, <3>2, Zenon DEF LinksListed, Up
  <2>2. ASSUME NEW l \in peer_servers', link'[l].outbound
        PROVE  /\ link'[l].addr \in Addrs
               /\ (\E t \in Tasks : LinkedBy(t, l)') \/ Cancelled(l)'
    <3>1. l \in peer_servers /\ l \in Links /\ l \notin L
      BY <1>2, Zenon
    <3>2. link'[l] = link[l] /\ link[l].outbound /\ link[l].addr # a
      BY <1>3, <1>4, <2>2, <3>1, Zenon
    <3>3. CASE \E t \in Tasks : LinkedBy(t, l)
      BY <1>1, <1>2, <3>1, <3>2, <3>3, Zenon DEF LinkedBy, LinksListed
    <3>4. CASE Cancelled(l)
      <4>1. PICK k \in Admins : admin[k].addr = link[l].addr /\ admin[k].pc \in {"stopping", "sweep"}
        BY <3>4, Zenon DEF Cancelled, Stopping
      <4>2. admin'[k] = admin[k]
        BY <1>5, <3>2, <4>1, Zenon
      <4>3. Cancelled(l)'
        BY <1>2, <3>2, <3>4, <4>1, <4>2, Zenon DEF Cancelled, Stopping, Alive
      <4> QED BY <1>1, <3>1, <3>2, <4>3, Zenon DEF LinksListed
    <3> QED BY <1>1, <3>1, <3>2, <3>3, <3>4, Zenon DEF LinksListed
  <2>3. \A l \in peer_servers' : ~ link'[l].outbound => link'[l].pc \in {"running", "blocked"}
    BY <1>1, <1>2, <1>4, Zenon DEF LinksListed, Up
  <2>4. \A l \in Links : link'[l].pc \in {"running", "blocked"} =>
                           link'[l].connected /\ l \in peer_servers'
    BY <1>1, <1>2, <1>4, <1>8, Zenon DEF LinksListed, Up
  <2> QED BY <2>1, <2>2, <2>3, <2>4, Zenon DEF LinksListed, LinkedBy, Up
<1>15. OneConnection'
  BY <1>1, <1>2, <1>4 DEF OneConnection
<1>16. \A n \in Nets, ip \in Ips, l \in Links :
         /\ ip_to_routes'[n][ip][l] \in {None, ip_to_routes[n][ip][l]}
         /\ l \in L => ip_to_routes'[n][ip][l] = None
  BY <1>9, Zenon
<1>17. RoutesListed'
  BY <1>1, <1>2, <1>4, <1>16 DEF RoutesListed
<1>18. RouteIsLatest'
  BY <1>1, <1>2, <1>16 DEF RouteIsLatest
<1> QED BY <1>10, <1>12, <1>13, <1>14, <1>15, <1>17, <1>18, Zenon DEF PeerInvariant

-----------------------------------------------------------------------------
(* The theorems.                                                            *)

\* Every step of the server keeps the invariant.
LEMMA PeerInductive == ASSUME Exclusive PROVE Spec => []PeerInvariant
<1>1. PeerInvariant /\ [Next]_vars => PeerInvariant'
  <2> SUFFICES ASSUME PeerInvariant, [Next]_vars PROVE PeerInvariant'
    BY Zenon
  <2>1. ASSUME NEW l \in Links, LinkStep(l) PROVE PeerInvariant'
    BY <2>1, AcceptStep, ConnectStep, LoopEndsStep, LoopSteps, ReportStep, Zenon DEF LinkStep
  <2>2. ASSUME NEW t \in Tasks, ConnectFails(t) \/ Reconnect(t) \/ TaskStops(t)
        PROVE  PeerInvariant'
    BY <2>2, RetrySteps, TaskStopsStep, Zenon
  <2>3. ASSUME NEW m \in Admins, AdminStep(m) PROVE PeerInvariant'
    BY <2>3, RequestSteps, AddInsertStep, RemoveRequestStep, SweepStep, Zenon DEF AdminStep
  <2>4. CASE UNCHANGED vars
    <3>1. TypeOK' /\ RoutesListed' /\ OneConnection' /\ RouteIsLatest'
      BY <2>4, Zenon DEF vars, PeerInvariant, TypeOK, RoutesListed, OneConnection, RouteIsLatest
    <3>2. TasksKept' /\ RequestsApart'
      BY <2>4, ZenonT(30) DEF vars, PeerInvariant, TasksKept, RequestsApart, Alive, AwaitedBy
    <3>3. LinksListed'
      <4>1. UNCHANGED <<task, link, peer_servers, admin>> /\ LinksListed
        BY <2>4, Zenon DEF vars, PeerInvariant
      <4>2. \A l : (Up(l) <=> Up(l)') /\ (Cancelled(l) <=> Cancelled(l)')
                   /\ \A t : LinkedBy(t, l) <=> LinkedBy(t, l)'
        BY <4>1, Zenon DEF Up, Cancelled, LinkedBy, Stopping, Alive
      <4> QED BY <4>1, <4>2, Zenon DEF LinksListed
    <3> QED BY <3>1, <3>2, <3>3, Zenon DEF PeerInvariant
  <2> QED BY <2>1, <2>2, <2>3, <2>4, Zenon DEF Next
<1> QED BY <1>1, PeerInit, PTL DEF Spec

\* For any number of peers, connections and requests, no route leads into a dead end: of
\* the two clean-ups, the epilogue of the loop and remove_outbound_peer, one always runs.
THEOREM RoutesNeverDangle == ASSUME Exclusive PROVE Spec => []NoDanglingRoute
BY PeerInductive, InvariantRoutes, PTL

\* Every route is what the server at its end reported last, whatever was truncated,
\* removed or learnt from others in between.
THEOREM RoutesAlwaysLatest == ASSUME Exclusive PROVE Spec => []RouteIsLatest
<1>1. PeerInvariant => RouteIsLatest
  BY Zenon DEF PeerInvariant
<1> QED BY <1>1, PeerInductive, PTL

\* No configured address is ever connected twice, also when a peer is removed and added
\* again while its old connection is being torn down.
THEOREM AlwaysOneConnection == ASSUME Exclusive PROVE Spec => []OneConnection
<1>1. PeerInvariant => OneConnection
  BY Zenon DEF PeerInvariant
<1> QED BY <1>1, PeerInductive, PTL

\* Every kept task has its row, also when writes and deletes of rows fail.
THEOREM TasksAlwaysHaveRows == ASSUME Exclusive PROVE Spec => []TaskHasRow
<1>1. PeerInvariant => TaskHasRow
  BY Zenon DEF PeerInvariant, TasksKept, TaskHasRow
<1> QED BY <1>1, PeerInductive, PTL
=============================================================================
