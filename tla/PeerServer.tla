----------------------------- MODULE PeerServer -----------------------------
(***************************************************************************)
(* The server's connections to the other servers of its cluster: the tasks *)
(* that keep outbound connections up, the loop of every connection, the    *)
(* routes learnt through it, and the requests that add and remove peers.   *)
(*                                                                         *)
(* Source: server/peer_server.rs (PeerServerManager), db.rs (the rows).    *)
(*                                                                         *)
(* The other servers are not modelled: what they answer is any set of      *)
(* clients at any time.  A connection (one Arc<PeerServerInfo> with its    *)
(* communication loop) is a member of Links and is used once.              *)
(***************************************************************************)
EXTENDS Naturals, FiniteSets

CONSTANTS
    Addrs,       \* configured addresses of other servers
    Links,       \* connections
    Tasks,       \* spawned connection tasks
    Admins,      \* concurrent console requests
    Nets,        \* network codes
    Ips,         \* client addresses
    Lats,        \* latencies, of a client or of a connection
    None,
    MaxRoutes,   \* MAX_ROUTES_PER_IP
    QueueCap,    \* capacity of a connection's outbound queue
    Exclusive    \* are requests about one address made one at a time

ASSUME PeerAssumption ==
    /\ None \notin Addrs \cup Links \cup Tasks
    /\ Lats \subseteq Nat /\ Lats # {}
    /\ MaxRoutes \in Nat \ {0} /\ QueueCap \in Nat \ {0}
    /\ Exclusive \in BOOLEAN

VARIABLES
    rows,             \* addresses in the peer_servers table
    outbound_tasks,   \* address -> the task kept for it
    task,             \* the connection tasks
    link,             \* the connections
    peer_servers,     \* the connections listed as peers
    ip_to_routes,     \* network -> address -> connection -> client latency
    answered,         \* connection -> network -> the clients it last reported
    admin             \* the console requests

vars == <<rows, outbound_tasks, task, link, peer_servers, ip_to_routes, answered, admin>>

NoTask == [pc |-> "none", addr |-> None, link |-> None, stop |-> FALSE]
Task == [pc : {"none", "connecting", "linked", "waiting", "stopped"},
         addr : Addrs \cup {None}, link : Links \cup {None}, stop : BOOLEAN]

\* "running" and "blocked" are a loop that runs and one that waits for ever for room
\* in its own queue; a "cancelled" loop was dropped with its task, without its epilogue.
Link == [pc : {"none", "running", "blocked", "cancelled", "gone"},
         addr : Addrs \cup {None}, outbound : BOOLEAN, connected : BOOLEAN,
         latency : Lats, codes : SUBSET Nets, queued : 0 .. QueueCap]

Idle == [pc |-> "idle", addr |-> None, task |-> None]
Admin == [pc : {"idle", "save", "insert", "stopping", "sweep", "delete"},
          addr : Addrs \cup {None}, task : Tasks \cup {None}]

Running(l) == link[l].pc = "running"
Default == CHOOSE x \in Lats : TRUE     \* DEFAULT_SERVER_LATENCY_MS
-----------------------------------------------------------------------------
(* Connections.                                                             *)

Opened(a, outbound) ==
    [pc |-> "running", addr |-> a, outbound |-> outbound, connected |-> TRUE,
     latency |-> Default, codes |-> {}, queued |-> 0]

\* handle_peer_connection: another server has authenticated.  Its address is the
\* remote socket address, never a configured one.
Accept(l) ==
    /\ link[l].pc = "none"
    /\ link' = [link EXCEPT ![l] = Opened(None, FALSE)]
    /\ peer_servers' = peer_servers \cup {l}
    /\ UNCHANGED <<rows, outbound_tasks, task, ip_to_routes, answered, admin>>

\* connect_to_peer_once up to its loop, ...
Connect(t, l) ==
    /\ task[t].pc = "connecting" /\ link[l].pc = "none"
    /\ link' = [link EXCEPT ![l] = Opened(task[t].addr, TRUE)]
    /\ peer_servers' = peer_servers \cup {l}
    /\ task' = [task EXCEPT ![t].pc = "linked", ![t].link = l]
    /\ UNCHANGED <<rows, outbound_tasks, ip_to_routes, answered, admin>>

\* ... or an error on the way: no connection, a refused token, a timeout.
ConnectFails(t) ==
    /\ task[t].pc = "connecting"
    /\ task' = [task EXCEPT ![t].pc = "waiting"]
    /\ UNCHANGED <<rows, outbound_tasks, link, peer_servers, ip_to_routes, answered, admin>>

Reconnect(t) ==
    /\ task[t].pc = "waiting"
    /\ task' = [task EXCEPT ![t].pc = "connecting"]
    /\ UNCHANGED <<rows, outbound_tasks, link, peer_servers, ip_to_routes, answered, admin>>

\* A stop signal, or the end of its sender, makes the task drop whatever it awaits: a
\* loop ends where it stands.
TaskStops(t) ==
    /\ task[t].stop /\ task[t].pc \in {"connecting", "linked", "waiting"}
    /\ task' = [task EXCEPT ![t].pc = "stopped"]
    /\ link' = IF task[t].pc = "linked"
               THEN [link EXCEPT ![task[t].link].pc = "cancelled"] ELSE link
    /\ UNCHANGED <<rows, outbound_tasks, peer_servers, ip_to_routes, answered, admin>>
-----------------------------------------------------------------------------
(* The loop of a connection: run_peer_communication_loop.                   *)

\* The routes without those through the connections of L, in the networks of N.
Without(L, N) ==
    [n \in Nets |-> [ip \in Ips |-> [l \in Links |->
        IF l \in L /\ n \in N THEN None ELSE ip_to_routes[n][ip][l]]]]

cleanup_routes(l) == ip_to_routes' = Without({l}, link[l].codes)
cleanup_all_routes(L) == ip_to_routes' = Without(L, Nets)

\* The connection breaks: the loop ends with its epilogue.
LoopEnds(l) ==
    /\ Running(l)
    /\ link' = [link EXCEPT ![l].pc = "gone", ![l].connected = FALSE]
    /\ cleanup_routes(l)
    /\ peer_servers' = peer_servers \ {l}
    /\ task' = [t \in Tasks |-> IF task[t].pc = "linked" /\ task[t].link = l
                                THEN [task[t] EXCEPT !.pc = "waiting"] ELSE task[t]]
    /\ UNCHANGED <<rows, outbound_tasks, answered, admin>>

\* PeerServerInfo::send, from the loop that alone empties the queue: refused when
\* disconnected, waiting for ever when the queue is full.
Send(l) ==
    link' = IF ~ link[l].connected THEN link
            ELSE IF link[l].queued = QueueCap THEN [link EXCEPT ![l].pc = "blocked"]
            ELSE [link EXCEPT ![l].queued = @ + 1]

\* A tick of ping_peer or pull_client_info_from_peer, or the answer to a PingReq or a
\* ClientInfoReq.
QueueFrame(l) ==
    /\ Running(l) /\ Send(l)
    /\ UNCHANGED <<rows, outbound_tasks, task, peer_servers, ip_to_routes, answered, admin>>

WriteFrame(l) ==
    /\ Running(l) /\ link[l].queued > 0
    /\ link' = [link EXCEPT ![l].queued = @ - 1]
    /\ UNCHANGED <<rows, outbound_tasks, task, peer_servers, ip_to_routes, answered, admin>>

handle_ping_response(l, latency) ==
    /\ Running(l) /\ link[l].latency # latency
    /\ link' = [link EXCEPT ![l].latency = latency]
    /\ UNCHANGED <<rows, outbound_tasks, task, peer_servers, ip_to_routes, answered, admin>>

\* K: what sort_by_key(total_latency) and truncate(MAX_ROUTES_PER_IP) keep of the
\* candidates C, whose latencies are `lat`.
Kept(K, C, lat) ==
    /\ K \subseteq C
    /\ IF Cardinality(C) <= MaxRoutes THEN K = C
       ELSE /\ Cardinality(K) = MaxRoutes
            /\ \A i \in K, j \in C \ K : link[i].latency + lat[i] <= link[j].latency + lat[j]

LearnedOnly(n, clients, l, ip) ==   \* mutant: addresses no longer reported stay
    [ip_to_routes[n][ip] EXCEPT ![l] = IF clients[ip] # None THEN clients[ip] ELSE @]

\* The peer's clients of network n: each is routed through l, and l is removed from the
\* routes of every other address.
Learned(n, clients, l, ip) ==
    [ip_to_routes[n][ip] EXCEPT ![l] = clients[ip]]

handle_client_info_response(l, n, clients) ==
    /\ Running(l)
    /\ \E keep \in [Ips -> SUBSET Links] :
         /\ \A ip \in Ips :
              LET lat == Learned(n, clients, l, ip)
                  C == {k \in Links : lat[k] # None}
              IN  IF clients[ip] # None THEN Kept(keep[ip], C, lat) ELSE keep[ip] = C
         /\ ip_to_routes' = [ip_to_routes EXCEPT ![n] = [ip \in Ips |-> [k \in Links |->
                IF k \in keep[ip] THEN Learned(n, clients, l, ip)[k] ELSE None]]]
    /\ link' = [link EXCEPT ![l].codes = @ \cup {n}]
    /\ answered' = [answered EXCEPT ![l][n] = clients]
    /\ UNCHANGED <<rows, outbound_tasks, task, peer_servers, admin>>
-----------------------------------------------------------------------------
(* Console requests.                                                        *)

Busy(a) == \E m \in Admins : admin[m].pc # "idle" /\ admin[m].addr = a
May(m, a) == admin[m].pc = "idle" /\ (Exclusive => ~ Busy(a))

Spawn(t, a) == [pc |-> "connecting", addr |-> a, link |-> None, stop |-> FALSE]

\* add_outbound_peer: an address that has a task already is refused.
AddRequest(m, a) ==
    /\ May(m, a) /\ outbound_tasks[a] = None
    /\ admin' = [admin EXCEPT ![m] = [pc |-> "save", addr |-> a, task |-> None]]
    /\ UNCHANGED <<rows, outbound_tasks, task, link, peer_servers, ip_to_routes, answered>>

AddSaved(m) ==
    /\ admin[m].pc = "save"
    /\ rows' = rows \cup {admin[m].addr}
    /\ admin' = [admin EXCEPT ![m].pc = "insert"]
    /\ UNCHANGED <<outbound_tasks, task, link, peer_servers, ip_to_routes, answered>>

AddFailsIgnored(m) ==   \* mutant: the failed write is not an error
    /\ admin[m].pc = "save"
    /\ admin' = [admin EXCEPT ![m].pc = "insert"]
    /\ UNCHANGED <<rows, outbound_tasks, task, link, peer_servers, ip_to_routes, answered>>

AddFails(m) ==
    /\ admin[m].pc = "save"
    /\ admin' = [admin EXCEPT ![m] = Idle]
    /\ UNCHANGED <<rows, outbound_tasks, task, link, peer_servers, ip_to_routes, answered>>

\* The task is spawned and kept; the sender of one it replaces is dropped, which stops
\* that one.
AddInsert(m, t) ==
    LET a == admin[m].addr
    IN  /\ admin[m].pc = "insert" /\ task[t] = NoTask
        /\ outbound_tasks' = [outbound_tasks EXCEPT ![a] = t]
        /\ task' = [u \in Tasks |-> IF u = t THEN Spawn(t, a)
                                    ELSE IF u = outbound_tasks[a]
                                    THEN [task[u] EXCEPT !.stop = TRUE] ELSE task[u]]
        /\ admin' = [admin EXCEPT ![m] = Idle]
        /\ UNCHANGED <<rows, link, peer_servers, ip_to_routes, answered>>

\* remove_outbound_peer: the task is taken out and told to stop, ...
RemoveRequest(m, a) ==
    LET t == outbound_tasks[a]
    IN  /\ May(m, a)
        /\ outbound_tasks' = [outbound_tasks EXCEPT ![a] = None]
        /\ task' = IF t = None THEN task ELSE [task EXCEPT ![t].stop = TRUE]
        /\ admin' = [admin EXCEPT ![m] = [pc |-> "stopping", addr |-> a, task |-> t]]
        /\ UNCHANGED <<rows, link, peer_servers, ip_to_routes, answered>>

\* ... waited for, ...
TaskAwaited(m) ==
    /\ admin[m].pc = "stopping"
    /\ admin[m].task # None => task[admin[m].task].pc = "stopped"
    /\ admin' = [admin EXCEPT ![m].pc = "sweep", ![m].task = None]
    /\ UNCHANGED <<rows, outbound_tasks, task, link, peer_servers, ip_to_routes, answered>>

\* ... and what it left behind is cleaned up.
LeftoverRunning(a) ==   \* mutant: cancelled loops are missed
    {l \in peer_servers : link[l].addr = a /\ link[l].outbound /\ Running(l)}
Leftover(a) == {l \in peer_servers : link[l].addr = a /\ link[l].outbound}

Sweep(m) ==
    LET L == Leftover(admin[m].addr)
    IN  /\ admin[m].pc = "sweep"
        /\ link' = [l \in Links |-> IF l \in L THEN [link[l] EXCEPT !.connected = FALSE]
                                    ELSE link[l]]
        /\ cleanup_all_routes(L)
        /\ peer_servers' = peer_servers \ L
        /\ admin' = [admin EXCEPT ![m].pc = "delete"]
        /\ UNCHANGED <<rows, outbound_tasks, task, answered>>

\* The row is deleted, or that fails and the request with it.
RowDeleted(m) ==
    /\ admin[m].pc = "delete"
    /\ rows' \in {rows, rows \ {admin[m].addr}}
    /\ admin' = [admin EXCEPT ![m] = Idle]
    /\ UNCHANGED <<outbound_tasks, task, link, peer_servers, ip_to_routes, answered>>
-----------------------------------------------------------------------------
(* load_and_start_outbound_peers: one task for every row.                   *)
Init ==
    /\ rows \in SUBSET Addrs
    /\ outbound_tasks \in [Addrs -> Tasks \cup {None}]
    /\ \A a \in Addrs : outbound_tasks[a] # None <=> a \in rows
    /\ \A a, b \in rows : outbound_tasks[a] = outbound_tasks[b] => a = b
    /\ task = [t \in Tasks |-> IF \E a \in rows : outbound_tasks[a] = t
                              THEN Spawn(t, CHOOSE a \in rows : outbound_tasks[a] = t)
                              ELSE NoTask]
    /\ link = [l \in Links |-> [Opened(None, FALSE) EXCEPT !.pc = "none", !.connected = FALSE]]
    /\ peer_servers = {}
    /\ ip_to_routes = [n \in Nets |-> [ip \in Ips |-> [l \in Links |-> None]]]
    /\ answered = [l \in Links |-> [n \in Nets |-> [ip \in Ips |-> None]]]
    /\ admin = [m \in Admins |-> Idle]

LinkStep(l) ==
    \/ Accept(l)
    \/ \E t \in Tasks : Connect(t, l)
    \/ LoopEnds(l) \/ QueueFrame(l) \/ WriteFrame(l)
    \/ \E x \in Lats : handle_ping_response(l, x)
    \/ \E n \in Nets, clients \in [Ips -> Lats \cup {None}] :
         handle_client_info_response(l, n, clients)

AdminStep(m) ==
    \/ \E a \in Addrs : AddRequest(m, a) \/ RemoveRequest(m, a)
    \/ AddSaved(m) \/ AddFails(m) \/ TaskAwaited(m) \/ Sweep(m) \/ RowDeleted(m)
    \/ \E t \in Tasks : AddInsert(m, t)

Next ==
    \/ \E l \in Links : LinkStep(l)
    \/ \E t \in Tasks : ConnectFails(t) \/ Reconnect(t) \/ TaskStops(t)
    \/ \E m \in Admins : AdminStep(m)

Spec == Init /\ [][Next]_vars
-----------------------------------------------------------------------------
\* The type invariant.
TypeOK ==
    /\ rows \subseteq Addrs
    /\ outbound_tasks \in [Addrs -> Tasks \cup {None}]
    /\ task \in [Tasks -> Task]
    /\ link \in [Links -> Link]
    /\ peer_servers \subseteq Links
    /\ ip_to_routes \in [Nets -> [Ips -> [Links -> Lats \cup {None}]]]
    /\ answered \in [Links -> [Nets -> [Ips -> Lats \cup {None}]]]
    /\ admin \in [Admins -> Admin]

Stopping(a) == \E m \in Admins : admin[m].addr = a /\ admin[m].pc \in {"stopping", "sweep"}

\* No packet is routed into a dead end: a route leads through a connection that is
\* connected, listed and whose loop has not ended, unless its peer is just being
\* removed.  Both ends of a connection's life clean up, the loop's epilogue by the
\* networks it has seen and remove_outbound_peer for a loop that never got there.
NoDanglingRoute ==
    \A n \in Nets, ip \in Ips, l \in Links :
        ip_to_routes[n][ip][l] # None /\ ~ Stopping(link[l].addr) =>
            link[l].connected /\ l \in peer_servers /\ link[l].pc \in {"running", "blocked"}

\* A route is what its server reported last: handle_client_info_response replaces all
\* that was learnt through the connection, also the routes of addresses that are gone.
RouteIsLatest ==
    \A n \in Nets, ip \in Ips, l \in Links :
        ip_to_routes[n][ip][l] \in {None, answered[l][n][ip]}

\* An address has one outbound connection: the refusal in add_outbound_peer and the
\* order of removal see to it that a peer is not connected twice.
OneConnection ==
    \A k, l \in peer_servers :
        link[k].outbound /\ link[l].outbound /\ link[k].addr = link[l].addr => k = l

\* A connection kept up by a task survives a restart: its address has a row, because
\* the row is written before the task starts and deleted after it has ended.
TaskHasRow == \A a \in Addrs : outbound_tasks[a] # None => a \in rows
=============================================================================
