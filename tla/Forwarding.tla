----------------------------- MODULE Forwarding -----------------------------
(***************************************************************************)
(* Unicast packets between clients of a cluster of servers: where a packet *)
(* goes, given each server's own clients and what it has learnt of the     *)
(* clients of the others.                                                  *)
(*                                                                         *)
(* Source: control_server/handler.rs (handle_data), service.rs             *)
(* (forward_external_packet), peer_server.rs (forward_with_best_route,     *)
(* handle_forward_data), network_state_provider.rs (latencies).            *)
(*                                                                         *)
(* One network.  A client has one address, one type and one set of flags,  *)
(* and may be connected to several servers.  Subnets behind a client and   *)
(* the life of a server connection (PeerServer) are left out; a connection *)
(* is the two ends' view of it.                                            *)
(***************************************************************************)
EXTENDS Naturals, FiniteSets

CONSTANTS
    Servers,
    Senders,         \* the servers whose clients send packets
    ClientIps,       \* addresses of clients that packets are sent to
    Lats,            \* measured latencies of clients, ...
    PeerLats,        \* ... and of connections between servers
    DefaultLatency,  \* DEFAULT_CLIENT_LATENCY_MS, DEFAULT_SERVER_LATENCY_MS
    Nil

ASSUME ForwardingAssumption ==
    /\ Nil \notin Servers \cup ClientIps \cup Nat \cup {"Vnt", "Tunnel"}
    /\ Senders \subseteq Servers
    /\ Lats \subseteq Nat /\ PeerLats \subseteq Nat /\ DefaultLatency \in Nat

VARIABLES
    client,     \* address -> its client: type, accepts packets of tunnel clients
    entry,      \* server -> address -> device entry
    up,         \* server -> server -> is the connection up, as this end sees it
    latency,    \* server -> server -> measured latency of the connection
    answer,     \* server -> server -> answer to a pull, under way
    routes,     \* server -> address -> server -> client latency
    wire,       \* a packet between servers
    delivered   \* the packet a client got in this step (history only)

forwardVars == <<client, entry, up, latency, answer, routes, wire, delivered>>
learnt == <<up, latency, answer, routes>>

\* A packet of a client ("Turn"), of a VNT client for a tunnel client ("Relay"), and one
\* of a tunnel client ("External", the relay types with the gateway flag).
Kinds == {"Turn", "Relay", "External"}
Client == [type : {"Vnt"}, accepts : BOOLEAN] \cup [type : {"Tunnel"}, accepts : {FALSE}]
Entry == [online : BOOLEAN, latency : Lats \cup {Nil}]
Packet == [to : Servers, kind : Kinds, ip : ClientIps]
Snapshot == [ClientIps -> Lats \cup {DefaultLatency, Nil}]
-----------------------------------------------------------------------------
(* A server's own clients.                                                  *)

Online(s, ip) == entry[s][ip] # Nil /\ entry[s][ip].online

\* The servers that are known to have a client of this address.
Routed(s, ip) == {t \in Servers : up[s][t] /\ routes[s][ip][t] # Nil}

\* register_ikev2, register_wireguard: not at an address that another server reports.
MayUse(s, ip) == client[ip].type = "Tunnel" => Routed(s, ip) = {}

\* allocate_ip_as: a registration clears the latency, ...
Register(s, ip) ==
    /\ MayUse(s, ip)
    /\ entry' = [entry EXCEPT ![s][ip] = [online |-> TRUE, latency |-> Nil]]
    /\ entry' # entry
    /\ UNCHANGED <<client, learnt, wire>> /\ delivered' = Nil

\* update_client_latency: tunnel clients do not measure any.
UpdateLatency(s, ip, x) ==
    /\ Online(s, ip) /\ client[ip].type = "Vnt" /\ entry[s][ip].latency # x
    /\ entry' = [entry EXCEPT ![s][ip].latency = x]
    /\ UNCHANGED <<client, learnt, wire>> /\ delivered' = Nil

\* offline_ip: ... and the end of the last link keeps it.
Offline(s, ip) ==
    /\ Online(s, ip)
    /\ entry' = [entry EXCEPT ![s][ip].online = FALSE]
    /\ UNCHANGED <<client, learnt, wire>> /\ delivered' = Nil

\* The lease expires or the device is deleted.
Release(s, ip) ==
    /\ entry[s][ip] # Nil /\ ~ entry[s][ip].online
    /\ entry' = [entry EXCEPT ![s][ip] = Nil]
    /\ UNCHANGED <<client, learnt, wire>> /\ delivered' = Nil
-----------------------------------------------------------------------------
(* What servers learn of each other.                                        *)

Connect(s, t) ==
    /\ s # t /\ ~ up[s][t] /\ ~ up[t][s]
    /\ up' = [up EXCEPT ![s][t] = TRUE, ![t][s] = TRUE]
    /\ UNCHANGED <<client, entry, latency, answer, routes, wire>> /\ delivered' = Nil

\* One end's loop is over; the other's is when it notices.
Disconnect(s, t) ==
    /\ up[s][t]
    /\ up' = [up EXCEPT ![s][t] = FALSE]
    /\ routes' = [routes EXCEPT ![s] = [ip \in ClientIps |-> [@[ip] EXCEPT ![t] = Nil]]]
    /\ answer' = [answer EXCEPT ![s][t] = Nil, ![t][s] = Nil]
    /\ latency' = [latency EXCEPT ![s][t] = DefaultLatency]
    /\ UNCHANGED <<client, entry, wire>> /\ delivered' = Nil

handle_ping_response(s, t, x) ==
    /\ up[s][t] /\ up[t][s] /\ latency[s][t] # x
    /\ latency' = [latency EXCEPT ![s][t] = x]
    /\ UNCHANGED <<client, entry, up, answer, routes, wire>> /\ delivered' = Nil

\* handle_client_info_request: the clients with a link and their latencies.
Reported(s) ==
    [ip \in ClientIps |-> IF ~ Online(s, ip) THEN Nil
                    ELSE IF entry[s][ip].latency = Nil THEN DefaultLatency
                    ELSE entry[s][ip].latency]

\* t answers the pull of s; s takes the answer in.
AnswerPull(t, s) ==
    /\ up[s][t] /\ up[t][s] /\ answer[t][s] = Nil
    /\ answer' = [answer EXCEPT ![t][s] = Reported(t)]
    /\ UNCHANGED <<client, entry, up, latency, routes, wire>> /\ delivered' = Nil

LearntOnly(s, t, clients) ==   \* mutant: clients that have left stay
    [ip \in ClientIps |-> [routes[s][ip] EXCEPT ![t] = IF clients[ip] # Nil THEN clients[ip] ELSE @]]
Learnt(s, t, clients) ==
    [ip \in ClientIps |-> [routes[s][ip] EXCEPT ![t] = clients[ip]]]

handle_client_info_response(s, t) ==
    /\ up[s][t] /\ answer[t][s] # Nil
    /\ routes' = [routes EXCEPT ![s] = Learnt(s, t, answer[t][s])]
    /\ answer' = [answer EXCEPT ![t][s] = Nil]
    /\ UNCHANGED <<client, entry, up, latency, wire>> /\ delivered' = Nil
-----------------------------------------------------------------------------
(* Where a packet goes.                                                     *)

total_latency(s, ip, t) == latency[s][t] + routes[s][ip][t] + 2

find_best_route(s, ip) ==
    {t \in Routed(s, ip) : \A u \in Routed(s, ip) : total_latency(s, ip, t) <= total_latency(s, ip, u)}

\* forward_with_best_route: is the way through t taken rather than the local client?
ShouldForwardUnknown(s, ip, t) ==   \* mutant: only a measured local latency is compared
    entry[s][ip] # Nil /\ entry[s][ip].latency # Nil
        /\ total_latency(s, ip, t) < entry[s][ip].latency
ShouldForward(s, ip, t) ==
    IF entry[s][ip] # Nil /\ entry[s][ip].latency # Nil
    THEN total_latency(s, ip, t) < entry[s][ip].latency
    ELSE Online(s, ip) => total_latency(s, ip, t) < DefaultLatency

Via(s, ip) == {t \in find_best_route(s, ip) : ShouldForward(s, ip, t)}

\* client_type: Nil when the address is known neither here nor elsewhere.
client_type(s, ip) == IF Online(s, ip) \/ Routed(s, ip) # {} THEN client[ip].type ELSE Nil

\* handle_data and forward_external_packet: packets that are not sent at all.  For a VNT
\* client the sending server looks at its own entry only, if it has one.
Admitted(s, kind, ip) ==
    CASE kind = "Turn" -> TRUE
      [] kind = "Relay" -> client_type(s, ip) = "Tunnel"
      [] kind = "External" ->
           /\ client_type(s, ip) # Nil
           /\ client_type(s, ip) = "Vnt" /\ entry[s][ip] # Nil => client[ip].accepts

AcceptedAny(t, kind, ip) == TRUE   \* mutant: left to the sending server
\* handle_forward_data: packets of another server that are not passed on to the client.
Accepted(t, kind, ip) ==
    kind # "Turn" =>
        /\ entry[t][ip] # Nil
        /\ \/ client[ip].type = "Tunnel"
           \/ kind = "External" /\ client[ip].accepts

\* try_send into the queue of the local client.
Deliver(s, kind, ip) ==
    delivered' = IF Online(s, ip) THEN [kind |-> kind, ip |-> ip] ELSE Nil

Send(s, kind, ip) ==
    /\ wire = Nil /\ Admitted(s, kind, ip)
    /\ \/ /\ Via(s, ip) = {}
          /\ wire' = Nil
          /\ Deliver(s, kind, ip)
       \/ /\ wire' \in {[to |-> t, kind |-> kind, ip |-> ip] : t \in Via(s, ip)}
          /\ delivered' = Nil
    /\ UNCHANGED <<client, entry, learnt>>

\* The datagram arrives, or is lost.
handle_forward_data ==
    /\ wire # Nil
    /\ wire' = Nil
    /\ IF Accepted(wire.to, wire.kind, wire.ip)
       THEN Deliver(wire.to, wire.kind, wire.ip) ELSE delivered' = Nil
    /\ UNCHANGED <<client, entry, learnt>>

Lost ==
    /\ wire # Nil
    /\ wire' = Nil /\ delivered' = Nil
    /\ UNCHANGED <<client, entry, learnt>>
-----------------------------------------------------------------------------
ForwardInit ==
    /\ client \in [ClientIps -> Client]
    /\ entry = [s \in Servers |-> [ip \in ClientIps |-> Nil]]
    /\ up = [s \in Servers |-> [t \in Servers |-> FALSE]]
    /\ latency = [s \in Servers |-> [t \in Servers |-> DefaultLatency]]
    /\ answer = [s \in Servers |-> [t \in Servers |-> Nil]]
    /\ routes = [s \in Servers |-> [ip \in ClientIps |-> [t \in Servers |-> Nil]]]
    /\ wire = Nil /\ delivered = Nil

ClientStep(s, ip) ==
    \/ Register(s, ip) \/ Offline(s, ip) \/ Release(s, ip)
    \/ \E x \in Lats : UpdateLatency(s, ip, x)

Sync(s, t) == AnswerPull(t, s) \/ handle_client_info_response(s, t)

LinkStep(s, t) ==
    \/ Connect(s, t) \/ Disconnect(s, t)
    \/ \E x \in PeerLats : handle_ping_response(s, t, x)

Traffic == handle_forward_data \/ Lost \/ \E s \in Senders, k \in Kinds, ip \in ClientIps : Send(s, k, ip)

ForwardNext ==
    \/ \E s \in Servers, ip \in ClientIps : ClientStep(s, ip)
    \/ \E s, t \in Servers : LinkStep(s, t) \/ Sync(s, t)
    \/ Traffic

ForwardSpec == ForwardInit /\ [][ForwardNext]_forwardVars
-----------------------------------------------------------------------------
\* The type invariant.
ForwardTypeOK ==
    /\ client \in [ClientIps -> Client]
    /\ entry \in [Servers -> [ClientIps -> Entry \cup {Nil}]]
    /\ up \in [Servers -> [Servers -> BOOLEAN]]
    /\ latency \in [Servers -> [Servers -> PeerLats \cup {DefaultLatency}]]
    /\ answer \in [Servers -> [Servers -> Snapshot \cup {Nil}]]
    /\ routes \in [Servers -> [ClientIps -> [Servers -> Lats \cup {DefaultLatency, Nil}]]]
    /\ wire \in Packet \cup {Nil}
    /\ delivered \in [kind : Kinds, ip : ClientIps] \cup {Nil}

\* A tunnel client's packet reaches a VNT client only if that client accepts such packets,
\* and a VNT client's relay packet reaches tunnel clients only, although the sending
\* server cannot know the flags of another server's client and everything may change
\* while the packet is under way.
OnlyAccepted ==
    delivered # Nil =>
        /\ delivered.kind = "Relay" => client[delivered.ip].type = "Tunnel"
        /\ delivered.kind = "External" /\ client[delivered.ip].type = "Vnt"
             => client[delivered.ip].accepts

\* What server s knows of the address is what the others would report now.
Settled(s, ip) ==
    \A t \in Servers :
        /\ up[s][t] = up[t][s]
        /\ routes[s][ip][t] = IF up[s][t] THEN Reported(t)[ip] ELSE Nil

Somewhere(s, ip) == Online(s, ip) \/ \E t \in Servers : up[s][t] /\ Online(t, ip)

\* The latency of a client that has left server s, kept until the lease expires.
LatencyLeft(s, ip) == entry[s][ip] # Nil /\ ~ entry[s][ip].online /\ entry[s][ip].latency # Nil

Meant(kind, ip) ==
    /\ kind = "Relay" => client[ip].type = "Tunnel"
    /\ kind = "External" => client[ip].type = "Tunnel" \/ client[ip].accepts

Reaches(s, kind, ip) ==
    /\ Admitted(s, kind, ip)
    /\ Via(s, ip) = {} => Online(s, ip)
    /\ \A t \in Via(s, ip) : Online(t, ip) /\ Accepted(t, kind, ip)

\* Clients reach each other across servers: once a server's routes are up to date, a
\* packet of any kind for a client connected to it or to a server it is connected to is
\* delivered, whichever way forward_with_best_route takes, unless the server still holds
\* a latency of the client from an earlier connection.
SettledReach ==
    \A s \in Servers, ip \in ClientIps, kind \in Kinds :
        Settled(s, ip) /\ Somewhere(s, ip) /\ Meant(kind, ip) /\ ~ LatencyLeft(s, ip)
            => Reaches(s, kind, ip)
-----------------------------------------------------------------------------
\* Pulls are made every NETWORK_SYNC_INTERVAL_SECS and answered; a connection that the
\* other end has given up times out.
Expire(s, t) == ~ up[t][s] /\ Disconnect(s, t)

FairSpec ==
    /\ ForwardSpec
    /\ \A s \in Servers : \A t \in Servers \ {s} :
         WF_forwardVars(Sync(s, t)) /\ WF_forwardVars(Expire(s, t))

\* Routes catch up: when clients no longer come, go or measure, and connections that are
\* lost do not come back, every server comes to know where every client is, whatever
\* answers were under way or lost before.
RoutesSettle ==
    <>[][entry' = entry /\ \A s, t \in Servers : up'[s][t] => up[s][t]]_forwardVars
        => <>[](\A s \in Servers, ip \in ClientIps : Settled(s, ip))
=============================================================================
