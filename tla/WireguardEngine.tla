-------------------------- MODULE WireguardEngine ---------------------------
(***************************************************************************)
(* The WireGuard engine: its table of configured devices, its connected    *)
(* peers, the index by which data packets find their peer, and the queue   *)
(* of packets relayed to it from the rest of the network.                  *)
(*                                                                         *)
(* Source: server/wireguard.rs (WireGuardService).                         *)
(*                                                                         *)
(* The engine is one task: it handles a datagram, a relayed packet, a      *)
(* command or a tick to the end before the next.  The protocol itself is   *)
(* that of the library: here a tunnel may answer any packet by sending a   *)
(* handshake message with a fresh sender index.  The addresses datagrams   *)
(* come from are left out; nothing reads address_to_peer.                  *)
(***************************************************************************)
EXTENDS Naturals, Sequences

CONSTANTS
    PublicKeys,     \* keys the server has generated for devices
    Owner,          \* key -> its device (the key of a device may be replaced)
    Ips,            \* addresses of devices
    Indexes,        \* sender indexes
    MaxRelay,       \* CHANNEL_CAPACITY of the relay channel
    NoPeer

VARIABLES
    devices,          \* key -> the configured address, or NoPeer
    peers,            \* key -> a connected peer, or NoPeer
    receiver_to_peer, \* sender index -> key
    relay_rx,         \* the relay channel
    silent,           \* the clients that have stopped sending for good
    strayed           \* history: a relayed packet entered the tunnel of another address

wgVars == <<devices, peers, receiver_to_peer, relay_rx, silent, strayed>>

\* `idle`: PEER_IDLE_TIMEOUT has passed since last_authenticated_at.
Peer == [ip : Ips, receiver_idx : Indexes \cup {NoPeer}, idle : BOOLEAN]
RelayPacket == [key : PublicKeys, dest : Ips]

ASSUME WireguardAssumption ==
    /\ NoPeer \notin PublicKeys \cup Ips \cup Indexes \cup Peer
    /\ MaxRelay \in Nat \ {0}
-----------------------------------------------------------------------------
Connected == {k \in PublicKeys : peers[k] # NoPeer}

\* decode_devices: each device by its present key; addresses belong to one device.
Tables ==
    {t \in [PublicKeys -> Ips \cup {NoPeer}] : \A k, l \in PublicKeys :
        t[k] # NoPeer /\ t[l] # NoPeer /\ (Owner[k] = Owner[l] \/ t[k] = t[l]) => k = l}

\* disconnect_peer for the peers of S.
Without(S) == [k \in PublicKeys |-> IF k \in S THEN NoPeer ELSE peers[k]]
UnindexedKeeps(S) == receiver_to_peer   \* mutant: the index entry stays
Unindexed(S) ==
    {e \in receiver_to_peer : \A k \in S \cap Connected : peers[k].receiver_idx # e[1]}

disconnect_peer(S) == peers' = Without(S) /\ receiver_to_peer' = Unindexed(S)

\* The handshake messages one handler sends: to some peers of D, each with a sender
\* index, ...
Messages(D) == UNION {[E -> Indexes] : E \in SUBSET D}
Quiet == <<>>

\* ... which no other tunnel uses.
Unused(r, f) ==
    \A k \in DOMAIN f, l \in PublicKeys : k # l =>
        <<f[k], l>> \notin r /\ (l \in DOMAIN f => f[l] # f[k])

\* remember_sender_index, for the messages f, in the tables q and r.
remember_sender_index(q, r, f) ==
    /\ Unused(r, f)
    /\ peers' = [k \in PublicKeys |->
                   IF k \in DOMAIN f THEN [q[k] EXCEPT !.receiver_idx = f[k]] ELSE q[k]]
    /\ receiver_to_peer' =
         {e \in r : \A k \in DOMAIN f : e[1] # q[k].receiver_idx /\ e[1] # f[k]}
         \cup {<<f[k], k>> : k \in DOMAIN f}
-----------------------------------------------------------------------------
(* Datagrams.                                                               *)

\* connect_peer: a key of the table whose session can be registered.
connect_peer(k) ==
    IF peers[k] # NoPeer THEN peers
    ELSE [peers EXCEPT ![k] = [ip |-> devices[k], receiver_idx |-> NoPeer, idle |-> FALSE]]

Refreshed(q, k) == [q EXCEPT ![k].idle = FALSE]

\* handle_udp, a handshake initiation: answered, ...
HandshakeInit(k, i) ==
    /\ k \notin silent /\ (k \in Connected \/ devices[k] # NoPeer)
    /\ remember_sender_index(Refreshed(connect_peer(k), k), receiver_to_peer,
                             [l \in {k} |-> i])
    /\ UNCHANGED <<devices, relay_rx, silent, strayed>>

\* ... or refused by the tunnel; the peer has been connected by then.
HandshakeRefused(k) ==
    /\ k \notin silent /\ (k \in Connected \/ devices[k] # NoPeer)
    /\ peers' = connect_peer(k)
    /\ UNCHANGED <<devices, receiver_to_peer, relay_rx, silent, strayed>>

\* Any other packet finds its peer by the index.  What it carries may be answered
\* (a ping of the gateway) or sent on to every other peer (a broadcast), and a tunnel
\* without a current key then sends a handshake message instead.
PacketData(e, f) ==
    /\ e \in receiver_to_peer /\ e[2] \notin silent
    /\ remember_sender_index(Refreshed(peers, e[2]), receiver_to_peer, f)
    /\ UNCHANGED <<devices, relay_rx, silent, strayed>>

PacketRefreshes(e, f) ==   \* mutant: every packet with a known index counts as a sign of life
    /\ e \in receiver_to_peer
    /\ remember_sender_index(Refreshed(peers, e[2]), receiver_to_peer, f)
    /\ UNCHANGED <<devices, relay_rx, silent, strayed>>

\* It is not authentic, has a foreign source address, or cannot be sent on.
PacketRefused(e, f) ==
    /\ e \in receiver_to_peer
    /\ e[2] \in silent => f = Quiet
    /\ remember_sender_index(peers, receiver_to_peer, f)
    /\ UNCHANGED <<devices, relay_rx, silent, strayed>>

\* The tunnel reports ConnectionExpired.
PacketExpired(e) ==
    /\ e \in receiver_to_peer
    /\ disconnect_peer({e[2]})
    /\ UNCHANGED <<devices, relay_rx, silent, strayed>>
-----------------------------------------------------------------------------
(* Relayed packets.                                                         *)

\* The task of a session hands on what the network sends to its device.
RelayTask(k, a) ==
    /\ k \in Connected /\ Len(relay_rx) < MaxRelay
    /\ relay_rx' = Append(relay_rx, [key |-> k, dest |-> a])
    /\ UNCHANGED <<devices, peers, receiver_to_peer, silent, strayed>>

handle_relay_unchecked(f) ==   \* mutant: the destination is not compared
    LET m == Head(relay_rx)
    IN  /\ relay_rx # <<>> /\ m.key \in Connected
        /\ f \in Messages({m.key})
        /\ remember_sender_index(peers, receiver_to_peer, f)
        /\ strayed' = (strayed \/ m.dest # devices[m.key])
        /\ relay_rx' = Tail(relay_rx)
        /\ UNCHANGED <<devices, silent>>

\* handle_relay: the packet enters the tunnel, ...
handle_relay(f) ==
    LET m == Head(relay_rx)
    IN  /\ relay_rx # <<>> /\ m.key \in Connected
        /\ m.dest = peers[m.key].ip
        /\ f \in Messages({m.key})
        /\ remember_sender_index(peers, receiver_to_peer, f)
        /\ strayed' = (strayed \/ m.dest # devices[m.key])
        /\ relay_rx' = Tail(relay_rx)
        /\ UNCHANGED <<devices, silent>>

\* ... or is dropped: another type, no such peer, or addresses that do not match.
RelayDropped ==
    /\ relay_rx # <<>>
    /\ relay_rx' = Tail(relay_rx)
    /\ UNCHANGED <<devices, peers, receiver_to_peer, silent, strayed>>
-----------------------------------------------------------------------------
(* Time and commands.                                                       *)

\* tick: idle peers go, and those whose tunnel has expired; a timer may send a
\* handshake message.
tick(X, f) ==
    LET S == X \cup {k \in Connected : peers[k].idle}
    IN  /\ DOMAIN f \cap S = {}
        /\ remember_sender_index(Without(S), Unindexed(S), f)

\* DisconnectDevice: the first peer of the device that is found.
DisconnectPeer(k) ==
    /\ k \in Connected
    /\ disconnect_peer({k})
    /\ UNCHANGED <<devices, relay_rx, silent, strayed>>

ReloadKeepsMoved(t) ==   \* mutant: a peer whose address changed stays
    /\ disconnect_peer({k \in Connected : t[k] = NoPeer})
    /\ devices' = t
    /\ UNCHANGED <<relay_rx, silent, strayed>>

ReloadDevices(t) ==
    /\ disconnect_peer({k \in Connected : t[k] # peers[k].ip})
    /\ devices' = t
    /\ UNCHANGED <<relay_rx, silent, strayed>>

\* Shutdown, after which a new engine starts; what the devices have become meanwhile is
\* a reload of their table.
Restart ==
    /\ disconnect_peer(Connected)
    /\ relay_rx' = <<>>
    /\ UNCHANGED <<devices, silent, strayed>>

\* PEER_IDLE_TIMEOUT passes without an authentic packet of k; a client stops for good.
IdleTime(k) ==
    /\ k \in Connected /\ ~peers[k].idle
    /\ peers' = [peers EXCEPT ![k].idle = TRUE]
    /\ UNCHANGED <<devices, receiver_to_peer, relay_rx, silent, strayed>>

FallsSilent(k) ==
    /\ silent' = silent \cup {k}
    /\ UNCHANGED <<devices, peers, receiver_to_peer, relay_rx, strayed>>
-----------------------------------------------------------------------------
WgInit ==
    /\ devices \in Tables
    /\ peers = [k \in PublicKeys |-> NoPeer]
    /\ receiver_to_peer = {}
    /\ relay_rx = <<>>
    /\ silent = {}
    /\ strayed = FALSE

Tick ==
    /\ UNCHANGED <<devices, relay_rx, silent, strayed>>
    /\ \E X \in SUBSET Connected, f \in Messages(Connected) : tick(X, f)

WgNext ==
    \/ \E k \in PublicKeys, i \in Indexes : HandshakeInit(k, i)
    \/ \E k \in PublicKeys : HandshakeRefused(k) \/ DisconnectPeer(k)
    \/ \E e \in receiver_to_peer, f \in Messages(Connected) :
         PacketData(e, f) \/ PacketRefused(e, f)
    \/ \E e \in receiver_to_peer : PacketExpired(e)
    \/ \E k \in PublicKeys, a \in Ips : RelayTask(k, a)
    \/ \E f \in Messages(Connected) : handle_relay(f)
    \/ RelayDropped
    \/ Tick
    \/ \E t \in Tables : ReloadDevices(t)
    \/ Restart
    \/ \E k \in PublicKeys : IdleTime(k) \/ FallsSilent(k)

WgSpec == WgInit /\ [][WgNext]_wgVars

\* The interval ticks, and for a client that sends nothing the timeout passes.
WgFairness ==
    /\ WF_wgVars(Tick)
    /\ \A k \in PublicKeys : WF_wgVars(k \in silent /\ IdleTime(k))
-----------------------------------------------------------------------------
(* Properties.                                                              *)

\* Through reconnects, new handshakes of either side, expiries and reloads in any order
\* the index names exactly the peers' current sender indexes: no packet finds a peer
\* that is gone or another one's tunnel.
IndexRouting ==
    /\ receiver_to_peer = {e \in Indexes \X PublicKeys :
                             peers[e[2]] # NoPeer /\ peers[e[2]].receiver_idx = e[1]}
    /\ \A k, l \in Connected :
         peers[k].receiver_idx = peers[l].receiver_idx => k = l \/ peers[k].receiver_idx = NoPeer

\* The connected peers are configured devices under their present address, also after
\* the table was replaced, and a device has one peer: DisconnectDevice stops at the
\* first it finds.
PeersConfigured ==
    /\ \A k \in Connected : peers[k].ip = devices[k]
    /\ \A k, l \in Connected : Owner[k] = Owner[l] => k = l

\* Packets wait in the relay channel while their device is moved, disconnected and
\* connected again: one that enters a tunnel is for the address the device now has.
RelayCurrent == ~strayed

\* handle_udp, comment: matching a receiver index alone must not keep a peer online.  A
\* client that has stopped sending is disconnected, whatever else arrives for it.
SilentPeerGoes == []<>(\A k \in silent : peers[k] = NoPeer)
=============================================================================
