--------------------------- MODULE ClientListSync ---------------------------
(***************************************************************************)
(* How a client keeps its list of the network's devices: it sends the      *)
(* version it has with every ping and is answered with nothing, with the   *)
(* entries that changed since, or with the whole list.  NetworkState keeps *)
(* the versions; this module adds one observing client, connected over an  *)
(* ordered connection at an address of its own.                            *)
(*                                                                         *)
(* Source: network_state_provider.rs (changed_client_simple_list), handler.rs *)
(* (handle_gateway, PingTurn), for a client that relays no tunnel traffic. *)
(***************************************************************************)
EXTENDS NetworkState, Sequences

CONSTANTS
    Shown,       \* client types the observer's list includes
    MaxAnswers   \* bound: answers on their way to the observer

ASSUME SyncAssumption ==
    /\ Shown \subseteq {"Vnt", "Ikev2", "Wireguard"}
    /\ MaxAnswers \in Nat \ {0}

VARIABLES
    known,     \* the observer's list and its version
    answers,   \* sent and not yet received, in order
    edited     \* addresses changed by an edit of a connected device, see below

syncVars == <<known, answers, edited>>
allVars == <<vars, syncVars>>

Item == [ip : Ips, online : BOOLEAN, client_type : {"Vnt", "Ikev2", "Wireguard"}]
\* `base`: the version the ping carried; the answer itself does not repeat it.
Answer == [base : Nat, version : Nat, list : SUBSET Item, is_all : BOOLEAN]

Listed(d) == /\ Has(d) /\ device_map[d].ip # None
             /\ device_map[d].client_type \in Shown
ItemOf(d) == [ip |-> device_map[d].ip, online |-> device_map[d].is_connected,
              client_type |-> device_map[d].client_type]

FullList == {ItemOf(d) : d \in {e \in Devices : Listed(e)}}
ChangedList(v) ==
    {ItemOf(d) : d \in {e \in Devices : Listed(e) /\ device_map[e].data_version > v}}

NeverAll(v) == v > data_version   \* mutant: disappearances do not force whole lists
NeedsAll(v) == v > data_version \/ v < full_sync_version

changed_client_simple_list(v) ==
    [base |-> v, version |-> data_version, is_all |-> NeedsAll(v),
     list |-> IF NeedsAll(v) THEN FullList ELSE ChangedList(v)]

\* A ping is answered with a list only if the version it carries is not the current
\* one.  Pings take time and answers too: v is a version the observer had when it sent
\* the ping, and answers to earlier ones may still be on their way.  A list that finds
\* the connection's queue full (try_send) is as if it had never been asked for.
Ping(v) ==
    /\ v # data_version
    /\ Len(answers) < MaxAnswers
    /\ answers' = Append(answers, changed_client_simple_list(v))
    /\ UNCHANGED <<vars, known, edited>>

\* The client (external): a whole list replaces its own, other items replace those of
\* the same address.
Receive ==
    LET a == Head(answers)
        Untouched == {r \in known.list : \A c \in a.list : c.ip # r.ip}
    IN  /\ answers # <<>>
        /\ answers' = Tail(answers)
        /\ known' = [version |-> a.version,
                     list |-> IF a.is_all THEN a.list ELSE Untouched \cup a.list]
        /\ UNCHANGED <<vars, edited>>

\* upsert_device_config changes the recorded address of a connected device without
\* publishing it: no version changes until the device moves, leaves or returns.  The
\* addresses concerned are not compared until a later change forces whole lists.
EditedLive ==
    IF /\ admin = NoAdmin /\ admin' # NoAdmin
       /\ device_map[admin'.device].is_connected
       /\ device_map[admin'.device].ip # device_map'[admin'.device].ip
    THEN {device_map[admin'.device].ip, device_map'[admin'.device].ip}
    ELSE {}

NetworkStep ==
    /\ Next
    /\ edited' = (IF full_sync_version' # full_sync_version THEN {} ELSE edited) \cup EditedLive
    /\ UNCHANGED <<known, answers>>

SyncInit ==
    /\ Init
    /\ known = [version |-> 0, list |-> {}]
    /\ answers = <<>>
    /\ edited = {}

SyncNext == NetworkStep \/ Receive \/ \E v \in 0 .. known.version : Ping(v)

SyncSpec == SyncInit /\ [][SyncNext]_allVars
-----------------------------------------------------------------------------
\* The type invariant of the observer.
SyncTypeOK ==
    /\ known \in [version : Nat, list : SUBSET Item]
    /\ answers \in Seq(Answer)
    /\ edited \in SUBSET (Ips \cup {None})

At(list, ip) == {r \in list : r.ip = ip}

\* A client whose version is the current one has the current list: every change of an
\* address, a status or a type, and every disappearance, either marks its entry as
\* changed or forces whole lists on clients that have not seen it, in whatever order
\* registrations, moves, drops, edits and releases come and answers overlap.
ListExact ==
    known.version = data_version =>
        \A ip \in Ips \ edited : At(known.list, ip) = At(FullList, ip)
-----------------------------------------------------------------------------
(* The inductive invariant behind ListExact.                                *)

\* No version is ahead of the list's, and only entries that exist have an address.
VersionsBounded ==
    /\ full_sync_version <= data_version
    /\ \A d \in Devices : device_map[d].data_version <= data_version
    /\ \A d \in Devices : device_map[d].ip # None => Has(d)
    /\ admin.previous.data_version <= data_version
    /\ admin.previous.ip # None => admin.previous.present

\* A list of version v shows an address as it is, or the entry there changed after v.
Behind(ip, v) ==
    \E d \in Devices : Listed(d) /\ device_map[d].ip = ip /\ device_map[d].data_version > v
Agrees(list, ip, v) == At(list, ip) = At(FullList, ip) \/ Behind(ip, v)

KnownAgrees ==
    known.version >= full_sync_version =>
        \A ip \in Ips \ edited : Agrees(known.list, ip, known.version)

\* What an answer says of an address agrees in that sense, and one with changes only
\* says something of every entry that changed between its two versions.
AnswerAgrees(a) ==
    a.version >= full_sync_version =>
        /\ a.is_all \/ a.base >= full_sync_version
        /\ \A ip \in Ips \ edited :
             /\ a.is_all \/ At(a.list, ip) # {} => Agrees(a.list, ip, a.version)
             /\ ~ a.is_all => \A d \in Devices :
                  /\ Listed(d) /\ device_map[d].ip = ip
                  /\ a.base < device_map[d].data_version
                  /\ device_map[d].data_version <= a.version
                  => At(a.list, ip) # {}

Pending == {answers[i] : i \in 1 .. Len(answers)}

AnswersOrdered ==
    /\ known.version <= data_version
    /\ \A i \in 1 .. Len(answers) :
         /\ answers[i].base <= known.version
         /\ known.version <= answers[i].version
         /\ answers[i].version <= data_version
    /\ \A i, j \in 1 .. Len(answers) : i <= j => answers[i].version <= answers[j].version

\* What every step preserves, together with LeaseInvariant.
SyncInvariant ==
    /\ SyncTypeOK
    /\ VersionsBounded
    /\ AnswersOrdered
    /\ KnownAgrees
    /\ \A a \in Pending : AnswerAgrees(a)
=============================================================================
