---------------------------- MODULE Ikev2Engine -----------------------------
(***************************************************************************)
(* The IKEv2 engine's tables of security associations: half-open exchanges,*)
(* EAP exchanges, established associations and the two indexes by which    *)
(* IKE messages and ESP packets find them.                                 *)
(*                                                                         *)
(* Source: server/ikev2.rs (Engine); service.rs and network_state_provider.rs *)
(* for the link that a registration publishes for its device.              *)
(*                                                                         *)
(* The engine handles one packet, command or timer tick at a time.  Clients*)
(* and the network are not modelled: any message may arrive at any time,   *)
(* again, or never.  A random SPI is one that is not in use.  Addresses,   *)
(* keys and the ESP window (EspInbound) are left out.                      *)
(***************************************************************************)
EXTENDS Naturals, FiniteSets

CONSTANTS
    Keys,           \* IKE SAs: pairs of SPIs
    Spis,           \* inbound SPIs of child SAs
    Inits,          \* initiator SPIs of first messages
    Devices,        \* devices, by EAP user name
    Total,          \* fragments of a fragmented message
    MaxFragments,   \* limit on incomplete fragment sets
    None

VARIABLES
    half_open,        \* IKE SA -> first exchange done
    eap_pending,      \* IKE SA -> EAP exchange
    established,      \* session id (the IKE SA of its first exchange) -> association
    esp_to_session,   \* inbound SPI -> session id
    ike_to_session,   \* IKE SA -> session id
    fragments,        \* IKE SA -> an incomplete message (one at a time)
    link              \* device -> the exchange whose registration is published

vars == <<half_open, eap_pending, established, esp_to_session, ike_to_session,
          fragments, link>>
tables == <<established, esp_to_session, ike_to_session>>

\* `old`: last seen HALF_OPEN_TIMEOUT, or SESSION_IDLE_TIMEOUT, ago or longer.
\* `displaced`: another exchange of the device has registered since (history only).
HalfOpen == [init : Inits, old : BOOLEAN]
EapPending == [child : Spis, device : Devices \cup {None}, old : BOOLEAN,
               displaced : BOOLEAN]
Established == [sa : Keys, child : Spis, device : Devices, old : BOOLEAN,
                displaced : BOOLEAN]
FragmentSet == [got : 1 .. Total - 1, old : BOOLEAN]

ASSUME EngineAssumption ==
    /\ None \notin Keys \cup Devices \cup HalfOpen \cup EapPending \cup Established
    /\ None \notin FragmentSet
    /\ IsFiniteSet(Keys)
    /\ Total \in Nat \ {0, 1}
    /\ MaxFragments \in Nat \ {0}
-----------------------------------------------------------------------------
Sessions == {k \in Keys : established[k] # None}

KeyFree(k) == /\ half_open[k] = None /\ eap_pending[k] = None /\ established[k] = None
              /\ ike_to_session[k] = None
SpiFree(i) == /\ esp_to_session[i] = None
              /\ \A k \in Keys : eap_pending[k] # None => eap_pending[k].child # i

\* Dropping the Session of an exchange unpublishes its own registration only.
DroppedAny(S) ==   \* mutant: the device goes offline whoever holds its link
    [d \in Devices |-> IF \E k \in S : \/ eap_pending[k] # None /\ eap_pending[k].device = d
                                       \/ established[k] # None /\ established[k].device = d
                       THEN None ELSE link[d]]
Dropped(S) == [d \in Devices |-> IF link[d] \in S THEN None ELSE link[d]]

\* remove_established, for the sessions of S, ...
RemovedKeepsIke(S) ==   \* mutant: the IKE SA stays known
    /\ established' = [k \in Keys |-> IF k \in S THEN None ELSE established[k]]
    /\ esp_to_session' = [i \in Spis |->
         IF \E k \in S \cap Sessions : established[k].child = i THEN None ELSE esp_to_session[i]]
    /\ ike_to_session' = ike_to_session

Removed(S) ==
    /\ established' = [k \in Keys |-> IF k \in S THEN None ELSE established[k]]
    /\ esp_to_session' = [i \in Spis |->
         IF \E k \in S \cap Sessions : established[k].child = i THEN None ELSE esp_to_session[i]]
    /\ ike_to_session' = [k \in Keys |->
         IF ike_to_session[k] \in S \cap Sessions THEN None ELSE ike_to_session[k]]

\* ... and for S together with all exchanges that are not complete.
Reset(S) ==
    /\ Removed(S)
    /\ half_open' = [k \in Keys |-> None]
    /\ eap_pending' = [k \in Keys |-> None]
    /\ fragments' = [k \in Keys |-> None]
    /\ link' = Dropped(S \cup {k \in Keys : eap_pending[k] # None})
-----------------------------------------------------------------------------
(* Messages.                                                                *)

Known(k) == half_open[k] # None \/ eap_pending[k] # None \/ ike_to_session[k] # None
Incomplete == {k \in Keys : fragments[k] # None}
Got(k) == IF fragments[k] = None THEN 0 ELSE fragments[k].got

\* collect_fragment: a part of a message that stays incomplete, or one it has already.
\* At the limit no part is taken, not even one of a set already begun.
CollectFragment(k, got) ==
    /\ Known(k) /\ Cardinality(Incomplete) < MaxFragments
    /\ got \in {Got(k), Got(k) + 1} /\ 0 < got /\ got < Total
    /\ fragments' = [fragments EXCEPT ![k] = [got |-> got, old |-> FALSE]]
    /\ UNCHANGED <<half_open, eap_pending, tables, link>>

\* handle_ike: a message of IKE SA k arrives whole, or its last missing part does.
Arrives(k) ==
    \/ fragments' = fragments
    \/ /\ Known(k) /\ Cardinality(Incomplete) < MaxFragments
       /\ Got(k) = Total - 1
       /\ fragments' = [fragments EXCEPT ![k] = None]

\* handle_sa_init: a half-open exchange of the same initiator is answered again.
SaInit(i, k) ==
    /\ \A j \in Keys : half_open[j] # None => half_open[j].init # i
    /\ KeyFree(k)
    /\ half_open' = [half_open EXCEPT ![k] = [init |-> i, old |-> FALSE]]
    /\ UNCHANGED <<eap_pending, tables, fragments, link>>

\* handle_ike_auth, begin_eap: after any error the half-open entry is put back as it
\* was, age included.
BeginEap(k, i) ==
    /\ Arrives(k)
    /\ half_open[k] # None /\ eap_pending[k] = None /\ SpiFree(i)
    /\ half_open' = [half_open EXCEPT ![k] = None]
    /\ eap_pending' = [eap_pending EXCEPT ![k] =
         [child |-> i, device |-> None, old |-> FALSE, displaced |-> FALSE]]
    /\ UNCHANGED <<tables, link>>

BeginEapRenews(k) ==   \* mutant: the entry put back is a new one
    /\ half_open[k] # None /\ eap_pending[k] = None /\ Arrives(k)
    /\ half_open' = [half_open EXCEPT ![k].old = FALSE]
    /\ UNCHANGED <<eap_pending, tables, link>>

BeginEapFails(k) ==
    /\ half_open[k] # None /\ eap_pending[k] = None /\ Arrives(k)
    /\ UNCHANGED <<half_open, eap_pending, tables, link>>

\* register_endpoint, once the user is known: the registration of d replaces whatever
\* link the device has.
Registers(k, d) == eap_pending[k].device = None /\ d # None
Displaced(t, k, d) ==
    [j \in Keys |-> IF j # k /\ t[j] # None /\ t[j].device = d
                    THEN [t[j] EXCEPT !.displaced = TRUE] ELSE t[j]]

\* handle_eap: the exchange goes on, ...
EapReply(k, d) ==
    /\ Arrives(k)
    /\ eap_pending[k] # None
    /\ eap_pending[k].device # None => d = eap_pending[k].device
    /\ LET next == [eap_pending EXCEPT ![k].device = d, ![k].old = FALSE]
       IN  IF Registers(k, d)
           THEN /\ eap_pending' = Displaced(next, k, d)
                /\ established' = Displaced(established, k, d)
                /\ link' = [link EXCEPT ![d] = k]
           ELSE /\ eap_pending' = next
                /\ UNCHANGED <<established, link>>
    /\ UNCHANGED <<half_open, esp_to_session, ike_to_session>>

\* ... fails (the client's message, the password, the registration, an answer that
\* cannot be sent), which ends the exchange and a registration it has made, ...
EapFails(k, d) ==
    /\ Arrives(k)
    /\ eap_pending[k] # None
    /\ eap_pending[k].device # None => d = eap_pending[k].device
    /\ IF Registers(k, d)
       THEN /\ eap_pending' = [Displaced(eap_pending, k, d) EXCEPT ![k] = None]
            /\ established' = Displaced(established, k, d)
            /\ link' = [link EXCEPT ![d] = None]
       ELSE /\ eap_pending' = [eap_pending EXCEPT ![k] = None]
            /\ link' = Dropped({k})
            /\ UNCHANGED established
    /\ UNCHANGED <<half_open, esp_to_session, ike_to_session>>

\* ... or completes: install_established, which replaces an association of the device.
Duplicates(d) == {j \in Sessions : established[j].device = d}

EapEstablished(k) ==
    LET p == eap_pending[k]
    IN  /\ Arrives(k)
        /\ p # None
        /\ p.device # None
        /\ \E S \in SUBSET Duplicates(p.device) :
             /\ Cardinality(S) <= 1 /\ (S = {} => Duplicates(p.device) = {})
             /\ established' = [j \in Keys |->
                  IF j = k THEN [sa |-> k, child |-> p.child, device |-> p.device,
                                 old |-> FALSE, displaced |-> p.displaced]
                  ELSE IF j \in S THEN None ELSE established[j]]
             /\ esp_to_session' = [i \in Spis |->
                  IF i = p.child THEN k
                  ELSE IF \E j \in S : established[j].child = i THEN None
                  ELSE esp_to_session[i]]
             /\ ike_to_session' = [j \in Keys |->
                  IF j = k THEN k
                  ELSE IF ike_to_session[j] \in S THEN None ELSE ike_to_session[j]]
             /\ link' = Dropped(S)
        /\ eap_pending' = [eap_pending EXCEPT ![k] = None]
        /\ UNCHANGED half_open

Current(k) == ike_to_session[k] # None /\ ike_to_session[k] \in Sessions
Seen(s) == [established EXCEPT ![s].old = FALSE]

\* handle_informational: answered, and with a Delete payload the association ends.
Informational(k) ==
    /\ Arrives(k) /\ Current(k)
    /\ established' = Seen(ike_to_session[k])
    /\ UNCHANGED <<half_open, eap_pending, esp_to_session, ike_to_session, link>>

InformationalDelete(k) ==
    /\ Arrives(k) /\ Current(k)
    /\ Removed({ike_to_session[k]})
    /\ link' = Dropped({ike_to_session[k]})
    /\ UNCHANGED <<half_open, eap_pending>>

\* handle_rekey of the IKE SA: the old SA is forgotten at once.
RekeyIke(k, new) ==
    LET s == ike_to_session[k]
    IN  /\ Arrives(k) /\ Current(k) /\ KeyFree(new)
        /\ ike_to_session' = [ike_to_session EXCEPT ![k] = None, ![new] = s]
        /\ established' = [established EXCEPT ![s].sa = new, ![s].old = FALSE]
        /\ UNCHANGED <<half_open, eap_pending, esp_to_session, link>>

\* handle_rekey of the child SA, whether or not the answer can be sent.
RekeyChild(k, new) ==
    LET s == ike_to_session[k]
    IN  /\ Arrives(k) /\ Current(k) /\ SpiFree(new)
        /\ established' = [established EXCEPT ![s].child = new, ![s].old = FALSE]
        /\ esp_to_session' = [esp_to_session EXCEPT ![established[s].child] = None, ![new] = s]
        /\ UNCHANGED <<half_open, eap_pending, ike_to_session, link>>

\* handle_esp: traffic keeps an association alive.
Esp(i) ==
    /\ esp_to_session[i] # None /\ esp_to_session[i] \in Sessions
    /\ established' = Seen(esp_to_session[i])
    /\ UNCHANGED <<half_open, eap_pending, esp_to_session, ike_to_session, fragments, link>>
-----------------------------------------------------------------------------
(* Commands and time.                                                       *)

DisconnectDevice(d) ==
    /\ \E s \in Duplicates(d) : Removed({s}) /\ link' = Dropped({s})
    /\ UNCHANGED <<half_open, eap_pending, fragments>>

\* ReloadConfig of the networks of D, ReloadCredentials (D empty), and Shutdown, after
\* which a new engine may start.
Reload(D) == Reset({s \in Sessions : established[s].device \in D})

\* Time passes for one entry.
MayAge(t, k) == t[k] # None /\ ~ t[k].old
Aged(t, k) == [t EXCEPT ![k].old = TRUE]
HalfOpenAges(k) ==
    /\ MayAge(half_open, k)
    /\ half_open' = Aged(half_open, k)
    /\ UNCHANGED <<eap_pending, tables, fragments, link>>
EapAges(k) ==
    /\ MayAge(eap_pending, k)
    /\ eap_pending' = Aged(eap_pending, k)
    /\ UNCHANGED <<half_open, tables, fragments, link>>
SessionAges(k) ==
    /\ MayAge(established, k)
    /\ established' = Aged(established, k)
    /\ UNCHANGED <<half_open, eap_pending, esp_to_session, ike_to_session, fragments, link>>
FragmentsAge(k) ==
    /\ MayAge(fragments, k)
    /\ fragments' = Aged(fragments, k)
    /\ UNCHANGED <<half_open, eap_pending, tables, link>>

Fresh(t) == [k \in Keys |-> IF t[k] # None /\ t[k].old THEN None ELSE t[k]]
Expired(t) == {k \in Keys : t[k] # None /\ t[k].old}

cleanup ==
    /\ Expired(half_open) \cup Expired(eap_pending) \cup Expired(established)
         \cup Expired(fragments) # {}
    /\ half_open' = Fresh(half_open)
    /\ eap_pending' = Fresh(eap_pending)
    /\ fragments' = Fresh(fragments)
    /\ Removed(Expired(established))
    /\ link' = Dropped(Expired(eap_pending) \cup Expired(established))
-----------------------------------------------------------------------------
Init ==
    /\ half_open = [k \in Keys |-> None]
    /\ eap_pending = [k \in Keys |-> None]
    /\ established = [k \in Keys |-> None]
    /\ esp_to_session = [i \in Spis |-> None]
    /\ ike_to_session = [k \in Keys |-> None]
    /\ fragments = [k \in Keys |-> None]
    /\ link = [d \in Devices |-> None]

Message(k) ==
    \/ \E got \in 1 .. Total - 1 : CollectFragment(k, got)
    \/ \E i \in Inits : SaInit(i, k)
    \/ \E i \in Spis : BeginEap(k, i) \/ RekeyChild(k, i)
    \/ BeginEapFails(k)
    \/ \E d \in Devices \cup {None} : EapReply(k, d) \/ EapFails(k, d)
    \/ EapEstablished(k)
    \/ Informational(k) \/ InformationalDelete(k)
    \/ \E new \in Keys : RekeyIke(k, new)

Next ==
    \/ \E k \in Keys : Message(k)
    \/ \E k \in Keys : HalfOpenAges(k) \/ EapAges(k) \/ SessionAges(k) \/ FragmentsAge(k)
    \/ \E i \in Spis : Esp(i)
    \/ \E d \in Devices : DisconnectDevice(d)
    \/ \E D \in SUBSET Devices : Reload(D)
    \/ cleanup

Spec == Init /\ [][Next]_vars

\* The ten-second interval and the clock.
Fairness == WF_vars(cleanup) /\ \A k \in Keys : WF_vars(HalfOpenAges(k))
-----------------------------------------------------------------------------
Types ==
    /\ half_open \in [Keys -> HalfOpen \cup {None}]
    /\ eap_pending \in [Keys -> EapPending \cup {None}]
    /\ established \in [Keys -> Established \cup {None}]
    /\ esp_to_session \in [Spis -> Keys \cup {None}]
    /\ ike_to_session \in [Keys -> Keys \cup {None}]
    /\ fragments \in [Keys -> FragmentSet \cup {None}]
    /\ link \in [Devices -> Keys \cup {None}]

\* The type invariant; incomplete messages stay within their limit.
TypeOK == Types /\ Cardinality(Incomplete) <= MaxFragments

\* The two indexes name exactly the established associations, each by its present IKE
\* SA and its present child SA: after replacements, rekeys, deletions and timeouts in
\* any order no packet finds a wrong or a vanished association, and none is lost.
TablesAgree ==
    /\ \A k, s \in Keys :
         ike_to_session[k] = s <=> established[s] # None /\ established[s].sa = k
    /\ \A i \in Spis, s \in Keys :
         esp_to_session[i] = s <=> established[s] # None /\ established[s].child = i

\* A device has one association: install_established looks for one to replace and
\* stops at the first it finds.
OneAssociation ==
    \A s, t \in Keys :
        /\ established[s] # None /\ established[t] # None
        /\ established[s].device = established[t].device
        => s = t

\* An IKE SA is in one phase: handle_ike_auth looks for it in three tables in turn,
\* and which one it finds first must not matter.
OnePhase ==
    \A k \in Keys :
        /\ half_open[k] # None => eap_pending[k] = None
        /\ ike_to_session[k] # None => half_open[k] = None /\ eap_pending[k] = None

Registered(k, d) == \/ eap_pending[k] # None /\ eap_pending[k].device = d
                    \/ established[k] # None /\ established[k].device = d
Overtaken(k) == \/ eap_pending[k] # None /\ eap_pending[k].displaced
                \/ established[k] # None /\ established[k].displaced

\* A device's published link is that of the exchange that registered it last, as long
\* as that exchange or its association lives; the end of an older one never takes the
\* device offline, and nothing is left published by one that has ended.
LinkExact ==
    \A d \in Devices, k \in Keys :
        link[d] = k <=> Registered(k, d) /\ ~ Overtaken(k)

\* A half-open exchange comes to an end, also when the client keeps sending requests
\* that fail: the entry put back is not a younger one.
HalfOpenEnds == \A k \in Keys : []<>(half_open[k] = None)
-----------------------------------------------------------------------------
(* The inductive invariant behind the safety properties.                    *)

\* A session id stays that of its association, also after the IKE SA has been rekeyed.
IdsApart == \A k \in Keys : established[k] # None => half_open[k] = None /\ eap_pending[k] = None

\* The child SPI of an exchange is not yet in use.
ChildrenApart ==
    \A k \in Keys : eap_pending[k] # None =>
        /\ esp_to_session[eap_pending[k].child] = None
        /\ \A j \in Keys : eap_pending[j] # None /\ eap_pending[j].child = eap_pending[k].child
                             => j = k

\* An exchange that has not registered a device cannot have been overtaken.
Unregistered ==
    \A k \in Keys : eap_pending[k] # None /\ eap_pending[k].device = None
                      => ~ eap_pending[k].displaced

\* What every step preserves.
EngineInvariant ==
    /\ Types /\ TablesAgree /\ OneAssociation /\ OnePhase /\ LinkExact
    /\ IdsApart /\ ChildrenApart /\ Unregistered
=============================================================================
