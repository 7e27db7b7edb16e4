---------------------------- MODULE EngineProofs ----------------------------
(***************************************************************************)
(* Proofs about what carries the packets.  Ikev2Engine: the indexes agree  *)
(* with the associations, a device has one association, its link is that   *)
(* of its last exchange and the fragment table is bounded.  EspInbound:    *)
(* the anti-replay window is exact for every width and sequence space.     *)
(* WireguardEngine: the tables agree for every set of keys, addresses and  *)
(* sender indexes.                                                         *)
(* Forwarding: for any servers, clients, latencies and connections, a      *)
(* packet reaches only clients that accept its kind, and with routes up to *)
(* date it reaches every client it is meant for.                           *)
(***************************************************************************)
EXTENDS Ikev2Engine, EspInbound, WireguardEngine, Forwarding, TLAPS

-----------------------------------------------------------------------------
(* The IKEv2 engine.                                                        *)

\* Steps that only refresh or age entries.
SameHalfOpen == \A k \in Keys : half_open'[k] = None <=> half_open[k] = None
SamePending ==
    \A k \in Keys :
        /\ eap_pending'[k] = None <=> eap_pending[k] = None
        /\ eap_pending[k] # None =>
             /\ eap_pending'[k].child = eap_pending[k].child
             /\ eap_pending'[k].device = eap_pending[k].device
             /\ eap_pending'[k].displaced = eap_pending[k].displaced
SameEstablished ==
    \A k \in Keys :
        /\ established'[k] = None <=> established[k] = None
        /\ established[k] # None =>
             /\ established'[k].sa = established[k].sa
             /\ established'[k].child = established[k].child
             /\ established'[k].device = established[k].device
             /\ established'[k].displaced = established[k].displaced

\* Refreshing and ageing change nothing that the invariant speaks of.
LEMMA OnlyRefreshed ==
  ASSUME EngineInvariant, Types', SameHalfOpen, SamePending, SameEstablished,
         UNCHANGED <<esp_to_session, ike_to_session, link>>
  PROVE  EngineInvariant'
  <1> USE DEF EngineInvariant
  <1>1. TablesAgree'
    BY DEF TablesAgree, SameEstablished
  <1>2. OneAssociation'
    BY Zenon DEF OneAssociation, SameEstablished
  <1>3. OnePhase'
    BY Zenon DEF OnePhase, SameHalfOpen, SamePending
  <1>4. LinkExact'
    BY DEF LinkExact, Registered, Overtaken, SamePending, SameEstablished
  <1>5. IdsApart'
    BY Zenon DEF IdsApart, SameHalfOpen, SamePending, SameEstablished
  <1>6. ChildrenApart' /\ Unregistered'
    BY DEF ChildrenApart, Unregistered, SamePending
  <1> QED
    BY <1>1, <1>2, <1>3, <1>4, <1>5, <1>6, Zenon

\* Fragments, whole or not, keep the type of their table.
LEMMA ArrivesTypes ==
  ASSUME Types, NEW k \in Keys, Arrives(k)
  PROVE  fragments' \in [Keys -> FragmentSet \cup {None}]
  BY Zenon DEF Types, Arrives

\* Associations and exchanges end together with the registrations they made.
LEMMA EndedInvariant ==
  ASSUME EngineInvariant, NEW S \in SUBSET Sessions,
         NEW P \in SUBSET {k \in Keys : eap_pending[k] # None},
         Removed(S), link' = Dropped(S \cup P),
         eap_pending' = [k \in Keys |-> IF k \in P THEN None ELSE eap_pending[k]],
         half_open' \in [Keys -> HalfOpen \cup {None}],
         \A k \in Keys : half_open[k] = None => half_open'[k] = None,
         fragments' \in [Keys -> FragmentSet \cup {None}]
  PROVE  EngineInvariant'
  <1> USE DEF EngineInvariant
  <1>0. /\ S \subseteq Keys /\ P \subseteq Keys
        /\ \A k \in S : established[k] # None
    BY Zenon DEF Sessions
  <1>1. /\ established' = [k \in Keys |-> IF k \in S THEN None ELSE established[k]]
        /\ esp_to_session' = [i \in Spis |->
             IF \E k \in S : established[k].child = i THEN None ELSE esp_to_session[i]]
        /\ ike_to_session' = [k \in Keys |->
             IF ike_to_session[k] \in S THEN None ELSE ike_to_session[k]]
    <2>1. S \cap Sessions = S
      BY Zenon
    <2> QED
      BY <2>1, Zenon DEF Removed
  <1>2. Types'
    BY <1>0, <1>1, Zenon DEF Types, Dropped
  <1>3. TablesAgree'
    <2>1. ASSUME NEW k \in Keys, NEW s \in Keys
          PROVE  ike_to_session'[k] = s <=> established'[s] # None /\ established'[s].sa = k
      BY <1>1, EngineAssumption DEF TablesAgree
    <2>2. ASSUME NEW i \in Spis, NEW s \in Keys
          PROVE  esp_to_session'[i] = s <=> established'[s] # None /\ established'[s].child = i
      BY <1>0, <1>1, EngineAssumption DEF TablesAgree
    <2> QED
      BY <2>1, <2>2, Zenon DEF TablesAgree
  <1>4. OneAssociation'
    BY <1>1, Zenon DEF OneAssociation
  <1>5. OnePhase'
    BY <1>1, Zenon DEF OnePhase
  <1>6. LinkExact'
    <2>1. ASSUME NEW d \in Devices, NEW k \in Keys
          PROVE  link'[d] = k <=> Registered(k, d)' /\ ~ Overtaken(k)'
      <3>1. k \in S => eap_pending[k] = None
        BY <1>0, Zenon DEF IdsApart
      <3>2. k \in P => established[k] = None
        BY Zenon DEF IdsApart
      <3> QED
        BY <1>0, <1>1, <3>1, <3>2, EngineAssumption DEF LinkExact, Registered, Overtaken, Dropped, Types
    <2> QED
      BY <2>1, Zenon DEF LinkExact
  <1>7. IdsApart'
    BY <1>1, Zenon DEF IdsApart
  <1>8. ChildrenApart' /\ Unregistered'
    BY <1>1, Zenon DEF ChildrenApart, Unregistered, Types, EapPending
  <1> QED
    BY <1>2, <1>3, <1>4, <1>5, <1>6, <1>7, <1>8, Zenon

\* No entry, no link: the engine starts with its invariant.
LEMMA InitEngine ==
  Init => EngineInvariant
  BY EngineAssumption DEF Init, EngineInvariant, Types, TablesAgree, OneAssociation, OnePhase,
     LinkExact, Registered, Overtaken, IdsApart, ChildrenApart, Unregistered

\* A first message takes an IKE SA that is in no table.
LEMMA SaInitStep ==
  ASSUME EngineInvariant, NEW k \in Keys, NEW i \in Inits, SaInit(i, k)
  PROVE  EngineInvariant'
  <1> USE DEF EngineInvariant
  <1>1. Types'
    BY Zenon DEF SaInit, Types, HalfOpen, tables
  <1>2. TablesAgree' /\ OneAssociation' /\ LinkExact' /\ ChildrenApart' /\ Unregistered'
    BY DEF SaInit, tables, TablesAgree, OneAssociation, LinkExact, Registered, Overtaken,
       ChildrenApart, Unregistered
  <1>3. OnePhase' /\ IdsApart'
    BY Zenon DEF SaInit, tables, KeyFree, OnePhase, IdsApart, Types
  <1> QED
    BY <1>1, <1>2, <1>3, Zenon

\* The EAP exchange takes the place of the half-open entry and an unused child SPI.
LEMMA BeginEapStep ==
  ASSUME EngineInvariant, NEW k \in Keys, NEW i \in Spis, BeginEap(k, i)
  PROVE  EngineInvariant'
  <1> USE DEF EngineInvariant
  <1>0. fragments' \in [Keys -> FragmentSet \cup {None}]
    BY ArrivesTypes, Zenon DEF BeginEap
  <1>1. Types'
    <2>1. half_open' \in [Keys -> HalfOpen \cup {None}]
      BY Zenon DEF BeginEap, Types
    <2>2. [child |-> i, device |-> None, old |-> FALSE, displaced |-> FALSE] \in EapPending
      BY Zenon DEF EapPending
    <2>3. eap_pending' \in [Keys -> EapPending \cup {None}]
      BY <2>2, Zenon DEF BeginEap, Types
    <2> QED
      BY <1>0, <2>1, <2>3, Zenon DEF BeginEap, Types, tables
  <1>2. TablesAgree' /\ OneAssociation'
    BY DEF BeginEap, tables, TablesAgree, OneAssociation
  <1>3. OnePhase' /\ IdsApart'
    BY Zenon DEF BeginEap, tables, OnePhase, IdsApart, Types
  <1>4. LinkExact'
    BY EngineAssumption DEF BeginEap, tables, LinkExact, Registered, Overtaken, Types
  <1>5. ChildrenApart' /\ Unregistered'
    BY Zenon DEF BeginEap, tables, SpiFree, ChildrenApart, Unregistered, Types
  <1> QED
    BY <1>1, <1>2, <1>3, <1>4, <1>5, Zenon

\* A registration takes the device's link from whoever held it.
LEMMA RegisterStep ==
  ASSUME EngineInvariant, NEW k \in Keys, NEW d \in Devices,
         eap_pending[k] # None, eap_pending[k].device = None,
         NEW next, \A j \in Keys \ {k} : next[j] = eap_pending[j],
         next \in [Keys -> EapPending \cup {None}],
         \/ next[k] = None /\ link' = [link EXCEPT ![d] = None]
         \/ /\ next[k] # None /\ link' = [link EXCEPT ![d] = k]
            /\ next[k].device = d /\ next[k].child = eap_pending[k].child
            /\ next[k].displaced = FALSE,
         eap_pending' = Displaced(next, k, d), established' = Displaced(established, k, d),
         fragments' \in [Keys -> FragmentSet \cup {None}],
         UNCHANGED <<half_open, esp_to_session, ike_to_session>>
  PROVE  EngineInvariant'
  <1> USE DEF EngineInvariant
  <1>0. /\ established[k] = None /\ \A x \in Devices : link[x] # k
    BY EngineAssumption DEF IdsApart, LinkExact, Registered
  <1>1. Types'
    <2>1. ASSUME NEW j \in Keys PROVE eap_pending'[j] \in EapPending \cup {None}
      <3>1. next[j] \in EapPending \cup {None}
        BY Zenon
      <3>2. eap_pending'[j] \in {next[j], [next[j] EXCEPT !.displaced = TRUE]}
        BY Zenon DEF Displaced
      <3>3. next[j] = None => eap_pending'[j] = None
        BY Zenon DEF Displaced
      <3> QED
        BY <3>1, <3>2, <3>3, Zenon DEF EapPending
    <2>2. ASSUME NEW j \in Keys PROVE established'[j] \in Established \cup {None}
      <3>1. established[j] \in Established \cup {None}
        BY Zenon DEF Types
      <3>2. established'[j] \in {established[j], [established[j] EXCEPT !.displaced = TRUE]}
        BY Zenon DEF Displaced
      <3>3. established[j] = None => established'[j] = None
        BY Zenon DEF Displaced
      <3> QED
        BY <3>1, <3>2, <3>3, Zenon DEF Established
    <2>3. eap_pending' \in [Keys -> EapPending \cup {None}]
      <3>1. eap_pending' = [j \in Keys |-> eap_pending'[j]]
        BY Zenon DEF Displaced
      <3> QED
        BY <2>1, <3>1, Zenon
    <2>4. established' \in [Keys -> Established \cup {None}]
      <3>1. established' = [j \in Keys |-> established'[j]]
        BY Zenon DEF Displaced
      <3> QED
        BY <2>2, <3>1, Zenon
    <2> QED
      BY <2>3, <2>4 DEF Types
  <1>2. ASSUME NEW j \in Keys
        PROVE  /\ established'[j] = None <=> established[j] = None
               /\ established[j] # None =>
                    /\ established'[j].sa = established[j].sa
                    /\ established'[j].child = established[j].child
                    /\ established'[j].device = established[j].device
                    /\ established'[j].displaced <=>
                         established[j].displaced \/ established[j].device = d
    <2>1. CASE established[j] # None /\ established[j].device = d
      <3>1. established'[j] = [established[j] EXCEPT !.displaced = TRUE]
        BY <1>0, <2>1, Zenon DEF Displaced
      <3>2. established[j] \in Established
        BY <2>1, Zenon DEF Types
      <3>3. established'[j] # None
        BY <3>1, <3>2, EngineAssumption, Zenon DEF Established
      <3> QED
        BY <2>1, <3>1, <3>2, <3>3, Zenon DEF Established
    <2>2. CASE ~ (established[j] # None /\ established[j].device = d)
      <3>1. established'[j] = established[j]
        BY <2>2, Zenon DEF Displaced
      <3> QED
        BY <2>2, <3>1, Zenon
    <2> QED
      BY <2>1, <2>2, Zenon
  <1>3. ASSUME NEW j \in Keys \ {k}
        PROVE  /\ eap_pending'[j] = None <=> eap_pending[j] = None
               /\ eap_pending[j] # None =>
                    /\ eap_pending'[j].child = eap_pending[j].child
                    /\ eap_pending'[j].device = eap_pending[j].device
                    /\ eap_pending'[j].displaced <=>
                         eap_pending[j].displaced \/ eap_pending[j].device = d
    <2>1. CASE eap_pending[j] # None /\ eap_pending[j].device = d
      <3>1. eap_pending'[j] = [eap_pending[j] EXCEPT !.displaced = TRUE]
        BY <2>1, Zenon DEF Displaced
      <3>2. eap_pending[j] \in EapPending
        BY <2>1, Zenon DEF Types
      <3>3. eap_pending'[j] # None
        BY <3>1, <3>2, EngineAssumption, Zenon DEF EapPending
      <3> QED
        BY <2>1, <3>1, <3>2, <3>3, Zenon DEF EapPending
    <2>2. CASE ~ (eap_pending[j] # None /\ eap_pending[j].device = d)
      <3>1. eap_pending'[j] = eap_pending[j]
        BY <2>2, Zenon DEF Displaced
      <3> QED
        BY <2>2, <3>1, Zenon
    <2> QED
      BY <2>1, <2>2, Zenon
  <1>4. eap_pending'[k] = next[k]
    BY Zenon DEF Displaced
  <1>5. TablesAgree' /\ OneAssociation'
    BY <1>2 DEF TablesAgree, OneAssociation
  <1>6. OnePhase' /\ IdsApart'
    BY <1>2, <1>3, <1>0 DEF OnePhase, IdsApart
  <1>7. ChildrenApart' /\ Unregistered'
    BY <1>3, <1>4, EngineAssumption DEF ChildrenApart, Unregistered
  <1>8. LinkExact'
    <2>1. ASSUME NEW x \in Devices, NEW j \in Keys \ {k}
          PROVE  link'[x] = j <=> Registered(j, x)' /\ ~ Overtaken(j)'
      <3>1. link'[x] = j <=> x # d /\ link[x] = j
        BY EngineAssumption DEF Types
      <3>2. link[x] = j <=> Registered(j, x) /\ ~ Overtaken(j)
        BY Zenon DEF LinkExact
      <3>3. Registered(j, x)' <=> Registered(j, x)
        BY <1>2, <1>3, Zenon DEF Registered
      <3>4. Registered(j, x) => (Overtaken(j)' <=> Overtaken(j) \/ x = d)
        BY <1>2, <1>3 DEF Registered, Overtaken, IdsApart
      <3> QED
        BY <3>1, <3>2, <3>3, <3>4, Zenon
    <2>2. ASSUME NEW x \in Devices
          PROVE  link'[x] = k <=> Registered(k, x)' /\ ~ Overtaken(k)'
      BY <1>0, <1>2, <1>4, EngineAssumption DEF Registered, Overtaken, Types
    <2> QED
      BY <2>1, <2>2 DEF LinkExact
  <1> QED
    BY <1>1, <1>5, <1>6, <1>7, <1>8, Zenon

\* The exchange goes on: it registers its device, or is only refreshed.
LEMMA EapReplyStep ==
  ASSUME EngineInvariant, NEW k \in Keys, NEW d \in Devices \cup {None}, EapReply(k, d)
  PROVE  EngineInvariant'
  <1> USE DEF EngineInvariant
  <1> DEFINE next == [eap_pending EXCEPT ![k].device = d, ![k].old = FALSE]
  <1>0. fragments' \in [Keys -> FragmentSet \cup {None}]
    BY ArrivesTypes, Zenon DEF EapReply
  <1>1. /\ eap_pending[k] # None /\ eap_pending[k] \in EapPending
        /\ UNCHANGED <<half_open, esp_to_session, ike_to_session>>
    BY Zenon DEF EapReply, Types
  <1>2. /\ next[k] \in EapPending
        /\ next[k].device = d /\ next[k].child = eap_pending[k].child
        /\ next[k].displaced = eap_pending[k].displaced
    BY <1>1, Zenon DEF Types, EapPending
  <1>3. /\ next \in [Keys -> EapPending \cup {None}]
        /\ \A j \in Keys \ {k} : next[j] = eap_pending[j]
    BY <1>2, Zenon DEF Types
  <1>4. next[k] # None
    BY <1>2, EngineAssumption, Zenon
  <1>5. CASE Registers(k, d)
    <2>1. /\ eap_pending' = Displaced(next, k, d)
          /\ established' = Displaced(established, k, d)
          /\ link' = [link EXCEPT ![d] = k]
      BY <1>5, Zenon DEF EapReply
    <2>2. d \in Devices /\ eap_pending[k].device = None
      BY <1>5, Zenon DEF Registers
    <2>3. eap_pending[k].displaced = FALSE
      BY <1>1, <2>2 DEF Unregistered
    <2> HIDE DEF next
    <2> QED
      BY <1>0, <1>1, <1>2, <1>3, <1>4, <2>1, <2>2, <2>3, RegisterStep, Zenon
  <1>6. CASE ~ Registers(k, d)
    <2>1. eap_pending' = next /\ UNCHANGED <<established, link>>
      BY <1>6, Zenon DEF EapReply
    <2>2. d = eap_pending[k].device
      BY <1>6, Zenon DEF EapReply, Registers
    <2> HIDE DEF next
    <2>3. SamePending
      BY <1>1, <1>2, <1>3, <1>4, <2>1, <2>2, Zenon DEF SamePending
    <2>4. Types'
      BY <1>0, <1>1, <1>3, <2>1, Zenon DEF Types
    <2> QED
      BY <1>1, <2>1, <2>3, <2>4, OnlyRefreshed, Zenon DEF SameHalfOpen, SameEstablished
  <1> QED
    BY <1>5, <1>6, Zenon

\* The exchange fails, with the registration it makes or has made.
LEMMA EapFailsStep ==
  ASSUME EngineInvariant, NEW k \in Keys, NEW d \in Devices \cup {None}, EapFails(k, d)
  PROVE  EngineInvariant'
  <1> USE DEF EngineInvariant
  <1>0. fragments' \in [Keys -> FragmentSet \cup {None}]
    BY ArrivesTypes, Zenon DEF EapFails
  <1>1. /\ eap_pending[k] # None
        /\ UNCHANGED <<half_open, esp_to_session, ike_to_session>>
    BY Zenon DEF EapFails
  <1>5. CASE Registers(k, d)
    <2> DEFINE next == [eap_pending EXCEPT ![k] = None]
    <2>1. /\ eap_pending' = [Displaced(eap_pending, k, d) EXCEPT ![k] = None]
          /\ established' = Displaced(established, k, d)
          /\ link' = [link EXCEPT ![d] = None]
      BY <1>5, Zenon DEF EapFails
    <2>2. d \in Devices /\ eap_pending[k].device = None
      BY <1>5, Zenon DEF Registers
    <2>3. /\ next \in [Keys -> EapPending \cup {None}] /\ next[k] = None
          /\ \A j \in Keys \ {k} : next[j] = eap_pending[j]
      BY Zenon DEF Types
    <2>4. eap_pending' = Displaced(next, k, d)
      BY <2>1, Zenon DEF Displaced, Types
    <2> HIDE DEF next
    <2> QED
      BY <1>0, <1>1, <2>1, <2>2, <2>3, <2>4, RegisterStep, Zenon
  <1>6. CASE ~ Registers(k, d)
    <2>1. /\ eap_pending' = [eap_pending EXCEPT ![k] = None]
          /\ link' = Dropped({k}) /\ established' = established
      BY <1>6, Zenon DEF EapFails
    <2>2. Removed({})
      BY <1>1, <2>1, Zenon DEF Removed, Types
    <2>3. eap_pending' = [j \in Keys |-> IF j \in {k} THEN None ELSE eap_pending[j]]
      BY <2>1, Zenon DEF Types
    <2>4. link' = Dropped({} \cup {k})
      BY <2>1, Zenon
    <2> QED
      BY <1>0, <1>1, <2>2, <2>3, <2>4, EndedInvariant, Zenon DEF Types
  <1> QED
    BY <1>5, <1>6, Zenon

\* The association takes the place of the one its device had.
LEMMA EapEstablishedStep ==
  ASSUME EngineInvariant, NEW k \in Keys, EapEstablished(k)
  PROVE  EngineInvariant'
  <1> USE DEF EngineInvariant
  <1> DEFINE p == eap_pending[k]
             new == [sa |-> k, child |-> p.child, device |-> p.device,
                     old |-> FALSE, displaced |-> p.displaced]
  <1>0. fragments' \in [Keys -> FragmentSet \cup {None}]
    BY ArrivesTypes, Zenon DEF EapEstablished
  <1>1. PICK S \in SUBSET Duplicates(p.device) :
          /\ S = {} => Duplicates(p.device) = {}
          /\ established' = [j \in Keys |->
               IF j = k THEN new ELSE IF j \in S THEN None ELSE established[j]]
          /\ esp_to_session' = [i \in Spis |->
               IF i = p.child THEN k
               ELSE IF \E j \in S : established[j].child = i THEN None
               ELSE esp_to_session[i]]
          /\ ike_to_session' = [j \in Keys |->
               IF j = k THEN k
               ELSE IF ike_to_session[j] \in S THEN None ELSE ike_to_session[j]]
          /\ link' = Dropped(S)
    BY Zenon DEF EapEstablished
  <1>2. /\ eap_pending[k] # None /\ p.device # None
        /\ eap_pending' = [eap_pending EXCEPT ![k] = None]
        /\ half_open' = half_open
    BY Zenon DEF EapEstablished
  <1>3. /\ p.child \in Spis /\ p.device \in Devices /\ p.displaced \in BOOLEAN
    BY <1>2, Zenon DEF Types, EapPending
  <1>4. new \in Established /\ new # None
    <2>1. new \in Established
      BY <1>3, Zenon DEF Established
    <2>2. None \notin Established
      BY EngineAssumption, Zenon
    <2> QED
      BY <2>1, <2>2, Zenon
  <1>5. /\ new.sa = k /\ new.child = p.child /\ new.device = p.device
        /\ new.displaced = p.displaced
    BY Zenon
  <1> HIDE DEF new
  <1>6. S = Duplicates(p.device)
    BY <1>1, Zenon DEF Duplicates, Sessions, OneAssociation
  <1>7. /\ established[k] = None /\ half_open[k] = None /\ ike_to_session[k] = None
        /\ k \notin S
    BY <1>2, <1>6, Zenon DEF IdsApart, OnePhase, Duplicates, Sessions
  <1>8. S \subseteq Keys /\ \A j \in S : established[j] # None /\ established[j].device = p.device
    BY <1>6, Zenon DEF Duplicates, Sessions
  <1>9. esp_to_session[p.child] = None
    BY <1>2, Zenon DEF ChildrenApart
  <1>10. Types'
    <2>1. established' \in [Keys -> Established \cup {None}]
      BY <1>1, <1>4, Zenon DEF Types
    <2>2. link' \in [Devices -> Keys \cup {None}]
      BY <1>1, Zenon DEF Dropped, Types
    <2> QED
      BY <1>0, <1>1, <1>2, <2>1, <2>2, Zenon DEF Types
  <1>11. TablesAgree'
    <2>1. ASSUME NEW j \in Keys, NEW s \in Keys
          PROVE  ike_to_session'[j] = s <=> established'[s] # None /\ established'[s].sa = j
      BY <1>1, <1>4, <1>5, <1>7, <1>8, EngineAssumption DEF TablesAgree
    <2>2. ASSUME NEW i \in Spis, NEW s \in Keys
          PROVE  esp_to_session'[i] = s <=> established'[s] # None /\ established'[s].child = i
      BY <1>1, <1>3, <1>4, <1>5, <1>7, <1>8, <1>9, EngineAssumption DEF TablesAgree
    <2> QED
      BY <2>1, <2>2, Zenon DEF TablesAgree
  <1>12. OneAssociation'
    BY <1>1, <1>5, <1>6, Zenon DEF OneAssociation, Duplicates, Sessions
  <1>13. OnePhase' /\ IdsApart'
    BY <1>1, <1>2, <1>7, Zenon DEF OnePhase, IdsApart, Types
  <1>14. ChildrenApart' /\ Unregistered'
    <2>1. \A j \in Keys : eap_pending'[j] # None =>
            eap_pending'[j] = eap_pending[j] /\ j # k
      BY <1>2, Zenon DEF Types
    <2>2. Unregistered'
      BY <2>1, Zenon DEF Unregistered
    <2>3. ASSUME NEW j \in Keys, eap_pending'[j] # None
          PROVE  esp_to_session'[eap_pending'[j].child] = None
      <3>1. /\ eap_pending[j] # None /\ j # k /\ eap_pending'[j] = eap_pending[j]
            /\ eap_pending[j].child \in Spis
        BY <2>1, <2>3, Zenon DEF Types, EapPending
      <3>2. eap_pending[j].child # p.child /\ esp_to_session[eap_pending[j].child] = None
        BY <1>2, <3>1, Zenon DEF ChildrenApart
      <3> QED
        BY <1>1, <3>1, <3>2, Zenon
    <2> QED
      BY <2>1, <2>2, <2>3 DEF ChildrenApart
  <1>15. LinkExact'
    <2>1. ASSUME NEW d \in Devices
          PROVE  link'[d] = k <=> Registered(k, d)' /\ ~ Overtaken(k)'
      <3>1. link'[d] = k <=> link[d] = k
        BY <1>1, <1>7, EngineAssumption, Zenon DEF Dropped
      <3>2. Registered(k, d)' <=> Registered(k, d)
        BY <1>1, <1>2, <1>4, <1>5, <1>7, Zenon DEF Registered, Types
      <3>3. Overtaken(k)' <=> Overtaken(k)
        BY <1>1, <1>2, <1>4, <1>5, <1>7, Zenon DEF Overtaken, Types
      <3> QED
        BY <3>1, <3>2, <3>3, Zenon DEF LinkExact
    <2>2. ASSUME NEW d \in Devices, NEW j \in S
          PROVE  link'[d] = j <=> Registered(j, d)' /\ ~ Overtaken(j)'
      <3>1. link'[d] # j
        BY <1>1, <1>8, EngineAssumption, Zenon DEF Dropped
      <3>2. established'[j] = None /\ eap_pending'[j] = None
        BY <1>1, <1>2, <1>7, <1>8, Zenon DEF IdsApart, Types
      <3> QED
        BY <3>1, <3>2, Zenon DEF Registered
    <2>3. ASSUME NEW d \in Devices, NEW j \in Keys, j # k, j \notin S
          PROVE  link'[d] = j <=> Registered(j, d)' /\ ~ Overtaken(j)'
      <3>1. link'[d] = j <=> link[d] = j
        BY <1>1, <2>3, EngineAssumption, Zenon DEF Dropped
      <3>2. established'[j] = established[j] /\ eap_pending'[j] = eap_pending[j]
        BY <1>1, <1>2, <2>3, Zenon DEF Types
      <3> QED
        BY <3>1, <3>2 DEF LinkExact, Registered, Overtaken
    <2> QED
      BY <2>1, <2>2, <2>3, Zenon DEF LinkExact
  <1> QED
    BY <1>10, <1>11, <1>12, <1>13, <1>14, <1>15, Zenon

\* The association is known by its new IKE SA and no longer by the old one.
LEMMA RekeyIkeStep ==
  ASSUME EngineInvariant, NEW k \in Keys, NEW new \in Keys, RekeyIke(k, new)
  PROVE  EngineInvariant'
  <1> USE DEF EngineInvariant
  <1> DEFINE s == ike_to_session[k]
             updated == [established[s] EXCEPT !.sa = new, !.old = FALSE]
  <1>0. fragments' \in [Keys -> FragmentSet \cup {None}]
    BY ArrivesTypes, Zenon DEF RekeyIke
  <1>1. /\ s \in Keys /\ established[s] # None /\ established[s] \in Established
        /\ ike_to_session[new] = None /\ half_open[new] = None /\ eap_pending[new] = None
        /\ ike_to_session' = [ike_to_session EXCEPT ![k] = None, ![new] = s]
        /\ UNCHANGED <<half_open, eap_pending, esp_to_session, link>>
    BY Zenon DEF RekeyIke, Current, Sessions, KeyFree, Types
  <1>2. established' = [established EXCEPT ![s] = updated]
    BY <1>1, Zenon DEF RekeyIke, Types
  <1>3. /\ updated \in Established
        /\ updated.sa = new /\ updated.child = established[s].child
        /\ updated.device = established[s].device /\ updated.displaced = established[s].displaced
    BY <1>1, Zenon DEF Established
  <1>4. new # k /\ established[s].sa = k
    BY <1>1, EngineAssumption DEF TablesAgree
  <1>5. updated # None
    BY <1>3, EngineAssumption, Zenon
  <1> HIDE DEF updated
  <1>6. Types'
    BY <1>0, <1>1, <1>2, <1>3, Zenon DEF Types
  <1>7. TablesAgree'
    <2>1. ASSUME NEW j \in Keys, NEW t \in Keys
          PROVE  ike_to_session'[j] = t <=> established'[t] # None /\ established'[t].sa = j
      BY <1>1, <1>2, <1>3, <1>4, <1>5, EngineAssumption DEF TablesAgree, Types
    <2>2. ASSUME NEW i \in Spis, NEW t \in Keys
          PROVE  esp_to_session'[i] = t <=> established'[t] # None /\ established'[t].child = i
      BY <1>1, <1>2, <1>3, <1>5 DEF TablesAgree, Types
    <2> QED
      BY <2>1, <2>2, Zenon DEF TablesAgree
  <1>8. OneAssociation'
    BY <1>1, <1>2, <1>3 DEF OneAssociation, Types
  <1>9. OnePhase' /\ IdsApart' /\ ChildrenApart' /\ Unregistered'
    BY <1>1, <1>2, Zenon DEF OnePhase, IdsApart, ChildrenApart, Unregistered, Types
  <1>10. LinkExact'
    BY <1>1, <1>2, <1>3, <1>5 DEF LinkExact, Registered, Overtaken, Types
  <1> QED
    BY <1>6, <1>7, <1>8, <1>9, <1>10, Zenon

\* The association receives on its new child SA and no longer on the old one.
LEMMA RekeyChildStep ==
  ASSUME EngineInvariant, NEW k \in Keys, NEW new \in Spis, RekeyChild(k, new)
  PROVE  EngineInvariant'
  <1> USE DEF EngineInvariant
  <1> DEFINE s == ike_to_session[k]
             updated == [established[s] EXCEPT !.child = new, !.old = FALSE]
  <1>0. fragments' \in [Keys -> FragmentSet \cup {None}]
    BY ArrivesTypes, Zenon DEF RekeyChild
  <1>1. /\ s \in Keys /\ established[s] # None /\ established[s] \in Established
        /\ esp_to_session[new] = None
        /\ \A j \in Keys : eap_pending[j] # None => eap_pending[j].child # new
        /\ esp_to_session' = [esp_to_session EXCEPT ![established[s].child] = None, ![new] = s]
        /\ UNCHANGED <<half_open, eap_pending, ike_to_session, link>>
    BY Zenon DEF RekeyChild, Current, Sessions, SpiFree, Types
  <1>2. established' = [established EXCEPT ![s] = updated]
    BY <1>1, Zenon DEF RekeyChild, Types
  <1>3. /\ updated \in Established
        /\ updated.child = new /\ updated.sa = established[s].sa
        /\ updated.device = established[s].device /\ updated.displaced = established[s].displaced
    BY <1>1, Zenon DEF Established
  <1>4. /\ established[s].child \in Spis
        /\ esp_to_session[established[s].child] = s
    BY <1>1 DEF TablesAgree, Established
  <1>5. updated # None
    BY <1>3, EngineAssumption, Zenon
  <1> HIDE DEF updated
  <1>6. Types'
    BY <1>0, <1>1, <1>2, <1>3, Zenon DEF Types
  <1>7. TablesAgree'
    <2>1. ASSUME NEW j \in Keys, NEW t \in Keys
          PROVE  ike_to_session'[j] = t <=> established'[t] # None /\ established'[t].sa = j
      BY <1>1, <1>2, <1>3, <1>5 DEF TablesAgree, Types
    <2>2. ASSUME NEW i \in Spis, NEW t \in Keys
          PROVE  esp_to_session'[i] = t <=> established'[t] # None /\ established'[t].child = i
      BY <1>1, <1>2, <1>3, <1>4, <1>5, EngineAssumption DEF TablesAgree, Types
    <2> QED
      BY <2>1, <2>2, Zenon DEF TablesAgree
  <1>8. OneAssociation'
    BY <1>1, <1>2, <1>3 DEF OneAssociation, Types
  <1>9. OnePhase' /\ IdsApart' /\ Unregistered'
    BY <1>1, <1>2, Zenon DEF OnePhase, IdsApart, Unregistered, Types
  <1>10. ChildrenApart'
    BY <1>1, <1>4, Zenon DEF ChildrenApart, Types, EapPending
  <1>11. LinkExact'
    BY <1>1, <1>2, <1>3, <1>5 DEF LinkExact, Registered, Overtaken, Types
  <1> QED
    BY <1>6, <1>7, <1>8, <1>9, <1>10, <1>11, Zenon

\* A refreshed or aged association is otherwise the same.
LEMMA TouchedSession ==
  ASSUME Types, NEW s \in Keys, established[s] # None, NEW b \in BOOLEAN,
         established' = [established EXCEPT ![s].old = b]
  PROVE  SameEstablished /\ established' \in [Keys -> Established \cup {None}]
  <1> DEFINE updated == [established[s] EXCEPT !.old = b]
  <1>1. established[s] \in Established
    BY Zenon DEF Types
  <1>2. /\ updated \in Established
        /\ updated.sa = established[s].sa /\ updated.child = established[s].child
        /\ updated.device = established[s].device /\ updated.displaced = established[s].displaced
    BY <1>1, Zenon DEF Established
  <1>3. established' = [established EXCEPT ![s] = updated]
    BY Zenon
  <1> HIDE DEF updated
  <1> QED
    BY <1>2, <1>3, EngineAssumption DEF SameEstablished, Types

\* Messages and packets of an association that only refresh it, and its ageing.
LEMMA SessionStep ==
  ASSUME EngineInvariant,
         \/ \E k \in Keys : Informational(k) \/ SessionAges(k)
         \/ \E i \in Spis : Esp(i)
  PROVE  EngineInvariant'
  <1> USE DEF EngineInvariant
  <1>1. ASSUME NEW k \in Keys, Informational(k) PROVE EngineInvariant'
    <2>1. ike_to_session[k] \in Keys /\ established[ike_to_session[k]] # None
      BY <1>1, Zenon DEF Informational, Current, Sessions
    <2>2. SameEstablished /\ established' \in [Keys -> Established \cup {None}]
      BY <1>1, <2>1, TouchedSession, Zenon DEF Informational, Seen
    <2>3. fragments' \in [Keys -> FragmentSet \cup {None}]
      BY <1>1, ArrivesTypes, Zenon DEF Informational
    <2>4. UNCHANGED <<half_open, eap_pending, esp_to_session, ike_to_session, link>>
      BY <1>1, Zenon DEF Informational
    <2> QED
      BY <2>2, <2>3, <2>4, OnlyRefreshed, Zenon DEF SameHalfOpen, SamePending, Types
  <1>2. ASSUME NEW k \in Keys, SessionAges(k) PROVE EngineInvariant'
    <2>1. established[k] # None
      BY <1>2, Zenon DEF SessionAges, MayAge
    <2>2. SameEstablished /\ established' \in [Keys -> Established \cup {None}]
      BY <1>2, <2>1, TouchedSession, Zenon DEF SessionAges, Aged
    <2>3. UNCHANGED <<half_open, eap_pending, esp_to_session, ike_to_session, fragments, link>>
      BY <1>2, Zenon DEF SessionAges
    <2> QED
      BY <2>2, <2>3, OnlyRefreshed, Zenon DEF SameHalfOpen, SamePending, Types
  <1>3. ASSUME NEW i \in Spis, Esp(i) PROVE EngineInvariant'
    <2>1. esp_to_session[i] \in Keys /\ established[esp_to_session[i]] # None
      BY <1>3, Zenon DEF Esp, Sessions
    <2>2. SameEstablished /\ established' \in [Keys -> Established \cup {None}]
      BY <1>3, <2>1, TouchedSession, Zenon DEF Esp, Seen
    <2>3. UNCHANGED <<half_open, eap_pending, esp_to_session, ike_to_session, fragments, link>>
      BY <1>3, Zenon DEF Esp
    <2> QED
      BY <2>2, <2>3, OnlyRefreshed, Zenon DEF SameHalfOpen, SamePending, Types
  <1> QED
    BY <1>1, <1>2, <1>3, Zenon

\* Parts of messages, requests that fail and the ageing of exchanges.
LEMMA ExchangeStep ==
  ASSUME EngineInvariant, NEW k \in Keys,
         \/ \E got \in 1 .. Total - 1 : CollectFragment(k, got)
         \/ BeginEapFails(k)
         \/ HalfOpenAges(k) \/ EapAges(k) \/ FragmentsAge(k)
  PROVE  EngineInvariant'
  <1> USE DEF EngineInvariant, tables
  <1>1. ASSUME NEW got \in 1 .. Total - 1, CollectFragment(k, got) PROVE EngineInvariant'
    <2>1. fragments' \in [Keys -> FragmentSet \cup {None}]
      BY <1>1, Zenon DEF CollectFragment, Types, FragmentSet
    <2>2. UNCHANGED <<half_open, eap_pending, tables, link>>
      BY <1>1, Zenon DEF CollectFragment
    <2> QED
      BY <2>1, <2>2, OnlyRefreshed, Zenon DEF SameHalfOpen, SamePending, SameEstablished, Types
  <1>2. CASE BeginEapFails(k)
    <2>1. fragments' \in [Keys -> FragmentSet \cup {None}]
      BY <1>2, ArrivesTypes, Zenon DEF BeginEapFails
    <2>2. UNCHANGED <<half_open, eap_pending, tables, link>>
      BY <1>2, Zenon DEF BeginEapFails
    <2> QED
      BY <2>1, <2>2, OnlyRefreshed, Zenon DEF SameHalfOpen, SamePending, SameEstablished, Types
  <1>3. CASE HalfOpenAges(k)
    <2> DEFINE updated == [half_open[k] EXCEPT !.old = TRUE]
    <2>1. half_open[k] # None /\ half_open[k] \in HalfOpen
      BY <1>3, Zenon DEF HalfOpenAges, MayAge, Types
    <2>2. updated \in HalfOpen
      BY <2>1, Zenon DEF HalfOpen
    <2>3. half_open' = [half_open EXCEPT ![k] = updated]
      BY <1>3, Zenon DEF HalfOpenAges, Aged
    <2>4. UNCHANGED <<eap_pending, tables, fragments, link>>
      BY <1>3, Zenon DEF HalfOpenAges
    <2> HIDE DEF updated
    <2>5. SameHalfOpen
      BY <2>1, <2>2, <2>3, EngineAssumption, Zenon DEF SameHalfOpen, Types
    <2>6. Types'
      BY <2>2, <2>3, <2>4, Zenon DEF Types
    <2> QED
      BY <2>4, <2>5, <2>6, OnlyRefreshed, Zenon DEF SamePending, SameEstablished
  <1>4. CASE EapAges(k)
    <2> DEFINE updated == [eap_pending[k] EXCEPT !.old = TRUE]
    <2>1. eap_pending[k] # None /\ eap_pending[k] \in EapPending
      BY <1>4, Zenon DEF EapAges, MayAge, Types
    <2>2. /\ updated \in EapPending /\ updated.child = eap_pending[k].child
          /\ updated.device = eap_pending[k].device /\ updated.displaced = eap_pending[k].displaced
      BY <2>1, Zenon DEF EapPending
    <2>3. eap_pending' = [eap_pending EXCEPT ![k] = updated]
      BY <1>4, Zenon DEF EapAges, Aged
    <2>4. UNCHANGED <<half_open, tables, fragments, link>>
      BY <1>4, Zenon DEF EapAges
    <2> HIDE DEF updated
    <2>5. SamePending
      BY <2>1, <2>2, <2>3, EngineAssumption, Zenon DEF SamePending, Types
    <2>6. Types'
      BY <2>2, <2>3, <2>4, Zenon DEF Types
    <2> QED
      BY <2>4, <2>5, <2>6, OnlyRefreshed, Zenon DEF SameHalfOpen, SameEstablished
  <1>5. CASE FragmentsAge(k)
    <2> DEFINE updated == [fragments[k] EXCEPT !.old = TRUE]
    <2>1. fragments[k] \in FragmentSet
      BY <1>5, Zenon DEF FragmentsAge, MayAge, Types
    <2>2. updated \in FragmentSet
      BY <2>1, Zenon DEF FragmentSet
    <2>3. fragments' = [fragments EXCEPT ![k] = updated]
      BY <1>5, Zenon DEF FragmentsAge, Aged
    <2>4. UNCHANGED <<half_open, eap_pending, tables, link>>
      BY <1>5, Zenon DEF FragmentsAge
    <2> HIDE DEF updated
    <2>5. Types'
      BY <2>2, <2>3, <2>4, Zenon DEF Types
    <2> QED
      BY <2>4, <2>5, OnlyRefreshed, Zenon DEF SameHalfOpen, SamePending, SameEstablished
  <1> QED
    BY <1>1, <1>2, <1>3, <1>4, <1>5, Zenon

\* Deletions, disconnections, reloads and timeouts.
LEMMA EndStep ==
  ASSUME EngineInvariant,
         \/ \E k \in Keys : InformationalDelete(k)
         \/ \E d \in Devices : DisconnectDevice(d)
         \/ \E D \in SUBSET Devices : Reload(D)
         \/ cleanup
  PROVE  EngineInvariant'
  <1> USE DEF EngineInvariant
  <1>0. ASSUME NEW s \in Sessions, Removed({s}), link' = Dropped({s}),
               fragments' \in [Keys -> FragmentSet \cup {None}],
               UNCHANGED <<half_open, eap_pending>>
        PROVE  EngineInvariant'
    <2>1. link' = Dropped({s} \cup {})
      BY <1>0, Zenon
    <2>2. eap_pending' = [k \in Keys |-> IF k \in {} THEN None ELSE eap_pending[k]]
      BY <1>0, Zenon DEF Types
    <2>3. /\ half_open' \in [Keys -> HalfOpen \cup {None}]
          /\ \A k \in Keys : half_open[k] = None => half_open'[k] = None
      BY <1>0, Zenon DEF Types
    <2>4. {s} \in SUBSET Sessions /\ {} \in SUBSET {k \in Keys : eap_pending[k] # None}
      BY <1>0, Zenon
    <2> QED
      BY <1>0, <2>1, <2>2, <2>3, <2>4, EndedInvariant, Zenon
  <1>1. ASSUME NEW k \in Keys, InformationalDelete(k) PROVE EngineInvariant'
    BY <1>0, <1>1, ArrivesTypes, Zenon DEF InformationalDelete, Current
  <1>2. ASSUME NEW d \in Devices, DisconnectDevice(d) PROVE EngineInvariant'
    BY <1>0, <1>2, Zenon DEF DisconnectDevice, Duplicates, Types
  <1>3. ASSUME NEW D \in SUBSET Devices, Reload(D) PROVE EngineInvariant'
    <2> DEFINE S == {s \in Sessions : established[s].device \in D}
               P == {k \in Keys : eap_pending[k] # None}
    <2>1. Removed(S) /\ link' = Dropped(S \cup P)
      BY <1>3, Zenon DEF Reload, Reset
    <2>2. eap_pending' = [k \in Keys |-> IF k \in P THEN None ELSE eap_pending[k]]
      BY <1>3, Zenon DEF Reload, Reset
    <2>3. /\ half_open' \in [Keys -> HalfOpen \cup {None}]
          /\ \A k \in Keys : half_open'[k] = None
          /\ fragments' \in [Keys -> FragmentSet \cup {None}]
      BY <1>3, Zenon DEF Reload, Reset
    <2>4. S \in SUBSET Sessions /\ P \in SUBSET {k \in Keys : eap_pending[k] # None}
      BY Zenon
    <2> HIDE DEF S, P
    <2> QED
      BY <2>1, <2>2, <2>3, <2>4, EndedInvariant, Zenon
  <1>4. CASE cleanup
    <2> DEFINE S == Expired(established)
               P == Expired(eap_pending)
    <2>1. Removed(S) /\ link' = Dropped(S \cup P)
      <3>1. P \cup S = S \cup P
        BY Zenon
      <3> QED
        BY <1>4, <3>1, Zenon DEF cleanup
    <2>2. eap_pending' = [k \in Keys |-> IF k \in P THEN None ELSE eap_pending[k]]
      <3>1. eap_pending' = Fresh(eap_pending)
        BY <1>4, Zenon DEF cleanup
      <3> QED
        BY <3>1, Zenon DEF Fresh, Expired
    <2>3. /\ half_open' \in [Keys -> HalfOpen \cup {None}]
          /\ \A k \in Keys : half_open[k] = None => half_open'[k] = None
          /\ fragments' \in [Keys -> FragmentSet \cup {None}]
      BY <1>4, Zenon DEF cleanup, Fresh, Types
    <2>4. S \in SUBSET Sessions /\ P \in SUBSET {k \in Keys : eap_pending[k] # None}
      BY Zenon DEF Expired, Sessions
    <2> HIDE DEF S, P
    <2> QED
      BY <2>1, <2>2, <2>3, <2>4, EndedInvariant, Zenon
  <1> QED
    BY <1>1, <1>2, <1>3, <1>4, Zenon

\* The engine keeps its invariant, step by step, ...
LEMMA EngineStep ==
  EngineInvariant /\ [Next]_vars => EngineInvariant'
  <1> SUFFICES ASSUME EngineInvariant, [Next]_vars PROVE EngineInvariant'
    BY Zenon
  <1>1. ASSUME NEW k \in Keys, Message(k) PROVE EngineInvariant'
    BY <1>1, ExchangeStep, SaInitStep, BeginEapStep, RekeyChildStep, EapReplyStep, EapFailsStep,
       EapEstablishedStep, SessionStep, EndStep, RekeyIkeStep, Zenon DEF Message
  <1>2. ASSUME NEW k \in Keys,
               HalfOpenAges(k) \/ EapAges(k) \/ SessionAges(k) \/ FragmentsAge(k)
        PROVE  EngineInvariant'
    BY <1>2, ExchangeStep, SessionStep, Zenon
  <1>3. ASSUME NEW i \in Spis, Esp(i) PROVE EngineInvariant'
    BY <1>3, SessionStep, Zenon
  <1>4. CASE \/ \E d \in Devices : DisconnectDevice(d)
             \/ \E D \in SUBSET Devices : Reload(D)
             \/ cleanup
    BY <1>4, EndStep, Zenon
  <1>5. CASE UNCHANGED vars
    <2>1. Types
      BY Zenon DEF EngineInvariant
    <2>2. Types'
      BY <1>5, <2>1, Zenon DEF vars, Types
    <2>3. SameHalfOpen /\ SamePending /\ SameEstablished
      BY <1>5, Zenon DEF vars, SameHalfOpen, SamePending, SameEstablished
    <2>4. UNCHANGED <<esp_to_session, ike_to_session, link>>
      BY <1>5, Zenon DEF vars
    <2> QED
      BY <2>2, <2>3, <2>4, OnlyRefreshed, Zenon
  <1> QED
    BY <1>1, <1>2, <1>3, <1>4, <1>5, Zenon DEF Next

\* ... so it always holds, for any number of associations, SPIs and devices.
THEOREM EngineInductive == Spec => []EngineInvariant
  BY InitEngine, EngineStep, PTL DEF Spec

\* After replacements, rekeys, deletions and timeouts in any order the two indexes of
\* the engine name exactly its associations.
THEOREM TablesAlwaysAgree == Spec => []TablesAgree
  <1>1. EngineInvariant => TablesAgree
    BY Zenon DEF EngineInvariant
  <1> QED
    BY <1>1, EngineInductive, PTL

\* install_established may stop at the first duplicate: there is never a second.
THEOREM AlwaysOneAssociation == Spec => []OneAssociation
  <1>1. EngineInvariant => OneAssociation
    BY Zenon DEF EngineInvariant
  <1> QED
    BY <1>1, EngineInductive, PTL

\* The order in which handle_ike_auth looks an IKE SA up never matters.
THEOREM AlwaysOnePhase == Spec => []OnePhase
  <1>1. EngineInvariant => OnePhase
    BY Zenon DEF EngineInvariant
  <1> QED
    BY <1>1, EngineInductive, PTL

\* The published link of a device is that of its last registration while that lives.
THEOREM LinkAlwaysExact == Spec => []LinkExact
  <1>1. EngineInvariant => LinkExact
    BY Zenon DEF EngineInvariant
  <1> QED
    BY <1>1, EngineInductive, PTL

\* Only a part of a message adds an incomplete set, and only below the limit.
LEMMA IncompleteStep ==
  ASSUME Types, [Next]_vars
  PROVE  \/ Incomplete' \subseteq Incomplete
         \/ /\ Cardinality(Incomplete) < MaxFragments
            /\ \E k \in Keys : Incomplete' \subseteq Incomplete \cup {k}
  <1>1. ASSUME NEW k \in Keys, Arrives(k) PROVE Incomplete' \subseteq Incomplete
    BY <1>1, Zenon DEF Arrives, Incomplete, Types
  <1>2. ASSUME NEW k \in Keys, NEW got, CollectFragment(k, got)
        PROVE  /\ Cardinality(Incomplete) < MaxFragments
               /\ Incomplete' \subseteq Incomplete \cup {k}
    BY <1>2, Zenon DEF CollectFragment, Incomplete, Types
  <1>3. ASSUME NEW k \in Keys, FragmentsAge(k) PROVE Incomplete' \subseteq Incomplete
    BY <1>3, Zenon DEF FragmentsAge, MayAge, Aged, Incomplete, Types
  <1>4. ASSUME NEW D \in SUBSET Devices, Reload(D) PROVE Incomplete' \subseteq Incomplete
    BY <1>4, Zenon DEF Reload, Reset, Incomplete
  <1>5. ASSUME cleanup PROVE Incomplete' \subseteq Incomplete
    BY <1>5, Zenon DEF cleanup, Fresh, Incomplete
  <1>6. ASSUME fragments' = fragments PROVE Incomplete' \subseteq Incomplete
    BY <1>6, Zenon DEF Incomplete
  <1>7. ASSUME NEW k \in Keys, Message(k)
        PROVE  (\E got : CollectFragment(k, got)) \/ Arrives(k) \/ fragments' = fragments
    BY <1>7, Zenon DEF Message, SaInit, BeginEap, RekeyChild, BeginEapFails, EapReply, EapFails,
       EapEstablished, Informational, InformationalDelete, RekeyIke
  <1>8. ASSUME NEW k \in Keys, HalfOpenAges(k) \/ EapAges(k) \/ SessionAges(k)
        PROVE  fragments' = fragments
    BY <1>8, Zenon DEF HalfOpenAges, EapAges, SessionAges
  <1>9. (\E i \in Spis : Esp(i)) \/ (\E d \in Devices : DisconnectDevice(d)) \/ UNCHANGED vars
          => fragments' = fragments
    BY Zenon DEF Esp, DisconnectDevice, vars
  <1> QED
    BY <1>1, <1>2, <1>3, <1>4, <1>5, <1>6, <1>7, <1>8, <1>9, Zenon DEF Next

-----------------------------------------------------------------------------
(* The anti-replay window of inbound ESP.                                   *)

\* The inductive invariant.
WindowInvariant == EspTypeOK /\ WindowExact

\* Recording a permitted sequence number sets exactly its bit, and moves the others
\* along when it is the newest.
LEMMA RecordExact ==
    ASSUME EspAssumption, WindowInvariant, NEW sequence \in Seqs,
           permits(sequence), record(sequence)
    PROVE  /\ highest' \in Seqs /\ highest' >= sequence /\ highest' >= highest
           /\ bitmap' \subseteq Distances
           /\ \A distance \in Distances :
                distance \in bitmap' <=>
                  /\ distance <= highest'
                  /\ \/ highest' - distance = sequence
                     \/ <<spi, highest' - distance>> \in accepted
<1>1. highest \in Nat /\ sequence \in Nat \ {0} /\ Width \in Nat \ {0} /\ MaxSeq \in Nat
  BY DEF WindowInvariant, EspTypeOK, Seqs, permits, EspAssumption
<1>2. CASE sequence > highest
  <2>1. highest' = sequence /\ bitmap' = Shifted(sequence - highest)
    BY <1>2, Zenon DEF record
  <2>2. bitmap' \subseteq Distances
    BY <2>1, <1>1 DEF Shifted, Distances
  <2>3. ASSUME NEW distance \in Distances
        PROVE  distance \in bitmap' <=>
                  /\ distance <= highest'
                  /\ \/ highest' - distance = sequence
                     \/ <<spi, highest' - distance>> \in accepted
    <3>1. distance \in Nat /\ distance < Width
      BY <1>1 DEF Distances
    <3>2. CASE distance = 0
      BY <3>2, <2>1, <1>1 DEF Shifted
    <3>3. CASE distance # 0 /\ distance < sequence - highest
      <4>1. distance \notin bitmap'
        BY <3>3, <3>1, <2>1, <1>1, <1>2 DEF Shifted
      <4>2. highest' - distance > highest /\ highest' - distance \in Seqs /\ highest' - distance # sequence
        BY <3>3, <3>1, <2>1, <1>1, <1>2 DEF Seqs
      <4>3. ASSUME NEW s \in Seqs, s > highest PROVE <<spi, s>> \notin accepted
        BY <4>3, <1>1 DEF WindowInvariant, WindowExact
      <4>4. <<spi, highest' - distance>> \notin accepted
        BY <4>2, <4>3, Zenon
      <4> QED BY <4>1, <4>2, <4>4, Zenon
    <3>4. CASE distance >= sequence - highest
      <4> DEFINE old == distance - (sequence - highest)
      <4>1. old \in Distances /\ sequence - highest < Width /\ sequence - highest \in Nat
        BY <3>4, <3>1, <1>1, <1>2 DEF Distances
      <4>2. distance \in bitmap' <=> old \in bitmap
        BY <4>1, <3>4, <3>1, <2>1, <1>1, <1>2 DEF Shifted, Distances
      <4>3. (distance <= highest' <=> old <= highest) /\ highest' - distance = highest - old
        BY <3>4, <3>1, <2>1, <1>1, <1>2
      <4>4. highest' - distance # sequence
        BY <3>4, <3>1, <2>1, <1>1, <1>2
      <4>5. old \in bitmap <=> old <= highest /\ <<spi, highest - old>> \in accepted
        BY <4>1, Zenon DEF WindowInvariant, WindowExact
      <4> QED BY <4>2, <4>3, <4>4, <4>5, Zenon
    <3>5. sequence - highest \in Nat
      BY <1>1, <1>2
    <3> QED BY <3>1, <3>2, <3>3, <3>4, <3>5
  <2> QED BY <2>1, <2>2, <2>3, <1>1, <1>2
<1>3. CASE sequence <= highest
  <2>1. highest' = highest /\ bitmap' = bitmap \cup {highest - sequence}
    BY <1>1, <1>3 DEF record
  <2>2. highest - sequence \in Distances
    BY <1>1, <1>3 DEF permits, Distances
  <2>3. bitmap' \subseteq Distances
    BY <2>1, <2>2, Zenon DEF WindowInvariant, EspTypeOK
  <2>4. ASSUME NEW distance \in Distances
        PROVE  distance \in bitmap' <=>
                  /\ distance <= highest'
                  /\ \/ highest' - distance = sequence
                     \/ <<spi, highest' - distance>> \in accepted
    <3>1. distance \in bitmap <=> distance <= highest /\ <<spi, highest - distance>> \in accepted
      BY Zenon DEF WindowInvariant, WindowExact
    <3>2. distance \in Nat
      BY <1>1 DEF Distances
    <3>3. distance = highest - sequence <=> distance <= highest /\ highest - distance = sequence
      BY <3>2, <1>1, <1>3
    <3> QED BY <3>1, <3>3, <2>1, Zenon
  <2>5. highest \in Seqs
    BY Zenon DEF WindowInvariant, EspTypeOK
  <2> QED BY <2>1, <2>3, <2>4, <2>5, <1>1, <1>3
<1> QED BY <1>1, <1>2, <1>3

\* A packet that passes handle_esp leaves the window exact.
LEMMA EspInvariant ==
    ASSUME EspAssumption, WindowInvariant, NEW packet \in 0 .. MaxRekeys,
           NEW sequence \in Seqs, HandleEsp(packet, sequence)
    PROVE  WindowInvariant'
<1> SUFFICES ASSUME packet = spi, permits(sequence) PROVE WindowInvariant'
  BY Zenon DEF HandleEsp, WindowInvariant, EspTypeOK, WindowExact, permits
<1>1. packet = spi /\ spi' = spi /\ accepted' = accepted \cup {<<spi, sequence>>}
      /\ permits(sequence) /\ record(sequence)
  BY Zenon DEF HandleEsp
<1>2. /\ highest' \in Seqs /\ highest' >= sequence /\ highest' >= highest
      /\ bitmap' \subseteq Distances
      /\ \A distance \in Distances :
           distance \in bitmap' <=>
             /\ distance <= highest'
             /\ \/ highest' - distance = sequence
                \/ <<spi, highest' - distance>> \in accepted
  BY <1>1, RecordExact, Zenon
<1>3. EspTypeOK'
  BY <1>1, <1>2 DEF WindowInvariant, EspTypeOK
<1>4. ASSUME NEW distance \in Distances
      PROVE  distance \in bitmap' <=>
               distance <= highest' /\ <<spi', highest' - distance>> \in accepted'
  BY <1>1, <1>2, Zenon
<1>5. ASSUME NEW s \in Seqs, <<spi', s>> \in accepted'
      PROVE  s \in 1 .. highest'
  <2>1. highest \in Nat /\ highest' \in Nat /\ s \in Nat /\ sequence \in Nat \ {0}
    BY <1>1, <1>2 DEF WindowInvariant, EspTypeOK, Seqs, permits
  <2>2. s = sequence \/ s \in 1 .. highest
    BY <1>1, <1>5, Zenon DEF WindowInvariant, WindowExact
  <2> QED BY <2>1, <2>2, <1>2
<1>6. ASSUME NEW p \in 0 .. MaxRekeys, NEW s \in Seqs, <<p, s>> \in accepted'
      PROVE  p <= spi'
  <2>1. spi \in Nat
    BY EspAssumption DEF WindowInvariant, EspTypeOK, EspAssumption
  <2>2. <<p, s>> \in accepted \/ p = spi
    BY <1>1, <1>6, Zenon
  <2>3. CASE <<p, s>> \in accepted
    BY <2>3, <1>1, Zenon DEF WindowInvariant, WindowExact
  <2> QED BY <2>1, <2>2, <2>3, <1>1
<1> QED BY <1>3, <1>4, <1>5, <1>6, Zenon DEF WindowInvariant, WindowExact

\* A rekeyed child starts with nothing accepted and nothing marked.
LEMMA RekeyInvariant ==
    ASSUME EspAssumption, WindowInvariant, RekeyEsp
    PROVE  WindowInvariant'
<1>1. spi' = spi + 1 /\ highest' = 0 /\ bitmap' = {} /\ accepted' = accepted /\ spi < MaxRekeys
  BY Zenon DEF RekeyEsp
<1>2. spi \in Nat /\ MaxRekeys \in Nat /\ MaxSeq \in Nat
  BY DEF WindowInvariant, EspTypeOK, EspAssumption
<1>3. spi' \in 0 .. MaxRekeys /\ 0 \in Seqs
  BY <1>1, <1>2 DEF Seqs
<1>4. ASSUME NEW s \in Seqs PROVE <<spi', s>> \notin accepted
  BY <1>1, <1>2, <1>3 DEF WindowInvariant, WindowExact
<1>5. EspTypeOK'
  BY <1>1, <1>3, Zenon DEF WindowInvariant, EspTypeOK
<1>6. ASSUME NEW distance \in Distances
      PROVE  ~ (distance <= highest' /\ <<spi', highest' - distance>> \in accepted')
  <2>1. distance \in Nat
    BY DEF Distances, EspAssumption
  <2>2. distance <= highest' => highest' - distance = 0
    BY <2>1, <1>1
  <2>3. <<spi', 0>> \notin accepted
    BY <1>3, <1>4, Zenon
  <2> QED BY <2>2, <2>3, <1>1, Zenon
<1>7. ASSUME NEW p \in 0 .. MaxRekeys, NEW s \in Seqs, <<p, s>> \in accepted'
      PROVE  p <= spi'
  <2>1. p <= spi /\ p \in Nat
    BY <1>1, <1>2, <1>7 DEF WindowInvariant, WindowExact
  <2> QED BY <2>1, <1>1, <1>2
<1> QED BY <1>1, <1>4, <1>5, <1>6, <1>7, Zenon DEF WindowInvariant, WindowExact

\* The window of handle_esp always marks exactly the packets it has accepted.
THEOREM WindowExactAlways == EspSpec => []WindowInvariant
<1>1. EspInit => WindowInvariant
  BY EspAssumption DEF EspInit, WindowInvariant, EspTypeOK, WindowExact, Seqs, EspAssumption
<1>2. WindowInvariant /\ [EspNext]_espVars => WindowInvariant'
  <2> SUFFICES ASSUME WindowInvariant, [EspNext]_espVars PROVE WindowInvariant'
    BY Zenon
  <2>1. ASSUME NEW packet \in 0 .. MaxRekeys, NEW sequence \in Seqs, HandleEsp(packet, sequence)
        PROVE  WindowInvariant'
    BY <2>1, EspInvariant, EspAssumption, Zenon
  <2>2. CASE RekeyEsp
    BY <2>2, RekeyInvariant, EspAssumption, Zenon
  <2>3. CASE UNCHANGED espVars
    BY <2>3, Zenon DEF espVars, WindowInvariant, EspTypeOK, WindowExact
  <2> QED BY <2>1, <2>2, <2>3, Zenon DEF EspNext
<1> QED BY <1>1, <1>2, PTL DEF EspSpec

\* handle_esp forwards no packet of a child SA twice.
THEOREM NoReplayAlways == EspSpec => []NoReplay
<1>1. WindowInvariant => NoReplay
  <2> SUFFICES ASSUME WindowInvariant, NEW s \in Seqs, <<spi, s>> \in accepted
               PROVE  ~ permits(s)
    BY Zenon DEF NoReplay
  <2>1. s \in 1 .. highest /\ highest \in Nat /\ Width \in Nat
    BY EspAssumption DEF WindowInvariant, WindowExact, EspTypeOK, Seqs, EspAssumption
  <2>2. ASSUME highest - s < Width PROVE highest - s \in bitmap
    <3>1. highest - s \in Distances /\ highest - s <= highest /\ highest - (highest - s) = s
      BY <2>1, <2>2 DEF Distances
    <3> QED BY <3>1, Zenon DEF WindowInvariant, WindowExact
  <2> QED BY <2>1, <2>2 DEF permits
<1> QED BY <1>1, WindowExactAlways, PTL

\* A packet less than Width behind the newest one is refused only as a duplicate.
THEOREM LatePacketAcceptedAlways == EspSpec => []LatePacketAccepted
<1>1. WindowInvariant => LatePacketAccepted
  <2> SUFFICES ASSUME WindowInvariant, NEW s \in Seqs \ {0}, <<spi, s>> \notin accepted,
                      highest < s + Width
               PROVE  permits(s)
    BY Zenon DEF LatePacketAccepted
  <2>1. s \in Nat /\ s # 0 /\ highest \in Nat /\ Width \in Nat
    BY EspAssumption DEF WindowInvariant, EspTypeOK, Seqs, EspAssumption
  <2>2. ASSUME s <= highest PROVE highest - s < Width /\ highest - s \notin bitmap
    <3>1. highest - s \in Distances /\ highest - (highest - s) = s
      BY <2>1, <2>2 DEF Distances
    <3> QED BY <3>1, <2>1 DEF WindowInvariant, WindowExact, Distances
  <2> QED BY <2>1, <2>2 DEF permits
<1> QED BY <1>1, WindowExactAlways, PTL

-----------------------------------------------------------------------------
(* The WireGuard engine.                                                    *)

\* IndexRouting is inductive by itself; the destination check of handle_relay is enough only
\* because a connected peer has the configured address, so RelayCurrent needs PeersConfigured.

PeerTables == [PublicKeys -> Peer \cup {NoPeer}]

WgTypeOK ==
    /\ devices \in Tables
    /\ peers \in PeerTables
    /\ relay_rx \in Seq(RelayPacket)

WgInvariant == WgTypeOK /\ IndexRouting /\ PeersConfigured /\ RelayCurrent

\* IndexRouting of tables that are not stored yet.
IndexRouted(q, r) ==
    /\ r = {e \in Indexes \X PublicKeys : q[e[2]] # NoPeer /\ q[e[2]].receiver_idx = e[1]}
    /\ \A k, l \in PublicKeys :
         q[k] # NoPeer /\ q[l] # NoPeer /\ q[k].receiver_idx = q[l].receiver_idx
            => k = l \/ q[k].receiver_idx = NoPeer

\* The peers of q2 are peers of q under the same address.
SameAddress(q2, q) ==
    \A k \in PublicKeys : q2[k] # NoPeer => q[k] # NoPeer /\ q2[k].ip = q[k].ip

\* The invariant speaks of the stored tables.
LEMMA RoutedIsIndexRouting == IndexRouting <=> IndexRouted(peers, receiver_to_peer)
BY Zenon DEF IndexRouting, IndexRouted, Connected

\* The handshake messages of a handler: what the type of f says.
LEMMA MessagesType ==
    ASSUME NEW D, NEW f \in Messages(D)
    PROVE  DOMAIN f \subseteq D /\ \A k \in DOMAIN f : f[k] \in Indexes
BY Zenon DEF Messages

\* remember_sender_index keeps the index exact: the entry of the former sender index
\* goes, and the new one belongs to nobody else.
LEMMA RememberRoutes ==
    ASSUME NEW q \in PeerTables, NEW r, IndexRouted(q, r), NEW f,
           DOMAIN f \subseteq {k \in PublicKeys : q[k] # NoPeer},
           \A k \in DOMAIN f : f[k] \in Indexes,
           remember_sender_index(q, r, f)
    PROVE  /\ peers' \in PeerTables
           /\ IndexRouting'
           /\ SameAddress(peers', q)
<1> USE WireguardAssumption
<1>1. \A k \in PublicKeys : q[k] # NoPeer => q[k] \in Peer
  BY Zenon DEF PeerTables
<1>2. ASSUME NEW k \in DOMAIN f
      PROVE  /\ peers'[k] \in Peer /\ peers'[k] # NoPeer /\ q[k] # NoPeer
             /\ peers'[k].receiver_idx = f[k] /\ peers'[k].ip = q[k].ip
  <2>1. k \in PublicKeys /\ q[k] \in Peer /\ f[k] \in Indexes
    BY <1>1, Zenon
  <2>2. peers'[k] = [q[k] EXCEPT !.receiver_idx = f[k]]
    BY <2>1, Zenon DEF remember_sender_index
  <2> QED BY <2>1, <2>2, Zenon DEF Peer
<1>3. \A k \in PublicKeys : k \notin DOMAIN f => peers'[k] = q[k]
  BY Zenon DEF remember_sender_index
<1>4. peers' \in PeerTables
  BY <1>2, <1>3, Zenon DEF PeerTables, remember_sender_index
<1>5. \A k \in PublicKeys : peers'[k] # NoPeer <=> q[k] # NoPeer
  BY <1>2, <1>3, Zenon
<1>6. SameAddress(peers', q)
  BY <1>2, <1>3, Zenon DEF SameAddress
<1>7. ASSUME NEW i \in Indexes, NEW k \in PublicKeys
      PROVE  <<i, k>> \in r <=> q[k] # NoPeer /\ q[k].receiver_idx = i
  BY Zenon DEF IndexRouted
<1>8. ASSUME NEW k \in PublicKeys, NEW l \in PublicKeys, k # l,
             peers'[k] # NoPeer, peers'[l] # NoPeer,
             peers'[k].receiver_idx = peers'[l].receiver_idx
      PROVE  peers'[k].receiver_idx = NoPeer
  <2>1. CASE k \in DOMAIN f /\ l \in DOMAIN f
    <3>1. f[k] # f[l]
      BY <1>8, <2>1, Zenon DEF remember_sender_index, Unused
    <3>2. peers'[k].receiver_idx = f[k] /\ peers'[l].receiver_idx = f[l]
      BY <1>2, <2>1, Zenon
    <3> QED BY <1>8, <3>1, <3>2, Zenon
  <2>2. CASE k \in DOMAIN f /\ l \notin DOMAIN f
    <3>1. <<f[k], l>> \notin r
      BY <1>8, <2>2, Zenon DEF remember_sender_index, Unused
    <3>2. peers'[k].receiver_idx = f[k] /\ f[k] \in Indexes /\ peers'[l] = q[l]
      BY <1>2, <1>3, <2>2, Zenon
    <3> QED BY <1>7, <1>8, <3>1, <3>2, Zenon
  <2>3. CASE k \notin DOMAIN f /\ l \in DOMAIN f
    <3>1. <<f[l], k>> \notin r
      BY <1>8, <2>3, Zenon DEF remember_sender_index, Unused
    <3>2. peers'[l].receiver_idx = f[l] /\ f[l] \in Indexes /\ peers'[k] = q[k]
      BY <1>2, <1>3, <2>3, Zenon
    <3> QED BY <1>7, <1>8, <3>1, <3>2, Zenon
  <2>4. CASE k \notin DOMAIN f /\ l \notin DOMAIN f
    BY <1>3, <1>8, <2>4, Zenon DEF IndexRouted
  <2> QED BY <2>1, <2>2, <2>3, <2>4, Zenon
<1>9. ASSUME NEW i \in Indexes, NEW k \in PublicKeys
      PROVE  <<i, k>> \in receiver_to_peer'
               <=> peers'[k] # NoPeer /\ peers'[k].receiver_idx = i
  <2>1. <<i, k>> \in receiver_to_peer' <=>
           \/ <<i, k>> \in r /\ \A l \in DOMAIN f : i # q[l].receiver_idx /\ i # f[l]
           \/ k \in DOMAIN f /\ f[k] = i
    BY Zenon DEF remember_sender_index
  <2>2. CASE k \in DOMAIN f
    BY <1>2, <1>5, <1>7, <2>1, <2>2, Zenon
  <2>3. CASE k \notin DOMAIN f
    <3>1. ASSUME <<i, k>> \in r, NEW l \in DOMAIN f
          PROVE  i # q[l].receiver_idx /\ i # f[l]
      <4>1. q[k] # NoPeer /\ q[k].receiver_idx = i
        BY <1>7, <3>1, Zenon
      <4>2. i # q[l].receiver_idx
        BY <2>3, <4>1, Zenon DEF IndexRouted
      <4>3. i # f[l]
        BY <2>3, <3>1, Zenon DEF remember_sender_index, Unused
      <4> QED BY <4>2, <4>3, Zenon
    <3> QED BY <1>3, <1>7, <2>1, <2>3, <3>1, Zenon
  <2> QED BY <2>2, <2>3, Zenon
<1>10. receiver_to_peer' \subseteq Indexes \X PublicKeys
  BY DEF remember_sender_index, IndexRouted
<1>11. IndexRouted(peers', receiver_to_peer')
  BY <1>8, <1>9, <1>10 DEF IndexRouted
<1>12. IndexRouting'
  BY <1>11, Zenon DEF IndexRouted, IndexRouting, Connected
<1> QED BY <1>4, <1>6, <1>12, Zenon

\* disconnect_peer leaves the other peers and their index entries alone.
LEMMA WithoutRoutes ==
    ASSUME WgInvariant, NEW S
    PROVE  /\ Without(S) \in PeerTables
           /\ IndexRouted(Without(S), Unindexed(S))
           /\ SameAddress(Without(S), peers)
           /\ \A k \in PublicKeys : Without(S)[k] # NoPeer <=> k \in Connected \ S
<1>1. \A k \in PublicKeys : Without(S)[k] = IF k \in S THEN NoPeer ELSE peers[k]
  BY Zenon DEF Without
<1>2. Without(S) \in PeerTables
  BY Zenon DEF Without, WgInvariant, WgTypeOK, PeerTables
<1>3. IndexRouted(peers, receiver_to_peer)
  BY RoutedIsIndexRouting, Zenon DEF WgInvariant
<1>4. ASSUME NEW i \in Indexes, NEW k \in PublicKeys
      PROVE  <<i, k>> \in Unindexed(S)
               <=> Without(S)[k] # NoPeer /\ Without(S)[k].receiver_idx = i
  <2>1. <<i, k>> \in receiver_to_peer <=> peers[k] # NoPeer /\ peers[k].receiver_idx = i
    BY <1>3, Zenon DEF IndexRouted
  <2>2. <<i, k>> \in Unindexed(S) <=>
           /\ <<i, k>> \in receiver_to_peer
           /\ \A l \in S : l \in PublicKeys /\ peers[l] # NoPeer => peers[l].receiver_idx # i
    BY Zenon DEF Unindexed, Connected
  <2>3. CASE k \in S
    BY <1>1, <2>1, <2>2, <2>3, Zenon
  <2>4. CASE k \notin S
    <3>1. ASSUME <<i, k>> \in receiver_to_peer, NEW l \in S, l \in PublicKeys,
                 peers[l] # NoPeer, peers[l].receiver_idx = i
          PROVE  FALSE
      BY WireguardAssumption, <1>3, <2>1, <2>4, <3>1, Zenon DEF IndexRouted
    <3> QED BY <1>1, <2>1, <2>2, <2>4, <3>1, Zenon
  <2> QED BY <2>3, <2>4, Zenon
<1>5. Unindexed(S) \subseteq Indexes \X PublicKeys
  BY <1>3, Zenon DEF Unindexed, IndexRouted
<1>6. \A k, l \in PublicKeys :
         Without(S)[k] # NoPeer /\ Without(S)[l] # NoPeer
           /\ Without(S)[k].receiver_idx = Without(S)[l].receiver_idx
         => k = l \/ Without(S)[k].receiver_idx = NoPeer
  BY <1>1, <1>3, Zenon DEF IndexRouted
<1>7. IndexRouted(Without(S), Unindexed(S))
  BY <1>4, <1>5, <1>6 DEF IndexRouted
<1>8. SameAddress(Without(S), peers)
  BY <1>1, Zenon DEF SameAddress
<1> QED BY <1>1, <1>2, <1>7, <1>8, Zenon DEF Connected

\* disconnect_peer as a whole.
LEMMA DisconnectRoutes ==
    ASSUME WgInvariant, NEW S, disconnect_peer(S)
    PROVE  /\ peers' \in PeerTables /\ IndexRouting'
           /\ SameAddress(peers', peers)
           /\ \A k \in PublicKeys : peers'[k] # NoPeer <=> k \in Connected \ S
<1>1. peers' = Without(S) /\ receiver_to_peer' = Unindexed(S)
  BY Zenon DEF disconnect_peer
<1> QED BY <1>1, WithoutRoutes DEF IndexRouted, IndexRouting, Connected

\* While the devices stay, peers that keep their address stay configured.
LEMMA SameAddressConfigured ==
    ASSUME WgInvariant, UNCHANGED devices, SameAddress(peers', peers)
    PROVE  PeersConfigured'
BY Zenon DEF WgInvariant, PeersConfigured, SameAddress, Connected

\* connect_peer adds a peer of the table, under its configured address and not indexed.
LEMMA ConnectRoutes ==
    ASSUME WgInvariant, NEW k \in PublicKeys, k \in Connected \/ devices[k] # NoPeer
    PROVE  /\ connect_peer(k) \in PeerTables
           /\ IndexRouted(connect_peer(k), receiver_to_peer)
           /\ connect_peer(k)[k] # NoPeer
           /\ \A l \in PublicKeys : connect_peer(k)[l] # NoPeer =>
                 /\ connect_peer(k)[l].ip = devices[l]
                 /\ \A m \in PublicKeys : Owner[l] = Owner[m] /\ connect_peer(k)[m] # NoPeer
                       => l = m
<1> DEFINE q == connect_peer(k)
<1> USE WireguardAssumption
<1>1. peers \in PeerTables /\ devices \in Tables /\ IndexRouted(peers, receiver_to_peer)
  BY RoutedIsIndexRouting, Zenon DEF WgInvariant, WgTypeOK
<1>2. \A l \in PublicKeys : peers[l] # NoPeer => peers[l].ip = devices[l] /\ devices[l] \in Ips
  BY <1>1, Zenon DEF WgInvariant, PeersConfigured, Connected, PeerTables, Peer
<1>3. CASE k \in Connected
  BY <1>1, <1>2, <1>3, Zenon DEF connect_peer, Connected, Tables
<1>4. CASE k \notin Connected
  <2> DEFINE new == [ip |-> devices[k], receiver_idx |-> NoPeer, idle |-> FALSE]
  <2>1. peers[k] = NoPeer /\ devices[k] \in Ips
    BY <1>1, <1>4, Zenon DEF Connected, Tables
  <2>2. new \in Peer /\ new # NoPeer /\ new.receiver_idx = NoPeer /\ new.ip = devices[k]
    <3>1. new \in Peer /\ new.receiver_idx = NoPeer /\ new.ip = devices[k]
      BY <2>1, Zenon DEF Peer
    <3>2. NoPeer \notin Peer
      BY Zenon
    <3> HIDE DEF new
    <3> QED BY <3>1, <3>2, Zenon
  <2>3. q = [peers EXCEPT ![k] = new]
    BY <2>1, Zenon DEF connect_peer
  <2> HIDE DEF q, new
  <2>4. q \in PeerTables /\ q[k] = new /\ \A l \in PublicKeys : l # k => q[l] = peers[l]
    BY <1>1, <2>2, <2>3, Zenon DEF PeerTables
  <2>5. IndexRouted(q, receiver_to_peer)
    <3>1. \A i \in Indexes, l \in PublicKeys :
            (q[l] # NoPeer /\ q[l].receiver_idx = i) <=> (peers[l] # NoPeer /\ peers[l].receiver_idx = i)
      BY <2>1, <2>2, <2>4, Zenon
    <3>2. \A l, m \in PublicKeys :
            q[l] # NoPeer /\ q[m] # NoPeer /\ q[l].receiver_idx = q[m].receiver_idx
               => l = m \/ q[l].receiver_idx = NoPeer
      BY <1>1, <2>2, <2>4 DEF IndexRouted
    <3>3. receiver_to_peer = {e \in Indexes \X PublicKeys : q[e[2]] # NoPeer /\ q[e[2]].receiver_idx = e[1]}
      BY <1>1, <3>1 DEF IndexRouted
    <3> QED BY <3>2, <3>3, Zenon DEF IndexRouted
  <2>6. \A l \in PublicKeys : q[l] # NoPeer => q[l].ip = devices[l] /\ devices[l] # NoPeer
    BY <1>2, <2>1, <2>2, <2>4, Zenon
  <2>7. \A l, m \in PublicKeys : Owner[l] = Owner[m] /\ q[l] # NoPeer /\ q[m] # NoPeer => l = m
    BY <1>1, <2>6, Zenon DEF Tables
  <2> QED BY <2>2, <2>4, <2>5, <2>6, <2>7, Zenon DEF q
<1> QED BY <1>3, <1>4, Zenon

\* A sign of life changes neither addresses nor indexes.
LEMMA RefreshRoutes ==
    ASSUME NEW q \in PeerTables, NEW r, IndexRouted(q, r), NEW k \in PublicKeys, q[k] # NoPeer
    PROVE  /\ Refreshed(q, k) \in PeerTables
           /\ IndexRouted(Refreshed(q, k), r)
           /\ SameAddress(Refreshed(q, k), q)
           /\ Refreshed(q, k)[k] # NoPeer
           /\ \A l \in PublicKeys : q[l] # NoPeer => Refreshed(q, k)[l] # NoPeer
<1> DEFINE p == Refreshed(q, k)
<1> USE WireguardAssumption
<1>1. q[k] \in Peer
  BY Zenon DEF PeerTables
<1>2. p[k] = [q[k] EXCEPT !.idle = FALSE] /\ \A l \in PublicKeys : l # k => p[l] = q[l]
  BY Zenon DEF Refreshed, PeerTables
<1>3. p[k] \in Peer /\ p[k] # NoPeer /\ p[k].ip = q[k].ip /\ p[k].receiver_idx = q[k].receiver_idx
  BY <1>1, <1>2, Zenon DEF Peer
<1>4. p \in PeerTables
  BY <1>3, Zenon DEF Refreshed, PeerTables
<1> HIDE DEF p
<1>5. \A l \in PublicKeys : /\ p[l] # NoPeer <=> q[l] # NoPeer
                            /\ q[l] # NoPeer => p[l].ip = q[l].ip /\ p[l].receiver_idx = q[l].receiver_idx
  BY <1>2, <1>3, Zenon
<1>6. r = {e \in Indexes \X PublicKeys : p[e[2]] # NoPeer /\ p[e[2]].receiver_idx = e[1]}
  BY <1>5, Zenon DEF IndexRouted
<1>7. \A l, m \in PublicKeys :
         p[l] # NoPeer /\ p[m] # NoPeer /\ p[l].receiver_idx = p[m].receiver_idx
            => l = m \/ p[l].receiver_idx = NoPeer
  BY <1>5, Zenon DEF IndexRouted
<1>8. IndexRouted(p, r)
  BY <1>6, <1>7, Zenon DEF IndexRouted
<1> QED BY <1>3, <1>4, <1>5, <1>8, Zenon DEF p, SameAddress

\* Every step of the engine keeps the invariant.
LEMMA WgStepKeeps ==
    WgInvariant /\ [WgNext]_wgVars => WgInvariant'
<1> SUFFICES ASSUME WgInvariant, [WgNext]_wgVars PROVE WgInvariant'
  BY Zenon
<1> USE WireguardAssumption
<1>0. /\ devices \in Tables /\ peers \in PeerTables /\ relay_rx \in Seq(RelayPacket)
      /\ IndexRouted(peers, receiver_to_peer) /\ ~strayed
  BY RoutedIsIndexRouting, Zenon DEF WgInvariant, WgTypeOK, RelayCurrent
<1>a. ASSUME NEW f \in Messages(Connected), remember_sender_index(peers, receiver_to_peer, f),
             UNCHANGED devices
      PROVE  peers' \in PeerTables /\ IndexRouting' /\ PeersConfigured'
  BY <1>0, <1>a, MessagesType, RememberRoutes, SameAddressConfigured, Zenon DEF Connected
<1>b. ASSUME NEW S, disconnect_peer(S), UNCHANGED devices
      PROVE  peers' \in PeerTables /\ IndexRouting' /\ PeersConfigured'
  BY <1>b, DisconnectRoutes, SameAddressConfigured, Zenon
<1>c. ASSUME peers' \in PeerTables, IndexRouting', PeersConfigured',
             UNCHANGED <<devices, relay_rx, strayed>>
      PROVE  WgInvariant'
  BY <1>0, <1>c, Zenon DEF WgInvariant, WgTypeOK, RelayCurrent
<1>1. ASSUME NEW k \in PublicKeys, NEW i \in Indexes, HandshakeInit(k, i)
      PROVE  WgInvariant'
  <2> DEFINE c == connect_peer(k)
             q == Refreshed(c, k)
             f == [l \in {k} |-> i]
  <2>1. /\ c \in PeerTables /\ IndexRouted(c, receiver_to_peer) /\ c[k] # NoPeer
        /\ \A l \in PublicKeys : c[l] # NoPeer => c[l].ip = devices[l]
        /\ \A l, m \in PublicKeys :
              Owner[l] = Owner[m] /\ c[l] # NoPeer /\ c[m] # NoPeer => l = m
    BY <1>1, ConnectRoutes, ZenonT(30) DEF HandshakeInit
  <2> HIDE DEF c
  <2>2. /\ q \in PeerTables /\ IndexRouted(q, receiver_to_peer)
        /\ SameAddress(q, c) /\ q[k] # NoPeer
    BY <2>1, RefreshRoutes, Zenon
  <2> HIDE DEF q
  <2>3. remember_sender_index(q, receiver_to_peer, f) /\ UNCHANGED devices
    BY <1>1, Zenon DEF HandshakeInit, q, c
  <2>4. DOMAIN f \subseteq {l \in PublicKeys : q[l] # NoPeer} /\ \A l \in DOMAIN f : f[l] \in Indexes
    BY <2>1, <2>2, Zenon
  <2> HIDE DEF f
  <2>5. peers' \in PeerTables /\ IndexRouting' /\ SameAddress(peers', q)
    BY <2>2, <2>3, <2>4, RememberRoutes, Zenon
  <2>6. PeersConfigured'
    BY <2>1, <2>2, <2>3, <2>5, Zenon DEF PeersConfigured, SameAddress, Connected
  <2> QED BY <1>1, <1>c, <2>5, <2>6, Zenon DEF HandshakeInit
<1>2. ASSUME NEW k \in PublicKeys, HandshakeRefused(k)
      PROVE  WgInvariant'
  <2>1. peers' = connect_peer(k) /\ UNCHANGED <<devices, receiver_to_peer>>
    BY <1>2, Zenon DEF HandshakeRefused
  <2>2. peers' \in PeerTables /\ IndexRouted(peers', receiver_to_peer')
    BY <1>2, <2>1, ConnectRoutes, Zenon DEF HandshakeRefused
  <2>3. IndexRouting'
    BY <2>2, Zenon DEF IndexRouted, IndexRouting, Connected
  <2>4. PeersConfigured'
    BY <1>2, <2>1, ConnectRoutes DEF HandshakeRefused, PeersConfigured, Connected
  <2> QED BY <1>2, <1>c, <2>2, <2>3, <2>4, Zenon DEF HandshakeRefused
<1>3. ASSUME NEW e \in receiver_to_peer, NEW f \in Messages(Connected), PacketData(e, f)
      PROVE  WgInvariant'
  <2> DEFINE q == Refreshed(peers, e[2])
  <2>1. e[2] \in PublicKeys /\ peers[e[2]] # NoPeer
    BY <1>0, Zenon DEF IndexRouted
  <2>2. /\ q \in PeerTables /\ IndexRouted(q, receiver_to_peer)
        /\ SameAddress(q, peers) /\ \A l \in Connected : q[l] # NoPeer
    BY <1>0, <2>1, RefreshRoutes, Zenon DEF Connected
  <2> HIDE DEF q
  <2>3. remember_sender_index(q, receiver_to_peer, f) /\ UNCHANGED devices
    BY <1>3, Zenon DEF PacketData, q
  <2>4. DOMAIN f \subseteq {l \in PublicKeys : q[l] # NoPeer} /\ \A l \in DOMAIN f : f[l] \in Indexes
    BY <2>2, MessagesType, Zenon DEF Connected
  <2>5. peers' \in PeerTables /\ IndexRouting' /\ SameAddress(peers', q)
    BY <2>2, <2>3, <2>4, RememberRoutes, Zenon
  <2>6. PeersConfigured'
    BY <2>2, <2>3, <2>5, SameAddressConfigured, Zenon DEF SameAddress
  <2> QED BY <1>3, <1>c, <2>5, <2>6, Zenon DEF PacketData
<1>4. ASSUME NEW e \in receiver_to_peer, NEW f \in Messages(Connected), PacketRefused(e, f)
      PROVE  WgInvariant'
  BY <1>4, <1>a, <1>c, Zenon DEF PacketRefused
<1>5. ASSUME NEW e \in receiver_to_peer, PacketExpired(e)
      PROVE  WgInvariant'
  BY <1>5, <1>b, <1>c, Zenon DEF PacketExpired
<1>6. ASSUME NEW k \in PublicKeys, NEW a \in Ips, RelayTask(k, a)
      PROVE  WgInvariant'
  <2>1. relay_rx' \in Seq(RelayPacket)
    BY <1>0, <1>6 DEF RelayTask, RelayPacket
  <2> QED BY <1>6, <2>1, Zenon DEF RelayTask, WgInvariant, WgTypeOK, IndexRouting, PeersConfigured,
                            RelayCurrent, Connected
<1>7. ASSUME NEW f \in Messages(Connected), handle_relay(f)
      PROVE  WgInvariant'
  <2> DEFINE m == Head(relay_rx)
  <2>1. m.key \in Connected /\ m.dest = peers[m.key].ip
    BY <1>7, Zenon DEF handle_relay
  <2>2. ~strayed'
    BY <1>0, <1>7, <2>1, Zenon DEF handle_relay, WgInvariant, PeersConfigured
  <2>3. relay_rx' \in Seq(RelayPacket)
    BY <1>0, <1>7 DEF handle_relay
  <2>4. peers' \in PeerTables /\ IndexRouting' /\ PeersConfigured'
    BY <1>7, <1>a, Zenon DEF handle_relay
  <2> QED BY <1>0, <1>7, <2>2, <2>3, <2>4, Zenon DEF handle_relay, WgInvariant, WgTypeOK, RelayCurrent
<1>8. ASSUME RelayDropped
      PROVE  WgInvariant'
  <2>1. relay_rx' \in Seq(RelayPacket)
    BY <1>0, <1>8 DEF RelayDropped
  <2> QED BY <1>8, <2>1, Zenon DEF RelayDropped, WgInvariant, WgTypeOK, IndexRouting, PeersConfigured,
                            RelayCurrent, Connected
<1>9. ASSUME Tick
      PROVE  WgInvariant'
  <2>1. PICK X \in SUBSET Connected, f \in Messages(Connected) : tick(X, f)
    BY <1>9, Zenon DEF Tick
  <2> DEFINE S == X \cup {k \in Connected : peers[k].idle}
             q == Without(S)
  <2>2. /\ q \in PeerTables /\ IndexRouted(q, Unindexed(S)) /\ SameAddress(q, peers)
        /\ \A k \in PublicKeys : q[k] # NoPeer <=> k \in Connected \ S
    BY WithoutRoutes
  <2>3. remember_sender_index(q, Unindexed(S), f) /\ DOMAIN f \cap S = {}
    BY <2>1, Zenon DEF tick
  <2> HIDE DEF q, S
  <2>4. DOMAIN f \subseteq {l \in PublicKeys : q[l] # NoPeer} /\ \A l \in DOMAIN f : f[l] \in Indexes
    BY <2>2, <2>3, MessagesType DEF Connected
  <2>5. peers' \in PeerTables /\ IndexRouting' /\ SameAddress(peers', q)
    BY <2>2, <2>3, <2>4, RememberRoutes, Zenon
  <2>6. SameAddress(peers', peers)
    BY <2>2, <2>5, Zenon DEF SameAddress
  <2>7. PeersConfigured'
    BY <1>9, <2>6, SameAddressConfigured, Zenon DEF Tick
  <2> QED BY <1>9, <1>c, <2>5, <2>7, Zenon DEF Tick
<1>10. ASSUME NEW k \in PublicKeys, DisconnectPeer(k)
       PROVE  WgInvariant'
  BY <1>10, <1>b, <1>c, Zenon DEF DisconnectPeer
<1>11. ASSUME NEW t \in Tables, ReloadDevices(t)
       PROVE  WgInvariant'
  <2> DEFINE S == {k \in Connected : t[k] # peers[k].ip}
  <2>1. /\ peers' \in PeerTables /\ IndexRouting' /\ SameAddress(peers', peers)
        /\ \A k \in PublicKeys : peers'[k] # NoPeer <=> k \in Connected \ S
    BY <1>11, DisconnectRoutes, Zenon DEF ReloadDevices
  <2>2. devices' = t /\ UNCHANGED <<relay_rx, strayed>>
    BY <1>11, Zenon DEF ReloadDevices
  <2>3. PeersConfigured'
    BY <2>1, <2>2, Zenon DEF WgInvariant, PeersConfigured, SameAddress, Connected
  <2> QED BY <1>0, <2>1, <2>2, <2>3, Zenon DEF WgInvariant, WgTypeOK, RelayCurrent
<1>12. ASSUME Restart
       PROVE  WgInvariant'
  <2>1. relay_rx' \in Seq(RelayPacket)
    BY <1>12 DEF Restart
  <2> QED BY <1>0, <1>12, <1>b, <2>1, Zenon DEF Restart, WgInvariant, WgTypeOK, RelayCurrent
<1>13. ASSUME NEW k \in PublicKeys, IdleTime(k)
       PROVE  WgInvariant'
  <2>1. k \in Connected /\ peers[k] \in Peer
    BY <1>0, <1>13, Zenon DEF IdleTime, Connected, PeerTables
  <2>2. /\ peers' = [peers EXCEPT ![k] = [@ EXCEPT !.idle = TRUE]]
        /\ UNCHANGED <<devices, receiver_to_peer, relay_rx, strayed>>
    BY <1>13, Zenon DEF IdleTime
  <2>3. /\ peers'[k] = [peers[k] EXCEPT !.idle = TRUE]
        /\ \A l \in PublicKeys : l # k => peers'[l] = peers[l]
    BY <1>0, <2>2, Zenon DEF PeerTables
  <2>4. /\ peers'[k] \in Peer /\ peers'[k] # NoPeer /\ peers'[k].ip = peers[k].ip
        /\ peers'[k].receiver_idx = peers[k].receiver_idx
    BY <2>1, <2>3, Zenon DEF Peer
  <2>5. peers' \in PeerTables
    BY <1>0, <2>2, <2>4, Zenon DEF PeerTables
  <2>6. \A l \in PublicKeys :
          /\ peers'[l] # NoPeer <=> peers[l] # NoPeer
          /\ peers[l] # NoPeer => /\ peers'[l].ip = peers[l].ip
                                  /\ peers'[l].receiver_idx = peers[l].receiver_idx
    BY <2>1, <2>3, <2>4, Zenon DEF Connected
  <2>7. IndexRouted(peers', receiver_to_peer')
    <3>1. receiver_to_peer' = {e \in Indexes \X PublicKeys :
                                 peers'[e[2]] # NoPeer /\ peers'[e[2]].receiver_idx = e[1]}
      BY <1>0, <2>2, <2>6, Zenon DEF IndexRouted
    <3>2. \A l, m \in PublicKeys :
            peers'[l] # NoPeer /\ peers'[m] # NoPeer
              /\ peers'[l].receiver_idx = peers'[m].receiver_idx
            => l = m \/ peers'[l].receiver_idx = NoPeer
      BY <1>0, <2>6, Zenon DEF IndexRouted
    <3> QED BY <3>1, <3>2, Zenon DEF IndexRouted
  <2>8. IndexRouting'
    BY <2>7, Zenon DEF IndexRouted, IndexRouting, Connected
  <2>9. PeersConfigured'
    BY <2>2, <2>6, SameAddressConfigured, Zenon DEF SameAddress
  <2> QED BY <1>c, <2>2, <2>5, <2>8, <2>9, Zenon
<1>14. ASSUME NEW k \in PublicKeys, FallsSilent(k)
       PROVE  WgInvariant'
  BY <1>14, Zenon DEF FallsSilent, WgInvariant, WgTypeOK, IndexRouting, PeersConfigured,
               RelayCurrent, Connected
<1>15. CASE UNCHANGED wgVars
  BY <1>15, Zenon DEF wgVars, WgInvariant, WgTypeOK, IndexRouting, PeersConfigured, RelayCurrent,
               Connected
<1> QED BY <1>1, <1>2, <1>3, <1>4, <1>5, <1>6, <1>7, <1>8, <1>9, <1>10, <1>11, <1>12, <1>13,
           <1>14, <1>15, Zenon DEF WgNext

\* The engine starts without peers.
LEMMA WgInitKeeps == WgInit => WgInvariant
BY WireguardAssumption DEF WgInit, WgInvariant, WgTypeOK, PeerTables, IndexRouting,
  PeersConfigured, RelayCurrent, Connected

\* The inductive invariant holds in every reachable state of the engine.
LEMMA WgInductive == WgSpec => []WgInvariant
BY WgInitKeeps, WgStepKeeps, PTL DEF WgSpec

\* remember_sender_index and disconnect_peer: in every reachable state a sender index
\* leads to the connected peer that uses it, and to no other.
THEOREM IndexAlwaysRoutes == WgSpec => []IndexRouting
<1>1. WgInvariant => IndexRouting
  BY Zenon DEF WgInvariant
<1> QED BY <1>1, WgInductive, PTL

\* ReloadDevices and connect_peer: the connected peers are always configured devices
\* under their present address, one per device.
THEOREM PeersAlwaysConfigured == WgSpec => []PeersConfigured
<1>1. WgInvariant => PeersConfigured
  BY Zenon DEF WgInvariant
<1> QED BY <1>1, WgInductive, PTL

\* handle_relay: no packet that waited through a move of its device enters the tunnel.
THEOREM RelayAlwaysCurrent == WgSpec => []RelayCurrent
<1>1. WgInvariant => RelayCurrent
  BY Zenon DEF WgInvariant
<1> QED BY <1>1, WgInductive, PTL
-----------------------------------------------------------------------------
(* Forwarding: the types.                                                   *)

\* The functions of the state, one application at a time.
LEMMA ForwardTypes ==
    ASSUME ForwardTypeOK
    PROVE  /\ \A ip \in ClientIps : client[ip] \in Client
           /\ \A s \in Servers : entry[s] \in [ClientIps -> Entry \cup {Nil}]
           /\ \A s \in Servers, ip \in ClientIps : entry[s][ip] \in Entry \cup {Nil}
           /\ \A s, t \in Servers : /\ up[s][t] \in BOOLEAN
                                    /\ latency[s][t] \in PeerLats \cup {DefaultLatency}
                                    /\ answer[s][t] \in Snapshot \cup {Nil}
           /\ \A s, t \in Servers, ip \in ClientIps : routes[s][ip][t] \in Lats \cup {DefaultLatency, Nil}
BY DEF ForwardTypeOK

\* A matrix of any kind with one value replaced.
LEMMA Replaced ==
    ASSUME NEW S, NEW T, NEW V, NEW f \in [S -> [T -> V]], NEW s \in S, NEW t \in T, NEW v \in V
    PROVE  [f EXCEPT ![s][t] = v] \in [S -> [T -> V]]
BY Zenon

\* Own clients.
LEMMA ClientTyped ==
    ASSUME ForwardTypeOK, NEW s \in Servers, NEW ip \in ClientIps, ClientStep(s, ip)
    PROVE  ForwardTypeOK'
<1>1. entry \in [Servers -> [ClientIps -> Entry \cup {Nil}]]
  BY Zenon DEF ForwardTypeOK
<1>2. entry' \in [Servers -> [ClientIps -> Entry \cup {Nil}]]
  <2>1. CASE Register(s, ip)
    <3>1. [online |-> TRUE, latency |-> Nil] \in Entry \cup {Nil}
      BY Zenon DEF Entry
    <3> QED BY <1>1, <2>1, <3>1, Replaced, Zenon DEF Register
  <2>2. ASSUME NEW x \in Lats, UpdateLatency(s, ip, x) PROVE entry' \in [Servers -> [ClientIps -> Entry \cup {Nil}]]
    <3>1. entry[s][ip] \in Entry
      BY <2>2, ForwardTypes DEF UpdateLatency, Online
    <3>2. [entry[s][ip] EXCEPT !.latency = x] \in Entry \cup {Nil}
      BY <3>1, Zenon DEF Entry
    <3>3. entry' = [entry EXCEPT ![s][ip] = [entry[s][ip] EXCEPT !.latency = x]]
      BY <1>1, <2>2, Zenon DEF UpdateLatency
    <3> QED BY <1>1, <3>2, <3>3, Replaced, Zenon
  <2>3. CASE Offline(s, ip)
    <3>1. entry[s][ip] \in Entry
      BY <2>3, ForwardTypes, Zenon DEF Offline, Online
    <3>2. [entry[s][ip] EXCEPT !.online = FALSE] \in Entry \cup {Nil}
      BY <3>1, Zenon DEF Entry
    <3>3. entry' = [entry EXCEPT ![s][ip] = [entry[s][ip] EXCEPT !.online = FALSE]]
      BY <1>1, <2>3, Zenon DEF Offline
    <3> QED BY <1>1, <3>2, <3>3, Replaced, Zenon
  <2>4. CASE Release(s, ip)
    BY <1>1, <2>4, Replaced, Zenon DEF Release
  <2> QED BY <2>1, <2>2, <2>3, <2>4, Zenon DEF ClientStep
<1>3. UNCHANGED <<client, up, latency, answer, routes, wire>> /\ delivered' = Nil
  BY Zenon DEF ClientStep, Register, UpdateLatency, Offline, Release, learnt
<1> QED BY <1>2, <1>3, Zenon DEF ForwardTypeOK

\* What a server reports is a snapshot.
LEMMA ReportTyped ==
    ASSUME ForwardTypeOK, NEW s \in Servers
    PROVE  Reported(s) \in Snapshot
<1>1. \A ip \in ClientIps : Online(s, ip) => entry[s][ip] \in Entry
  BY ForwardTypes, Zenon DEF Online
<1> QED BY <1>1, Zenon DEF Reported, Snapshot, Entry

\* Connections and what is learnt over them.
LEMMA LinkTyped ==
    ASSUME ForwardTypeOK, NEW s \in Servers, NEW t \in Servers, LinkStep(s, t) \/ Sync(s, t)
    PROVE  ForwardTypeOK'
<1>1. /\ up \in [Servers -> [Servers -> BOOLEAN]]
      /\ latency \in [Servers -> [Servers -> PeerLats \cup {DefaultLatency}]]
      /\ answer \in [Servers -> [Servers -> Snapshot \cup {Nil}]]
      /\ routes \in [Servers -> [ClientIps -> [Servers -> Lats \cup {DefaultLatency, Nil}]]]
  BY Zenon DEF ForwardTypeOK
<1>2. CASE Connect(s, t)
  <2>1. up' = [[up EXCEPT ![s][t] = TRUE] EXCEPT ![t][s] = TRUE]
    BY <1>2, Zenon DEF Connect
  <2>2. up' \in [Servers -> [Servers -> BOOLEAN]]
    BY <1>1, <2>1, Replaced, Zenon
  <2> QED BY <1>2, <2>2, Zenon DEF Connect, ForwardTypeOK
<1>3. CASE Disconnect(s, t)
  <2>1. up' \in [Servers -> [Servers -> BOOLEAN]]
    BY <1>1, <1>3, Replaced, Zenon DEF Disconnect
  <2>2. latency' \in [Servers -> [Servers -> PeerLats \cup {DefaultLatency}]]
    BY <1>1, <1>3, Replaced, Zenon DEF Disconnect
  <2>3. answer' = [[answer EXCEPT ![s][t] = Nil] EXCEPT ![t][s] = Nil]
    BY <1>3, Zenon DEF Disconnect
  <2>4. answer' \in [Servers -> [Servers -> Snapshot \cup {Nil}]]
    BY <1>1, <2>3, Replaced, Zenon
  <2>5. [ip \in ClientIps |-> [routes[s][ip] EXCEPT ![t] = Nil]]
          \in [ClientIps -> [Servers -> Lats \cup {DefaultLatency, Nil}]]
    BY <1>1
  <2>6. routes' = [routes EXCEPT ![s] = [ip \in ClientIps |-> [routes[s][ip] EXCEPT ![t] = Nil]]]
    BY <1>1, <1>3, Zenon DEF Disconnect
  <2>7. routes' \in [Servers -> [ClientIps -> [Servers -> Lats \cup {DefaultLatency, Nil}]]]
    BY <1>1, <2>5, <2>6, Zenon
  <2> QED BY <1>3, <2>1, <2>2, <2>4, <2>7, Zenon DEF Disconnect, ForwardTypeOK
<1>4. ASSUME NEW x \in PeerLats, handle_ping_response(s, t, x) PROVE ForwardTypeOK'
  <2>1. latency' \in [Servers -> [Servers -> PeerLats \cup {DefaultLatency}]]
    BY <1>1, <1>4, Replaced, Zenon DEF handle_ping_response
  <2> QED BY <1>4, <2>1, Zenon DEF handle_ping_response, ForwardTypeOK
<1>5. CASE AnswerPull(t, s)
  <2>1. answer' \in [Servers -> [Servers -> Snapshot \cup {Nil}]]
    BY <1>1, <1>5, ReportTyped, Replaced, Zenon DEF AnswerPull
  <2> QED BY <1>5, <2>1, Zenon DEF AnswerPull, ForwardTypeOK
<1>6. CASE handle_client_info_response(s, t)
  <2>1. answer' \in [Servers -> [Servers -> Snapshot \cup {Nil}]]
    BY <1>1, <1>6, Replaced, Zenon DEF handle_client_info_response
  <2>2. answer[t][s] \in Snapshot
    BY <1>1, <1>6, Zenon DEF handle_client_info_response
  <2>3. Learnt(s, t, answer[t][s]) \in [ClientIps -> [Servers -> Lats \cup {DefaultLatency, Nil}]]
    BY <1>1, <2>2 DEF Learnt, Snapshot
  <2>4. routes' \in [Servers -> [ClientIps -> [Servers -> Lats \cup {DefaultLatency, Nil}]]]
    BY <1>1, <1>6, <2>3, Zenon DEF handle_client_info_response
  <2> QED BY <1>6, <2>1, <2>4, Zenon DEF handle_client_info_response, ForwardTypeOK
<1> QED BY <1>2, <1>3, <1>4, <1>5, <1>6, Zenon DEF LinkStep, Sync

\* Packets.
LEMMA TrafficTyped ==
    ASSUME ForwardTypeOK, Traffic
    PROVE  ForwardTypeOK'
<1>1. UNCHANGED <<client, entry, up, latency, answer, routes>>
  BY Zenon DEF Traffic, handle_forward_data, Lost, Send, learnt
<1>2. ASSUME NEW s \in Senders, NEW k \in Kinds, NEW ip \in ClientIps, Send(s, k, ip)
      PROVE  /\ wire' \in Packet \cup {Nil}
             /\ delivered' \in [kind : Kinds, ip : ClientIps] \cup {Nil}
  <2>1. \A t \in Via(s, ip) : t \in Servers
    BY Zenon DEF Via, find_best_route, Routed
  <2>2. /\ [kind |-> k, ip |-> ip] \in [kind : Kinds, ip : ClientIps]
        /\ \A t \in Servers : [to |-> t, kind |-> k, ip |-> ip] \in Packet
    BY Zenon DEF Packet
  <2> QED BY <1>2, <2>1, <2>2, Zenon DEF Send, Deliver
<1>3. CASE handle_forward_data \/ Lost
  <2>1. wire \in Packet
    BY <1>3, Zenon DEF handle_forward_data, Lost, ForwardTypeOK
  <2>2. /\ wire' = Nil
        /\ delivered' = Nil \/ delivered' = [kind |-> wire.kind, ip |-> wire.ip]
    BY <1>3, Zenon DEF handle_forward_data, Lost, Deliver
  <2>3. [kind |-> wire.kind, ip |-> wire.ip] \in [kind : Kinds, ip : ClientIps]
    BY <2>1, Zenon DEF Packet
  <2> QED BY <1>1, <2>2, <2>3, Zenon DEF ForwardTypeOK
<1> QED BY <1>1, <1>2, <1>3, Zenon DEF Traffic, ForwardTypeOK

\* Every step keeps the types, so latencies are numbers wherever they are added up.
THEOREM ForwardingTyped == ForwardSpec => []ForwardTypeOK
<1>1. ForwardInit => ForwardTypeOK
  <2> SUFFICES ASSUME ForwardInit PROVE ForwardTypeOK
    BY Zenon
  <2>1. /\ client \in [ClientIps -> Client] /\ entry \in [Servers -> [ClientIps -> Entry \cup {Nil}]]
        /\ up \in [Servers -> [Servers -> BOOLEAN]]
        /\ latency \in [Servers -> [Servers -> PeerLats \cup {DefaultLatency}]]
    BY Zenon DEF ForwardInit
  <2>2. /\ answer \in [Servers -> [Servers -> Snapshot \cup {Nil}]]
        /\ routes \in [Servers -> [ClientIps -> [Servers -> Lats \cup {DefaultLatency, Nil}]]]
    BY Zenon DEF ForwardInit
  <2> QED BY <2>1, <2>2, Zenon DEF ForwardInit, ForwardTypeOK
<1>2. ForwardTypeOK /\ [ForwardNext]_forwardVars => ForwardTypeOK'
  <2> SUFFICES ASSUME ForwardTypeOK, [ForwardNext]_forwardVars PROVE ForwardTypeOK'
    BY Zenon
  <2>1. CASE UNCHANGED forwardVars
    BY <2>1, Zenon DEF forwardVars, ForwardTypeOK
  <2> QED BY <2>1, ClientTyped, LinkTyped, TrafficTyped, Zenon DEF ForwardNext
<1> QED BY <1>1, <1>2, PTL DEF ForwardSpec

-----------------------------------------------------------------------------
(* Who gets a packet.                                                       *)

\* A packet is delivered only to a client that accepts its kind: the sending server
\* decides about its own clients (handle_data, forward_external_packet) and the receiving
\* one about packets of other servers (handle_forward_data), whatever has changed since.
THEOREM OnlyAcceptedAlways == ForwardSpec => []OnlyAccepted
<1>1. ForwardInit => OnlyAccepted
  BY Zenon DEF ForwardInit, OnlyAccepted
<1>2. OnlyAccepted /\ [ForwardNext]_forwardVars => OnlyAccepted'
  <2> SUFFICES ASSUME OnlyAccepted, [ForwardNext]_forwardVars PROVE OnlyAccepted'
    BY Zenon
  <2>1. CASE UNCHANGED forwardVars
    BY <2>1, Zenon DEF forwardVars, OnlyAccepted
  <2>2. CASE delivered' = Nil
    BY <2>2, Zenon DEF OnlyAccepted
  <2>3. ASSUME NEW s \in Senders, NEW k \in Kinds, NEW ip \in ClientIps, Send(s, k, ip), delivered' # Nil
        PROVE  OnlyAccepted'
    <3>1. /\ client' = client /\ Admitted(s, k, ip) /\ Online(s, ip)
          /\ delivered' = [kind |-> k, ip |-> ip]
      BY <2>3, Zenon DEF Send, Deliver
    <3>2. client_type(s, ip) = client[ip].type /\ entry[s][ip] # Nil
      BY <3>1, Zenon DEF client_type, Online
    <3>3. /\ k = "Relay" => client[ip].type = "Tunnel"
          /\ k = "External" /\ client[ip].type = "Vnt" => client[ip].accepts
      BY <3>1, <3>2, Zenon DEF Admitted
    <3> QED BY <3>1, <3>3, Zenon DEF OnlyAccepted
  <2>4. ASSUME handle_forward_data, delivered' # Nil PROVE OnlyAccepted'
    <3>1. /\ client' = client /\ Accepted(wire.to, wire.kind, wire.ip)
          /\ delivered' = [kind |-> wire.kind, ip |-> wire.ip]
      BY <2>4, Zenon DEF handle_forward_data, Deliver
    <3> QED BY <3>1, Zenon DEF Accepted, OnlyAccepted
  <2>5. ForwardNext => \/ delivered' = Nil
                \/ handle_forward_data
                \/ \E s \in Senders, k \in Kinds, ip \in ClientIps : Send(s, k, ip)
    BY ZenonT(30) DEF ForwardNext, ClientStep, Register, UpdateLatency, Offline, Release, LinkStep, Connect,
      Disconnect, handle_ping_response, Sync, AnswerPull, handle_client_info_response, Traffic, Lost
  <2> QED BY <2>1, <2>2, <2>3, <2>4, <2>5, Zenon
<1> QED BY <1>1, <1>2, PTL DEF ForwardSpec

-----------------------------------------------------------------------------
(* What rests on counting and on least elements.                            *)

Library == INSTANCE FiniteSetTheorems

\* Finite sets are those of the library.
LEMMA SameFinite == \A S : IsFiniteSet(S) <=> Library!IsFiniteSet(S)
BY Zenon DEF IsFiniteSet, Library!IsFiniteSet

\* So are their sizes.
LEMMA SameCardinality == \A S : Cardinality(S) = Library!Cardinality(S)
BY Zenon DEF Cardinality, Library!Cardinality

\* The empty set.
LEMMA EmptyFinite == IsFiniteSet({}) /\ Cardinality({}) = 0
BY Library!FS_EmptySet, SameFinite, SameCardinality, Zenon

\* The size of a finite set is a number.
LEMMA FiniteSize == \A S : IsFiniteSet(S) => Cardinality(S) \in Nat
BY Library!FS_CardinalityType, SameFinite, SameCardinality, Zenon

\* A subset of a finite set is not larger.
LEMMA SmallerSubset ==
    ASSUME NEW S, IsFiniteSet(S), NEW T \in SUBSET S
    PROVE  IsFiniteSet(T) /\ Cardinality(T) <= Cardinality(S)
BY Library!FS_Subset, SameFinite, SameCardinality, Zenon

\* Adding an element adds at most one.
LEMMA OneMore ==
    ASSUME NEW S, NEW x, IsFiniteSet(S)
    PROVE  /\ IsFiniteSet(S \cup {x})
           /\ Cardinality(S \cup {x}) \in {Cardinality(S), Cardinality(S) + 1}
<1>1. /\ Library!IsFiniteSet(S \cup {x})
      /\ Library!Cardinality(S \cup {x}) =
           IF x \in S THEN Library!Cardinality(S) ELSE Library!Cardinality(S) + 1
  BY Library!FS_AddElement, SameFinite, Zenon
<1> QED BY <1>1, SameFinite, SameCardinality, Zenon

\* The tables keep their types and the engine never holds more incomplete messages than
\* collect_fragment allows.
THEOREM EngineTyped == Spec => []TypeOK
  <1> DEFINE Bounded == Types /\ IsFiniteSet(Incomplete) /\ Cardinality(Incomplete) <= MaxFragments
  <1>1. Init => Bounded
    <2> SUFFICES ASSUME Init PROVE Bounded
      BY Zenon
    <2>1. Incomplete = {} /\ Types
      BY InitEngine, Zenon DEF Init, Incomplete, EngineInvariant
    <2>2. 0 <= MaxFragments
      BY EngineAssumption
    <2> QED BY <2>1, <2>2, EmptyFinite, Zenon
  <1>2. ASSUME EngineInvariant', Bounded, [Next]_vars PROVE Bounded'
    <2> USE <1>2
    <2>1. Types /\ Types' /\ IsFiniteSet(Incomplete) /\ MaxFragments \in Nat
      BY EngineAssumption, Zenon DEF EngineInvariant
    <2>2. IsFiniteSet(Incomplete')
      <3>1. Incomplete' \in SUBSET Keys /\ IsFiniteSet(Keys)
        BY EngineAssumption, Zenon DEF Incomplete
      <3> QED BY <3>1, SmallerSubset, Zenon
    <2>3. Cardinality(Incomplete') \in Nat /\ Cardinality(Incomplete) \in Nat
      BY <2>1, <2>2, FiniteSize, Zenon
    <2>4. ASSUME Incomplete' \subseteq Incomplete PROVE Cardinality(Incomplete') <= MaxFragments
      <3>1. Cardinality(Incomplete') <= Cardinality(Incomplete)
        BY <2>1, <2>4, SmallerSubset, Zenon
      <3> QED BY <2>1, <2>3, <3>1
    <2>5. ASSUME Cardinality(Incomplete) < MaxFragments,
                 NEW k \in Keys, Incomplete' \subseteq Incomplete \cup {k}
          PROVE  Cardinality(Incomplete') <= MaxFragments
      <3> DEFINE more == Incomplete \cup {k}
      <3>1. IsFiniteSet(more) /\ Cardinality(more) \in {Cardinality(Incomplete), Cardinality(Incomplete) + 1}
        BY <2>1, OneMore, Zenon
      <3>2. Cardinality(Incomplete') <= Cardinality(more)
        BY <2>5, <3>1, SmallerSubset, Zenon
      <3> HIDE DEF more
      <3> QED BY <2>1, <2>3, <2>5, <3>1, <3>2
    <2>6. \/ Incomplete' \subseteq Incomplete
          \/ /\ Cardinality(Incomplete) < MaxFragments
             /\ \E k \in Keys : Incomplete' \subseteq Incomplete \cup {k}
      BY <2>1, IncompleteStep, Zenon
    <2>7. Cardinality(Incomplete') <= MaxFragments
      BY <2>4, <2>5, <2>6, Zenon
    <2> QED BY <2>1, <2>2, <2>7, Zenon
  <1>3. EngineInvariant /\ EngineInvariant' /\ Bounded /\ [Next]_vars => Bounded'
    BY <1>2, Zenon
  <1>4. Bounded => TypeOK
    BY Zenon DEF TypeOK
  <1> QED
    BY <1>1, <1>3, <1>4, EngineInductive, PTL DEF Spec

\* A set of numbers has a least one.
LEMMA LeastNumber ==
    ASSUME NEW T, T \subseteq Nat, T # {}
    PROVE  \E x \in T : \A y \in T : x <= y
<1> DEFINE R == Library!OpToRel(<, Nat)
<1>1. Library!IsWellFoundedOn(R, Nat)
  BY Library!NatLessThanWellFounded, Zenon
<1>2. \A x, y \in Nat : <<y, x>> \in R <=> y < x
  BY Zenon DEF Library!OpToRel
<1> HIDE DEF R
<1>3. \E x \in T : \A y \in T : ~ (<<y, x>> \in R)
  BY <1>1, Library!WFMin, Zenon
<1>4. PICK x \in T : \A y \in T : ~ (<<y, x>> \in R)
  BY <1>3, Zenon
<1>5. ASSUME NEW y \in T PROVE x <= y
  <2>1. x \in Nat /\ y \in Nat
    BY Zenon
  <2>2. ~ (y < x)
    BY <1>2, <1>4, <2>1, Zenon
  <2> QED BY <2>1, <2>2
<1> QED BY <1>5, Zenon

\* find_best_route finds a way whenever there is one: with all latencies numbers, one of
\* the routes has the least.
LEMMA BestRouteFound ==
    ASSUME ForwardTypeOK, NEW s \in Servers, NEW ip \in ClientIps,
           Routed(s, ip) # {}
    PROVE  find_best_route(s, ip) # {}
<1>1. \A t \in Routed(s, ip) : total_latency(s, ip, t) \in Nat
  <2> SUFFICES ASSUME NEW t \in Routed(s, ip) PROVE total_latency(s, ip, t) \in Nat
    BY Zenon
  <2>1. t \in Servers /\ routes[s][ip][t] # Nil
    BY Zenon DEF Routed
  <2>2. latency[s][t] \in PeerLats \cup {DefaultLatency} /\ routes[s][ip][t] \in Lats \cup {DefaultLatency}
    BY <2>1, ForwardTypes
  <2>3. latency[s][t] \in Nat /\ routes[s][ip][t] \in Nat
    BY ForwardingAssumption, <2>2, Zenon
  <2> QED BY <2>3 DEF total_latency
<1> DEFINE T == {total_latency(s, ip, t) : t \in Routed(s, ip)}
<1>2. T \subseteq Nat /\ T # {}
  BY <1>1, Zenon
<1>3. PICK x \in T : \A y \in T : x <= y
  <2> HIDE DEF T
  <2> QED BY <1>2, LeastNumber, Zenon
<1>4. PICK t \in Routed(s, ip) : x = total_latency(s, ip, t)
  BY <1>3, Zenon
<1>5. \A u \in Routed(s, ip) : total_latency(s, ip, t) <= total_latency(s, ip, u)
  BY <1>3, <1>4, Zenon
<1> QED BY <1>4, <1>5, Zenon DEF find_best_route

\* With its routes up to date a server reaches every client that is connected to it or to
\* a server it is connected to, whichever way forward_with_best_route takes.
THEOREM SettledReachAlways ==
    ForwardSpec => []SettledReach
<1>1. ASSUME ForwardTypeOK PROVE SettledReach
  <2> SUFFICES ASSUME NEW s \in Servers, NEW ip \in ClientIps, NEW kind \in Kinds,
                      Settled(s, ip), Somewhere(s, ip), Meant(kind, ip), ~ LatencyLeft(s, ip)
               PROVE  Reaches(s, kind, ip)
    BY Zenon DEF SettledReach
  <2>1. \A t \in Servers : up[s][t] /\ Online(t, ip) => t \in Routed(s, ip)
    <3> SUFFICES ASSUME NEW t \in Servers, up[s][t], Online(t, ip) PROVE routes[s][ip][t] # Nil
      BY Zenon DEF Routed
    <3>1. routes[s][ip][t] = Reported(t)[ip]
      BY Zenon DEF Settled
    <3>2. DefaultLatency # Nil
      BY ForwardingAssumption, Zenon
    <3> QED BY <3>1, <3>2, Zenon DEF Reported
  <2>2. \A t \in Routed(s, ip) : t \in Servers /\ Online(t, ip)
    <3> SUFFICES ASSUME NEW t \in Servers, up[s][t], routes[s][ip][t] # Nil PROVE Online(t, ip)
      BY Zenon DEF Routed
    <3>1. routes[s][ip][t] = Reported(t)[ip]
      BY Zenon DEF Settled
    <3> QED BY <3>1, Zenon DEF Reported
  <2>3. Online(s, ip) \/ Routed(s, ip) # {}
    BY <2>1, Zenon DEF Somewhere
  <2>4. client_type(s, ip) = client[ip].type /\ client[ip].type \in {"Vnt", "Tunnel"}
    <3>1. client[ip] \in Client
      BY <1>1, ForwardTypes, Zenon
    <3>2. client[ip].type \in {"Vnt", "Tunnel"}
      BY <3>1, Zenon DEF Client
    <3> QED BY <2>3, <3>2, Zenon DEF client_type
  <2>5. client_type(s, ip) # Nil
    BY ForwardingAssumption, <2>4, Zenon
  <2>6. Admitted(s, kind, ip)
    BY <2>4, <2>5, Zenon DEF Admitted, Meant, Kinds
  <2>7. ASSUME ~ Online(s, ip) PROVE Via(s, ip) # {}
    <3>1. find_best_route(s, ip) # {}
      BY <1>1, <2>3, <2>7, BestRouteFound, Zenon
    <3>2. \A t \in find_best_route(s, ip) : ShouldForward(s, ip, t)
      BY <2>7, Zenon DEF ShouldForward, LatencyLeft, Online
    <3> QED BY <3>1, <3>2, Zenon DEF Via
  <2>8. \A t \in Via(s, ip) : Online(t, ip) /\ entry[t][ip] # Nil
    BY <2>2, Zenon DEF Via, find_best_route, Online
  <2>9. kind = "Turn" \/ client[ip].type = "Tunnel" \/ (kind = "External" /\ client[ip].accepts)
    BY Zenon DEF Meant, Kinds
  <2> QED BY <2>6, <2>7, <2>8, <2>9, Zenon DEF Reaches, Accepted
<1>2. ForwardTypeOK => SettledReach
  BY <1>1, Zenon
<1> QED BY <1>2, ForwardingTyped, PTL

=============================================================================
