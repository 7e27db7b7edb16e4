------------------------- MODULE NetworkStateProofs -------------------------
(***************************************************************************)
(* Proofs about NetworkState, for any sets of devices, sessions, instances *)
(* and addresses: as long as no managed-config edit is rolled back, every  *)
(* behaviour is well typed and keeps the lease properties, and implements  *)
(* LeaseBook.                                                              *)
(***************************************************************************)
EXTENDS NetworkState, TLAPS

\* No put_managed_device_config fails after it has edited the device.
NoRollback == "managed_rollback" \notin Events

\* What the leases rest on, whether or not a managed edit may still be rolled back.
LeasesHold ==
    /\ TypeOK /\ SessionsNamed /\ LinksRegistered /\ PublishedOnce /\ AddressExclusive
    /\ SingleLease /\ PoolsMatchLeases /\ EditRevertible

Edit == [device : Devices \cup {None}, ip : Ips \cup {None},
         ip_type : {"Dynamic", "Static", "Fixed"}, updated : BOOLEAN]

\* The invariant adds that no managed edit is under way.
LEMMA LeaseParts == LeaseInvariant => LeasesHold /\ managed = NoManaged
  BY Zenon DEF LeaseInvariant, LeasesHold

\* The initial state of an empty network satisfies the invariant.
LEMMA InitInvariant == Init => LeaseInvariant
  <1> SUFFICES ASSUME Init PROVE LeaseInvariant
    BY Zenon
  <1> USE NetworkAssumption
  <1>1. NoEntry \in DeviceEntry
    BY Zenon DEF NoEntry, DeviceEntry
  <1>2. NoSession \in Session
    BY Zenon DEF NoSession, Session
  <1>3. NoSession.phase = "none" /\ NoEntry.ip = None
    BY Zenon DEF NoSession, NoEntry
  <1>4. TypeOK
    BY <1>1, <1>2, Zenon DEF Init, TypeOK, NoAdmin, NoManaged
  <1>5. SessionsNamed /\ LinksRegistered /\ PublishedOnce
    BY <1>3, Zenon DEF Init, SessionsNamed, LinksRegistered, PublishedOnce
  <1>6. AddressExclusive /\ SingleLease /\ PoolsMatchLeases
    BY <1>3, Zenon DEF Init, AddressExclusive, SingleLease, PoolsMatchLeases
  <1>7. EditRevertible
    BY <1>3, Zenon DEF Init, EditRevertible, NoAdmin
  <1> QED
    BY <1>4, <1>5, <1>6, <1>7, Zenon DEF LeaseInvariant, Init

\* A device owns its recorded address: device_ip_map says so, no other device records it,
\* and nobody else is live on it.
LEMMA OwnAddress ==
  ASSUME AddressExclusive, NEW x \in Devices, NEW ip \in Ips, device_map[x].ip = ip
  PROVE  /\ device_ip_map[ip] = x /\ active_ip_map[ip] \in {None, x}
         /\ \A y \in Devices : device_map[y].ip = ip => y = x
  <1>1. ip # None /\ x # None
    BY NetworkAssumption, Zenon DEF NetworkAssumption
  <1>2. device_ip_map[ip] = x
    BY <1>1, Zenon DEF AddressExclusive
  <1>3. active_ip_map[ip] \in {None, x}
    BY <1>1, <1>2, Zenon DEF AddressExclusive
  <1>4. \A y \in Devices : device_map[y].ip = ip => y = x
    BY <1>1, <1>2, Zenon DEF AddressExclusive
  <1> QED BY <1>2, <1>3, <1>4, Zenon

-----------------------------------------------------------------------------
(* Registration.                                                            *)

\* A device's recorded address becomes one that nobody else owns (or none), in
\* device_map and device_ip_map alike.
LEMMA Reassign ==
  ASSUME TypeOK, AddressExclusive, TypeOK', NEW d \in Devices, NEW new \in Usable \cup {None},
         new # None => device_ip_map[new] \in {None, d} /\ active_ip_map[new] \in {None, d},
         \A x \in Devices : device_map'[x].ip = IF x = d THEN new ELSE device_map[x].ip,
         device_ip_map' = [j \in Ips |-> IF j = new THEN d
                                         ELSE IF j = device_map[d].ip THEN None
                                         ELSE device_ip_map[j]],
         \A j \in Ips : \/ active_ip_map'[j] \in {None, active_ip_map[j]}
                        \/ j = new /\ active_ip_map'[j] = d
  PROVE  AddressExclusive'
  <1> USE NetworkAssumption
  <1>1. ASSUME NEW x \in Devices, device_map'[x].ip # None
        PROVE  device_map'[x].ip \in Usable /\ device_ip_map'[device_map'[x].ip] = x
    <2>1. CASE x = d
      BY <2>1, <1>1, Zenon
    <2>2. CASE x # d
      <3>1. device_map'[x].ip = device_map[x].ip
        BY <2>2, Zenon
      <3>2. device_map[x].ip \in Usable /\ device_ip_map[device_map[x].ip] = x
        BY <3>1, <1>1, Zenon DEF AddressExclusive
      <3>3. device_map[x].ip # new /\ device_map[x].ip # device_map[d].ip
        BY <3>1, <3>2, <2>2, <1>1, ZenonT(30) DEF AddressExclusive
      <3> QED
        BY <3>1, <3>2, <3>3, Zenon
    <2> QED
      BY <2>1, <2>2, Zenon
  <1>2. ASSUME NEW j \in Ips, device_ip_map'[j] # None
        PROVE  /\ device_map'[device_ip_map'[j]].ip = j
               /\ active_ip_map'[j] \in {None, device_ip_map'[j]}
    <2>1. CASE j = new
      BY <2>1, Zenon
    <2>2. CASE j # new
      <3>1. j # device_map[d].ip /\ device_ip_map'[j] = device_ip_map[j]
        BY <2>2, <1>2, Zenon
      <3>2. /\ device_ip_map[j] \in Devices /\ device_map[device_ip_map[j]].ip = j
            /\ active_ip_map[j] \in {None, device_ip_map[j]}
        BY <3>1, <1>2 DEF AddressExclusive, TypeOK
      <3>3. device_map'[device_ip_map[j]].ip = j
        BY <3>1, <3>2, Zenon
      <3> QED
        BY <3>1, <3>2, <3>3, <2>2, Zenon
    <2> QED
      BY <2>1, <2>2, Zenon
  <1> QED
    BY <1>1, <1>2, Zenon DEF AddressExclusive

\* Publishing a pool at a usable address that no other device owns.
LEMMA PublishStep ==
  ASSUME LeasesHold, LockFree,
         NEW s \in Sessions, NEW d \in Devices, NEW ct \in ClientTypes,
         NEW i \in Instances \cup {None}, NEW ip \in Usable, NEW mode \in RegModes,
         session[s].phase = "none",
         ~conflicting_ip_owner(ip, d),
         Publish(s, d, ct, i, ip, mode), Configure(d, ip)
  PROVE  LeasesHold'
  <1> USE NetworkAssumption
  <1> DEFINE old == device_map[d].ip
             e == Connected(s, d, ct, ip, mode)
             o == Opened(d, ct, i, ip, mode)
  <1>0. /\ TypeOK /\ SessionsNamed /\ LinksRegistered /\ PublishedOnce
        /\ AddressExclusive /\ SingleLease /\ PoolsMatchLeases /\ EditRevertible
        /\ admin = NoAdmin /\ ip \in Ips /\ d # None /\ s # None
    BY Zenon DEF LeasesHold, LockFree
  <1>1. /\ e \in DeviceEntry /\ e.ip = ip
    <2>1. device_map[d] \in DeviceEntry /\ data_version + 1 \in Nat
      BY <1>0 DEF TypeOK
    <2>2. (mode = "Normal") \in BOOLEAN
      BY Zenon
    <2> QED
      BY <2>1, <2>2, ip \in Ips, Zenon DEF Connected, DeviceEntry
  <1>2. /\ o \in Session /\ o.device = d /\ o.ip = ip
        /\ o.phase \in {"pending", "confirmed"}
    BY <1>0, Zenon DEF Opened, Session
  <1>3. /\ device_map' = [device_map EXCEPT ![d] = e]
        /\ session' = [session EXCEPT ![s] = o]
        /\ links' = [links EXCEPT ![s] = {s}]
        /\ admin' = admin /\ managed' = managed
        /\ data_version' = data_version + 1
        /\ full_sync_version' \in {data_version + 1, full_sync_version}
    BY Zenon DEF Publish, Stale, Unpublished
  <1>4. /\ active_ip_map' = [j \in Ips |-> IF j = ip THEN d
                               ELSE IF active_ip_map[j] = d THEN None ELSE active_ip_map[j]]
        /\ sender_map' = [j \in Ips |-> IF j = ip THEN s
                               ELSE IF j = old \/ active_ip_map[j] = d THEN None
                               ELSE sender_map[j]]
        /\ traffic_stats_map' = [j \in Ips |-> IF j = ip THEN d
                               ELSE IF j = old \/ active_ip_map[j] = d THEN None
                               ELSE traffic_stats_map[j]]
    BY Zenon DEF Publish, Stale, Unpublished
  <1>5. device_ip_map' = [j \in Ips |-> IF j = ip THEN d ELSE IF j = old THEN None
                                        ELSE device_ip_map[j]]
    BY Zenon DEF Configure
  <1>6. TypeOK'
    BY <1>0, <1>1, <1>2, <1>3, <1>4, <1>5 DEF TypeOK
  <1>7. SessionsNamed'
    BY <1>0, <1>2, <1>3, ZenonT(30) DEF TypeOK, SessionsNamed
  <1>8. LinksRegistered'
    BY <1>0, <1>2, <1>3, <1>4 DEF TypeOK, LinksRegistered
  <1>9. AddressExclusive'
    <2>1. device_ip_map[ip] \in {None, d} /\ active_ip_map[ip] \in {None, d}
      BY Zenon DEF conflicting_ip_owner
    <2>2. \A x \in Devices : device_map'[x].ip = IF x = d THEN ip ELSE device_map[x].ip
      BY <1>0, <1>1, <1>3, ZenonT(30) DEF TypeOK
    <2>3. \A j \in Ips : active_ip_map'[j] \in {None, active_ip_map[j]} \/ (j = ip /\ active_ip_map'[j] = d)
      BY <1>4, Zenon
    <2> QED
      BY <1>0, <1>5, <1>6, <2>1, <2>2, <2>3, Reassign, Zenon
  <1>10. SingleLease'
    BY <1>0, <1>4, Zenon DEF TypeOK, SingleLease
  <1>11. PoolsMatchLeases'
    <2> SUFFICES ASSUME NEW j \in Ips, sender_map'[j] # None
                 PROVE  /\ active_ip_map'[j] = None => BeingReleased(j)'
                        /\ active_ip_map'[j] # None =>
                             /\ session'[sender_map'[j]].device = active_ip_map'[j]
                             /\ traffic_stats_map'[j] = active_ip_map'[j]
                             /\ \A t \in links'[sender_map'[j]] :
                                    session'[t].device = active_ip_map'[j]
      BY Zenon DEF PoolsMatchLeases
    <2>1. CASE j = ip
      BY <2>1, <1>0, <1>2, <1>3, <1>4 DEF TypeOK
    <2>2. CASE j # ip
      <3>1. /\ sender_map'[j] = sender_map[j] /\ active_ip_map'[j] = active_ip_map[j]
            /\ traffic_stats_map'[j] = traffic_stats_map[j]
            /\ sender_map[j] # None /\ sender_map[j] \in Sessions
        BY <2>2, <1>0, <1>4, Zenon DEF TypeOK
      <3>2. sender_map[j] # s
        BY <3>1, <1>0, Zenon DEF LinksRegistered
      <3>3. links'[sender_map[j]] = links[sender_map[j]] /\ s \notin links[sender_map[j]]
        BY <3>1, <3>2, <1>0, <1>3, ZenonT(30) DEF TypeOK, LinksRegistered
      <3>4. \A t \in Sessions : t # s => session'[t] = session[t]
        BY <1>0, <1>3, ZenonT(30) DEF TypeOK
      <3>5. BeingReleased(j) => BeingReleased(j)'
        BY <3>4, Zenon DEF BeingReleased
      <3> QED
        <4>1. /\ active_ip_map[j] = None => BeingReleased(j)
              /\ active_ip_map[j] # None =>
                   /\ session[sender_map[j]].device = active_ip_map[j]
                   /\ traffic_stats_map[j] = active_ip_map[j]
                   /\ \A t \in links[sender_map[j]] : session[t].device = active_ip_map[j]
          BY <3>1, <1>0, Zenon DEF PoolsMatchLeases
        <4>2. session'[sender_map[j]] = session[sender_map[j]]
          BY <3>1, <3>2, <3>4, Zenon
        <4>3. \A t \in links[sender_map[j]] : session'[t] = session[t]
          BY <3>1, <3>3, <3>4, <1>0, ZenonT(30) DEF TypeOK
        <4> QED
          BY <4>1, <4>2, <4>3, <3>1, <3>3, <3>5
    <2> QED
      BY <2>1, <2>2, Zenon
  <1>12. EditRevertible'
    BY <1>0, <1>3, Zenon DEF EditRevertible, NoAdmin, NoEntry
  <1>13. PublishedOnce'
    BY <1>0, <1>4 DEF TypeOK, PublishedOnce, LinksRegistered
  <1> QED
    BY <1>3, <1>6, <1>7, <1>8, <1>9, <1>10, <1>11, <1>12, <1>13, Zenon DEF LeasesHold

\* A link joins the pool of its own client instance.
LEMMA JoinPoolStep ==
  ASSUME LeasesHold,
         NEW s \in Sessions, NEW d \in Devices, NEW ct \in ClientTypes,
         NEW i \in Instances \cup {None}, NEW r \in Ips \cup {None},
         NEW mode \in RegModes,
         session[s].phase = "none", JoinPool(s, d, ct, i, r, mode)
  PROVE  LeasesHold'
  <1> USE NetworkAssumption
  <1> DEFINE p == sender_map[r]
             o == Opened(d, ct, i, r, mode)
  <1>0. /\ TypeOK /\ SessionsNamed /\ LinksRegistered /\ PublishedOnce
        /\ AddressExclusive /\ SingleLease /\ PoolsMatchLeases /\ EditRevertible
    BY Zenon DEF LeasesHold
  <1>1. /\ r \in Ips /\ r = device_map[d].ip /\ p \in Sessions
        /\ links' = [links EXCEPT ![p] = @ \cup {s}]
        /\ session' = [session EXCEPT ![s] = o]
        /\ UNCHANGED <<device_map, device_ip_map, active_ip_map, data_version,
                       full_sync_version, sender_map, traffic_stats_map, admin, managed>>
    BY <1>0, Zenon DEF JoinPool, Joinable, leaseVars, versionVars, TypeOK
  <1>2. /\ o \in Session /\ o.device = d /\ o.ip = r
        /\ o.phase \in {"pending", "confirmed"}
    BY <1>1, Zenon DEF Opened, Session
  <1>3. \A t \in Sessions : t # s => session'[t] = session[t]
    BY <1>0, <1>1, Zenon DEF TypeOK
  <1>4. session'[s] = o
    BY <1>0, <1>1, Zenon DEF TypeOK
  <1>5. active_ip_map[r] \in {None, d}
    BY <1>0, <1>1, OwnAddress, Zenon
  <1>6. TypeOK'
    BY <1>0, <1>1, <1>2 DEF TypeOK
  <1>7. SessionsNamed'
    BY <1>0, <1>1, <1>2, <1>3, <1>4, ZenonT(30) DEF SessionsNamed
  <1>8. LinksRegistered'
    BY <1>0, <1>1, <1>2, <1>3, <1>4 DEF TypeOK, LinksRegistered
  <1>9. PublishedOnce' /\ AddressExclusive' /\ SingleLease' /\ EditRevertible'
    BY <1>0, <1>1, ZenonT(30) DEF PublishedOnce, AddressExclusive, SingleLease, EditRevertible
  <1>10. PoolsMatchLeases'
    <2> SUFFICES ASSUME NEW j \in Ips, sender_map[j] # None
                 PROVE  /\ active_ip_map[j] = None => BeingReleased(j)'
                        /\ active_ip_map[j] # None =>
                             /\ session'[sender_map[j]].device = active_ip_map[j]
                             /\ traffic_stats_map[j] = active_ip_map[j]
                             /\ \A t \in links'[sender_map[j]] :
                                    session'[t].device = active_ip_map[j]
      BY <1>1, Zenon DEF PoolsMatchLeases
    <2>1. /\ active_ip_map[j] = None => BeingReleased(j)
          /\ active_ip_map[j] # None =>
               /\ session[sender_map[j]].device = active_ip_map[j]
               /\ traffic_stats_map[j] = active_ip_map[j]
               /\ \A t \in links[sender_map[j]] : session[t].device = active_ip_map[j]
      BY <1>0, Zenon DEF PoolsMatchLeases
    <2>2. sender_map[j] \in Sessions /\ sender_map[j] # s
      BY <1>0, ZenonT(30) DEF TypeOK, LinksRegistered
    <2>3. BeingReleased(j) => BeingReleased(j)'
      BY <1>3, Zenon DEF BeingReleased
    <2>4. links[sender_map[j]] \subseteq Sessions /\ s \notin links[sender_map[j]]
      BY <2>2, <1>0, Zenon DEF TypeOK, LinksRegistered
    <2>5. CASE j = r
      <3>1. links'[sender_map[j]] = links[sender_map[j]] \cup {s}
        BY <2>5, <1>0, <1>1, Zenon DEF TypeOK
      <3> QED
        BY <3>1, <2>1, <2>2, <2>3, <2>4, <2>5, <1>2, <1>3, <1>4, <1>5
    <2>6. CASE j # r
      <3>1. links'[sender_map[j]] = links[sender_map[j]]
        BY <2>2, <2>6, <1>0, <1>1, ZenonT(30) DEF TypeOK, PublishedOnce
      <3> QED
        BY <3>1, <2>1, <2>2, <2>3, <2>4, <1>3, Zenon
    <2> QED
      BY <2>5, <2>6, Zenon
  <1> QED
    BY <1>1, <1>6, <1>7, <1>8, <1>9, <1>10, Zenon DEF LeasesHold

\* A registration, whichever way it gets its address.
LEMMA RegisterInvariant == LeasesHold /\ RegisterStep => LeasesHold'
  <1> SUFFICES ASSUME LeasesHold,
                      NEW s \in Sessions, NEW d \in Devices, NEW ct \in ClientTypes,
                      NEW i \in Instances \cup {None}, NEW r \in Ips \cup {None},
                      NEW var \in BOOLEAN, NEW mode \in RegModes,
                      Register(s, d, ct, i, r, var, mode)
               PROVE  LeasesHold'
    BY Zenon DEF RegisterStep
  <1> USE NetworkAssumption
  <1>0. /\ LockFree /\ session[s].phase = "none"
        /\ TypeOK /\ AddressExclusive
    BY Zenon DEF Register, MayRegister, LeasesHold
  <1>1. CASE JoinPool(s, d, ct, i, r, mode)
    BY <1>0, <1>1, JoinPoolStep, Zenon
  <1>2. CASE Reclaim(s, d, ct, i, r, mode)
    <2> DEFINE ip == device_map[d].ip
    <2>1. /\ ip # None /\ ~conflicting_ip_owner(ip, d)
          /\ Publish(s, d, ct, i, ip, mode) /\ UNCHANGED device_ip_map
      BY <1>2, Zenon DEF Reclaim
    <2>2. ip \in Usable /\ device_ip_map[ip] = d
      BY <2>1, <1>0, Zenon DEF AddressExclusive
    <2>3. Configure(d, ip)
      BY <2>1, <2>2, <1>0, Zenon DEF Configure, TypeOK
    <2> QED
      BY <2>1, <2>2, <2>3, <1>0, PublishStep, Zenon
  <1>3. CASE ReclaimFails(s, d, ct, i, r, mode)
    <2>1. device_map[d].ip # None /\ conflicting_ip_owner(device_map[d].ip, d)
      BY <1>3, Zenon DEF ReclaimFails
    <2>2. /\ device_ip_map[device_map[d].ip] = d /\ d # None
          /\ device_map[d].ip \in Ips
      <3>1. device_map[d].ip \in Usable /\ device_ip_map[device_map[d].ip] = d
        BY <2>1, <1>0, Zenon DEF AddressExclusive
      <3> QED
        BY <3>1, Zenon
    <2>3. active_ip_map[device_map[d].ip] \in {None, d}
      BY <2>2, <1>0, Zenon DEF AddressExclusive
    <2> QED
      BY <2>1, <2>2, <2>3, Zenon DEF conflicting_ip_owner
  <1>4. CASE TakeExpected(s, d, ct, i, r, mode)
    BY <1>0, <1>4, PublishStep, Zenon DEF TakeExpected
  <1>5. CASE TakeAvailable(s, d, ct, i, r, var, mode)
    <2>1. PICK ip \in Ips : /\ find_available_ip(ip)
                            /\ Publish(s, d, ct, i, ip, mode)
                            /\ Configure(d, ip)
      BY <1>5, Zenon DEF TakeAvailable
    <2>2. ip \in Usable /\ ~conflicting_ip_owner(ip, d)
      BY <2>1, Zenon DEF find_available_ip, Free, conflicting_ip_owner
    <2> QED
      BY <2>1, <2>2, <1>0, PublishStep, Zenon
  <1> QED
    BY <1>1, <1>2, <1>3, <1>4, <1>5, Zenon DEF Register

-----------------------------------------------------------------------------
(* Steps of a session.                                                      *)

\* A session record changes, and nothing else, without leaving "releasing",
\* without losing its device and without losing what it must name.
LEMMA SessionOnly ==
  ASSUME LeasesHold,
         NEW s \in Sessions, NEW e \in Session,
         session' = [session EXCEPT ![s] = e],
         session[s].phase # "releasing", session[s].phase # "none",
         e.phase # "none", e.device = session[s].device,
         e.phase \in {"pending", "confirmed", "leaving", "draining", "releasing"}
            => e.device \in Devices /\ e.ip \in Ips,
         e.phase \in {"leaving", "draining"} => e.pool \in Sessions,
         UNCHANGED <<leaseVars, versionVars, poolVars, admin, managed>>
  PROVE  LeasesHold'
  <1> USE NetworkAssumption DEF leaseVars, versionVars, poolVars
  <1>0. /\ TypeOK /\ SessionsNamed /\ LinksRegistered /\ PublishedOnce
        /\ AddressExclusive /\ SingleLease /\ PoolsMatchLeases /\ EditRevertible
    BY Zenon DEF LeasesHold
  <1>1. TypeOK'
    BY <1>0, Zenon DEF TypeOK
  <1>2. \A t \in Sessions : session'[t] = IF t = s THEN e ELSE session[t]
    BY <1>0, Zenon DEF TypeOK
  <1>3. SessionsNamed' /\ LinksRegistered'
    BY <1>0, <1>2 DEF SessionsNamed, LinksRegistered, TypeOK
  <1>4. PublishedOnce' /\ AddressExclusive' /\ SingleLease' /\ EditRevertible'
    BY <1>0, Zenon DEF PublishedOnce, AddressExclusive, SingleLease, EditRevertible
  <1>5. \A t \in Sessions : session'[t].device = session[t].device
    BY <1>2, Zenon
  <1>6. \A j \in Ips : BeingReleased(j) => BeingReleased(j)'
    BY <1>2, Zenon DEF BeingReleased
  <1>7. PoolsMatchLeases'
    BY <1>0, <1>5, <1>6 DEF PoolsMatchLeases, TypeOK
  <1> QED
    BY <1>1, <1>3, <1>4, <1>7, Zenon DEF LeasesHold

\* confirm_registration touches the entry's flags only.
LEMMA ConfirmInvariant ==
  ASSUME LeasesHold, NEW s \in Sessions, ConfirmRegistration(s)
  PROVE  LeasesHold'
  <1> USE NetworkAssumption DEF poolVars
  <1> DEFINE e == [session[s] EXCEPT !.phase = "confirmed"]
  <1>0. /\ TypeOK /\ SessionsNamed /\ LinksRegistered /\ PublishedOnce
        /\ AddressExclusive /\ SingleLease /\ PoolsMatchLeases /\ EditRevertible
    BY Zenon DEF LeasesHold
  <1>1. /\ session[s].phase = "pending"
        /\ session' = [session EXCEPT ![s] = e]
        /\ UNCHANGED <<device_ip_map, active_ip_map, sender_map, links,
                       traffic_stats_map, full_sync_version, admin, managed>>
    BY <1>0, Zenon DEF ConfirmRegistration, TypeOK
  <1>2. /\ e \in Session /\ e.device = session[s].device /\ e.ip = session[s].ip
        /\ e.phase = "confirmed"
    BY <1>0 DEF TypeOK, Session
  <1>3. \A t \in Sessions : session'[t] = IF t = s THEN e ELSE session[t]
    BY <1>0, <1>1, Zenon DEF TypeOK
  <1>4. /\ device_map' \in [Devices -> DeviceEntry] /\ data_version' \in Nat
        /\ \A d \in Devices : device_map'[d].ip = device_map[d].ip
    <2> DEFINE d == session[s].device
               f == [device_map[d] EXCEPT !.subnet_active = TRUE,
                                          !.data_version = data_version + 1]
    <2>1. d \in Devices
      BY <1>0, <1>1, Zenon DEF SessionsNamed
    <2>2. f \in DeviceEntry /\ f.ip = device_map[d].ip
      <3>1. device_map[d] \in DeviceEntry /\ data_version + 1 \in Nat
        BY <2>1, <1>0 DEF TypeOK
      <3> HIDE DEF d
      <3> QED
        BY <3>1, Zenon DEF DeviceEntry
    <2>3. \/ device_map' = device_map /\ data_version' = data_version
          \/ device_map' = [device_map EXCEPT ![d] = f] /\ data_version' = data_version + 1
      BY <2>1, <1>0, Zenon DEF ConfirmRegistration, TypeOK
    <2> HIDE DEF f
    <2> QED
      BY <2>1, <2>2, <2>3, <1>0 DEF TypeOK
  <1>5. TypeOK'
    BY <1>0, <1>1, <1>2, <1>4, Zenon DEF TypeOK
  <1>6. SessionsNamed' /\ LinksRegistered'
    BY <1>0, <1>1, <1>2, <1>3 DEF SessionsNamed, LinksRegistered, TypeOK
  <1>7. PublishedOnce' /\ SingleLease' /\ EditRevertible'
    BY <1>0, <1>1, Zenon DEF PublishedOnce, SingleLease, EditRevertible
  <1>8. AddressExclusive'
    BY <1>0, <1>1, <1>4 DEF AddressExclusive, TypeOK
  <1>9. /\ \A t \in Sessions : session'[t].device = session[t].device
        /\ \A j \in Ips : BeingReleased(j) => BeingReleased(j)'
    BY <1>1, <1>2, <1>3, ZenonT(30) DEF BeingReleased
  <1>10. PoolsMatchLeases'
    BY <1>0, <1>1, <1>9 DEF PoolsMatchLeases, TypeOK
  <1> QED
    BY <1>1, <1>5, <1>6, <1>7, <1>8, <1>10, Zenon DEF LeasesHold

\* What Closed keeps.
LEMMA ClosedFacts ==
  ASSUME TypeOK, NEW s \in Sessions
  PROVE  /\ Closed(s) \in Session /\ Closed(s).phase = "gone"
         /\ Closed(s).device = session[s].device
  <1>1. session[s] \in Session
    BY Zenon DEF TypeOK
  <1>2. None \in Ips \cup {None} /\ None \in Sessions \cup {None}
    BY Zenon
  <1> QED
    BY <1>1, <1>2, Zenon DEF Closed, Session

\* The two steps of a drop that only change the session.
LEMMA LookupInvariant ==
  ASSUME LeasesHold, NEW s \in Sessions, OfflineLookup(s)
  PROVE  LeasesHold'
  <1> DEFINE p == sender_map[session[s].ip]
             e == [session[s] EXCEPT !.phase = "leaving", !.pool = p]
  <1>0. TypeOK /\ SessionsNamed
    BY Zenon DEF LeasesHold
  <1>1. /\ session[s].phase = "confirmed"
        /\ session[s].device \in Devices /\ session[s].ip \in Ips
    BY <1>0, Zenon DEF OfflineLookup, SessionsNamed
  <1>2. CASE p = None
    <2>1. session' = [session EXCEPT ![s] = Closed(s)]
      BY <1>2, Zenon DEF OfflineLookup
    <2> HIDE DEF p, e
    <2> QED
      BY <1>0, <1>1, <2>1, ClosedFacts, SessionOnly, Zenon DEF OfflineLookup
  <1>3. CASE p # None
    <2>1. session' = [session EXCEPT ![s] = e]
      BY <1>3, Zenon DEF OfflineLookup
    <2>2. p \in Sessions
      BY <1>0, <1>1, <1>3, Zenon DEF TypeOK
    <2>3. /\ e \in Session /\ e.phase = "leaving" /\ e.device = session[s].device
          /\ e.ip = session[s].ip /\ e.pool = p
      <3>1. session[s] \in Session
        BY <1>0, Zenon DEF TypeOK
      <3> HIDE DEF p
      <3> QED
        BY <3>1, <2>2, Zenon DEF Session
    <2> HIDE DEF p, e
    <2> QED
      BY <1>0, <1>1, <2>1, <2>2, <2>3, SessionOnly, Zenon DEF OfflineLookup
  <1> QED
    BY <1>2, <1>3, Zenon

\* A move another link already made only corrects the session's own address.
LEMMA FastAgainInvariant ==
  ASSUME LeasesHold, NEW s \in Sessions, NEW new \in Ips, FastRegisterAgain(s, new)
  PROVE  LeasesHold'
  <1> DEFINE e == [session[s] EXCEPT !.ip = new]
  <1>0. TypeOK /\ SessionsNamed
    BY Zenon DEF LeasesHold
  <1>1. /\ session[s].phase = "confirmed" /\ session[s].device \in Devices
        /\ session' = [session EXCEPT ![s] = e]
    BY <1>0, Zenon DEF FastRegisterAgain, FastCaller, SessionsNamed, TypeOK
  <1>2. /\ e \in Session /\ e.phase = "confirmed" /\ e.device = session[s].device
        /\ e.ip = new
    BY <1>0, <1>1, ZenonT(30) DEF TypeOK, Session
  <1> HIDE DEF e
  <1> QED
    BY <1>1, <1>2, SessionOnly, Zenon DEF FastRegisterAgain

\* So does a packet of a link whose pool was moved by another link.
LEMMA FollowInvariant ==
  ASSUME LeasesHold, NEW s \in Sessions, NEW new \in Ips, FollowPool(s, new)
  PROVE  LeasesHold'
  <1> DEFINE e == [session[s] EXCEPT !.ip = new]
  <1>0. TypeOK /\ SessionsNamed
    BY Zenon DEF LeasesHold
  <1>1. /\ session[s].phase \in {"pending", "confirmed"} /\ session[s].device \in Devices
        /\ session' = [session EXCEPT ![s] = e]
    BY <1>0, Zenon DEF FollowPool, Live, SessionsNamed, TypeOK
  <1>2. /\ e \in Session /\ e.phase = session[s].phase /\ e.device = session[s].device
        /\ e.ip = new
    BY <1>0, <1>1, ZenonT(30) DEF TypeOK, Session
  <1> HIDE DEF e
  <1> QED
    BY <1>1, <1>2, SessionOnly, Zenon DEF FollowPool

-----------------------------------------------------------------------------
(* Steps that only take something away.                                     *)

\* Pools are unpublished and links removed; a lease is lost under a published
\* pool only when its release begins.
LEMMA PoolsShrink ==
  ASSUME LeasesHold, TypeOK',
         \A t \in Sessions : /\ session'[t].device = session[t].device
                             /\ session[t].phase # "none" => session'[t].phase # "none",
         \A p \in Sessions : links'[p] \subseteq links[p],
         \A j \in Ips : sender_map'[j] # None =>
             /\ sender_map'[j] = sender_map[j]
             /\ traffic_stats_map'[j] = traffic_stats_map[j]
             /\ \/ active_ip_map'[j] = active_ip_map[j] /\ (BeingReleased(j) => BeingReleased(j)')
                \/ active_ip_map'[j] = None /\ BeingReleased(j)'
  PROVE  LinksRegistered' /\ PublishedOnce' /\ PoolsMatchLeases'
  <1>0. TypeOK /\ LinksRegistered /\ PublishedOnce /\ PoolsMatchLeases
    BY Zenon DEF LeasesHold
  <1>1. LinksRegistered'
    BY <1>0, ZenonT(30) DEF LinksRegistered, TypeOK
  <1>2. PublishedOnce'
    BY <1>0, Zenon DEF PublishedOnce
  <1>3. PoolsMatchLeases'
    <2> SUFFICES ASSUME NEW j \in Ips, sender_map'[j] # None
                 PROVE  /\ active_ip_map'[j] = None => BeingReleased(j)'
                        /\ active_ip_map'[j] # None =>
                             /\ session'[sender_map'[j]].device = active_ip_map'[j]
                             /\ traffic_stats_map'[j] = active_ip_map'[j]
                             /\ \A t \in links'[sender_map'[j]] :
                                    session'[t].device = active_ip_map'[j]
      BY Zenon DEF PoolsMatchLeases
    <2>1. /\ sender_map'[j] = sender_map[j] /\ sender_map[j] \in Sessions
          /\ traffic_stats_map'[j] = traffic_stats_map[j]
          /\ links'[sender_map[j]] \subseteq links[sender_map[j]]
          /\ links[sender_map[j]] \subseteq Sessions
      BY <1>0, Zenon DEF TypeOK
    <2>2. /\ active_ip_map[j] = None => BeingReleased(j)
          /\ active_ip_map[j] # None =>
               /\ session[sender_map[j]].device = active_ip_map[j]
               /\ traffic_stats_map[j] = active_ip_map[j]
               /\ \A t \in links[sender_map[j]] : session[t].device = active_ip_map[j]
      BY <2>1, <1>0, Zenon DEF PoolsMatchLeases
    <2>3. CASE active_ip_map'[j] = active_ip_map[j] /\ (BeingReleased(j) => BeingReleased(j)')
      BY <2>1, <2>2, <2>3, Zenon
    <2>4. CASE active_ip_map'[j] = None /\ BeingReleased(j)'
      BY <2>4, Zenon
    <2> QED
      BY <2>3, <2>4, Zenon
  <1> QED
    BY <1>1, <1>2, <1>3, Zenon

\* Addresses are given up, in device_map and device_ip_map alike.
LEMMA LeasesShrink ==
  ASSUME LeasesHold, TypeOK', admin' = admin,
         \A j \in Ips : /\ device_ip_map'[j] \in {None, device_ip_map[j]}
                        /\ active_ip_map'[j] \in {None, active_ip_map[j]},
         \A d \in Devices : device_map'[d].ip \in {None, device_map[d].ip},
         \A d \in Devices : device_map'[d].ip # None =>
                                device_ip_map'[device_map'[d].ip] # None,
         \A j \in Ips : device_ip_map'[j] # None =>
                            device_map'[device_ip_map[j]].ip # None
  PROVE  AddressExclusive' /\ SingleLease' /\ EditRevertible'
  <1> USE NetworkAssumption
  <1>0. TypeOK /\ AddressExclusive /\ SingleLease /\ EditRevertible
    BY Zenon DEF LeasesHold
  <1>1. ASSUME NEW d \in Devices, device_map'[d].ip # None
        PROVE  device_map'[d].ip \in Usable /\ device_ip_map'[device_map'[d].ip] = d
    <2>1. device_map'[d].ip = device_map[d].ip
      BY <1>1, Zenon
    <2>2. device_map[d].ip \in Usable /\ device_ip_map[device_map[d].ip] = d
      BY <1>0, <1>1, <2>1, Zenon DEF AddressExclusive
    <2> QED
      BY <1>1, <2>1, <2>2, Zenon
  <1>2. ASSUME NEW j \in Ips, device_ip_map'[j] # None
        PROVE  /\ device_map'[device_ip_map'[j]].ip = j
               /\ active_ip_map'[j] \in {None, device_ip_map'[j]}
    <2>1. device_ip_map'[j] = device_ip_map[j] /\ device_ip_map[j] \in Devices
      BY <1>0, <1>2 DEF TypeOK
    <2>2. device_map[device_ip_map[j]].ip = j /\ active_ip_map[j] \in {None, device_ip_map[j]}
      BY <2>1, <1>2, <1>0, Zenon DEF AddressExclusive
    <2> QED
      BY <2>1, <2>2, <1>2, Zenon
  <1>3. AddressExclusive'
    BY <1>1, <1>2, Zenon DEF AddressExclusive
  <1>4. SingleLease'
    BY <1>0, Zenon DEF SingleLease
  <1>5. EditRevertible'
    BY <1>0, Zenon DEF EditRevertible
  <1> QED
    BY <1>3, <1>4, <1>5, Zenon

\* remove_link outside lease_state.
LEMMA RemoveLinkInvariant ==
  ASSUME LeasesHold, NEW s \in Sessions, RemoveLink(s)
  PROVE  LeasesHold'
  <1> DEFINE p == session[s].pool
             f == [session[s] EXCEPT !.phase = "draining"]
  <1>0. TypeOK /\ SessionsNamed
    BY Zenon DEF LeasesHold
  <1>1. /\ session[s].phase = "leaving" /\ p \in Sessions
        /\ session[s].device \in Devices /\ session[s].ip \in Ips
        /\ UNCHANGED <<device_map, device_ip_map, active_ip_map, data_version,
                       full_sync_version, sender_map, traffic_stats_map, admin, managed>>
    BY <1>0, Zenon DEF RemoveLink, SessionsNamed, leaseVars, versionVars
  <1>2. /\ f \in Session /\ f.phase = "draining" /\ f.device = session[s].device
        /\ f.ip = session[s].ip /\ f.pool = p
    <2>1. session[s] \in Session
      BY <1>0, Zenon DEF TypeOK
    <2> QED
      BY <2>1, Zenon DEF Session
  <1>3. PICK e \in {f, Closed(s)} : session' = [session EXCEPT ![s] = e]
    BY Zenon DEF RemoveLink
  <1>4. /\ e \in Session /\ e.device = session[s].device
        /\ \/ e.phase = "gone"
           \/ e.phase = "draining" /\ e.ip \in Ips /\ e.pool \in Sessions
    BY <1>0, <1>1, <1>2, <1>3, ClosedFacts, Zenon
  <1>5. \A t \in Sessions : session'[t] = IF t = s THEN e ELSE session[t]
    BY <1>0, <1>3, Zenon DEF TypeOK
  <1>6. links' = links \/ links' = [links EXCEPT ![p] = @ \ {s}]
    BY Zenon DEF RemoveLink, Unlink
  <1>7. links' \in [Sessions -> SUBSET Sessions] /\ \A q \in Sessions : links'[q] \subseteq links[q]
    BY <1>0, <1>1, <1>6 DEF TypeOK
  <1>8. TypeOK'
    BY <1>0, <1>1, <1>3, <1>4, <1>7, Zenon DEF TypeOK
  <1>9. SessionsNamed'
    BY <1>0, <1>1, <1>4, <1>5, Zenon DEF SessionsNamed
  <1>10. \A j \in Ips : BeingReleased(j) => BeingReleased(j)'
    BY <1>1, <1>5, Zenon DEF BeingReleased
  <1>11. LinksRegistered' /\ PublishedOnce' /\ PoolsMatchLeases'
    <2>1. \A t \in Sessions : /\ session'[t].device = session[t].device
                              /\ session[t].phase # "none" => session'[t].phase # "none"
      BY <1>4, <1>5, Zenon
    <2>2. \A j \in Ips : sender_map'[j] # None =>
             /\ sender_map'[j] = sender_map[j]
             /\ traffic_stats_map'[j] = traffic_stats_map[j]
             /\ active_ip_map'[j] = active_ip_map[j] /\ (BeingReleased(j) => BeingReleased(j)')
      BY <1>1, <1>10, Zenon
    <2> QED
      BY <1>7, <1>8, <2>1, <2>2, PoolsShrink, Zenon
  <1>12. AddressExclusive' /\ SingleLease' /\ EditRevertible'
    BY <1>1, Zenon DEF LeasesHold, AddressExclusive, SingleLease, EditRevertible
  <1> QED
    BY <1>0, <1>1, <1>8, <1>9, <1>11, <1>12, Zenon DEF LeasesHold

\* Facts about closing a session, shared by the steps that end a drop.
LEMMA ClosingSession ==
  ASSUME TypeOK, SessionsNamed, NEW s \in Sessions, session[s].phase # "none",
         session' = [session EXCEPT ![s] = Closed(s)]
  PROVE  /\ session' \in [Sessions -> Session]
         /\ SessionsNamed'
         /\ \A t \in Sessions : /\ session'[t].device = session[t].device
                                /\ session[t].phase # "none" => session'[t].phase # "none"
         /\ \A j \in Ips : BeingReleased(j) /\ (session[s].phase # "releasing" \/ session[s].ip # j)
                             => BeingReleased(j)'
  <1>1. \A t \in Sessions : session'[t] = IF t = s THEN Closed(s) ELSE session[t]
    BY Zenon DEF TypeOK
  <1>2. session' \in [Sessions -> Session]
    BY ClosedFacts, Zenon DEF TypeOK
  <1>3. SessionsNamed'
    BY <1>1, ClosedFacts, ZenonT(30) DEF SessionsNamed
  <1>4. \A t \in Sessions : /\ session'[t].device = session[t].device
                            /\ session[t].phase # "none" => session'[t].phase # "none"
    BY <1>1, ClosedFacts, Zenon
  <1>5. \A j \in Ips : BeingReleased(j) /\ (session[s].phase # "releasing" \/ session[s].ip # j)
                         => BeingReleased(j)'
    BY <1>1, Zenon DEF BeingReleased
  <1> QED
    BY <1>2, <1>3, <1>4, <1>5, Zenon

\* finalize_offline, whether or not it finds the pool still drained.
LEMMA FinalizeInvariant ==
  ASSUME LeasesHold, NEW s \in Sessions, FinalizeOffline(s)
  PROVE  LeasesHold'
  <1> USE NetworkAssumption
  <1> DEFINE d == session[s].device
             ip == session[s].ip
             f == [device_map[d] EXCEPT !.is_connected = FALSE, !.subnet_active = FALSE,
                                        !.data_version = data_version + 1]
  <1>0. TypeOK /\ SessionsNamed
    BY Zenon DEF LeasesHold
  <1>1. /\ session[s].phase = "draining" /\ d \in Devices /\ ip \in Ips
        /\ session' = [session EXCEPT ![s] = Closed(s)]
        /\ UNCHANGED <<device_ip_map, links, admin, managed>>
    BY <1>0, Zenon DEF FinalizeOffline, SessionsNamed
  <1>2. /\ session' \in [Sessions -> Session] /\ SessionsNamed'
        /\ \A t \in Sessions : /\ session'[t].device = session[t].device
                               /\ session[t].phase # "none" => session'[t].phase # "none"
        /\ \A j \in Ips : BeingReleased(j) => BeingReleased(j)'
    BY <1>0, <1>1, ClosingSession, Zenon
  <1>3. f \in DeviceEntry /\ f.ip = device_map[d].ip
    <2>1. device_map[d] \in DeviceEntry /\ data_version + 1 \in Nat
      BY <1>0, <1>1 DEF TypeOK
    <2> HIDE DEF d
    <2> QED
      BY <2>1, Zenon DEF DeviceEntry
  <1>4. CASE UNCHANGED <<device_map, active_ip_map, data_version, full_sync_version,
                         sender_map, traffic_stats_map>>
    <2>1. TypeOK'
      BY <1>0, <1>1, <1>2, <1>4, Zenon DEF TypeOK
    <2>2. LinksRegistered' /\ PublishedOnce' /\ PoolsMatchLeases'
      BY <1>1, <1>2, <1>4, <2>1, PoolsShrink, Zenon
    <2>3. AddressExclusive' /\ SingleLease' /\ EditRevertible'
      BY <1>1, <1>4, Zenon DEF LeasesHold, AddressExclusive, SingleLease, EditRevertible
    <2> QED
      BY <1>0, <1>1, <1>2, <2>1, <2>2, <2>3, Zenon DEF LeasesHold
  <1>5. CASE /\ device_map' = [device_map EXCEPT ![d] = f]
             /\ active_ip_map' = [active_ip_map EXCEPT ![ip] = None]
             /\ sender_map' = [sender_map EXCEPT ![ip] = None]
             /\ traffic_stats_map' = [traffic_stats_map EXCEPT ![ip] = None]
             /\ data_version' = data_version + 1
             /\ full_sync_version' \in {data_version + 1, full_sync_version}
    <2> HIDE DEF f, d, ip
    <2>1. TypeOK'
      BY <1>0, <1>1, <1>2, <1>3, <1>5 DEF TypeOK
    <2>2. \A j \in Ips : sender_map'[j] # None =>
             /\ sender_map'[j] = sender_map[j]
             /\ traffic_stats_map'[j] = traffic_stats_map[j]
             /\ active_ip_map'[j] = active_ip_map[j]
      BY <1>0, <1>1, <1>5, Zenon DEF TypeOK
    <2>3. LinksRegistered' /\ PublishedOnce' /\ PoolsMatchLeases'
      BY <1>1, <1>2, <2>1, <2>2, PoolsShrink, Zenon
    <2>4. /\ \A x \in Devices : device_map'[x].ip = device_map[x].ip
          /\ \A j \in Ips : active_ip_map'[j] \in {None, active_ip_map[j]}
      BY <1>3, <1>5 DEF TypeOK
    <2>5. AddressExclusive' /\ SingleLease' /\ EditRevertible'
      <3>1. \A x \in Devices : device_map[x].ip # None => device_ip_map[device_map[x].ip] # None
        BY DEF LeasesHold, AddressExclusive
      <3>2. \A j \in Ips : device_ip_map[j] # None =>
                               device_ip_map[j] \in Devices /\ device_map[device_ip_map[j]].ip # None
        BY DEF LeasesHold, AddressExclusive, TypeOK
      <3> QED
        BY <3>1, <3>2, <1>1, <2>1, <2>4, LeasesShrink, Zenon
    <2> QED
      BY <1>0, <1>1, <1>2, <2>1, <2>3, <2>5, Zenon DEF LeasesHold
  <1>6. \/ UNCHANGED <<device_map, active_ip_map, data_version, full_sync_version,
                       sender_map, traffic_stats_map>>
        \/ /\ device_map' = [device_map EXCEPT ![d] = f]
           /\ active_ip_map' = [active_ip_map EXCEPT ![ip] = None]
           /\ sender_map' = [sender_map EXCEPT ![ip] = None]
           /\ traffic_stats_map' = [traffic_stats_map EXCEPT ![ip] = None]
           /\ data_version' = data_version + 1
           /\ full_sync_version' \in {data_version + 1, full_sync_version}
    BY <1>0, <1>1, Zenon DEF FinalizeOffline, versionVars, TypeOK
  <1> QED
    BY <1>4, <1>5, <1>6, Zenon

\* The maps cleared after release_pre_registered_ip gave up the lock.
LEMMA ReleaseTailInvariant ==
  ASSUME LeasesHold, NEW s \in Sessions, ReleaseTail(s)
  PROVE  LeasesHold'
  <1> USE NetworkAssumption
  <1> DEFINE ip == session[s].ip
  <1>0. TypeOK /\ SessionsNamed
    BY Zenon DEF LeasesHold
  <1>1. /\ session[s].phase = "releasing" /\ ip \in Ips
        /\ session' = [session EXCEPT ![s] = Closed(s)]
        /\ sender_map' = [sender_map EXCEPT ![ip] = None]
        /\ traffic_stats_map' = [traffic_stats_map EXCEPT ![ip] = None]
        /\ UNCHANGED <<device_map, device_ip_map, active_ip_map, data_version,
                       full_sync_version, links, admin, managed>>
    BY <1>0, Zenon DEF ReleaseTail, SessionsNamed, leaseVars, versionVars
  <1>2. /\ session' \in [Sessions -> Session] /\ SessionsNamed'
        /\ \A t \in Sessions : /\ session'[t].device = session[t].device
                               /\ session[t].phase # "none" => session'[t].phase # "none"
        /\ \A j \in Ips : BeingReleased(j) /\ ip # j => BeingReleased(j)'
    BY <1>0, <1>1, ClosingSession, Zenon
  <1> HIDE DEF ip
  <1>3. TypeOK'
    BY <1>0, <1>1, <1>2, Zenon DEF TypeOK
  <1>4. \A j \in Ips : sender_map'[j] # None =>
           /\ sender_map'[j] = sender_map[j] /\ j # ip
           /\ traffic_stats_map'[j] = traffic_stats_map[j]
           /\ active_ip_map'[j] = active_ip_map[j]
    BY <1>0, <1>1, Zenon DEF TypeOK
  <1>5. LinksRegistered' /\ PublishedOnce' /\ PoolsMatchLeases'
    BY <1>1, <1>2, <1>3, <1>4, PoolsShrink, Zenon
  <1>6. AddressExclusive' /\ SingleLease' /\ EditRevertible'
    BY <1>1, Zenon DEF LeasesHold, AddressExclusive, SingleLease, EditRevertible
  <1> QED
    BY <1>0, <1>1, <1>2, <1>3, <1>5, <1>6, Zenon DEF LeasesHold

\* release_pre_registered_ip under the lock: either the lease, the entry and
\* the mapping go together, or only the link does.
LEMMA ReleaseInvariant ==
  ASSUME LeasesHold, NEW s \in Sessions, ReleasePreRegistered(s)
  PROVE  LeasesHold'
  <1> USE NetworkAssumption
  <1> DEFINE d == session[s].device
             ip == session[s].ip
             p == sender_map[ip]
             f == [session[s] EXCEPT !.phase = "releasing"]
  <1>0. TypeOK /\ SessionsNamed /\ AddressExclusive
    BY Zenon DEF LeasesHold
  <1>1. /\ session[s].phase = "pending" /\ d \in Devices /\ ip \in Ips
        /\ UNCHANGED <<sender_map, traffic_stats_map, admin, managed>>
    BY <1>0, Zenon DEF ReleasePreRegistered, SessionsNamed
  <1>2. /\ links' \in [Sessions -> SUBSET Sessions]
        /\ \A q \in Sessions : links'[q] \subseteq links[q]
    <2>1. links' = links \/ (p # None /\ links' = [links EXCEPT ![p] = @ \ {s}])
      BY Zenon DEF ReleasePreRegistered, Unlink
    <2>2. p # None => p \in Sessions
      BY <1>0, <1>1, Zenon DEF TypeOK
    <2> QED
      BY <2>1, <2>2, <1>0 DEF TypeOK
  <1>3. \/ /\ session' = [session EXCEPT ![s] = Closed(s)]
           /\ UNCHANGED <<device_map, device_ip_map, active_ip_map, data_version,
                          full_sync_version>>
        \/ /\ device_map[d].ip = ip
           /\ device_map' = [device_map EXCEPT ![d] = NoEntry]
           /\ device_ip_map' = [device_ip_map EXCEPT ![ip] = None]
           /\ active_ip_map' = [active_ip_map EXCEPT ![ip] = None]
           /\ data_version' = data_version + 1
           /\ full_sync_version' = data_version + 1
           /\ session' = [session EXCEPT ![s] = f]
    BY <1>0, Zenon DEF ReleasePreRegistered, leaseVars, versionVars
  <1>4. CASE /\ session' = [session EXCEPT ![s] = Closed(s)]
             /\ UNCHANGED <<device_map, device_ip_map, active_ip_map, data_version,
                            full_sync_version>>
    <2>1. /\ session' \in [Sessions -> Session] /\ SessionsNamed'
          /\ \A t \in Sessions : /\ session'[t].device = session[t].device
                                 /\ session[t].phase # "none" => session'[t].phase # "none"
          /\ \A j \in Ips : BeingReleased(j) => BeingReleased(j)'
      BY <1>0, <1>1, <1>4, ClosingSession, Zenon
    <2>2. TypeOK'
      BY <1>0, <1>1, <1>2, <1>4, <2>1, Zenon DEF TypeOK
    <2>3. LinksRegistered' /\ PublishedOnce' /\ PoolsMatchLeases'
      BY <1>1, <1>2, <1>4, <2>1, <2>2, PoolsShrink, Zenon
    <2>4. AddressExclusive' /\ SingleLease' /\ EditRevertible'
      BY <1>1, <1>4, Zenon DEF LeasesHold, AddressExclusive, SingleLease, EditRevertible
    <2> QED
      BY <1>0, <1>1, <2>1, <2>2, <2>3, <2>4, Zenon DEF LeasesHold
  <1>5. CASE /\ device_map[d].ip = ip
             /\ device_map' = [device_map EXCEPT ![d] = NoEntry]
             /\ device_ip_map' = [device_ip_map EXCEPT ![ip] = None]
             /\ active_ip_map' = [active_ip_map EXCEPT ![ip] = None]
             /\ data_version' = data_version + 1
             /\ full_sync_version' = data_version + 1
             /\ session' = [session EXCEPT ![s] = f]
    <2>1. /\ f \in Session /\ f.phase = "releasing" /\ f.device = d /\ f.ip = ip
      <3>1. session[s] \in Session
        BY <1>0, Zenon DEF TypeOK
      <3> QED
        BY <3>1, Zenon DEF Session
    <2>2. NoEntry \in DeviceEntry /\ NoEntry.ip = None
      BY Zenon DEF NoEntry, DeviceEntry
    <2> HIDE DEF f, p
    <2>3. \A t \in Sessions : session'[t] = IF t = s THEN f ELSE session[t]
      BY <1>0, <1>5, Zenon DEF TypeOK
    <2>4. TypeOK'
      BY <1>0, <1>1, <1>2, <1>5, <2>1, <2>2 DEF TypeOK
    <2>5. SessionsNamed'
      BY <1>0, <1>1, <2>1, <2>3, Zenon DEF SessionsNamed
    <2>6. \A j \in Ips : BeingReleased(j) \/ j = ip => BeingReleased(j)'
      BY <1>1, <2>1, <2>3, Zenon DEF BeingReleased
    <2>7. \A j \in Ips : active_ip_map'[j] = IF j = ip THEN None ELSE active_ip_map[j]
      BY <1>0, <1>1, <1>5, Zenon DEF TypeOK
    <2>8. LinksRegistered' /\ PublishedOnce' /\ PoolsMatchLeases'
      <3>1. \A t \in Sessions : /\ session'[t].device = session[t].device
                                /\ session[t].phase # "none" => session'[t].phase # "none"
        BY <2>1, <2>3, Zenon
      <3>2. \A j \in Ips :
               \/ active_ip_map'[j] = active_ip_map[j] /\ (BeingReleased(j) => BeingReleased(j)')
               \/ active_ip_map'[j] = None /\ BeingReleased(j)'
        BY <2>6, <2>7, Zenon
      <3> QED
        BY <1>1, <1>2, <2>4, <3>1, <3>2, PoolsShrink, Zenon
    <2>9. AddressExclusive' /\ SingleLease' /\ EditRevertible'
      <3>1. /\ \A j \in Ips : device_ip_map'[j] = IF j = ip THEN None ELSE device_ip_map[j]
            /\ \A x \in Devices : device_map'[x].ip = IF x = d THEN None ELSE device_map[x].ip
        BY <1>0, <1>1, <1>5, <2>2, ZenonT(30) DEF TypeOK
      <3>0. ip # None /\ device_map[d].ip = ip
        BY <1>1, <1>5, Zenon
      <3> HIDE DEF d, ip
      <3>2. \A x \in Devices : x # d => device_map[x].ip # ip
        BY <1>0, <1>1, <3>0, OwnAddress, Zenon
      <3>3. \A x \in Devices : device_map'[x].ip # None => device_ip_map'[device_map'[x].ip] # None
        <4> SUFFICES ASSUME NEW x \in Devices, device_map'[x].ip # None
                     PROVE  device_ip_map'[device_map'[x].ip] # None
          BY Zenon
        <4>1. x # d /\ device_map'[x].ip = device_map[x].ip
          BY <3>1, Zenon
        <4>2. device_map[x].ip \in Ips /\ device_ip_map[device_map[x].ip] = x
          BY <4>1, <1>0, Zenon DEF AddressExclusive
        <4> QED
          BY <4>2, <3>1, <3>2, Zenon
      <3>4. \A j \in Ips : device_ip_map'[j] # None => device_map'[device_ip_map[j]].ip # None
        <4> SUFFICES ASSUME NEW j \in Ips, device_ip_map'[j] # None
                     PROVE  device_map'[device_ip_map[j]].ip # None
          BY Zenon
        <4>1. j # ip /\ device_ip_map[j] \in Devices /\ device_map[device_ip_map[j]].ip = j
          <5>1. j # ip
            BY <3>1, Zenon
          <5>2. device_ip_map[j] # None
            BY <3>1, <5>1, Zenon
          <5>3. device_ip_map[j] \in Devices
            BY <1>0, <5>2, Zenon DEF TypeOK
          <5>4. device_map[device_ip_map[j]].ip = j
            BY <1>0, <5>2, Zenon DEF AddressExclusive
          <5> QED BY <5>1, <5>3, <5>4, Zenon
        <4> QED
          BY <4>1, <3>1, <1>5, Zenon
      <3> QED
        BY <3>1, <3>3, <3>4, <1>1, <2>4, <2>7, LeasesShrink, Zenon
    <2> QED
      BY <1>0, <1>1, <2>4, <2>5, <2>8, <2>9, Zenon DEF LeasesHold
  <1> QED
    BY <1>3, <1>4, <1>5, Zenon

\* disconnect_subscription_session only unpublishes.
LEMMA DisconnectInvariant ==
  ASSUME LeasesHold, NEW ip \in Ips, DisconnectSubscription(ip)
  PROVE  LeasesHold'
  <1>0. TypeOK /\ SessionsNamed
    BY Zenon DEF LeasesHold
  <1>1. /\ sender_map' = [sender_map EXCEPT ![ip] = None]
        /\ UNCHANGED <<device_map, device_ip_map, active_ip_map, data_version,
                       full_sync_version, links, traffic_stats_map, session, admin, managed>>
    BY Zenon DEF DisconnectSubscription, leaseVars, versionVars
  <1>2. TypeOK'
    BY <1>0, <1>1, Zenon DEF TypeOK
  <1>3. SessionsNamed' /\ \A j \in Ips : BeingReleased(j) => BeingReleased(j)'
    BY <1>0, <1>1, Zenon DEF SessionsNamed, BeingReleased
  <1>4. \A j \in Ips : sender_map'[j] # None => sender_map'[j] = sender_map[j]
    BY <1>1
  <1>5. LinksRegistered' /\ PublishedOnce' /\ PoolsMatchLeases'
    BY <1>1, <1>2, <1>3, PoolsShrink
  <1>6. AddressExclusive' /\ SingleLease' /\ EditRevertible'
    BY <1>1, Zenon DEF LeasesHold, AddressExclusive, SingleLease, EditRevertible
  <1> QED
    BY <1>0, <1>1, <1>2, <1>3, <1>5, <1>6, Zenon DEF LeasesHold

\* fast_register moves lease, mapping, pool and statistics together.
LEMMA FastMoveInvariant ==
  ASSUME LeasesHold, NEW s \in Sessions, NEW new \in Ips, FastRegisterMove(s, new)
  PROVE  LeasesHold'
  <1> USE NetworkAssumption
  <1> DEFINE d == session[s].device
             old == session[s].ip
             p == sender_map[old]
             e == [device_map[d] EXCEPT !.ip = new, !.data_version = data_version + 1]
             f == [session[s] EXCEPT !.ip = new]
  <1>0. /\ TypeOK /\ SessionsNamed /\ LinksRegistered /\ PublishedOnce
        /\ AddressExclusive /\ SingleLease /\ PoolsMatchLeases /\ EditRevertible
       
    BY Zenon DEF LeasesHold
  <1>1. /\ session[s].phase = "confirmed" /\ admin = NoAdmin
        /\ d \in Devices /\ old \in Ips
    BY <1>0, Zenon DEF FastRegisterMove, FastCaller, SessionsNamed, LockFree
  <1>2. /\ new \in Usable /\ active_ip_map[old] = d /\ p \in Sessions
        /\ device_ip_map[new] \in {None, d} /\ active_ip_map[new] \in {None, d}
    BY <1>0, <1>1, ZenonT(30) DEF FastRegisterMove, conflicting_ip_owner, TypeOK
  <1>3. /\ active_ip_map' = [j \in Ips |-> IF j = new THEN d ELSE IF j = old THEN None
                                           ELSE active_ip_map[j]]
        /\ sender_map' = [j \in Ips |-> IF j = new THEN p ELSE IF j = old THEN None
                                        ELSE sender_map[j]]
        /\ traffic_stats_map' = [j \in Ips |->
              IF j = new /\ traffic_stats_map[old] # None THEN traffic_stats_map[old]
              ELSE IF j = old THEN None ELSE traffic_stats_map[j]]
        /\ data_version' = data_version + 1
        /\ full_sync_version' \in {data_version + 1, full_sync_version}
        /\ UNCHANGED <<links, admin, managed>>
    BY Zenon DEF FastRegisterMove
  <1>4. device_map' = [device_map EXCEPT ![d] = e] /\ session' = [session EXCEPT ![s] = f]
    BY <1>0, <1>1, Zenon DEF FastRegisterMove, TypeOK
  <1>5. /\ e \in DeviceEntry /\ e.ip = new
    <2>1. device_map[d] \in DeviceEntry /\ data_version + 1 \in Nat
      BY <1>0, <1>1 DEF TypeOK
    <2> HIDE DEF d
    <2> QED
      BY <2>1, Zenon DEF DeviceEntry
  <1>6. f \in Session /\ f.phase = "confirmed" /\ f.device = d /\ f.ip = new
    <2>1. session[s] \in Session
      BY <1>0, Zenon DEF TypeOK
    <2> QED
      BY <2>1, <1>1, Zenon DEF Session
  <1>7. device_ip_map' = [j \in Ips |-> IF j = new THEN d ELSE IF j = device_map[d].ip THEN None
                                        ELSE device_ip_map[j]]
    <2>1. CASE device_map[d].ip # new
      BY <2>1, Zenon DEF FastRegisterMove, Configure
    <2>2. CASE device_map[d].ip = new
      <3>1. device_ip_map' = device_ip_map
        BY <2>2, Zenon DEF FastRegisterMove
      <3>2. device_ip_map[new] = d
        BY <2>2, <1>0, <1>1, Zenon DEF AddressExclusive
      <3> QED
        BY <3>1, <3>2, <2>2, <1>0, Zenon DEF TypeOK
    <2> QED
      BY <2>1, <2>2, Zenon
  <1>8. /\ session[p].device = d /\ traffic_stats_map[old] = d
        /\ \A t \in links[p] : session[t].device = d
    BY <1>0, <1>1, <1>2, Zenon DEF PoolsMatchLeases
  <1> HIDE DEF d, old, p, e, f
  <1>9. TypeOK'
    BY <1>0, <1>1, <1>2, <1>3, <1>4, <1>5, <1>6, <1>7 DEF TypeOK
  <1>10. \A t \in Sessions : session'[t] = IF t = s THEN f ELSE session[t]
    BY <1>0, <1>4, Zenon DEF TypeOK
  <1>11. SessionsNamed'
    BY <1>0, <1>1, <1>6, <1>10, Zenon DEF SessionsNamed
  <1>12. /\ \A t \in Sessions : session'[t].device = session[t].device
         /\ \A j \in Ips : BeingReleased(j) => BeingReleased(j)'
    <2>1. session[s].device = d
      BY Zenon DEF d
    <2> QED
      BY <2>1, <1>1, <1>6, <1>10, Zenon DEF BeingReleased
  <1>13. LinksRegistered' /\ PublishedOnce'
    <2>1. \A t \in Sessions : session[t].phase # "none" => session'[t].phase # "none"
      BY <1>1, <1>6, <1>10, Zenon
    <2>2. LinksRegistered'
      BY <1>0, <1>1, <1>2, <1>3, <1>9, <2>1 DEF LinksRegistered, TypeOK, p
    <2>3. PublishedOnce'
      BY <1>0, <1>1, <1>2, <1>3, Zenon DEF PublishedOnce, TypeOK, p
    <2> QED
      BY <2>2, <2>3, Zenon
  <1>14. AddressExclusive'
    <2>1. \A x \in Devices : device_map'[x].ip = IF x = d THEN new ELSE device_map[x].ip
      BY <1>0, <1>4, <1>5, Zenon DEF TypeOK
    <2>2. \A j \in Ips : active_ip_map'[j] \in {None, active_ip_map[j]} \/ (j = new /\ active_ip_map'[j] = d)
      BY <1>3, Zenon
    <2> QED
      BY <1>0, <1>1, <1>2, <1>7, <1>9, <2>1, <2>2, Reassign, ZenonT(30)
  <1>15. SingleLease'
    BY <1>0, <1>1, <1>2, <1>3, Zenon DEF SingleLease
  <1>16. EditRevertible'
    BY <1>1, <1>3, Zenon DEF EditRevertible, NoAdmin, NoEntry
  <1>17. PoolsMatchLeases'
    <2> SUFFICES ASSUME NEW j \in Ips, sender_map'[j] # None
                 PROVE  /\ active_ip_map'[j] = None => BeingReleased(j)'
                        /\ active_ip_map'[j] # None =>
                             /\ session'[sender_map'[j]].device = active_ip_map'[j]
                             /\ traffic_stats_map'[j] = active_ip_map'[j]
                             /\ \A t \in links'[sender_map'[j]] :
                                    session'[t].device = active_ip_map'[j]
      BY Zenon DEF PoolsMatchLeases
    <2>1. \A q \in Sessions : links[q] \subseteq Sessions
      BY <1>0, Zenon DEF TypeOK
    <2>2. CASE j = new
      <3>1. /\ sender_map'[j] = p /\ active_ip_map'[j] = d /\ traffic_stats_map'[j] = d
            /\ links' = links
        BY <2>2, <1>1, <1>3, <1>8, Zenon
      <3> QED
        BY <3>1, <2>1, <1>1, <1>2, <1>8, <1>12, Zenon
    <2>3. CASE j # new
      <3>1. /\ sender_map'[j] = sender_map[j] /\ active_ip_map'[j] = active_ip_map[j]
            /\ traffic_stats_map'[j] = traffic_stats_map[j] /\ links' = links
            /\ sender_map[j] \in Sessions
        BY <2>3, <1>0, <1>3, Zenon DEF TypeOK
      <3> QED
        BY <3>1, <2>1, <1>0, <1>12, Zenon DEF PoolsMatchLeases
    <2> QED
      BY <2>2, <2>3, Zenon
  <1> QED
    BY <1>0, <1>3, <1>9, <1>11, <1>13, <1>14, <1>15, <1>16, <1>17, Zenon DEF LeasesHold

-----------------------------------------------------------------------------
(* The administrator's steps.                                               *)

\* Nothing about pools or sessions changes.
LEMMA PoolsUntouched ==
  ASSUME LeasesHold, UNCHANGED <<active_ip_map, poolVars, session>>
  PROVE  SessionsNamed' /\ LinksRegistered' /\ PublishedOnce' /\ SingleLease' /\ PoolsMatchLeases'
  <1>1. UNCHANGED <<active_ip_map, sender_map, links, traffic_stats_map, session>>
    BY Zenon DEF poolVars
  <1>2. SessionsNamed' /\ LinksRegistered' /\ PublishedOnce' /\ SingleLease'
    BY <1>1, Zenon DEF LeasesHold, SessionsNamed, LinksRegistered, PublishedOnce, SingleLease
  <1>3. \A ip \in Ips : BeingReleased(ip) => BeingReleased(ip)'
    BY <1>1, Zenon DEF BeingReleased
  <1>4. PoolsMatchLeases'
    BY <1>1, <1>3, Zenon DEF LeasesHold, PoolsMatchLeases
  <1> QED
    BY <1>2, <1>4, Zenon

\* upsert_device writes an address that validate_ip_available accepted.
LEMMA UpsertInvariant ==
  ASSUME LeasesHold, NEW d \in Devices, NEW ip \in Ips, NEW it \in IpTypes,
         NEW ct \in ClientTypes, NEW routes \in BOOLEAN, UpsertDevice(d, ip, it, ct, routes)
  PROVE  LeasesHold'
  <1> USE NetworkAssumption
  <1>0. TypeOK /\ AddressExclusive /\ d # None
    BY Zenon DEF LeasesHold
  <1>1. /\ ip \in Usable /\ Configure(d, ip)
        /\ device_ip_map[ip] \in {None, d} /\ active_ip_map[ip] \in {None, d}
        /\ admin' = [device |-> d, previous |-> device_map[d]]
        /\ data_version' \in {data_version, data_version + 1}
        /\ full_sync_version' \in {full_sync_version, data_version + 1}
        /\ UNCHANGED <<active_ip_map, poolVars, session>>
    BY Zenon DEF UpsertDevice, conflicting_ip_owner
  <1>2. device_map[d] \in DeviceEntry
    BY <1>0, Zenon DEF TypeOK
  <1> DEFINE prev == device_map[d]
             publish_now == \/ ~prev.is_connected
                            \/ prev.is_connected /\ ct = "Wireguard" /\ routes
             g == [prev EXCEPT !.ip = ip, !.client_type = ct, !.present = TRUE,
                          !.ip_type = IF ct = "Wireguard" THEN "Static" ELSE it,
                          !.data_version = IF publish_now THEN data_version + 1 ELSE @]
  <1>4. g \in DeviceEntry /\ g.ip = ip
    <2>1. prev.data_version \in Nat /\ data_version + 1 \in Nat
      BY <1>0, <1>2 DEF TypeOK, DeviceEntry
    <2>2. /\ (IF ct = "Wireguard" THEN "Static" ELSE it) \in {"Dynamic", "Static", "Fixed"}
          /\ (IF publish_now THEN data_version + 1 ELSE prev.data_version) \in Nat
          /\ ct \in {"Vnt", "Ikev2", "Wireguard"} /\ TRUE \in BOOLEAN /\ ip \in Ips \cup {None}
      BY <2>1, Zenon
    <2> HIDE DEF publish_now
    <2> QED
      BY <1>2, <2>2, Zenon DEF DeviceEntry
  <1>5. device_map' = [device_map EXCEPT ![d] = g]
    BY Zenon DEF UpsertDevice
  <1> HIDE DEF g
  <1>6. managed' \in Edit
    <2>1. managed \in Edit /\ [managed EXCEPT !.updated = TRUE] \in Edit
      BY <1>0, Zenon DEF TypeOK, Edit
    <2> QED
      BY <2>1, Zenon DEF UpsertDevice
  <1>7. TypeOK'
    BY <1>0, <1>1, <1>2, <1>4, <1>5, <1>6 DEF TypeOK, Configure, poolVars, Edit
  <1>8. AddressExclusive'
    <2>1. \A x \in Devices : device_map'[x].ip = IF x = d THEN ip ELSE device_map[x].ip
      BY <1>0, <1>4, <1>5, Zenon DEF TypeOK
    <2>2. \A j \in Ips : active_ip_map'[j] \in {None, active_ip_map[j]}
      BY <1>1, Zenon
    <2> QED
      BY <1>0, <1>1, <1>7, <2>1, <2>2, Reassign, ZenonT(30) DEF Configure
  <1>9. EditRevertible'
    <2> DEFINE o == device_map[d].ip
    <2> SUFFICES ASSUME o # None
                 PROVE  /\ o \in Usable /\ device_ip_map'[o] \in {None, d}
                        /\ active_ip_map[o] \in {None, d}
      BY <1>1, Zenon DEF EditRevertible
    <2>1. o \in Usable /\ device_ip_map[o] = d
      BY <1>0, Zenon DEF AddressExclusive
    <2>2. active_ip_map[o] \in {None, d}
      BY <1>0, <2>1, Zenon DEF AddressExclusive
    <2> QED
      BY <1>1, <2>1, <2>2, Zenon DEF Configure
  <1> QED
    BY <1>0, <1>1, <1>6, <1>7, <1>8, <1>9, PoolsUntouched, Zenon DEF LeasesHold

\* The end of an edit: the lock is released, or the former entry is put back
\* at an address that nobody could take meanwhile.
LEMMA UpsertEndInvariant ==
  ASSUME LeasesHold, UpsertSaved \/ UpsertSaveFails
  PROVE  LeasesHold'
  <1> USE NetworkAssumption
  <1>0. /\ TypeOK /\ AddressExclusive /\ EditRevertible
        /\ admin.device \in Devices
    BY Zenon DEF LeasesHold, EditRevertible, UpsertSaved, UpsertSaveFails, LockFree
  <1>1. NoAdmin \in [device : Devices \cup {None}, previous : DeviceEntry]
        /\ NoAdmin.previous.ip = None
    BY Zenon DEF NoAdmin, NoEntry, DeviceEntry
  <1>2. admin' = NoAdmin /\ managed' \in Edit /\ UNCHANGED <<active_ip_map, poolVars, session>>
    <2>1. managed \in Edit /\ NoManaged \in Edit
      BY <1>0, Zenon DEF TypeOK, Edit, NoManaged
    <2> QED
      BY <2>1, Zenon DEF UpsertSaved, UpsertSaveFails, leaseVars
  <1>3. EditRevertible'
    BY <1>1, <1>2, Zenon DEF EditRevertible
  <1>4. CASE UpsertSaved
    <2>1. UNCHANGED <<device_map, device_ip_map, active_ip_map, data_version, full_sync_version,
                      sender_map, links, traffic_stats_map, session>>
      BY <1>4, Zenon DEF UpsertSaved, leaseVars, versionVars, poolVars
    <2>2. AddressExclusive'
      BY <1>0, <2>1, Zenon DEF AddressExclusive
    <2>3. TypeOK'
      BY <1>0, <1>1, <1>2, <2>1, Zenon DEF TypeOK, Edit
    <2> QED
      BY <1>2, <1>3, <2>2, <2>3, PoolsUntouched, Zenon DEF LeasesHold
  <1>5. CASE UpsertSaveFails
    <2> DEFINE d == admin.device
               e == admin.previous
    <2>1. /\ device_map' = [device_map EXCEPT ![d] = e]
          /\ device_ip_map' = [j \in Ips |-> IF j = e.ip THEN d
                                             ELSE IF j = device_map[d].ip THEN None
                                             ELSE device_ip_map[j]]
          /\ data_version' = data_version + 1 /\ full_sync_version' = data_version + 1
      BY <1>5, Zenon DEF UpsertSaveFails, restore_device_config
    <2>2. e \in DeviceEntry /\ d \in Devices /\ e.ip \in Usable \cup {None}
      BY <1>0, Zenon DEF TypeOK, EditRevertible
    <2>3. e.ip # None => device_ip_map[e.ip] \in {None, d} /\ active_ip_map[e.ip] \in {None, d}
      BY <1>0, Zenon DEF EditRevertible
    <2> HIDE DEF d, e
    <2>4. TypeOK'
      <3>1. device_map' \in [Devices -> DeviceEntry] /\ data_version' \in Nat
            /\ full_sync_version' \in Nat
        BY <1>0, <2>1, <2>2 DEF TypeOK
      <3>2. device_ip_map' \in [Ips -> Devices \cup {None}]
        BY <1>0, <2>1, <2>2, Zenon DEF TypeOK
      <3>3. UNCHANGED <<active_ip_map, sender_map, links, traffic_stats_map, session>>
        BY <1>0, <1>2, Zenon DEF poolVars
      <3> QED
        BY <1>0, <1>1, <1>2, <3>1, <3>2, <3>3, ZenonT(30) DEF TypeOK, Edit
    <2>5. AddressExclusive'
      <3>1. \A x \in Devices : device_map'[x].ip = IF x = d THEN e.ip ELSE device_map[x].ip
        BY <1>0, <2>1, <2>2, Zenon DEF TypeOK
      <3>2. \A j \in Ips : active_ip_map'[j] \in {None, active_ip_map[j]}
        BY <1>2, Zenon
      <3> QED
        BY <1>0, <2>1, <2>2, <2>3, <2>4, <3>1, <3>2, Reassign, Zenon
    <2> QED
      BY <1>2, <1>3, <2>4, <2>5, PoolsUntouched, Zenon DEF LeasesHold
  <1> QED
    BY <1>4, <1>5, Zenon

\* An offline device is deleted together with every address it still held.
LEMMA DeleteInvariant ==
  ASSUME LeasesHold, NEW d \in Devices, DeleteDevice(d)
  PROVE  LeasesHold'
  <1> USE NetworkAssumption
  <1>0. TypeOK /\ AddressExclusive /\ SessionsNamed
    BY Zenon DEF LeasesHold
  <1>1. NoEntry \in DeviceEntry /\ NoEntry.ip = None
    BY Zenon DEF NoEntry, DeviceEntry
  <1>2. /\ device_map' = [device_map EXCEPT ![d] = NoEntry]
        /\ device_ip_map' = [j \in Ips |-> IF j = device_map[d].ip THEN None
                                           ELSE device_ip_map[j]]
        /\ active_ip_map' = [j \in Ips |-> IF active_ip_map[j] = d THEN None
                                           ELSE active_ip_map[j]]
        /\ sender_map' = [j \in Ips |-> IF active_ip_map[j] = d THEN None ELSE sender_map[j]]
        /\ traffic_stats_map' = [j \in Ips |-> IF active_ip_map[j] = d THEN None
                                               ELSE traffic_stats_map[j]]
        /\ data_version' = data_version + 1 /\ full_sync_version' = data_version + 1
        /\ UNCHANGED <<links, session, admin, managed>>
    BY Zenon DEF DeleteDevice
  <1>3. TypeOK'
    BY <1>0, <1>1, <1>2 DEF TypeOK
  <1>4. SessionsNamed'
    BY <1>0, <1>2, Zenon DEF SessionsNamed
  <1>5. LinksRegistered' /\ PublishedOnce' /\ PoolsMatchLeases'
    <2>1. \A j \in Ips : BeingReleased(j) => BeingReleased(j)'
      BY <1>2, Zenon DEF BeingReleased
    <2>2. \A j \in Ips : sender_map'[j] # None =>
             /\ sender_map'[j] = sender_map[j]
             /\ traffic_stats_map'[j] = traffic_stats_map[j]
             /\ active_ip_map'[j] = active_ip_map[j]
      BY <1>2, Zenon
    <2> QED
      BY <1>2, <1>3, <2>1, <2>2, PoolsShrink, Zenon
  <1>6. AddressExclusive' /\ SingleLease' /\ EditRevertible'
    <2>1. \A x \in Devices : device_map'[x].ip = IF x = d THEN None ELSE device_map[x].ip
      BY <1>0, <1>1, <1>2, Zenon DEF TypeOK
    <2>2. \A j \in Ips : /\ device_ip_map'[j] \in {None, device_ip_map[j]}
                         /\ active_ip_map'[j] \in {None, active_ip_map[j]}
      BY <1>2, Zenon
    <2>3. ASSUME NEW x \in Devices, device_map'[x].ip # None
          PROVE  device_ip_map'[device_map'[x].ip] # None
      <3>1. x # d /\ device_map'[x].ip = device_map[x].ip
        BY <2>1, <2>3, Zenon
      <3>2. device_map[x].ip \in Ips /\ device_ip_map[device_map[x].ip] = x
        BY <1>0, <2>3, <3>1, Zenon DEF AddressExclusive
      <3>3. device_map[x].ip # device_map[d].ip
        BY <1>0, <2>3, <3>1, <3>2, Zenon DEF AddressExclusive
      <3> QED
        BY <1>2, <3>1, <3>2, <3>3, Zenon
    <2>4. ASSUME NEW j \in Ips, device_ip_map'[j] # None
          PROVE  device_map'[device_ip_map[j]].ip # None
      <3>1. device_ip_map[j] \in Devices /\ device_map[device_ip_map[j]].ip = j
            /\ j # device_map[d].ip
        BY <1>0, <1>2, <2>4 DEF AddressExclusive, TypeOK
      <3> QED
        BY <2>1, <3>1, Zenon
    <2> QED
      BY <1>2, <1>3, <2>1, <2>2, <2>3, <2>4, LeasesShrink, Zenon
  <1> QED
    BY <1>0, <1>2, <1>3, <1>4, <1>5, <1>6, Zenon DEF LeasesHold

\* Lapsed leases of offline devices are released together.
LEMMA ExpireInvariant ==
  ASSUME LeasesHold, NEW S \in SUBSET Devices, ReleaseExpired(S)
  PROVE  LeasesHold'
  <1> USE NetworkAssumption
  <1> DEFINE freed == {device_map[d].ip : d \in S} \ {None}
             f(d) == [device_map[d] EXCEPT !.ip = None, !.data_version = data_version + 1]
  <1>0. TypeOK /\ AddressExclusive
    BY Zenon DEF LeasesHold
  <1>1. ASSUME NEW d \in Devices PROVE f(d) \in DeviceEntry /\ f(d).ip = None
    <2>1. device_map[d] \in DeviceEntry /\ data_version + 1 \in Nat
      BY <1>0 DEF TypeOK
    <2> QED
      BY <2>1, Zenon DEF DeviceEntry
  <1>2. /\ device_map' = [d \in Devices |-> IF d \in S THEN f(d) ELSE device_map[d]]
        /\ device_ip_map' = [j \in Ips |-> IF j \in freed THEN None ELSE device_ip_map[j]]
        /\ data_version' = data_version + 1
        /\ full_sync_version' \in {data_version + 1, full_sync_version}
        /\ UNCHANGED <<active_ip_map, poolVars, session, admin, managed>>
    BY Zenon DEF ReleaseExpired
  <1> HIDE DEF f
  <1>3. TypeOK'
    <2>1. device_map' \in [Devices -> DeviceEntry] /\ data_version' \in Nat
          /\ full_sync_version' \in Nat
      BY <1>0, <1>1, <1>2 DEF TypeOK
    <2> HIDE DEF freed
    <2>2. device_ip_map' \in [Ips -> Devices \cup {None}]
      BY <1>0, <1>2, Zenon DEF TypeOK
    <2> QED
      BY <1>0, <1>2, <2>1, Zenon DEF TypeOK, poolVars
  <1>4. AddressExclusive' /\ SingleLease' /\ EditRevertible'
    <2>1. \A x \in Devices : device_map'[x].ip = IF x \in S THEN None ELSE device_map[x].ip
      BY <1>1, <1>2, Zenon
    <2>2. \A j \in Ips : /\ device_ip_map'[j] \in {None, device_ip_map[j]}
                         /\ active_ip_map'[j] \in {None, active_ip_map[j]}
      BY <1>2, Zenon
    <2>3. ASSUME NEW x \in Devices, device_map'[x].ip # None
          PROVE  device_ip_map'[device_map'[x].ip] # None
      <3>1. x \notin S /\ device_map'[x].ip = device_map[x].ip
        BY <2>1, <2>3, Zenon
      <3>2. device_map[x].ip \in Ips /\ device_ip_map[device_map[x].ip] = x
        BY <1>0, <2>3, <3>1, Zenon DEF AddressExclusive
      <3>3. device_map[x].ip \notin freed
        BY <1>0, <3>1, <3>2 DEF AddressExclusive
      <3> QED
        BY <1>2, <3>1, <3>2, <3>3, Zenon
    <2>4. ASSUME NEW j \in Ips, device_ip_map'[j] # None
          PROVE  device_map'[device_ip_map[j]].ip # None
      <3> HIDE DEF freed
      <3>0. j \notin freed /\ device_ip_map[j] # None
        BY <1>2, <2>4, Zenon
      <3> USE DEF freed
      <3>1. device_ip_map[j] \in Devices /\ device_map[device_ip_map[j]].ip = j /\ j \notin freed
        <4> HIDE DEF freed
        <4>1. device_ip_map[j] \in Devices
          BY <1>0, <3>0, Zenon DEF TypeOK
        <4> QED
          BY <1>0, <3>0, <4>1, Zenon DEF AddressExclusive
      <3> QED
        BY <2>1, <3>1, Zenon
    <2> QED
      BY <1>2, <1>3, <2>1, <2>2, <2>3, <2>4, LeasesShrink, Zenon
  <1> QED
    BY <1>0, <1>2, <1>3, <1>4, PoolsUntouched, Zenon DEF LeasesHold

\* New runtime metadata only moves the version of an entry.
LEMMA MetadataInvariant ==
  ASSUME LeasesHold, NEW d \in Devices, UpdateRuntimeMetadata(d)
  PROVE  LeasesHold'
  <1> DEFINE f == [device_map[d] EXCEPT !.data_version = data_version + 1]
  <1>0. TypeOK /\ AddressExclusive /\ EditRevertible
    BY Zenon DEF LeasesHold
  <1>1. f \in DeviceEntry /\ f.ip = device_map[d].ip
    <2>1. device_map[d] \in DeviceEntry /\ data_version + 1 \in Nat
      BY <1>0 DEF TypeOK
    <2> QED
      BY <2>1, Zenon DEF DeviceEntry
  <1>2. /\ device_map' = [device_map EXCEPT ![d] = f] /\ data_version' = data_version + 1
        /\ UNCHANGED <<device_ip_map, active_ip_map, full_sync_version, poolVars,
                       session, admin, managed>>
    BY <1>0, Zenon DEF UpdateRuntimeMetadata, TypeOK
  <1> HIDE DEF f
  <1>3. TypeOK'
    BY <1>0, <1>1, <1>2 DEF TypeOK, poolVars
  <1>4. \A x \in Devices : device_map'[x].ip = device_map[x].ip
    BY <1>0, <1>1, <1>2, Zenon DEF TypeOK
  <1>5. AddressExclusive' /\ EditRevertible'
    BY <1>0, <1>2, <1>4 DEF AddressExclusive, EditRevertible, TypeOK
  <1> QED
    BY <1>0, <1>2, <1>3, <1>5, PoolsUntouched, Zenon DEF LeasesHold

\* A managed edit that begins or ends well touches no lease.
LEMMA ManagedInvariant ==
  ASSUME LeasesHold, ManagedCommit \/ \E d \in Devices : ManagedSnapshot(d)
  PROVE  LeasesHold'
  <1>0. TypeOK /\ AddressExclusive /\ EditRevertible
    BY Zenon DEF LeasesHold
  <1>1. UNCHANGED <<device_map, device_ip_map, active_ip_map, data_version, full_sync_version,
                    sender_map, links, traffic_stats_map, session, admin>>
    BY Zenon DEF ManagedCommit, ManagedSnapshot, leaseVars, versionVars, poolVars
  <1>2. managed' \in Edit
    <2>1. NoManaged \in Edit
      BY Zenon DEF NoManaged, Edit
    <2>2. ASSUME NEW d \in Devices, ManagedSnapshot(d) PROVE managed' \in Edit
      <3>1. device_map[d] \in DeviceEntry
        BY <1>0, Zenon DEF TypeOK
      <3>2. managed' = [device |-> d, ip |-> device_map[d].ip,
                        ip_type |-> device_map[d].ip_type, updated |-> FALSE]
        BY <2>2, Zenon DEF ManagedSnapshot
      <3> QED
        BY <3>1, <3>2, Zenon DEF DeviceEntry, Edit
    <2> QED
      BY <2>1, <2>2, Zenon DEF ManagedCommit
  <1>3. TypeOK' /\ AddressExclusive' /\ EditRevertible'
    BY <1>0, <1>1, <1>2, Zenon DEF TypeOK, AddressExclusive, EditRevertible, Edit
  <1> QED
    BY <1>1, <1>3, PoolsUntouched, Zenon DEF LeasesHold, poolVars

-----------------------------------------------------------------------------
(* The invariant is inductive, and what follows from it.                    *)

\* The administrator's steps but for the rollback of a managed edit, which restores an
\* entry unvalidated, and with them every step that leaves the leases in order.
LastingAdminStep ==
    \/ \E d \in Devices, ip \in Ips, it \in IpTypes, ct \in ClientTypes,
          routes \in BOOLEAN : UpsertDevice(d, ip, it, ct, routes)
    \/ UpsertSaved
    \/ UpsertSaveFails
    \/ \E d \in Devices : DeleteDevice(d)
    \/ \E S \in SUBSET Devices : ReleaseExpired(S)
    \/ \E d \in Devices : UpdateRuntimeMetadata(d)
    \/ \E ip \in Ips : DisconnectSubscription(ip)
    \/ \E d \in Devices : ManagedSnapshot(d)
    \/ ManagedCommit

LastingStep ==
    \/ RegisterStep
    \/ \E s \in Sessions : SessionStep(s)
    \/ LastingAdminStep
    \/ UNCHANGED vars

\* They preserve what the leases rest on.
LEMMA StepKeepsLeases ==
  ASSUME LeasesHold, LastingStep
  PROVE  LeasesHold'
  <1>1. CASE RegisterStep
    BY <1>1, RegisterInvariant, Zenon
  <1>2. ASSUME NEW s \in Sessions, SessionStep(s)
        PROVE  LeasesHold'
    BY <1>2, ConfirmInvariant, FastAgainInvariant, FastMoveInvariant, FollowInvariant, LookupInvariant,
       RemoveLinkInvariant, FinalizeInvariant, ReleaseInvariant, ReleaseTailInvariant, Zenon
    DEF SessionStep
  <1>3. CASE LastingAdminStep
    BY <1>3, UpsertInvariant, UpsertEndInvariant, DeleteInvariant, ExpireInvariant,
       MetadataInvariant, DisconnectInvariant, ManagedInvariant, Zenon
    DEF LastingAdminStep
  <1>4. CASE UNCHANGED vars
    <2>1. UNCHANGED <<device_map, device_ip_map, active_ip_map, data_version,
                      full_sync_version, sender_map, links, traffic_stats_map,
                      session, admin, managed>>
      BY <1>4, Zenon DEF vars
    <2>2. TypeOK' /\ AddressExclusive' /\ EditRevertible'
      BY <2>1, Zenon DEF LeasesHold, TypeOK, AddressExclusive, EditRevertible
    <2> QED
      BY <2>1, <2>2, PoolsUntouched, Zenon DEF LeasesHold, poolVars
  <1> QED
    BY <1>1, <1>2, <1>3, <1>4, Zenon DEF LastingStep

\* Every step of a network without rolled-back managed edits preserves the invariant.
LEMMA NextInvariant ==
  ASSUME NoRollback, LeaseInvariant, [Next]_vars
  PROVE  LeaseInvariant'
  <1>1. LeasesHold /\ managed = NoManaged
    BY LeaseParts, Zenon
  <1>2. ~ ManagedRollback
    BY <1>1, Zenon DEF ManagedRollback, NoManaged
  <1>3. managed' = NoManaged
    <2>1. CASE RegisterStep
      <3>1. PICK s \in Sessions, d \in Devices, ct \in ClientTypes, i \in Instances \cup {None},
                 r \in Ips \cup {None}, var \in BOOLEAN, mode \in RegModes :
              Register(s, d, ct, i, r, var, mode)
        BY <2>1, Zenon DEF RegisterStep
      <3>2. ASSUME NEW ip, Publish(s, d, ct, i, ip, mode) PROVE managed' = managed
        BY <3>2, Zenon DEF Publish
      <3>3. JoinPool(s, d, ct, i, r, mode) => managed' = managed
        BY Zenon DEF JoinPool
      <3>4. ReclaimFails(s, d, ct, i, r, mode) => managed' = managed
        BY Zenon DEF ReclaimFails
      <3> QED
        BY <1>1, <3>1, <3>2, <3>3, <3>4, Zenon DEF Register, Reclaim, TakeExpected, TakeAvailable
    <2>2. ASSUME NEW s \in Sessions, SessionStep(s) PROVE managed' = NoManaged
      BY <1>1, <2>2, Zenon DEF SessionStep, ConfirmRegistration, FastRegisterAgain, FastRegisterMove,
        FollowPool, OfflineLookup, RemoveLink, FinalizeOffline, ReleasePreRegistered, ReleaseTail
    <2>3. CASE AdminStep
      <3>1. \A d \in Devices : ~ ManagedSnapshot(d) /\ managed.device # d
        BY <1>1, NetworkAssumption, Zenon DEF NoRollback, ManagedSnapshot, NoManaged
      <3>2. \A d \in Devices : \A ip, it, ct, routes : UpsertDevice(d, ip, it, ct, routes) => managed' = managed
        BY <3>1 DEF UpsertDevice
      <3>3. UpsertSaved \/ UpsertSaveFails \/ ManagedCommit => managed' \in {managed, NoManaged}
        BY Zenon DEF UpsertSaved, UpsertSaveFails, ManagedCommit
      <3>4. /\ \A d : DeleteDevice(d) \/ UpdateRuntimeMetadata(d) => managed' = managed
            /\ \A S : ReleaseExpired(S) => managed' = managed
            /\ \A ip : DisconnectSubscription(ip) => managed' = managed
        BY Zenon DEF DeleteDevice, UpdateRuntimeMetadata, ReleaseExpired, DisconnectSubscription
      <3> QED
        BY <1>1, <1>2, <2>3, <3>1, <3>2, <3>3, <3>4, Zenon DEF AdminStep
    <2>4. CASE UNCHANGED vars
      BY <1>1, <2>4, Zenon DEF vars
    <2> QED
      BY <2>1, <2>2, <2>3, <2>4, Zenon DEF Next
  <1>4. LastingStep
    BY <1>2, Zenon DEF Next, AdminStep, LastingStep, LastingAdminStep
  <1>5. LeasesHold'
    BY <1>1, <1>4, StepKeepsLeases, Zenon
  <1> QED
    BY <1>3, <1>5, Zenon DEF LeaseInvariant, LeasesHold

\* Without rolled-back managed edits every reachable state of a network is
\* well typed and satisfies the lease invariant, whatever registrations, links,
\* drops, moves, edits, failed writes, deletions and releases interleave.
THEOREM LeasesInductive ==
  ASSUME NoRollback
  PROVE  Spec => []LeaseInvariant
  <1>1. Init => LeaseInvariant
    BY InitInvariant, Zenon
  <1>2. LeaseInvariant /\ [Next]_vars => LeaseInvariant'
    BY NextInvariant, Zenon
  <1> QED
    BY <1>1, <1>2, PTL DEF Spec

\* conflicting_ip_owner and the mutation lock keep every address with one owner.
THEOREM AddressExclusiveAlways ==
  ASSUME NoRollback
  PROVE  Spec => []AddressExclusive
  <1>1. LeaseInvariant => AddressExclusive
    BY Zenon DEF LeaseInvariant
  <1> QED
    BY <1>1, LeasesInductive, PTL

\* A device is never live on two addresses at once.
THEOREM SingleLeaseAlways ==
  ASSUME NoRollback
  PROVE  Spec => []SingleLease
  <1>1. LeaseInvariant => SingleLease
    BY Zenon DEF LeaseInvariant
  <1> QED
    BY <1>1, LeasesInductive, PTL

\* An address outside Releasing is not being released.
LEMMA ReleasingMeans ==
  ASSUME NEW ip \in Ips, ip \notin Releasing
  PROVE  ~BeingReleased(ip)
  BY Zenon DEF Releasing, BeingReleased

\* Packets for an address reach links of the device that holds its lease.
THEOREM DeliveryMatchesLeaseAlways ==
  ASSUME NoRollback
  PROVE  Spec => []DeliveryMatchesLease
  <1>1. LeaseInvariant => DeliveryMatchesLease
    BY ReleasingMeans, Zenon DEF LeaseInvariant, PoolsMatchLeases, DeliveryMatchesLease
  <1> QED
    BY <1>1, LeasesInductive, PTL

\* Bytes sent to a published address are credited to the holder of its lease.
THEOREM TrafficCreditedAlways ==
  ASSUME NoRollback
  PROVE  Spec => []TrafficCredited
  <1>1. LeaseInvariant => TrafficCredited
    BY ReleasingMeans, Zenon DEF LeaseInvariant, PoolsMatchLeases, TrafficCredited
  <1> QED
    BY <1>1, LeasesInductive, PTL

-----------------------------------------------------------------------------
(* NetworkState implements LeaseBook.                                       *)

\* Every operation is one of five changes of the book, or none; LeaseInvariant supplies
\* what the mapping needs: an address is configured for the device that is recorded with
\* it and a device is live on one address.

\* The book's variables, as NetworkState keeps them.
Assigned == [d \in Devices |-> device_map[d].ip]
LiveAt == [d \in Devices |-> LiveAddress(active_ip_map, d)]

\* A map of live addresses on which no device is twice.
ActiveMaps ==
    {a \in [Ips -> Devices \cup {None}] : \A i, j \in Ips : a[i] # None /\ a[i] = a[j] => i = j}

\* What LiveAddress says.
LEMMA LiveAddressFacts ==
  ASSUME NEW a \in ActiveMaps, NEW d \in Devices
  PROVE  /\ \A ip \in Ips : a[ip] = d <=> LiveAddress(a, d) = ip
         /\ (\A ip \in Ips : a[ip] # d) => LiveAddress(a, d) = None
  <1>1. CASE \E ip \in Ips : a[ip] = d
    <2> DEFINE x == CHOOSE ip \in Ips : a[ip] = d
    <2>1. x \in Ips /\ a[x] = d
      BY <1>1, Zenon
    <2>2. LiveAddress(a, d) = x
      BY <1>1, Zenon DEF LiveAddress
    <2> HIDE DEF x
    <2>3. d # None
      BY NetworkAssumption, Zenon
    <2> QED
      BY <2>1, <2>2, <2>3, Zenon DEF ActiveMaps
  <1>2. CASE ~ \E ip \in Ips : a[ip] = d
    <2>1. LiveAddress(a, d) = None
      BY <1>2, Zenon DEF LiveAddress
    <2> QED
      BY <1>2, <2>1, NetworkAssumption, Zenon
  <1> QED
    BY <1>1, <1>2, Zenon

\* Two maps that agree about a device give it the same live address.
LEMMA SameLiveAddress ==
  ASSUME NEW a \in ActiveMaps, NEW b \in ActiveMaps, NEW d \in Devices,
         \A ip \in Ips : a[ip] = d <=> b[ip] = d
  PROVE  LiveAddress(a, d) = LiveAddress(b, d)
  <1>1. CASE \E ip \in Ips : a[ip] = d
    BY <1>1, LiveAddressFacts
  <1>2. CASE \A ip \in Ips : a[ip] # d
    BY <1>2, LiveAddressFacts
  <1> QED
    BY <1>1, <1>2, Zenon

\* The invariant gives both maps of a step their shape.
LEMMA ActiveShape ==
  /\ LeaseInvariant => active_ip_map \in ActiveMaps
  /\ LeaseInvariant' => active_ip_map' \in ActiveMaps
  BY Zenon DEF LeaseInvariant, TypeOK, SingleLease, ActiveMaps

\* conflicting_ip_owner is what the book asks of an address.
LEMMA AvailableFacts ==
  ASSUME LeaseInvariant, NEW d \in Devices, NEW ip \in Ips,
         device_ip_map[ip] \in {None, d}, active_ip_map[ip] \in {None, d}
  PROVE  Book!Available(ip, d)
  <1> SUFFICES ASSUME NEW e \in Devices \ {d}
               PROVE  Assigned[e] # ip /\ LiveAt[e] # ip
    BY Zenon DEF Book!Available, Assigned, LiveAt
  <1>1. e # None /\ ip # None
    BY NetworkAssumption, Zenon
  <1>2. device_map[e].ip # ip
    BY <1>1, Zenon DEF LeaseInvariant, AddressExclusive
  <1>3. LiveAddress(active_ip_map, e) # ip
    BY <1>1, ActiveShape, LiveAddressFacts, Zenon
  <1> QED
    BY <1>2, <1>3, Zenon DEF Assigned, LiveAt

-----------------------------------------------------------------------------
(* The changes of the book.                                                 *)

\* The recorded address of d becomes `ip`.
AddressOf(d, ip) ==
    \A x \in Devices : device_map'[x].ip = IF x = d THEN ip ELSE device_map[x].ip

\* In terms of the book.
LEMMA AssignedChange ==
  ASSUME NEW d \in Devices, NEW ip, AddressOf(d, ip)
  PROVE  Assigned' = [Assigned EXCEPT ![d] = ip]
  BY Zenon DEF Assigned, AddressOf

\* A device is registered on an address or moves to it.
LEMMA TakeStep ==
  ASSUME LeaseInvariant, LeaseInvariant', NEW d \in Devices, NEW ip \in Usable,
         device_ip_map[ip] \in {None, d}, active_ip_map[ip] \in {None, d},
         AddressOf(d, ip), active_ip_map'[ip] = d,
         \A j \in Ips : j # ip /\ active_ip_map'[j] # active_ip_map[j]
                            => active_ip_map[j] = d /\ active_ip_map'[j] = None
  PROVE  Book!Take(d, ip)
  <1> USE NetworkAssumption
  <1>1. active_ip_map \in ActiveMaps /\ active_ip_map' \in ActiveMaps
    BY ActiveShape, Zenon
  <1>2. LiveAddress(active_ip_map', d) = ip
    BY <1>1, LiveAddressFacts, Zenon
  <1>3. ASSUME NEW e \in Devices, e # d
        PROVE  LiveAddress(active_ip_map', e) = LiveAddress(active_ip_map, e)
    <2>1. \A j \in Ips : active_ip_map'[j] = e <=> active_ip_map[j] = e
      BY <1>3, Zenon
    <2> QED
      BY <1>1, <2>1, SameLiveAddress
  <1>4. LiveAt' = [LiveAt EXCEPT ![d] = ip]
    BY <1>2, <1>3, Zenon DEF LiveAt
  <1>5. Book!Available(ip, d)
    BY AvailableFacts, Zenon
  <1> QED
    BY <1>4, <1>5, AssignedChange, Zenon DEF Book!Take, Assigned, LiveAt

\* A device is given an address in its configuration.
LEMMA AssignStep ==
  ASSUME LeaseInvariant, NEW d \in Devices, NEW ip \in Usable,
         device_ip_map[ip] \in {None, d}, active_ip_map[ip] \in {None, d},
         AddressOf(d, ip), UNCHANGED active_ip_map
  PROVE  Book!Assign(d, ip)
  <1>1. Book!Available(ip, d)
    BY AvailableFacts, NetworkAssumption, Zenon
  <1>2. LiveAt' = LiveAt
    BY Zenon DEF LiveAt
  <1> QED
    BY <1>1, <1>2, AssignedChange, Zenon DEF Book!Assign, Assigned, LiveAt

\* Devices lose the addresses of their configuration.
LEMMA ForgetStep ==
  ASSUME NEW S \in SUBSET Devices,
         \A x \in Devices : device_map'[x].ip = IF x \in S THEN None ELSE device_map[x].ip,
         UNCHANGED active_ip_map
  PROVE  Book!Forget(S)
  <1>1. LiveAt' = LiveAt
    BY Zenon DEF LiveAt
  <1>2. Assigned' = [d \in Devices |-> IF d \in S THEN None ELSE Assigned[d]]
    BY Zenon DEF Assigned
  <1> QED
    BY <1>1, <1>2, Zenon DEF Book!Forget, Assigned, LiveAt

\* The entries of one device, or of none, are taken out of active_ip_map: it is not
\* live any more, or nothing has changed.
LEMMA LiveAtShrinks ==
  ASSUME LeaseInvariant, LeaseInvariant', NEW d \in Devices,
         \A j \in Ips : active_ip_map'[j] # active_ip_map[j]
                          => active_ip_map[j] = d /\ active_ip_map'[j] = None
  PROVE  LiveAt' = LiveAt \/ LiveAt' = [LiveAt EXCEPT ![d] = None]
  <1> USE NetworkAssumption
  <1>1. active_ip_map \in ActiveMaps /\ active_ip_map' \in ActiveMaps
    BY ActiveShape, Zenon
  <1>2. ASSUME NEW e \in Devices, e # d
        PROVE  LiveAddress(active_ip_map', e) = LiveAddress(active_ip_map, e)
    <2>1. \A j \in Ips : active_ip_map'[j] = e <=> active_ip_map[j] = e
      BY <1>2
    <2> QED
      BY <1>1, <2>1, SameLiveAddress, ZenonT(30)
  <1>3. \/ LiveAddress(active_ip_map', d) = None
        \/ LiveAddress(active_ip_map', d) = LiveAddress(active_ip_map, d)
    BY <1>1, LiveAddressFacts
  <1> QED
    BY <1>2, <1>3, Zenon DEF LiveAt

-----------------------------------------------------------------------------
(* The operations.                                                          *)

\* A registration takes its address, or changes nothing in the book.
LEMMA RegisterBook ==
  ASSUME LeaseInvariant, LeaseInvariant', RegisterStep
  PROVE  [Book!BookNext]_(Book!bookVars)
  <1> USE NetworkAssumption
  <1>0. PICK s \in Sessions, d \in Devices, ct \in ClientTypes, i \in Instances \cup {None},
             r \in Ips \cup {None}, var \in BOOLEAN, mode \in RegModes :
               Register(s, d, ct, i, r, var, mode)
    BY Zenon DEF RegisterStep
  <1>a. TypeOK /\ AddressExclusive
    BY Zenon DEF LeaseInvariant
  <1>1. ASSUME NEW ip \in Usable, ~conflicting_ip_owner(ip, d),
               Publish(s, d, ct, i, ip, mode)
        PROVE  Book!BookNext
    <2>1. device_ip_map[ip] \in {None, d} /\ active_ip_map[ip] \in {None, d}
      BY <1>1, Zenon DEF conflicting_ip_owner
    <2>2. device_map' = [device_map EXCEPT ![d] = Connected(s, d, ct, ip, mode)]
      BY <1>1, Zenon DEF Publish
    <2>3. Connected(s, d, ct, ip, mode).ip = ip
      BY <1>a DEF Connected, TypeOK, DeviceEntry
    <2>4. AddressOf(d, ip)
      BY <1>a, <2>2, <2>3, Zenon DEF AddressOf, TypeOK
    <2>5. /\ active_ip_map'[ip] = d
          /\ \A j \in Ips : j # ip /\ active_ip_map'[j] # active_ip_map[j]
                            => active_ip_map[j] = d /\ active_ip_map'[j] = None
      <3>1. active_ip_map' = [j \in Ips |-> IF j = ip THEN d
                                            ELSE IF Stale(d, ip, j) THEN None
                                            ELSE active_ip_map[j]]
        BY <1>1, Zenon DEF Publish
      <3>2. active_ip_map'[ip] = d
        BY <3>1, Zenon
      <3>3. ASSUME NEW j \in Ips, j # ip, active_ip_map'[j] # active_ip_map[j]
            PROVE  active_ip_map[j] = d /\ active_ip_map'[j] = None
        BY <3>1, <3>3, Zenon DEF Stale
      <3> QED
        BY <3>2, <3>3, Zenon
    <2> QED
      BY <2>1, <2>4, <2>5, TakeStep, Zenon DEF Book!BookNext
  <1>2. CASE JoinPool(s, d, ct, i, r, mode)
    BY <1>2, Zenon DEF JoinPool, leaseVars, Book!bookVars
  <1>3. CASE Reclaim(s, d, ct, i, r, mode)
    <2>1. device_map[d].ip \in Usable
      BY <1>3, <1>a, Zenon DEF Reclaim, AddressExclusive
    <2> QED
      BY <1>1, <1>3, <2>1, Zenon DEF Reclaim
  <1>4. CASE ReclaimFails(s, d, ct, i, r, mode)
    <2> DEFINE ip == device_map[d].ip
    <2>1. /\ device_map' = [device_map EXCEPT ![d] = Connected(s, d, ct, ip, mode)]
          /\ UNCHANGED active_ip_map
      BY <1>4, Zenon DEF ReclaimFails
    <2>2. Connected(s, d, ct, ip, mode).ip = ip
      BY <1>a DEF Connected, TypeOK, DeviceEntry
    <2>3. \A x \in Devices : device_map'[x].ip = device_map[x].ip
      BY <2>1, <2>2
    <2> QED
      BY <2>1, <2>3, Zenon DEF Book!bookVars
  <1>5. CASE TakeExpected(s, d, ct, i, r, mode)
    BY <1>1, <1>5, Zenon DEF TakeExpected
  <1>6. CASE TakeAvailable(s, d, ct, i, r, var, mode)
    <2>1. PICK ip \in Ips : find_available_ip(ip) /\ Publish(s, d, ct, i, ip, mode)
      BY <1>6, Zenon DEF TakeAvailable
    <2>2. ip \in Usable /\ ~conflicting_ip_owner(ip, d)
      BY <2>1, Zenon DEF find_available_ip, Free, conflicting_ip_owner
    <2> QED
      BY <1>1, <2>1, <2>2, Zenon
  <1> QED
    BY <1>0, <1>2, <1>3, <1>4, <1>5, <1>6, Zenon DEF Register

\* What a session does to the book: it moves, leaves or withdraws its registration.
LEMMA SessionBook ==
  ASSUME LeaseInvariant, LeaseInvariant', NEW s \in Sessions, SessionStep(s)
  PROVE  [Book!BookNext]_(Book!bookVars)
  <1> USE NetworkAssumption
  <1> DEFINE d == session[s].device
             ip == session[s].ip
  <1>a. TypeOK /\ AddressExclusive /\ SessionsNamed /\ SingleLease
    BY Zenon DEF LeaseInvariant
  <1>1. CASE ConfirmRegistration(s)
    <2>1. UNCHANGED active_ip_map /\ d \in Devices
      BY <1>1, <1>a, Zenon DEF ConfirmRegistration, SessionsNamed
    <2>2. \/ device_map' = device_map
          \/ device_map' = [device_map EXCEPT ![d].subnet_active = TRUE,
                                              ![d].data_version = data_version + 1]
      BY <1>1, Zenon DEF ConfirmRegistration
    <2>3. \A x \in Devices : device_map'[x].ip = device_map[x].ip
      BY <1>a, <2>1, <2>2 DEF TypeOK, DeviceEntry
    <2> QED
      BY <2>1, <2>3, Zenon DEF Book!bookVars
  <1>2. ASSUME NEW new \in Ips, FastRegisterMove(s, new)
        PROVE  Book!BookNext
    <2>1. d \in Devices /\ ip \in Ips /\ new \in Usable
      BY <1>2, <1>a, Zenon DEF FastRegisterMove, FastCaller, SessionsNamed
    <2>2. device_ip_map[new] \in {None, d} /\ active_ip_map[new] \in {None, d}
      BY <1>2, Zenon DEF FastRegisterMove, conflicting_ip_owner
    <2>3. /\ device_map' = [device_map EXCEPT ![d].ip = new,
                                              ![d].data_version = data_version + 1]
          /\ active_ip_map' = [j \in Ips |-> IF j = new THEN d
                                              ELSE IF j = ip THEN None
                                              ELSE active_ip_map[j]]
          /\ active_ip_map[ip] = d
      BY <1>2, Zenon DEF FastRegisterMove
    <2>4. AddressOf(d, new)
      BY <1>a, <2>1, <2>3 DEF AddressOf, TypeOK, DeviceEntry
    <2>5. /\ active_ip_map'[new] = d
          /\ \A j \in Ips : j # new /\ active_ip_map'[j] # active_ip_map[j]
                            => active_ip_map[j] = d /\ active_ip_map'[j] = None
      <3>1. active_ip_map'[new] = d
        BY <2>3, Zenon
      <3>2. ASSUME NEW j \in Ips, j # new, active_ip_map'[j] # active_ip_map[j]
            PROVE  active_ip_map[j] = d /\ active_ip_map'[j] = None
        BY <2>3, <3>2, Zenon
      <3> QED
        BY <3>1, <3>2, Zenon
    <2> QED
      BY <2>1, <2>2, <2>4, <2>5, TakeStep, Zenon DEF Book!BookNext
  <1>3. ASSUME UNCHANGED leaseVars
        PROVE  UNCHANGED Book!bookVars
    BY <1>3, Zenon DEF leaseVars, Book!bookVars
  <1>4. CASE FinalizeOffline(s)
    <2>1. d \in Devices /\ ip \in Ips
      BY <1>4, <1>a, Zenon DEF FinalizeOffline, SessionsNamed
    <2>2. CASE UNCHANGED <<device_map, active_ip_map>>
      BY <2>2, Zenon DEF Book!bookVars
    <2>3. CASE /\ device_map' = [device_map EXCEPT
                     ![d].is_connected = FALSE, ![d].subnet_active = FALSE,
                     ![d].data_version = data_version + 1]
               /\ active_ip_map' = [active_ip_map EXCEPT ![ip] = None]
      <3>1. \A x \in Devices : device_map'[x].ip = device_map[x].ip
        BY <1>a, <2>1, <2>3 DEF TypeOK, DeviceEntry
      <3>2. Assigned' = Assigned
        BY <3>1, Zenon DEF Assigned
      <3>3. CASE active_ip_map[ip] = None
        <4>1. active_ip_map' = active_ip_map
          BY <1>a, <2>1, <2>3, <3>3, Zenon DEF TypeOK
        <4> QED
          BY <3>1, <4>1, Zenon DEF Book!bookVars
      <3>4. CASE active_ip_map[ip] # None
        <4> DEFINE e == active_ip_map[ip]
        <4>1. e \in Devices
          BY <1>a, <2>1, <3>4, Zenon DEF TypeOK
        <4>2. LiveAt' = LiveAt \/ LiveAt' = [LiveAt EXCEPT ![e] = None]
          <5>1. \A j \in Ips : active_ip_map'[j] # active_ip_map[j]
                          => active_ip_map[j] = e /\ active_ip_map'[j] = None
            BY <1>a, <2>1, <2>3, Zenon DEF TypeOK
          <5> QED
            BY <4>1, <5>1, LiveAtShrinks, Zenon
        <4> QED
          BY <3>2, <4>1, <4>2, Zenon
          DEF Book!BookNext, Book!Leave, Book!bookVars, Assigned, LiveAt
      <3> QED
        BY <3>3, <3>4, Zenon
    <2> QED
      BY <1>4, <2>2, <2>3, Zenon DEF FinalizeOffline
  <1>5. CASE ReleasePreRegistered(s)
    <2>1. d \in Devices /\ ip \in Ips
      BY <1>5, <1>a, Zenon DEF ReleasePreRegistered, SessionsNamed
    <2>2. CASE /\ device_map[d].ip = ip
               /\ device_map' = [device_map EXCEPT ![d] = NoEntry]
               /\ active_ip_map' = [active_ip_map EXCEPT ![ip] = None]
      <3>1. AddressOf(d, None)
        BY <1>a, <2>2, Zenon DEF AddressOf, TypeOK, NoEntry
      <3>2. active_ip_map[ip] \in {None, d}
        <4>1. device_map[d].ip = ip
          BY <2>2, Zenon
        <4> QED BY <1>a, <2>1, <4>1, OwnAddress, Zenon
      <3>3. LiveAt' = LiveAt \/ LiveAt' = [LiveAt EXCEPT ![d] = None]
        <4>1. ASSUME NEW j \in Ips, active_ip_map'[j] # active_ip_map[j]
              PROVE  active_ip_map[j] = d /\ active_ip_map'[j] = None
          BY <2>2, <3>2, <4>1
        <4> QED
          BY <2>1, <4>1, LiveAtShrinks, Zenon
      <3>4. Assigned' = [Assigned EXCEPT ![d] = None]
        BY <2>1, <3>1, AssignedChange, Zenon
      <3>5. CASE LiveAt' = LiveAt
        <4>1. Assigned' = [x \in Devices |-> IF x \in {d} THEN None ELSE Assigned[x]]
          BY <2>1, <3>4, Zenon DEF Assigned
        <4> QED
          BY <2>1, <3>5, <4>1, ZenonT(30) DEF Book!BookNext, Book!Forget, Assigned, LiveAt
      <3>6. CASE LiveAt' = [LiveAt EXCEPT ![d] = None]
        BY <2>1, <3>4, <3>6, Zenon DEF Book!BookNext, Book!Remove, Assigned, LiveAt
      <3> QED
        BY <3>3, <3>5, <3>6, Zenon
    <2> QED
      BY <1>3, <1>5, <2>2, Zenon DEF ReleasePreRegistered
  <1> QED
    BY <1>1, <1>2, <1>3, <1>4, <1>5, Zenon
    DEF SessionStep, FastRegisterAgain, FollowPool, OfflineLookup, RemoveLink, ReleaseTail

\* What the administrator and the lease timer do to the book.
LEMMA AdminBook ==
  ASSUME NoRollback, LeaseInvariant, LeaseInvariant', AdminStep
  PROVE  [Book!BookNext]_(Book!bookVars)
  <1> USE NetworkAssumption
  <1>a. TypeOK /\ AddressExclusive /\ EditRevertible
    BY Zenon DEF LeaseInvariant
  <1>1. ASSUME NEW d \in Devices, NEW ip \in Ips, NEW it \in IpTypes, NEW ct \in ClientTypes,
               NEW routes \in BOOLEAN, UpsertDevice(d, ip, it, ct, routes)
        PROVE  Book!BookNext
    <2>1. /\ ip \in Usable /\ UNCHANGED active_ip_map
          /\ device_ip_map[ip] \in {None, d} /\ active_ip_map[ip] \in {None, d}
      BY <1>1, Zenon DEF UpsertDevice, conflicting_ip_owner
    <2>2. /\ device_map'[d].ip = ip
          /\ \A x \in Devices : x # d => device_map'[x] = device_map[x]
      BY <1>1, <1>a DEF UpsertDevice, TypeOK, DeviceEntry
    <2>3. AddressOf(d, ip)
      BY <2>2, Zenon DEF AddressOf
    <2> QED
      BY <2>1, <2>3, AssignStep, Zenon DEF Book!BookNext
  <1>2. CASE UpsertSaveFails
    <2>0. admin.device \in Devices
      BY <1>2, <1>a, Zenon DEF UpsertSaveFails, EditRevertible, LockFree
    <2>a. PICK d \in Devices, ip \in {admin.previous.ip} : d = admin.device /\ ip = admin.previous.ip
      BY <2>0, Zenon
    <2>1. /\ device_map' = [device_map EXCEPT ![d] = admin.previous]
          /\ UNCHANGED active_ip_map
      BY <1>2, <2>a, Zenon DEF UpsertSaveFails, restore_device_config
    <2>2. AddressOf(d, ip)
      BY <1>a, <2>a, <2>1, Zenon DEF AddressOf, TypeOK
    <2>3. CASE ip = None
      <3>1. \A x \in Devices : device_map'[x].ip = IF x \in {d} THEN None ELSE device_map[x].ip
        BY <2>2, <2>3, Zenon DEF AddressOf
      <3>2. Book!Forget({d})
        BY <2>1, <3>1, ForgetStep, Zenon
      <3> QED
        BY <2>1, <3>2, Zenon DEF Book!BookNext
    <2>4. CASE ip # None
      <3>1. /\ ip \in Usable
            /\ device_ip_map[ip] \in {None, d} /\ active_ip_map[ip] \in {None, d}
        BY <1>a, <2>a, <2>4, Zenon DEF EditRevertible
      <3>2. Book!Assign(d, ip)
        BY <2>1, <2>2, <3>1, AssignStep, Zenon
      <3> QED
        BY <2>1, <3>1, <3>2, Zenon DEF Book!BookNext
    <2> QED
      BY <2>3, <2>4, Zenon
  <1>3. ASSUME NEW d \in Devices, DeleteDevice(d)
        PROVE  Book!BookNext
    <2>1. /\ device_map' = [device_map EXCEPT ![d] = NoEntry]
          /\ active_ip_map' = [j \in Ips |-> IF active_ip_map[j] = d THEN None
                                              ELSE active_ip_map[j]]
      BY <1>3, Zenon DEF DeleteDevice
    <2>2. AddressOf(d, None)
      BY <1>a, <2>1, Zenon DEF AddressOf, TypeOK, NoEntry
    <2>3. active_ip_map \in ActiveMaps /\ active_ip_map' \in ActiveMaps
      BY ActiveShape, Zenon
    <2>4. \A j \in Ips : active_ip_map'[j] # d
      BY <2>1, Zenon
    <2>5. LiveAddress(active_ip_map', d) = None
      BY <2>3, <2>4, LiveAddressFacts, Zenon
    <2>6. ASSUME NEW e \in Devices, e # d
          PROVE  LiveAddress(active_ip_map', e) = LiveAddress(active_ip_map, e)
      <3>1. \A j \in Ips : active_ip_map'[j] = e <=> active_ip_map[j] = e
        BY <2>1, <2>6
      <3> QED
        BY <2>3, <3>1, SameLiveAddress, Zenon
    <2>7. LiveAt' = [LiveAt EXCEPT ![d] = None]
      <3>1. \A e \in Devices :
              LiveAddress(active_ip_map', e) = IF e = d THEN None ELSE LiveAddress(active_ip_map, e)
        BY <2>5, <2>6, Zenon
      <3> QED BY <3>1, Zenon DEF LiveAt
    <2>8. Assigned' = [Assigned EXCEPT ![d] = None]
      BY <2>2, AssignedChange, Zenon
    <2>9. Book!Remove(d)
      BY <2>7, <2>8, Zenon DEF Book!Remove, Assigned, LiveAt
    <2> QED
      BY <2>9, Zenon DEF Book!BookNext
  <1>4. ASSUME NEW S \in SUBSET Devices, ReleaseExpired(S)
        PROVE  Book!BookNext
    <2>1. /\ UNCHANGED active_ip_map
          /\ device_map' = [d \in Devices |->
               IF d \in S
               THEN [device_map[d] EXCEPT !.ip = None, !.data_version = data_version + 1]
               ELSE device_map[d]]
      BY <1>4, Zenon DEF ReleaseExpired
    <2>2. ASSUME NEW x \in Devices
          PROVE  device_map'[x].ip = IF x \in S THEN None ELSE device_map[x].ip
      <3>1. PICK e \in DeviceEntry : e = device_map[x]
        BY <1>a, Zenon DEF TypeOK
      <3>2. [e EXCEPT !.ip = None, !.data_version = data_version + 1].ip = None
        BY Zenon DEF DeviceEntry
      <3> QED BY <2>1, <3>1, <3>2, Zenon
    <2>3. Book!Forget(S)
      BY <2>1, <2>2, ForgetStep, Zenon
    <2> QED
      BY <2>3, Zenon DEF Book!BookNext
  <1>5. ASSUME NEW d \in Devices, UpdateRuntimeMetadata(d)
        PROVE  UNCHANGED Book!bookVars
    <2>1. /\ device_map' = [device_map EXCEPT ![d].data_version = data_version + 1]
          /\ UNCHANGED active_ip_map
      BY <1>5, Zenon DEF UpdateRuntimeMetadata
    <2>2. \A x \in Devices : device_map'[x].ip = device_map[x].ip
      BY <1>a, <2>1 DEF TypeOK, DeviceEntry
    <2> QED
      BY <2>1, <2>2, Zenon DEF Book!bookVars
  <1>6. ASSUME UNCHANGED leaseVars
        PROVE  UNCHANGED Book!bookVars
    BY <1>6, Zenon DEF leaseVars, Book!bookVars
  <1>7. ~ManagedRollback
    BY Zenon DEF LeaseInvariant, ManagedRollback, NoManaged
  <1>8. CASE \/ UpsertSaved \/ ManagedCommit \/ \E ip \in Ips : DisconnectSubscription(ip)
             \/ \E d \in Devices : ManagedSnapshot(d)
    <2>1. UNCHANGED leaseVars
      BY <1>8, Zenon DEF UpsertSaved, DisconnectSubscription, ManagedSnapshot, ManagedCommit
    <2> QED BY <1>6, <2>1, Zenon
  <1> QED BY <1>1, <1>2, <1>3, <1>4, <1>5, <1>7, <1>8 DEF AdminStep

\* Without rolled-back managed edits the maps of a network, whatever interleaves on
\* them, implement the book of leases: no address passes from one device to another
\* in one step.
THEOREM NetworkKeepsBook ==
  ASSUME NoRollback
  PROVE  Spec => BookKept
  <1>1. Init => Book!BookInit
    <2> SUFFICES ASSUME Init PROVE Book!BookInit
      BY Zenon
    <2>1. \A d \in Devices : LiveAddress(active_ip_map, d) = None
      BY NetworkAssumption, Zenon DEF Init, LiveAddress
    <2> QED
      BY <2>1, Zenon DEF Init, NoEntry, Book!BookInit
  <1>2. LeaseInvariant /\ LeaseInvariant' /\ [Next]_vars => [Book!BookNext]_(Book!bookVars)
    <2> SUFFICES ASSUME LeaseInvariant, LeaseInvariant', [Next]_vars
                 PROVE  [Book!BookNext]_(Book!bookVars)
      BY Zenon
    <2>1. CASE UNCHANGED vars
      BY <2>1, Zenon DEF vars, Book!bookVars
    <2> QED
      BY <2>1, RegisterBook, SessionBook, AdminBook, Zenon DEF Next
  <1> QED
    BY <1>1, <1>2, LeasesInductive, PTL DEF Spec, BookKept, Book!BookSpec

=============================================================================
