------------------------ MODULE ClientListSyncProofs ------------------------
(***************************************************************************)
(* What a network tells about its devices, for any devices, sessions,      *)
(* addresses and number of answers on their way.                           *)
(*                                                                         *)
(* First, a client whose version is current has the current list.  The     *)
(* argument has two halves: what every operation of NetworkState does to   *)
(* versions (VersionStep), and that lists built from such versions agree.  *)
(*                                                                         *)
(* Then, the online flag: a device with a live, reachable link is online,  *)
(* and a client with one link per registration is offline once its last    *)
(* session has ended.                                                      *)
(***************************************************************************)
EXTENDS ClientListSync, NetworkStateProofs

\* What a step that forces no whole lists does to an entry.
Stable(d) ==
    /\ device_map'[d].ip = device_map[d].ip
    /\ device_map'[d].present = device_map[d].present
    /\ device_map'[d].is_connected = device_map[d].is_connected
    /\ device_map'[d].client_type = device_map[d].client_type

Bumped(d) == device_map'[d].data_version = data_version' /\ data_version' > data_version

Published(d) ==
    /\ Bumped(d)
    /\ device_map[d].ip \in {None, device_map'[d].ip}
    /\ Has(d) => device_map'[d].present /\ device_map'[d].client_type = device_map[d].client_type

DeviceStep(d) ==
    \/ Stable(d) /\ (device_map'[d].data_version = device_map[d].data_version \/ Bumped(d))
    \/ Published(d)
    \/ device_map[d].ip \in EditedLive /\ device_map'[d].ip \in EditedLive

VersionStep ==
    /\ data_version' \in Nat /\ full_sync_version' \in Nat
    /\ data_version' >= data_version
    /\ full_sync_version' = full_sync_version \/ full_sync_version' > data_version
    /\ full_sync_version' = full_sync_version => \A d \in Devices : DeviceStep(d)

\* Steps that leave the entries and the versions alone.
LEMMA NothingListed ==
  ASSUME LeaseInvariant, VersionsBounded, UNCHANGED <<device_map, versionVars>>,
         admin' \in {admin, NoAdmin}
  PROVE  VersionStep /\ VersionsBounded'
  <1>1. TypeOK
    BY Zenon DEF LeaseInvariant
  <1>2. UNCHANGED <<device_map, data_version, full_sync_version>>
    BY Zenon DEF versionVars
  <1>3. VersionStep
    BY <1>1, <1>2 DEF TypeOK, VersionStep, DeviceStep, Stable
  <1>4. VersionsBounded'
    BY <1>1, <1>2 DEF VersionsBounded, Has, NoAdmin, NoEntry, TypeOK
  <1> QED
    BY <1>3, <1>4, Zenon

\* Steps that replace one entry, by one with the new version or by the same item.
LEMMA EntryReplaced ==
  ASSUME LeaseInvariant, VersionsBounded, NEW d \in Devices, NEW e \in DeviceEntry,
         device_map' = [device_map EXCEPT ![d] = e],
         data_version' = data_version + 1, e.data_version = data_version',
         full_sync_version' \in {full_sync_version, data_version'},
         e.ip # None => e.present,
         full_sync_version' = full_sync_version =>
            /\ device_map[d].ip \in {None, e.ip}
            /\ Has(d) => e.present /\ e.client_type = device_map[d].client_type,
         admin' = admin
  PROVE  VersionStep /\ VersionsBounded'
  <1>1. TypeOK
    BY Zenon DEF LeaseInvariant
  <1>2. /\ data_version \in Nat /\ full_sync_version \in Nat
        /\ \A x \in Devices : device_map[x].data_version \in Nat
        /\ admin.previous.data_version \in Nat
    BY <1>1, Zenon DEF TypeOK, DeviceEntry
  <1>3. device_map'[d] = e /\ \A x \in Devices : x # d => device_map'[x] = device_map[x]
    BY <1>1, Zenon DEF TypeOK
  <1>4. ASSUME full_sync_version' = full_sync_version, NEW x \in Devices
        PROVE  DeviceStep(x)
    <2>1. CASE x = d
      BY <1>2, <1>3, <1>4, <2>1 DEF DeviceStep, Published, Bumped
    <2>2. CASE x # d
      BY <1>3, <2>2, Zenon DEF DeviceStep, Stable
    <2> QED
      BY <2>1, <2>2, Zenon
  <1>5. VersionStep
    BY <1>2, <1>4 DEF VersionStep
  <1>6. VersionsBounded'
    BY <1>2, <1>3 DEF VersionsBounded, Has
  <1> QED
    BY <1>5, <1>6, Zenon

\* Steps that force whole lists may do anything to an entry.
LEMMA WholeListForced ==
  ASSUME LeaseInvariant, VersionsBounded, NEW d \in Devices, NEW e \in DeviceEntry,
         device_map' = [device_map EXCEPT ![d] = e],
         data_version' = data_version + 1, full_sync_version' = data_version',
         e.data_version <= data_version', e.ip # None => e.present,
         admin' \in {admin, NoAdmin}
  PROVE  VersionStep /\ VersionsBounded'
  <1>1. TypeOK
    BY Zenon DEF LeaseInvariant
  <1>2. /\ data_version \in Nat /\ full_sync_version \in Nat
        /\ \A x \in Devices : device_map[x].data_version \in Nat
        /\ admin.previous.data_version \in Nat
    BY <1>1, Zenon DEF TypeOK, DeviceEntry
  <1>3. device_map'[d] = e /\ \A x \in Devices : x # d => device_map'[x] = device_map[x]
    BY <1>1, Zenon DEF TypeOK
  <1>4. VersionStep
    BY <1>2 DEF VersionStep, VersionsBounded
  <1>5. /\ admin'.previous.data_version <= data_version'
        /\ admin'.previous.ip # None => admin'.previous.present
    BY <1>2 DEF VersionsBounded, NoAdmin, NoEntry
  <1>6. /\ \A x \in Devices : device_map'[x].data_version <= data_version'
        /\ \A x \in Devices : device_map'[x].ip # None => device_map'[x].present
    BY <1>2, <1>3 DEF VersionsBounded, Has
  <1> QED
    BY <1>2, <1>4, <1>5, <1>6 DEF VersionsBounded, Has

\* Publish forces whole lists when the device had another address.
LEMMA PublishVersions ==
  ASSUME LeaseInvariant, VersionsBounded, NEW s \in Sessions, NEW d \in Devices,
         NEW ct \in ClientTypes, NEW i, NEW ip \in Ips, NEW mode \in RegModes,
         Has(d) => device_map[d].client_type = ct, Publish(s, d, ct, i, ip, mode)
  PROVE  VersionStep /\ VersionsBounded'
  <1> USE NetworkAssumption
  <1> DEFINE e == Connected(s, d, ct, ip, mode)
  <1>1. TypeOK /\ device_map[d] \in DeviceEntry /\ data_version + 1 \in Nat
    BY DEF LeaseInvariant, TypeOK
  <1>2. /\ e \in DeviceEntry /\ e.ip = ip /\ e.present /\ e.client_type = ct
        /\ e.data_version = data_version + 1
    <2>1. (mode = "Normal") \in BOOLEAN /\ ct \in {"Vnt", "Ikev2", "Wireguard"}
          /\ ip \in Ips \cup {None} /\ s \in Sessions \cup {None} /\ TRUE \in BOOLEAN
      BY Zenon
    <2> QED
      BY <1>1, <2>1, Zenon DEF Connected, DeviceEntry
  <1>3. /\ device_map' = [device_map EXCEPT ![d] = e]
        /\ data_version' = data_version + 1 /\ admin' = admin
        /\ full_sync_version' \in {full_sync_version, data_version + 1}
    BY Zenon DEF Publish
  <1>4. full_sync_version' = full_sync_version => device_map[d].ip \in {None, ip}
    <2>1. full_sync_version # data_version + 1
      BY <1>1 DEF VersionsBounded, TypeOK
    <2> QED
      BY <2>1, Zenon DEF Publish
  <1> HIDE DEF e
  <1> QED
    BY <1>2, <1>3, <1>4, EntryReplaced, Zenon

\* Registering (register_inner) marks the entry it changes, and forces whole lists when it
\* takes an address away.
LEMMA RegisterVersions == LeaseInvariant /\ VersionsBounded /\ RegisterStep
                            => VersionStep /\ VersionsBounded'
  <1> SUFFICES ASSUME LeaseInvariant, VersionsBounded,
                      NEW s \in Sessions, NEW d \in Devices, NEW ct \in ClientTypes,
                      NEW i \in Instances \cup {None}, NEW r \in Ips \cup {None},
                      NEW var \in BOOLEAN, NEW mode \in RegModes,
                      Register(s, d, ct, i, r, var, mode)
               PROVE  VersionStep /\ VersionsBounded'
    BY Zenon DEF RegisterStep
  <1> USE NetworkAssumption
  <1>0. /\ TypeOK /\ AddressExclusive /\ d # None
        /\ Has(d) => device_map[d].client_type = ct
    BY Zenon DEF Register, MayRegister, LeaseInvariant
  <1>1. CASE JoinPool(s, d, ct, i, r, mode)
    BY <1>1, NothingListed, Zenon DEF JoinPool, leaseVars
  <1>2. CASE Reclaim(s, d, ct, i, r, mode)
    <2>1. device_map[d].ip # None /\ Publish(s, d, ct, i, device_map[d].ip, mode)
      BY <1>2, Zenon DEF Reclaim
    <2>2. device_map[d].ip \in Ips
      BY <2>1, <1>0, Zenon DEF AddressExclusive
    <2> QED
      BY <1>0, <2>1, <2>2, PublishVersions, Zenon
  <1>3. CASE ReclaimFails(s, d, ct, i, r, mode)
    <2>1. device_map[d].ip # None /\ conflicting_ip_owner(device_map[d].ip, d)
      BY <1>3, Zenon DEF ReclaimFails
    <2>2. device_map[d].ip \in Usable /\ device_ip_map[device_map[d].ip] = d
      BY <2>1, <1>0, Zenon DEF AddressExclusive
    <2>3. active_ip_map[device_map[d].ip] \in {None, d}
      BY <2>2, <1>0, Zenon DEF AddressExclusive
    <2> QED
      BY <2>1, <2>2, <2>3, Zenon DEF conflicting_ip_owner
  <1>4. CASE TakeExpected(s, d, ct, i, r, mode)
    BY <1>0, <1>4, PublishVersions, Zenon DEF TakeExpected
  <1>5. CASE TakeAvailable(s, d, ct, i, r, var, mode)
    <2>1. PICK ip \in Ips : Publish(s, d, ct, i, ip, mode)
      BY <1>5, Zenon DEF TakeAvailable
    <2> QED
      BY <1>0, <2>1, PublishVersions, Zenon
  <1> QED
    BY <1>1, <1>2, <1>3, <1>4, <1>5, Zenon DEF Register

\* A step that only gives a present entry the new version and changes flags.
LEMMA EntryMarked ==
  ASSUME LeaseInvariant, VersionsBounded, NEW d \in Devices, NEW e \in DeviceEntry,
         Has(d), device_map' = [device_map EXCEPT ![d] = e],
         data_version' = data_version + 1, e.data_version = data_version + 1,
         e.ip = device_map[d].ip, e.present, e.client_type = device_map[d].client_type,
         full_sync_version' \in {full_sync_version, data_version + 1}, admin' = admin
  PROVE  VersionStep /\ VersionsBounded'
  BY EntryReplaced, Zenon

\* Confirming a registration (confirm_registration) marks the entry under a new version.
LEMMA ConfirmVersions ==
  ASSUME LeaseInvariant, VersionsBounded, NEW s \in Sessions, ConfirmRegistration(s)
  PROVE  VersionStep /\ VersionsBounded'
  <1> DEFINE d == session[s].device
             e == [device_map[d] EXCEPT !.subnet_active = TRUE,
                                        !.data_version = data_version + 1]
  <1>1. TypeOK /\ d \in Devices
    BY Zenon DEF LeaseInvariant, SessionsNamed, ConfirmRegistration
  <1>2. /\ e \in DeviceEntry /\ e.ip = device_map[d].ip /\ e.present = device_map[d].present
        /\ e.client_type = device_map[d].client_type /\ e.data_version = data_version + 1
    <2>1. device_map[d] \in DeviceEntry /\ data_version + 1 \in Nat
      BY <1>1 DEF TypeOK
    <2> HIDE DEF d
    <2> QED
      BY <2>1, Zenon DEF DeviceEntry
  <1>3. \/ UNCHANGED <<device_map, data_version>>
        \/ Has(d) /\ device_map' = [device_map EXCEPT ![d] = e] /\ data_version' = data_version + 1
    BY <1>1, Zenon DEF ConfirmRegistration, TypeOK
  <1>4. full_sync_version' = full_sync_version /\ admin' = admin
    BY Zenon DEF ConfirmRegistration
  <1> HIDE DEF e, d
  <1> QED
    BY <1>1, <1>2, <1>3, <1>4, NothingListed, EntryMarked, Zenon DEF versionVars, Has

\* fast_register moves to another address than the session's, or answers FastRegisterAgain.
LEMMA FastMoveVersions ==
  ASSUME LeaseInvariant, VersionsBounded, NEW s \in Sessions, NEW new \in Ips,
         FastRegisterMove(s, new)
  PROVE  VersionStep /\ VersionsBounded'
  <1> DEFINE d == session[s].device
             e == [device_map[d] EXCEPT !.ip = new, !.data_version = data_version + 1]
  <1>1. TypeOK /\ d \in Devices /\ Has(d)
    BY Zenon DEF LeaseInvariant, SessionsNamed, FastRegisterMove, FastCaller
  <1>2. /\ e \in DeviceEntry /\ e.present = device_map[d].present
        /\ e.data_version = data_version + 1
    <2>1. device_map[d] \in DeviceEntry /\ data_version + 1 \in Nat
      BY <1>1 DEF TypeOK
    <2> HIDE DEF d
    <2> QED
      BY <2>1, Zenon DEF DeviceEntry
  <1>3. session[s].ip # new
    BY Zenon DEF FastRegisterMove
  <1>4. /\ device_map' = [device_map EXCEPT ![d] = e] /\ data_version' = data_version + 1
        /\ full_sync_version' = data_version + 1 /\ admin' = admin
    BY <1>1, <1>3, Zenon DEF FastRegisterMove, TypeOK
  <1>5. data_version + 1 <= data_version + 1
    BY <1>1 DEF TypeOK
  <1> HIDE DEF e, d
  <1> QED
    BY <1>1, <1>2, <1>4, <1>5, WholeListForced, Zenon DEF Has

\* Going offline (finalize_offline) marks the entry under a new version.
LEMMA FinalizeVersions ==
  ASSUME LeaseInvariant, VersionsBounded, NEW s \in Sessions, FinalizeOffline(s)
  PROVE  VersionStep /\ VersionsBounded'
  <1> DEFINE d == session[s].device
             e == [device_map[d] EXCEPT !.is_connected = FALSE, !.subnet_active = FALSE,
                                        !.data_version = data_version + 1]
  <1>1. TypeOK /\ d \in Devices
    BY Zenon DEF LeaseInvariant, SessionsNamed, FinalizeOffline
  <1>2. /\ e \in DeviceEntry /\ e.ip = device_map[d].ip /\ e.present = device_map[d].present
        /\ e.client_type = device_map[d].client_type /\ e.data_version = data_version + 1
    <2>1. device_map[d] \in DeviceEntry /\ data_version + 1 \in Nat
      BY <1>1 DEF TypeOK
    <2> HIDE DEF d
    <2> QED
      BY <2>1, Zenon DEF DeviceEntry
  <1>3. \/ UNCHANGED <<device_map, versionVars>>
        \/ /\ Has(d) /\ device_map' = [device_map EXCEPT ![d] = e]
           /\ data_version' = data_version + 1
           /\ full_sync_version' \in {full_sync_version, data_version + 1}
    BY <1>1, Zenon DEF FinalizeOffline, TypeOK
  <1>4. admin' = admin
    BY Zenon DEF FinalizeOffline
  <1> HIDE DEF e, d
  <1> QED
    BY <1>1, <1>2, <1>3, <1>4, NothingListed, EntryMarked, Zenon DEF Has

\* Releasing a pre-registration forces whole lists when it takes an address away.
LEMMA ReleaseVersions ==
  ASSUME LeaseInvariant, VersionsBounded, NEW s \in Sessions, ReleasePreRegistered(s)
  PROVE  VersionStep /\ VersionsBounded'
  <1>1. TypeOK /\ session[s].device \in Devices
    BY Zenon DEF LeaseInvariant, SessionsNamed, ReleasePreRegistered
  <1>2. \/ UNCHANGED <<device_map, versionVars>>
        \/ /\ device_map' = [device_map EXCEPT ![session[s].device] = NoEntry]
           /\ data_version' = data_version + 1 /\ full_sync_version' = data_version + 1
    BY Zenon DEF ReleasePreRegistered, leaseVars
  <1>3. /\ NoEntry \in DeviceEntry /\ NoEntry.ip = None
        /\ NoEntry.data_version <= data_version + 1
    BY <1>1, NetworkAssumption DEF NoEntry, DeviceEntry, TypeOK
  <1>4. admin' = admin
    BY Zenon DEF ReleasePreRegistered
  <1> QED
    BY <1>1, <1>2, <1>3, <1>4, NothingListed, WholeListForced, Zenon

\* Every step of a session publishes what it changes.
LEMMA SessionVersions ==
  ASSUME LeaseInvariant, VersionsBounded, NEW s \in Sessions, SessionStep(s)
  PROVE  VersionStep /\ VersionsBounded'
  <1>1. CASE \E new \in Ips : FastRegisterAgain(s, new) \/ FollowPool(s, new)
    BY <1>1, NothingListed, Zenon DEF FastRegisterAgain, FollowPool, leaseVars
  <1>2. CASE OfflineLookup(s) \/ RemoveLink(s) \/ ReleaseTail(s)
    BY <1>2, NothingListed, Zenon DEF OfflineLookup, RemoveLink, ReleaseTail, leaseVars
  <1> QED
    BY <1>1, <1>2, ConfirmVersions, FastMoveVersions, FinalizeVersions, ReleaseVersions, Zenon
    DEF SessionStep

\* An edit marks the entry, forces whole lists, or is one of a connected device's address.
LEMMA UpsertVersions ==
  ASSUME LeaseInvariant, VersionsBounded, NEW d \in Devices, NEW ip \in Ips, NEW it \in IpTypes,
         NEW ct \in ClientTypes, NEW routes \in BOOLEAN, UpsertDevice(d, ip, it, ct, routes)
  PROVE  VersionStep /\ VersionsBounded'
  <1> USE NetworkAssumption
  <1> DEFINE prev == device_map[d]
             changes == prev.is_connected /\ ct = "Wireguard" /\ routes
             now == ~prev.is_connected \/ changes
             e == device_map'[d]
  <1>1. /\ TypeOK /\ prev \in DeviceEntry /\ d # None /\ ip # None
        /\ data_version \in Nat /\ full_sync_version \in Nat /\ data_version + 1 \in Nat
    BY DEF LeaseInvariant, TypeOK
  <1>2. /\ admin = NoAdmin /\ admin' = [device |-> d, previous |-> prev]
        /\ Has(d) => prev.client_type = ct
        /\ data_version' = IF now THEN data_version + 1 ELSE data_version
        /\ full_sync_version' = IF (~prev.is_connected /\ prev.ip \notin {None, ip}) \/ changes
                                THEN data_version + 1 ELSE full_sync_version
    BY Zenon DEF UpsertDevice, LockFree
  <1>3. /\ e.ip = ip /\ e.present /\ e.client_type = ct
        /\ e.is_connected = prev.is_connected
        /\ e.data_version = IF now THEN data_version + 1 ELSE prev.data_version
        /\ \A x \in Devices : x # d => device_map'[x] = device_map[x]
    <2>1. device_map' = [device_map EXCEPT ![d] =
             [prev EXCEPT !.ip = ip, !.client_type = ct, !.present = TRUE,
                          !.ip_type = IF ct = "Wireguard" THEN "Static" ELSE it,
                          !.data_version = IF now THEN data_version + 1 ELSE @]]
      BY Zenon DEF UpsertDevice
    <2> HIDE DEF now
    <2> QED
      BY <1>1, <2>1 DEF TypeOK, DeviceEntry
  <1>4. prev.data_version \in Nat /\ prev.data_version <= data_version
        /\ (prev.ip # None => prev.present) /\ prev.is_connected \in BOOLEAN
    BY <1>1, Zenon DEF VersionsBounded, DeviceEntry, Has
  <1>5. /\ data_version' \in Nat /\ full_sync_version' \in Nat /\ data_version' >= data_version
        /\ full_sync_version' = full_sync_version \/ full_sync_version' = data_version'
        /\ full_sync_version' = full_sync_version \/ full_sync_version' > data_version
    BY <1>1, <1>2
  <1>6. ASSUME full_sync_version' = full_sync_version
        PROVE  DeviceStep(d)
    <2>1. full_sync_version # data_version + 1
      BY <1>1 DEF VersionsBounded
    <2>2. ~changes /\ (~prev.is_connected => prev.ip \in {None, ip})
      BY <1>2, <1>6, <2>1, Zenon
    <2>3. CASE ~prev.is_connected
      <3>1. now /\ data_version' = data_version + 1 /\ e.data_version = data_version + 1
        BY <1>2, <1>3, <2>3, Zenon
      <3>2. Bumped(d)
        BY <1>1, <3>1 DEF Bumped
      <3> QED
        BY <1>2, <1>3, <2>2, <2>3, <3>2, Zenon DEF DeviceStep, Published
    <2>4. CASE prev.is_connected /\ prev.ip = ip
      <3>1. ~now
        BY <2>2, <2>4, Zenon
      <3>2. e.data_version = prev.data_version
        BY <1>3, <3>1, Zenon
      <3>3. Has(d) /\ prev.present = TRUE
        BY <1>1, <1>4, <2>4, Zenon DEF Has, DeviceEntry
      <3>4. e.present = prev.present
        BY <1>1, <1>3, <3>3, Zenon DEF UpsertDevice, TypeOK, DeviceEntry
      <3>5. e.client_type = prev.client_type
        BY <1>2, <1>3, <3>3, Zenon
      <3> QED
        BY <1>3, <2>4, <3>2, <3>4, <3>5, Zenon DEF DeviceStep, Stable
    <2>5. CASE prev.is_connected /\ prev.ip # ip
      <3>1. admin' # NoAdmin /\ admin'.device = d
        BY <1>1, <1>2, Zenon DEF NoAdmin
      <3>2. EditedLive = {prev.ip, ip}
        BY <1>2, <1>3, <2>5, <3>1, Zenon DEF EditedLive
      <3> QED
        BY <1>3, <3>2, Zenon DEF DeviceStep
    <2> QED
      BY <1>4, <2>3, <2>4, <2>5, Zenon
  <1>7. ASSUME NEW x \in Devices, x # d
        PROVE  DeviceStep(x)
    BY <1>3, <1>7, Zenon DEF DeviceStep, Stable
  <1>8. VersionStep
    BY <1>5, <1>6, <1>7, Zenon DEF VersionStep
  <1>9. VersionsBounded'
    <2>1. full_sync_version' <= data_version'
      BY <1>1, <1>5 DEF VersionsBounded
    <2>2. ASSUME NEW x \in Devices
          PROVE  /\ device_map'[x].data_version <= data_version'
                 /\ device_map'[x].ip # None => device_map'[x].present
      <3>1. device_map[x].data_version \in Nat /\ device_map[x].data_version <= data_version
            /\ (device_map[x].ip # None => device_map[x].present)
        BY <1>1, Zenon DEF VersionsBounded, TypeOK, DeviceEntry, Has
      <3>2. CASE x = d
        BY <1>1, <1>2, <1>3, <1>4, <3>2
      <3>3. CASE x # d
        BY <1>1, <1>3, <1>5, <3>1, <3>3
      <3> QED
        BY <3>2, <3>3, Zenon
    <2>3. /\ admin'.previous.data_version <= data_version'
          /\ admin'.previous.ip # None => admin'.previous.present
      BY <1>1, <1>2, <1>4, <1>5
    <2> QED
      BY <2>1, <2>2, <2>3, Zenon DEF VersionsBounded, Has
  <1> QED
    BY <1>8, <1>9, Zenon

\* The end of an admin edit publishes nothing, or puts the entry back and forces whole
\* lists.
LEMMA UpsertEndVersions ==
  ASSUME LeaseInvariant, VersionsBounded, UpsertSaved \/ UpsertSaveFails
  PROVE  VersionStep /\ VersionsBounded'
  <1>1. CASE UpsertSaved
    BY <1>1, NothingListed, Zenon DEF UpsertSaved, leaseVars
  <1>2. CASE UpsertSaveFails
    <2>1. TypeOK /\ admin.device \in Devices /\ admin.previous \in DeviceEntry
      BY <1>2, Zenon DEF LeaseInvariant, EditRevertible, UpsertSaveFails, LockFree, TypeOK
    <2>2. /\ device_map' = [device_map EXCEPT ![admin.device] = admin.previous]
          /\ data_version' = data_version + 1 /\ full_sync_version' = data_version + 1
          /\ admin' = NoAdmin
      BY <1>2, Zenon DEF UpsertSaveFails, restore_device_config
    <2>3. /\ admin.previous.data_version <= data_version + 1
          /\ admin.previous.ip # None => admin.previous.present
      BY <2>1 DEF VersionsBounded, TypeOK, DeviceEntry
    <2> QED
      BY <2>1, <2>2, <2>3, WholeListForced, Zenon
  <1> QED
    BY <1>1, <1>2, Zenon

\* Deleting a device forces whole lists.
LEMMA DeleteVersions ==
  ASSUME LeaseInvariant, VersionsBounded, NEW d \in Devices, DeleteDevice(d)
  PROVE  VersionStep /\ VersionsBounded'
  <1>1. TypeOK
    BY Zenon DEF LeaseInvariant
  <1>2. /\ device_map' = [device_map EXCEPT ![d] = NoEntry] /\ admin' = admin
        /\ data_version' = data_version + 1 /\ full_sync_version' = data_version + 1
    BY Zenon DEF DeleteDevice
  <1>3. /\ NoEntry \in DeviceEntry /\ NoEntry.ip = None
        /\ NoEntry.data_version <= data_version + 1
    BY <1>1, NetworkAssumption DEF NoEntry, DeviceEntry, TypeOK
  <1> QED
    BY <1>2, <1>3, WholeListForced, Zenon

\* A metadata report (update_managed_runtime_metadata) marks the entry under a new version.
LEMMA MetadataVersions ==
  ASSUME LeaseInvariant, VersionsBounded, NEW d \in Devices, UpdateRuntimeMetadata(d)
  PROVE  VersionStep /\ VersionsBounded'
  <1> DEFINE e == [device_map[d] EXCEPT !.data_version = data_version + 1]
  <1>1. TypeOK /\ Has(d)
    BY Zenon DEF LeaseInvariant, UpdateRuntimeMetadata
  <1>2. /\ e \in DeviceEntry /\ e.ip = device_map[d].ip /\ e.present = device_map[d].present
        /\ e.client_type = device_map[d].client_type /\ e.data_version = data_version + 1
    <2>1. device_map[d] \in DeviceEntry /\ data_version + 1 \in Nat
      BY <1>1 DEF TypeOK
    <2> QED
      BY <2>1, Zenon DEF DeviceEntry
  <1>3. /\ device_map' = [device_map EXCEPT ![d] = e] /\ data_version' = data_version + 1
        /\ full_sync_version' = full_sync_version /\ admin' = admin
    BY <1>1, Zenon DEF UpdateRuntimeMetadata, TypeOK
  <1> HIDE DEF e
  <1> QED
    BY <1>1, <1>2, <1>3, EntryMarked, Zenon DEF Has

\* Released leases force whole lists, unless the devices had no address any more.
LEMMA ExpireVersions ==
  ASSUME LeaseInvariant, VersionsBounded, NEW S \in SUBSET Devices, ReleaseExpired(S)
  PROVE  VersionStep /\ VersionsBounded'
  <1> DEFINE freed == {device_map[d].ip : d \in S} \ {None}
  <1>1. /\ TypeOK /\ data_version \in Nat /\ full_sync_version \in Nat
        /\ admin.previous.data_version \in Nat
        /\ \A x \in Devices : device_map[x] \in DeviceEntry /\ device_map[x].data_version \in Nat
    BY Zenon DEF LeaseInvariant, TypeOK, DeviceEntry
  <1>2. /\ data_version' = data_version + 1 /\ admin' = admin
        /\ full_sync_version' \in {full_sync_version, data_version + 1}
    BY Zenon DEF ReleaseExpired
  <1>3. ASSUME NEW x \in Devices
        PROVE  /\ x \notin S => device_map'[x] = device_map[x]
               /\ x \in S => /\ device_map'[x].ip = None
                             /\ device_map'[x].data_version = data_version + 1
                             /\ device_map'[x].present = device_map[x].present
                             /\ device_map'[x].is_connected = device_map[x].is_connected
                             /\ device_map'[x].client_type = device_map[x].client_type
    <2>1. device_map' = [d \in Devices |->
             IF d \in S
             THEN [device_map[d] EXCEPT !.ip = None, !.data_version = data_version + 1]
             ELSE device_map[d]]
      BY Zenon DEF ReleaseExpired
    <2> QED
      BY <1>1, <2>1, Zenon DEF DeviceEntry
  <1>4. ASSUME full_sync_version' = full_sync_version, NEW x \in Devices
        PROVE  DeviceStep(x)
    <2>1. CASE x \notin S
      BY <1>3, <2>1, Zenon DEF DeviceStep, Stable
    <2>2. CASE x \in S
      <3>1. full_sync_version # data_version + 1
        BY <1>1 DEF VersionsBounded
      <3>2. freed = {}
        BY <1>4, <3>1, Zenon DEF ReleaseExpired
      <3>3. device_map[x].ip = None
        BY <2>2, <3>2, Zenon
      <3>4. Bumped(x)
        BY <1>1, <1>2, <1>3, <2>2 DEF Bumped
      <3> QED
        BY <1>3, <2>2, <3>3, <3>4, Zenon DEF DeviceStep, Stable
    <2> QED
      BY <2>1, <2>2, Zenon
  <1>5. VersionStep
    BY <1>1, <1>2, <1>4 DEF VersionStep
  <1>6. VersionsBounded'
    <2>1. ASSUME NEW x \in Devices
          PROVE  /\ device_map'[x].data_version <= data_version'
                 /\ device_map'[x].ip # None => device_map'[x].present
      <3>1. device_map[x].data_version <= data_version /\ (device_map[x].ip # None => device_map[x].present)
        BY Zenon DEF VersionsBounded, Has
      <3>2. CASE x \in S
        BY <1>1, <1>2, <1>3, <3>2
      <3>3. CASE x \notin S
        BY <1>1, <1>2, <1>3, <3>1, <3>3
      <3> QED
        BY <3>2, <3>3, Zenon
    <2>2. full_sync_version' <= data_version'
      BY <1>1, <1>2 DEF VersionsBounded
    <2>3. /\ admin'.previous.data_version <= data_version'
          /\ admin'.previous.ip # None => admin'.previous.present
      BY <1>1, <1>2 DEF VersionsBounded
    <2> QED
      BY <2>1, <2>2, <2>3, Zenon DEF VersionsBounded, Has
  <1> QED
    BY <1>5, <1>6, Zenon

\* What every step of the network does to versions.
LEMMA StepVersions ==
  ASSUME NoRollback, LeaseInvariant, VersionsBounded, Next
  PROVE  VersionStep /\ VersionsBounded'
  <1>1. CASE RegisterStep
    BY <1>1, RegisterVersions, Zenon
  <1>2. ASSUME NEW s \in Sessions, SessionStep(s)
        PROVE  VersionStep /\ VersionsBounded'
    BY <1>2, SessionVersions, Zenon
  <1>3. CASE AdminStep
    <2>1. ~ \E d \in Devices : ManagedSnapshot(d)
      BY Zenon DEF NoRollback, ManagedSnapshot
    <2>2. ~ ManagedCommit /\ ~ ManagedRollback
      BY Zenon DEF LeaseInvariant, ManagedCommit, ManagedRollback, NoManaged
    <2>3. ASSUME NEW ip \in Ips, DisconnectSubscription(ip)
          PROVE  VersionStep /\ VersionsBounded'
      BY <2>3, NothingListed, Zenon DEF DisconnectSubscription, leaseVars
    <2> QED
      BY <1>3, <2>1, <2>2, <2>3, UpsertVersions, UpsertEndVersions, DeleteVersions,
         ExpireVersions, MetadataVersions, Zenon
      DEF AdminStep
  <1> QED
    BY <1>1, <1>2, <1>3, Zenon DEF Next
-----------------------------------------------------------------------------
(* Lists and the entries they show.                                         *)

\* An address has one item, its owner's.
LEMMA OneOwner ==
  ASSUME AddressExclusive, NEW d \in Devices, NEW e \in Devices,
         device_map[d].ip # None, device_map[e].ip = device_map[d].ip
  PROVE  d = e
  BY DEF AddressExclusive

\* The whole list shows the one entry that holds an address ...
LEMMA AtListed ==
  ASSUME AddressExclusive, NEW d \in Devices, Listed(d)
  PROVE  At(FullList, device_map[d].ip) = {ItemOf(d)}
  <1>1. \A e \in Devices : Listed(e) /\ device_map[e].ip = device_map[d].ip => e = d
    BY OneOwner, Zenon DEF Listed
  <1> QED
    BY <1>1 DEF At, FullList, ItemOf

\* ... and nothing at an address no listed entry holds.
LEMMA AtUnlisted ==
  ASSUME NEW ip \in Ips, \A d \in Devices : Listed(d) => device_map[d].ip # ip
  PROVE  At(FullList, ip) = {}
  BY DEF At, FullList, ItemOf

\* An entry listed at an unedited address stays listed there, and is marked or unchanged.
LEMMA ListedStep ==
  ASSUME LeaseInvariant, VersionStep, full_sync_version' = full_sync_version,
         NEW d \in Devices, Listed(d), device_map[d].ip \notin EditedLive
  PROVE  /\ Listed(d)' /\ device_map'[d].ip = device_map[d].ip
         /\ Bumped(d) \/ device_map'[d].data_version = device_map[d].data_version
         /\ Bumped(d) \/ ItemOf(d)' = ItemOf(d)
  <1>1. DeviceStep(d) /\ device_map[d].ip # None /\ Has(d)
    BY Zenon DEF VersionStep, Listed
  <1>2. CASE Stable(d) /\ (device_map'[d].data_version = device_map[d].data_version \/ Bumped(d))
    BY <1>2, Zenon DEF Stable, Listed, Has, ItemOf
  <1>3. CASE Published(d)
    BY <1>1, <1>3, Zenon DEF Published, Listed, Has
  <1> QED
    BY <1>1, <1>2, <1>3, Zenon DEF DeviceStep

\* An entry listed at an unedited address after a step was listed there, or is marked.
LEMMA ListedBefore ==
  ASSUME VersionStep, full_sync_version' = full_sync_version,
         NEW d \in Devices, Listed(d)', device_map'[d].ip \notin EditedLive
  PROVE  \/ Bumped(d)
         \/ /\ Listed(d) /\ device_map[d].ip = device_map'[d].ip
            /\ device_map'[d].data_version = device_map[d].data_version
  BY Zenon DEF VersionStep, DeviceStep, Stable, Published, Listed, Has

\* A list that agreed with an address still does after a step of the network.
LEMMA AgreesStep ==
  ASSUME LeaseInvariant, AddressExclusive', VersionStep, full_sync_version' = full_sync_version,
         NEW ip \in Ips, ip \notin EditedLive, NEW v \in Nat, v <= data_version,
         NEW list, Agrees(list, ip, v)
  PROVE  At(list, ip) = At(FullList, ip)' \/ Behind(ip, v)'
  <1>0. /\ AddressExclusive /\ data_version \in Nat /\ data_version' \in Nat
        /\ data_version' >= data_version
    BY Zenon DEF LeaseInvariant, TypeOK, VersionStep
  <1>1. ASSUME NEW d \in Devices, Bumped(d), Listed(d)', device_map'[d].ip = ip
        PROVE  Behind(ip, v)'
    <2>1. device_map'[d].data_version > v
      BY <1>0, <1>1 DEF Bumped
    <2> QED
      BY <1>1, <2>1, Zenon DEF Behind
  <1>2. CASE Behind(ip, v)
    <2>1. PICK d \in Devices : /\ Listed(d) /\ device_map[d].ip = ip
                               /\ device_map[d].data_version > v
      BY <1>2, Zenon DEF Behind
    <2>2. Listed(d)' /\ device_map'[d].ip = ip
      BY <2>1, ListedStep, Zenon
    <2>3. Bumped(d) \/ device_map'[d].data_version = device_map[d].data_version
      BY <2>1, ListedStep, Zenon
    <2> QED
      BY <1>1, <2>1, <2>2, <2>3, Zenon DEF Behind
  <1>3. CASE At(list, ip) = At(FullList, ip)
    <2>1. ASSUME NEW d \in Devices, Listed(d), device_map[d].ip = ip
          PROVE  At(FullList, ip)' = At(FullList, ip) \/ Behind(ip, v)'
      <3>1. /\ Listed(d)' /\ device_map'[d].ip = ip
            /\ Bumped(d) \/ ItemOf(d)' = ItemOf(d)
        BY <2>1, ListedStep, Zenon
      <3>2. At(FullList, ip) = {ItemOf(d)}
        BY <1>0, <2>1, AtListed, Zenon
      <3>3. At(FullList, ip)' = {ItemOf(d)'}
        <4>1. \A e \in Devices : Listed(e)' /\ device_map'[e].ip = device_map'[d].ip => e = d
          BY <3>1 DEF Listed, AddressExclusive
        <4> QED
          BY <3>1, <4>1 DEF At, FullList, ItemOf
      <3> QED
        BY <1>1, <3>1, <3>2, <3>3, Zenon
    <2>2. ASSUME \A d \in Devices : Listed(d) => device_map[d].ip # ip
          PROVE  At(FullList, ip)' = At(FullList, ip) \/ Behind(ip, v)'
      <3>1. At(FullList, ip) = {}
        BY <2>2, AtUnlisted, Zenon
      <3>2. ASSUME NEW e \in Devices, Listed(e)', device_map'[e].ip = ip
            PROVE  Behind(ip, v)'
        BY <1>1, <2>2, <3>2, ListedBefore, Zenon
      <3>3. CASE \A e \in Devices : Listed(e)' => device_map'[e].ip # ip
        BY <3>1, <3>3 DEF At, FullList, ItemOf
      <3> QED
        BY <3>2, <3>3, Zenon
    <2> QED
      BY <1>3, <2>1, <2>2, Zenon
  <1> QED
    BY <1>2, <1>3, Zenon DEF Agrees
-----------------------------------------------------------------------------
(* The steps of SyncSpec.                                                   *)

\* An answer on its way still agrees after a step of the network.
LEMMA AnswerStep ==
  ASSUME LeaseInvariant, AddressExclusive', VersionStep, NEW a \in Answer, AnswerAgrees(a),
         a.version <= data_version,
         edited' = (IF full_sync_version' # full_sync_version THEN {} ELSE edited) \cup EditedLive
  PROVE  AnswerAgrees(a)'
  <1>1. /\ data_version \in Nat /\ data_version' \in Nat /\ full_sync_version' \in Nat
        /\ a.version \in Nat /\ a.base \in Nat
    BY Zenon DEF LeaseInvariant, TypeOK, VersionStep, Answer
  <1>2. CASE full_sync_version' # full_sync_version
    <2>1. ~(a.version >= full_sync_version')
      BY <1>1, <1>2 DEF VersionStep
    <2> QED
      BY <2>1, Zenon DEF AnswerAgrees
  <1>3. CASE full_sync_version' = full_sync_version
    <2> SUFFICES ASSUME a.version >= full_sync_version
                 PROVE  AnswerAgrees(a)'
      BY <1>3, Zenon DEF AnswerAgrees
    <2>1. a.is_all \/ a.base >= full_sync_version'
      BY <1>3, Zenon DEF AnswerAgrees
    <2>2. ASSUME NEW ip \in Ips \ edited', a.is_all \/ At(a.list, ip) # {}
          PROVE  Agrees(a.list, ip, a.version)'
      <3>1. ip \in Ips \ edited /\ ip \notin EditedLive
        BY <1>3, <2>2, Zenon
      <3>2. Agrees(a.list, ip, a.version)
        BY <2>2, <3>1, Zenon DEF AnswerAgrees
      <3>3. At(a.list, ip) = At(FullList, ip)' \/ Behind(ip, a.version)'
        BY <1>1, <1>3, <3>1, <3>2, AgreesStep, Zenon
      <3> QED
        BY <3>3, Zenon DEF Agrees, At
    <2>3. ASSUME NEW ip \in Ips \ edited', ~a.is_all, NEW d \in Devices, Listed(d)',
                 device_map'[d].ip = ip, a.base < device_map'[d].data_version,
                 device_map'[d].data_version <= a.version
          PROVE  At(a.list, ip) # {}
      <3>1. ip \in Ips \ edited /\ ip \notin EditedLive
        BY <1>3, <2>3, Zenon
      <3>2. ~Bumped(d)
        BY <1>1, <2>3 DEF Bumped
      <3>3. /\ Listed(d) /\ device_map[d].ip = ip
            /\ device_map'[d].data_version = device_map[d].data_version
        BY <1>3, <2>3, <3>1, <3>2, ListedBefore, Zenon
      <3> QED
        BY <2>3, <3>1, <3>3, Zenon DEF AnswerAgrees
    <2> QED
      BY <2>1, <2>2, <2>3, Zenon DEF AnswerAgrees, At
  <1> QED
    BY <1>2, <1>3, Zenon

\* The types of the observer's fields.
LEMMA SyncTypes ==
  ASSUME SyncTypeOK
  PROVE  /\ known.version \in Nat /\ known.list \subseteq Item /\ Len(answers) \in Nat
         /\ \A i \in 1 .. Len(answers) :
              answers[i] \in Answer /\ answers[i].version \in Nat /\ answers[i].base \in Nat
  <1>1. \A i \in 1 .. Len(answers) : answers[i] \in Answer
    BY DEF SyncTypeOK
  <1>2. \A a \in Answer : a.version \in Nat /\ a.base \in Nat
    BY Zenon DEF Answer
  <1>3. known.version \in Nat /\ known.list \subseteq Item /\ Len(answers) \in Nat
    BY DEF SyncTypeOK
  <1> QED
    BY <1>1, <1>2, <1>3, Zenon

\* Every step of the network keeps the invariant of the observer.
LEMMA NetworkStepSync ==
  ASSUME NoRollback, LeaseInvariant, SyncInvariant, NetworkStep
  PROVE  SyncInvariant'
  <1>1. LeaseInvariant' /\ VersionStep /\ VersionsBounded'
    BY NextInvariant, StepVersions, Zenon DEF NetworkStep, SyncInvariant
  <1>2. /\ UNCHANGED <<known, answers>>
        /\ edited' = (IF full_sync_version' # full_sync_version THEN {} ELSE edited) \cup EditedLive
    BY Zenon DEF NetworkStep
  <1>3. /\ SyncTypeOK /\ AnswersOrdered /\ KnownAgrees
        /\ \A a \in Pending : AnswerAgrees(a)
    BY Zenon DEF SyncInvariant
  <1>4. /\ known.version \in Nat
        /\ \A i \in 1 .. Len(answers) : answers[i] \in Answer /\ answers[i].version \in Nat
        /\ data_version \in Nat /\ data_version' \in Nat /\ data_version' >= data_version
        /\ full_sync_version' \in Nat
    BY <1>1, <1>3, SyncTypes, Zenon DEF LeaseInvariant, TypeOK, VersionStep
  <1>5. SyncTypeOK'
    <2>1. EditedLive \subseteq Ips \cup {None}
      <3>1. admin' # NoAdmin => /\ device_map[admin'.device].ip \in Ips \cup {None}
                                /\ device_map'[admin'.device].ip \in Ips \cup {None}
        BY <1>1, Zenon DEF LeaseInvariant, EditRevertible, TypeOK, DeviceEntry
      <3> QED
        BY <3>1, Zenon DEF EditedLive
    <2> QED
      BY <1>2, <1>3, <2>1, Zenon DEF SyncTypeOK
  <1>6. AnswersOrdered'
    <2>1. \A v \in Nat : v <= data_version => v <= data_version'
      BY <1>4
    <2>2. /\ known.version <= data_version
          /\ \A i \in 1 .. Len(answers) : answers[i].version <= data_version
      BY <1>3, Zenon DEF AnswersOrdered
    <2>3. /\ known.version <= data_version'
          /\ \A i \in 1 .. Len(answers) : answers[i].version <= data_version'
      BY <1>4, <2>1, <2>2, Zenon
    <2> QED
      BY <1>2, <1>3, <2>3, Zenon DEF AnswersOrdered
  <1>7. KnownAgrees'
    <2>1. CASE full_sync_version' # full_sync_version
      <3>1. ~(known.version >= full_sync_version')
        <4>1. full_sync_version' > data_version
          BY <1>1, <2>1, Zenon DEF VersionStep
        <4>2. known.version <= data_version
          BY <1>3, Zenon DEF AnswersOrdered
        <4> QED
          BY <1>4, <4>1, <4>2
      <3> QED
        BY <1>2, <3>1, Zenon DEF KnownAgrees
    <2>2. CASE full_sync_version' = full_sync_version
      <3> SUFFICES ASSUME known.version >= full_sync_version, NEW ip \in Ips \ edited'
                   PROVE  At(known.list, ip) = At(FullList, ip)' \/ Behind(ip, known.version)'
        BY <1>2, <2>2, Zenon DEF KnownAgrees, Agrees, At, Behind
      <3>1. ip \in Ips \ edited /\ ip \notin EditedLive /\ known.version <= data_version
        BY <1>2, <1>3, <2>2, Zenon DEF AnswersOrdered
      <3>2. Agrees(known.list, ip, known.version)
        BY <1>3, <3>1, Zenon DEF KnownAgrees
      <3> QED
        <4>1. PICK v \in Nat : v = known.version
          BY <1>4, Zenon
        <4>2. PICK list : list = known.list
          BY Zenon
        <4>3. Agrees(list, ip, v) /\ v <= data_version /\ AddressExclusive'
          BY <1>1, <3>1, <3>2, <4>1, <4>2, Zenon DEF LeaseInvariant
        <4>4. At(list, ip) = At(FullList, ip)' \/ Behind(ip, v)'
          BY <1>1, <2>2, <3>1, <4>3, AgreesStep, Zenon
        <4> QED
          BY <1>2, <4>1, <4>2, <4>4, Zenon DEF Behind
    <2> QED
      BY <2>1, <2>2, Zenon
  <1>8. (\A a \in Pending : AnswerAgrees(a))'
    <2> SUFFICES ASSUME NEW a \in Pending'
                 PROVE  AnswerAgrees(a)'
      BY Zenon
    <2>1. a \in Pending /\ a \in Answer /\ a.version <= data_version
      BY <1>2, <1>3, <1>4, Zenon DEF Pending, AnswersOrdered
    <2>2. AnswerAgrees(a)
      BY <1>3, <2>1, Zenon
    <2> QED
      BY <1>1, <1>2, <2>1, <2>2, AnswerStep, Zenon DEF LeaseInvariant
  <1> QED
    BY <1>1, <1>5, <1>6, <1>7, <1>8, Zenon DEF SyncInvariant

\* changed_client_simple_list answers the current version with items that agree.
LEMMA NewAnswer ==
  ASSUME LeaseInvariant, SyncInvariant, NEW a, NEW v \in Nat, v <= data_version,
         a = changed_client_simple_list(v)
  PROVE  a \in Answer /\ AnswerAgrees(a)
  <1>0. /\ AddressExclusive /\ TypeOK /\ data_version \in Nat /\ full_sync_version \in Nat
        /\ full_sync_version <= data_version
    BY Zenon DEF LeaseInvariant, TypeOK, SyncInvariant, VersionsBounded
  <1>1. /\ a.base = v /\ a.version = data_version /\ a.is_all = NeedsAll(v)
        /\ a.list = IF NeedsAll(v) THEN FullList ELSE ChangedList(v)
    BY Zenon DEF changed_client_simple_list
  <1>2. NeedsAll(v) <=> v < full_sync_version
    BY <1>0 DEF NeedsAll
  <1>3. FullList \subseteq Item /\ ChangedList(v) \subseteq Item
    <2>1. ASSUME NEW d \in Devices, Listed(d)
          PROVE  ItemOf(d) \in Item
      <3>1. device_map[d] \in DeviceEntry /\ device_map[d].ip # None
        BY <1>0, <2>1, Zenon DEF TypeOK, Listed
      <3> QED
        BY <3>1, Zenon DEF ItemOf, Item, DeviceEntry
    <2> QED
      BY <2>1, Zenon DEF FullList, ChangedList
  <1>4. a \in Answer
    <2>1. NeedsAll(v) \in BOOLEAN
      BY Zenon DEF NeedsAll
    <2> QED
      BY <1>0, <1>3, <2>1, Zenon DEF Answer, changed_client_simple_list
  <1>5. CASE NeedsAll(v)
    <2>1. a.is_all /\ a.list = FullList
      BY <1>1, <1>5, Zenon
    <2>2. \A ip \in Ips : Agrees(a.list, ip, a.version)
      BY <2>1, Zenon DEF Agrees
    <2> QED
      BY <1>4, <2>1, <2>2, Zenon DEF AnswerAgrees
  <1>6. CASE ~NeedsAll(v)
    <2>1. ~a.is_all /\ a.list = ChangedList(v) /\ a.base >= full_sync_version
      BY <1>0, <1>1, <1>2, <1>6
    <2>2. ASSUME NEW d \in Devices, Listed(d), device_map[d].data_version > v
          PROVE  At(ChangedList(v), device_map[d].ip) = {ItemOf(d)}
      <3>1. \A e \in Devices : Listed(e) /\ device_map[e].ip = device_map[d].ip => e = d
        BY <1>0, <2>2, OneOwner, Zenon DEF Listed
      <3> QED
        BY <2>2, <3>1 DEF At, ChangedList, ItemOf
    <2>3. ASSUME NEW ip \in Ips, At(ChangedList(v), ip) # {}
          PROVE  At(ChangedList(v), ip) = At(FullList, ip)
      <3>1. PICK d \in Devices : /\ Listed(d) /\ device_map[d].data_version > v
                                 /\ device_map[d].ip = ip
        BY <2>3 DEF At, ChangedList, ItemOf
      <3> QED
        BY <1>0, <2>2, <3>1, AtListed, Zenon
    <2>4. ASSUME NEW ip \in Ips, NEW d \in Devices, Listed(d), device_map[d].ip = ip,
                 a.base < device_map[d].data_version
          PROVE  At(a.list, ip) # {}
      <3>1. device_map[d].data_version > v
        BY <1>0, <1>1, <2>4, Zenon DEF TypeOK, DeviceEntry
      <3> QED
        BY <2>1, <2>2, <2>4, <3>1, Zenon
    <2>5. \A ip \in Ips : At(a.list, ip) # {} => Agrees(a.list, ip, a.version)
      BY <2>1, <2>3, Zenon DEF Agrees
    <2> QED
      BY <1>4, <2>1, <2>4, <2>5, Zenon DEF AnswerAgrees
  <1> QED
    BY <1>4, <1>5, <1>6, Zenon

\* What SyncInvariant says of the network does not change with the observer's own steps.
LEMMA ObserverOnly ==
  ASSUME UNCHANGED <<vars, edited>>
  PROVE  /\ \A a : AnswerAgrees(a) => AnswerAgrees(a)'
         /\ VersionsBounded => VersionsBounded'
         /\ FullList' = FullList /\ \A d \in Devices : Listed(d)' = Listed(d)
         /\ UNCHANGED <<device_map, data_version, full_sync_version, edited>>
  <1>1. UNCHANGED <<device_map, data_version, full_sync_version, admin, edited>>
    BY Zenon DEF vars
  <1>2. VersionsBounded => VersionsBounded'
    BY <1>1, Zenon DEF VersionsBounded, Has
  <1>3. \A d \in Devices : Listed(d)' = Listed(d)
    BY <1>1, Zenon DEF Listed, Has
  <1>4. FullList' = FullList
    BY <1>1, Zenon DEF FullList, Listed, Has, ItemOf
  <1>5. ASSUME NEW a, AnswerAgrees(a)
        PROVE  AnswerAgrees(a)'
    <2>1. ASSUME NEW ip, NEW v, Agrees(a.list, ip, v)
          PROVE  Agrees(a.list, ip, v)'
      BY <1>1, <1>3, <1>4, <2>1, Zenon DEF Agrees, At, Behind
    <2> QED
      BY <1>1, <1>3, <1>5, <2>1, Zenon DEF AnswerAgrees, At
  <1> QED
    BY <1>1, <1>2, <1>3, <1>4, <1>5, Zenon

\* The answer to a ping agrees with the state it was computed in, whichever version up
\* to the observer's own the ping carried.
LEMMA PingSync ==
  ASSUME LeaseInvariant, SyncInvariant, NEW v \in 0 .. known.version, Ping(v)
  PROVE  SyncInvariant'
  <1>0. /\ SyncTypeOK /\ VersionsBounded /\ AnswersOrdered /\ KnownAgrees
        /\ \A a \in Pending : AnswerAgrees(a)
        /\ data_version \in Nat
    BY Zenon DEF SyncInvariant, LeaseInvariant, TypeOK
  <1>1. PICK a : a = changed_client_simple_list(v)
    BY Zenon
  <1>2. UNCHANGED <<vars, edited>> /\ known' = known /\ answers' = Append(answers, a)
    BY <1>1, Zenon DEF Ping
  <1>3. a \in Answer /\ AnswerAgrees(a) /\ a.base = v /\ a.version = data_version
    <2>1. known.version \in Nat /\ known.version <= data_version
      BY <1>0, SyncTypes, Zenon DEF AnswersOrdered
    <2>2. v \in Nat /\ v <= data_version
      BY <1>0, <2>1
    <2> QED
      BY <1>1, <2>2, NewAnswer, Zenon DEF changed_client_simple_list
  <1>4. /\ answers' \in Seq(Answer) /\ Len(answers') = Len(answers) + 1
        /\ answers'[Len(answers) + 1] = a
        /\ \A i \in 1 .. Len(answers) : answers'[i] = answers[i]
    BY <1>0, <1>2, <1>3 DEF SyncTypeOK
  <1>5. /\ Len(answers) \in Nat /\ known.version \in Nat
        /\ \A i \in 1 .. Len(answers') : i = Len(answers) + 1 \/ i \in 1 .. Len(answers)
        /\ \A i \in 1 .. Len(answers) : answers[i].version \in Nat
    BY <1>0, <1>4, SyncTypes
  <1>6. UNCHANGED <<device_map, data_version, full_sync_version, edited>> /\ VersionsBounded'
    BY <1>0, <1>2, ObserverOnly, Zenon
  <1>7. SyncTypeOK'
    BY <1>0, <1>2, <1>4, <1>6, Zenon DEF SyncTypeOK
  <1>8. AnswersOrdered'
    <2>1. ASSUME NEW i \in 1 .. Len(answers')
          PROVE  /\ answers'[i].base <= known.version /\ known.version <= answers'[i].version
                 /\ answers'[i].version <= data_version
      <3>1. CASE i = Len(answers) + 1
        BY <1>0, <1>3, <1>4, <1>5, <3>1 DEF AnswersOrdered
      <3>2. CASE i \in 1 .. Len(answers)
        BY <1>0, <1>4, <3>2, Zenon DEF AnswersOrdered
      <3> QED
        BY <1>5, <3>1, <3>2, Zenon
    <2>2. ASSUME NEW i \in 1 .. Len(answers'), NEW j \in 1 .. Len(answers'), i <= j
          PROVE  answers'[i].version <= answers'[j].version
      <3>1. CASE j = Len(answers) + 1
        BY <1>3, <1>4, <2>1, <3>1, Zenon
      <3>2. CASE j \in 1 .. Len(answers)
        <4>1. i \in 1 .. Len(answers)
          BY <1>5, <2>2, <3>2
        <4> QED
          BY <1>0, <1>4, <2>2, <3>2, <4>1, Zenon DEF AnswersOrdered
      <3> QED
        BY <1>5, <3>1, <3>2, Zenon
    <2> QED
      BY <1>0, <1>2, <1>6, <2>1, <2>2, Zenon DEF AnswersOrdered
  <1>9. KnownAgrees'
    <2>1. FullList' = FullList /\ \A d \in Devices : Listed(d)' = Listed(d)
      BY <1>2, ObserverOnly, Zenon
    <2> QED
      BY <1>0, <1>2, <1>6, <2>1, Zenon DEF KnownAgrees, Agrees, At, Behind
  <1>10. (\A b \in Pending : AnswerAgrees(b))'
    <2> SUFFICES ASSUME NEW b \in Pending'
                 PROVE  AnswerAgrees(b)'
      BY Zenon
    <2>1. b = a \/ b \in Pending
      BY <1>4, <1>5, Zenon DEF Pending
    <2>2. AnswerAgrees(b)
      BY <1>0, <1>3, <2>1, Zenon
    <2> QED
      BY <1>2, <2>2, ObserverOnly, Zenon
  <1> QED
    BY <1>6, <1>7, <1>8, <1>9, <1>10, Zenon DEF SyncInvariant

\* Merging an answer in order keeps the agreement: what it does not mention did not
\* change between the version it was asked for and its own.
LEMMA ReceiveSync ==
  ASSUME LeaseInvariant, SyncInvariant, Receive
  PROVE  SyncInvariant'
  <1>0. /\ SyncTypeOK /\ VersionsBounded /\ AnswersOrdered /\ KnownAgrees
        /\ \A a \in Pending : AnswerAgrees(a)
        /\ data_version \in Nat /\ full_sync_version \in Nat
        /\ \A d \in Devices : device_map[d].data_version \in Nat
    BY Zenon DEF SyncInvariant, LeaseInvariant, TypeOK, DeviceEntry
  <1>1. answers \in Seq(Answer) /\ answers # <<>> /\ answers' = Tail(answers)
    BY <1>0, Zenon DEF Receive, SyncTypeOK
  <1>2. /\ Len(answers) \in Nat /\ 1 \in 1 .. Len(answers) /\ answers' \in Seq(Answer)
        /\ Len(answers') = Len(answers) - 1
        /\ \A i \in 1 .. Len(answers') : answers'[i] = answers[i + 1]
    BY <1>1
  <1>3. PICK a \in Answer : a = answers[1] /\ a = Head(answers)
    BY <1>1, <1>2
  <1>4. /\ AnswerAgrees(a) /\ a.version \in Nat /\ a.base \in Nat /\ known.version \in Nat
        /\ a.base <= known.version /\ known.version <= a.version /\ a.version <= data_version
    BY <1>0, <1>2, <1>3, SyncTypes, Zenon DEF AnswersOrdered, Pending
  <1> DEFINE Untouched == {r \in known.list : \A c \in a.list : c.ip # r.ip}
             list == IF a.is_all THEN a.list ELSE Untouched \cup a.list
  <1>5. UNCHANGED <<vars, edited>> /\ known' = [version |-> a.version, list |-> list]
    BY <1>3, Zenon DEF Receive
  <1>6. UNCHANGED <<device_map, data_version, full_sync_version, edited>> /\ VersionsBounded'
    BY <1>0, <1>5, ObserverOnly, Zenon
  <1>7. SyncTypeOK'
    <2>1. list \subseteq Item
      BY <1>0, SyncTypes, Zenon DEF Answer
    <2> HIDE DEF list
    <2> QED
      BY <1>0, <1>2, <1>4, <1>5, <1>6, <2>1, Zenon DEF SyncTypeOK
  <1>8. AnswersOrdered'
    <2>1. ASSUME NEW i \in 1 .. Len(answers')
          PROVE  /\ i + 1 \in 1 .. Len(answers) /\ 1 <= i + 1
                 /\ answers[i + 1].version \in Nat /\ answers[i + 1].base \in Nat
      <3>1. i + 1 \in 1 .. Len(answers) /\ 1 <= i + 1
        BY <1>2
      <3> QED
        BY <1>0, <3>1, SyncTypes, Zenon
    <2>2. ASSUME NEW i \in 1 .. Len(answers')
          PROVE  /\ answers'[i].base <= a.version /\ a.version <= answers'[i].version
                 /\ answers'[i].version <= data_version
      <3>1. answers[i + 1].base <= known.version /\ answers[i + 1].version <= data_version
        BY <1>0, <2>1, Zenon DEF AnswersOrdered
      <3>2. a.version <= answers[i + 1].version
        BY <1>0, <1>2, <1>3, <2>1, Zenon DEF AnswersOrdered
      <3>3. answers'[i] = answers[i + 1]
        BY <1>2, Zenon
      <3>4. answers[i + 1].base <= a.version
        BY <1>4, <2>1, <3>1
      <3> QED
        BY <3>1, <3>2, <3>3, <3>4, Zenon
    <2>3. ASSUME NEW i \in 1 .. Len(answers'), NEW j \in 1 .. Len(answers'), i <= j
          PROVE  answers'[i].version <= answers'[j].version
      <3>1. i + 1 <= j + 1
        BY <2>3
      <3> QED
        BY <1>0, <1>2, <2>1, <3>1, Zenon DEF AnswersOrdered
    <2>4. known'.version = a.version
      BY <1>5, Zenon
    <2> QED
      BY <1>4, <1>6, <2>2, <2>3, <2>4, Zenon DEF AnswersOrdered
  <1>9. ASSUME a.version >= full_sync_version, NEW ip \in Ips \ edited
        PROVE  Agrees(list, ip, a.version)
    <2>1. CASE a.is_all
      BY <1>4, <1>9, <2>1, Zenon DEF AnswerAgrees
    <2>2. CASE ~a.is_all /\ At(a.list, ip) # {}
      <3>1. At(list, ip) = At(a.list, ip)
        BY <2>2, Zenon DEF At
      <3>2. Agrees(a.list, ip, a.version)
        BY <1>4, <1>9, <2>2, Zenon DEF AnswerAgrees
      <3> QED
        BY <3>1, <3>2, Zenon DEF Agrees
    <2>3. CASE ~a.is_all /\ At(a.list, ip) = {}
      <3>1. At(list, ip) = At(known.list, ip)
        BY <2>3, Zenon DEF At
      <3>2. known.version >= full_sync_version
        <4>1. a.base >= full_sync_version
          BY <1>4, <1>9, <2>3, Zenon DEF AnswerAgrees
        <4> QED
          BY <1>0, <1>4, <4>1
      <3>3. Agrees(known.list, ip, known.version)
        BY <1>0, <1>9, <3>2, Zenon DEF KnownAgrees
      <3>4. ASSUME Behind(ip, known.version)
            PROVE  Behind(ip, a.version)
        <4>1. PICK d \in Devices : /\ Listed(d) /\ device_map[d].ip = ip
                                   /\ device_map[d].data_version > known.version
          BY <3>4, Zenon DEF Behind
        <4>2. device_map[d].data_version \in Nat /\ a.base < device_map[d].data_version
          BY <1>0, <1>4, <4>1
        <4>3. ~(device_map[d].data_version <= a.version)
          BY <1>4, <1>9, <2>3, <4>1, <4>2, Zenon DEF AnswerAgrees
        <4>4. device_map[d].data_version > a.version
          BY <1>4, <4>2, <4>3
        <4> QED
          BY <4>1, <4>4, Zenon DEF Behind
      <3> QED
        BY <3>1, <3>3, <3>4, Zenon DEF Agrees
    <2> QED
      BY <2>1, <2>2, <2>3, Zenon
  <1>10. KnownAgrees'
    <2>1. known'.version = a.version /\ known'.list = list
      BY <1>5, Zenon
    <2>2. FullList' = FullList /\ \A d \in Devices : Listed(d)' = Listed(d)
      BY <1>5, ObserverOnly, Zenon
    <2> HIDE DEF list
    <2> QED
      BY <1>6, <1>9, <2>1, <2>2, Zenon DEF KnownAgrees, Agrees, At, Behind
  <1>11. (\A b \in Pending : AnswerAgrees(b))'
    <2> SUFFICES ASSUME NEW b \in Pending'
                 PROVE  AnswerAgrees(b)'
      BY Zenon
    <2>1. PICK i \in 1 .. Len(answers') : b = answers'[i]
      BY Zenon DEF Pending
    <2>2. i + 1 \in 1 .. Len(answers) /\ b = answers[i + 1]
      BY <1>2, <2>1
    <2>3. AnswerAgrees(b)
      BY <1>0, <2>2, Zenon DEF Pending
    <2> QED
      BY <1>5, <2>3, ObserverOnly, Zenon
  <1> QED
    BY <1>6, <1>7, <1>8, <1>10, <1>11, Zenon DEF SyncInvariant

\* The invariants hold initially.
LEMMA SyncInitInvariant == SyncInit => LeaseInvariant /\ SyncInvariant
  <1> SUFFICES ASSUME SyncInit PROVE LeaseInvariant /\ SyncInvariant
    BY Zenon
  <1>1. LeaseInvariant
    BY InitInvariant, Zenon DEF SyncInit
  <1>2. /\ known.version = 0 /\ known.list = {} /\ answers = <<>> /\ edited = {}
        /\ known \in [version : Nat, list : SUBSET Item]
        /\ data_version = 0 /\ full_sync_version = 0 /\ admin = NoAdmin
        /\ \A d \in Devices : device_map[d] = NoEntry
    BY Zenon DEF SyncInit, Init
  <1>3. SyncTypeOK /\ AnswersOrdered
    <2>1. Len(answers) = 0 /\ answers \in Seq(Answer)
      BY <1>2
    <2>2. SyncTypeOK
      BY <1>2, <2>1, Zenon DEF SyncTypeOK
    <2>3. AnswersOrdered
      BY <1>2, <2>1 DEF AnswersOrdered
    <2> QED
      BY <2>2, <2>3, Zenon
  <1>4. VersionsBounded
    BY <1>2 DEF VersionsBounded, NoAdmin, NoEntry, Has
  <1>5. FullList = {}
    <2>1. ~NoEntry.present
      BY Zenon DEF NoEntry
    <2>2. \A d \in Devices : ~Listed(d)
      BY <1>2, <2>1, Zenon DEF Listed, Has
    <2> QED
      BY <2>2, Zenon DEF FullList
  <1>6. KnownAgrees
    BY <1>2, <1>5, Zenon DEF KnownAgrees, Agrees, At
  <1> QED
    BY <1>1, <1>2, <1>3, <1>4, <1>6 DEF SyncInvariant, Pending

\* Every step keeps both invariants.
LEMMA SyncNextInvariant ==
  ASSUME NoRollback, LeaseInvariant, SyncInvariant, [SyncNext]_allVars
  PROVE  LeaseInvariant' /\ SyncInvariant'
  <1>1. LeaseInvariant'
    BY NextInvariant, Zenon DEF SyncNext, NetworkStep, Ping, Receive, allVars
  <1>2. CASE UNCHANGED allVars
    <2>1. UNCHANGED <<vars, edited>> /\ UNCHANGED <<known, answers>>
      BY <1>2, Zenon DEF allVars, syncVars
    <2>2. /\ UNCHANGED <<device_map, data_version, full_sync_version, edited>>
          /\ VersionsBounded'
      BY <2>1, ObserverOnly, Zenon DEF SyncInvariant
    <2>3. SyncTypeOK' /\ AnswersOrdered'
      BY <2>1, <2>2, Zenon DEF SyncInvariant, SyncTypeOK, AnswersOrdered
    <2>4. KnownAgrees'
      <3>1. FullList' = FullList /\ \A d \in Devices : Listed(d)' = Listed(d)
        BY <2>1, ObserverOnly, Zenon
      <3> QED
        BY <2>1, <2>2, <3>1, Zenon DEF SyncInvariant, KnownAgrees, Agrees, At, Behind
    <2>5. ASSUME NEW a \in Pending'
          PROVE  AnswerAgrees(a)'
      <3>1. a \in Pending
        BY <2>1, Zenon DEF Pending
      <3>2. AnswerAgrees(a)
        BY <3>1, Zenon DEF SyncInvariant
      <3> QED
        BY <2>1, <3>2, ObserverOnly, Zenon
    <2> QED
      BY <1>1, <2>2, <2>3, <2>4, <2>5, Zenon DEF SyncInvariant
  <1> QED
    BY <1>1, <1>2, NetworkStepSync, PingSync, ReceiveSync, Zenon DEF SyncNext

\* Without rolled-back managed edits, the observer's version, list and pending answers
\* always agree with the network in the sense of SyncInvariant.
THEOREM SyncInductive ==
  ASSUME NoRollback
  PROVE  SyncSpec => []SyncInvariant
  <1>1. SyncInit => LeaseInvariant /\ SyncInvariant
    BY SyncInitInvariant, Zenon
  <1>2. (LeaseInvariant /\ SyncInvariant) /\ [SyncNext]_allVars
          => (LeaseInvariant /\ SyncInvariant)'
    BY SyncNextInvariant, Zenon
  <1> QED
    BY <1>1, <1>2, PTL DEF SyncSpec

\* changed_client_simple_list never leaves a client that is up to date by its version
\* with a wrong item, a missing one, or one that should be gone.
THEOREM ListExactAlways ==
  ASSUME NoRollback
  PROVE  SyncSpec => []ListExact
  <1>1. LeaseInvariant /\ SyncInvariant => ListExact
    <2> SUFFICES ASSUME LeaseInvariant, SyncInvariant, known.version = data_version,
                        NEW ip \in Ips \ edited
                 PROVE  At(known.list, ip) = At(FullList, ip)
      BY Zenon DEF ListExact
    <2>1. /\ data_version \in Nat /\ full_sync_version \in Nat
          /\ full_sync_version <= data_version
          /\ \A d \in Devices : /\ device_map[d].data_version \in Nat
                                /\ device_map[d].data_version <= data_version
      BY Zenon DEF LeaseInvariant, TypeOK, DeviceEntry, SyncInvariant, VersionsBounded
    <2>2. ~Behind(ip, known.version)
      <3>1. \A d \in Devices : ~(device_map[d].data_version > known.version)
        BY <2>1
      <3> QED
        BY <3>1, Zenon DEF Behind
    <2>3. Agrees(known.list, ip, known.version)
      BY <2>1, Zenon DEF SyncInvariant, KnownAgrees
    <2> QED
      BY <2>2, <2>3, Zenon DEF Agrees
  <1>2. SyncInit => LeaseInvariant /\ SyncInvariant
    BY SyncInitInvariant, Zenon
  <1>3. (LeaseInvariant /\ SyncInvariant) /\ [SyncNext]_allVars
          => (LeaseInvariant /\ SyncInvariant)'
    BY SyncNextInvariant, Zenon
  <1> QED
    BY <1>1, <1>2, <1>3, PTL DEF SyncSpec
-----------------------------------------------------------------------------
(* The online flag follows the links.                                       *)

\* Clients register in one phase, as the tunnel engines and older clients do.
NoPreRegister == "PreRegister" \notin RegModes

AllConfirmed == \A s \in Sessions : session[s].phase \notin {"pending", "releasing"}

\* The links of a pool are of the device that created it, published or not; so is the
\* last link that was removed from it.
LinksTogether ==
    \A p \in Sessions : \A s \in links[p] :
        session[p].phase # "none" /\ session[s].device = session[p].device
DrainsOwn ==
    \A s \in Sessions : session[s].phase = "draining" =>
        /\ session[session[s].pool].phase # "none"
        /\ session[session[s].pool].device = session[s].device

\* A device with a live lease is online, also after the edit under way is taken back.
LeasesOnline ==
    \A ip \in Ips : active_ip_map[ip] # None =>
        /\ device_map[active_ip_map[ip]].is_connected
        /\ active_ip_map[ip] = admin.device => admin.previous.is_connected

OnlineInvariant == AllConfirmed /\ LinksTogether /\ DrainsOwn /\ LeasesOnline

\* Steps that add no link: what they may do to the sessions.
LEMMA PoolsFrame ==
  ASSUME TypeOK, SessionsNamed, OnlineInvariant,
         \A p \in Sessions : links'[p] \subseteq links[p],
         \A t \in Sessions :
            /\ session'[t].device = session[t].device
            /\ session[t].phase # "none" => session'[t].phase # "none"
            /\ session'[t].phase \notin {"pending", "releasing"}
            /\ session'[t].phase = "draining" =>
                 \/ session[t].phase = "draining" /\ session'[t].pool = session[t].pool
                 \/ session'[t].pool \in Sessions /\ t \in links[session'[t].pool]
  PROVE  AllConfirmed' /\ LinksTogether' /\ DrainsOwn'
  <1>1. AllConfirmed'
    BY Zenon DEF AllConfirmed
  <1>2. LinksTogether'
    BY DEF OnlineInvariant, LinksTogether, TypeOK
  <1>3. ASSUME NEW t \in Sessions, session'[t].phase = "draining"
        PROVE  /\ session'[session'[t].pool].phase # "none"
               /\ session'[session'[t].pool].device = session'[t].device
    <2>1. PICK q : q = session'[t].pool
      BY Zenon
    <2>2. q \in Sessions /\ session[q].phase # "none" /\ session[q].device = session[t].device
      BY <1>3, <2>1, Zenon DEF OnlineInvariant, LinksTogether, DrainsOwn, SessionsNamed
    <2> QED BY <2>1, <2>2, Zenon
  <1>4. DrainsOwn'
    BY <1>3, Zenon DEF DrainsOwn
  <1> QED BY <1>1, <1>2, <1>4, Zenon

\* Steps that give out no lease: no device that keeps one goes offline.
LEMMA LeasesFrame ==
  ASSUME OnlineInvariant, admin' \in {admin, NoAdmin},
         \A ip \in Ips : active_ip_map'[ip] # None =>
            /\ active_ip_map'[ip] = active_ip_map[ip]
            /\ device_map[active_ip_map[ip]].is_connected => device_map'[active_ip_map[ip]].is_connected
  PROVE  LeasesOnline'
  BY DEF OnlineInvariant, LeasesOnline, NoAdmin

\* A session that has begun publishes a pool of its own.
LEMMA PublishOnline ==
  ASSUME LeaseInvariant, OnlineInvariant, LockFree,
         NEW s \in Sessions, NEW d \in Devices, NEW ct \in ClientTypes,
         NEW i \in Instances \cup {None}, NEW ip \in Ips,
         session[s].phase = "none", Publish(s, d, ct, i, ip, "Normal")
  PROVE  OnlineInvariant'
  <1> USE NetworkAssumption
  <1>1. TypeOK /\ LinksRegistered /\ SessionsNamed /\ admin = NoAdmin /\ admin' = admin
    BY Zenon DEF LeaseInvariant, LockFree, Publish
  <1>2. /\ \A t \in Sessions : t # s => session'[t] = session[t]
        /\ session'[s].phase = "confirmed" /\ session'[s].device = d
    BY <1>1, Zenon DEF Publish, TypeOK, Opened
  <1>3. \A p \in Sessions : links'[p] = IF p = s THEN {s} ELSE links[p]
    BY <1>1, Zenon DEF Publish, TypeOK
  <1>4. AllConfirmed'
    BY <1>2, Zenon DEF OnlineInvariant, AllConfirmed
  <1>5. LinksTogether'
    <2>1. ASSUME NEW p \in Sessions, NEW t \in links'[p]
          PROVE  session'[p].phase # "none" /\ session'[t].device = session'[p].device
      <3>1. CASE p = s
        BY <1>2, <1>3, <2>1, <3>1
      <3>2. CASE p # s
        <4>1. t \in links[p] /\ t \in Sessions /\ t # s
          BY <1>1, <1>3, <2>1, <3>2 DEF TypeOK, LinksRegistered
        <4> QED BY <1>2, <3>2, <4>1 DEF OnlineInvariant, LinksTogether
      <3> QED BY <3>1, <3>2, Zenon
    <2> QED BY <2>1, Zenon DEF LinksTogether
  <1>6. DrainsOwn'
    <2>1. ASSUME NEW t \in Sessions, session'[t].phase = "draining"
          PROVE  /\ session'[session'[t].pool].phase # "none"
                 /\ session'[session'[t].pool].device = session'[t].device
      <3>1. t # s /\ session'[t] = session[t] /\ session[t].pool \in Sessions
        BY <1>1, <1>2, <2>1, Zenon DEF SessionsNamed
      <3>2. session[t].pool # s
        BY <2>1, <3>1, Zenon DEF OnlineInvariant, DrainsOwn
      <3> QED BY <1>2, <2>1, <3>1, <3>2 DEF OnlineInvariant, DrainsOwn
    <2> QED BY <2>1, Zenon DEF DrainsOwn
  <1>7. LeasesOnline'
    <2>1. device_map'[d].is_connected /\ \A x \in Devices : x # d => device_map'[x] = device_map[x]
      BY <1>1 DEF Publish, TypeOK, Connected, DeviceEntry
    <2>2. \A j \in Ips : active_ip_map'[j] \in {None, d, active_ip_map[j]}
      BY Zenon DEF Publish
    <2>3. \A j \in Ips : active_ip_map[j] # None => active_ip_map[j] \in Devices
      BY <1>1, Zenon DEF TypeOK
    <2> QED BY <1>1, <2>1, <2>2, <2>3, ZenonT(30) DEF OnlineInvariant, LeasesOnline, NoAdmin
  <1> QED BY <1>4, <1>5, <1>6, <1>7, Zenon DEF OnlineInvariant

\* Without pre-registrations a published pool is its lease holder's.
LEMMA PublishedLeased ==
  ASSUME LeaseInvariant, OnlineInvariant, NEW ip \in Ips, sender_map[ip] # None
  PROVE  /\ sender_map[ip] \in Sessions /\ active_ip_map[ip] \in Devices
         /\ session[sender_map[ip]].phase # "none"
         /\ session[sender_map[ip]].device = active_ip_map[ip]
         /\ \A s \in links[sender_map[ip]] : session[s].device = active_ip_map[ip]
  <1>1. ~ BeingReleased(ip)
    BY Zenon DEF OnlineInvariant, AllConfirmed, BeingReleased
  <1>2. TypeOK /\ PoolsMatchLeases /\ LinksRegistered
    BY Zenon DEF LeaseInvariant
  <1>3. active_ip_map[ip] # None
    BY <1>1, <1>2, Zenon DEF PoolsMatchLeases
  <1> QED BY <1>2, <1>3, Zenon DEF PoolsMatchLeases, TypeOK, LinksRegistered

\* A link of the same client instance joins the pool.
LEMMA JoinPoolOnline ==
  ASSUME LeaseInvariant, OnlineInvariant,
         NEW s \in Sessions, NEW d \in Devices, NEW ct \in ClientTypes,
         NEW i \in Instances \cup {None}, NEW r \in Ips \cup {None},
         session[s].phase = "none", JoinPool(s, d, ct, i, r, "Normal")
  PROVE  OnlineInvariant'
  <1> USE NetworkAssumption
  <1>1. TypeOK /\ LinksRegistered /\ SessionsNamed /\ AddressExclusive
    BY Zenon DEF LeaseInvariant
  <1>2. /\ r \in Ips /\ r = device_map[d].ip /\ sender_map[r] # None
        /\ links' = [links EXCEPT ![sender_map[r]] = @ \cup {s}]
        /\ session' = [session EXCEPT ![s] = Opened(d, ct, i, r, "Normal")]
        /\ UNCHANGED <<device_map, active_ip_map, admin>>
    BY Zenon DEF JoinPool, Joinable, leaseVars
  <1>3. PICK p \in Sessions : p = sender_map[r]
    BY <1>1, <1>2, Zenon DEF TypeOK
  <1>4. active_ip_map[r] \in {None, d}
    BY <1>1, <1>2, OwnAddress, Zenon
  <1>5. session[p].phase # "none" /\ session[p].device = d /\ p # s
    <2>1. /\ active_ip_map[r] \in Devices /\ session[p].phase # "none"
          /\ session[p].device = active_ip_map[r]
      BY <1>2, <1>3, PublishedLeased, Zenon
    <2>2. None \notin Devices
      BY Zenon DEF NetworkAssumption
    <2> QED BY <1>4, <2>1, <2>2, Zenon
  <1>6. /\ \A t \in Sessions : t # s => session'[t] = session[t]
        /\ session'[s].phase = "confirmed" /\ session'[s].device = d
    BY <1>1, <1>2, Zenon DEF TypeOK, Opened
  <1>7. \A q \in Sessions : links'[q] = IF q = p THEN links[p] \cup {s} ELSE links[q]
    BY <1>1, <1>2, <1>3, Zenon DEF TypeOK
  <1>8. AllConfirmed'
    BY <1>6, Zenon DEF OnlineInvariant, AllConfirmed
  <1>9. LinksTogether'
    <2>1. ASSUME NEW q \in Sessions, NEW t \in links'[q]
          PROVE  session'[q].phase # "none" /\ session'[t].device = session'[q].device
      <3>1. CASE q = p /\ t = s
        BY <1>5, <1>6, <3>1, Zenon
      <3>2. CASE t \in links[q]
        <4>1. t \in Sessions /\ t # s /\ q # s
          BY <1>1, <3>2 DEF TypeOK, LinksRegistered, OnlineInvariant, LinksTogether
        <4> QED BY <1>6, <3>2, <4>1 DEF OnlineInvariant, LinksTogether
      <3> QED BY <1>7, <2>1, <3>1, <3>2
    <2> QED BY <2>1, Zenon DEF LinksTogether
  <1>10. DrainsOwn'
    <2>1. ASSUME NEW t \in Sessions, session'[t].phase = "draining"
          PROVE  /\ session'[session'[t].pool].phase # "none"
                 /\ session'[session'[t].pool].device = session'[t].device
      <3>1. t # s /\ session'[t] = session[t] /\ session[t].pool \in Sessions
        BY <1>1, <1>6, <2>1, Zenon DEF SessionsNamed
      <3>2. session[t].pool # s
        BY <2>1, <3>1, Zenon DEF OnlineInvariant, DrainsOwn
      <3> QED BY <1>6, <2>1, <3>1 DEF OnlineInvariant, DrainsOwn
    <2> QED BY <2>1, Zenon DEF DrainsOwn
  <1>11. LeasesOnline'
    BY <1>2, Zenon DEF OnlineInvariant, LeasesOnline
  <1> QED BY <1>8, <1>9, <1>10, <1>11, Zenon DEF OnlineInvariant

\* The ways a registration allocates an address.
LEMMA Allocates ==
  ASSUME LeaseInvariant, NEW s \in Sessions, NEW d \in Devices, NEW ct \in ClientTypes,
         NEW i \in Instances \cup {None}, NEW r \in Ips \cup {None},
         NEW var \in BOOLEAN, NEW mode \in RegModes, Register(s, d, ct, i, r, var, mode)
  PROVE  /\ LockFree /\ session[s].phase = "none"
         /\ \/ JoinPool(s, d, ct, i, r, mode)
            \/ \E ip \in Ips : ~conflicting_ip_owner(ip, d) /\ Publish(s, d, ct, i, ip, mode)
  <1> USE NetworkAssumption
  <1>1. TypeOK /\ AddressExclusive /\ LockFree /\ session[s].phase = "none"
    BY Zenon DEF LeaseInvariant, Register, MayRegister
  <1>2. CASE Reclaim(s, d, ct, i, r, mode)
    <2>1. /\ device_map[d].ip # None /\ ~conflicting_ip_owner(device_map[d].ip, d)
          /\ Publish(s, d, ct, i, device_map[d].ip, mode)
      BY <1>2, Zenon DEF Reclaim
    <2>2. device_map[d].ip \in Ips
      BY <1>1, <2>1, Zenon DEF AddressExclusive
    <2> QED BY <1>1, <2>1, <2>2, Zenon
  <1>3. CASE ReclaimFails(s, d, ct, i, r, mode)
    <2>1. device_map[d].ip # None /\ conflicting_ip_owner(device_map[d].ip, d)
      BY <1>3, Zenon DEF ReclaimFails
    <2>2. device_map[d].ip \in Ips /\ device_ip_map[device_map[d].ip] = d /\ d # None
      BY <1>1, <2>1, ZenonT(30) DEF AddressExclusive
    <2>3. active_ip_map[device_map[d].ip] \in {None, d}
      BY <1>1, <2>2, Zenon DEF AddressExclusive
    <2> QED BY <2>1, <2>2, <2>3, Zenon DEF conflicting_ip_owner
  <1>4. CASE TakeExpected(s, d, ct, i, r, mode)
    BY <1>1, <1>4, Zenon DEF TakeExpected
  <1>5. CASE TakeAvailable(s, d, ct, i, r, var, mode)
    <2>1. PICK ip \in Ips : find_available_ip(ip) /\ Publish(s, d, ct, i, ip, mode)
      BY <1>5, Zenon DEF TakeAvailable
    <2>2. ~conflicting_ip_owner(ip, d)
      BY <2>1, Zenon DEF find_available_ip, Free, conflicting_ip_owner
    <2> QED BY <1>1, <2>1, <2>2, Zenon
  <1> QED BY <1>1, <1>2, <1>3, <1>4, <1>5, Zenon DEF Register

\* A registration makes its device online before anybody can reach it.
LEMMA RegisterOnline ==
  ASSUME NoPreRegister, LeaseInvariant, OnlineInvariant, RegisterStep
  PROVE  OnlineInvariant'
  <1>1. PICK s \in Sessions, d \in Devices, ct \in ClientTypes, i \in Instances \cup {None},
             r \in Ips \cup {None}, var \in BOOLEAN, mode \in RegModes :
               Register(s, d, ct, i, r, var, mode)
    BY Zenon DEF RegisterStep
  <1>2. mode = "Normal"
    BY NetworkAssumption, Zenon DEF NoPreRegister
  <1>3. /\ LockFree /\ session[s].phase = "none"
        /\ \/ JoinPool(s, d, ct, i, r, "Normal")
           \/ \E ip \in Ips : ~conflicting_ip_owner(ip, d) /\ Publish(s, d, ct, i, ip, "Normal")
    BY <1>1, <1>2, Allocates, Zenon
  <1> QED BY <1>3, JoinPoolOnline, PublishOnline, Zenon

\* Only the session changes its place, or its address.
LEMMA MovingOnline ==
  ASSUME LeaseInvariant, OnlineInvariant, NEW s \in Sessions, NEW new \in Ips,
         session' = [session EXCEPT ![s].ip = new]
  PROVE  \A t \in Sessions :
            /\ session'[t].device = session[t].device /\ session'[t].phase = session[t].phase
            /\ session'[t].pool = session[t].pool /\ session'[t].inst = session[t].inst
            /\ t # s => session'[t] = session[t]
  <1>1. session \in [Sessions -> Session]
    BY Zenon DEF LeaseInvariant, TypeOK
  <1>2. session[s] \in Session
    BY <1>1, Zenon
  <1>3. session' = [session EXCEPT ![s] = [session[s] EXCEPT !.ip = new]]
    BY <1>1, Zenon
  <1>4. [session[s] EXCEPT !.ip = new] =
          [phase |-> session[s].phase, device |-> session[s].device, inst |-> session[s].inst,
           ip |-> new, client_type |-> session[s].client_type, pool |-> session[s].pool]
    BY <1>2 DEF Session
  <1> QED BY <1>1, <1>4, Zenon

\* A session that moves or ends turns its device offline only when it drained the pool that
\* is published at the device's lease.
LEMMA SessionOnline ==
  ASSUME LeaseInvariant, OnlineInvariant, NEW s \in Sessions, SessionStep(s)
  PROVE  OnlineInvariant'
  <1> USE NetworkAssumption
  <1>a. /\ TypeOK /\ SessionsNamed /\ SingleLease
        /\ AllConfirmed /\ LinksTogether /\ DrainsOwn /\ LeasesOnline
    BY Zenon DEF LeaseInvariant, OnlineInvariant
  <1>b. session[s].phase \notin {"pending", "releasing"}
    BY <1>a, Zenon DEF AllConfirmed
  <1>1. ASSUME NEW new \in Ips, FastRegisterAgain(s, new) \/ FollowPool(s, new)
        PROVE  OnlineInvariant'
    <2>1. /\ session' = [session EXCEPT ![s].ip = new]
          /\ UNCHANGED <<device_map, active_ip_map, links, admin>>
      BY <1>1, Zenon DEF FastRegisterAgain, FollowPool, leaseVars, poolVars
    <2>2. AllConfirmed' /\ LinksTogether' /\ DrainsOwn'
      BY <1>a, <2>1, MovingOnline, PoolsFrame, Zenon DEF AllConfirmed
    <2>3. LeasesOnline'
      BY <2>1, LeasesFrame, Zenon
    <2> QED BY <2>2, <2>3, Zenon DEF OnlineInvariant
  <1>2. ASSUME NEW new \in Ips, FastRegisterMove(s, new)
        PROVE  OnlineInvariant'
    <2>1. PICK d : d = session[s].device
      BY Zenon
    <2>2. /\ session' = [session EXCEPT ![s].ip = new]
          /\ device_map' = [device_map EXCEPT ![d].ip = new, ![d].data_version = data_version + 1]
          /\ UNCHANGED <<links, admin>>
          /\ admin = NoAdmin /\ device_map[d].is_connected
          /\ \A j \in Ips : active_ip_map'[j] \in {None, d, active_ip_map[j]}
      BY <1>2, <2>1, Zenon DEF FastRegisterMove, FastCaller, LockFree
    <2>3. d \in Devices
      BY <1>2, <1>a, <2>1, Zenon DEF FastRegisterMove, FastCaller, SessionsNamed
    <2>4. \A x \in Devices : device_map'[x].is_connected = device_map[x].is_connected
      BY <1>a, <2>2, <2>3 DEF TypeOK, DeviceEntry
    <2>5. AllConfirmed' /\ LinksTogether' /\ DrainsOwn'
      BY <1>a, <2>2, MovingOnline, PoolsFrame, Zenon DEF AllConfirmed
    <2>6. \A j \in Ips : active_ip_map[j] # None => active_ip_map[j] \in Devices
      BY <1>a, Zenon DEF TypeOK
    <2>7. LeasesOnline'
      BY <1>a, <2>2, <2>3, <2>4, <2>6, Zenon DEF LeasesOnline, NoAdmin
    <2> QED BY <2>5, <2>7, Zenon DEF OnlineInvariant
  <1>3. ASSUME NEW e \in Session, session' = [session EXCEPT ![s] = e],
               session[s].phase # "none", e.device = session[s].device,
               e.phase \in {"gone", "leaving", "draining"},
               e.phase = "draining" => e.pool \in Sessions /\ s \in links[e.pool],
               \A p \in Sessions : links'[p] \subseteq links[p]
        PROVE  AllConfirmed' /\ LinksTogether' /\ DrainsOwn'
    <2>1. \A t \in Sessions : session'[t] = IF t = s THEN e ELSE session[t]
      BY <1>a, <1>3, Zenon DEF TypeOK
    <2>2. \A t \in Sessions :
            /\ session'[t].device = session[t].device
            /\ session[t].phase # "none" => session'[t].phase # "none"
            /\ session'[t].phase \notin {"pending", "releasing"}
            /\ session'[t].phase = "draining" =>
                 \/ session[t].phase = "draining" /\ session'[t].pool = session[t].pool
                 \/ session'[t].pool \in Sessions /\ t \in links[session'[t].pool]
      BY <1>a, <1>3, <2>1, ZenonT(30) DEF AllConfirmed
    <2> QED BY <1>a, <1>3, <2>2, PoolsFrame, Zenon
  <1>4. CASE OfflineLookup(s)
    <2>1. PICK p : p = sender_map[session[s].ip]
      BY Zenon
    <2>2. /\ session[s].phase = "confirmed"
          /\ session' = [session EXCEPT ![s] = IF p = None THEN Closed(s)
                                               ELSE [session[s] EXCEPT !.phase = "leaving", !.pool = p]]
          /\ UNCHANGED <<device_map, active_ip_map, links, admin>>
      BY <1>4, <2>1, Zenon DEF OfflineLookup, leaseVars, poolVars
    <2>3. session[s].ip \in Ips /\ p \in Sessions \cup {None} /\ session[s] \in Session
      BY <1>a, <2>1, <2>2, Zenon DEF SessionsNamed, TypeOK
    <2>4. PICK e : e = IF p = None THEN Closed(s) ELSE [session[s] EXCEPT !.phase = "leaving", !.pool = p]
      BY Zenon
    <2>5. e \in Session /\ e.device = session[s].device /\ e.phase \in {"gone", "leaving"}
      BY <1>a, <2>3, <2>4, ClosedFacts, Zenon DEF Session
    <2>6. AllConfirmed' /\ LinksTogether' /\ DrainsOwn'
      <3>1. session' = [session EXCEPT ![s] = e]
        BY <2>2, <2>4, Zenon
      <3> QED BY <1>3, <2>2, <2>5, <3>1, Zenon
    <2>7. LeasesOnline'
      BY <2>2, LeasesFrame, Zenon
    <2> QED BY <2>6, <2>7, Zenon DEF OnlineInvariant
  <1>5. CASE RemoveLink(s)
    <2>1. PICK p : p = session[s].pool
      BY Zenon
    <2>2. /\ session[s].phase = "leaving" /\ p \in Sessions /\ session[s] \in Session
          /\ UNCHANGED <<device_map, active_ip_map, admin>>
      BY <1>5, <1>a, <2>1, Zenon DEF RemoveLink, SessionsNamed, TypeOK, leaseVars
    <2>3. PICK e : /\ session' = [session EXCEPT ![s] = e]
                   /\ \/ e = Closed(s)
                      \/ e = [session[s] EXCEPT !.phase = "draining"] /\ s \in links[p]
      BY <1>5, <2>1, Zenon DEF RemoveLink, owns_link
    <2>4. PICK f : f = [session[s] EXCEPT !.phase = "draining"]
      BY Zenon
    <2>a. f \in Session /\ f.device = session[s].device /\ f.phase = "draining" /\ f.pool = p
      BY <2>1, <2>2, <2>4, Zenon DEF Session
    <2>b. /\ e \in Session /\ e.device = session[s].device /\ e.phase \in {"gone", "draining"}
          /\ e.phase = "draining" => e.pool = p /\ s \in links[p]
      BY <1>a, <2>3, <2>4, <2>a, ClosedFacts, Zenon
    <2>5. \A q \in Sessions : links'[q] \subseteq links[q]
      BY <1>5, <1>a, <2>1, <2>2 DEF RemoveLink, Unlink, TypeOK
    <2>6. AllConfirmed' /\ LinksTogether' /\ DrainsOwn'
      BY <1>3, <2>2, <2>3, <2>b, <2>5, Zenon
    <2>7. LeasesOnline'
      BY <2>2, LeasesFrame, Zenon
    <2> QED BY <2>6, <2>7, Zenon DEF OnlineInvariant
  <1>6. CASE FinalizeOffline(s)
    <2>1. PICK d \in Devices, ip \in Ips, p \in Sessions :
            d = session[s].device /\ ip = session[s].ip /\ p = session[s].pool
      BY <1>6, <1>a, Zenon DEF FinalizeOffline, SessionsNamed
    <2>2. /\ session[s].phase = "draining" /\ session' = [session EXCEPT ![s] = Closed(s)]
          /\ UNCHANGED <<links, admin>>
      BY <1>6, Zenon DEF FinalizeOffline
    <2>3. AllConfirmed' /\ LinksTogether' /\ DrainsOwn'
      <3>1. PICK e : e = Closed(s)
        BY Zenon
      <3>2. e \in Session /\ e.device = session[s].device /\ e.phase = "gone"
        BY <1>a, <3>1, ClosedFacts, Zenon
      <3>3. session' = [session EXCEPT ![s] = e]
        BY <2>2, <3>1, Zenon
      <3> QED BY <1>3, <2>2, <3>2, <3>3, Zenon
    <2>4. CASE ~ (PoolDrained(ip, p) /\ Has(d))
      <3>1. UNCHANGED <<device_map, active_ip_map>>
        BY <1>6, <2>1, <2>4, Zenon DEF FinalizeOffline
      <3> QED BY <2>2, <2>3, <3>1, LeasesFrame, Zenon DEF OnlineInvariant
    <2>5. CASE PoolDrained(ip, p) /\ Has(d)
      <3>1. /\ device_map' = [device_map EXCEPT ![d].is_connected = FALSE, ![d].subnet_active = FALSE,
                                                ![d].data_version = data_version + 1]
            /\ active_ip_map' = [active_ip_map EXCEPT ![ip] = None]
        BY <1>6, <2>1, <2>5, Zenon DEF FinalizeOffline
      <3>2. sender_map[ip] = p /\ p # None
        BY <2>5, Zenon DEF PoolDrained
      <3>3. active_ip_map[ip] = d
        BY <1>a, <2>1, <2>2, <3>2, PublishedLeased DEF DrainsOwn
      <3>4. ASSUME NEW j \in Ips, active_ip_map'[j] # None
            PROVE  /\ active_ip_map'[j] = active_ip_map[j]
                   /\ device_map'[active_ip_map[j]] = device_map[active_ip_map[j]]
        <4>1. j # ip /\ active_ip_map'[j] = active_ip_map[j]
          BY <1>a, <3>1, <3>4, Zenon DEF TypeOK
        <4>2. active_ip_map[j] # d
          BY <1>a, <3>3, <4>1, Zenon DEF SingleLease
        <4> QED BY <1>a, <3>1, <3>4, <4>1, <4>2, ZenonT(30) DEF TypeOK
      <3>5. LeasesOnline'
        BY <2>2, <3>4, LeasesFrame, Zenon
      <3> QED BY <2>3, <3>5, Zenon DEF OnlineInvariant
    <2> QED BY <2>4, <2>5, Zenon
  <1> QED BY <1>b, <1>1, <1>2, <1>4, <1>5, <1>6, Zenon
          DEF SessionStep, ConfirmRegistration, ReleasePreRegistered, ReleaseTail

\* An edit keeps the flag, a failed one puts it back, and only an offline device is deleted.
LEMMA AdminOnline ==
  ASSUME NoRollback, LeaseInvariant, OnlineInvariant, AdminStep
  PROVE  OnlineInvariant'
  <1> USE NetworkAssumption
  <1>a. /\ TypeOK /\ SessionsNamed /\ EditRevertible /\ managed = NoManaged
        /\ AllConfirmed /\ LinksTogether /\ DrainsOwn /\ LeasesOnline
    BY Zenon DEF LeaseInvariant, OnlineInvariant
  <1>b. \A j \in Ips : active_ip_map[j] # None => active_ip_map[j] \in Devices
    BY <1>a, Zenon DEF TypeOK
  <1>1. ASSUME UNCHANGED <<session, links>>, LeasesOnline'
        PROVE  OnlineInvariant'
    BY <1>a, <1>1, Zenon DEF OnlineInvariant, AllConfirmed, LinksTogether, DrainsOwn
  <1>2. ASSUME NEW d \in Devices, NEW ip \in Ips, NEW it \in IpTypes, NEW ct \in ClientTypes,
               NEW routes \in BOOLEAN, UpsertDevice(d, ip, it, ct, routes)
        PROVE  OnlineInvariant'
    <2>1. /\ admin' = [device |-> d, previous |-> device_map[d]]
          /\ UNCHANGED <<active_ip_map, session, links>>
      BY <1>2, Zenon DEF UpsertDevice, poolVars
    <2>2. PICK n : device_map' = [device_map EXCEPT ![d] =
                     [device_map[d] EXCEPT !.ip = ip, !.client_type = ct, !.present = TRUE,
                        !.ip_type = IF ct = "Wireguard" THEN "Static" ELSE it,
                        !.data_version = n]]
      BY <1>2, Zenon DEF UpsertDevice
    <2>3. PICK e \in DeviceEntry : e = device_map[d]
      BY <1>a, Zenon DEF TypeOK
    <2>e. [e EXCEPT !.ip = ip, !.client_type = ct, !.present = TRUE,
                    !.ip_type = IF ct = "Wireguard" THEN "Static" ELSE it,
                    !.data_version = n].is_connected = e.is_connected
      BY Zenon DEF DeviceEntry
    <2>4. \A x \in Devices : device_map'[x].is_connected = device_map[x].is_connected
      BY <2>2, <2>e
    <2>5. LeasesOnline'
      BY <1>a, <1>b, <2>1, <2>4, Zenon DEF LeasesOnline
    <2> QED BY <1>1, <2>1, <2>5, Zenon
  <1>3. CASE UpsertSaved
    <2>1. admin' = NoAdmin /\ UNCHANGED <<device_map, active_ip_map, session, links>>
      BY <1>3, Zenon DEF UpsertSaved, leaseVars, poolVars
    <2>2. LeasesOnline'
      BY <2>1, LeasesFrame, Zenon
    <2> QED BY <1>1, <2>1, <2>2, Zenon
  <1>4. CASE UpsertSaveFails
    <2>1. /\ admin.device \in Devices /\ admin' = NoAdmin
          /\ device_map' = [device_map EXCEPT ![admin.device] = admin.previous]
          /\ UNCHANGED <<active_ip_map, session, links>>
      BY <1>4, <1>a, Zenon DEF UpsertSaveFails, restore_device_config, poolVars, EditRevertible,
        LockFree
    <2>2. \A x \in Devices : device_map'[x] = IF x = admin.device THEN admin.previous ELSE device_map[x]
      BY <1>a, <2>1, Zenon DEF TypeOK
    <2>3. LeasesOnline'
      BY <1>a, <1>b, <2>1, <2>2, Zenon DEF LeasesOnline, NoAdmin
    <2> QED BY <1>1, <2>1, <2>3, Zenon
  <1>5. ASSUME NEW d \in Devices, DeleteDevice(d)
        PROVE  OnlineInvariant'
    <2>1. /\ ~device_map[d].is_connected /\ device_map' = [device_map EXCEPT ![d] = NoEntry]
          /\ \A j \in Ips : active_ip_map'[j] \in {None, active_ip_map[j]}
          /\ UNCHANGED <<session, links, admin>>
      BY <1>5, Zenon DEF DeleteDevice
    <2>2. \A x \in Devices : x # d => device_map'[x] = device_map[x]
      BY <1>a, <2>1, Zenon DEF TypeOK
    <2>3. LeasesOnline'
      BY <1>a, <1>b, <2>1, <2>2, Zenon DEF LeasesOnline
    <2> QED BY <1>1, <2>1, <2>3, Zenon
  <1>6. ASSUME NEW S \in SUBSET Devices, ReleaseExpired(S)
        PROVE  OnlineInvariant'
    <2>1. /\ device_map' = [d \in Devices |->
               IF d \in S THEN [device_map[d] EXCEPT !.ip = None, !.data_version = data_version + 1]
               ELSE device_map[d]]
          /\ UNCHANGED <<active_ip_map, session, links, admin>>
      BY <1>6, Zenon DEF ReleaseExpired, poolVars
    <2>2. ASSUME NEW x \in Devices
          PROVE  device_map'[x].is_connected = device_map[x].is_connected
      <3>1. PICK e \in DeviceEntry : e = device_map[x]
        BY <1>a, Zenon DEF TypeOK
      <3>2. [e EXCEPT !.ip = None, !.data_version = data_version + 1].is_connected = e.is_connected
        BY Zenon DEF DeviceEntry
      <3> QED BY <2>1, <3>1, <3>2, Zenon
    <2>3. LeasesOnline'
      BY <1>a, <1>b, <2>1, <2>2, Zenon DEF LeasesOnline
    <2> QED BY <1>1, <2>1, <2>3, Zenon
  <1>7. ASSUME NEW d \in Devices, UpdateRuntimeMetadata(d)
        PROVE  OnlineInvariant'
    <2>1. /\ device_map' = [device_map EXCEPT ![d].data_version = data_version + 1]
          /\ UNCHANGED <<active_ip_map, session, links, admin>>
      BY <1>7, Zenon DEF UpdateRuntimeMetadata, poolVars
    <2>2. \A x \in Devices : device_map'[x].is_connected = device_map[x].is_connected
      BY <1>a, <2>1 DEF TypeOK, DeviceEntry
    <2>3. LeasesOnline'
      BY <1>a, <1>b, <2>1, <2>2, Zenon DEF LeasesOnline
    <2> QED BY <1>1, <2>1, <2>3, Zenon
  <1>8. ASSUME NEW ip \in Ips, DisconnectSubscription(ip)
        PROVE  OnlineInvariant'
    <2>1. UNCHANGED <<device_map, active_ip_map, session, links, admin>>
      BY <1>8, Zenon DEF DisconnectSubscription, leaseVars
    <2> QED BY <1>a, <1>1, <2>1, Zenon DEF LeasesOnline
  <1>9. (\A d \in Devices : ~ManagedSnapshot(d)) /\ ~ManagedCommit /\ ~ManagedRollback
    BY <1>a, Zenon DEF NoRollback, ManagedSnapshot, ManagedCommit, ManagedRollback, NoManaged
  <1> QED BY <1>2, <1>3, <1>4, <1>5, <1>6, <1>7, <1>8, <1>9 DEF AdminStep

\* The online invariant of a network, on top of the lease invariant.
LEMMA OnlineInductive ==
  ASSUME NoRollback, NoPreRegister
  PROVE  Spec => [](LeaseInvariant /\ OnlineInvariant)
  <1>1. Init => LeaseInvariant /\ OnlineInvariant
    BY InitInvariant, NetworkAssumption
    DEF Init, OnlineInvariant, AllConfirmed, LinksTogether, DrainsOwn, LeasesOnline, NoSession
  <1>2. LeaseInvariant /\ OnlineInvariant /\ [Next]_vars => (LeaseInvariant /\ OnlineInvariant)'
    <2> SUFFICES ASSUME LeaseInvariant, OnlineInvariant, [Next]_vars
                 PROVE  LeaseInvariant' /\ OnlineInvariant'
      BY Zenon
    <2>1. LeaseInvariant'
      BY NextInvariant, Zenon
    <2>2. CASE UNCHANGED vars
      <3>1. UNCHANGED <<device_map, active_ip_map, session, links, admin>>
        BY <2>2, Zenon DEF vars
      <3>2. LeasesOnline'
        BY <3>1, LeasesFrame, Zenon
      <3>3. AllConfirmed'
        BY <3>1, Zenon DEF OnlineInvariant, AllConfirmed
      <3>4. LinksTogether'
        BY <3>1, Zenon DEF OnlineInvariant, LinksTogether
      <3>5. DrainsOwn'
        BY <3>1, Zenon DEF OnlineInvariant, DrainsOwn
      <3> QED BY <2>1, <3>2, <3>3, <3>4, <3>5, Zenon DEF OnlineInvariant
    <2> QED BY <2>1, <2>2, RegisterOnline, SessionOnline, AdminOnline, Zenon DEF Next
  <1> QED BY <1>1, <1>2, PTL DEF Spec

\* Without pre-registrations and rolled-back managed edits no drop of an older session or of
\* another link, no failed write and no removal turns a device with a live, reachable link
\* offline: finalize_offline re-checks the pool under the lock.
THEOREM LiveLinkAlwaysOnline ==
  ASSUME NoRollback, NoPreRegister
  PROVE  Spec => []LiveLinkStaysOnline
  <1>1. LeaseInvariant /\ OnlineInvariant => LiveLinkStaysOnline
    <2> SUFFICES ASSUME LeaseInvariant, OnlineInvariant, NEW s \in Sessions, Reachable(s)
                 PROVE  device_map[session[s].device].is_connected
      BY Zenon DEF LiveLinkStaysOnline
    <2>1. PICK ip \in Ips : sender_map[ip] # None /\ s \in links[sender_map[ip]]
      BY Zenon DEF Reachable
    <2>2. session[s].device = active_ip_map[ip] /\ active_ip_map[ip] # None
      BY <2>1, PublishedLeased, NetworkAssumption, Zenon
    <2> QED BY <2>2, Zenon DEF OnlineInvariant, LeasesOnline
  <1> QED BY <1>1, OnlineInductive, PTL
-----------------------------------------------------------------------------
(* A client with one link per registration goes offline with its last       *)
(* session.                                                                  *)

\* No database write of an edit fails and no subscription of the network is disconnected.
Undisturbed == {"save_fails", "disconnect_subscription"} \cap Events = {}

Legacy(d) == \A s \in Sessions : session[s].device = d => session[s].inst = None

\* What a drop still finds: the session that published the pool at the lease's address
\* is on that address, and its link is in the pool until it is the one to drain it.
Held(d, ip, p) ==
    /\ active_ip_map[ip] = d /\ sender_map[ip] = p /\ session[p].ip = ip
    /\ \/ session[p].phase = "confirmed" /\ p \in links[p]
       \/ session[p].phase = "leaving" /\ session[p].pool = p /\ p \in links[p]
       \/ session[p].phase = "draining" /\ session[p].pool = p /\ links[p] = {}

Unborn == \A s \in Sessions : session[s].phase = "none" => session[s] = NoSession
LoneLinks == \A p \in Sessions : session[p].inst = None => links[p] \subseteq {p}
LegacyInvariant ==
    /\ Unborn /\ LoneLinks
    /\ \A d \in Devices : device_map[d].is_connected => device_map[d].present
    /\ \A d \in Devices : device_map[d].is_connected /\ Legacy(d) =>
           \E ip \in Ips, p \in Sessions : Held(d, ip, p)

\* The steps that leave the holder of a lease as it is.
LEMMA HeldStays ==
  ASSUME NEW d, NEW ip, NEW p, Held(d, ip, p),
         active_ip_map'[ip] = active_ip_map[ip], sender_map'[ip] = sender_map[ip],
         session'[p] = session[p], links'[p] = links[p]
  PROVE  Held(d, ip, p)'
  BY Zenon DEF Held

\* What a step has to keep, device by device.
LEMMA LegacyKept ==
  ASSUME LeaseInvariant, OnlineInvariant, LegacyInvariant, LoneLinks',
         \A t \in Sessions :
            /\ session'[t].phase = "none" => session'[t] = session[t]
            /\ session[t].phase # "none" =>
                 session'[t].device = session[t].device /\ session'[t].inst = session[t].inst,
         \A x \in Devices : device_map'[x].is_connected =>
            /\ device_map'[x].present
            /\ device_map[x].is_connected \/ \E k \in Ips, q \in Sessions : Held(x, k, q)',
         \A x \in Devices, j \in Ips, p \in Sessions :
            /\ device_map'[x].is_connected /\ device_map[x].is_connected /\ Legacy(x)'
            /\ Held(x, j, p) /\ session[p].device = x /\ session[p].phase # "none"
            /\ session[p].inst = None /\ links[p] \subseteq {p}
            => \E k \in Ips, q \in Sessions : Held(x, k, q)'
  PROVE  LegacyInvariant'
  <1> USE NetworkAssumption
  <1>1. Unborn'
    BY Zenon DEF LegacyInvariant, Unborn
  <1>2. ASSUME NEW x \in Devices, device_map'[x].is_connected, Legacy(x)',
               device_map[x].is_connected
        PROVE  \E k \in Ips, q \in Sessions : Held(x, k, q)'
    <2>1. ASSUME NEW t \in Sessions, session[t].device = x PROVE session[t].inst = None
      <3>1. session[t].phase # "none"
        BY <2>1 DEF LegacyInvariant, Unborn, NoSession
      <3> QED BY <1>2, <2>1, <3>1, Zenon DEF Legacy
    <2>2. Legacy(x)
      BY <2>1, Zenon DEF Legacy
    <2>3. PICK j \in Ips, p \in Sessions : Held(x, j, p)
      BY <1>2, <2>2, Zenon DEF LegacyInvariant
    <2>4. session[p].device = x /\ session[p].phase # "none"
      BY <2>3, PublishedLeased DEF Held
    <2>5. session[p].inst = None /\ links[p] \subseteq {p}
      BY <2>1, <2>4, Zenon DEF LegacyInvariant, LoneLinks
    <2> QED BY <1>2, <2>3, <2>4, <2>5, Zenon
  <1> QED BY <1>1, <1>2, Zenon DEF LegacyInvariant

\* A session that has begun publishes a pool of its own, and holds the device's lease.
LEMMA PublishLegacy ==
  ASSUME LeaseInvariant, OnlineInvariant, LegacyInvariant,
         NEW s \in Sessions, NEW d \in Devices, NEW ct \in ClientTypes,
         NEW i \in Instances \cup {None}, NEW ip \in Ips,
         session[s].phase = "none", ~conflicting_ip_owner(ip, d),
         Publish(s, d, ct, i, ip, "Normal")
  PROVE  LegacyInvariant'
  <1> USE NetworkAssumption
  <1>1. TypeOK /\ AddressExclusive
    BY Zenon DEF LeaseInvariant
  <1>2. /\ \A t \in Sessions : t # s => session'[t] = session[t]
        /\ session'[s].phase = "confirmed" /\ session'[s].ip = ip
    BY <1>1, Zenon DEF Publish, TypeOK, Opened
  <1>3. \A p \in Sessions : links'[p] = IF p = s THEN {s} ELSE links[p]
    BY <1>1, Zenon DEF Publish, TypeOK
  <1>4. /\ device_map'[d].is_connected /\ device_map'[d].present
        /\ \A x \in Devices : x # d => device_map'[x] = device_map[x]
    BY <1>1 DEF Publish, TypeOK, Connected
  <1>5. LoneLinks'
    BY <1>2, <1>3 DEF LegacyInvariant, LoneLinks
  <1>6. Held(d, ip, s)'
    BY <1>2, <1>3 DEF Held, Publish
  <1>7. ASSUME NEW x \in Devices, NEW j \in Ips, NEW p \in Sessions, x # d, Held(x, j, p),
               session[p].phase # "none"
        PROVE  Held(x, j, p)'
    <2>1. active_ip_map[j] = x /\ x # None
      BY <1>7, Zenon DEF Held
    <2>2. j # ip
      BY <1>7, <2>1, Zenon DEF conflicting_ip_owner
    <2>3. j # device_map[d].ip
      BY <1>1, <1>7, <2>1, OwnAddress, Zenon
    <2>4. active_ip_map'[j] = active_ip_map[j] /\ sender_map'[j] = sender_map[j]
      BY <1>7, <2>1, <2>2, <2>3, Zenon DEF Publish, Stale, Unpublished
    <2> QED BY <1>2, <1>3, <1>7, <2>4, HeldStays, Zenon
  <1>8. \A x \in Devices : device_map'[x].is_connected =>
          /\ device_map'[x].present
          /\ device_map[x].is_connected \/ \E k \in Ips, q \in Sessions : Held(x, k, q)'
    BY <1>4, <1>6 DEF LegacyInvariant
  <1>9. \A x \in Devices, j \in Ips, p \in Sessions :
          Held(x, j, p) /\ session[p].phase # "none" => \E k \in Ips, q \in Sessions : Held(x, k, q)'
    BY <1>6, <1>7, ZenonT(30)
  <1> QED BY <1>2, <1>5, <1>8, <1>9, LegacyKept, Zenon

\* A link joins a pool only by its client instance: its device is no legacy client.
LEMMA JoinPoolLegacy ==
  ASSUME LeaseInvariant, OnlineInvariant, LegacyInvariant,
         NEW s \in Sessions, NEW d \in Devices, NEW ct \in ClientTypes,
         NEW i \in Instances \cup {None}, NEW r \in Ips \cup {None},
         session[s].phase = "none", JoinPool(s, d, ct, i, r, "Normal")
  PROVE  LegacyInvariant'
  <1> USE NetworkAssumption
  <1>1. TypeOK /\ AddressExclusive /\ PublishedOnce
    BY Zenon DEF LeaseInvariant
  <1>2. /\ r \in Ips /\ r = device_map[d].ip /\ sender_map[r] # None
        /\ i # None /\ session[sender_map[r]].inst = i
        /\ links' = [links EXCEPT ![sender_map[r]] = @ \cup {s}]
        /\ session' = [session EXCEPT ![s] = Opened(d, ct, i, r, "Normal")]
        /\ UNCHANGED <<device_map, active_ip_map, sender_map>>
    BY Zenon DEF JoinPool, Joinable, same_instance, leaseVars
  <1>3. PICK p \in Sessions : p = sender_map[r]
    BY <1>1, <1>2, Zenon DEF TypeOK
  <1>4. active_ip_map[r] = d /\ p # s
    <2>1. active_ip_map[r] \in {None, d}
      BY <1>1, <1>2, OwnAddress, Zenon
    <2> QED BY <1>2, <1>3, <2>1, PublishedLeased, Zenon
  <1>5. /\ \A t \in Sessions : t # s => session'[t] = session[t]
        /\ session'[s].phase = "confirmed" /\ session'[s].device = d /\ session'[s].inst = i
    BY <1>1, <1>2, Zenon DEF TypeOK, Opened
  <1>6. \A q \in Sessions : links'[q] = IF q = p THEN links[p] \cup {s} ELSE links[q]
    BY <1>1, <1>2, <1>3, Zenon DEF TypeOK
  <1>7. LoneLinks'
    BY <1>2, <1>5 DEF LegacyInvariant, LoneLinks
  <1>8. ~ Legacy(d)'
    BY <1>2, <1>5, Zenon DEF Legacy
  <1>9. ASSUME NEW x \in Devices, NEW j \in Ips, NEW q \in Sessions, Legacy(x)', Held(x, j, q),
               session[q].phase # "none"
        PROVE  Held(x, j, q)'
    <2>1. x # d /\ active_ip_map[j] = x /\ sender_map[j] = q
      BY <1>8, <1>9, Zenon DEF Held
    <2>2. q # p
      BY <1>1, <1>2, <1>3, <1>4, <2>1, Zenon DEF PublishedOnce
    <2> QED BY <1>2, <1>5, <1>6, <1>9, <2>2, HeldStays, Zenon
  <1>10. \A x \in Devices : device_map'[x].is_connected =>
          device_map'[x].present /\ device_map[x].is_connected
    BY <1>2, Zenon DEF LegacyInvariant
  <1> QED BY <1>5, <1>7, <1>9, <1>10, LegacyKept, Zenon

\* A registration publishes a pool of its own or belongs to a client with an instance id.
LEMMA RegisterLegacy ==
  ASSUME NoPreRegister, LeaseInvariant, OnlineInvariant, LegacyInvariant, RegisterStep
  PROVE  LegacyInvariant'
  <1>1. PICK s \in Sessions, d \in Devices, ct \in ClientTypes, i \in Instances \cup {None},
             r \in Ips \cup {None}, var \in BOOLEAN, mode \in RegModes :
               Register(s, d, ct, i, r, var, mode)
    BY Zenon DEF RegisterStep
  <1>2. mode = "Normal"
    BY NetworkAssumption, Zenon DEF NoPreRegister
  <1>3. /\ LockFree /\ session[s].phase = "none"
        /\ \/ JoinPool(s, d, ct, i, r, "Normal")
           \/ \E ip \in Ips : ~conflicting_ip_owner(ip, d) /\ Publish(s, d, ct, i, ip, "Normal")
    BY <1>1, <1>2, Allocates, Zenon
  <1> QED BY <1>3, JoinPoolLegacy, PublishLegacy, Zenon

\* The steps of a confirmed session, and of its drop: the holder of the lease stays on the
\* lease's address, and its drop goes through lookup, removal of the link and finalization
\* with the pool it published.
LEMMA SessionLegacy ==
  ASSUME LeaseInvariant, OnlineInvariant, LegacyInvariant, NEW s \in Sessions, SessionStep(s)
  PROVE  LegacyInvariant'
  <1> USE NetworkAssumption
  <1>a. TypeOK /\ SessionsNamed /\ SingleLease /\ PublishedOnce /\ AddressExclusive
    BY Zenon DEF LeaseInvariant
  <1>b. session[s].phase \notin {"pending", "releasing"} /\ session[s] \in Session
    BY <1>a, Zenon DEF OnlineInvariant, AllConfirmed, TypeOK
  <1>c. ASSUME \A x \in Devices : device_map'[x].is_connected => device_map[x].is_connected,
               \A x \in Devices : device_map'[x].present = device_map[x].present
        PROVE  \A x \in Devices : device_map'[x].is_connected =>
                 device_map'[x].present /\ device_map[x].is_connected
    BY <1>c, Zenon DEF LegacyInvariant
  <1>1. ASSUME NEW new \in Ips, FastRegisterAgain(s, new) \/ FollowPool(s, new)
        PROVE  LegacyInvariant'
    <2>1. /\ session' = [session EXCEPT ![s].ip = new]
          /\ UNCHANGED <<device_map, active_ip_map, sender_map, links>>
      BY <1>1, Zenon DEF FastRegisterAgain, FollowPool, leaseVars, poolVars
    <2>2. LoneLinks'
      BY <2>1, MovingOnline, Zenon DEF LegacyInvariant, LoneLinks
    <2>3. ASSUME NEW x \in Devices, NEW j \in Ips, NEW p \in Sessions, Held(x, j, p),
                 session[p].inst = None, links[p] \subseteq {p}
          PROVE  Held(x, j, p)'
      <3>1. CASE p # s
        BY <2>1, <2>3, <3>1, MovingOnline, HeldStays, Zenon
      <3>2. CASE p = s
        <4>1. sender_map[j] = s /\ session[s].ip = j /\ session[s].inst = None
          BY <2>3, <3>2, Zenon DEF Held
        <4>2. CASE FollowPool(s, new)
          <5>1. Live(s) /\ ~owns_link(s, session[s].inst, s)
            BY <4>1, <4>2, Zenon DEF FollowPool
          <5>2. session[s].phase = "confirmed" /\ s \notin links[s]
            BY <1>b, <5>1, Zenon DEF Live, owns_link
          <5> QED BY <2>3, <3>2, <5>2, Zenon DEF Held
        <4>3. CASE FastRegisterAgain(s, new)
          <5>1. PICK q \in Sessions : q = sender_map[new]
            BY <1>a, <4>3, Zenon DEF FastRegisterAgain, TypeOK
          <5>2. session[q].inst = None /\ s \in links[q] /\ j # new
            BY <4>1, <4>3, <5>1, Zenon DEF FastRegisterAgain, owns_link
          <5>3. q = s
            BY <5>2, Zenon DEF LegacyInvariant, LoneLinks
          <5> QED BY <1>a, <4>1, <5>1, <5>2, <5>3, Zenon DEF PublishedOnce
        <4> QED BY <1>1, <4>2, <4>3, Zenon
      <3> QED BY <3>1, <3>2, Zenon
    <2>4. \A t \in Sessions :
            /\ session'[t].phase = "none" => session'[t] = session[t]
            /\ session[t].phase # "none" =>
                 session'[t].device = session[t].device /\ session'[t].inst = session[t].inst
      BY <1>1, <2>1, MovingOnline, ZenonT(30) DEF FastRegisterAgain, FastCaller, FollowPool, Live
    <2> QED BY <1>c, <2>1, <2>2, <2>3, <2>4, LegacyKept, Zenon
  <1>2. ASSUME NEW new \in Ips, FastRegisterMove(s, new)
        PROVE  LegacyInvariant'
    <2>1. PICK d, old : d = session[s].device /\ old = session[s].ip
      BY Zenon
    <2>2. /\ session[s].phase = "confirmed" /\ session' = [session EXCEPT ![s].ip = new]
          /\ device_map' = [device_map EXCEPT ![d].ip = new, ![d].data_version = data_version + 1]
          /\ links' = links /\ ~conflicting_ip_owner(new, d)
          /\ active_ip_map[old] = d /\ sender_map[old] # None
          /\ session[sender_map[old]].inst = session[s].inst /\ s \in links[sender_map[old]]
      BY <1>2, <2>1, Zenon DEF FastRegisterMove, FastCaller, owns_link
    <2>3. /\ \A j \in Ips : active_ip_map'[j] = IF j = new THEN d ELSE IF j = old THEN None
                                                ELSE active_ip_map[j]
          /\ \A j \in Ips : sender_map'[j] = IF j = new THEN sender_map[old]
                                             ELSE IF j = old THEN None ELSE sender_map[j]
      BY <1>2, <2>1, Zenon DEF FastRegisterMove
    <2>4. d \in Devices /\ old \in Ips
      BY <1>a, <2>1, <2>2, Zenon DEF SessionsNamed
    <2>5. \A x \in Devices : /\ device_map'[x].is_connected = device_map[x].is_connected
                             /\ device_map'[x].present = device_map[x].present
      BY <1>a, <2>2, <2>4 DEF TypeOK, DeviceEntry
    <2>6. LoneLinks'
      BY <2>2, MovingOnline, Zenon DEF LegacyInvariant, LoneLinks
    <2>7. ASSUME NEW x \in Devices, NEW j \in Ips, NEW p \in Sessions, Held(x, j, p),
                 session[p].device = x, x # d
          PROVE  Held(x, j, p)'
      <3>1. active_ip_map[j] = x /\ x # None /\ p # s
        BY <2>1, <2>7, Zenon DEF Held
      <3>2. j # old /\ j # new
        BY <2>2, <2>7, <3>1, Zenon DEF conflicting_ip_owner
      <3>3. active_ip_map'[j] = active_ip_map[j] /\ sender_map'[j] = sender_map[j]
        BY <2>3, <3>2, Zenon
      <3>4. session'[p] = session[p] /\ links'[p] = links[p]
        BY <2>2, <3>1
      <3> QED BY <2>7, <3>3, <3>4, HeldStays, Zenon
    <2>8. ASSUME NEW j \in Ips, NEW p \in Sessions, Held(d, j, p),
                 session[p].inst = None, links[p] \subseteq {p}
          PROVE  Held(d, new, s)'
      <3>1. j = old /\ p = sender_map[old]
        BY <1>a, <2>2, <2>4, <2>8 DEF Held, SingleLease
      <3>2. p = s
        BY <2>2, <2>8, <3>1, Zenon
      <3>3. session'[s].ip = new
        BY <1>a, <2>2 DEF TypeOK, Session
      <3>4. session'[s].phase = "confirmed" /\ s \in links'[s]
        BY <2>2, <3>1, <3>2, MovingOnline, Zenon
      <3> QED BY <2>3, <3>1, <3>2, <3>3, <3>4, Zenon DEF Held
    <2>9. \A t \in Sessions :
            /\ session'[t].phase = "none" => session'[t] = session[t]
            /\ session[t].phase # "none" =>
                 session'[t].device = session[t].device /\ session'[t].inst = session[t].inst
      <3>1. \A t \in Sessions :
              /\ session'[t].device = session[t].device /\ session'[t].phase = session[t].phase
              /\ session'[t].pool = session[t].pool /\ session'[t].inst = session[t].inst
              /\ t # s => session'[t] = session[t]
        BY <2>2, MovingOnline, Zenon
      <3>2. session[s].phase # "none"
        BY <2>2, Zenon
      <3> QED BY <3>1, <3>2, Zenon
    <2>10. \A x \in Devices, j \in Ips, p \in Sessions :
            /\ Held(x, j, p) /\ session[p].device = x
            /\ session[p].inst = None /\ links[p] \subseteq {p}
            => \E k \in Ips, q \in Sessions : Held(x, k, q)'
      BY <2>7, <2>8
    <2> QED BY <1>c, <2>5, <2>6, <2>9, <2>10, LegacyKept, Zenon
  <1>3. ASSUME NEW e \in Session, session' = [session EXCEPT ![s] = e],
               session[s].phase # "none", e.phase # "none",
               e.device = session[s].device, e.inst = session[s].inst,
               \A p \in Sessions : links'[p] \subseteq links[p]
        PROVE  /\ LoneLinks'
               /\ \A t \in Sessions : session'[t] = IF t = s THEN e ELSE session[t]
               /\ \A t \in Sessions :
                    /\ session'[t].phase = "none" => session'[t] = session[t]
                    /\ session[t].phase # "none" =>
                         session'[t].device = session[t].device /\ session'[t].inst = session[t].inst
    <2>1. \A t \in Sessions : session'[t] = IF t = s THEN e ELSE session[t]
      BY <1>a, <1>3, Zenon DEF TypeOK
    <2>2. LoneLinks'
      BY <1>3 DEF LegacyInvariant, LoneLinks
    <2> QED BY <1>3, <2>1, <2>2, Zenon
  <1>d. PICK e : e = Closed(s)
    BY Zenon
  <1>e. /\ e \in Session /\ e.device = session[s].device /\ e.inst = session[s].inst
        /\ e.phase = "gone"
    BY <1>b, <1>d, Zenon DEF Closed, Session
  <1>4. CASE OfflineLookup(s)
    <2>1. PICK f : f = [session[s] EXCEPT !.phase = "leaving", !.pool = sender_map[session[s].ip]]
      BY Zenon
    <2>2. /\ session[s].phase = "confirmed"
          /\ session' = [session EXCEPT ![s] = IF sender_map[session[s].ip] = None THEN e ELSE f]
          /\ UNCHANGED <<device_map, active_ip_map, sender_map, links>>
      BY <1>4, <1>d, <2>1, Zenon DEF OfflineLookup, leaseVars, poolVars
    <2>3. session[s].ip \in Ips /\ sender_map[session[s].ip] \in Sessions \cup {None}
      BY <1>a, <2>2, Zenon DEF SessionsNamed, TypeOK
    <2>4. /\ f \in Session /\ f.device = session[s].device /\ f.inst = session[s].inst
          /\ f.phase = "leaving" /\ f.pool = sender_map[session[s].ip] /\ f.ip = session[s].ip
      BY <1>b, <2>1, <2>3, Zenon DEF Session
    <2>5. PICK g : g = IF sender_map[session[s].ip] = None THEN e ELSE f
      BY Zenon
    <2>6. /\ g \in Session /\ g.phase # "none" /\ g.device = session[s].device
          /\ g.inst = session[s].inst /\ session' = [session EXCEPT ![s] = g]
      BY <1>e, <2>2, <2>4, <2>5, Zenon
    <2>7. /\ LoneLinks'
          /\ \A t \in Sessions : session'[t] = IF t = s THEN g ELSE session[t]
          /\ \A t \in Sessions :
               /\ session'[t].phase = "none" => session'[t] = session[t]
               /\ session[t].phase # "none" =>
                    session'[t].device = session[t].device /\ session'[t].inst = session[t].inst
      BY <1>3, <2>2, <2>6, Zenon
    <2>8. ASSUME NEW x \in Devices, NEW j \in Ips, NEW p \in Sessions, Held(x, j, p)
          PROVE  Held(x, j, p)'
      <3>1. CASE p # s
        <4>1. session'[p] = session[p]
          BY <2>7, <3>1, Zenon
        <4> QED BY <2>2, <2>8, <4>1, HeldStays, Zenon
      <3>2. CASE p = s
        <4>1. /\ active_ip_map[j] = x /\ sender_map[j] = s /\ session[s].ip = j /\ s \in links[s]
          BY <2>2, <2>8, <3>2, Zenon DEF Held
        <4>2. session'[s] = f
          BY <2>5, <2>7, <4>1
        <4> QED BY <2>2, <2>4, <3>2, <4>1 DEF Held
      <3> QED BY <3>1, <3>2, Zenon
    <2> QED BY <1>c, <2>2, <2>7, <2>8, LegacyKept, Zenon
  <1>5. CASE RemoveLink(s)
    <2>1. PICK m \in Sessions : m = session[s].pool
      BY <1>5, <1>a, Zenon DEF RemoveLink, SessionsNamed
    <2>2. PICK f : f = [session[s] EXCEPT !.phase = "draining"]
      BY Zenon
    <2>3. /\ session[s].phase = "leaving"
          /\ UNCHANGED <<device_map, active_ip_map, sender_map>>
          /\ IF session[m].inst = session[s].inst /\ s \in links[m]
             THEN /\ links' = [links EXCEPT ![m] = @ \ {s}]
                  /\ session' = [session EXCEPT ![s] = IF links[m] \ {s} = {} THEN f ELSE e]
             ELSE session' = [session EXCEPT ![s] = e] /\ links' = links
      BY <1>5, <1>d, <2>1, <2>2, Zenon DEF RemoveLink, Unlink, LastLink, owns_link, leaseVars
    <2>4. /\ f \in Session /\ f.device = session[s].device /\ f.inst = session[s].inst
          /\ f.phase = "draining" /\ f.pool = m /\ f.ip = session[s].ip
      BY <1>b, <2>1, <2>2, Zenon DEF Session
    <2>5. PICK g \in {e, f} : /\ session' = [session EXCEPT ![s] = g]
                              /\ session[m].inst = session[s].inst /\ s \in links[m]
                                 /\ links[m] \ {s} = {} => g = f
      BY <2>3, Zenon
    <2>6. \A q \in Sessions : links'[q] \subseteq links[q] /\ (s \notin links[q] => links'[q] = links[q])
      BY <1>a, <2>3 DEF TypeOK
    <2>7. /\ LoneLinks'
          /\ \A t \in Sessions : session'[t] = IF t = s THEN g ELSE session[t]
          /\ \A t \in Sessions :
               /\ session'[t].phase = "none" => session'[t] = session[t]
               /\ session[t].phase # "none" =>
                    session'[t].device = session[t].device /\ session'[t].inst = session[t].inst
      <3>1. /\ g \in Session /\ g.phase # "none" /\ g.device = session[s].device
            /\ g.inst = session[s].inst
        BY <1>e, <2>4, <2>5, Zenon
      <3> QED BY <1>3, <2>3, <2>5, <2>6, <3>1, Zenon
    <2>8. ASSUME NEW x \in Devices, NEW j \in Ips, NEW p \in Sessions, Held(x, j, p),
                 links[p] \subseteq {p}
          PROVE  Held(x, j, p)'
      <3>1. CASE p # s
        BY <2>3, <2>6, <2>7, <2>8, <3>1, HeldStays, Zenon
      <3>2. CASE p = s
        <4>1. /\ active_ip_map[j] = x /\ sender_map[j] = s /\ session[s].ip = j
              /\ s \in links[s] /\ m = s /\ links[s] \ {s} = {}
          BY <2>1, <2>3, <2>8, <3>2, Zenon DEF Held
        <4>2. session'[s] = f
          BY <2>5, <2>7, <4>1, Zenon
        <4>3. links'[s] = {}
          BY <1>a, <2>3, <4>1, Zenon DEF TypeOK
        <4> QED BY <2>3, <2>4, <3>2, <4>1, <4>2, <4>3, Zenon DEF Held
      <3> QED BY <3>1, <3>2, Zenon
    <2> QED BY <1>c, <2>3, <2>7, <2>8, LegacyKept, Zenon
  <1>6. CASE FinalizeOffline(s)
    <2>1. PICK d \in Devices, ip \in Ips, m \in Sessions :
            d = session[s].device /\ ip = session[s].ip /\ m = session[s].pool
      BY <1>6, <1>a, Zenon DEF FinalizeOffline, SessionsNamed
    <2>2. /\ session[s].phase = "draining" /\ session' = [session EXCEPT ![s] = e] /\ links' = links
      BY <1>6, <1>d, Zenon DEF FinalizeOffline
    <2>3. /\ LoneLinks'
          /\ \A t \in Sessions : session'[t] = IF t = s THEN e ELSE session[t]
          /\ \A t \in Sessions :
               /\ session'[t].phase = "none" => session'[t] = session[t]
               /\ session[t].phase # "none" =>
                    session'[t].device = session[t].device /\ session'[t].inst = session[t].inst
      BY <1>3, <1>e, <2>2, Zenon
    <2>4. CASE ~ (PoolDrained(ip, m) /\ Has(d))
      <3>1. UNCHANGED <<device_map, active_ip_map, sender_map>>
        BY <1>6, <2>1, <2>4, Zenon DEF FinalizeOffline
      <3>2. ASSUME NEW x \in Devices, NEW j \in Ips, NEW p \in Sessions, Held(x, j, p),
                   session[p].device = x, device_map[x].is_connected
            PROVE  Held(x, j, p)'
        <4>1. CASE p # s
          <5>1. session'[p] = session[p]
            BY <2>3, <4>1, Zenon
          <5> QED BY <2>2, <3>1, <3>2, <5>1, HeldStays, Zenon
        <4>2. CASE p = s
          <5>1. x = d /\ ip = j /\ sender_map[ip] = s /\ m = s /\ links[s] = {}
            BY <2>1, <2>2, <3>2, <4>2, Zenon DEF Held
          <5>2. Has(d)
            BY <3>2, <5>1, Zenon DEF LegacyInvariant, Has
          <5> QED BY <2>4, <5>1, <5>2, Zenon DEF PoolDrained
        <4> QED BY <4>1, <4>2, Zenon
      <3> QED BY <1>c, <2>3, <3>1, <3>2, LegacyKept, Zenon
    <2>5. CASE PoolDrained(ip, m) /\ Has(d)
      <3>1. /\ device_map' = [device_map EXCEPT ![d].is_connected = FALSE, ![d].subnet_active = FALSE,
                                                ![d].data_version = data_version + 1]
            /\ active_ip_map' = [active_ip_map EXCEPT ![ip] = None]
            /\ sender_map' = [sender_map EXCEPT ![ip] = None]
        BY <1>6, <2>1, <2>5, Zenon DEF FinalizeOffline
      <3>2. active_ip_map[ip] = d
        <4>1. sender_map[ip] = m /\ m # None
          BY <2>5, Zenon DEF PoolDrained
        <4> QED BY <2>1, <2>2, <4>1, PublishedLeased DEF OnlineInvariant, DrainsOwn
      <3>3. /\ ~device_map'[d].is_connected /\ device_map'[d].present = device_map[d].present
            /\ \A x \in Devices : x # d => device_map'[x] = device_map[x]
        <4>1. device_map \in [Devices -> DeviceEntry] /\ device_map[d] \in DeviceEntry
          BY <1>a, Zenon DEF TypeOK
        <4> QED BY <3>1, <4>1, ZenonT(30) DEF DeviceEntry
      <3>4. ASSUME NEW x \in Devices, NEW j \in Ips, NEW p \in Sessions, Held(x, j, p),
                   session[p].device = x, device_map'[x].is_connected
            PROVE  Held(x, j, p)'
        <4>1. x # d /\ p # s /\ j # ip
          <5>1. x # d
            BY <3>3, <3>4, Zenon
          <5>2. active_ip_map[j] = x /\ session[p].device = x
            BY <3>4, Zenon DEF Held
          <5> QED BY <2>1, <3>2, <5>1, <5>2, Zenon
        <4>2. active_ip_map'[j] = active_ip_map[j] /\ sender_map'[j] = sender_map[j]
          BY <1>a, <3>1, <4>1, Zenon DEF TypeOK
        <4>3. session'[p] = session[p] /\ links'[p] = links[p]
          BY <2>2, <2>3, <4>1, Zenon
        <4> QED BY <3>4, <4>2, <4>3, HeldStays, Zenon
      <3> QED BY <1>c, <2>3, <3>3, <3>4, LegacyKept, Zenon
    <2> QED BY <2>4, <2>5, Zenon
  <1> QED BY <1>b, <1>1, <1>2, <1>4, <1>5, <1>6, Zenon
          DEF SessionStep, ConfirmRegistration, ReleasePreRegistered, ReleaseTail

\* The administrator's edits and the lease timer leave the holder of a lease alone.
LEMMA AdminLegacy ==
  ASSUME NoRollback, Undisturbed, LeaseInvariant, OnlineInvariant, LegacyInvariant, AdminStep
  PROVE  LegacyInvariant'
  <1> USE NetworkAssumption
  <1>a. TypeOK /\ managed = NoManaged
    BY Zenon DEF LeaseInvariant
  <1>1. ASSUME UNCHANGED <<session, links>>,
               \A x \in Devices :
                 /\ device_map'[x].is_connected => device_map[x].is_connected
                 /\ device_map'[x].is_connected /\ device_map[x].present => device_map'[x].present,
               \A x \in Devices, j \in Ips : device_map'[x].is_connected /\ active_ip_map[j] = x =>
                 active_ip_map'[j] = active_ip_map[j] /\ sender_map'[j] = sender_map[j]
        PROVE  LegacyInvariant'
    <2>1. LoneLinks'
      BY <1>1, Zenon DEF LegacyInvariant, LoneLinks
    <2>2. ASSUME NEW x \in Devices, NEW j \in Ips, NEW p \in Sessions, Held(x, j, p),
                 device_map'[x].is_connected
          PROVE  Held(x, j, p)'
      <3>1. active_ip_map'[j] = active_ip_map[j] /\ sender_map'[j] = sender_map[j]
        BY <1>1, <2>2, Zenon DEF Held
      <3> QED BY <1>1, <2>2, <3>1, HeldStays, Zenon
    <2>3. \A x \in Devices : device_map'[x].is_connected =>
            device_map'[x].present /\ device_map[x].is_connected
      BY <1>1, Zenon DEF LegacyInvariant
    <2> QED BY <1>1, <2>1, <2>2, <2>3, LegacyKept, Zenon
  <1>2. ASSUME NEW d \in Devices, NEW ip \in Ips, NEW it \in IpTypes, NEW ct \in ClientTypes,
               NEW routes \in BOOLEAN, UpsertDevice(d, ip, it, ct, routes)
        PROVE  LegacyInvariant'
    <2>1. UNCHANGED <<active_ip_map, sender_map, session, links>>
      BY <1>2, Zenon DEF UpsertDevice, poolVars
    <2>2. PICK n : device_map' = [device_map EXCEPT ![d] =
                     [device_map[d] EXCEPT !.ip = ip, !.client_type = ct, !.present = TRUE,
                        !.ip_type = IF ct = "Wireguard" THEN "Static" ELSE it,
                        !.data_version = n]]
      BY <1>2, Zenon DEF UpsertDevice
    <2>3. PICK e \in DeviceEntry : e = device_map[d]
      BY <1>a, Zenon DEF TypeOK
    <2>4. PICK f : f = [e EXCEPT !.ip = ip, !.client_type = ct, !.present = TRUE,
                                 !.ip_type = IF ct = "Wireguard" THEN "Static" ELSE it,
                                 !.data_version = n]
      BY Zenon
    <2>5. f.is_connected = e.is_connected /\ f.present
      BY <2>4, Zenon DEF DeviceEntry
    <2>6. \A x \in Devices : device_map'[x] = IF x = d THEN f ELSE device_map[x]
      BY <1>a, <2>2, <2>3, <2>4, Zenon DEF TypeOK
    <2> QED BY <1>1, <2>1, <2>3, <2>5, <2>6, Zenon
  <1>3. CASE UpsertSaved
    <2>1. UNCHANGED <<device_map, active_ip_map, sender_map, session, links>>
      BY <1>3, Zenon DEF UpsertSaved, leaseVars, poolVars
    <2> QED BY <1>1, <2>1, Zenon
  <1>4. ASSUME NEW d \in Devices, DeleteDevice(d)
        PROVE  LegacyInvariant'
    <2>1. /\ device_map' = [device_map EXCEPT ![d] = NoEntry] /\ UNCHANGED <<session, links>>
          /\ \A j \in Ips : active_ip_map[j] # d =>
               active_ip_map'[j] = active_ip_map[j] /\ sender_map'[j] = sender_map[j]
      BY <1>4, Zenon DEF DeleteDevice
    <2>2. /\ ~device_map'[d].is_connected
          /\ \A x \in Devices : x # d => device_map'[x] = device_map[x]
      BY <1>a, <2>1, ZenonT(30) DEF TypeOK, NoEntry
    <2> QED BY <1>1, <2>1, <2>2, Zenon
  <1>5. ASSUME NEW S \in SUBSET Devices, ReleaseExpired(S)
        PROVE  LegacyInvariant'
    <2>1. /\ device_map' = [d \in Devices |->
               IF d \in S THEN [device_map[d] EXCEPT !.ip = None, !.data_version = data_version + 1]
               ELSE device_map[d]]
          /\ UNCHANGED <<active_ip_map, sender_map, session, links>>
      BY <1>5, Zenon DEF ReleaseExpired, poolVars
    <2>2. ASSUME NEW x \in Devices
          PROVE  /\ device_map'[x].is_connected = device_map[x].is_connected
                 /\ device_map'[x].present = device_map[x].present
      <3>1. PICK e \in DeviceEntry : e = device_map[x]
        BY <1>a, Zenon DEF TypeOK
      <3>2. PICK f : f = [e EXCEPT !.ip = None, !.data_version = data_version + 1]
        BY Zenon
      <3>3. f.is_connected = e.is_connected /\ f.present = e.present
        BY <3>2, Zenon DEF DeviceEntry
      <3> QED BY <2>1, <3>1, <3>2, <3>3, Zenon
    <2> QED BY <1>1, <2>1, <2>2, Zenon
  <1>6. ASSUME NEW d \in Devices, UpdateRuntimeMetadata(d)
        PROVE  LegacyInvariant'
    <2>1. /\ device_map' = [device_map EXCEPT ![d].data_version = data_version + 1]
          /\ UNCHANGED <<active_ip_map, sender_map, session, links>>
      BY <1>6, Zenon DEF UpdateRuntimeMetadata, poolVars
    <2>2. \A x \in Devices : /\ device_map'[x].is_connected = device_map[x].is_connected
                             /\ device_map'[x].present = device_map[x].present
      BY <1>a, <2>1 DEF TypeOK, DeviceEntry
    <2> QED BY <1>1, <2>1, <2>2, Zenon
  <1>7. ~UpsertSaveFails /\ \A ip \in Ips : ~DisconnectSubscription(ip)
    BY Zenon DEF Undisturbed, UpsertSaveFails, DisconnectSubscription
  <1>8. (\A d \in Devices : ~ManagedSnapshot(d)) /\ ~ManagedCommit /\ ~ManagedRollback
    BY <1>a, Zenon DEF NoRollback, ManagedSnapshot, ManagedCommit, ManagedRollback, NoManaged
  <1> QED BY <1>2, <1>3, <1>4, <1>5, <1>6, <1>7, <1>8 DEF AdminStep

\* The last session of a client with one link per registration takes its device offline,
\* in every order of drops and reconnects, as long as nothing else unpublishes its pool
\* and no failed write puts a former entry back.
THEOREM LegacyAlwaysGoesOffline ==
  ASSUME NoRollback, NoPreRegister, Undisturbed
  PROVE  Spec => []LegacyGoesOffline
  <1> USE NetworkAssumption
  <1>1. Init => LegacyInvariant
    BY DEF Init, LegacyInvariant, Unborn, LoneLinks, NoEntry
  <1>2. LeaseInvariant /\ OnlineInvariant /\ LegacyInvariant /\ [Next]_vars => LegacyInvariant'
    <2> SUFFICES ASSUME LeaseInvariant, OnlineInvariant, LegacyInvariant, [Next]_vars
                 PROVE  LegacyInvariant'
      BY Zenon
    <2>1. CASE UNCHANGED vars
      <3>1. UNCHANGED <<device_map, active_ip_map, sender_map, session, links>>
        BY <2>1, Zenon DEF vars
      <3>2. LoneLinks'
        BY <3>1, Zenon DEF LegacyInvariant, LoneLinks
      <3>3. \A x \in Devices : device_map'[x].is_connected =>
              device_map'[x].present /\ device_map[x].is_connected
        BY <3>1, Zenon DEF LegacyInvariant
      <3> QED BY <3>1, <3>2, <3>3, HeldStays, LegacyKept, Zenon
    <2> QED BY <2>1, RegisterLegacy, SessionLegacy, AdminLegacy, Zenon DEF Next
  <1>3. LeaseInvariant /\ OnlineInvariant /\ LegacyInvariant => LegacyGoesOffline
    <2> SUFFICES ASSUME LeaseInvariant, OnlineInvariant, LegacyInvariant, NEW d \in Devices,
                        device_map[d].is_connected, Legacy(d)
                 PROVE  \E s \in Sessions : session[s].device = d /\ session[s].phase # "gone"
      BY Zenon DEF LegacyGoesOffline, Legacy
    <2>1. PICK ip \in Ips, p \in Sessions : Held(d, ip, p)
      BY Zenon DEF LegacyInvariant
    <2>2. session[p].device = d
      BY <2>1, PublishedLeased, Zenon DEF Held
    <2> QED BY <2>1, <2>2, Zenon DEF Held
  <1> QED BY <1>1, <1>2, <1>3, OnlineInductive, PTL DEF Spec
=============================================================================
