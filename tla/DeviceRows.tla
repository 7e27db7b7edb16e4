----------------------------- MODULE DeviceRows -----------------------------
(***************************************************************************)
(* The device rows of one network in the database, beside the network's    *)
(* memory (NetworkState), and what a restart makes of them.                *)
(*                                                                         *)
(* Source: control_server/db.rs (the vnt_devices operations), service.rs   *)
(* (register_inner, fast_register, delete_device, release_expired_ips,     *)
(* restore_device_record, Drop for Session, get_or_create_network_state),  *)
(* network_state_provider.rs (confirm_registration, to_record, from_record,*)
(* build_initial_inner_state).                                             *)
(*                                                                         *)
(* Memory changes first and the row later.  Most operations await their    *)
(* write while they hold the network's mutation lock (`holding`); the      *)
(* second phase of a pre-registration awaits it without the lock, and a    *)
(* session that ends leaves it to a spawned task (`writes`).               *)
(***************************************************************************)
EXTENDS NetworkState

CONSTANTS
    MaxFaults   \* bound: restarts, reloads and failed statements

ASSUME RowsAssumption == MaxFaults \in Nat

VARIABLES
    rows,       \* device id -> its row of vnt_devices, or NoRow
    configs,    \* devices with a row of vnt_device_configs
    holding,    \* the awaited write under the mutation lock
    writes,     \* session -> its confirmation's or its spawned write
    behind,     \* history: devices whose row the code has let fall behind
    restored,   \* history: a managed edit was rolled back, or a shared address loaded
    faults      \* how many of the faults below have happened

rowVars == <<rows, configs, holding, writes, behind, restored, faults>>
rowsVars == <<vars, rowVars>>

NoRow == [present |-> FALSE, ip |-> None, ip_type |-> "Dynamic", client_type |-> "Vnt"]
Row == [present : BOOLEAN, ip : Ips \cup {None},
        ip_type : {"Dynamic", "Static", "Fixed"},
        client_type : {"Vnt", "Ikev2", "Wireguard"}]

to_record(e) == [present |-> TRUE, ip |-> e.ip, ip_type |-> e.ip_type,
                 client_type |-> e.client_type]
from_record(r) == [NoEntry EXCEPT !.present = r.present, !.ip = r.ip,
                                  !.ip_type = r.ip_type,
                                  !.client_type = r.client_type]
Image(e) == IF e.present THEN to_record(e) ELSE NoRow

\* `late`: the entry has changed since the record was taken from it.
NoWrite == [op |-> "none", row |-> NoRow, late |-> FALSE]
NoHold == [op |-> "none", todo |-> {}, session |-> None, row |-> NoRow, late |-> FALSE]

\* mutant: the mutation lock is given back before the row has been written
UnlockedEarly == TRUE

Unlocked == holding = NoHold

\* The entry of d changes in this step, beyond what this step itself records.
Supersedes(d) == Image(device_map'[d]) # Image(device_map[d])

MarkLate(w) ==
    [t \in Sessions |->
        IF w[t].op # "none" /\ Supersedes(session[t].device)
        THEN [w[t] EXCEPT !.late = TRUE] ELSE w[t]]

Hold(op, D, s, row) ==
    holding' = [op |-> op, todo |-> D, session |-> s, row |-> row, late |-> FALSE]
HeldOn ==   \* the write in flight goes on while another actor changes the entry
    holding' = IF holding.op = "save" /\ \E d \in holding.todo : Supersedes(d)
               THEN [holding EXCEPT !.late = TRUE] ELSE holding
-----------------------------------------------------------------------------
(* Operations that take the mutation lock, change memory and await a row.   *)

SaveAfter(d, s) ==
    /\ Hold("save", {d}, s, to_record(device_map'[d]))
    /\ writes' = MarkLate(writes)
    /\ UNCHANGED <<rows, configs, behind, restored, faults>>

\* register_inner: a Normal registration awaits its row before it answers.  A
\* PreRegister leaves the row to its confirmation.
RegisterRow(s, d, ct, i, r, var, mode) ==
    /\ Unlocked
    /\ Register(s, d, ct, i, r, var, mode)
    /\ IF session'[s].phase = "confirmed"
       THEN SaveAfter(d, s)
       ELSE /\ behind' = IF Supersedes(d) THEN behind \cup {d} ELSE behind
            /\ writes' = MarkLate(writes)
            /\ UNCHANGED <<rows, configs, holding, restored, faults>>

FastRegisterMemoryOnly(s, new) ==   \* mutant: the converged address is not saved
    /\ Unlocked
    /\ FastRegisterAgain(s, new) \/ FastRegisterMove(s, new)
    /\ writes' = MarkLate(writes)
    /\ UNCHANGED <<rows, configs, holding, behind, restored, faults>>

FastRegisterRow(s, new) ==
    /\ Unlocked
    /\ FastRegisterAgain(s, new) \/ FastRegisterMove(s, new)
    /\ SaveAfter(session[s].device, s)

UpsertRow(d, ip, it, ct, routes) ==
    /\ Unlocked
    /\ UpsertDevice(d, ip, it, ct, routes)
    /\ SaveAfter(d, None)

\* acknowledge_subscription_config: only a device with a managed config has one.
UpdateMetadataRow(d) ==
    /\ Unlocked
    /\ d \in configs
    /\ UpdateRuntimeMetadata(d)
    /\ SaveAfter(d, None)

\* restore_device_record puts back an entry that may no longer be allowed.
RestoreRow ==
    /\ Unlocked /\ faults < MaxFaults
    /\ ManagedRollback
    /\ Hold("save", {managed.device}, None, to_record(device_map'[managed.device]))
    /\ writes' = MarkLate(writes)
    /\ restored' = TRUE
    /\ faults' = faults + 1
    /\ UNCHANGED <<rows, configs, behind>>

DeleteRow(d) ==
    /\ Unlocked
    /\ DeleteDevice(d)
    /\ Hold("delete", {d}, None, NoRow)
    /\ writes' = MarkLate(writes)
    /\ UNCHANGED <<rows, configs, behind, restored, faults>>

\* The device is known to the database only.
DeleteUnknownRow(d) ==
    /\ Unlocked /\ LockFree
    /\ "delete" \in Events
    /\ ~Has(d) /\ rows[d].present
    /\ Hold("delete", {d}, None, NoRow)
    /\ UNCHANGED <<vars, rows, configs, writes, behind, restored, faults>>

ReleaseRows(S) ==
    /\ Unlocked
    /\ ReleaseExpired(S)
    /\ Hold("release", S, None, NoRow)
    /\ writes' = MarkLate(writes)
    /\ UNCHANGED <<rows, configs, behind, restored, faults>>
-----------------------------------------------------------------------------
(* The database.                                                            *)

\* The row of d has been written: it is current unless the record was late.
Stored(d, row, late) ==
    /\ rows' = [rows EXCEPT ![d] = row]
    /\ behind' = IF late THEN behind \cup {d} ELSE behind \ {d}

\* release_device_ip_on updates one column, and not that of a device with a managed
\* config: the address such a device has lost in memory stays in its row.
Released(d) ==
    IF d \in configs THEN behind' = behind \cup {d} /\ UNCHANGED rows
    ELSE rows' = [rows EXCEPT ![d].ip = None] /\ UNCHANGED behind

\* delete_device deletes the managed config first, in a statement of its own.
ConfigDeleted ==
    /\ holding.op = "delete"
    /\ holding.todo \cap configs # {}
    /\ configs' = configs \ holding.todo
    /\ UNCHANGED <<vars, rows, holding, writes, behind, restored, faults>>

\* The statement of the operation that holds the lock completes; releases are one
\* statement per device, in the order of a hash map.
SaveCompletes ==
    /\ holding.op = "save"
    /\ \E d \in holding.todo : Stored(d, holding.row, holding.late)
    /\ holding' = NoHold
    /\ IF LockFree THEN UNCHANGED vars ELSE UpsertSaved
    /\ UNCHANGED <<configs, writes, restored, faults>>

DeleteCompletes ==
    /\ holding.op = "delete" /\ holding.todo \cap configs = {}
    /\ \E d \in holding.todo : Stored(d, NoRow, FALSE)
    /\ holding' = [holding EXCEPT !.op = "deleted"]
    /\ UNCHANGED <<vars, configs, writes, restored, faults>>

\* Then delete_device disconnects the subscription session, if there is one.
DeleteEnds ==
    /\ holding.op = "deleted"
    /\ holding' = NoHold
    /\ UNCHANGED vars \/ \E ip \in Ips : DisconnectSubscription(ip)
    /\ UNCHANGED <<rows, configs, writes, behind, restored, faults>>

ReleaseCompletes ==
    /\ holding.op = "release"
    /\ \E d \in holding.todo :
         /\ Released(d)
         /\ holding' = IF holding.todo = {d} THEN NoHold
                       ELSE [holding EXCEPT !.todo = @ \ {d}]
    /\ UNCHANGED <<vars, configs, writes, restored, faults>>

\* It fails.  An edit puts the former entry back (the records taken meanwhile are late);
\* everybody else leaves memory as it is.
HeldFails ==
    /\ faults < MaxFaults /\ holding.op # "deleted"
    /\ \E d \in holding.todo :
         /\ holding' = IF holding.todo = {d} THEN NoHold
                       ELSE [holding EXCEPT !.todo = @ \ {d}]
         /\ behind' = behind \cup {d}
    /\ IF LockFree THEN UNCHANGED <<vars, writes>>
       ELSE UpsertSaveFails /\ writes' = MarkLate(writes)
    /\ faults' = faults + 1
    /\ UNCHANGED <<rows, configs, restored>>

\* confirm_registration, up to its write: the record is read under no lock.
ConfirmBegins(s) ==
    LET d == session[s].device
    IN  /\ session[s].phase = "pending" /\ writes[s] = NoWrite
        /\ Has(d)
        /\ writes' = [writes EXCEPT ![s] = [op |-> "confirm", late |-> FALSE,
                                            row |-> to_record(device_map[d])]]
        /\ UNCHANGED <<vars, rows, configs, holding, behind, restored, faults>>

\* The write has landed, and the registration is confirmed in memory.  An entry that is
\* gone is confirmed without a write.
Confirm(s) ==
    LET d == session[s].device
    IN  /\ ConfirmRegistration(s)
        /\ writes[s].op = "confirm" \/ ~Has(d)
        /\ writes' = [writes EXCEPT ![s] = NoWrite]
        /\ IF writes[s].op = "confirm" THEN Stored(d, writes[s].row, writes[s].late)
           ELSE UNCHANGED <<rows, behind>>
        /\ UNCHANGED <<configs, holding, restored, faults>>

\* The end of a confirmed session.
EndSession(s) ==
    /\ FinalizeOffline(s)
    /\ writes' = IF data_version' = data_version THEN writes
                 ELSE [writes EXCEPT ![s] =
                         [op |-> "offline", late |-> FALSE,
                          row |-> to_record(device_map'[session[s].device])]]
    /\ UNCHANGED <<rows, configs, holding, behind, restored, faults>>

\* The end of a session that never confirmed: only memory forgets the device.
EndPending(s) ==
    LET d == session[s].device
    IN  /\ writes[s] = NoWrite
        /\ ReleasePreRegistered(s)
        /\ writes' = MarkLate(writes)
        /\ HeldOn
        /\ behind' = IF Supersedes(d) THEN behind \cup {d} ELSE behind
        /\ UNCHANGED <<rows, configs, restored, faults>>

SpawnedCompletes(s) ==
    /\ writes[s].op = "offline"
    /\ Stored(session[s].device, writes[s].row, writes[s].late)
    /\ writes' = [writes EXCEPT ![s] = NoWrite]
    /\ UNCHANGED <<vars, configs, holding, restored, faults>>

\* Either write may fail; a session whose confirmation failed is still pending.
WriteFails(s) ==
    /\ faults < MaxFaults /\ writes[s].op # "none"
    /\ writes' = [writes EXCEPT ![s] = NoWrite]
    /\ behind' = behind \cup {session[s].device}
    /\ faults' = faults + 1
    /\ UNCHANGED <<vars, rows, configs, holding, restored>>
-----------------------------------------------------------------------------
(* Loading.                                                                 *)

Shared(R) == \E d, e \in Devices : d # e /\ R[d].ip # None /\ R[d].ip = R[e].ip

\* mutant: the loaded devices do not take their addresses in device_ip_map
LoadUnindexed(R) ==
    /\ device_map' = [d \in Devices |-> from_record(R[d])]
    /\ device_ip_map' = [ip \in Ips |-> None]
    /\ active_ip_map' = [ip \in Ips |-> None]
    /\ data_version' = 0
    /\ full_sync_version' = 0
    /\ sender_map' = [ip \in Ips |-> None]
    /\ traffic_stats_map' = [ip \in Ips |-> None]
    /\ restored' = (restored \/ Shared(R))

\* build_initial_inner_state over the rows R.  Rows that share an address all keep it;
\* the one loaded last is its owner.
Load(R) ==
    /\ device_map' = [d \in Devices |-> from_record(R[d])]
    /\ device_ip_map' \in [Ips -> Devices \cup {None}]
    /\ \A ip \in Ips : LET D == {d \in Devices : R[d].ip = ip /\ ip \in Usable}
                       IN  IF D = {} THEN device_ip_map'[ip] = None
                           ELSE device_ip_map'[ip] \in D
    /\ active_ip_map' = [ip \in Ips |-> None]
    /\ data_version' = 0
    /\ full_sync_version' = 0
    /\ sender_map' = [ip \in Ips |-> None]
    /\ traffic_stats_map' = [ip \in Ips |-> None]
    /\ restored' = (restored \/ Shared(R))

NoRows == [d \in Devices |-> NoRow]

\* The rows are loaded, or cannot be and the network starts with no devices.
Loads ==
    \/ /\ Load(rows)
       /\ behind' = {}
    \/ /\ Load(NoRows)
       /\ behind' = {d \in Devices : rows[d].present}

\* The server stops at any moment: memory and every write in flight are lost.  The
\* network is loaded again when a device or the administrator first asks for it.
Restart ==
    /\ faults < MaxFaults
    /\ Loads
    /\ links' = [p \in Sessions |-> {}]
    /\ session' = [s \in Sessions |->
                     IF session[s].phase = "none" THEN NoSession ELSE Closed(s)]
    /\ admin' = NoAdmin
    /\ managed' = NoManaged
    /\ holding' = NoHold
    /\ writes' = [s \in Sessions |-> NoWrite]
    /\ faults' = faults + 1
    /\ UNCHANGED <<rows, configs>>

\* release_network drops the state of a network with no devices in memory after an hour
\* without use (here: when no session refers to it either), and it is loaded again.
ReleaseNetwork ==
    /\ faults < MaxFaults
    /\ Unlocked /\ LockFree /\ managed = NoManaged
    /\ \A d \in Devices : ~Has(d)
    /\ \A s \in Sessions : session[s].phase \in {"none", "gone"}
    /\ Loads
    /\ faults' = faults + 1
    /\ UNCHANGED <<links, session, admin, managed, rows, configs, holding, writes>>
-----------------------------------------------------------------------------
RowsInit ==
    /\ Init
    /\ rows = NoRows
    /\ configs = {}
    /\ holding = NoHold
    /\ writes = [s \in Sessions |-> NoWrite]
    /\ behind = {}
    /\ restored = FALSE
    /\ faults = 0

\* Steps of NetworkState that change no recorded field.  A subscription is disconnected
\* when its managed config is reissued or withdrawn.
OtherSessionStep(s) ==
    /\ \/ \E new \in Ips : FollowPool(s, new)
       \/ OfflineLookup(s)
       \/ RemoveLink(s)
       \/ ReleaseTail(s)
    /\ UNCHANGED rowVars

\* Bound: one managed edit, begun before the last session and before any fault.
FirstManagedEdit ==
    configs = {} /\ faults = 0 /\ \E s \in Sessions : session[s].phase = "none"

OtherAdminStep ==
    /\ \/ configs # {} /\ \E ip \in Ips : DisconnectSubscription(ip)
       \/ FirstManagedEdit /\ \E d \in Devices : ManagedSnapshot(d)
    /\ UNCHANGED rowVars

\* put_managed_device_config writes the managed config last.
ManagedCommitRow ==
    /\ ManagedCommit
    /\ configs' = configs \cup {managed.device}
    /\ UNCHANGED <<rows, holding, writes, behind, restored, faults>>

\* A session whose handler awaits a write takes no other step.
SessionRowStep(s) ==
    /\ holding.session # s
    /\ \/ ConfirmBegins(s)
       \/ Confirm(s)
       \/ EndSession(s)
       \/ EndPending(s)
       \/ \E new \in Ips : FastRegisterRow(s, new)
       \/ writes[s] = NoWrite /\ OtherSessionStep(s)

LockedStep ==
    \/ \E s \in Sessions, d \in Devices, ct \in ClientTypes,
          i \in Instances \cup {None}, r \in Ips \cup {None},
          var \in BOOLEAN, mode \in RegModes : RegisterRow(s, d, ct, i, r, var, mode)
    \/ \E d \in Devices, ip \in Ips, it \in IpTypes, ct \in ClientTypes,
          routes \in BOOLEAN : UpsertRow(d, ip, it, ct, routes)
    \/ \E d \in Devices : UpdateMetadataRow(d) \/ DeleteRow(d) \/ DeleteUnknownRow(d)
    \/ \E S \in SUBSET Devices : ReleaseRows(S)
    \/ RestoreRow

DatabaseStep ==
    \/ ConfigDeleted
    \/ SaveCompletes
    \/ DeleteCompletes
    \/ DeleteEnds
    \/ ReleaseCompletes
    \/ HeldFails
    \/ \E s \in Sessions : SpawnedCompletes(s) \/ WriteFails(s)

RowsNext ==
    \/ LockedStep
    \/ \E s \in Sessions : SessionRowStep(s)
    \/ OtherAdminStep
    \/ ManagedCommitRow
    \/ DatabaseStep
    \/ Restart
    \/ ReleaseNetwork

RowsSpec == RowsInit /\ [][RowsNext]_rowsVars
-----------------------------------------------------------------------------
(* Properties.                                                              *)

\* A device's row is what memory says of the device (its address, the kinds of address
\* and device, and that it exists at all, so that a restart gives it back), but for the
\* devices whose row the holder of the mutation lock is about to write.  Writes outside
\* the lock make no exception.  The code lets a row fall behind only where a
\* pre-registration was never confirmed or was released, a record was written that had
\* been overtaken by a change of the entry (the spawned write of a session that ended
\* races with every later one), a statement failed, or the address of a device with a
\* managed config expired.
RowsCurrent ==
    \A d \in Devices \ behind : d \notin holding.todo => rows[d] = Image(device_map[d])

\* At every moment, writes in flight included, two rows with one address mean that one
\* of the two devices had fallen behind: an address given up in memory is taken by
\* another device only after the row that had it is rewritten, because the mutation lock
\* is held until then.
RowsExclusive ==
    ~restored => \A d, e \in Devices :
        d # e /\ rows[d].ip # None /\ rows[d].ip = rows[e].ip =>
            d \in behind \/ e \in behind

\* Over restarts too an address has one owner, as long as no managed edit was rolled
\* back and no two rows loaded shared an address.
ExclusiveOverRestarts == ~restored => AddressExclusive
=============================================================================
