---------------------------- MODULE Subscription ----------------------------
(***************************************************************************)
(* The managed configuration of one VNT device: the durable row with its   *)
(* revision, the administrator requests that advance it and push it, the   *)
(* subscription control connections that clients open, and the session     *)
(* entry that ties the two together.                                       *)
(*                                                                         *)
(* Source: service.rs (register_subscription_connection, acknowledge_      *)
(* subscription_config, push and enqueue, disconnect_subscription_session, *)
(* SubscriptionControlSession), handler.rs (handle_reg, handle_data),      *)
(* web_server.rs (put_managed_device_config, update_client_access,         *)
(* issue_missing_subscription, disconnect_managed_device), db.rs.          *)
(* Registration of traffic sessions carries no subscription any more       *)
(* (register_inner drops it), so every link is a control connection.       *)
(***************************************************************************)
EXTENDS Naturals, Sequences

CONSTANTS
    Conns,         \* control connections, each used once
    Instances,     \* client runs (instance_id)
    None,          \* no instance, no entry, no acknowledgement in progress
    Disconnects,   \* may administrators delete, re-issue or disconnect
    Malformed,     \* may the row hold a configuration that cannot be packaged
    OutboundCap,   \* capacity of a connection's outbound queue
    MaxRevision,   \* bound: revisions of the row
    MaxEdits       \* bound: changes of the row

ASSUME SubscriptionAssumption ==
    /\ None \notin Conns \cup Instances
    /\ Disconnects \in BOOLEAN /\ Malformed \in BOOLEAN
    /\ OutboundCap \in Nat \ {0} /\ MaxRevision \in Nat \ {0} /\ MaxEdits \in Nat

VARIABLES
    revision,   \* of the row in vnt_device_configs; 0 when there is none
    broken,     \* the row cannot be packaged
    removing,   \* a deletion or re-issue that has yet to disconnect the session
    entry,      \* subscription_sessions of the device
    conn,       \* the connections and their handlers
    queue,      \* connection -> messages to the client
    acks,       \* connection -> messages from the client
    acking,     \* the acknowledgement that holds the mutation lock
    writer,     \* the administrator requests that change the row
    edits,      \* how often it was changed
    applied     \* instance -> the revision that client run has applied

subscriptionVars == <<revision, broken, removing, entry, conn, queue, acks, acking, writer, edits, applied>>

Revisions == 0 .. MaxRevision
\* put_managed_device_config is serialised per device; update_client_access is not
\* serialised with it.
Writers == {"put", "access"}

Message == [kind : {"reply", "push"}, revision : Revisions]
Ack == [ok : BOOLEAN, revision : Revisions]
\* `error`: the revision whose failure apply_error reports, 0 for none.
Entry == [conn : Conns, instance : Instances, applied : Revisions, error : Revisions]
Connection ==
    [pc : {"new", "read", "checked", "inserted", "live", "closed"},
     instance : Instances \cup {None}, revision : Revisions, applied : Revisions,
     broken : BOOLEAN]

Writer == [pc : {"idle", "reread", "push", "send"}, revision : Revisions, conn : Conns \cup {None}]

ASSUME NoneApart == None \notin Entry

Linked(c) == entry # None /\ entry.conn = c
HasRoom(c) == Len(queue[c]) < OutboundCap
-----------------------------------------------------------------------------
(* Registration of a control connection (one handler task).                 *)

\* The row is read; a client ahead of the row is refused.
ReadRecord(c, i) ==
    /\ conn[c].pc = "new"
    /\ revision # 0 /\ applied[i] <= revision
    /\ conn' = [conn EXCEPT ![c] = [pc |-> "read", instance |-> i, revision |-> revision,
                                    applied |-> applied[i], broken |-> broken]]
    /\ UNCHANGED <<revision, broken, removing, entry, queue, acks, acking, writer, edits, applied>>

\* Another client run holds the device's session: refused.
CheckInstance(c) ==
    /\ conn[c].pc = "read"
    /\ conn' = [conn EXCEPT ![c].pc =
                  IF entry # None /\ entry.instance # conn[c].instance THEN "closed"
                  ELSE "checked"]
    /\ UNCHANGED <<revision, broken, removing, entry, queue, acks, acking, writer, edits, applied>>

\* The entry is replaced, complete from the start.  A row that cannot be packaged is
\* an error only after that, when no SubscriptionControlSession exists to undo it.
InsertEntry(c) ==
    /\ conn[c].pc = "checked"
    /\ entry' = [conn |-> c, instance |-> conn[c].instance, applied |-> conn[c].applied,
                 error |-> 0]
    /\ conn' = [conn EXCEPT ![c].pc = IF conn[c].broken THEN "closed" ELSE "inserted"]
    /\ UNCHANGED <<revision, broken, removing, queue, acks, acking, writer, edits, applied>>

\* The answer carries the row as it was read.
SendReply(c) ==
    /\ conn[c].pc = "inserted" /\ HasRoom(c)
    /\ queue' = [queue EXCEPT ![c] = Append(@, [kind |-> "reply", revision |-> conn[c].revision])]
    /\ conn' = [conn EXCEPT ![c].pc = "live"]
    /\ UNCHANGED <<revision, broken, removing, entry, acks, acking, writer, edits, applied>>

DropTakesEntry(c) == entry' = None   \* mutant: whoever's entry it is
\* SubscriptionControlSession::drop: its own link goes, and the entry with the last.
DropSession(c) == entry' = IF Linked(c) THEN None ELSE entry

CloseConnection(c) ==
    /\ conn[c].pc = "live" /\ (acking # None => acking.conn # c)
    /\ conn' = [conn EXCEPT ![c].pc = "closed"]
    /\ DropSession(c)
    /\ UNCHANGED <<revision, broken, removing, queue, acks, acking, writer, edits, applied>>
-----------------------------------------------------------------------------
(* The client (external): applies what is newer, and acknowledges it.       *)

ClientReceive(c) ==
    LET m == Head(queue[c])
        i == conn[c].instance
    IN  /\ conn[c].pc = "live" /\ queue[c] # <<>>
        /\ queue' = [queue EXCEPT ![c] = Tail(@)]
        /\ IF m.revision <= applied[i]
           THEN UNCHANGED <<applied, acks>>
           ELSE \E ok \in BOOLEAN :
                  /\ applied' = IF ok THEN [applied EXCEPT ![i] = m.revision] ELSE applied
                  /\ acks' = [acks EXCEPT ![c] =
                                Append(@, [ok |-> ok, revision |-> m.revision])]
        /\ UNCHANGED <<revision, broken, removing, entry, conn, acking, writer, edits>>
-----------------------------------------------------------------------------
(* acknowledge_subscription_config, under the device's mutation lock.       *)

\* The link is looked up and the row's revision read; the connection ends with an error
\* when its link is gone, the row is gone, or the client is ahead of it.
BeginAck(c) ==
    LET a == Head(acks[c])
    IN  /\ conn[c].pc = "live" /\ acks[c] # <<>> /\ acking = None
        /\ acks' = [acks EXCEPT ![c] = Tail(@)]
        /\ IF Linked(c) /\ revision # 0 /\ a.revision <= revision
           THEN /\ acking' = [conn |-> c, ack |-> a, target |-> revision]
                /\ UNCHANGED <<conn, entry>>
           ELSE /\ conn' = [conn EXCEPT ![c].pc = "closed"]
                /\ DropSession(c)
                /\ UNCHANGED acking
        /\ UNCHANGED <<revision, broken, removing, queue, writer, edits, applied>>

ack_any_older(ack_revision, target_revision, applied_revision) ==   \* mutant: late ones too
    ack_revision <= target_revision
ack_can_update_live_state(ack_revision, target_revision, applied_revision) ==
    ack_revision = target_revision /\ ack_revision >= applied_revision

AcknowledgedFailed(a) == [entry EXCEPT !.applied = a.revision]   \* mutant: failures count
Acknowledged(a) ==
    IF a.ok THEN [entry EXCEPT !.applied = a.revision, !.error = 0]
    ELSE [entry EXCEPT !.error = a.revision]

\* The device's entry, whichever it is by now, takes the acknowledged revision.
FinishAck ==
    LET a == acking.ack
    IN  /\ acking # None /\ acking' = None
        /\ entry' = IF /\ entry # None
                       /\ ack_can_update_live_state(a.revision, acking.target, entry.applied)
                    THEN Acknowledged(a) ELSE entry
        /\ UNCHANGED <<revision, broken, removing, conn, queue, acks, writer, edits, applied>>
-----------------------------------------------------------------------------
(* The administrator's requests.                                            *)

\* The first configuration of a device has revision 1 and is not pushed.
CreateConfig ==
    /\ edits < MaxEdits /\ edits' = edits + 1
    /\ revision = 0 /\ ~ removing
    /\ revision' = 1 /\ broken' = FALSE
    /\ UNCHANGED <<removing, entry, conn, queue, acks, acking, writer, applied>>

\* A row that cannot be packaged cannot be edited either; it is repaired by hand.
RepairRow ==
    /\ broken /\ broken' = FALSE
    /\ UNCHANGED <<revision, removing, entry, conn, queue, acks, acking, writer, edits, applied>>

\* UPDATE ... SET revision = revision + 1.
CommitRevision(w) ==
    /\ edits < MaxEdits /\ edits' = edits + 1
    /\ writer[w].pc = "idle" /\ revision \in 1 .. MaxRevision - 1 /\ ~ broken
    /\ revision' = revision + 1
    /\ writer' = [writer EXCEPT ![w].pc = "reread"]
    /\ UNCHANGED <<broken, removing, entry, conn, queue, acks, acking, applied>>

\* The row is read back; gone, the request ends with an error.
RereadRecord(w) ==
    /\ writer[w].pc = "reread"
    /\ writer' = [writer EXCEPT ![w].pc = IF revision = 0 THEN "idle" ELSE "push",
                                ![w].revision = revision]
    /\ UNCHANGED <<revision, broken, removing, entry, conn, queue, acks, acking, edits, applied>>

\* push_subscription_config picks the session's link, ...
PickTarget(w) ==
    /\ writer[w].pc = "push"
    /\ writer' = IF entry = None THEN [writer EXCEPT ![w].pc = "idle"]
                 ELSE [writer EXCEPT ![w].pc = "send", ![w].conn = entry.conn]
    /\ UNCHANGED <<revision, broken, removing, entry, conn, queue, acks, acking, edits, applied>>

\* ... and enqueue_subscription_payloads waits for room on it, up to a timeout.
Deliver(w) ==
    LET c == writer[w].conn
    IN  /\ writer[w].pc = "send"
        /\ queue' = IF conn[c].pc # "closed" /\ HasRoom(c)
                    THEN [queue EXCEPT ![c] =
                            Append(@, [kind |-> "push", revision |-> writer[w].revision])]
                    ELSE queue
        /\ writer' = [writer EXCEPT ![w].pc = "idle", ![w].conn = None]
        /\ UNCHANGED <<revision, broken, removing, entry, conn, acks, acking, edits, applied>>

\* issue_missing_subscription may advance the row, re-issues the credential and then
\* disconnects; delete_device deletes the row and then disconnects.
RemoveOrReissue ==
    /\ edits < MaxEdits /\ edits' = edits + 1
    /\ Disconnects /\ ~ removing /\ revision # 0
    /\ revision' \in {0, revision} \cup ({revision + 1} \cap Revisions)
    /\ removing' = TRUE
    /\ UNCHANGED <<broken, entry, conn, queue, acks, acking, writer, applied>>

\* disconnect_subscription_session, also on its own for disconnect_managed_device: the
\* entry goes, the connection stays.
Disconnect ==
    /\ Disconnects /\ (removing \/ entry # None)
    /\ entry' = None /\ removing' \in {FALSE, removing}
    /\ UNCHANGED <<revision, broken, conn, queue, acks, acking, writer, edits, applied>>
-----------------------------------------------------------------------------
SubscriptionInit ==
    /\ revision \in {1, 2} \cap Revisions /\ broken \in {FALSE, Malformed}
    /\ removing = FALSE /\ entry = None /\ acking = None
    /\ conn = [c \in Conns |-> [pc |-> "new", instance |-> None, revision |-> 0,
                                applied |-> 0, broken |-> FALSE]]
    /\ queue = [c \in Conns |-> <<>>] /\ acks = [c \in Conns |-> <<>>]
    /\ writer = [w \in Writers |-> [pc |-> "idle", revision |-> 0, conn |-> None]]
    /\ edits = 0 /\ applied = [i \in Instances |-> 0]

Register(c) == CheckInstance(c) \/ InsertEntry(c) \/ SendReply(c)
Write(w) == RereadRecord(w) \/ PickTarget(w) \/ Deliver(w)

SubscriptionNext ==
    \/ \E c \in Conns :
         \/ \E i \in Instances : ReadRecord(c, i)
         \/ Register(c) \/ CloseConnection(c) \/ ClientReceive(c) \/ BeginAck(c)
    \/ FinishAck
    \/ CreateConfig \/ RepairRow
    \/ \E w \in Writers : CommitRevision(w) \/ Write(w)
    \/ RemoveOrReissue \/ Disconnect

SubscriptionSpec == SubscriptionInit /\ [][SubscriptionNext]_subscriptionVars
-----------------------------------------------------------------------------
\* The type invariant.
SubscriptionTypeOK ==
    /\ revision \in Revisions /\ broken \in BOOLEAN /\ removing \in BOOLEAN
    /\ entry \in Entry \cup {None}
    /\ conn \in [Conns -> Connection]
    /\ queue \in [Conns -> Seq(Message)] /\ \A c \in Conns : Len(queue[c]) <= OutboundCap
    /\ acks \in [Conns -> Seq(Ack)]
    /\ acking \in [conn : Conns, ack : Ack, target : Revisions] \cup {None}
    /\ writer \in [Writers -> Writer]
    /\ edits \in 0 .. MaxEdits /\ applied \in [Instances -> Revisions]

\* What the console shows as applied was applied: the revision of the session entry is
\* one its client run has reported, never one it has yet to apply.  The comment in
\* acknowledge_subscription_config claims that acknowledgements are serialised with
\* registration.
TruthfulStatus == entry # None => entry.applied <= applied[entry.instance]

\* acknowledge_subscription_config: "a delayed revision cannot commit after a newer
\* one".  While a session lasts, its applied revision never goes back.
AckMonotone ==
    [][entry # None /\ entry' # None /\ entry'.conn = entry.conn
         => entry'.applied >= entry.applied]_subscriptionVars

\* The end of an old connection takes nothing from a new one: a connection that has
\* registered stays reachable for pushes until it closes, is replaced by a later
\* registration, or an administrator disconnects it.
LiveSessionKept ==
    [][entry # None /\ conn'[entry.conn].pc # "closed" /\ entry' = None => Disconnect]_subscriptionVars

\* The comment of activate_subscription_session: a session is caught up from the
\* durable record.  A client that stays connected in the end runs the row's revision,
\* or has reported that it cannot.
SyncConverges ==
    \A c \in Conns :
        <>[](conn[c].pc = "live" /\ Linked(c)) =>
            []<>(conn[c].pc = "live" /\ Linked(c) =>
                   revision \in {applied[conn[c].instance], entry.error})
=============================================================================
