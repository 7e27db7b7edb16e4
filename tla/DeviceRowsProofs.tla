------------------------- MODULE DeviceRowsProofs -------------------------
(***************************************************************************)
(* Proofs about DeviceRows, for any sets of devices, sessions and addresses*)
(* and any number of faults: a row that has not been let fall behind is    *)
(* what memory says of its device, two rows share an address only when one *)
(* of them had fallen behind, and over restarts an address has one owner.  *)
(***************************************************************************)
EXTENDS DeviceRows, NetworkStateProofs

-----------------------------------------------------------------------------
(* The invariant.                                                           *)

\* Rows and entries whose address, if they have one, a device may hold.
Record == {r \in Row : r.ip \in Usable \cup {None}}
Entry == {e \in DeviceEntry : e.ip \in Usable \cup {None}}

Write == [op : {"none", "confirm", "offline"}, row : Record, late : BOOLEAN]
HeldWrite == [op : {"none", "save", "delete", "deleted", "release"}, todo : SUBSET Devices,
              session : Sessions \cup {None}, row : Record, late : BOOLEAN]

\* What memory says of d: the row d should have.
Img(d) == Image(device_map[d])

\* The types the rows depend on; unlike the leases they survive a rolled-back edit.
MemoryTyped ==
    /\ device_map \in [Devices -> Entry] /\ data_version \in Nat
    /\ session \in [Sessions -> Session] /\ sender_map \in [Ips -> Sessions \cup {None}]
    /\ managed \in Edit /\ admin \in [device : Devices \cup {None}, previous : Entry]
    /\ \A s \in Sessions : session[s].phase \notin {"none", "gone"} =>
         session[s].device \in Devices /\ session[s].ip \in Ips
    /\ admin = NoAdmin \/ admin.device \in Devices
    /\ managed.ip \in Usable \cup {None} /\ (managed.updated => managed.device \in Devices)

RowsTyped ==
    /\ rows \in [Devices -> Record] /\ writes \in [Sessions -> Write] /\ holding \in HeldWrite
    /\ \A d \in Devices : rows[d].present \/ rows[d] = NoRow

\* A record in flight is that of an entry, and of the entry as it is unless it is late; the
\* session it belongs to waits for it or has ended.
WritesTrue ==
    \A s \in Sessions : writes[s].op # "none" =>
        /\ session[s].device \in Devices /\ writes[s].row.present
        /\ writes[s].late \/ writes[s].row = Img(session[s].device)
        /\ session[s].phase = IF writes[s].op = "confirm" THEN "pending" ELSE "gone"

\* The same of the write under the mutation lock, whose devices keep the state it records.
HoldTrue ==
    /\ holding.op = "none" => holding.todo = {}
    /\ holding.op \in {"save", "delete", "deleted"} => \E d \in Devices : holding.todo = {d}
    /\ holding.op = "save" => /\ holding.row.present
                              /\ holding.late \/ \A d \in holding.todo : holding.row = Img(d)
    /\ holding.op \in {"delete", "deleted"} => \A d \in holding.todo : Img(d) = NoRow
    /\ holding.op = "release" => \A d \in holding.todo : Img(d).ip = None
    /\ admin = NoAdmin \/ (holding.op = "save" /\ holding.todo = {admin.device})

\* A row that is not behind is current, or about to be made so by the write under the lock.
RowTrue(d) ==
    /\ d \notin holding.todo \/ holding.op = "deleted" => rows[d] = Img(d)
    /\ d \in holding.todo /\ holding.op = "release" => [rows[d] EXCEPT !.ip = None] = Img(d)

RowsTrue == \A d \in Devices \ behind : RowTrue(d)

RowsKept == RowsTyped /\ WritesTrue /\ HoldTrue /\ RowsTrue

-----------------------------------------------------------------------------
(* Rows and images.                                                         *)

\* What to_record makes of an entry.
LEMMA ImageFacts ==
    ASSUME NEW e \in Entry
    PROVE  /\ Image(e) \in Record /\ (Image(e).present <=> e.present)
           /\ ~e.present => Image(e) = NoRow
           /\ e.present => Image(e) = to_record(e) /\ Image(e).ip = e.ip
BY Zenon DEF Image, to_record, NoRow, Record, Row, Entry, DeviceEntry

\* A row that is not there has no address.
LEMMA NoRowIs == NoRow \in Record /\ ~NoRow.present /\ NoRow.ip = None
BY Zenon DEF NoRow, Record, Row

\* A row loses its address.
LEMMA RowReleased ==
    ASSUME NEW r \in Record
    PROVE  /\ [r EXCEPT !.ip = None] \in Record /\ [r EXCEPT !.ip = None].present = r.present
           /\ [r EXCEPT !.ip = None].ip = None
           /\ r.ip = None => [r EXCEPT !.ip = None] = r
BY Zenon DEF Record, Row

\* Only the recorded fields show in the row.
LEMMA SameImage ==
    ASSUME NEW e, NEW f, f.present = e.present, f.ip = e.ip, f.ip_type = e.ip_type,
           f.client_type = e.client_type
    PROVE  Image(f) = Image(e)
BY Zenon DEF Image, to_record

\* A row that is loaded gives its image back.
LEMMA LoadedImage ==
    ASSUME NEW r \in Record, r.present \/ r = NoRow
    PROVE  from_record(r) \in Entry /\ Image(from_record(r)) = r
           /\ from_record(r).ip = r.ip
<1>1. /\ from_record(r) \in Entry /\ from_record(r).present = r.present
      /\ from_record(r).ip = r.ip /\ from_record(r).ip_type = r.ip_type
      /\ from_record(r).client_type = r.client_type
  BY Zenon DEF from_record, NoEntry, Entry, DeviceEntry, Record, Row
<1>2. r.present => to_record(from_record(r)) = r
  BY <1>1, Zenon DEF to_record, Record, Row
<1> QED BY <1>1, <1>2, Zenon DEF Image

-----------------------------------------------------------------------------
(* What a step does to the rows, by what it does to their images.           *)

\* A session with a write in flight stays what and where it is.
WritersStay ==
    \A s \in Sessions : writes[s].op # "none" =>
        session'[s].device = session[s].device /\ session'[s].phase = session[s].phase

\* Records that an entry has overtaken are late, and the others are still true.
LEMMA WritesMarked ==
    ASSUME RowsTyped, WritesTrue, WritersStay, writes' = MarkLate(writes)
    PROVE  writes' \in [Sessions -> Write] /\ WritesTrue'
<1>1. ASSUME NEW s \in Sessions
      PROVE  /\ writes'[s] \in Write /\ writes'[s].op = writes[s].op /\ writes'[s].row = writes[s].row
             /\ writes'[s].late \/ (writes[s].op = "none" \/ ~Supersedes(session[s].device))
             /\ writes[s].late => writes'[s].late
  <2>1. writes[s] \in Write
    BY Zenon DEF RowsTyped
  <2>2. CASE writes[s].op # "none" /\ Supersedes(session[s].device)
    <3>1. writes'[s] = [writes[s] EXCEPT !.late = TRUE]
      BY <2>2, Zenon DEF MarkLate
    <3> QED BY <2>1, <3>1, Zenon DEF Write
  <2>3. CASE ~(writes[s].op # "none" /\ Supersedes(session[s].device))
    <3>1. writes'[s] = writes[s]
      BY <2>3, Zenon DEF MarkLate
    <3> QED BY <2>1, <2>3, <3>1, Zenon
  <2> QED BY <2>2, <2>3, Zenon
<1>2. writes' = [s \in Sessions |-> writes'[s]]
  BY Zenon DEF MarkLate
<1>3. writes' \in [Sessions -> Write]
  BY <1>1, <1>2, Zenon
<1>4. WritesTrue'
  <2> SUFFICES ASSUME NEW s \in Sessions, writes'[s].op # "none"
               PROVE  /\ session'[s].device \in Devices /\ writes'[s].row.present
                      /\ writes'[s].late \/ writes'[s].row = Img(session[s].device)'
                      /\ session'[s].phase = IF writes'[s].op = "confirm" THEN "pending" ELSE "gone"
    BY Zenon DEF WritesTrue, WritersStay, Img
  <2>1. /\ session'[s].device = session[s].device /\ session'[s].phase = session[s].phase
        /\ session[s].device \in Devices /\ writes[s].row.present
        /\ writes[s].late \/ writes[s].row = Img(session[s].device)
        /\ session[s].phase = IF writes[s].op = "confirm" THEN "pending" ELSE "gone"
    BY <1>1, Zenon DEF WritesTrue, WritersStay
  <2>2. ~writes'[s].late => Image(device_map'[session[s].device]) = Img(session[s].device)
    BY <1>1, Zenon DEF Supersedes, Img
  <2> QED BY <1>1, <2>1, <2>2, Zenon DEF Img
<1> QED BY <1>3, <1>4, Zenon

\* The row of d is true, or it is the one d had before and no other device has just taken
\* the address in it.
Settled(d) ==
    \/ rows'[d] = Image(device_map'[d])
    \/ /\ d \notin behind /\ rows'[d] = rows[d]
       /\ \A e \in Devices : e # d => Image(device_map'[e]).ip \in {Img(e).ip, None}

\* So it is, after a step, with a row that the operation with the lock has yet to write.
Settling ==
    \A d \in Devices \ behind' : d \in holding'.todo /\ holding'.op # "deleted" => Settled(d)

\* No image changes, and no write begins.
LEMMA Unaltered ==
    ASSUME RowsKept, WritersStay, \A d \in Devices : Image(device_map'[d]) = Img(d),
           admin' = admin, UNCHANGED <<rows, holding, behind>>, writes' \in [Sessions -> Write],
           \A t \in Sessions : writes'[t] = writes[t] \/ writes'[t].op = "none"
    PROVE  RowsKept' /\ Settling
<1>1. RowsTyped'
  BY Zenon DEF RowsKept, RowsTyped
<1>2. WritesTrue'
  <2> SUFFICES ASSUME NEW s \in Sessions, writes'[s].op # "none", writes'[s] = writes[s]
               PROVE  /\ session'[s].device \in Devices /\ writes[s].row.present
                      /\ writes[s].late \/ writes[s].row = Img(session[s].device)'
                      /\ session'[s].phase = IF writes[s].op = "confirm" THEN "pending" ELSE "gone"
    BY Zenon DEF WritesTrue, Img
  <2> QED BY Zenon DEF RowsKept, WritesTrue, WritersStay, Img
<1>3. HoldTrue'
  <2>1. holding.todo \subseteq Devices
    BY Zenon DEF RowsKept, RowsTyped, HeldWrite
  <2>2. \A d \in holding.todo : Img(d)' = Img(d)
    BY <2>1, Zenon DEF Img
  <2> QED BY <2>2, Zenon DEF RowsKept, HoldTrue
<1>4. RowsTrue'
  <2>1. \A d \in Devices : Img(d)' = Img(d)
    BY Zenon DEF Img
  <2> QED BY <2>1, Zenon DEF RowsKept, RowsTrue, RowTrue
<1>5. Settling
  BY Zenon DEF Settling, Settled
<1> QED BY <1>1, <1>2, <1>3, <1>4, <1>5, Zenon DEF RowsKept

\* An operation that had to wait for nobody finds every row current that is not behind.
LEMMA UnlockedRows ==
    ASSUME RowsKept, Unlocked
    PROVE  /\ holding.op = "none" /\ holding.todo = {} /\ holding.session = None /\ ~holding.late
           /\ \A d \in Devices \ behind : rows[d] = Img(d)
<1>1. holding.op = "none" /\ holding.todo = {} /\ holding.session = None /\ ~holding.late
  BY Zenon DEF Unlocked, NoHold
<1> QED BY <1>1, Zenon DEF RowsKept, RowsTrue, RowTrue

\* An operation under the lock changes the entry of d and goes on to write it.
LEMMA Saving ==
    ASSUME RowsKept, Unlocked, WritersStay, NEW d \in Devices, NEW s \in Sessions \cup {None},
           device_map'[d] \in Entry, device_map'[d].present,
           \A e \in Devices : e # d => device_map'[e] = device_map[e],
           Hold("save", {d}, s, to_record(device_map'[d])), writes' = MarkLate(writes),
           UNCHANGED <<rows, behind>>, admin' = NoAdmin \/ admin'.device = d
    PROVE  RowsKept' /\ Settling
<1>1. /\ Image(device_map'[d]) = to_record(device_map'[d]) /\ Image(device_map'[d]) \in Record
      /\ Image(device_map'[d]).present
  BY ImageFacts, Zenon
<1>2. holding' = [op |-> "save", todo |-> {d}, session |-> s, row |-> Image(device_map'[d]),
                  late |-> FALSE]
  BY <1>1, Zenon DEF Hold
<1>3. /\ holding'.op = "save" /\ holding'.todo = {d} /\ holding'.row = Image(device_map'[d])
      /\ holding' \in HeldWrite
  BY <1>1, <1>2, Zenon DEF HeldWrite
<1>4. RowsTyped' /\ WritesTrue'
  BY <1>3, WritesMarked, Zenon DEF RowsKept, RowsTyped
<1>5. HoldTrue'
  BY <1>1, <1>3, Zenon DEF HoldTrue, Img
<1>6. RowsTrue'
  <2>1. \A e \in Devices \ behind : e # d => rows[e] = Image(device_map'[e])
    BY UnlockedRows, Zenon DEF Img
  <2> QED BY <1>3, <2>1, Zenon DEF RowsTrue, RowTrue, Img
<1>7. Settling
  BY <1>3, Zenon DEF Settling, Settled, Img
<1> QED BY <1>4, <1>5, <1>6, <1>7, Zenon DEF RowsKept

\* It changes the entry of d, and leaves the row to a confirmation.
LEMMA LeftBehind ==
    ASSUME RowsKept, Unlocked, WritersStay, NEW d \in Devices,
           \A e \in Devices : e # d => device_map'[e] = device_map[e],
           writes' = MarkLate(writes), behind' = IF Supersedes(d) THEN behind \cup {d} ELSE behind,
           UNCHANGED <<rows, holding, admin>>
    PROVE  RowsKept' /\ Settling
<1>1. RowsTyped' /\ WritesTrue'
  BY WritesMarked, Zenon DEF RowsKept, RowsTyped
<1>2. HoldTrue'
  BY UnlockedRows, Zenon DEF RowsKept, HoldTrue
<1>3. \A e \in Devices : Image(device_map'[e]) = Img(e) \/ (e = d /\ d \in behind')
  BY Zenon DEF Supersedes, Img
<1>4. \A e \in Devices \ behind' : e \notin behind
  BY Zenon
<1>5. RowsTrue'
  BY <1>3, <1>4, UnlockedRows, Zenon DEF RowsTrue, RowTrue, Img
<1>6. Settling
  BY UnlockedRows, Zenon DEF Settling
<1> QED BY <1>1, <1>2, <1>5, <1>6, Zenon DEF RowsKept

\* It deletes d, ...
LEMMA Deleting ==
    ASSUME RowsKept, Unlocked, NEW d \in Devices, Image(device_map'[d]) = NoRow,
           \A e \in Devices : e # d => device_map'[e] = device_map[e],
           Hold("delete", {d}, None, NoRow), WritesTrue', writes' \in [Sessions -> Write],
           UNCHANGED <<rows, behind>>, admin' = NoAdmin
    PROVE  RowsKept' /\ Settling
<1>1. holding'.op = "delete" /\ holding'.todo = {d} /\ holding' \in HeldWrite
  BY NoRowIs, Zenon DEF Hold, HeldWrite
<1>2. RowsTyped'
  BY <1>1, Zenon DEF RowsKept, RowsTyped
<1>3. HoldTrue'
  BY <1>1, Zenon DEF HoldTrue, Img
<1>4. RowsTrue'
  <2>1. \A e \in Devices \ behind : e # d => rows[e] = Image(device_map'[e])
    BY UnlockedRows, Zenon DEF Img
  <2> QED BY <1>1, <2>1, Zenon DEF RowsTrue, RowTrue, Img
<1>5. Settling
  BY <1>1, Zenon DEF Settling, Settled, Img
<1> QED BY <1>2, <1>3, <1>4, <1>5, Zenon DEF RowsKept

\* ... or releases the addresses of the devices of D.
LEMMA ReleasingRows ==
    ASSUME RowsKept, Unlocked, WritersStay, NEW D \in SUBSET Devices,
           \A d \in D : Image(device_map'[d]) = [Img(d) EXCEPT !.ip = None] /\ Img(d) \in Record,
           \A e \in Devices : e \notin D => device_map'[e] = device_map[e],
           Hold("release", D, None, NoRow), writes' = MarkLate(writes),
           UNCHANGED <<rows, behind>>, admin' = NoAdmin
    PROVE  RowsKept' /\ Settling
<1>1. holding'.op = "release" /\ holding'.todo = D /\ holding' \in HeldWrite
  BY NoRowIs, Zenon DEF Hold, HeldWrite
<1>2. RowsTyped' /\ WritesTrue'
  BY <1>1, WritesMarked, Zenon DEF RowsKept, RowsTyped
<1>3. \A d \in D : Image(device_map'[d]).ip = None
  BY RowReleased, Zenon
<1>4. HoldTrue'
  BY <1>1, <1>3, Zenon DEF HoldTrue, Img
<1>5. RowsTrue'
  <2>1. \A e \in Devices \ behind : e \notin D => rows[e] = Image(device_map'[e])
    BY UnlockedRows, Zenon DEF Img
  <2>2. \A d \in D \ behind : [rows[d] EXCEPT !.ip = None] = Image(device_map'[d])
    BY UnlockedRows, Zenon
  <2> QED BY <1>1, <2>1, <2>2, Zenon DEF RowsTrue, RowTrue, Img
<1>6. Settling
  <2>1. \A e \in Devices : Image(device_map'[e]).ip \in {Img(e).ip, None}
    BY <1>3, Zenon DEF Img
  <2> QED BY <2>1, Zenon DEF Settling, Settled
<1> QED BY <1>2, <1>4, <1>5, <1>6, Zenon DEF RowsKept

-----------------------------------------------------------------------------
(* The database.                                                            *)

\* A write that nobody awaits under the lock lands: the row is true unless the record was
\* late, and then it is behind.
LEMMA WriteLands ==
    ASSUME RowsKept, NEW s \in Sessions, writes[s].op # "none",
           Stored(session[s].device, writes[s].row, writes[s].late),
           writes' = [writes EXCEPT ![s] = NoWrite],
           \A t \in Sessions : t # s => session'[t] = session[t],
           \A d \in Devices : Image(device_map'[d]) = Img(d) /\ Img(d) \in Record,
           UNCHANGED <<holding, admin>>
    PROVE  RowsKept' /\ Settling
<1> DEFINE d == session[s].device
           r == writes[s].row
<1>1. /\ d \in Devices /\ r.present /\ r \in Record /\ (writes[s].late \/ r = Img(d))
      /\ writes[s] \in Write /\ writes \in [Sessions -> Write]
  BY Zenon DEF RowsKept, WritesTrue, RowsTyped, Write
<1>2. /\ rows' = [rows EXCEPT ![d] = r]
      /\ behind' = IF writes[s].late THEN behind \cup {d} ELSE behind \ {d}
  BY Zenon DEF Stored
<1>3. NoWrite \in Write /\ NoWrite.op = "none"
  BY NoRowIs, Zenon DEF NoWrite, Write
<1> HIDE DEF d, r
<1>4. /\ \A e \in Devices : rows'[e] = IF e = d THEN r ELSE rows[e]
      /\ rows' \in [Devices -> Record]
  BY <1>1, <1>2, Zenon DEF RowsKept, RowsTyped
<1>5. \A t \in Sessions : writes'[t] = IF t = s THEN NoWrite ELSE writes[t]
  BY <1>1, Zenon
<1>6. RowsTyped'
  <2>1. writes' \in [Sessions -> Write]
    BY <1>1, <1>3, Zenon
  <2> QED BY <1>1, <1>4, <2>1, Zenon DEF RowsKept, RowsTyped
<1>7. WritesTrue'
  <2> SUFFICES ASSUME NEW t \in Sessions, writes'[t].op # "none"
               PROVE  /\ session'[t].device \in Devices /\ writes'[t].row.present
                      /\ writes'[t].late \/ writes'[t].row = Image(device_map'[session'[t].device])
                      /\ session'[t].phase = IF writes'[t].op = "confirm" THEN "pending" ELSE "gone"
    BY Zenon DEF WritesTrue, Img
  <2>1. writes'[t] = writes[t] /\ session'[t] = session[t]
    BY <1>3, <1>5, Zenon
  <2>2. /\ session[t].device \in Devices /\ writes[t].row.present
        /\ writes[t].late \/ writes[t].row = Img(session[t].device)
        /\ session[t].phase = IF writes[t].op = "confirm" THEN "pending" ELSE "gone"
    BY <2>1, Zenon DEF RowsKept, WritesTrue
  <2> QED BY <2>1, <2>2, Zenon
<1>8. \A e \in Devices : Img(e)' = Img(e)
  BY Zenon DEF Img
<1>9. HoldTrue'
  <2>1. holding.todo \subseteq Devices
    BY Zenon DEF RowsKept, RowsTyped, HeldWrite
  <2> QED BY <1>8, <2>1, Zenon DEF RowsKept, HoldTrue
<1>10. RowsTrue'
  <2> SUFFICES ASSUME NEW e \in Devices, e \notin behind' PROVE RowTrue(e)'
    BY Zenon DEF RowsTrue
  <2>1. CASE e # d
    <3>1. e \notin behind /\ rows'[e] = rows[e]
      BY <1>2, <1>4, <2>1, Zenon
    <3> QED BY <1>8, <3>1, Zenon DEF RowsKept, RowsTrue, RowTrue
  <2>2. CASE e = d
    <3>1. ~writes[s].late /\ rows'[e] = Img(e)
      BY <1>1, <1>2, <1>4, <2>2, Zenon
    <3>2. holding.op = "release" /\ e \in holding.todo => Img(e).ip = None
      BY Zenon DEF RowsKept, HoldTrue
    <3>3. Img(e).ip = None => [Img(e) EXCEPT !.ip = None] = Img(e)
      BY RowReleased, Zenon
    <3> QED BY <1>8, <3>1, <3>2, <3>3, Zenon DEF RowTrue
  <2> QED BY <2>1, <2>2, Zenon
<1>11. Settling
  <2> SUFFICES ASSUME NEW e \in Devices, e \notin behind' PROVE Settled(e)
    BY Zenon DEF Settling
  <2>1. CASE e # d
    <3>1. e \notin behind /\ rows'[e] = rows[e]
      BY <1>2, <1>4, <2>1, Zenon
    <3> QED BY <3>1, Zenon DEF Settled
  <2>2. CASE e = d
    <3>1. rows'[e] = Img(e)
      BY <1>1, <1>2, <1>4, <2>2, Zenon
    <3> QED BY <3>1, Zenon DEF Settled
  <2> QED BY <2>1, <2>2, Zenon
<1> QED BY <1>6, <1>7, <1>9, <1>10, <1>11, Zenon DEF RowsKept

\* The write under the lock lands.
LEMMA SaveLands ==
    ASSUME RowsKept, MemoryTyped, SaveCompletes
    PROVE  RowsKept' /\ Settling /\ MemoryTyped'
<1>1. PICK d \in Devices : holding.todo = {d}
  BY Zenon DEF SaveCompletes, RowsKept, HoldTrue
<1>2. /\ rows' = [rows EXCEPT ![d] = holding.row]
      /\ behind' = IF holding.late THEN behind \cup {d} ELSE behind \ {d}
      /\ holding.row \in Record /\ holding.row.present /\ (holding.late \/ holding.row = Img(d))
  BY <1>1, Zenon DEF SaveCompletes, Stored, RowsKept, HoldTrue, RowsTyped, HeldWrite
<1>3. /\ holding' = NoHold /\ writes' = writes /\ device_map' = device_map /\ session' = session
      /\ data_version' = data_version /\ managed' = managed /\ admin' = NoAdmin
      /\ sender_map' = sender_map
  BY Zenon DEF SaveCompletes, UpsertSaved, vars, LockFree, leaseVars, versionVars, poolVars
<1>4. NoHold \in HeldWrite /\ NoHold.op = "none" /\ NoHold.todo = {}
  BY NoRowIs, Zenon DEF NoHold, HeldWrite
<1>5. /\ \A e \in Devices : rows'[e] = IF e = d THEN holding.row ELSE rows[e]
      /\ rows' \in [Devices -> Record]
  BY <1>2, Zenon DEF RowsKept, RowsTyped
<1>6. RowsTyped'
  BY <1>2, <1>3, <1>4, <1>5, Zenon DEF RowsKept, RowsTyped
<1>7. WritesTrue' /\ \A e \in Devices : Img(e)' = Img(e)
  BY <1>3, Zenon DEF RowsKept, WritesTrue, Img
<1>8. HoldTrue'
  BY <1>3, <1>4, Zenon DEF HoldTrue
<1>9. RowsTrue'
  <2> SUFFICES ASSUME NEW e \in Devices, e \notin behind' PROVE rows'[e] = Img(e)
    BY <1>3, <1>4, <1>7, Zenon DEF RowsTrue, RowTrue
  <2>1. CASE e # d
    BY <1>1, <1>2, <1>5, <2>1, Zenon DEF RowsKept, RowsTrue, RowTrue
  <2>2. CASE e = d
    BY <1>2, <1>5, <2>2, Zenon
  <2> QED BY <2>1, <2>2, Zenon
<1>10. MemoryTyped'
  <2>1. NoAdmin \in [device : Devices \cup {None}, previous : Entry]
    BY Zenon DEF NoAdmin, NoEntry, Entry, DeviceEntry
  <2> QED BY <1>3, <2>1, Zenon DEF MemoryTyped
<1>11. Settling
  BY <1>3, <1>4, Zenon DEF Settling
<1> QED BY <1>6, <1>7, <1>8, <1>9, <1>10, <1>11, Zenon DEF RowsKept

\* A deletion lands, and then ends.
LEMMA DeletionLands ==
    ASSUME RowsKept, DeleteCompletes
    PROVE  RowsKept' /\ Settling
<1>1. PICK d \in Devices : holding.todo = {d}
  BY Zenon DEF DeleteCompletes, RowsKept, HoldTrue
<1>2. /\ holding.op = "delete" /\ holding \in HeldWrite
      /\ rows' = [rows EXCEPT ![d] = NoRow] /\ behind' = behind \ {d} /\ Img(d) = NoRow
      /\ holding' = [holding EXCEPT !.op = "deleted"] /\ writes' = writes
      /\ device_map' = device_map /\ session' = session /\ admin' = admin
  BY <1>1, Zenon DEF DeleteCompletes, Stored, RowsKept, HoldTrue, RowsTyped, vars
<1>3. holding' \in HeldWrite /\ holding'.op = "deleted" /\ holding'.todo = {d}
  BY <1>1, <1>2, Zenon DEF HeldWrite
<1>4. /\ \A e \in Devices : rows'[e] = IF e = d THEN NoRow ELSE rows[e]
      /\ rows' \in [Devices -> Record]
  BY <1>2, NoRowIs, Zenon DEF RowsKept, RowsTyped
<1>5. RowsTyped'
  BY <1>2, <1>3, <1>4, Zenon DEF RowsKept, RowsTyped
<1>6. WritesTrue' /\ \A e \in Devices : Img(e)' = Img(e)
  BY <1>2, Zenon DEF RowsKept, WritesTrue, Img
<1>7. HoldTrue'
  BY <1>2, <1>3, <1>6, Zenon DEF RowsKept, HoldTrue
<1>8. RowsTrue'
  <2> SUFFICES ASSUME NEW e \in Devices, e \notin behind' PROVE rows'[e] = Img(e)
    BY <1>3, <1>6, Zenon DEF RowsTrue, RowTrue
  <2>1. CASE e # d
    BY <1>1, <1>2, <1>4, <2>1, Zenon DEF RowsKept, RowsTrue, RowTrue
  <2> QED BY <1>2, <1>4, <2>1, Zenon
<1>9. Settling
  BY <1>3, Zenon DEF Settling
<1> QED BY <1>5, <1>6, <1>7, <1>8, <1>9, Zenon DEF RowsKept

\* A deletion ends, with a subscription disconnected or not.
LEMMA DeletionEnds ==
    ASSUME RowsKept, DeleteEnds
    PROVE  RowsKept' /\ Settling
<1>1. /\ holding' = NoHold /\ UNCHANGED <<rows, writes, behind, device_map, session, admin>>
      /\ holding.op = "deleted"
  BY Zenon DEF DeleteEnds, DisconnectSubscription, vars, leaseVars
<1>2. NoHold \in HeldWrite /\ NoHold.op = "none" /\ NoHold.todo = {}
  BY NoRowIs, Zenon DEF NoHold, HeldWrite
<1>3. RowsTyped'
  BY <1>1, <1>2, Zenon DEF RowsKept, RowsTyped
<1>4. WritesTrue' /\ \A e \in Devices : Img(e)' = Img(e)
  BY <1>1, Zenon DEF RowsKept, WritesTrue, Img
<1>5. HoldTrue' /\ RowsTrue'
  BY <1>1, <1>2, <1>4, Zenon DEF RowsKept, HoldTrue, RowsTrue, RowTrue
<1>6. Settling
  BY <1>1, <1>2, Zenon DEF Settling
<1> QED BY <1>3, <1>4, <1>5, <1>6, Zenon DEF RowsKept

\* One device fewer waits for the write under the lock.
LEMMA OneLess ==
    ASSUME RowsKept, NEW d \in holding.todo,
           holding' = IF holding.todo = {d} THEN NoHold ELSE [holding EXCEPT !.todo = @ \ {d}]
    PROVE  /\ holding' \in HeldWrite /\ holding'.todo = holding.todo \ {d} /\ d \in Devices
           /\ holding'.op = "none" \/ (holding'.op = "release" /\ holding.op = "release")
           /\ holding.todo # {d} => holding'.op = "release"
           /\ holding'.op = "none" => holding'.todo = {}
<1>1. holding \in HeldWrite /\ holding.op # "none" /\ d \in Devices
  BY Zenon DEF RowsKept, RowsTyped, HoldTrue, HeldWrite
<1>2. CASE holding.todo = {d}
  BY <1>1, <1>2, NoRowIs, Zenon DEF NoHold, HeldWrite
<1>3. CASE holding.todo # {d}
  <2>1. holding.op = "release"
    BY <1>1, <1>3, Zenon DEF RowsKept, HoldTrue, HeldWrite
  <2>2. holding' = [holding EXCEPT !.todo = holding.todo \ {d}]
    BY <1>1, <1>3, Zenon DEF HeldWrite
  <2> QED BY <1>1, <2>1, <2>2, <1>3, Zenon DEF HeldWrite
<1> QED BY <1>2, <1>3, Zenon

\* An address is released in the database, unless the device has a managed config.
LEMMA ReleaseLands ==
    ASSUME RowsKept, ReleaseCompletes, \A d \in Devices : Img(d) \in Record
    PROVE  RowsKept' /\ Settling
<1>1. PICK d \in holding.todo :
        /\ Released(d)
        /\ holding' = IF holding.todo = {d} THEN NoHold ELSE [holding EXCEPT !.todo = @ \ {d}]
  BY Zenon DEF ReleaseCompletes
<1>2. /\ holding.op = "release" /\ UNCHANGED <<writes, device_map, session, admin>>
      /\ admin = NoAdmin
  BY Zenon DEF ReleaseCompletes, vars, RowsKept, HoldTrue
<1>3. /\ holding' \in HeldWrite /\ holding'.todo = holding.todo \ {d} /\ d \in Devices
      /\ holding'.op = "none" \/ holding'.op = "release"
      /\ holding'.op = "none" => holding'.todo = {}
  BY <1>1, OneLess, Zenon
<1>4. \/ behind' = behind \cup {d} /\ rows' = rows
      \/ behind' = behind /\ rows' = [rows EXCEPT ![d].ip = None]
  BY <1>1, Zenon DEF Released
<1>5. /\ rows' \in [Devices -> Record] /\ \A e \in Devices : e # d => rows'[e] = rows[e]
      /\ rows'[d].present \/ rows'[d] = NoRow
      /\ d \in behind' \/ d \in behind \/ rows'[d] = [rows[d] EXCEPT !.ip = None]
  <2> DEFINE q == [rows[d] EXCEPT !.ip = None]
  <2>1. /\ rows \in [Devices -> Record] /\ (rows[d].present \/ rows[d] = NoRow) /\ rows[d] \in Record
    BY <1>3, Zenon DEF RowsKept, RowsTyped
  <2>2. q \in Record /\ (q.present \/ q = NoRow)
    BY <2>1, RowReleased, NoRowIs, Zenon
  <2>3. (rows' = rows /\ d \in behind') \/ rows' = [rows EXCEPT ![d] = q]
    BY <1>3, <1>4, <2>1, Zenon
  <2> HIDE DEF q
  <2>4. (rows' = rows /\ d \in behind') \/ rows'[d] = q
    BY <1>3, <2>1, <2>3, Zenon
  <2>5. rows' \in [Devices -> Record] /\ \A e \in Devices : e # d => rows'[e] = rows[e]
    BY <1>3, <2>1, <2>2, <2>3, Zenon
  <2> QED BY <2>1, <2>2, <2>3, <2>4, <2>5, Zenon DEF q
<1>6. RowsTyped'
  BY <1>2, <1>3, <1>5, Zenon DEF RowsKept, RowsTyped
<1>7. WritesTrue' /\ \A e \in Devices : Img(e)' = Img(e)
  BY <1>2, Zenon DEF RowsKept, WritesTrue, Img
<1>8. HoldTrue'
  <2>1. \A e \in holding'.todo : e \in holding.todo /\ e \in Devices
    BY <1>3, Zenon DEF HeldWrite
  <2> QED BY <1>2, <1>3, <1>7, <2>1, Zenon DEF RowsKept, HoldTrue
<1>9. RowsTrue'
  <2> SUFFICES ASSUME NEW e \in Devices, e \notin behind' PROVE RowTrue(e)'
    BY Zenon DEF RowsTrue
  <2>1. e \notin behind /\ RowTrue(e)
    BY <1>4, Zenon DEF RowsKept, RowsTrue
  <2>2. CASE e # d
    BY <1>2, <1>3, <1>5, <1>7, <2>1, <2>2, Zenon DEF RowTrue
  <2>3. CASE e = d
    BY <1>2, <1>3, <1>5, <1>7, <2>1, <2>3, Zenon DEF RowTrue
  <2> QED BY <2>2, <2>3, Zenon
<1>10. Settling
  <2> SUFFICES ASSUME NEW e \in Devices, e \notin behind', e # d PROVE Settled(e)
    BY <1>3, Zenon DEF Settling
  <2>1. e \notin behind /\ rows'[e] = rows[e]
    BY <1>4, <1>5, Zenon
  <2> QED BY <1>2, <2>1, Zenon DEF Settled, Img
<1> QED BY <1>6, <1>7, <1>8, <1>9, <1>10, Zenon DEF RowsKept

\* The write under the lock fails; a failed edit puts the former entry back.
LEMMA HoldFails ==
    ASSUME RowsKept, MemoryTyped, HeldFails
    PROVE  RowsKept' /\ Settling /\ MemoryTyped'
<1>1. PICK d \in holding.todo :
        /\ holding' = IF holding.todo = {d} THEN NoHold ELSE [holding EXCEPT !.todo = @ \ {d}]
        /\ behind' = behind \cup {d}
  BY Zenon DEF HeldFails
<1>2. /\ holding' \in HeldWrite /\ holding'.todo = holding.todo \ {d} /\ d \in Devices
      /\ holding'.op = "none" \/ (holding'.op = "release" /\ holding.op = "release")
      /\ holding'.op = "none" => holding'.todo = {}
  BY <1>1, OneLess, Zenon
<1>3. \A e \in Devices \ behind' : e \notin behind /\ RowTrue(e) /\ e # d
  BY <1>1, Zenon DEF RowsKept, RowsTrue
<1>4. rows' = rows
  BY Zenon DEF HeldFails
<1>5. CASE LockFree
  <2>1. /\ UNCHANGED <<device_map, data_version, sender_map, session, admin, managed, writes>>
        /\ admin = NoAdmin
    BY <1>5, Zenon DEF HeldFails, vars, LockFree
  <2>2. MemoryTyped' /\ RowsTyped'
    BY <1>2, <1>4, <2>1, Zenon DEF MemoryTyped, RowsKept, RowsTyped
  <2>3. WritesTrue' /\ \A e \in Devices : Img(e)' = Img(e)
    BY <2>1, Zenon DEF RowsKept, WritesTrue, Img
  <2>4. HoldTrue'
    <3>1. \A e \in holding'.todo : e \in holding.todo /\ e \in Devices
      BY <1>2, Zenon DEF HeldWrite
    <3> QED BY <1>2, <2>1, <2>3, <3>1, Zenon DEF RowsKept, HoldTrue
  <2>5. RowsTrue'
    <3> SUFFICES ASSUME NEW e \in Devices \ behind' PROVE RowTrue(e)'
      BY Zenon DEF RowsTrue
    <3>1. holding.op # "deleted"
      BY Zenon DEF HeldFails
    <3> QED BY <1>2, <1>3, <1>4, <2>3, <3>1, Zenon DEF RowTrue
  <2>6. Settling
    <3> SUFFICES ASSUME NEW e \in Devices \ behind' PROVE Settled(e)
      BY Zenon DEF Settling
    <3> QED BY <1>3, <1>4, <2>1, Zenon DEF Settled, Img
  <2> QED BY <2>2, <2>3, <2>4, <2>5, <2>6, Zenon DEF RowsKept
<1>6. CASE ~LockFree
  <2>1. /\ holding.op = "save" /\ d = admin.device /\ holding.todo = {d} /\ holding' = NoHold
        /\ admin.previous \in Entry
    BY <1>1, <1>6, Zenon DEF RowsKept, HoldTrue, LockFree, MemoryTyped
  <2>2. /\ device_map' = [device_map EXCEPT ![d] = admin.previous] /\ session' = session
        /\ data_version' = data_version + 1 /\ admin' = NoAdmin /\ managed' \in {managed, NoManaged}
        /\ writes' = MarkLate(writes) /\ sender_map' = sender_map
    BY <1>6, <2>1, Zenon DEF HeldFails, UpsertSaveFails, restore_device_config, poolVars
  <2>3. /\ device_map' \in [Devices -> Entry] /\ data_version' \in Nat
        /\ \A e \in Devices : e # d => device_map'[e] = device_map[e]
    BY <1>2, <2>1, <2>2 DEF MemoryTyped
  <2>4. MemoryTyped'
    <3>1. /\ NoManaged \in Edit /\ NoManaged.ip = None /\ ~NoManaged.updated
          /\ NoAdmin \in [device : Devices \cup {None}, previous : Entry]
      BY Zenon DEF NoManaged, Edit, NoAdmin, NoEntry, Entry, DeviceEntry
    <3>2. /\ managed' \in Edit /\ managed'.ip \in Usable \cup {None}
          /\ managed'.updated => managed'.device \in Devices
      BY <2>2, <3>1, Zenon DEF MemoryTyped
    <3>3. /\ session' \in [Sessions -> Session] /\ sender_map' \in [Ips -> Sessions \cup {None}]
          /\ \A s \in Sessions : session'[s].phase \notin {"none", "gone"} =>
               session'[s].device \in Devices /\ session'[s].ip \in Ips
      BY <2>2, Zenon DEF MemoryTyped
    <3> QED BY <2>2, <2>3, <3>1, <3>2, <3>3, Zenon DEF MemoryTyped
  <2>5. RowsTyped' /\ WritesTrue'
    <3>1. WritersStay
      BY <2>2, Zenon DEF WritersStay
    <3> QED BY <1>2, <1>4, <2>2, <3>1, WritesMarked, Zenon DEF RowsKept, RowsTyped
  <2>6. HoldTrue'
    BY <1>2, <2>1, <2>2, Zenon DEF HoldTrue
  <2>7. RowsTrue'
    <3> SUFFICES ASSUME NEW e \in Devices \ behind' PROVE rows[e] = Image(device_map'[e])
      BY <1>2, <1>4, <2>1, Zenon DEF RowsTrue, RowTrue, Img
    <3> QED BY <1>3, <2>1, <2>3, Zenon DEF RowTrue, Img
  <2>8. Settling
    BY <1>2, <2>1, Zenon DEF Settling
  <2> QED BY <2>4, <2>5, <2>6, <2>7, <2>8, Zenon DEF RowsKept
<1> QED BY <1>5, <1>6, Zenon

\* A write nobody awaits under the lock fails.
LEMMA WriteLost ==
    ASSUME RowsKept, NEW s \in Sessions, WriteFails(s)
    PROVE  RowsKept' /\ Settling
<1>1. /\ writes' = [writes EXCEPT ![s] = NoWrite] /\ behind' = behind \cup {session[s].device}
      /\ UNCHANGED <<rows, holding, device_map, session, admin>>
  BY Zenon DEF WriteFails, vars
<1>2. NoWrite \in Write /\ NoWrite.op = "none"
  BY NoRowIs, Zenon DEF NoWrite, Write
<1>3. writes' \in [Sessions -> Write] /\ \A t \in Sessions : writes'[t] \in {writes[t], NoWrite}
  BY <1>1, <1>2, Zenon DEF RowsKept, RowsTyped
<1>4. RowsTyped'
  BY <1>1, <1>3, Zenon DEF RowsKept, RowsTyped
<1>5. \A d \in Devices : Img(d)' = Img(d)
  BY <1>1, Zenon DEF Img
<1>6. WritesTrue'
  <2> SUFFICES ASSUME NEW t \in Sessions, writes'[t].op # "none"
               PROVE  /\ session'[t].device \in Devices /\ writes'[t].row.present
                      /\ writes'[t].late \/ writes'[t].row = Img(session[t].device)'
                      /\ session'[t].phase = IF writes'[t].op = "confirm" THEN "pending" ELSE "gone"
    BY Zenon DEF WritesTrue
  <2>1. writes'[t] = writes[t]
    BY <1>2, <1>3, Zenon
  <2> QED BY <1>1, <1>5, <2>1, Zenon DEF RowsKept, WritesTrue
<1>7. HoldTrue'
  BY <1>1, Zenon DEF RowsKept, HoldTrue, Img
<1>8. RowsTrue'
  BY <1>1, <1>5, Zenon DEF RowsKept, RowsTrue, RowTrue
<1>9. Settling
  BY <1>1, Zenon DEF Settling, Settled, Img
<1> QED BY <1>4, <1>6, <1>7, <1>8, <1>9, Zenon DEF RowsKept

-----------------------------------------------------------------------------
(* Loading.                                                                 *)

\* The devices that are loaded are those of the rows, or none.
LEMMA LoadedRows ==
    ASSUME RowsKept, Loads
    PROVE  /\ device_map' \in [Devices -> Entry] /\ data_version' = 0
           /\ sender_map' = [ip \in Ips |-> None]
           /\ \A d \in Devices \ behind' : Image(device_map'[d]) = rows[d]
<1>1. CASE Load(rows) /\ behind' = {}
  <2>1. device_map' = [d \in Devices |-> from_record(rows[d])] /\ data_version' = 0
        /\ sender_map' = [ip \in Ips |-> None]
    BY <1>1, Zenon DEF Load
  <2>2. \A d \in Devices : from_record(rows[d]) \in Entry /\ Image(from_record(rows[d])) = rows[d]
    BY LoadedImage, Zenon DEF RowsKept, RowsTyped
  <2> QED BY <2>1, <2>2, Zenon
<1>2. CASE Load(NoRows) /\ behind' = {d \in Devices : rows[d].present}
  <2>1. device_map' = [d \in Devices |-> from_record(NoRows[d])] /\ data_version' = 0
        /\ sender_map' = [ip \in Ips |-> None]
    BY <1>2, Zenon DEF Load
  <2>2. \A d \in Devices : NoRows[d] = NoRow
    BY Zenon DEF NoRows
  <2>3. from_record(NoRow) \in Entry /\ Image(from_record(NoRow)) = NoRow
    BY LoadedImage, NoRowIs, Zenon
  <2>4. \A d \in Devices \ behind' : rows[d] = NoRow
    BY <1>2, Zenon DEF RowsKept, RowsTyped
  <2> QED BY <2>1, <2>2, <2>3, <2>4, Zenon
<1> QED BY <1>1, <1>2, Zenon DEF Loads

\* A restart loses memory and every write in flight.
LEMMA RestartRows ==
    ASSUME RowsKept, MemoryTyped, Restart
    PROVE  RowsKept' /\ Settling /\ MemoryTyped'
<1>1. /\ device_map' \in [Devices -> Entry] /\ data_version' = 0
      /\ sender_map' = [ip \in Ips |-> None]
      /\ \A d \in Devices \ behind' : Image(device_map'[d]) = rows[d]
  BY LoadedRows, Zenon DEF Restart
<1>2. /\ session' = [s \in Sessions |-> IF session[s].phase = "none" THEN NoSession ELSE Closed(s)]
      /\ admin' = NoAdmin /\ managed' = NoManaged /\ holding' = NoHold
      /\ writes' = [s \in Sessions |-> NoWrite] /\ rows' = rows
  BY Zenon DEF Restart
<1>3. /\ NoManaged \in Edit /\ NoManaged.ip = None /\ ~NoManaged.updated
      /\ NoAdmin \in [device : Devices \cup {None}, previous : Entry]
      /\ NoHold \in HeldWrite /\ NoHold.op = "none" /\ NoHold.todo = {}
      /\ NoWrite \in Write /\ NoWrite.op = "none"
  BY NoRowIs, Zenon DEF NoManaged, Edit, NoAdmin, NoEntry, Entry, DeviceEntry, NoHold, HeldWrite, NoWrite, Write
<1>4. \A s \in Sessions : /\ Closed(s) \in Session /\ Closed(s).phase = "gone"
                          /\ NoSession \in Session /\ NoSession.phase = "none"
  BY ZenonT(30) DEF MemoryTyped, Closed, Session, NoSession
<1>5. session' \in [Sessions -> Session] /\ \A s \in Sessions : session'[s].phase \in {"none", "gone"}
  BY <1>2, <1>4, Zenon
<1>6. MemoryTyped'
  BY <1>1, <1>2, <1>3, <1>5, Zenon DEF MemoryTyped
<1>7. RowsTyped' /\ WritesTrue'
  BY <1>2, <1>3, Zenon DEF RowsKept, RowsTyped, WritesTrue
<1>8. HoldTrue' /\ RowsTrue'
  BY <1>1, <1>2, <1>3, Zenon DEF HoldTrue, RowsTrue, RowTrue, Img
<1>9. Settling
  BY <1>2, <1>3, Zenon DEF Settling
<1> QED BY <1>6, <1>7, <1>8, <1>9, Zenon DEF RowsKept

\* A state is released only with no devices in it: every write still in flight is late.
LEMMA ReleaseNetworkRows ==
    ASSUME RowsKept, MemoryTyped, ReleaseNetwork
    PROVE  RowsKept' /\ Settling /\ MemoryTyped'
<1>1. /\ device_map' \in [Devices -> Entry] /\ data_version' = 0
      /\ sender_map' = [ip \in Ips |-> None]
      /\ \A d \in Devices \ behind' : Image(device_map'[d]) = rows[d]
  BY LoadedRows, Zenon DEF ReleaseNetwork
<1>2. /\ UNCHANGED <<session, admin, managed, rows, holding, writes>> /\ Unlocked
      /\ \A d \in Devices : ~Has(d)
  BY Zenon DEF ReleaseNetwork
<1>3. \A d \in Devices : Img(d) = NoRow
  BY <1>2, ImageFacts, Zenon DEF MemoryTyped, Img, Has
<1>4. \A s \in Sessions : writes[s].op # "none" => writes[s].late
  BY <1>3, NoRowIs, Zenon DEF RowsKept, WritesTrue
<1>5. MemoryTyped'
  BY <1>1, <1>2, Zenon DEF MemoryTyped
<1>6. RowsTyped' /\ WritesTrue'
  BY <1>2, <1>4, Zenon DEF RowsKept, RowsTyped, WritesTrue
<1>7. HoldTrue' /\ RowsTrue'
  BY <1>1, <1>2, UnlockedRows, Zenon DEF RowsKept, HoldTrue, RowsTrue, RowTrue, Img
<1>8. Settling
  BY <1>2, UnlockedRows, Zenon DEF Settling
<1> QED BY <1>5, <1>6, <1>7, <1>8, Zenon DEF RowsKept

-----------------------------------------------------------------------------
(* What the steps of NetworkState do to the entries and the sessions.       *)

\* One entry is replaced, ...
LEMMA EntryPut ==
    ASSUME MemoryTyped, NEW d \in Devices, NEW e \in Entry,
           device_map' = [device_map EXCEPT ![d] = e]
    PROVE  /\ device_map' \in [Devices -> Entry] /\ device_map'[d] = e
           /\ \A x \in Devices : x # d => device_map'[x] = device_map[x]
BY Zenon DEF MemoryTyped

\* ... or one session.
LEMMA SessionPut ==
    ASSUME MemoryTyped, NEW s \in Sessions, NEW o \in Session,
           o.phase \in {"none", "gone"} \/ (o.device \in Devices /\ o.ip \in Ips),
           session' = [session EXCEPT ![s] = o]
    PROVE  /\ session' \in [Sessions -> Session] /\ session'[s] = o
           /\ \A t \in Sessions : t # s => session'[t] = session[t]
           /\ \A t \in Sessions : session'[t].phase \notin {"none", "gone"} =>
                session'[t].device \in Devices /\ session'[t].ip \in Ips
<1>1. session' \in [Sessions -> Session] /\ \A t \in Sessions : session'[t] = IF t = s THEN o ELSE session[t]
  BY Zenon DEF MemoryTyped
<1> QED BY <1>1, Zenon DEF MemoryTyped

\* What the parts of a step that leaves the edits alone amount to.
LEMMA MemoryAgain ==
    ASSUME MemoryTyped, device_map' \in [Devices -> Entry], data_version' \in Nat,
           session' \in [Sessions -> Session], sender_map' \in [Ips -> Sessions \cup {None}],
           \A t \in Sessions : session'[t].phase \notin {"none", "gone"} =>
             session'[t].device \in Devices /\ session'[t].ip \in Ips,
           UNCHANGED <<admin, managed>>
    PROVE  MemoryTyped'
BY Zenon DEF MemoryTyped

\* A registration changes the entry of its device and opens a session.
LEMMA RegisterFoot ==
    ASSUME MemoryTyped, NEW s \in Sessions, NEW d \in Devices, NEW ct \in ClientTypes,
           NEW i \in Instances \cup {None}, NEW r \in Ips \cup {None}, NEW var \in BOOLEAN,
           NEW mode \in RegModes, Register(s, d, ct, i, r, var, mode)
    PROVE  /\ MemoryTyped' /\ admin = NoAdmin /\ admin' = NoAdmin /\ session[s].phase = "none"
           /\ \A t \in Sessions : t # s => session'[t] = session[t]
           /\ device_map'[d] \in Entry /\ device_map'[d].present
           /\ \A e \in Devices : e # d => device_map'[e] = device_map[e]
<1> USE NetworkAssumption
<1>1. /\ device_map[d] \in Entry /\ data_version \in Nat /\ session[s].phase = "none"
      /\ admin = NoAdmin /\ session[s] \in Session /\ device_map[d].ip \in Usable \cup {None}
  BY Zenon DEF MemoryTyped, Register, MayRegister, LockFree, Entry, DeviceEntry
<1>2. UNCHANGED <<admin, managed>>
  BY Zenon DEF Register, JoinPool, Reclaim, ReclaimFails, TakeExpected, TakeAvailable, Publish
<1>3. \A ip \in Usable : LET e == Connected(s, d, ct, ip, mode) IN e \in Entry /\ e.present
  <2> SUFFICES ASSUME NEW ip \in Usable PROVE LET e == Connected(s, d, ct, ip, mode) IN e \in Entry /\ e.present
    BY Zenon
  <2>1. data_version + 1 \in Nat /\ (mode = "Normal") \in BOOLEAN
    BY <1>1
  <2> QED BY <1>1, <2>1, Zenon DEF Connected, Entry, DeviceEntry
<1>4. \A ip \in Ips : LET o == Opened(d, ct, i, ip, mode)
                      IN  o \in Session /\ o.device \in Devices /\ o.ip \in Ips
  BY Zenon DEF Opened, Session
<1>9. \A ip \in Usable : ip \in Ips
  BY Zenon
<1>5. ASSUME NEW ip \in Usable, Publish(s, d, ct, i, ip, mode)
      PROVE  /\ MemoryTyped' /\ \A t \in Sessions : t # s => session'[t] = session[t]
             /\ device_map'[d] \in Entry /\ device_map'[d].present
             /\ \A e \in Devices : e # d => device_map'[e] = device_map[e]
  <2>1. /\ device_map' = [device_map EXCEPT ![d] = Connected(s, d, ct, ip, mode)]
        /\ session' = [session EXCEPT ![s] = Opened(d, ct, i, ip, mode)]
        /\ data_version' = data_version + 1
        /\ sender_map' = [j \in Ips |-> IF j = ip THEN s
                                        ELSE IF Unpublished(d, ip, j) THEN None ELSE sender_map[j]]
    BY <1>5, Zenon DEF Publish
  <2>2. sender_map' \in [Ips -> Sessions \cup {None}] /\ data_version' \in Nat
    BY <1>1, <2>1 DEF MemoryTyped
  <2>3. /\ device_map' \in [Devices -> Entry] /\ device_map'[d] = Connected(s, d, ct, ip, mode)
        /\ \A e \in Devices : e # d => device_map'[e] = device_map[e]
    BY <1>3, <2>1, EntryPut, Zenon
  <2>4. /\ session' \in [Sessions -> Session] /\ \A t \in Sessions : t # s => session'[t] = session[t]
        /\ \A t \in Sessions : session'[t].phase \notin {"none", "gone"} =>
             session'[t].device \in Devices /\ session'[t].ip \in Ips
    BY <1>4, <1>9, <2>1, SessionPut, Zenon
  <2> QED BY <1>2, <1>3, <2>2, <2>3, <2>4, MemoryAgain, Zenon
<1>6. CASE JoinPool(s, d, ct, i, r, mode)
  <2>1. /\ session' = [session EXCEPT ![s] = Opened(d, ct, i, r, mode)] /\ r \in Ips
        /\ UNCHANGED <<device_map, data_version, sender_map>> /\ device_map[d].present
    BY <1>6, Zenon DEF JoinPool, Joinable, Has, leaseVars, versionVars
  <2>2. /\ session' \in [Sessions -> Session] /\ \A t \in Sessions : t # s => session'[t] = session[t]
        /\ \A t \in Sessions : session'[t].phase \notin {"none", "gone"} =>
             session'[t].device \in Devices /\ session'[t].ip \in Ips
    BY <1>4, <2>1, SessionPut, Zenon
  <2>3. MemoryTyped'
    BY <1>2, <2>1, <2>2, MemoryAgain, Zenon DEF MemoryTyped
  <2> QED BY <1>1, <1>2, <2>1, <2>2, <2>3, Zenon
<1>7. CASE ReclaimFails(s, d, ct, i, r, mode)
  <2> DEFINE o == [NoSession EXCEPT !.phase = "gone", !.device = d, !.inst = i]
  <2>1. o \in Session /\ o.phase = "gone"
    BY Zenon DEF NoSession, Session
  <2>2. /\ session' = [session EXCEPT ![s] = o] /\ device_map[d].ip \in Usable
        /\ device_map' = [device_map EXCEPT ![d] = Connected(s, d, ct, device_map[d].ip, mode)]
        /\ data_version' = data_version + 1 /\ sender_map' = sender_map
    BY <1>1, <1>7, Zenon DEF ReclaimFails, poolVars
  <2> HIDE DEF o
  <2>3. /\ session' \in [Sessions -> Session] /\ \A t \in Sessions : t # s => session'[t] = session[t]
        /\ \A t \in Sessions : session'[t].phase \notin {"none", "gone"} =>
             session'[t].device \in Devices /\ session'[t].ip \in Ips
    BY <2>1, <2>2, SessionPut, Zenon
  <2>4. /\ device_map' \in [Devices -> Entry]
        /\ device_map'[d] = Connected(s, d, ct, device_map[d].ip, mode)
        /\ \A e \in Devices : e # d => device_map'[e] = device_map[e]
    BY <1>3, <2>2, EntryPut, Zenon
  <2>5. data_version' \in Nat /\ sender_map' \in [Ips -> Sessions \cup {None}]
    BY <1>1, <2>2 DEF MemoryTyped
  <2>6. MemoryTyped'
    BY <1>2, <2>3, <2>4, <2>5, MemoryAgain, Zenon
  <2> QED BY <1>1, <1>2, <1>3, <2>2, <2>3, <2>4, <2>6, Zenon
<1>8. \/ JoinPool(s, d, ct, i, r, mode) \/ ReclaimFails(s, d, ct, i, r, mode)
      \/ \E ip \in Usable : Publish(s, d, ct, i, ip, mode)
  BY <1>1, Zenon DEF Register, Reclaim, TakeExpected, TakeAvailable, find_available_ip, Free
<1> QED BY <1>1, <1>2, <1>5, <1>6, <1>7, <1>8, Zenon

\* The steps of a session that record nothing: its entry keeps its image.
Quiet(s) ==
    \/ ConfirmRegistration(s) \/ FinalizeOffline(s) \/ OfflineLookup(s) \/ RemoveLink(s) \/ ReleaseTail(s)
    \/ \E new \in Ips : FastRegisterAgain(s, new) \/ FollowPool(s, new)

LEMMA QuietFoot ==
    ASSUME MemoryTyped, NEW s \in Sessions, Quiet(s)
    PROVE  /\ MemoryTyped' /\ admin' = admin /\ session[s].phase \notin {"none", "gone"}
           /\ \A t \in Sessions : t # s => session'[t] = session[t]
           /\ session'[s].device = session[s].device
           /\ \A d \in Devices : Image(device_map'[d]) = Img(d)
           /\ FinalizeOffline(s) => session'[s].phase = "gone"
           /\ FinalizeOffline(s) /\ data_version' # data_version => device_map'[session[s].device].present
<1> USE NetworkAssumption
<1> DEFINE d == session[s].device
<1>1. /\ session[s] \in Session /\ session[s].phase \notin {"none", "gone"} /\ data_version \in Nat
      /\ d \in Devices /\ session[s].ip \in Ips /\ device_map[d] \in Entry
  BY Zenon DEF MemoryTyped, Quiet, ConfirmRegistration, FinalizeOffline, OfflineLookup, RemoveLink, ReleaseTail,
    FastRegisterAgain, FastCaller, FollowPool, Live
<1>2. UNCHANGED <<admin, managed>>
  BY Zenon DEF Quiet, ConfirmRegistration, FinalizeOffline, OfflineLookup, RemoveLink, ReleaseTail,
    FastRegisterAgain, FollowPool
<1>3. PICK o \in Session :
        /\ session' = [session EXCEPT ![s] = o] /\ o.device = d
        /\ o.phase = "gone" \/ o.ip \in Ips
        /\ FinalizeOffline(s) => o.phase = "gone"
  <2> DEFINE moved(new) == [session[s] EXCEPT !.ip = new]
             leaving == [session[s] EXCEPT !.phase = "leaving", !.pool = sender_map[session[s].ip]]
             draining == [session[s] EXCEPT !.phase = "draining"]
             confirmed == [session[s] EXCEPT !.phase = "confirmed"]
  <2>1. /\ Closed(s) \in Session /\ Closed(s).phase = "gone" /\ Closed(s).device = d
    BY <1>1, Zenon DEF Closed, Session
  <2>2. \A new \in Ips : moved(new) \in Session /\ moved(new).device = d /\ moved(new).ip \in Ips
    BY <1>1, Zenon DEF Session
  <2>3. sender_map[session[s].ip] \in Sessions \cup {None}
    BY <1>1, Zenon DEF MemoryTyped
  <2>4. leaving \in Session /\ leaving.device = d /\ leaving.ip \in Ips
    BY <1>1, <2>3, Zenon DEF Session
  <2>5. /\ draining \in Session /\ draining.device = d /\ draining.ip \in Ips
        /\ confirmed \in Session /\ confirmed.device = d /\ confirmed.ip \in Ips
    BY <1>1, Zenon DEF Session
  <2>6. \A new : session' = [session EXCEPT ![s].ip = new] => session' = [session EXCEPT ![s] = moved(new)]
    BY <1>1, Zenon DEF MemoryTyped
  <2>7. session' = [session EXCEPT ![s].phase = "confirmed"] => session' = [session EXCEPT ![s] = confirmed]
    BY <1>1, Zenon DEF MemoryTyped
  <2>8. CASE \/ FinalizeOffline(s) \/ ReleaseTail(s)
    BY <2>1, <2>8, Zenon DEF FinalizeOffline, ReleaseTail
  <2>9. CASE OfflineLookup(s) /\ ~FinalizeOffline(s)
    <3>1. session' = [session EXCEPT ![s] = Closed(s)] \/ session' = [session EXCEPT ![s] = leaving]
      BY <2>9, Zenon DEF OfflineLookup
    <3> HIDE DEF leaving
    <3> QED BY <2>1, <2>4, <2>9, <3>1, Zenon
  <2>10. CASE RemoveLink(s) /\ ~FinalizeOffline(s)
    <3>1. session' = [session EXCEPT ![s] = Closed(s)] \/ session' = [session EXCEPT ![s] = draining]
      BY <2>10, Zenon DEF RemoveLink
    <3> HIDE DEF draining
    <3> QED BY <2>1, <2>5, <2>10, <3>1, Zenon
  <2>11. CASE ConfirmRegistration(s) /\ ~FinalizeOffline(s)
    <3> HIDE DEF confirmed
    <3> QED BY <2>5, <2>7, <2>11, Zenon DEF ConfirmRegistration
  <2>12. ASSUME NEW new \in Ips, FastRegisterAgain(s, new) \/ FollowPool(s, new), ~FinalizeOffline(s)
         PROVE  \E o \in Session : /\ session' = [session EXCEPT ![s] = o] /\ o.device = d
                                   /\ o.phase = "gone" \/ o.ip \in Ips
                                   /\ FinalizeOffline(s) => o.phase = "gone"
    <3>1. session' = [session EXCEPT ![s] = moved(new)]
      BY <2>6, <2>12, Zenon DEF FastRegisterAgain, FollowPool
    <3> HIDE DEF moved
    <3> QED BY <2>2, <2>12, <3>1, Zenon
  <2> HIDE DEF moved, leaving, draining, confirmed, d
  <2> QED BY <2>8, <2>9, <2>10, <2>11, <2>12, Zenon DEF Quiet
<1>4. /\ session' \in [Sessions -> Session] /\ session'[s] = o
      /\ \A t \in Sessions : t # s => session'[t] = session[t]
      /\ \A t \in Sessions : session'[t].phase \notin {"none", "gone"} =>
           session'[t].device \in Devices /\ session'[t].ip \in Ips
  BY <1>1, <1>3, SessionPut, Zenon
<1>5. /\ device_map' \in [Devices -> Entry] /\ data_version' \in Nat
      /\ \A e \in Devices : Image(device_map'[e]) = Img(e)
      /\ FinalizeOffline(s) /\ data_version' # data_version => device_map'[d].present
  <2> DEFINE on == [device_map[d] EXCEPT !.subnet_active = TRUE, !.data_version = data_version + 1]
             off == [device_map[d] EXCEPT !.is_connected = FALSE, !.subnet_active = FALSE,
                                          !.data_version = data_version + 1]
  <2>1. data_version + 1 \in Nat
    BY <1>1
  <2>2. /\ on \in Entry /\ on.present = device_map[d].present /\ on.ip = device_map[d].ip
        /\ on.ip_type = device_map[d].ip_type /\ on.client_type = device_map[d].client_type
    BY <1>1, <2>1, Zenon DEF Entry, DeviceEntry
  <2>3. /\ off \in Entry /\ off.present = device_map[d].present /\ off.ip = device_map[d].ip
        /\ off.ip_type = device_map[d].ip_type /\ off.client_type = device_map[d].client_type
    BY <1>1, <2>1, Zenon DEF Entry, DeviceEntry
  <2>4. \/ device_map' = device_map /\ data_version' = data_version
        \/ device_map' = [device_map EXCEPT ![d] = on] /\ data_version' = data_version + 1
             /\ device_map[d].present
        \/ device_map' = [device_map EXCEPT ![d] = off] /\ data_version' = data_version + 1
             /\ device_map[d].present
    <3>1. CASE ConfirmRegistration(s)
      BY <1>1, <3>1, Zenon DEF ConfirmRegistration, MemoryTyped, Has
    <3>2. CASE FinalizeOffline(s)
      BY <1>1, <3>2, Zenon DEF FinalizeOffline, MemoryTyped, Has, versionVars
    <3> QED BY <3>1, <3>2, Zenon DEF Quiet, OfflineLookup, RemoveLink, ReleaseTail,
          FastRegisterAgain, FollowPool, leaseVars, versionVars
  <2> HIDE DEF on, off, d
  <2>5. Image(on) = Img(d) /\ Image(off) = Img(d)
    BY <2>2, <2>3, SameImage, Zenon DEF Img
  <2>6. CASE device_map' = device_map /\ data_version' = data_version
    BY <2>6, Zenon DEF MemoryTyped, Img
  <2>7. ASSUME NEW e \in {on, off}, device_map' = [device_map EXCEPT ![d] = e],
               data_version' = data_version + 1, device_map[d].present
        PROVE  /\ device_map' \in [Devices -> Entry] /\ data_version' \in Nat
               /\ \A x \in Devices : Image(device_map'[x]) = Img(x)
               /\ device_map'[d].present
    <3>1. e \in Entry /\ e.present /\ Image(e) = Img(d)
      BY <2>2, <2>3, <2>5, <2>7, Zenon
    <3>2. /\ device_map' \in [Devices -> Entry] /\ device_map'[d] = e
          /\ \A x \in Devices : x # d => device_map'[x] = device_map[x]
      BY <1>1, <2>7, <3>1, EntryPut, Zenon
    <3> QED BY <2>1, <2>7, <3>1, <3>2, Zenon DEF Img
  <2> QED BY <2>4, <2>6, <2>7, Zenon
<1>6. sender_map' \in [Ips -> Sessions \cup {None}]
  <2>1. sender_map' = sender_map \/ \E ip : sender_map' = [sender_map EXCEPT ![ip] = None]
    BY Zenon DEF Quiet, ConfirmRegistration, FinalizeOffline, OfflineLookup, RemoveLink, ReleaseTail,
      FastRegisterAgain, FollowPool, poolVars
  <2> QED BY <2>1, Zenon DEF MemoryTyped
<1>7. MemoryTyped'
  BY <1>2, <1>4, <1>5, <1>6, MemoryAgain, Zenon
<1> QED BY <1>1, <1>2, <1>3, <1>4, <1>5, <1>7, Zenon

\* fast_register changes the address of the session's device.
LEMMA MoveFoot ==
    ASSUME MemoryTyped, NEW s \in Sessions, NEW new \in Ips, FastRegisterMove(s, new)
    PROVE  /\ MemoryTyped' /\ admin = NoAdmin /\ admin' = NoAdmin /\ session[s].phase = "confirmed"
           /\ \A t \in Sessions : t # s => session'[t] = session[t]
           /\ session[s].device \in Devices
           /\ device_map'[session[s].device] \in Entry /\ device_map'[session[s].device].present
           /\ \A e \in Devices : e # session[s].device => device_map'[e] = device_map[e]
<1> DEFINE d == session[s].device
           g == [device_map[d] EXCEPT !.ip = new, !.data_version = data_version + 1]
           o == [session[s] EXCEPT !.ip = new]
<1>1. /\ session[s] \in Session /\ session[s].phase = "confirmed" /\ data_version \in Nat
      /\ admin = NoAdmin /\ d \in Devices /\ session[s].ip \in Ips
      /\ device_map[d] \in Entry /\ device_map[d].present /\ new \in Usable
  BY Zenon DEF MemoryTyped, FastRegisterMove, FastCaller, LockFree, Has
<1>2. UNCHANGED <<admin, managed>> /\ data_version' = data_version + 1 /\ data_version + 1 \in Nat
  BY <1>1 DEF FastRegisterMove
<1>3. g \in Entry /\ g.present
  BY <1>1, <1>2, Zenon DEF Entry, DeviceEntry
<1>4. o \in Session /\ o.device \in Devices /\ o.ip \in Ips
  BY <1>1, Zenon DEF Session
<1>5. device_map' = [device_map EXCEPT ![d] = g] /\ session' = [session EXCEPT ![s] = o]
  BY <1>1, Zenon DEF FastRegisterMove, MemoryTyped
<1>6. sender_map' \in [Ips -> Sessions \cup {None}]
  <2>1. sender_map' = [j \in Ips |-> IF j = new THEN sender_map[session[s].ip]
                                     ELSE IF j = session[s].ip THEN None ELSE sender_map[j]]
    BY Zenon DEF FastRegisterMove
  <2> QED BY <1>1, <2>1, Zenon DEF MemoryTyped
<1> HIDE DEF d, g, o
<1>7. /\ device_map' \in [Devices -> Entry] /\ device_map'[d] = g
      /\ \A e \in Devices : e # d => device_map'[e] = device_map[e]
  BY <1>1, <1>3, <1>5, EntryPut, Zenon
<1>8. /\ session' \in [Sessions -> Session] /\ \A t \in Sessions : t # s => session'[t] = session[t]
      /\ \A t \in Sessions : session'[t].phase \notin {"none", "gone"} =>
           session'[t].device \in Devices /\ session'[t].ip \in Ips
  BY <1>4, <1>5, SessionPut, Zenon
<1>9. MemoryTyped'
  BY <1>2, <1>6, <1>7, <1>8, MemoryAgain, Zenon
<1> QED BY <1>1, <1>2, <1>3, <1>7, <1>8, <1>9, Zenon DEF d

\* The release of a pre-registration forgets the device, or leaves it alone.
LEMMA ForgetFoot ==
    ASSUME MemoryTyped, NEW s \in Sessions, ReleasePreRegistered(s)
    PROVE  /\ MemoryTyped' /\ admin' = admin /\ session[s].device \in Devices
           /\ \A t \in Sessions : t # s => session'[t] = session[t]
           /\ \A e \in Devices : e # session[s].device => device_map'[e] = device_map[e]
           /\ device_map'[session[s].device] \in {device_map[session[s].device], NoEntry}
<1> DEFINE d == session[s].device
           o == [session[s] EXCEPT !.phase = "releasing"]
<1>1. /\ session[s] \in Session /\ session[s].phase = "pending" /\ data_version \in Nat
      /\ d \in Devices /\ session[s].ip \in Ips
  BY Zenon DEF MemoryTyped, ReleasePreRegistered
<1>2. UNCHANGED <<admin, managed, sender_map>>
  BY Zenon DEF ReleasePreRegistered
<1>3. /\ Closed(s) \in Session /\ Closed(s).phase = "gone"
      /\ o \in Session /\ o.device \in Devices /\ o.ip \in Ips
  BY <1>1, Zenon DEF Closed, Session
<1>4. NoEntry \in Entry
  BY Zenon DEF NoEntry, Entry, DeviceEntry
<1>5. /\ \/ device_map' = device_map /\ data_version' = data_version
         \/ device_map' = [device_map EXCEPT ![d] = NoEntry] /\ data_version' = data_version + 1
      /\ session' = [session EXCEPT ![s] = Closed(s)] \/ session' = [session EXCEPT ![s] = o]
  <2>1. session' = [session EXCEPT ![s].phase = "releasing"] => session' = [session EXCEPT ![s] = o]
    BY <1>1, Zenon DEF MemoryTyped
  <2> HIDE DEF o
  <2> QED BY <2>1, Zenon DEF ReleasePreRegistered, leaseVars, versionVars
<1> HIDE DEF d, o
<1>6. /\ device_map' \in [Devices -> Entry] /\ data_version' \in Nat
      /\ \A e \in Devices : e # d => device_map'[e] = device_map[e]
      /\ device_map'[d] \in {device_map[d], NoEntry}
  <2>1. CASE device_map' = device_map /\ data_version' = data_version
    BY <1>1, <2>1, Zenon DEF MemoryTyped
  <2>2. CASE device_map' = [device_map EXCEPT ![d] = NoEntry] /\ data_version' = data_version + 1
    BY <1>1, <1>4, <2>2 DEF MemoryTyped
  <2> QED BY <1>5, <2>1, <2>2, Zenon
<1>7. /\ session' \in [Sessions -> Session] /\ \A t \in Sessions : t # s => session'[t] = session[t]
      /\ \A t \in Sessions : session'[t].phase \notin {"none", "gone"} =>
           session'[t].device \in Devices /\ session'[t].ip \in Ips
  BY <1>3, <1>5, SessionPut, Zenon
<1>8. MemoryTyped'
  BY <1>2, <1>6, <1>7, MemoryAgain, Zenon DEF MemoryTyped
<1> QED BY <1>1, <1>2, <1>6, <1>7, <1>8, Zenon DEF d

\* The administrator edits d, ...
LEMMA UpsertFoot ==
    ASSUME MemoryTyped, NEW d \in Devices, NEW ip \in Ips, NEW it \in IpTypes, NEW ct \in ClientTypes,
           NEW routes \in BOOLEAN, UpsertDevice(d, ip, it, ct, routes)
    PROVE  /\ MemoryTyped' /\ session' = session /\ admin'.device = d
           /\ device_map'[d] \in Entry /\ device_map'[d].present
           /\ \A e \in Devices : e # d => device_map'[e] = device_map[e]
<1> USE NetworkAssumption
<1>1. device_map[d] \in Entry /\ data_version \in Nat /\ ip \in Usable /\ managed \in Edit
  BY Zenon DEF MemoryTyped, UpsertDevice
<1>2. PICK v \in Nat, k \in {"Dynamic", "Static", "Fixed"} :
        device_map' = [device_map EXCEPT ![d] =
          [device_map[d] EXCEPT !.ip = ip, !.client_type = ct, !.present = TRUE, !.ip_type = k,
                                !.data_version = v]]
  <2> DEFINE now == ~device_map[d].is_connected
                    \/ (device_map[d].is_connected /\ ct = "Wireguard" /\ routes)
             v == IF now THEN data_version + 1 ELSE device_map[d].data_version
             k == IF ct = "Wireguard" THEN "Static" ELSE it
  <2>1. v \in Nat /\ k \in {"Dynamic", "Static", "Fixed"}
    BY <1>1 DEF Entry, DeviceEntry
  <2>2. device_map' = [device_map EXCEPT ![d] =
          [device_map[d] EXCEPT !.ip = ip, !.client_type = ct, !.present = TRUE, !.ip_type = k,
                                !.data_version = v]]
    BY <1>1, Zenon DEF UpsertDevice, Entry, DeviceEntry
  <2> QED BY <2>1, <2>2, Zenon
<1> DEFINE g == [device_map[d] EXCEPT !.ip = ip, !.client_type = ct, !.present = TRUE, !.ip_type = k,
                                      !.data_version = v]
<1>3. g \in Entry /\ g.present
  BY <1>1, Zenon DEF Entry, DeviceEntry
<1>4. device_map' = [device_map EXCEPT ![d] = g]
  BY <1>2, Zenon
<1> HIDE DEF g
<1>5. /\ device_map' \in [Devices -> Entry] /\ device_map'[d] = g
      /\ \A e \in Devices : e # d => device_map'[e] = device_map[e]
  BY <1>3, <1>4, EntryPut, Zenon
<1>6. /\ session' = session /\ sender_map' = sender_map /\ data_version' \in Nat
      /\ admin' = [device |-> d, previous |-> device_map[d]]
      /\ managed' = IF managed.device = d THEN [managed EXCEPT !.updated = TRUE] ELSE managed
  BY <1>1 DEF UpsertDevice, poolVars
<1>7. admin' \in [device : Devices \cup {None}, previous : Entry] /\ admin'.device = d
  BY <1>1, <1>6, Zenon
<1>8. managed' \in Edit /\ managed'.ip = managed.ip /\ managed'.device = managed.device
      /\ (managed' = managed \/ managed.device = d)
  BY <1>1, <1>6, Zenon DEF Edit
<1>9. MemoryTyped'
  BY <1>5, <1>6, <1>7, <1>8, Zenon DEF MemoryTyped
<1> QED BY <1>3, <1>5, <1>6, <1>7, <1>9, Zenon

\* ... deletes it, ...
LEMMA DeleteFoot ==
    ASSUME MemoryTyped, NEW d \in Devices, DeleteDevice(d)
    PROVE  /\ MemoryTyped' /\ session' = session /\ admin' = NoAdmin
           /\ Image(device_map'[d]) = NoRow
           /\ \A e \in Devices : e # d => device_map'[e] = device_map[e]
<1>1. NoEntry \in Entry /\ ~NoEntry.present
  BY Zenon DEF NoEntry, Entry, DeviceEntry
<1>2. /\ device_map' = [device_map EXCEPT ![d] = NoEntry] /\ session' = session
      /\ data_version' = data_version + 1 /\ UNCHANGED <<admin, managed>> /\ admin = NoAdmin
      /\ sender_map' = [j \in Ips |-> IF active_ip_map[j] = d THEN None ELSE sender_map[j]]
  BY Zenon DEF DeleteDevice, LockFree
<1>3. /\ device_map' \in [Devices -> Entry] /\ device_map'[d] = NoEntry
      /\ \A e \in Devices : e # d => device_map'[e] = device_map[e]
  BY <1>1, <1>2, EntryPut, Zenon
<1>4. sender_map' \in [Ips -> Sessions \cup {None}] /\ data_version' \in Nat
  BY <1>2 DEF MemoryTyped
<1>5. MemoryTyped'
  BY <1>2, <1>3, <1>4, MemoryAgain, Zenon DEF MemoryTyped
<1> QED BY <1>1, <1>2, <1>3, <1>5, ImageFacts, Zenon

\* ... or reads its report.
LEMMA MetadataFoot ==
    ASSUME MemoryTyped, NEW d \in Devices, UpdateRuntimeMetadata(d)
    PROVE  /\ MemoryTyped' /\ session' = session /\ admin' = NoAdmin
           /\ device_map'[d] \in Entry /\ device_map'[d].present
           /\ \A e \in Devices : e # d => device_map'[e] = device_map[e]
<1> DEFINE g == [device_map[d] EXCEPT !.data_version = data_version + 1]
<1>1. /\ device_map[d] \in Entry /\ data_version \in Nat /\ device_map[d].present
      /\ data_version' = data_version + 1 /\ session' = session /\ sender_map' = sender_map
      /\ UNCHANGED <<admin, managed>> /\ admin = NoAdmin
  BY Zenon DEF MemoryTyped, UpdateRuntimeMetadata, Has, LockFree, poolVars
<1>2. data_version + 1 \in Nat
  BY <1>1
<1>3. g \in Entry /\ g.present
  BY <1>1, <1>2, Zenon DEF Entry, DeviceEntry
<1>4. device_map' = [device_map EXCEPT ![d] = g]
  BY Zenon DEF UpdateRuntimeMetadata, MemoryTyped
<1> HIDE DEF g
<1>5. /\ device_map' \in [Devices -> Entry] /\ device_map'[d] = g
      /\ \A e \in Devices : e # d => device_map'[e] = device_map[e]
  BY <1>3, <1>4, EntryPut, Zenon
<1>6. MemoryTyped'
  BY <1>1, <1>2, <1>5, MemoryAgain, Zenon DEF MemoryTyped
<1> QED BY <1>1, <1>3, <1>5, <1>6, Zenon

\* The timer releases the addresses of D.
LEMMA ExpireFoot ==
    ASSUME MemoryTyped, NEW D \in SUBSET Devices, ReleaseExpired(D)
    PROVE  /\ MemoryTyped' /\ session' = session /\ admin' = NoAdmin
           /\ \A d \in D : Image(device_map'[d]) = [Img(d) EXCEPT !.ip = None] /\ Img(d) \in Record
           /\ \A e \in Devices : e \notin D => device_map'[e] = device_map[e]
<1> DEFINE off(d) == [device_map[d] EXCEPT !.ip = None, !.data_version = data_version + 1]
<1>1. /\ data_version \in Nat /\ data_version' = data_version + 1 /\ session' = session
      /\ sender_map' = sender_map /\ UNCHANGED <<admin, managed>> /\ admin = NoAdmin
      /\ \A d \in D : device_map[d].present
  BY Zenon DEF MemoryTyped, ReleaseExpired, Has, LockFree, poolVars
<1>6. device_map' = [d \in Devices |-> IF d \in D THEN off(d) ELSE device_map[d]]
  BY Zenon DEF ReleaseExpired
<1>2. data_version + 1 \in Nat /\ data_version' \in Nat
  BY <1>1
<1>3. ASSUME NEW d \in Devices
      PROVE  off(d) \in Entry /\ (device_map[d].present => Image(off(d)) = [Img(d) EXCEPT !.ip = None])
             /\ device_map[d] \in Entry /\ Img(d) \in Record
  <2>1. device_map[d] \in Entry
    BY Zenon DEF MemoryTyped
  <2>2. /\ off(d) \in Entry /\ off(d).present = device_map[d].present /\ off(d).ip = None
        /\ off(d).ip_type = device_map[d].ip_type /\ off(d).client_type = device_map[d].client_type
    BY <1>2, <2>1, Zenon DEF Entry, DeviceEntry
  <2> HIDE DEF off
  <2>3. device_map[d].present => Image(off(d)) = [Img(d) EXCEPT !.ip = None]
    <3> SUFFICES ASSUME device_map[d].present PROVE Image(off(d)) = [Img(d) EXCEPT !.ip = None]
      BY Zenon
    <3> DEFINE p == Img(d)
               q == Image(off(d))
    <3>1. /\ p \in Row /\ q \in Row /\ q.present = p.present /\ q.ip = None
          /\ q.ip_type = p.ip_type /\ q.client_type = p.client_type
      <4>1. p \in Row /\ q \in Row
        BY <2>1, <2>2, ImageFacts, Zenon DEF Img, Record
      <4> QED BY <2>2, <4>1, Zenon DEF Img, Image, to_record
    <3> HIDE DEF p, q
    <3>2. q = [p EXCEPT !.ip = None]
      BY <3>1, Zenon DEF Row
    <3> QED BY <3>2, Zenon DEF p, q
  <2> QED BY <2>1, <2>2, <2>3, ImageFacts, Zenon DEF Img
<1> HIDE DEF off
<1>4. device_map' \in [Devices -> Entry]
  BY <1>3, <1>6, Zenon
<1>5. MemoryTyped'
  BY <1>1, <1>2, <1>4, MemoryAgain, Zenon DEF MemoryTyped
<1>7. /\ \A d \in D : device_map'[d] = off(d)
      /\ \A e \in Devices : e \notin D => device_map'[e] = device_map[e]
  BY <1>6, Zenon
<1> QED BY <1>1, <1>3, <1>5, <1>7, Zenon

\* A managed edit is rolled back.
LEMMA RollbackFoot ==
    ASSUME MemoryTyped, ManagedRollback
    PROVE  /\ MemoryTyped' /\ session' = session /\ admin' = NoAdmin /\ managed.device \in Devices
           /\ device_map'[managed.device] \in Entry /\ device_map'[managed.device].present
           /\ \A e \in Devices : e # managed.device => device_map'[e] = device_map[e]
<1> DEFINE d == managed.device
           g == [NoEntry EXCEPT !.ip = managed.ip, !.ip_type = managed.ip_type, !.present = TRUE]
<1>1. /\ d \in Devices /\ managed \in Edit /\ managed.ip \in Usable \cup {None} /\ data_version \in Nat
      /\ admin = NoAdmin
  BY Zenon DEF MemoryTyped, ManagedRollback, LockFree
<1>2. g \in Entry /\ g.present
  BY <1>1, Zenon DEF NoEntry, Edit, Entry, DeviceEntry
<1>3. /\ device_map' = [device_map EXCEPT ![d] = g] /\ data_version' = data_version + 1
      /\ session' = session /\ admin' = admin /\ sender_map' = sender_map /\ managed' = NoManaged
  BY Zenon DEF ManagedRollback, restore_device_config, poolVars
<1>4. NoManaged \in Edit /\ NoManaged.ip = None /\ ~NoManaged.updated
  BY Zenon DEF NoManaged, Edit
<1>5. data_version' \in Nat
  BY <1>1, <1>3
<1> HIDE DEF d, g
<1>6. /\ device_map' \in [Devices -> Entry] /\ device_map'[d] = g
      /\ \A e \in Devices : e # d => device_map'[e] = device_map[e]
  BY <1>1, <1>2, <1>3, EntryPut, Zenon
<1>7. MemoryTyped'
  BY <1>3, <1>4, <1>5, <1>6, Zenon DEF MemoryTyped
<1> QED BY <1>1, <1>2, <1>3, <1>6, <1>7, Zenon DEF d

\* The other steps of the administrator leave entries and sessions alone.
LEMMA OtherFoot ==
    ASSUME MemoryTyped,
           \/ \E ip \in Ips : DisconnectSubscription(ip)
           \/ \E d \in Devices : ManagedSnapshot(d)
           \/ ManagedCommit
    PROVE  MemoryTyped' /\ UNCHANGED <<device_map, session, admin>>
<1>1. UNCHANGED <<device_map, session, admin, data_version>>
  BY Zenon DEF DisconnectSubscription, ManagedSnapshot, ManagedCommit, leaseVars, versionVars
<1>2. sender_map' \in [Ips -> Sessions \cup {None}]
  BY Zenon DEF MemoryTyped, DisconnectSubscription, ManagedSnapshot, ManagedCommit, poolVars
<1>3. managed' \in Edit /\ managed'.ip \in Usable \cup {None} /\ (managed'.updated => managed'.device \in Devices)
  <2>1. CASE managed' = managed
    BY <2>1, Zenon DEF MemoryTyped
  <2>2. CASE managed' = NoManaged
    BY <2>2, Zenon DEF NoManaged, Edit
  <2>3. ASSUME NEW d \in Devices, ManagedSnapshot(d)
        PROVE  managed' \in Edit /\ managed'.ip \in Usable \cup {None} /\ ~managed'.updated
    <3>1. /\ device_map[d] \in Entry
          /\ managed' = [device |-> d, ip |-> device_map[d].ip, ip_type |-> device_map[d].ip_type,
                         updated |-> FALSE]
      BY <2>3, Zenon DEF MemoryTyped, ManagedSnapshot
    <3> QED BY <3>1, Zenon DEF Entry, DeviceEntry, Edit
  <2> QED BY <2>1, <2>2, <2>3, Zenon DEF DisconnectSubscription, ManagedCommit
<1> QED BY <1>1, <1>2, <1>3, Zenon DEF MemoryTyped

-----------------------------------------------------------------------------
(* Every step of the composition keeps the rows true.                       *)

\* A confirmation, or the end of a session, records the entry as it is.
LEMMA WriteBegins ==
    ASSUME RowsKept, NEW s \in Sessions, NEW w \in Write, session'[s].device \in Devices,
           w.op # "none", w.row.present, w.row = Image(device_map'[session'[s].device]),
           session'[s].phase = IF w.op = "confirm" THEN "pending" ELSE "gone",
           writes' = [writes EXCEPT ![s] = w],
           \A t \in Sessions : t # s => session'[t] = session[t],
           \A d \in Devices : Image(device_map'[d]) = Img(d),
           UNCHANGED <<rows, holding, behind, admin>>
    PROVE  RowsKept' /\ Settling
<1>1. writes' \in [Sessions -> Write] /\ \A t \in Sessions : writes'[t] = IF t = s THEN w ELSE writes[t]
  BY Zenon DEF RowsKept, RowsTyped
<1>2. RowsTyped'
  BY <1>1, Zenon DEF RowsKept, RowsTyped
<1>3. WritesTrue'
  <2> SUFFICES ASSUME NEW t \in Sessions, writes'[t].op # "none"
               PROVE  /\ session'[t].device \in Devices /\ writes'[t].row.present
                      /\ writes'[t].late \/ writes'[t].row = Image(device_map'[session'[t].device])
                      /\ session'[t].phase = IF writes'[t].op = "confirm" THEN "pending" ELSE "gone"
    BY Zenon DEF WritesTrue, Img
  <2>1. CASE t = s
    BY <1>1, <2>1, Zenon
  <2>2. CASE t # s
    <3>1. writes'[t] = writes[t] /\ session'[t] = session[t]
      BY <1>1, <2>2, Zenon
    <3>2. /\ session[t].device \in Devices /\ writes[t].row.present
          /\ writes[t].late \/ writes[t].row = Img(session[t].device)
          /\ session[t].phase = IF writes[t].op = "confirm" THEN "pending" ELSE "gone"
      BY <3>1, Zenon DEF RowsKept, WritesTrue
    <3> QED BY <3>1, <3>2, Zenon
  <2> QED BY <2>1, <2>2, Zenon
<1>4. \A d \in Devices : Img(d)' = Img(d)
  BY Zenon DEF Img
<1>5. HoldTrue'
  <2>1. holding.todo \subseteq Devices
    BY Zenon DEF RowsKept, RowsTyped, HeldWrite
  <2> QED BY <1>4, <2>1, Zenon DEF RowsKept, HoldTrue
<1>6. RowsTrue'
  BY <1>4, Zenon DEF RowsKept, RowsTrue, RowTrue
<1>7. Settling
  BY Zenon DEF Settling, Settled
<1> QED BY <1>2, <1>3, <1>5, <1>6, <1>7, Zenon DEF RowsKept

\* A pre-registration is released while another operation awaits its write: a record of the
\* device that is on its way is late from then on.
LEMMA PendingEnds ==
    ASSUME RowsKept, MemoryTyped, NEW s \in Sessions, EndPending(s)
    PROVE  RowsKept' /\ Settling /\ MemoryTyped'
<1> DEFINE d == session[s].device
<1>1. /\ MemoryTyped' /\ admin' = admin /\ d \in Devices
      /\ \A t \in Sessions : t # s => session'[t] = session[t]
      /\ \A e \in Devices : e # d => device_map'[e] = device_map[e]
      /\ device_map'[d] \in {device_map[d], NoEntry}
  BY ForgetFoot, Zenon DEF EndPending
<1>2. /\ writes[s] = NoWrite /\ writes' = MarkLate(writes) /\ HeldOn /\ rows' = rows
      /\ behind' = IF Supersedes(d) THEN behind \cup {d} ELSE behind
  BY Zenon DEF EndPending
<1> HIDE DEF d
<1>3. Image(NoEntry) = NoRow
  BY Zenon DEF Image, NoEntry
<1>4. \A e \in Devices : Image(device_map'[e]) \in {Img(e), NoRow}
  BY <1>1, <1>3, Zenon DEF Img
<1>5. WritersStay
  <2>1. NoWrite.op = "none"
    BY Zenon DEF NoWrite
  <2> QED BY <1>1, <1>2, <2>1, Zenon DEF WritersStay
<1>6. holding \in HeldWrite /\ holding.todo \subseteq Devices
  BY Zenon DEF RowsKept, RowsTyped, HeldWrite
<1>7. /\ holding' \in HeldWrite /\ holding'.op = holding.op /\ holding'.todo = holding.todo
      /\ holding'.row = holding.row /\ (holding.late => holding'.late)
      /\ holding.op = "save" => holding'.late \/ \A e \in holding.todo : ~Supersedes(e)
  <2>1. CASE holding.op = "save" /\ \E e \in holding.todo : Supersedes(e)
    <3>1. holding' = [holding EXCEPT !.late = TRUE]
      BY <1>2, <2>1, Zenon DEF HeldOn
    <3> QED BY <1>6, <3>1, Zenon DEF HeldWrite
  <2>2. CASE ~(holding.op = "save" /\ \E e \in holding.todo : Supersedes(e))
    <3>1. holding' = holding
      BY <1>2, <2>2, Zenon DEF HeldOn
    <3> QED BY <1>6, <2>2, <3>1, Zenon
  <2> QED BY <2>1, <2>2, Zenon
<1>8. RowsTyped' /\ WritesTrue'
  BY <1>2, <1>5, <1>7, WritesMarked, Zenon DEF RowsKept, RowsTyped
<1>9. HoldTrue'
  <2>1. holding.op = "save" /\ ~holding'.late => \A e \in holding.todo : holding.row = Img(e)'
    BY <1>7, Zenon DEF RowsKept, HoldTrue, Supersedes, Img
  <2>2. holding.op \in {"delete", "deleted"} => \A e \in holding.todo : Img(e)' = NoRow
    BY <1>4, <1>6, Zenon DEF RowsKept, HoldTrue, Img
  <2>3. holding.op = "release" => \A e \in holding.todo : Img(e)'.ip = None
    BY <1>4, <1>6, NoRowIs DEF RowsKept, HoldTrue, Img
  <2> QED BY <1>1, <1>7, <2>1, <2>2, <2>3, Zenon DEF RowsKept, HoldTrue
<1>10. RowsTrue'
  <2> SUFFICES ASSUME NEW e \in Devices, e \notin behind' PROVE RowTrue(e)'
    BY Zenon DEF RowsTrue
  <2>1. e \notin behind /\ Img(e)' = Img(e)
    BY <1>1, <1>2, Zenon DEF Supersedes, Img
  <2> QED BY <1>2, <1>7, <2>1, Zenon DEF RowsKept, RowsTrue, RowTrue
<1>11. Settling
  <2> SUFFICES ASSUME NEW e \in Devices, e \notin behind' PROVE Settled(e)
    BY Zenon DEF Settling
  <2>1. e \notin behind
    BY <1>2, Zenon
  <2>2. \A x \in Devices : Image(device_map'[x]).ip \in {Img(x).ip, None}
    BY <1>4, NoRowIs, Zenon
  <2> QED BY <1>2, <2>1, <2>2, Zenon DEF Settled
<1> QED BY <1>1, <1>8, <1>9, <1>10, <1>11, Zenon DEF RowsKept

\* The operations under the mutation lock.
LEMMA LockedRows ==
    ASSUME RowsKept, MemoryTyped, LockedStep
    PROVE  RowsKept' /\ Settling /\ MemoryTyped'
<1>1. ASSUME NEW s \in Sessions, NEW d \in Devices, NEW ct \in ClientTypes,
             NEW i \in Instances \cup {None}, NEW r \in Ips \cup {None}, NEW var \in BOOLEAN,
             NEW mode \in RegModes, RegisterRow(s, d, ct, i, r, var, mode)
      PROVE  RowsKept' /\ Settling /\ MemoryTyped'
  <2>1. /\ MemoryTyped' /\ admin = NoAdmin /\ admin' = NoAdmin /\ session[s].phase = "none"
        /\ \A t \in Sessions : t # s => session'[t] = session[t]
        /\ device_map'[d] \in Entry /\ device_map'[d].present
        /\ \A e \in Devices : e # d => device_map'[e] = device_map[e]
    BY <1>1, RegisterFoot, ZenonT(30) DEF RegisterRow
  <2>2. WritersStay
    BY <2>1, Zenon DEF WritersStay, RowsKept, WritesTrue
  <2>3. CASE SaveAfter(d, s)
    <3>1. /\ Unlocked /\ Hold("save", {d}, s, to_record(device_map'[d]))
          /\ writes' = MarkLate(writes) /\ UNCHANGED <<rows, behind>>
      BY <1>1, <2>3, Zenon DEF RegisterRow, SaveAfter
    <3> QED BY <2>1, <2>2, <3>1, Saving, Zenon
  <2>4. CASE ~SaveAfter(d, s)
    <3>1. /\ Unlocked /\ writes' = MarkLate(writes) /\ UNCHANGED <<rows, holding>>
          /\ behind' = IF Supersedes(d) THEN behind \cup {d} ELSE behind
      BY <1>1, <2>4, Zenon DEF RegisterRow
    <3> QED BY <2>1, <2>2, <3>1, LeftBehind, Zenon
  <2> QED BY <2>3, <2>4, Zenon
<1>2. ASSUME NEW d \in Devices, NEW ip \in Ips, NEW it \in IpTypes, NEW ct \in ClientTypes,
             NEW routes \in BOOLEAN, UpsertRow(d, ip, it, ct, routes)
      PROVE  RowsKept' /\ Settling /\ MemoryTyped'
  <2>1. /\ MemoryTyped' /\ session' = session /\ admin'.device = d
        /\ device_map'[d] \in Entry /\ device_map'[d].present
        /\ \A e \in Devices : e # d => device_map'[e] = device_map[e]
    BY <1>2, UpsertFoot, Zenon DEF UpsertRow
  <2>2. /\ Unlocked /\ Hold("save", {d}, None, to_record(device_map'[d]))
        /\ writes' = MarkLate(writes) /\ UNCHANGED <<rows, behind>>
    BY <1>2, Zenon DEF UpsertRow, SaveAfter
  <2>3. WritersStay /\ None \in Sessions \cup {None}
    BY <2>1, Zenon DEF WritersStay
  <2> QED BY <2>1, <2>2, <2>3, Saving, Zenon
<1>3. ASSUME NEW d \in Devices, UpdateMetadataRow(d)
      PROVE  RowsKept' /\ Settling /\ MemoryTyped'
  <2>1. /\ MemoryTyped' /\ session' = session /\ admin' = NoAdmin
        /\ device_map'[d] \in Entry /\ device_map'[d].present
        /\ \A e \in Devices : e # d => device_map'[e] = device_map[e]
    BY <1>3, MetadataFoot, Zenon DEF UpdateMetadataRow
  <2>2. /\ Unlocked /\ Hold("save", {d}, None, to_record(device_map'[d]))
        /\ writes' = MarkLate(writes) /\ UNCHANGED <<rows, behind>>
    BY <1>3, Zenon DEF UpdateMetadataRow, SaveAfter
  <2>3. WritersStay /\ None \in Sessions \cup {None}
    BY <2>1, Zenon DEF WritersStay
  <2> QED BY <2>1, <2>2, <2>3, Saving, Zenon
<1>4. ASSUME NEW d \in Devices, DeleteRow(d)
      PROVE  RowsKept' /\ Settling /\ MemoryTyped'
  <2>1. /\ MemoryTyped' /\ session' = session /\ admin' = NoAdmin
        /\ Image(device_map'[d]) = NoRow
        /\ \A e \in Devices : e # d => device_map'[e] = device_map[e]
    BY <1>4, DeleteFoot, Zenon DEF DeleteRow
  <2>2. /\ Unlocked /\ Hold("delete", {d}, None, NoRow)
        /\ writes' = MarkLate(writes) /\ UNCHANGED <<rows, behind>>
    BY <1>4, Zenon DEF DeleteRow
  <2>3. WritersStay
    BY <2>1, Zenon DEF WritersStay
  <2>4. WritesTrue' /\ writes' \in [Sessions -> Write]
    BY <2>2, <2>3, WritesMarked, Zenon DEF RowsKept
  <2> QED BY <2>1, <2>2, <2>4, Deleting, Zenon
<1>5. ASSUME NEW d \in Devices, DeleteUnknownRow(d)
      PROVE  RowsKept' /\ Settling /\ MemoryTyped'
  <2>1. /\ Unlocked /\ Hold("delete", {d}, None, NoRow) /\ UNCHANGED <<rows, behind, writes>>
        /\ UNCHANGED <<device_map, data_version, session, sender_map, managed, admin>>
        /\ admin = NoAdmin /\ ~device_map[d].present
    BY <1>5, Zenon DEF DeleteUnknownRow, vars, LockFree, Has
  <2>2. MemoryTyped'
    BY <2>1, Zenon DEF MemoryTyped
  <2>3. Image(device_map'[d]) = NoRow
    BY <2>1, Zenon DEF Image
  <2>4. WritesTrue' /\ writes' \in [Sessions -> Write]
    BY <2>1, Zenon DEF RowsKept, RowsTyped, WritesTrue, Img
  <2> QED BY <2>1, <2>2, <2>3, <2>4, Deleting, Zenon
<1>6. ASSUME NEW S \in SUBSET Devices, ReleaseRows(S)
      PROVE  RowsKept' /\ Settling /\ MemoryTyped'
  <2>1. /\ MemoryTyped' /\ session' = session /\ admin' = NoAdmin
        /\ \A d \in S : Image(device_map'[d]) = [Img(d) EXCEPT !.ip = None] /\ Img(d) \in Record
        /\ \A e \in Devices : e \notin S => device_map'[e] = device_map[e]
    BY <1>6, ExpireFoot, Zenon DEF ReleaseRows
  <2>2. /\ Unlocked /\ Hold("release", S, None, NoRow)
        /\ writes' = MarkLate(writes) /\ UNCHANGED <<rows, behind>>
    BY <1>6, Zenon DEF ReleaseRows
  <2>3. WritersStay
    BY <2>1, Zenon DEF WritersStay
  <2> QED BY <2>1, <2>2, <2>3, ReleasingRows, Zenon
<1>7. CASE RestoreRow
  <2> DEFINE d == managed.device
  <2>1. /\ MemoryTyped' /\ session' = session /\ admin' = NoAdmin /\ d \in Devices
        /\ device_map'[d] \in Entry /\ device_map'[d].present
        /\ \A e \in Devices : e # d => device_map'[e] = device_map[e]
    BY <1>7, RollbackFoot, Zenon DEF RestoreRow
  <2>2. /\ Unlocked /\ Hold("save", {d}, None, to_record(device_map'[d]))
        /\ writes' = MarkLate(writes) /\ UNCHANGED <<rows, behind>>
    BY <1>7, Zenon DEF RestoreRow
  <2> HIDE DEF d
  <2>3. WritersStay /\ None \in Sessions \cup {None}
    BY <2>1, Zenon DEF WritersStay
  <2> QED BY <2>1, <2>2, <2>3, Saving, Zenon
<1> QED BY <1>1, <1>2, <1>3, <1>4, <1>5, <1>6, <1>7, Zenon DEF LockedStep

\* The steps of a session.
LEMMA SessionRows ==
    ASSUME RowsKept, MemoryTyped, NEW s \in Sessions, SessionRowStep(s)
    PROVE  RowsKept' /\ Settling /\ MemoryTyped'
<1> DEFINE d == session[s].device
<1>0. writes \in [Sessions -> Write] /\ \A e \in Devices : device_map[e] \in Entry /\ Img(e) \in Record
  BY ImageFacts, Zenon DEF RowsKept, RowsTyped, MemoryTyped, Img
<1>1. CASE ConfirmBegins(s)
  <2> DEFINE w == [op |-> "confirm", late |-> FALSE, row |-> to_record(device_map[d])]
  <2>1. /\ session[s].phase = "pending" /\ device_map[d].present /\ d \in Devices
        /\ writes' = [writes EXCEPT ![s] = w]
        /\ UNCHANGED <<device_map, data_version, session, sender_map, managed, admin>>
        /\ UNCHANGED <<rows, holding, behind>>
    BY <1>1, Zenon DEF ConfirmBegins, vars, Has, MemoryTyped
  <2>2. /\ to_record(device_map[d]) = Img(d) /\ Img(d).present /\ Img(d) \in Record
    BY <1>0, <2>1, ImageFacts, Zenon DEF Img
  <2>3. /\ w \in Write /\ w.op = "confirm" /\ w.row = Img(d)
    BY <2>2, Zenon DEF Write
  <2>4. \A e \in Devices : Image(device_map'[e]) = Img(e)
    BY <2>1, Zenon DEF Img
  <2>5. MemoryTyped'
    BY <2>1, Zenon DEF MemoryTyped
  <2> HIDE DEF w
  <2> QED BY <2>1, <2>2, <2>3, <2>4, <2>5, WriteBegins, Zenon DEF d
<1>2. CASE EndPending(s)
  BY <1>2, PendingEnds, Zenon
<1>3. ASSUME Quiet(s)
      PROVE  /\ MemoryTyped' /\ admin' = admin /\ session[s].phase \notin {"none", "gone"}
             /\ \A t \in Sessions : t # s => session'[t] = session[t]
             /\ session'[s].device = d /\ d \in Devices
             /\ \A e \in Devices : Image(device_map'[e]) = Img(e)
             /\ FinalizeOffline(s) => session'[s].phase = "gone"
             /\ FinalizeOffline(s) /\ data_version' # data_version => device_map'[d].present
  BY <1>3, QuietFoot, Zenon DEF MemoryTyped
<1>4. CASE Confirm(s)
  <2>1. /\ ConfirmRegistration(s) /\ session[s].phase = "pending"
        /\ writes' = [writes EXCEPT ![s] = NoWrite] /\ holding' = holding
        /\ IF writes[s].op = "confirm" THEN Stored(d, writes[s].row, writes[s].late)
           ELSE UNCHANGED <<rows, behind>>
    BY <1>4, Zenon DEF Confirm, ConfirmRegistration
  <2>2. Quiet(s)
    BY <2>1, Zenon DEF Quiet
  <2>3. CASE writes[s].op = "confirm"
    <3>1. writes[s].op # "none"
      BY <2>3, Zenon
    <3> QED BY <1>0, <1>3, <2>1, <2>2, <2>3, <3>1, WriteLands, Zenon
  <2>4. CASE writes[s].op # "confirm"
    <3>1. writes[s].op = "none"
      BY <2>1, <2>4, Zenon DEF RowsKept, WritesTrue
    <3>2. NoWrite \in Write /\ NoWrite.op = "none"
      BY NoRowIs, Zenon DEF NoWrite, Write
    <3>3. /\ writes' \in [Sessions -> Write]
          /\ \A t \in Sessions : writes'[t] = writes[t] \/ writes'[t].op = "none"
      BY <1>0, <2>1, <3>2, Zenon
    <3>4. WritersStay
      BY <1>3, <2>2, <3>1, Zenon DEF WritersStay
    <3> QED BY <1>3, <2>1, <2>2, <2>4, <3>3, <3>4, Unaltered, Zenon
  <2> QED BY <2>3, <2>4, Zenon
<1>5. CASE EndSession(s)
  <2>1. FinalizeOffline(s) /\ session[s].phase = "draining" /\ UNCHANGED <<rows, holding, behind>>
    BY <1>5, Zenon DEF EndSession, FinalizeOffline
  <2>2. Quiet(s) /\ writes[s].op = "none"
    BY <2>1, Zenon DEF Quiet, RowsKept, WritesTrue
  <2>3. CASE data_version' = data_version
    <3>1. writes' = writes
      BY <1>5, <2>3, Zenon DEF EndSession
    <3>2. WritersStay
      BY <1>3, <2>2, Zenon DEF WritersStay
    <3> QED BY <1>0, <1>3, <2>1, <2>2, <3>1, <3>2, Unaltered, Zenon
  <2>4. CASE data_version' # data_version
    <3> DEFINE w == [op |-> "offline", late |-> FALSE, row |-> to_record(device_map'[d])]
    <3>1. writes' = [writes EXCEPT ![s] = w] /\ device_map'[d].present /\ d \in Devices
          /\ device_map'[d] \in Entry
      BY <1>3, <1>5, <2>1, <2>2, <2>4, Zenon DEF EndSession, MemoryTyped
    <3>2. /\ to_record(device_map'[d]) = Image(device_map'[d]) /\ Image(device_map'[d]).present
          /\ Image(device_map'[d]) \in Record
      BY <3>1, ImageFacts, Zenon
    <3>3. w \in Write /\ w.op = "offline" /\ w.row = Image(device_map'[d])
      BY <3>2, Zenon DEF Write
    <3> HIDE DEF w
    <3>4. w.op # "none" /\ session'[s].phase = IF w.op = "confirm" THEN "pending" ELSE "gone"
      BY <1>3, <2>1, <2>2, <3>3, Zenon
    <3> HIDE DEF d
    <3> QED BY <1>3, <2>1, <2>2, <3>1, <3>2, <3>3, <3>4, WriteBegins, Zenon
  <2> QED BY <2>3, <2>4, Zenon
<1>6. ASSUME NEW new \in Ips, FastRegisterRow(s, new)
      PROVE  RowsKept' /\ Settling /\ MemoryTyped'
  <2>1. /\ Unlocked /\ Hold("save", {d}, s, to_record(device_map'[d]))
        /\ writes' = MarkLate(writes) /\ UNCHANGED <<rows, behind>>
        /\ FastRegisterAgain(s, new) \/ FastRegisterMove(s, new)
    BY <1>6, Zenon DEF FastRegisterRow, SaveAfter
  <2>2. CASE FastRegisterAgain(s, new)
    <3>1. /\ device_map' = device_map /\ device_map[d].present /\ admin = NoAdmin
          /\ session[s].phase = "confirmed"
      BY <2>2, Zenon DEF FastRegisterAgain, FastCaller, LockFree, Has, leaseVars
    <3>2. Quiet(s)
      BY <2>2, Zenon DEF Quiet
    <3>3. WritersStay
      BY <1>3, <3>1, <3>2, Zenon DEF WritersStay, RowsKept, WritesTrue
    <3>4. device_map'[d] \in Entry
      BY <1>0, <1>3, <3>1, <3>2, Zenon
    <3> HIDE DEF d
    <3> QED BY <1>3, <2>1, <3>1, <3>2, <3>3, <3>4, Saving, Zenon
  <2>3. CASE FastRegisterMove(s, new)
    <3>1. /\ MemoryTyped' /\ admin' = NoAdmin /\ session[s].phase = "confirmed"
          /\ \A t \in Sessions : t # s => session'[t] = session[t]
          /\ d \in Devices /\ device_map'[d] \in Entry /\ device_map'[d].present
          /\ \A e \in Devices : e # d => device_map'[e] = device_map[e]
      BY <2>3, MoveFoot, Zenon
    <3>2. WritersStay
      BY <3>1, Zenon DEF WritersStay, RowsKept, WritesTrue
    <3> HIDE DEF d
    <3> QED BY <2>1, <3>1, <3>2, Saving, Zenon
  <2> QED BY <2>1, <2>2, <2>3, Zenon
<1>7. CASE writes[s] = NoWrite /\ OtherSessionStep(s)
  <2>1. Quiet(s) /\ UNCHANGED <<rows, holding, behind, writes>> /\ writes[s].op = "none"
    BY <1>7 DEF OtherSessionStep, Quiet, rowVars, NoWrite
  <2>2. WritersStay
    BY <1>3, <2>1, Zenon DEF WritersStay
  <2> QED BY <1>0, <1>3, <2>1, <2>2, Unaltered, Zenon
<1> QED BY <1>1, <1>2, <1>4, <1>5, <1>6, <1>7, Zenon DEF SessionRowStep

\* No step leaves a row behind unnoticed.
LEMMA RowsStep ==
    ASSUME RowsKept, MemoryTyped, [RowsNext]_rowsVars
    PROVE  RowsKept' /\ Settling /\ MemoryTyped'
<1>0. /\ writes \in [Sessions -> Write] /\ \A e \in Devices : Img(e) \in Record
  BY ImageFacts, Zenon DEF RowsKept, RowsTyped, MemoryTyped, Img
<1>1. ASSUME UNCHANGED <<device_map, session, admin, rows, holding, behind, writes>>
      PROVE  RowsKept' /\ Settling
  <2>1. WritersStay /\ \A e \in Devices : Image(device_map'[e]) = Img(e)
    BY <1>1, Zenon DEF WritersStay, Img
  <2> QED BY <1>0, <1>1, <2>1, Unaltered, Zenon
<1>2. ASSUME UNCHANGED vars PROVE MemoryTyped' /\ UNCHANGED <<device_map, session, admin>>
  <2>1. UNCHANGED <<device_map, data_version, session, sender_map, managed, admin>>
    BY <1>2, Zenon DEF vars
  <2> QED BY <2>1, Zenon DEF MemoryTyped
<1>3. CASE OtherAdminStep \/ ManagedCommitRow
  <2>1. /\ UNCHANGED <<rows, holding, behind, writes>>
        /\ \/ \E ip \in Ips : DisconnectSubscription(ip)
           \/ \E d \in Devices : ManagedSnapshot(d)
           \/ ManagedCommit
    BY <1>3, Zenon DEF OtherAdminStep, ManagedCommitRow, rowVars
  <2>2. MemoryTyped' /\ UNCHANGED <<device_map, session, admin>>
    BY <2>1, OtherFoot, Zenon
  <2> QED BY <1>1, <2>1, <2>2, Zenon
<1>4. CASE ConfigDeleted
  <2>1. UNCHANGED vars /\ UNCHANGED <<rows, holding, behind, writes>>
    BY <1>4, Zenon DEF ConfigDeleted
  <2> QED BY <1>1, <1>2, <2>1, Zenon
<1>5. CASE DeleteCompletes \/ ReleaseCompletes
  <2>1. UNCHANGED vars
    BY <1>5, Zenon DEF DeleteCompletes, ReleaseCompletes
  <2> QED BY <1>0, <1>2, <1>5, <2>1, DeletionLands, ReleaseLands, Zenon
<1>6. CASE DeleteEnds
  <2>1. MemoryTyped'
    BY <1>2, <1>6, OtherFoot, Zenon DEF DeleteEnds
  <2> QED BY <1>6, <2>1, DeletionEnds, Zenon
<1>7. ASSUME NEW s \in Sessions, SpawnedCompletes(s) PROVE RowsKept' /\ Settling /\ MemoryTyped'
  <2>1. /\ UNCHANGED vars /\ writes[s].op # "none" /\ writes' = [writes EXCEPT ![s] = NoWrite]
        /\ Stored(session[s].device, writes[s].row, writes[s].late) /\ holding' = holding
    BY <1>7, Zenon DEF SpawnedCompletes
  <2>2. MemoryTyped' /\ UNCHANGED <<device_map, session, admin>>
    BY <1>2, <2>1, Zenon
  <2>3. \A d \in Devices : Image(device_map'[d]) = Img(d)
    BY <2>2, Zenon DEF Img
  <2> QED BY <1>0, <2>1, <2>2, <2>3, WriteLands, Zenon
<1>8. ASSUME NEW s \in Sessions, WriteFails(s) PROVE RowsKept' /\ Settling /\ MemoryTyped'
  BY <1>2, <1>8, WriteLost, Zenon DEF WriteFails
<1>9. CASE UNCHANGED rowsVars
  <2>1. UNCHANGED vars /\ UNCHANGED <<rows, holding, behind, writes>>
    BY <1>9, Zenon DEF rowsVars, rowVars
  <2> QED BY <1>1, <1>2, <2>1, Zenon
<1> QED BY <1>3, <1>4, <1>5, <1>6, <1>7, <1>8, <1>9, LockedRows, SessionRows, SaveLands, HoldFails,
      RestartRows, ReleaseNetworkRows, Zenon DEF RowsNext, DatabaseStep

\* A new network has no devices and no rows.
LEMMA RowsBegin ==
    ASSUME RowsInit
    PROVE  RowsKept /\ MemoryTyped
<1>1. /\ NoEntry \in Entry /\ ~NoEntry.present /\ NoSession \in Session /\ NoSession.phase = "none"
      /\ NoManaged \in Edit /\ NoManaged.ip = None /\ ~NoManaged.updated
      /\ NoAdmin \in [device : Devices \cup {None}, previous : Entry]
  BY Zenon DEF NoEntry, Entry, DeviceEntry, NoSession, Session, NoManaged, Edit, NoAdmin
<1>2. /\ NoHold \in HeldWrite /\ NoHold.op = "none" /\ NoHold.todo = {}
      /\ NoWrite \in Write /\ NoWrite.op = "none"
  BY NoRowIs, Zenon DEF NoHold, HeldWrite, NoWrite, Write
<1>3. MemoryTyped
  BY <1>1, Zenon DEF RowsInit, Init, MemoryTyped
<1>4. \A d \in Devices : Img(d) = NoRow /\ rows[d] = NoRow
  BY <1>1, Zenon DEF RowsInit, Init, Img, Image, NoRows
<1>5. RowsTyped /\ WritesTrue
  BY <1>2, NoRowIs, Zenon DEF RowsInit, RowsTyped, WritesTrue, NoRows
<1>6. HoldTrue /\ RowsTrue
  BY <1>2, <1>4, Zenon DEF RowsInit, Init, HoldTrue, RowsTrue, RowTrue
<1> QED BY <1>3, <1>5, <1>6, Zenon DEF RowsKept

-----------------------------------------------------------------------------
(* Addresses, over restarts and in the database.                            *)

\* The address in a true row is no other device's in memory, ...
RowsApart ==
    \A d \in Devices \ behind : \A e \in Devices :
        d # e /\ rows[d].ip # None => Img(e).ip # rows[d].ip

\* ... nor in another true row.
NoneShared ==
    \A d, e \in Devices \ behind : d # e /\ rows[d].ip # None => rows[d].ip # rows[e].ip

\* What holds until an edit is rolled back or a shared address is loaded.
Separate == restored \/ (LeasesHold /\ RowsApart /\ NoneShared)

\* Two devices' images have different addresses.
LEMMA ImagesApart ==
    ASSUME AddressExclusive, MemoryTyped
    PROVE  \A d, e \in Devices : d # e /\ Img(d).ip # None => Img(e).ip # Img(d).ip
<1>1. \A d \in Devices : device_map[d] \in Entry
  BY Zenon DEF MemoryTyped
<1>2. \A d \in Devices : Img(d).ip = device_map[d].ip \/ Img(d).ip = None
  BY <1>1, ImageFacts, NoRowIs, Zenon DEF Img
<1>3. \A d, e \in Devices : d # e /\ device_map[d].ip # None => device_map[e].ip # device_map[d].ip
  BY DEF AddressExclusive
<1> QED BY <1>2, <1>3, Zenon

\* A step that leaves the leases in order and the rows true keeps the rows apart.
LEMMA ApartAgain ==
    ASSUME MemoryTyped', RowsKept', LeasesHold', Settling, RowsApart, NoneShared
    PROVE  RowsApart' /\ NoneShared'
<1>1. \A d, e \in Devices : d # e /\ Image(device_map'[d]).ip # None =>
        Image(device_map'[e]).ip # Image(device_map'[d]).ip
  <2>1. AddressExclusive'
    BY Zenon DEF LeasesHold
  <2>2. (\A d, e \in Devices : d # e /\ Img(d).ip # None => Img(e).ip # Img(d).ip)'
    BY <2>1, ImagesApart, PTL
  <2> QED BY <2>2, Zenon DEF Img
<1>2. \A d \in Devices \ behind' : Settled(d)
  <2> SUFFICES ASSUME NEW d \in Devices \ behind' PROVE Settled(d)
    BY Zenon
  <2>1. CASE d \in holding'.todo /\ holding'.op # "deleted"
    BY <2>1, Zenon DEF Settling
  <2>2. CASE d \notin holding'.todo \/ holding'.op = "deleted"
    <3>1. rows'[d] = Image(device_map'[d])
      BY <2>2, Zenon DEF RowsKept, RowsTrue, RowTrue, Img
    <3> QED BY <3>1, Zenon DEF Settled
  <2> QED BY <2>1, <2>2, Zenon
<1>3. RowsApart'
  <2> SUFFICES ASSUME NEW d \in Devices \ behind', NEW e \in Devices, d # e, rows'[d].ip # None
               PROVE  Image(device_map'[e]).ip # rows'[d].ip
    BY Zenon DEF RowsApart, Img
  <2>1. CASE rows'[d] = Image(device_map'[d])
    BY <1>1, <2>1, Zenon
  <2>2. CASE /\ d \notin behind /\ rows'[d] = rows[d]
             /\ \A x \in Devices : x # d => Image(device_map'[x]).ip \in {Img(x).ip, None}
    <3>1. Img(e).ip # rows[d].ip
      BY <2>2, Zenon DEF RowsApart
    <3> QED BY <2>2, <3>1, Zenon
  <2> QED BY <1>2, <2>1, <2>2, Zenon DEF Settled
<1>4. NoneShared'
  <2> SUFFICES ASSUME NEW d \in Devices \ behind', NEW e \in Devices \ behind', d # e,
                      rows'[d].ip # None, rows'[d].ip = rows'[e].ip
               PROVE  FALSE
    BY Zenon DEF NoneShared
  <2>1. rows'[d] # Image(device_map'[d])
    BY <1>3, Zenon DEF RowsApart, Img
  <2>2. rows'[e] # Image(device_map'[e])
    BY <1>3, Zenon DEF RowsApart, Img
  <2>3. /\ d \notin behind /\ rows'[d] = rows[d] /\ e \notin behind /\ rows'[e] = rows[e]
    BY <1>2, <2>1, <2>2, Zenon DEF Settled
  <2> QED BY <2>3, Zenon DEF NoneShared
<1> QED BY <1>3, <1>4, Zenon

\* Every step but those that load the rows and the rollback is one of the network's own.
LEMMA LastingRows ==
    ASSUME [RowsNext]_rowsVars, ~RestoreRow, ~Restart, ~ReleaseNetwork
    PROVE  LastingStep /\ restored' = restored
<1>1. CASE LockedStep
  <2>1. ASSUME NEW s \in Sessions, NEW d \in Devices, NEW ct \in ClientTypes,
               NEW i \in Instances \cup {None}, NEW r \in Ips \cup {None}, NEW var \in BOOLEAN,
               NEW mode \in RegModes, RegisterRow(s, d, ct, i, r, var, mode)
        PROVE  RegisterStep /\ restored' = restored
    BY <2>1, Zenon DEF RegisterRow, RegisterStep, SaveAfter
  <2>2. ASSUME NEW d \in Devices, NEW ip \in Ips, NEW it \in IpTypes, NEW ct \in ClientTypes,
               NEW routes \in BOOLEAN, UpsertRow(d, ip, it, ct, routes)
        PROVE  LastingAdminStep /\ restored' = restored
    BY <2>2, Zenon DEF UpsertRow, LastingAdminStep, SaveAfter
  <2>3. ASSUME NEW d \in Devices, UpdateMetadataRow(d) \/ DeleteRow(d) \/ DeleteUnknownRow(d)
        PROVE  (LastingAdminStep \/ UNCHANGED vars) /\ restored' = restored
    BY <2>3, Zenon DEF UpdateMetadataRow, DeleteRow, DeleteUnknownRow, LastingAdminStep, SaveAfter
  <2>4. ASSUME NEW S \in SUBSET Devices, ReleaseRows(S)
        PROVE  LastingAdminStep /\ restored' = restored
    BY <2>4, Zenon DEF ReleaseRows, LastingAdminStep
  <2> QED BY <1>1, <2>1, <2>2, <2>3, <2>4, Zenon DEF LockedStep, LastingStep
<1>2. ASSUME NEW s \in Sessions, SessionRowStep(s) PROVE LastingStep /\ restored' = restored
  <2>1. restored' = restored
    BY <1>2, Zenon DEF SessionRowStep, ConfirmBegins, Confirm, EndSession, EndPending, FastRegisterRow,
      SaveAfter, OtherSessionStep, rowVars
  <2>2. SessionStep(s) \/ UNCHANGED vars
    BY <1>2, Zenon DEF SessionRowStep, ConfirmBegins, Confirm, EndSession, EndPending, FastRegisterRow,
      OtherSessionStep, SessionStep
  <2> QED BY <2>1, <2>2, Zenon DEF LastingStep
<1>3. CASE OtherAdminStep \/ ManagedCommitRow
  <2>1. LastingAdminStep
    BY <1>3, Zenon DEF OtherAdminStep, ManagedCommitRow, LastingAdminStep
  <2>2. restored' = restored
    BY <1>3, Zenon DEF OtherAdminStep, ManagedCommitRow, rowVars
  <2> QED BY <2>1, <2>2, Zenon DEF LastingStep
<1>4. CASE DatabaseStep
  <2>1. restored' = restored
    BY <1>4, Zenon DEF DatabaseStep, ConfigDeleted, SaveCompletes, DeleteCompletes, DeleteEnds,
      ReleaseCompletes, HeldFails, SpawnedCompletes, WriteFails
  <2>2. \/ UNCHANGED vars \/ UpsertSaved \/ UpsertSaveFails
        \/ \E ip \in Ips : DisconnectSubscription(ip)
    BY <1>4, Zenon DEF DatabaseStep, ConfigDeleted, SaveCompletes, DeleteCompletes, DeleteEnds,
      ReleaseCompletes, HeldFails, SpawnedCompletes, WriteFails
  <2> QED BY <2>1, <2>2, Zenon DEF LastingStep, LastingAdminStep
<1>5. CASE UNCHANGED rowsVars
  BY <1>5, Zenon DEF rowsVars, rowVars, LastingStep
<1> QED BY <1>1, <1>2, <1>3, <1>4, <1>5, Zenon DEF RowsNext

\* The rows that are loaded without a shared address make a book of leases again.
LEMMA LoadedExclusive ==
    ASSUME NEW R \in [Devices -> Record], Load(R), ~Shared(R)
    PROVE  AddressExclusive'
<1> USE NetworkAssumption
<1>1. /\ device_map' = [d \in Devices |-> from_record(R[d])]
      /\ active_ip_map' = [ip \in Ips |-> None] /\ device_ip_map' \in [Ips -> Devices \cup {None}]
  BY Zenon DEF Load
<1>2. \A d \in Devices : device_map'[d].ip = R[d].ip /\ R[d].ip \in Usable \cup {None}
  BY <1>1, Zenon DEF from_record, NoEntry, Record
<1>3. \A ip \in Ips : LET D == {d \in Devices : R[d].ip = ip /\ ip \in Usable}
                      IN  IF D = {} THEN device_ip_map'[ip] = None ELSE device_ip_map'[ip] \in D
  BY Zenon DEF Load
<1>4. \A ip \in Ips : device_ip_map'[ip] # None =>
        device_ip_map'[ip] \in Devices /\ R[device_ip_map'[ip]].ip = ip
  BY <1>3, Zenon
<1>5. ASSUME NEW d \in Devices, R[d].ip # None
      PROVE  R[d].ip \in Usable /\ device_ip_map'[R[d].ip] = d
  <2>1. R[d].ip \in Usable /\ R[d].ip \in Ips /\ R[d].ip # None
    BY <1>2, <1>5, Zenon
  <2>2. d \in {e \in Devices : R[e].ip = R[d].ip /\ R[d].ip \in Usable}
    BY <2>1, Zenon
  <2>3. device_ip_map'[R[d].ip] \in Devices /\ R[device_ip_map'[R[d].ip]].ip = R[d].ip
    BY <1>3, <2>1, <2>2, Zenon
  <2> QED BY <1>5, <2>1, <2>3, Zenon DEF Shared
<1>6. \A ip \in Ips : active_ip_map'[ip] = None
  BY <1>1, Zenon
<1> QED BY <1>2, <1>4, <1>5, <1>6, Zenon DEF AddressExclusive

\* So it is after a restart, and after a network is loaded again.
LEMMA LoadedLeases ==
    ASSUME MemoryTyped', RowsKept, Loads, ~restored', admin' = NoAdmin,
           links' \in [Sessions -> SUBSET Sessions],
           \A p \in Sessions : \A s \in links'[p] : session'[s].phase # "none",
           \A s \in Sessions : session'[s].phase \in {"none", "gone"}
    PROVE  LeasesHold'
<1> USE NetworkAssumption
<1>1. /\ device_ip_map' \in [Ips -> Devices \cup {None}] /\ active_ip_map' = [ip \in Ips |-> None]
      /\ full_sync_version' = 0 /\ sender_map' = [ip \in Ips |-> None]
      /\ traffic_stats_map' = [ip \in Ips |-> None]
  BY Zenon DEF Loads, Load
<1>2. AddressExclusive'
  <2>1. rows \in [Devices -> Record] /\ NoRows \in [Devices -> Record]
    BY NoRowIs, Zenon DEF RowsKept, RowsTyped, NoRows
  <2>2. (Load(rows) /\ ~Shared(rows)) \/ (Load(NoRows) /\ ~Shared(NoRows))
    BY Zenon DEF Loads, Load
  <2> QED BY <2>1, <2>2, LoadedExclusive, Zenon
<1>3. \A ip \in Ips : active_ip_map'[ip] = None /\ sender_map'[ip] = None
  BY <1>1, Zenon
<1>4. TypeOK'
  <2>1. /\ device_map' \in [Devices -> DeviceEntry]
        /\ admin' \in [device : Devices \cup {None}, previous : DeviceEntry]
    BY Zenon DEF MemoryTyped, Entry
  <2>2. managed' \in Edit /\ data_version' \in Nat /\ session' \in [Sessions -> Session]
    BY Zenon DEF MemoryTyped
  <2>3. /\ active_ip_map' \in [Ips -> Devices \cup {None}] /\ full_sync_version' \in Nat
        /\ sender_map' \in [Ips -> Sessions \cup {None}]
        /\ traffic_stats_map' \in [Ips -> Devices \cup {None}]
    BY <1>1, Zenon
  <2> QED BY <1>1, <2>1, <2>2, <2>3, Zenon DEF TypeOK, Edit
<1>5. SessionsNamed' /\ LinksRegistered'
  BY <1>3, Zenon DEF SessionsNamed, LinksRegistered
<1>6. PublishedOnce' /\ SingleLease' /\ PoolsMatchLeases'
  BY <1>3, Zenon DEF PublishedOnce, SingleLease, PoolsMatchLeases
<1>7. EditRevertible'
  BY Zenon DEF EditRevertible, NoAdmin, NoEntry
<1> QED BY <1>2, <1>4, <1>5, <1>6, <1>7, Zenon DEF LeasesHold

\* The rows stay apart.
LEMMA SeparateStep ==
    ASSUME RowsKept, MemoryTyped, Separate, [RowsNext]_rowsVars
    PROVE  Separate'
<1>1. RowsKept' /\ Settling /\ MemoryTyped'
  BY RowsStep, Zenon
<1> SUFFICES ASSUME ~restored' PROVE LeasesHold' /\ RowsApart' /\ NoneShared'
  BY Zenon DEF Separate
<1>2. ~RestoreRow
  BY Zenon DEF RestoreRow
<1>3. CASE Restart
  <2>1. ~restored
    BY <1>3, Zenon DEF Restart, Loads, Load
  <2>2. /\ links' = [p \in Sessions |-> {}] /\ admin' = NoAdmin /\ Loads
        /\ session' = [s \in Sessions |-> IF session[s].phase = "none" THEN NoSession ELSE Closed(s)]
    BY <1>3, Zenon DEF Restart
  <2>3. \A s \in Sessions : session'[s].phase \in {"none", "gone"}
    BY <2>2, Zenon DEF Closed, NoSession, MemoryTyped, Session
  <2>4. /\ links' \in [Sessions -> SUBSET Sessions]
        /\ \A p \in Sessions : \A s \in links'[p] : session'[s].phase # "none"
    BY <2>2, Zenon
  <2>5. LeasesHold'
    BY <1>1, <2>2, <2>3, <2>4, LoadedLeases, Zenon
  <2> QED BY <1>1, <2>1, <2>5, ApartAgain, Zenon DEF Separate
<1>4. CASE ReleaseNetwork
  <2>1. ~restored /\ Loads
    BY <1>4, Zenon DEF ReleaseNetwork, Loads, Load
  <2>2. LeasesHold /\ RowsApart /\ NoneShared
    BY <2>1, Zenon DEF Separate
  <2>3. /\ UNCHANGED <<links, session, admin>> /\ admin = NoAdmin
        /\ \A s \in Sessions : session[s].phase \in {"none", "gone"}
    BY <1>4, Zenon DEF ReleaseNetwork, LockFree
  <2>4. /\ links \in [Sessions -> SUBSET Sessions]
        /\ \A p \in Sessions : \A s \in links[p] : session[s].phase # "none"
    BY <2>2, Zenon DEF LeasesHold, TypeOK, LinksRegistered
  <2>5. LeasesHold'
    BY <1>1, <2>1, <2>3, <2>4, LoadedLeases, Zenon
  <2> QED BY <1>1, <2>2, <2>5, ApartAgain, Zenon
<1>5. CASE ~Restart /\ ~ReleaseNetwork
  <2>1. LastingStep /\ restored' = restored
    BY <1>2, <1>5, LastingRows, Zenon
  <2>2. LeasesHold /\ RowsApart /\ NoneShared
    BY <2>1, Zenon DEF Separate
  <2>3. LeasesHold'
    BY <2>1, <2>2, StepKeepsLeases, Zenon
  <2> QED BY <1>1, <2>2, <2>3, ApartAgain, Zenon
<1> QED BY <1>3, <1>4, <1>5, Zenon

\* A new network's leases are in order and its rows are empty.
LEMMA SeparateBegin ==
    ASSUME RowsInit
    PROVE  Separate
<1>1. LeasesHold
  BY InitInvariant, LeaseParts, Zenon DEF RowsInit
<1>2. \A d \in Devices : rows[d].ip = None
  BY NoRowIs, Zenon DEF RowsInit, NoRows
<1> QED BY <1>1, <1>2, Zenon DEF Separate, RowsApart, NoneShared

\* The rows, the memory and the leases together.
THEOREM RowsInductive == RowsSpec => [](RowsKept /\ MemoryTyped /\ Separate)
<1>1. RowsInit => RowsKept /\ MemoryTyped /\ Separate
  BY RowsBegin, SeparateBegin, Zenon
<1>2. RowsKept /\ MemoryTyped /\ Separate /\ [RowsNext]_rowsVars
        => RowsKept' /\ MemoryTyped' /\ Separate'
  BY RowsStep, SeparateStep, Zenon
<1> QED BY <1>1, <1>2, PTL DEF RowsSpec

\* Whatever is registered, moved, edited, deleted and released, and whatever fails or stops
\* in between, every row the code has not let fall behind is what memory says of its device,
\* unless the operation that holds the mutation lock is just about to write it.
THEOREM RowsCurrentAlways == RowsSpec => []RowsCurrent
<1>1. RowsKept => RowsCurrent
  BY Zenon DEF RowsKept, RowsTrue, RowTrue, RowsCurrent, Img
<1> QED BY <1>1, RowsInductive, PTL

\* An address in the rows has one owner at every moment, writes in flight included: until an
\* edit is rolled back or a shared address loaded, two rows with one address mean that one of
\* the two devices had fallen behind, because the mutation lock is held until the row that
\* gave the address up is rewritten.
THEOREM RowsExclusiveAlways == RowsSpec => []RowsExclusive
<1>1. Separate => RowsExclusive
  BY Zenon DEF Separate, NoneShared, RowsExclusive
<1> QED BY <1>1, RowsInductive, PTL

\* Crashes, restarts and reloads at any moment included, an address in memory has one owner
\* as long as no managed edit was rolled back and no two rows loaded shared an address.
THEOREM ExclusiveOverRestartsAlways == RowsSpec => []ExclusiveOverRestarts
<1>1. Separate => ExclusiveOverRestarts
  BY Zenon DEF Separate, LeasesHold, ExclusiveOverRestarts
<1> QED BY <1>1, RowsInductive, PTL
=============================================================================
