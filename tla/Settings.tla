------------------------------ MODULE Settings ------------------------------
(***************************************************************************)
(* The settings of the server: the configuration file, the managed IKEv2    *)
(* certificate files, the two tunnel services and the lists that run from   *)
(* them, and the rows of the devices that inherit the traffic servers.  The *)
(* administrator's four update handlers share config_update_lock.  Each     *)
(* saves first and applies then, and undoes both when applying fails; the   *)
(* process may stop between any two writes and is started again from what   *)
(* the files hold.                                                          *)
(***************************************************************************)
EXTENDS Naturals, Sequences

CONSTANTS
    Nil,            \* no file, section or value
    Torn,           \* the content of a file whose writing was cut short
    Binds,          \* listening addresses an administrator tries
    WgBinds,        \* those tried for WireGuard
    RemoteIds,      \* values of ikev2.remote_id
    CustomIds,      \* those the administrator's own certificate is issued for
    Codes,          \* network codes for the white list
    Servers,        \* lists of traffic servers (Nil: the empty one)
    WgKeys,         \* private keys generated for WireGuard
    BodyCerts,      \* certificates an administrator asks for ("none": to be generated)
    CertKeys,       \* private keys generated for certificates
    MaxFaults       \* bound: how often a write fails, an engine dies or the process stops

WireGuardConfig == [enabled : BOOLEAN, bind : WgBinds, key : WgKeys \cup {Nil}]
Ikev2Config == [enabled : BOOLEAN, bind : Binds, id : RemoteIds,
                cert : {"none", "managed", "custom"}]
Certificates == [id : RemoteIds, key : CertKeys, issuer : CertKeys, old : BOOLEAN]

ASSUME SettingsAssumption ==
    /\ WgBinds \subseteq Binds
    /\ CustomIds \subseteq RemoteIds
    /\ BodyCerts \subseteq {"none", "managed", "custom"}
    /\ MaxFaults \in Nat
    /\ WgKeys # {} /\ CertKeys # {}
    \* a key can always be generated that none of the files has
    /\ \A a, b, c, d, e, f \in CertKeys : \E k \in CertKeys : k \notin {a, b, c, d, e, f}
    /\ Nil \notin WireGuardConfig \cup Ikev2Config /\ Nil # Torn
    /\ {Nil, Torn} \cap (CertKeys \cup Certificates) = {}

VARIABLES
    file,       \* the sections of the configuration file
    disk,       \* the four files of the managed certificate
    up,         \* the process has started
    manager,    \* service -> its handle is registered
    engine,     \* service -> the configuration its running engine uses, or Nil
    error,      \* service -> a runtime error is reported
    white_list, \* the white list registrations are checked against
    client_access, \* the traffic servers new subscriptions get
    inherited,  \* the traffic servers in the rows of the devices that inherit them
    busy,       \* addresses other programs hold
    request,    \* the service update, or the start, under way
    saving,     \* the update of a list under way
    lossy,      \* history: what could not be put back, or was lost with the process
    faults

memory == <<up, manager, engine, error, white_list, client_access>>
settingsVars == <<file, disk, memory, inherited, busy, request, saving, lossy, faults>>

Services == {"wireguard", "ikev2"}

NoRequest == [op |-> "none", step |-> "none", cand |-> Nil, text |-> Nil,
              backup |-> Nil, todo |-> <<>>]
NoSaving == [op |-> "none", step |-> "none", value |-> Nil, previous |-> Nil]

\* mutant: each handler has a lock of its own
LockFreeOf(op) == IF op \in Services THEN request = NoRequest ELSE saving = NoSaving

\* config_update_lock
LockFree(op) == request = NoRequest /\ saving = NoSaving

Enabled(c) == c # Nil /\ c.enabled

Fault == faults < MaxFaults /\ faults' = faults + 1
-----------------------------------------------------------------------------
(* The managed certificate.  A file is absent (Nil), torn by a write that  *)
(* did not finish, or complete.                                             *)

Whole(f) == f \notin {Nil, Torn}

certificate_matches_remote_id(cert, id) == cert.id = id

\* certificate_needs_renewal, and the tests around it: the private key is only required
\* to exist.
Renew(d, id) ==
    \/ ~Whole(d.cert)
    \/ d.key = Nil
    \/ ~certificate_matches_remote_id(d.cert, id)
    \/ d.cert.old

NoCa(d) == d.ca = Nil \/ d.cakey = Nil
CaReadable(d) == NoCa(d) \/ (Whole(d.ca) /\ Whole(d.cakey))

KeysOf(d) == {d.key, d.ca, d.cakey} \cup
             IF Whole(d.cert) THEN {d.cert.key, d.cert.issuer} ELSE {}
Fresh(D) == CHOOSE k \in CertKeys : \A d \in D : k \notin KeysOf(d)

\* mutant: every certificate is signed by a new CA, which is written only the first time
generate_with_new_ca(d, id) ==
    LET k == Fresh({d})
        s == Fresh({d, [cert |-> Nil, key |-> k, ca |-> Nil, cakey |-> Nil]})
        cert == [id |-> id, key |-> s, issuer |-> k, old |-> FALSE]
    IN  IF NoCa(d) THEN <<<<"ca", k>>, <<"cakey", k>>, <<"cert", cert>>, <<"key", s>>>>
        ELSE <<<<"cert", cert>>, <<"key", s>>>>

\* generate_managed_certificate: the files it writes, in its order.
generate_managed_certificate(d, id) ==
    LET k == Fresh({d})
        s == Fresh({d, [cert |-> Nil, key |-> k, ca |-> Nil, cakey |-> Nil]})
        issuer == IF NoCa(d) THEN k ELSE d.cakey
        cert == [id |-> id, key |-> s, issuer |-> issuer, old |-> FALSE]
    IN  IF NoCa(d) THEN <<<<"ca", k>>, <<"cakey", k>>, <<"cert", cert>>, <<"key", s>>>>
        ELSE <<<<"cert", cert>>, <<"key", s>>>>

\* prepare_certificate: what it writes for c when the files are d ...
prepare_certificate(c, d) ==
    IF c.enabled /\ c.cert # "custom" /\ Renew(d, c.id)
    THEN generate_managed_certificate(d, c.id) ELSE <<>>

\* ... unless the CA it has to read cannot be read ...
Preparable(c, d) ==
    c.enabled /\ c.cert # "custom" /\ Renew(d, c.id) => CaReadable(d)

is_managed_certificate(c) == c # Nil /\ c.cert = "managed"

\* ... and the configuration it leaves.
Prepared(c) == IF c.enabled /\ c.cert = "none" THEN [c EXCEPT !.cert = "managed"] ELSE c

\* load_certificate: the certificate names remote_id and the key is its own.
load_certificate(c, d) ==
    \/ c.cert = "none"
    \/ c.cert = "custom" /\ c.id \in CustomIds
    \/ /\ is_managed_certificate(c)
       /\ Whole(d.cert) /\ Whole(d.key)
       /\ certificate_matches_remote_id(d.cert, c.id)
       /\ d.cert.key = d.key

backup_managed_certificate_files == disk

\* mutant: a file that was not there before is not removed again
restore_existing(b) ==
    SelectSeq(<<<<"cert", b.cert>>, <<"key", b.key>>, <<"ca", b.ca>>, <<"cakey", b.cakey>>>>,
              LAMBDA w : w[2] # Nil)

\* mutant: the private key is not part of the backup
restore_without_key(b) == <<<<"cert", b.cert>>, <<"ca", b.ca>>, <<"cakey", b.cakey>>>>

\* ManagedCertificateBackup::restore
restore(b) == <<<<"cert", b.cert>>, <<"key", b.key>>, <<"ca", b.ca>>, <<"cakey", b.cakey>>>>
-----------------------------------------------------------------------------
(* Starting and stopping an engine.                                         *)

\* start binds the sockets and, for IKEv2, loads the certificate.
Starts(x, c) ==
    /\ c.bind \notin busy
    /\ \A y \in Services : engine[y] # Nil => engine[y].bind # c.bind
    /\ x = "ikev2" => load_certificate(c, disk)

Run(x, c) ==
    /\ engine' = [engine EXCEPT ![x] = c]
    /\ manager' = [manager EXCEPT ![x] = TRUE]

Withdraw(x) ==
    /\ engine' = [engine EXCEPT ![x] = Nil]
    /\ manager' = [manager EXCEPT ![x] = FALSE]

Lists == <<white_list, client_access, inherited>>

Goto(step) == request' = [request EXCEPT !.step = step]
At(op, step) == request.op = op /\ request.step = step

\* The end of an update of x, and the runtime error it reports or withdraws.
Ends(x, failed) ==
    /\ request' = NoRequest
    /\ error' = [error EXCEPT ![x] = failed]

\* The file is replaced by a rename: it has the old content or the new.
persist_config_text(text) == file' = text

\* An update rewrites one section and keeps the rest of the text.
update_wireguard_config(c) == persist_config_text([file EXCEPT !.wireguard = c])
update_ikev2_config(c) == persist_config_text([file EXCEPT !.ikev2 = c])
update_white_list(C) == persist_config_text([file EXCEPT !.white_list = C])
update_client_access_config(v) == persist_config_text([file EXCEPT !.client_access = v])
-----------------------------------------------------------------------------
(* update_wireguard_settings.                                               *)

\* The key is generated once and kept.
UpdateWireguard(b, k) ==
    LET previous == file.wireguard
        key == IF previous # Nil /\ previous.key # Nil THEN previous.key ELSE k
        cand == [b EXCEPT !.key = key]
    IN  /\ up /\ LockFree("wireguard")
        /\ update_wireguard_config(cand)
        /\ request' = [NoRequest EXCEPT !.op = "wireguard", !.step = "stop",
                                        !.cand = cand, !.text = file]
        /\ UNCHANGED <<disk, memory, inherited, busy, saving, lossy, faults>>

WireguardStop ==
    /\ At("wireguard", "stop")
    /\ Withdraw("wireguard")
    /\ Goto("start")
    /\ UNCHANGED <<file, disk, up, error, Lists, busy, saving, lossy, faults>>

WireguardStart ==
    /\ At("wireguard", "start")
    /\ IF ~request.cand.enabled
       THEN Ends("wireguard", FALSE) /\ UNCHANGED <<engine, manager>>
       ELSE IF Starts("wireguard", request.cand)
            THEN Run("wireguard", request.cand) /\ Ends("wireguard", FALSE)
            ELSE Goto("text") /\ UNCHANGED <<engine, manager, error>>
    /\ lossy' = lossy \ IF request'.step = "none" THEN {"wireguard"} ELSE {}
    /\ UNCHANGED <<file, disk, up, Lists, busy, saving, faults>>

\* The former text is written back; a failure of that is ignored.
WireguardText ==
    /\ At("wireguard", "text")
    /\ \/ persist_config_text(request.text) /\ UNCHANGED <<lossy, faults>>
       \/ Fault /\ lossy' = lossy \cup {"wireguard"} /\ UNCHANGED file
    /\ Goto("again")
    /\ UNCHANGED <<disk, memory, inherited, busy, saving>>

WireguardAgain ==
    LET previous == request.text.wireguard
    IN  /\ At("wireguard", "again")
        /\ IF Enabled(previous) /\ Starts("wireguard", previous)
           THEN Run("wireguard", previous) ELSE UNCHANGED <<engine, manager>>
        /\ Ends("wireguard", TRUE)
        /\ lossy' = IF Enabled(previous) /\ ~Starts("wireguard", previous)
                    THEN lossy \cup {"wireguard"} ELSE lossy
        /\ UNCHANGED <<file, disk, up, Lists, busy, saving, faults>>
-----------------------------------------------------------------------------
(* update_ikev2_settings.                                                   *)

\* A service that is switched off keeps its managed certificate.
merge_ikev2_service(b) ==
    IF ~b.enabled /\ b.cert = "none" /\ is_managed_certificate(file.ikev2)
    THEN [b EXCEPT !.cert = "managed"] ELSE b

UpdateIkev2(b) ==
    LET cand == merge_ikev2_service(b)
    IN  /\ up /\ LockFree("ikev2")
        /\ request' = [op |-> "ikev2", cand |-> Prepared(cand),
                       text |-> file,
                       backup |-> backup_managed_certificate_files,
                       step |-> IF Preparable(cand, disk) THEN "files" ELSE "restore",
                       todo |-> IF Preparable(cand, disk)
                                THEN prepare_certificate(cand, disk) ELSE restore(disk)]
        /\ UNCHANGED <<file, disk, memory, inherited, busy, saving, lossy, faults>>

\* One file of a new certificate, or of the backup, is written.
WriteFile ==
    /\ request.todo # <<>>
    /\ disk' = [disk EXCEPT ![Head(request.todo)[1]] = Head(request.todo)[2]]
    /\ request' = IF request.step = "restore" /\ Len(request.todo) = 1 THEN NoRequest
                  ELSE [request EXCEPT !.todo = Tail(@)]
    /\ UNCHANGED <<file, memory, inherited, busy, saving, lossy, faults>>

\* Or cannot be.  A new certificate is given up and the backup put back, in the start of
\* the process nothing is; the backup is given up at once.
WriteFails ==
    /\ Fault
    /\ request.todo # <<>>
    /\ \/ UNCHANGED disk
       \/ disk' = [disk EXCEPT ![Head(request.todo)[1]] = Torn]
    /\ IF request.op = "ikev2" /\ request.step = "files"
       THEN /\ request' = [request EXCEPT !.step = "restore",
                                          !.todo = restore(request.backup)]
            /\ UNCHANGED lossy
       ELSE request' = NoRequest /\ lossy' = lossy \cup {"certificate"}
    /\ UNCHANGED <<file, memory, inherited, busy, saving>>

GiveUp == request' = [request EXCEPT !.step = "restore", !.todo = restore(request.backup)]

\* validate_runtime_config and persist_ikev2_config.
Ikev2Save ==
    /\ At("ikev2", "files") /\ request.todo = <<>>
    /\ \/ /\ load_certificate(request.cand, disk)
          /\ update_ikev2_config(request.cand)
          /\ Goto("apply")
          /\ UNCHANGED faults
       \/ /\ ~load_certificate(request.cand, disk)
          /\ GiveUp
          /\ UNCHANGED <<file, faults>>
       \/ Fault /\ GiveUp /\ UNCHANGED file
    /\ UNCHANGED <<disk, memory, inherited, busy, saving, lossy>>

Bound(c, x) == c.bind # x.bind

\* apply_ikev2_runtime, up to its first start.
Ikev2Apply ==
    LET previous == request.text.ikev2
        cand == request.cand
    IN  /\ At("ikev2", "apply")
        /\ \/ /\ previous = cand
              /\ Ends("ikev2", FALSE)
              /\ UNCHANGED <<engine, manager, lossy>>
           \/ /\ previous # cand /\ ~cand.enabled
              /\ Withdraw("ikev2")
              /\ Ends("ikev2", FALSE)
              /\ lossy' = lossy \ {"ikev2"}
           \/ /\ previous # cand /\ cand.enabled
              /\ manager["ikev2"] /\ previous # Nil /\ Bound(previous, cand)
              /\ Withdraw("ikev2")
              /\ Goto("start")
              /\ UNCHANGED <<error, lossy>>
           \/ /\ previous # cand /\ cand.enabled
              /\ manager["ikev2"] /\ (previous = Nil \/ ~Bound(previous, cand))
              /\ IF engine["ikev2"] # Nil   \* reload_network_config keeps the sockets
                 THEN /\ Run("ikev2", [cand EXCEPT !.bind = engine["ikev2"].bind])
                      /\ Ends("ikev2", FALSE)
                      /\ lossy' = IF Bound(engine["ikev2"], cand) THEN lossy
                                  ELSE lossy \ {"ikev2"}
                 ELSE /\ Withdraw("ikev2")
                      /\ Goto("again")
                      /\ UNCHANGED <<error, lossy>>
           \/ /\ previous # cand /\ cand.enabled
              /\ ~manager["ikev2"]
              /\ Goto("fresh")
              /\ UNCHANGED <<engine, manager, error, lossy>>
        /\ UNCHANGED <<file, disk, up, Lists, busy, saving, faults>>

\* The first start, with or without a former service to go back to.
Ikev2Start ==
    /\ request.op = "ikev2" /\ request.step \in {"start", "fresh"}
    /\ IF Starts("ikev2", request.cand)
       THEN /\ Run("ikev2", request.cand)
            /\ Ends("ikev2", FALSE)
            /\ lossy' = lossy \ {"ikev2"}
       ELSE /\ Goto(IF request.step = "start" THEN "again" ELSE "text")
            /\ UNCHANGED <<engine, manager, error, lossy>>
    /\ UNCHANGED <<file, disk, up, Lists, busy, saving, faults>>

\* The former service is started again, from the files as they are now.
Ikev2Again ==
    LET previous == request.text.ikev2
        ok == Enabled(previous) /\ Starts("ikev2", previous)
    IN  /\ At("ikev2", "again")
        /\ IF ok THEN Run("ikev2", previous) ELSE UNCHANGED <<engine, manager>>
        /\ lossy' = IF Enabled(previous) /\ ~ok THEN lossy \cup {"ikev2"} ELSE lossy
        /\ Goto("text")
        /\ UNCHANGED <<file, disk, up, error, Lists, busy, saving, faults>>

\* mutant: the configuration that could not be applied stays in the file
Ikev2TextKept ==
    /\ At("ikev2", "text")
    /\ GiveUp
    /\ error' = [error EXCEPT !["ikev2"] = TRUE]
    /\ UNCHANGED <<file, disk, up, engine, manager, Lists, busy, saving, lossy, faults>>

Ikev2Text ==
    /\ At("ikev2", "text")
    /\ \/ persist_config_text(request.text) /\ UNCHANGED <<lossy, faults>>
       \/ Fault /\ lossy' = lossy \cup {"ikev2"} /\ UNCHANGED file
    /\ GiveUp
    /\ error' = [error EXCEPT !["ikev2"] = TRUE]
    /\ UNCHANGED <<disk, up, engine, manager, Lists, busy, saving>>
-----------------------------------------------------------------------------
(* update_network_whitelist and update_client_access.                       *)

UpdateWhiteList(C) ==
    /\ up /\ LockFree("white")
    /\ update_white_list(C)
    /\ saving' = [op |-> "white", step |-> "memory", value |-> C, previous |-> Nil]
    /\ UNCHANGED <<disk, memory, inherited, busy, request, lossy, faults>>

UpdateClientAccess(v) ==
    /\ up /\ LockFree("access")
    /\ update_client_access_config(v)
    /\ saving' = [op |-> "access", step |-> "memory", value |-> v,
                  previous |-> client_access]
    /\ UNCHANGED <<disk, memory, inherited, busy, request, lossy, faults>>

WhiteListApplied ==
    /\ saving.op = "white"
    /\ white_list' = saving.value
    /\ saving' = NoSaving
    /\ UNCHANGED <<file, disk, up, manager, engine, error, client_access, inherited, busy,
                   request, lossy, faults>>

\* The rows follow only when the list differs from the one in memory.
ClientAccessApplied ==
    /\ saving.op = "access" /\ saving.step = "memory"
    /\ client_access' = saving.value
    /\ saving' = IF saving.previous = saving.value THEN NoSaving
                 ELSE [saving EXCEPT !.step = "rows"]
    /\ UNCHANGED <<file, disk, up, manager, engine, error, white_list, inherited, busy,
                   request, lossy, faults>>

\* update_inherited_traffic_servers is one transaction: it commits ...
RowsUpdated ==
    /\ saving.op = "access" /\ saving.step = "rows"
    /\ inherited' = saving.value
    /\ saving' = NoSaving
    /\ lossy' = lossy \ {"access"}
    /\ UNCHANGED <<file, disk, memory, busy, request, faults>>

\* ... or fails, and memory and then the file go back.  The records to push are read after
\* the commit: when that fails the rows have changed all the same.
RowsFail ==
    /\ saving.op = "access" /\ saving.step = "rows"
    /\ \/ UNCHANGED <<inherited, lossy, faults>>
       \/ Fault /\ inherited' = saving.value /\ lossy' = lossy \cup {"access"}
    /\ client_access' = saving.previous
    /\ saving' = [saving EXCEPT !.step = "undo"]
    /\ UNCHANGED <<file, disk, up, manager, engine, error, white_list, busy, request>>

ClientAccessUndone ==
    /\ saving.op = "access" /\ saving.step = "undo"
    /\ \/ /\ update_client_access_config(saving.previous)
          /\ UNCHANGED <<lossy, faults>>
       \/ Fault /\ lossy' = lossy \cup {"access"} /\ UNCHANGED file
    /\ saving' = NoSaving
    /\ UNCHANGED <<disk, memory, inherited, busy, request>>
-----------------------------------------------------------------------------
(* The process.                                                             *)

\* main: the certificate is prepared before anything is started.
Boot ==
    LET c == file.ikev2
    IN  /\ ~up /\ LockFree("boot")
        /\ Enabled(c) => Preparable(c, disk)
        /\ request' = [NoRequest EXCEPT
                         !.op = "boot", !.step = "files", !.text = file,
                         !.cand = IF Enabled(c) THEN Prepared(c) ELSE c,
                         !.todo = IF Enabled(c) THEN prepare_certificate(c, disk) ELSE <<>>]
        /\ UNCHANGED <<file, disk, memory, inherited, busy, saving, lossy, faults>>

\* A configuration that preparation changed is saved.  An error of any step of main ends
\* the process.
BootIkev2 ==
    /\ At("boot", "files") /\ request.todo = <<>>
    /\ \/ /\ Enabled(request.cand) => load_certificate(request.cand, disk)
          /\ update_ikev2_config(request.cand)
          /\ Goto("key")
          /\ UNCHANGED faults
       \/ /\ Enabled(request.cand) /\ ~load_certificate(request.cand, disk)
          /\ request' = NoRequest
          /\ UNCHANGED <<file, faults>>
       \/ /\ Fault /\ request.cand # file.ikev2
          /\ request' = NoRequest
          /\ UNCHANGED file
    /\ UNCHANGED <<disk, memory, inherited, busy, saving, lossy>>

BootWireguard(k) ==
    LET c == file.wireguard
    IN  /\ At("boot", "key")
        /\ \/ /\ IF Enabled(c) /\ c.key = Nil
                 THEN update_wireguard_config([c EXCEPT !.key = k]) ELSE UNCHANGED file
              /\ Goto("start")
              /\ UNCHANGED faults
           \/ /\ Fault /\ Enabled(c) /\ c.key = Nil
              /\ request' = NoRequest
              /\ UNCHANGED file
        /\ UNCHANGED <<disk, memory, inherited, busy, saving, lossy>>

Wanted(f) == [x \in Services |-> IF Enabled(f[x]) THEN f[x] ELSE Nil]

\* IKEv2 is started first; an address of WireGuard's that it holds is taken by then.
BootStart ==
    LET w == Wanted(file)
    IN  /\ At("boot", "start")
        /\ request' = NoRequest
        /\ IF /\ \A x \in Services : w[x] # Nil => Starts(x, w[x])
              /\ w["ikev2"] # Nil /\ w["wireguard"] # Nil => Bound(w["ikev2"], w["wireguard"])
           THEN /\ up' = TRUE
                /\ engine' = w
                /\ manager' = [x \in Services |-> w[x] # Nil]
                /\ white_list' = file.white_list
                /\ client_access' = file.client_access
                /\ lossy' = lossy \ Services
           ELSE UNCHANGED <<up, engine, manager, white_list, client_access, lossy>>
        /\ UNCHANGED <<file, disk, error, inherited, busy, saving, faults>>

\* The process ends at any moment.  A file being written is lost or cut short, and the
\* rows of a changed list of servers may not have followed the file.
Stop ==
    /\ Fault
    /\ up \/ request # NoRequest
    /\ \/ UNCHANGED disk
       \/ /\ request.todo # <<>>
          /\ disk' = [disk EXCEPT ![Head(request.todo)[1]] = Torn]
    /\ up' = FALSE
    /\ engine' = [x \in Services |-> Nil]
    /\ manager' = [x \in Services |-> FALSE]
    /\ error' = [x \in Services |-> FALSE]
    /\ white_list' = {}
    /\ client_access' = Nil
    /\ request' = NoRequest
    /\ saving' = NoSaving
    /\ lossy' = lossy \cup (IF request.todo # <<>> THEN {"certificate"} ELSE {})
                      \cup (IF saving.op = "access" THEN {"access"} ELSE {})
    /\ UNCHANGED <<file, inherited, busy>>

\* A socket error ends an engine's task; nobody is told.
EngineDies(x) ==
    /\ Fault
    /\ engine[x] # Nil
    /\ engine' = [engine EXCEPT ![x] = Nil]
    /\ lossy' = lossy \cup {x}
    /\ UNCHANGED <<file, disk, up, manager, error, Lists, busy, request, saving>>

\* A service is about to be started: what other programs hold matters only now.
Starting == request.step \in {"start", "fresh", "again"}

\* Other programs take and free addresses; the managed certificate nears its expiry.
Environment ==
    /\ \/ /\ Starting
          /\ busy' \in SUBSET {b \in Binds : \A x \in Services :
                                   engine[x] # Nil => engine[x].bind # b}
          /\ busy' # busy
          /\ UNCHANGED disk
       \/ /\ request = NoRequest
          /\ Whole(disk.cert) /\ ~disk.cert.old
          /\ disk' = [disk EXCEPT !.cert.old = TRUE]
          /\ UNCHANGED busy
    /\ UNCHANGED <<file, memory, inherited, request, saving, lossy, faults>>
-----------------------------------------------------------------------------
\* A file written by hand: WireGuard without a key, IKEv2 with no certificate or with the
\* administrator's.
HandWritten ==
    [white_list : {{}}, client_access : {Nil},
     wireguard : {c \in WireGuardConfig : c.key = Nil} \cup {Nil},
     ikev2 : {c \in Ikev2Config : c.cert = "none" \/ (c.cert = "custom" /\ c.id \in CustomIds)}
             \cup {Nil}]

SettingsInit ==
    /\ file \in HandWritten
    /\ disk = [cert |-> Nil, key |-> Nil, ca |-> Nil, cakey |-> Nil]
    /\ up = FALSE
    /\ manager = [x \in Services |-> FALSE]
    /\ engine = [x \in Services |-> Nil]
    /\ error = [x \in Services |-> FALSE]
    /\ white_list = {}
    /\ client_access = Nil
    /\ inherited = Nil
    /\ busy = {}
    /\ request = NoRequest
    /\ saving = NoSaving
    /\ lossy = {}
    /\ faults = 0

ServiceStep ==
    \/ \E b \in WireGuardConfig, k \in WgKeys : b.key = Nil /\ UpdateWireguard(b, k)
    \/ WireguardStop
    \/ WireguardStart
    \/ WireguardText
    \/ WireguardAgain
    \/ \E b \in Ikev2Config : b.cert \in BodyCerts /\ UpdateIkev2(b)
    \/ WriteFile
    \/ WriteFails
    \/ Ikev2Save
    \/ Ikev2Apply
    \/ Ikev2Start
    \/ Ikev2Again
    \/ Ikev2Text

ListStep ==
    \/ \E C \in SUBSET Codes : UpdateWhiteList(C)
    \/ \E v \in Servers \cup {Nil} : UpdateClientAccess(v)
    \/ WhiteListApplied
    \/ ClientAccessApplied
    \/ RowsUpdated
    \/ RowsFail
    \/ ClientAccessUndone

ProcessStep ==
    \/ Boot
    \/ BootIkev2
    \/ \E k \in WgKeys : BootWireguard(k)
    \/ BootStart
    \/ Stop
    \/ \E x \in Services : EngineDies(x)

SettingsNext == ServiceStep \/ ListStep \/ ProcessStep \/ Environment

SettingsSpec == SettingsInit /\ [][SettingsNext]_settingsVars
-----------------------------------------------------------------------------
(* Properties.                                                              *)

Idle == up /\ request = NoRequest /\ saving = NoSaving

\* When no update is under way each service runs exactly as the file says, so that a
\* restart changes nothing: also after updates that failed half-way and were undone.
\* Excepted is a service that could not be put back (or whose text could not), or whose
\* engine died, until it is next started or stopped.
SavedServiceRuns ==
    Idle => \A x \in Services \ lossy :
        /\ engine[x] = Wanted(file)[x]
        /\ manager[x] = (engine[x] # Nil)

\* The white list and the traffic servers in memory are those of the file, and the rows
\* of the devices that inherit the servers have them too, unless the process stopped
\* between the file and the rows, the file could not be put back or the rows were changed
\* by an update that failed.  No rollback of a
\* service's text takes back a list saved meanwhile.
ListsCurrent ==
    Idle => /\ white_list = file.white_list
            /\ "access" \notin lossy =>
                   client_access = file.client_access /\ inherited = client_access

\* At every moment, updates half-way included, the process could be stopped and would get
\* past the preparation of its certificate: no order of saving and applying leaves a file
\* that names an identity whose certificate cannot be loaded or made.  Only a certificate
\* whose own files were being written when the process stopped is excepted.
Bootable ==
    LET c == file.ikev2
    IN  Enabled(c) /\ "certificate" \notin lossy /\ request.todo = <<>> =>
            /\ Preparable(c, disk)
            /\ Renew(disk, c.id) \/ load_certificate(Prepared(c), disk)

\* A managed certificate is signed by the CA that is offered for download.
IssuerOffered ==
    Whole(disk.cert) /\ "certificate" \notin lossy /\ request.todo = <<>> =>
        disk.cert.issuer = disk.ca /\ disk.cakey = disk.ca

\* An IKEv2 update that fails leaves no trace: the certificate files are those it found,
\* the ones it created are gone, and the text is the former one.
RollbackExact ==
    [][request.step = "restore" /\ request' = NoRequest /\ "certificate" \notin lossy' =>
         /\ disk' = request.backup
         /\ "ikev2" \notin lossy' => file' = request.text]_settingsVars

\* What the handler tells the administrator when an IKEv2 update cannot be applied: the
\* former service is kept.  Asked only where its address is free and its certificate was
\* loadable before the update.
OldServiceKept ==
    [][LET previous == request.text.ikev2
       IN  /\ At("ikev2", "again") /\ request'.step = "text"
           /\ Enabled(previous) /\ previous.bind \notin busy
           /\ \A y \in Services : engine[y] # Nil => engine[y].bind # previous.bind
           /\ load_certificate(previous, request.backup)
           => engine'["ikev2"] = previous]_settingsVars
=============================================================================
