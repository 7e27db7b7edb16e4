--------------------------- MODULE SettingsProofs ---------------------------
(***************************************************************************)
(* What is saved is what runs, what the process starts with and what is    *)
(* kept in memory, for any codes, servers, service configurations and      *)
(* certificates, and a failed change of the certificate is undone exactly. *)
(***************************************************************************)
EXTENDS Settings, TLAPS

-----------------------------------------------------------------------------
(* The types of the settings.                                               *)

KeyFiles == CertKeys \cup {Nil, Torn}
CertFiles == Certificates \cup {Nil, Torn}
Disks == [cert : CertFiles, key : KeyFiles, ca : KeyFiles, cakey : KeyFiles]
Writes == ({"cert"} \X CertFiles) \cup ({"key", "ca", "cakey"} \X KeyFiles)

Texts == [white_list : SUBSET Codes, client_access : Servers \cup {Nil},
          wireguard : WireGuardConfig \cup {Nil}, ikev2 : Ikev2Config \cup {Nil}]

Updates == [op : {"none", "wireguard", "ikev2", "boot"},
            step : {"none", "stop", "start", "text", "again", "files", "restore", "apply", "fresh", "key"},
            cand : WireGuardConfig \cup Ikev2Config \cup {Nil},
            text : Texts \cup {Nil}, backup : Disks \cup {Nil}, todo : Seq(Writes)]
Savings == [op : {"none", "white", "access"}, step : {"none", "memory", "rows", "undo"},
            value : (SUBSET Codes) \cup Servers \cup {Nil}, previous : Servers \cup {Nil}]

SettingsTypes ==
    /\ file \in Texts /\ disk \in Disks /\ up \in BOOLEAN
    /\ manager \in [Services -> BOOLEAN]
    /\ engine \in [Services -> WireGuardConfig \cup Ikev2Config \cup {Nil}]
    /\ engine["wireguard"] \in WireGuardConfig \cup {Nil} /\ engine["ikev2"] \in Ikev2Config \cup {Nil}
    /\ client_access \in Servers \cup {Nil}
    /\ request \in Updates /\ saving \in Savings

\* What an update has filled in at each of its steps, and who holds config_update_lock.
Shaped ==
    /\ request.op = "none" => request = NoRequest
    /\ request.op = "wireguard" =>
         /\ request.step \in {"stop", "start", "text", "again"} /\ request.todo = <<>>
         /\ request.cand \in WireGuardConfig /\ request.text \in Texts /\ up
    /\ request.op = "ikev2" =>
         /\ request.step \in {"files", "restore", "apply", "start", "fresh", "again", "text"}
         /\ request.cand \in Ikev2Config /\ request.text \in Texts /\ request.backup \in Disks /\ up
         /\ request.step \notin {"files", "restore"} => request.todo = <<>>
         /\ request.step = "restore" => request.todo # <<>>
    /\ request.op = "boot" =>
         /\ request.step \in {"files", "key", "start"} /\ ~up
         /\ request.cand \in Ikev2Config \cup {Nil} /\ request.text \in Texts
         /\ request.step # "files" => request.todo = <<>>
    /\ saving.op = "none" => saving = NoSaving
    /\ saving.op # "none" => up /\ request.op = "none"
    /\ saving.op = "white" => saving.value \in SUBSET Codes
    /\ saving.op = "access" => saving.step # "none" /\ saving.value \in Servers \cup {Nil}

-----------------------------------------------------------------------------
(* The services.                                                            *)

AsSaved(x, f) == engine[x] = Wanted(f)[x] /\ manager[x] = (engine[x] # Nil)

\* Which of the two texts each service runs from, at each step of an update.
Running ==
    /\ ~up => \A x \in Services : engine[x] = Nil /\ ~manager[x]
    /\ \A x \in Services : engine[x] # Nil => manager[x]
    /\ up => \A x \in Services : x \notin lossy /\ request.op # x => AsSaved(x, file)
    /\ request.op = "wireguard" =>
         /\ file.ikev2 = request.text.ikev2
         /\ request.step \in {"stop", "start"} => file.wireguard = request.cand
         /\ request.step # "stop" => engine["wireguard"] = Nil /\ ~manager["wireguard"]
         /\ request.step = "again" /\ "wireguard" \notin lossy =>
              file.wireguard = request.text.wireguard
    /\ request.op = "ikev2" =>
         /\ file.wireguard = request.text.wireguard
         /\ request.step = "files" => file = request.text
         /\ request.step = "restore" /\ "ikev2" \notin lossy => file = request.text
         /\ request.step \in {"apply", "start", "fresh"} => file.ikev2 = request.cand
         /\ request.step \in {"start", "fresh"} => request.cand.enabled
         /\ request.step \in {"start", "fresh", "again"} =>
              engine["ikev2"] = Nil /\ ~manager["ikev2"]
         /\ request.step \in {"files", "restore", "apply", "fresh", "text"} /\ "ikev2" \notin lossy =>
              AsSaved("ikev2", request.text)

-----------------------------------------------------------------------------
(* The lists.                                                               *)

\* Where each list is, at each step of an update; no update of a service touches them.
ListsInStep ==
    /\ request.op \in Services => /\ request.text.white_list = file.white_list
                                  /\ request.text.client_access = file.client_access
    /\ up /\ saving.op # "white" => white_list = file.white_list
    /\ saving.op = "white" => file.white_list = saving.value
    /\ saving.op = "access" =>
         /\ file.client_access = saving.value
         /\ client_access = IF saving.step = "rows" THEN saving.value ELSE saving.previous
    /\ "access" \notin lossy =>
         IF saving.op = "access" THEN inherited = saving.previous
         ELSE inherited = file.client_access /\ (up => client_access = file.client_access)

-----------------------------------------------------------------------------
(* The certificate.                                                         *)

Nothing4 == <<Nil, Nil, Nil, Nil>>
Complete(d) == /\ d.cert \in Certificates /\ d.ca \in CertKeys /\ d.cakey = d.ca
               /\ d.cert.issuer = d.ca /\ d.key = d.cert.key
Offered(d) == <<d.cert, d.key, d.ca, d.cakey>> = Nothing4 \/ Complete(d)

\* What is left to write makes the files complete, ...
Completing(d, todo) ==
    \E k \in CertKeys, c \in Certificates :
        /\ c.issuer = k
        /\ \/ todo = <<<<"ca", k>>, <<"cakey", k>>, <<"cert", c>>, <<"key", c.key>>>>
           \/ todo = <<<<"cakey", k>>, <<"cert", c>>, <<"key", c.key>>>> /\ d.ca = k
           \/ todo = <<<<"cert", c>>, <<"key", c.key>>>> /\ d.ca = k /\ d.cakey = k
           \/ todo = <<<<"key", c.key>>>> /\ d.ca = k /\ d.cakey = k /\ d.cert = c

\* ... or those of the backup.
Restoring(d, b, todo) ==
    \/ todo = restore(b)
    \/ todo = <<<<"key", b.key>>, <<"ca", b.ca>>, <<"cakey", b.cakey>>>> /\ d.cert = b.cert
    \/ todo = <<<<"ca", b.ca>>, <<"cakey", b.cakey>>>> /\ d.cert = b.cert /\ d.key = b.key
    \/ todo = <<<<"cakey", b.cakey>>>> /\ d.cert = b.cert /\ d.key = b.key /\ d.ca = b.ca

Custom(c) == c # Nil /\ c.cert = "custom" => c.id \in CustomIds

CertificateKept ==
    /\ request.step = "restore" => Restoring(disk, request.backup, request.todo)
    /\ "certificate" \notin lossy =>
         /\ request.todo = <<>> => Offered(disk)
         /\ request.step = "files" /\ request.todo # <<>> => Completing(disk, request.todo)
         /\ request.op = "ikev2" => Offered(request.backup)
    /\ Custom(file.ikev2) /\ (request.op # "none" => Custom(request.text.ikev2))
    /\ request.op = "boot" => Custom(request.cand)

SettingsInvariant == SettingsTypes /\ Shaped /\ Running /\ ListsInStep /\ CertificateKept

-----------------------------------------------------------------------------
(* What the operators compute.                                              *)

\* Nil and Torn are no configurations, certificates or keys.
LEMMA NilApart ==
    /\ Nil \notin WireGuardConfig /\ Nil \notin Ikev2Config /\ Nil # Torn
    /\ Nil \notin CertKeys /\ Torn \notin CertKeys /\ Nil \notin Certificates /\ Torn \notin Certificates
BY SettingsAssumption, Zenon

\* Six keys are never all there are.
LEMMA SeventhKey ==
    ASSUME NEW a, NEW b, NEW c, NEW d, NEW e, NEW f
    PROVE  \E k \in CertKeys : k \notin {a, b, c, d, e, f}
<1>1. PICK n \in CertKeys : TRUE
  BY SettingsAssumption, Zenon
<1>2. \A x : \E y \in CertKeys : x \in CertKeys => y = x
  BY <1>1, Zenon
<1>3. PICK a1 \in CertKeys, b1 \in CertKeys, c1 \in CertKeys :
        (a \in CertKeys => a1 = a) /\ (b \in CertKeys => b1 = b) /\ (c \in CertKeys => c1 = c)
  BY <1>2, Zenon
<1>4. PICK d1 \in CertKeys, e1 \in CertKeys, f1 \in CertKeys :
        (d \in CertKeys => d1 = d) /\ (e \in CertKeys => e1 = e) /\ (f \in CertKeys => f1 = f)
  BY <1>2, Zenon
<1>5. PICK k \in CertKeys : k \notin {a1, b1, c1, d1, e1, f1}
  BY SettingsAssumption, Zenon
<1> QED BY <1>3, <1>4, <1>5, Zenon

\* A key that no file has is found for the CA, ...
LEMMA FreshKey ==
    ASSUME NEW d \in Disks
    PROVE  Fresh({d}) \in CertKeys
<1>1. PICK a, b : KeysOf(d) \subseteq {d.key, d.ca, d.cakey, a, b}
  <2>1. CASE Whole(d.cert)
    <3>1. KeysOf(d) \subseteq {d.key, d.ca, d.cakey, d.cert.key, d.cert.issuer}
      BY <2>1, Zenon DEF KeysOf
    <3> QED BY <3>1, Zenon
  <2>2. CASE ~ Whole(d.cert)
    <3>1. KeysOf(d) \subseteq {d.key, d.ca, d.cakey, d.key, d.key}
      BY <2>2, Zenon DEF KeysOf
    <3> QED BY <3>1, Zenon
  <2> QED BY <2>1, <2>2, Zenon
<1>2. PICK k \in CertKeys : k \notin {d.key, d.ca, d.cakey, a, b, b}
  BY SeventhKey, Zenon
<1>3. k \in CertKeys /\ \A e \in {d} : k \notin KeysOf(e)
  BY <1>1, <1>2, Zenon
<1> QED BY <1>3, Zenon DEF Fresh

\* ... and another one for the certificate.
LEMMA SecondKey ==
    ASSUME NEW d \in Disks, NEW n \in CertKeys
    PROVE  Fresh({d, [cert |-> Nil, key |-> n, ca |-> Nil, cakey |-> Nil]}) \in CertKeys
<1> DEFINE x == [cert |-> Nil, key |-> n, ca |-> Nil, cakey |-> Nil]
<1>1. PICK a, b : KeysOf(d) \subseteq {d.key, d.ca, d.cakey, a, b}
  <2>1. CASE Whole(d.cert)
    <3>1. KeysOf(d) \subseteq {d.key, d.ca, d.cakey, d.cert.key, d.cert.issuer}
      BY <2>1, Zenon DEF KeysOf
    <3> QED BY <3>1, Zenon
  <2>2. CASE ~ Whole(d.cert)
    <3>1. KeysOf(d) \subseteq {d.key, d.ca, d.cakey, d.key, d.key}
      BY <2>2, Zenon DEF KeysOf
    <3> QED BY <3>1, Zenon
  <2> QED BY <2>1, <2>2, Zenon
<1>2. PICK k \in CertKeys : k \notin {d.key, d.ca, d.cakey, a, b, n}
  BY SeventhKey, Zenon
<1>3. KeysOf(x) \subseteq {n, Nil}
  BY Zenon DEF KeysOf, Whole
<1> HIDE DEF x
<1>4. k \in CertKeys /\ \A e \in {d, x} : k \notin KeysOf(e)
  BY <1>1, <1>2, <1>3, NilApart
<1>5. Fresh({d, x}) \in CertKeys
  BY <1>4, Zenon DEF Fresh
<1> QED BY <1>5, Zenon DEF x

\* What is written for a new certificate: the CA's two files when there is none, then the
\* certificate that the CA signs and its key.
LEMMA Generated ==
    ASSUME NEW d \in Disks, NEW id \in RemoteIds, CaReadable(d)
    PROVE  \E k \in CertKeys, c \in Certificates :
             /\ c.issuer = k
             /\ IF NoCa(d)
                THEN generate_managed_certificate(d, id)
                       = <<<<"ca", k>>, <<"cakey", k>>, <<"cert", c>>, <<"key", c.key>>>>
                ELSE /\ generate_managed_certificate(d, id) = <<<<"cert", c>>, <<"key", c.key>>>>
                     /\ k = d.cakey
<1>1. PICK k \in CertKeys : k = Fresh({d})
  BY FreshKey, Zenon
<1>2. PICK s \in CertKeys : s = Fresh({d, [cert |-> Nil, key |-> k, ca |-> Nil, cakey |-> Nil]})
  BY SecondKey, Zenon
<1>3. PICK i \in CertKeys : i = IF NoCa(d) THEN k ELSE d.cakey
  BY Zenon DEF CaReadable, NoCa, Whole, Disks, KeyFiles
<1>4. PICK c : c = [id |-> id, key |-> s, issuer |-> i, old |-> FALSE]
  BY Zenon
<1>5. c \in Certificates /\ c.issuer = i /\ c.key = s
  BY <1>4, Zenon DEF Certificates
<1>6. generate_managed_certificate(d, id) =
        IF NoCa(d) THEN <<<<"ca", k>>, <<"cakey", k>>, <<"cert", c>>, <<"key", s>>>>
        ELSE <<<<"cert", c>>, <<"key", s>>>>
  BY <1>1, <1>2, <1>3, <1>4, Zenon DEF generate_managed_certificate
<1> QED BY <1>3, <1>5, <1>6, Zenon

\* One file is written, or torn.
LEMMA FileWritten ==
    ASSUME NEW d \in Disks, NEW w \in Writes
    PROVE  /\ [d EXCEPT ![w[1]] = w[2]] \in Disks /\ [d EXCEPT ![w[1]] = Torn] \in Disks
BY Zenon DEF Disks, Writes, KeyFiles, CertFiles

\* The backup is put back in four writes.
LEMMA RestoreTyped ==
    ASSUME NEW b \in Disks
    PROVE  restore(b) \in Seq(Writes) /\ restore(b) # <<>>
BY DEF restore, Disks, Writes

\* The files of a new certificate, after those there are, are complete.
LEMMA PreparedTyped ==
    ASSUME NEW d \in Disks, NEW c \in Ikev2Config, Preparable(c, d)
    PROVE  /\ prepare_certificate(c, d) \in Seq(Writes)
           /\ Offered(d) /\ prepare_certificate(c, d) # <<>> => Completing(d, prepare_certificate(c, d))
<1>1. CASE ~ (c.enabled /\ c.cert # "custom" /\ Renew(d, c.id))
  BY <1>1 DEF prepare_certificate
<1>2. CASE c.enabled /\ c.cert # "custom" /\ Renew(d, c.id)
  <2>1. CaReadable(d) /\ c.id \in RemoteIds /\ prepare_certificate(c, d) = generate_managed_certificate(d, c.id)
    BY <1>2, Zenon DEF Preparable, prepare_certificate, Ikev2Config
  <2>2. PICK k \in CertKeys, x \in Certificates :
             /\ x.issuer = k
             /\ IF NoCa(d)
                THEN generate_managed_certificate(d, c.id)
                       = <<<<"ca", k>>, <<"cakey", k>>, <<"cert", x>>, <<"key", x.key>>>>
                ELSE /\ generate_managed_certificate(d, c.id) = <<<<"cert", x>>, <<"key", x.key>>>>
                     /\ k = d.cakey
    BY <2>1, Generated, Zenon
  <2>3. x.key \in CertKeys
    BY Zenon DEF Certificates
  <2>4. /\ <<"ca", k>> \in Writes /\ <<"cakey", k>> \in Writes /\ <<"cert", x>> \in Writes
        /\ <<"key", x.key>> \in Writes
    BY <2>3, Zenon DEF Writes, KeyFiles, CertFiles
  <2>5. CASE NoCa(d)
    <3>1. prepare_certificate(c, d) = <<<<"ca", k>>, <<"cakey", k>>, <<"cert", x>>, <<"key", x.key>>>>
      BY <2>1, <2>2, <2>5, Zenon
    <3>2. prepare_certificate(c, d) \in Seq(Writes)
      BY <2>4, <3>1
    <3> QED BY <2>2, <3>1, <3>2, Zenon DEF Completing
  <2>6. CASE ~ NoCa(d)
    <3>1. prepare_certificate(c, d) = <<<<"cert", x>>, <<"key", x.key>>>> /\ k = d.cakey
      BY <2>1, <2>2, <2>6, Zenon
    <3>2. prepare_certificate(c, d) \in Seq(Writes)
      BY <2>4, <3>1
    <3>3. Offered(d) => d.ca = k
      BY <2>6, <3>1, Zenon DEF Offered, NoCa, Complete, Nothing4
    <3> QED BY <2>2, <3>1, <3>2, <3>3, Zenon DEF Completing
  <2> QED BY <2>5, <2>6, Zenon
<1> QED BY <1>1, <1>2, Zenon

\* A service runs or not as its section says.
LEMMA WantedIs ==
    ASSUME NEW f \in Texts
    PROVE  /\ Wanted(f)["wireguard"] = IF Enabled(f.wireguard) THEN f.wireguard ELSE Nil
           /\ Wanted(f)["ikev2"] = IF Enabled(f.ikev2) THEN f.ikev2 ELSE Nil
BY Zenon DEF Wanted, Services, Texts

\* The request that is none, and no update of a list.
LEMMA Nones ==
    /\ NoRequest \in Updates /\ NoRequest.op = "none" /\ NoRequest.step = "none" /\ NoRequest.todo = <<>>
    /\ NoSaving \in Savings /\ NoSaving.op = "none" /\ NoSaving.step = "none"
<1>1. NoRequest.op = "none" /\ NoRequest.step = "none" /\ NoRequest.todo = <<>>
  BY Zenon DEF NoRequest
<1>2. <<>> \in Seq(Writes)
  OBVIOUS
<1>3. NoRequest \in Updates
  BY <1>2, Zenon DEF NoRequest, Updates
<1>4. NoSaving \in Savings /\ NoSaving.op = "none" /\ NoSaving.step = "none"
  BY Zenon DEF NoSaving, Savings
<1> QED BY <1>1, <1>3, <1>4, Zenon

\* The preparation leaves an IKEv2 configuration, with the certificate of the administrator
\* where there was one.
LEMMA PreparedIs ==
    ASSUME NEW c \in Ikev2Config
    PROVE  /\ Prepared(c) \in Ikev2Config /\ Prepared(c).enabled = c.enabled /\ Prepared(c).id = c.id
           /\ Prepared(c).cert = "custom" <=> c.cert = "custom"
           /\ c.enabled => Prepared(c).cert # "none"
BY Zenon DEF Prepared, Ikev2Config

\* The same for the section that an update leaves.
LEMMA MergedIs ==
    ASSUME NEW b \in Ikev2Config
    PROVE  merge_ikev2_service(b) \in Ikev2Config
BY Zenon DEF merge_ikev2_service, Ikev2Config

\* The invariant, one part at a time.
LEMMA SettingsParts ==
    ASSUME SettingsInvariant
    PROVE  /\ SettingsTypes /\ Shaped /\ Running /\ ListsInStep /\ CertificateKept
           /\ file \in Texts /\ disk \in Disks /\ request \in Updates /\ saving \in Savings
           /\ manager \in [Services -> BOOLEAN]
           /\ engine \in [Services -> WireGuardConfig \cup Ikev2Config \cup {Nil}]
BY Zenon DEF SettingsInvariant, SettingsTypes

\* A step of a request.
LEMMA Went ==
    ASSUME request \in Updates, NEW s \in {"start", "text", "again", "apply", "fresh", "key"}, Goto(s)
    PROVE  /\ request' \in Updates /\ request'.step = s /\ request'.op = request.op
           /\ request'.cand = request.cand /\ request'.text = request.text
           /\ request'.backup = request.backup /\ request'.todo = request.todo
BY Zenon DEF Goto, Updates

-----------------------------------------------------------------------------
(* What a step leaves alone.                                                *)

\* The services are left alone.
LEMMA ServicesKept ==
    ASSUME Running, file \in Texts, file' \in Texts, UNCHANGED <<engine, manager, up>>,
           request.op = "none", request'.op \in {"none", "boot"},
           file'.wireguard = file.wireguard, file'.ikev2 = file.ikev2,
           \A x \in Services : x \in lossy' <=> x \in lossy
    PROVE  Running'
<1>1. \A x \in Services : Wanted(file)'[x] = Wanted(file)[x]
  <2>1. /\ Wanted(file')["wireguard"] = Wanted(file)["wireguard"]
        /\ Wanted(file')["ikev2"] = Wanted(file)["ikev2"]
    BY WantedIs, Zenon
  <2>2. Wanted(file)' = Wanted(file')
    BY Zenon DEF Wanted, Enabled
  <2> QED BY <2>1, <2>2, Zenon DEF Services
<1>2. \A x \in Services : AsSaved(x, file) => AsSaved(x, file)'
  BY <1>1, Zenon DEF AsSaved
<1> QED BY <1>2, Zenon DEF Running, Services

\* The lists are left alone.
LEMMA ListsKept ==
    ASSUME ListsInStep, UNCHANGED <<up, white_list, client_access, inherited, saving>>,
           file'.white_list = file.white_list, file'.client_access = file.client_access,
           "access" \in lossy' <=> "access" \in lossy,
           request'.op \in Services =>
             \/ request'.text = file
             \/ request.op \in Services /\ request'.text = request.text
    PROVE  ListsInStep'
BY Zenon DEF ListsInStep

\* The certificate is left alone.
LEMMA CertificateFrame ==
    ASSUME CertificateKept, Shaped, UNCHANGED disk,
           "certificate" \notin lossy' => "certificate" \notin lossy,
           Custom(file'.ikev2), request.todo = <<>>, request'.todo = <<>>,
           request'.op = "ikev2" => request.op = "ikev2" /\ request'.backup = request.backup,
           request'.op # "none" => request'.text \in {file, request.text} /\ Custom(request'.text.ikev2),
           request'.op = "boot" => Custom(request'.cand), request'.step # "restore"
    PROVE  CertificateKept'
BY Zenon DEF CertificateKept, Offered, Complete, Custom

-----------------------------------------------------------------------------
(* The lists.                                                               *)

\* A step of an update of a list.
LEMMA ListFrame ==
    ASSUME SettingsInvariant, request = NoRequest, file' \in Texts, saving' \in Savings,
           client_access' \in Servers \cup {Nil}, up,
           file'.wireguard = file.wireguard, file'.ikev2 = file.ikev2,
           \A x \in Services \cup {"certificate"} : x \in lossy' <=> x \in lossy,
           saving'.op = "none" => saving' = NoSaving,
           saving'.op = "white" => saving'.value \in SUBSET Codes,
           saving'.op = "access" => saving'.step # "none" /\ saving'.value \in Servers \cup {Nil},
           UNCHANGED <<disk, up, manager, engine, request>>
    PROVE  SettingsTypes' /\ Shaped' /\ Running' /\ CertificateKept'
<1>1. SettingsTypes'
  BY Zenon DEF SettingsInvariant, SettingsTypes
<1>2. Shaped'
  BY Nones, Zenon DEF SettingsInvariant, Shaped
<1>3. Running'
  BY SettingsParts, Nones, ServicesKept, Zenon
<1>4. CertificateKept'
  BY SettingsParts, Nones, CertificateFrame, Zenon DEF CertificateKept
<1> QED BY <1>1, <1>2, <1>3, <1>4, Zenon

\* The file's text with another list.
LEMMA ListWritten ==
    ASSUME file \in Texts, NEW C \in SUBSET Codes, NEW v \in Servers \cup {Nil}
    PROVE  /\ [file EXCEPT !.white_list = C] \in Texts
           /\ [file EXCEPT !.white_list = C].white_list = C
           /\ [file EXCEPT !.white_list = C].client_access = file.client_access
           /\ [file EXCEPT !.white_list = C].wireguard = file.wireguard
           /\ [file EXCEPT !.white_list = C].ikev2 = file.ikev2
           /\ [file EXCEPT !.client_access = v] \in Texts
           /\ [file EXCEPT !.client_access = v].client_access = v
           /\ [file EXCEPT !.client_access = v].white_list = file.white_list
           /\ [file EXCEPT !.client_access = v].wireguard = file.wireguard
           /\ [file EXCEPT !.client_access = v].ikev2 = file.ikev2
BY Zenon DEF Texts

\* The white list is saved, ...
LEMMA UpdateWhiteListStep ==
    ASSUME SettingsInvariant, NEW C \in SUBSET Codes, UpdateWhiteList(C)
    PROVE  SettingsInvariant'
<1>1. /\ request = NoRequest /\ saving = NoSaving /\ up /\ file' = [file EXCEPT !.white_list = C]
      /\ UNCHANGED <<disk, up, manager, engine, white_list, client_access, inherited, request, lossy>>
  BY Zenon DEF UpdateWhiteList, LockFree, update_white_list, persist_config_text, memory
<1>2. /\ file' \in Texts /\ file'.white_list = C /\ file'.client_access = file.client_access
      /\ file'.wireguard = file.wireguard /\ file'.ikev2 = file.ikev2
  BY <1>1, SettingsParts, ListWritten, Zenon
<1>3. saving' \in Savings /\ saving'.op = "white" /\ saving'.value = C
  BY Zenon DEF UpdateWhiteList, Savings
<1>4. SettingsTypes' /\ Shaped' /\ Running' /\ CertificateKept'
  <2>1. client_access \in Servers \cup {Nil}
    BY SettingsParts, Zenon DEF SettingsTypes
  <2> QED BY <1>1, <1>2, <1>3, <2>1, ListFrame, Zenon
<1>5. ListsInStep'
  BY <1>1, <1>2, <1>3, SettingsParts, Nones, Zenon DEF ListsInStep, Services
<1> QED BY <1>4, <1>5, Zenon DEF SettingsInvariant

\* ... and applied.
LEMMA WhiteListAppliedStep ==
    ASSUME SettingsInvariant, WhiteListApplied
    PROVE  SettingsInvariant'
<1>1. /\ saving.op = "white" /\ white_list' = saving.value /\ saving' = NoSaving
      /\ UNCHANGED <<file, disk, up, manager, engine, client_access, inherited, request, lossy>>
  BY Zenon DEF WhiteListApplied
<1>2. up /\ request = NoRequest
  BY <1>1, SettingsParts, Zenon DEF Shaped
<1>3. SettingsTypes' /\ Shaped' /\ Running' /\ CertificateKept'
  <2>1. client_access \in Servers \cup {Nil}
    BY SettingsParts, Zenon DEF SettingsTypes
  <2> QED BY <1>1, <1>2, <2>1, SettingsParts, Nones, ListFrame, Zenon
<1>4. ListsInStep'
  BY <1>1, <1>2, SettingsParts, Nones, Zenon DEF ListsInStep, Services
<1> QED BY <1>3, <1>4, Zenon DEF SettingsInvariant

\* The traffic servers are saved, ...
LEMMA UpdateClientAccessStep ==
    ASSUME SettingsInvariant, NEW v \in Servers \cup {Nil}, UpdateClientAccess(v)
    PROVE  SettingsInvariant'
<1>1. /\ request = NoRequest /\ saving = NoSaving /\ up /\ file' = [file EXCEPT !.client_access = v]
      /\ UNCHANGED <<disk, up, manager, engine, white_list, client_access, inherited, request, lossy>>
  BY Zenon DEF UpdateClientAccess, LockFree, update_client_access_config, persist_config_text, memory
<1>2. /\ file' \in Texts /\ file'.white_list = file.white_list /\ file'.client_access = v
      /\ file'.wireguard = file.wireguard /\ file'.ikev2 = file.ikev2
  <2>1. {} \in SUBSET Codes
    BY Zenon
  <2> QED BY <1>1, <2>1, SettingsParts, ListWritten, Zenon
<1>3. client_access \in Servers \cup {Nil}
  BY SettingsParts, Zenon DEF SettingsTypes
<1>4. /\ saving' \in Savings /\ saving'.op = "access" /\ saving'.value = v /\ saving'.step = "memory"
      /\ saving'.previous = client_access
  BY <1>3, Zenon DEF UpdateClientAccess, Savings
<1>5. SettingsTypes' /\ Shaped' /\ Running' /\ CertificateKept'
  BY <1>1, <1>2, <1>3, <1>4, ListFrame, Zenon
<1>6. ListsInStep'
  BY <1>1, <1>2, <1>4, SettingsParts, Nones, Zenon DEF ListsInStep, Services
<1> QED BY <1>5, <1>6, Zenon DEF SettingsInvariant

\* ... applied in memory, ...
LEMMA ClientAccessAppliedStep ==
    ASSUME SettingsInvariant, ClientAccessApplied
    PROVE  SettingsInvariant'
<1>1. /\ saving.op = "access" /\ saving.step = "memory" /\ client_access' = saving.value
      /\ saving' = IF saving.previous = saving.value THEN NoSaving ELSE [saving EXCEPT !.step = "rows"]
      /\ UNCHANGED <<file, disk, up, manager, engine, white_list, inherited, request, lossy>>
  BY Zenon DEF ClientAccessApplied
<1>2. up /\ request = NoRequest /\ saving.value \in Servers \cup {Nil}
  BY <1>1, SettingsParts, Zenon DEF Shaped
<1>3. /\ saving' \in Savings
      /\ saving.previous = saving.value => saving' = NoSaving
      /\ saving.previous # saving.value =>
           /\ saving'.op = "access" /\ saving'.step = "rows" /\ saving'.value = saving.value
           /\ saving'.previous = saving.previous
  BY <1>1, SettingsParts, Nones, Zenon DEF Savings
<1>4. SettingsTypes' /\ Shaped' /\ Running' /\ CertificateKept'
  BY <1>1, <1>2, <1>3, SettingsParts, Nones, ListFrame, Zenon
<1>5. ListsInStep'
  BY <1>1, <1>2, <1>3, SettingsParts, Nones, Zenon DEF ListsInStep, Services
<1> QED BY <1>4, <1>5, Zenon DEF SettingsInvariant

\* ... and in the rows, ...
LEMMA RowsUpdatedStep ==
    ASSUME SettingsInvariant, RowsUpdated
    PROVE  SettingsInvariant'
<1>1. /\ saving.op = "access" /\ saving.step = "rows" /\ inherited' = saving.value
      /\ saving' = NoSaving /\ lossy' = lossy \ {"access"}
      /\ UNCHANGED <<file, disk, up, manager, engine, white_list, client_access, request>>
  BY Zenon DEF RowsUpdated, memory
<1>2. up /\ request = NoRequest
  BY <1>1, SettingsParts, Zenon DEF Shaped
<1>3. SettingsTypes' /\ Shaped' /\ Running' /\ CertificateKept'
  <2>1. client_access \in Servers \cup {Nil}
    BY SettingsParts, Zenon DEF SettingsTypes
  <2>2. \A x \in Services \cup {"certificate"} : x \in lossy' <=> x \in lossy
    BY <1>1, Zenon DEF Services
  <2> QED BY <1>1, <1>2, <2>1, <2>2, SettingsParts, Nones, ListFrame, Zenon
<1>4. ListsInStep'
  BY <1>1, <1>2, SettingsParts, Nones, Zenon DEF ListsInStep, Services
<1> QED BY <1>3, <1>4, Zenon DEF SettingsInvariant

\* ... which may fail, ...
LEMMA RowsFailStep ==
    ASSUME SettingsInvariant, RowsFail
    PROVE  SettingsInvariant'
<1>1. /\ saving.op = "access" /\ saving.step = "rows" /\ client_access' = saving.previous
      /\ \/ UNCHANGED <<inherited, lossy>>
         \/ lossy' = lossy \cup {"access"}
      /\ UNCHANGED <<file, disk, up, manager, engine, white_list, request>>
  BY Zenon DEF RowsFail
<1>2. up /\ request = NoRequest /\ saving.value \in Servers \cup {Nil}
  BY <1>1, SettingsParts, Zenon DEF Shaped
<1>3. /\ saving' \in Savings /\ saving.previous \in Servers \cup {Nil}
      /\ saving'.op = "access" /\ saving'.step = "undo" /\ saving'.value = saving.value
      /\ saving'.previous = saving.previous
  BY <1>1, SettingsParts, Zenon DEF RowsFail, Savings
<1>4. SettingsTypes' /\ Shaped' /\ Running' /\ CertificateKept'
  <2>1. \A x \in Services \cup {"certificate"} : x \in lossy' <=> x \in lossy
    BY <1>1, Zenon DEF Services
  <2> QED BY <1>1, <1>2, <1>3, <2>1, SettingsParts, ListFrame, Zenon
<1>5. ListsInStep'
  <2>1. "access" \notin lossy' => "access" \notin lossy /\ inherited' = inherited
    BY <1>1, Zenon
  <2> QED BY <1>1, <1>2, <1>3, <2>1, SettingsParts, Nones, Zenon DEF ListsInStep, Services
<1> QED BY <1>4, <1>5, Zenon DEF SettingsInvariant

\* ... and are then put back.
LEMMA ClientAccessUndoneStep ==
    ASSUME SettingsInvariant, ClientAccessUndone
    PROVE  SettingsInvariant'
<1>1. /\ saving.op = "access" /\ saving.step = "undo" /\ saving' = NoSaving
      /\ \/ file' = [file EXCEPT !.client_access = saving.previous] /\ lossy' = lossy
         \/ lossy' = lossy \cup {"access"} /\ file' = file
      /\ UNCHANGED <<disk, up, manager, engine, white_list, client_access, inherited, request>>
  BY Zenon DEF ClientAccessUndone, update_client_access_config, persist_config_text, memory
<1>2. up /\ request = NoRequest
  BY <1>1, SettingsParts, Zenon DEF Shaped
<1>3. /\ file' \in Texts /\ file'.white_list = file.white_list
      /\ file'.wireguard = file.wireguard /\ file'.ikev2 = file.ikev2
      /\ "access" \notin lossy' => "access" \notin lossy /\ file'.client_access = saving.previous
  <2>1. PICK v \in Servers \cup {Nil} : v = saving.previous
    BY SettingsParts, Zenon DEF Savings
  <2>2. CASE file' = [file EXCEPT !.client_access = v] /\ lossy' = lossy
    <3>1. {} \in SUBSET Codes
      BY Zenon
    <3>2. /\ file' \in Texts /\ file'.client_access = v /\ file'.white_list = file.white_list
          /\ file'.wireguard = file.wireguard /\ file'.ikev2 = file.ikev2
      BY <2>2, <3>1, SettingsParts, ListWritten, Zenon
    <3> QED BY <2>1, <2>2, <3>2, Zenon
  <2>3. CASE lossy' = lossy \cup {"access"} /\ file' = file
    BY <2>3, SettingsParts, Zenon
  <2> QED BY <1>1, <2>1, <2>2, <2>3, Zenon
<1>4. SettingsTypes' /\ Shaped' /\ Running' /\ CertificateKept'
  <2>1. \A x \in Services \cup {"certificate"} : x \in lossy' <=> x \in lossy
    BY <1>1, Zenon DEF Services
  <2>2. client_access \in Servers \cup {Nil}
    BY SettingsParts, Zenon DEF SettingsTypes
  <2> QED BY <1>1, <1>2, <1>3, <2>1, <2>2, SettingsParts, Nones, ListFrame, Zenon
<1>5. ListsInStep'
  BY <1>1, <1>2, <1>3, SettingsParts, Nones, Zenon DEF ListsInStep, Services
<1> QED BY <1>4, <1>5, Zenon DEF SettingsInvariant

-----------------------------------------------------------------------------
(* The WireGuard service.                                                   *)

\* What a step of a WireGuard update leaves alone.
LEMMA WireguardFrame ==
    ASSUME SettingsInvariant, file' \in Texts, request' \in Updates,
           saving.op = "none", UNCHANGED <<disk, up, client_access, saving>>, up,
           \A x \in {"ikev2", "access", "certificate"} : x \in lossy' <=> x \in lossy,
           file'.ikev2 = file.ikev2, UNCHANGED <<white_list, inherited>>,
           file'.white_list = file.white_list, file'.client_access = file.client_access,
           manager' \in [Services -> BOOLEAN],
           engine' \in [Services -> WireGuardConfig \cup Ikev2Config \cup {Nil}],
           engine'["wireguard"] \in WireGuardConfig \cup {Nil}, engine'["ikev2"] = engine["ikev2"],
           request.op \in {"none", "wireguard"}, request'.op = "none" => request' = NoRequest,
           request'.op \in {"none", "wireguard"},
           request'.op = "wireguard" =>
             /\ request'.step \in {"stop", "start", "text", "again"} /\ request'.todo = <<>>
             /\ request'.cand \in WireGuardConfig
             /\ \/ request.op = "none" /\ request'.text = file
                \/ request.op = "wireguard" /\ request'.text = request.text
    PROVE  SettingsTypes' /\ Shaped' /\ ListsInStep' /\ CertificateKept'
<1>1. SettingsTypes'
  BY Zenon DEF SettingsInvariant, SettingsTypes
<1>2. request.op = "wireguard" => request.text \in Texts /\ Custom(request.text.ikev2)
  BY SettingsParts, Zenon DEF Shaped, CertificateKept
<1>3. Shaped'
  BY <1>2, SettingsParts, Nones, Zenon DEF Shaped
<1>4. ListsInStep'
  BY SettingsParts, ListsKept, Zenon DEF Services
<1>5. CertificateKept'
  <2>1. request.todo = <<>> /\ request'.todo = <<>> /\ request'.step # "restore"
    BY SettingsParts, Nones, Zenon DEF Shaped
  <2>2. Custom(file.ikev2)
    BY SettingsParts, Zenon DEF CertificateKept
  <2> QED BY <1>2, <2>1, <2>2, SettingsParts, CertificateFrame, Zenon
<1> QED BY <1>1, <1>3, <1>4, <1>5, Zenon

\* The section of WireGuard is written.
LEMMA WireguardWritten ==
    ASSUME file \in Texts, NEW c \in WireGuardConfig \cup {Nil}
    PROVE  /\ [file EXCEPT !.wireguard = c] \in Texts
           /\ [file EXCEPT !.wireguard = c].wireguard = c
           /\ [file EXCEPT !.wireguard = c].white_list = file.white_list
           /\ [file EXCEPT !.wireguard = c].client_access = file.client_access
           /\ [file EXCEPT !.wireguard = c].ikev2 = file.ikev2
BY Zenon DEF Texts

\* A WireGuard update is saved.
LEMMA UpdateWireguardStep ==
    ASSUME SettingsInvariant, NEW b \in WireGuardConfig, NEW k \in WgKeys, UpdateWireguard(b, k)
    PROVE  SettingsInvariant'
<1>1. PICK n : n = IF file.wireguard # Nil /\ file.wireguard.key # Nil THEN file.wireguard.key ELSE k
  BY Zenon
<1>2. PICK c : c = [b EXCEPT !.key = n]
  BY Zenon
<1>3. /\ up /\ request = NoRequest /\ saving = NoSaving /\ file' = [file EXCEPT !.wireguard = c]
      /\ request' = [NoRequest EXCEPT !.op = "wireguard", !.step = "stop", !.cand = c, !.text = file]
      /\ UNCHANGED <<disk, up, manager, engine, white_list, client_access, inherited, saving, lossy>>
  BY <1>1, <1>2, Zenon DEF UpdateWireguard, LockFree, update_wireguard_config, persist_config_text, memory
<1>4. c \in WireGuardConfig
  <2>1. n \in WgKeys \cup {Nil}
    BY <1>1, SettingsParts, NilApart, Zenon DEF Texts, WireGuardConfig
  <2> QED BY <1>2, <2>1, Zenon DEF WireGuardConfig
<1>5. /\ file' \in Texts /\ file'.wireguard = c /\ file'.white_list = file.white_list
      /\ file'.client_access = file.client_access /\ file'.ikev2 = file.ikev2
  BY <1>3, <1>4, SettingsParts, WireguardWritten, Zenon
<1>6. /\ request' \in Updates /\ request'.op = "wireguard" /\ request'.step = "stop" /\ request'.cand = c
      /\ request'.text = file /\ request'.todo = <<>>
  BY <1>3, <1>4, SettingsParts, Zenon DEF NoRequest, Updates
<1>7. SettingsTypes' /\ Shaped' /\ ListsInStep' /\ CertificateKept'
  <2>1. engine["wireguard"] \in WireGuardConfig \cup {Nil}
    BY SettingsParts, Zenon DEF SettingsTypes
  <2> QED BY <1>3, <1>4, <1>5, <1>6, <2>1, SettingsParts, Nones, WireguardFrame, Zenon
<1>8. Running'
  <2>1. Wanted(file)'["ikev2"] = Wanted(file)["ikev2"]
    <3>1. Wanted(file')["ikev2"] = Wanted(file)["ikev2"]
      BY <1>5, SettingsParts, WantedIs, Zenon
    <3> QED BY <3>1, Zenon DEF Wanted, Enabled
  <2>2. AsSaved("ikev2", file) => AsSaved("ikev2", file)'
    BY <1>3, <2>1, Zenon DEF AsSaved
  <2> QED BY <1>3, <1>5, <1>6, <2>2, SettingsParts, Nones, Zenon DEF Running, Services
<1> QED BY <1>7, <1>8, Zenon DEF SettingsInvariant

\* A service whose section, engine and handle do not change is as saved when it was.
LEMMA StillAsSaved ==
    ASSUME file \in Texts, file' \in Texts
    PROVE  /\ /\ file'.ikev2 = file.ikev2 /\ engine'["ikev2"] = engine["ikev2"]
              /\ manager'["ikev2"] = manager["ikev2"] /\ AsSaved("ikev2", file)
              => AsSaved("ikev2", file)'
           /\ /\ file'.wireguard = file.wireguard /\ engine'["wireguard"] = engine["wireguard"]
              /\ manager'["wireguard"] = manager["wireguard"] /\ AsSaved("wireguard", file)
              => AsSaved("wireguard", file)'
<1>1. Wanted(file)' = Wanted(file')
  BY Zenon DEF Wanted, Enabled
<1> QED BY <1>1, WantedIs, Zenon DEF AsSaved

\* What it takes to be as saved.
LEMMA NowAsSaved ==
    ASSUME file' \in Texts
    PROVE  /\ /\ engine'["ikev2"] = IF Enabled(file'.ikev2) THEN file'.ikev2 ELSE Nil
              /\ manager'["ikev2"] = (engine'["ikev2"] # Nil)
              => AsSaved("ikev2", file)'
           /\ /\ engine'["wireguard"] = IF Enabled(file'.wireguard) THEN file'.wireguard ELSE Nil
              /\ manager'["wireguard"] = (engine'["wireguard"] # Nil)
              => AsSaved("wireguard", file)'
<1>1. Wanted(file)' = Wanted(file')
  BY Zenon DEF Wanted, Enabled
<1> QED BY <1>1, WantedIs, Zenon DEF AsSaved

\* An engine is started or withdrawn.
LEMMA EngineChanges ==
    ASSUME manager \in [Services -> BOOLEAN], NEW x \in Services,
           engine \in [Services -> WireGuardConfig \cup Ikev2Config \cup {Nil}],
           NEW c \in WireGuardConfig \cup Ikev2Config
    PROVE  /\ Run(x, c) \/ Withdraw(x) =>
                /\ manager' \in [Services -> BOOLEAN]
                /\ engine' \in [Services -> WireGuardConfig \cup Ikev2Config \cup {Nil}]
                /\ \A y \in Services : y # x => engine'[y] = engine[y] /\ manager'[y] = manager[y]
           /\ Run(x, c) => engine'[x] = c /\ manager'[x] = TRUE
           /\ Withdraw(x) => engine'[x] = Nil /\ manager'[x] = FALSE
BY Zenon DEF Run, Withdraw

\* The former engine is withdrawn.
LEMMA WireguardStopStep ==
    ASSUME SettingsInvariant, WireguardStop
    PROVE  SettingsInvariant'
<1>1. /\ request.op = "wireguard" /\ request.step = "stop" /\ Withdraw("wireguard") /\ Goto("start")
      /\ UNCHANGED <<file, disk, up, white_list, client_access, inherited, saving, lossy>>
  BY Zenon DEF WireguardStop, At, Lists
<1>2. /\ up /\ saving.op = "none" /\ request.cand \in WireGuardConfig /\ request.text \in Texts
      /\ request.todo = <<>>
  BY <1>1, SettingsParts, Zenon DEF Shaped
<1>3. /\ request' \in Updates /\ request'.op = "wireguard" /\ request'.step = "start"
      /\ request'.cand = request.cand /\ request'.text = request.text /\ request'.todo = <<>>
  BY <1>1, <1>2, SettingsParts, Went, Zenon
<1>4. /\ manager' \in [Services -> BOOLEAN]
      /\ engine' \in [Services -> WireGuardConfig \cup Ikev2Config \cup {Nil}]
      /\ engine'["ikev2"] = engine["ikev2"] /\ manager'["ikev2"] = manager["ikev2"]
      /\ engine'["wireguard"] = Nil /\ manager'["wireguard"] = FALSE
  BY <1>1, <1>2, SettingsParts, EngineChanges, Zenon DEF Services
<1>5. SettingsTypes' /\ Shaped' /\ ListsInStep' /\ CertificateKept'
  BY <1>1, <1>2, <1>3, <1>4, SettingsParts, WireguardFrame, Zenon
<1>6. Running'
  BY <1>1, <1>2, <1>3, <1>4, SettingsParts, StillAsSaved, Zenon DEF Running, Services
<1> QED BY <1>5, <1>6, Zenon DEF SettingsInvariant

\* The new one is started.
LEMMA WireguardStartStep ==
    ASSUME SettingsInvariant, WireguardStart
    PROVE  SettingsInvariant'
<1>1. /\ request.op = "wireguard" /\ request.step = "start"
      /\ UNCHANGED <<file, disk, up, white_list, client_access, inherited, saving>>
  BY Zenon DEF WireguardStart, At, Lists
<1>2. /\ up /\ saving.op = "none" /\ request.cand \in WireGuardConfig /\ request.text \in Texts
      /\ request.todo = <<>>
  BY <1>1, SettingsParts, Zenon DEF Shaped
<1>3. /\ engine["wireguard"] = Nil /\ ~manager["wireguard"] /\ file.wireguard = request.cand
      /\ file.ikev2 = request.text.ikev2
  BY <1>1, SettingsParts, Zenon DEF Running
<1>4. \A x \in {"ikev2", "access", "certificate"} : x \in lossy' <=> x \in lossy
  BY Zenon DEF WireguardStart
<1>5. manager["wireguard"] \in BOOLEAN
  BY SettingsParts, Zenon DEF Services
<1>6. CASE request' = NoRequest
  <2>1. /\ manager' \in [Services -> BOOLEAN]
        /\ engine' \in [Services -> WireGuardConfig \cup Ikev2Config \cup {Nil}]
        /\ engine'["ikev2"] = engine["ikev2"] /\ manager'["ikev2"] = manager["ikev2"]
        /\ engine'["wireguard"] = IF Enabled(file.wireguard) THEN file.wireguard ELSE Nil
        /\ manager'["wireguard"] = (engine'["wireguard"] # Nil)
    <3>1. CASE ~ request.cand.enabled
      BY <1>2, <1>3, <1>5, <3>1, SettingsParts, Zenon DEF WireguardStart, Enabled
    <3>2. CASE request.cand.enabled
      <4>1. Run("wireguard", request.cand)
        <5>1. ~ Goto("text")
          <6>1. Goto("text") => request'.step = "text"
            BY SettingsParts, Went, Zenon
          <6> QED BY <1>6, <6>1, Nones, Zenon
        <5> QED BY <3>2, <5>1, Zenon DEF WireguardStart
      <4> QED BY <1>2, <1>3, <3>2, <4>1, SettingsParts, EngineChanges, NilApart, Zenon DEF Enabled, Services
    <3> QED BY <3>1, <3>2, Zenon
  <2>2. engine'["wireguard"] \in WireGuardConfig \cup {Nil}
    BY <1>2, <1>3, <2>1, Zenon
  <2>3. SettingsTypes' /\ Shaped' /\ ListsInStep' /\ CertificateKept'
    BY <1>1, <1>2, <1>4, <1>6, <2>1, <2>2, SettingsParts, Nones, WireguardFrame, Zenon
  <2>4. Running'
    <3>1. AsSaved("wireguard", file)'
      BY <1>1, <2>1, SettingsParts, NowAsSaved, Zenon
    <3>2. "ikev2" \notin lossy' => AsSaved("ikev2", file)'
      BY <1>1, <1>2, <1>4, <2>1, SettingsParts, StillAsSaved, Zenon DEF Running, Services
    <3>3. \A x \in Services : engine'[x] # Nil => manager'[x]
      BY <2>1, SettingsParts DEF Running, Services
    <3> QED BY <1>1, <1>2, <1>6, <3>1, <3>2, <3>3, Nones, Zenon DEF Running, Services
  <2> QED BY <2>3, <2>4, Zenon DEF SettingsInvariant
<1>7. CASE request' # NoRequest
  <2>1. Goto("text") /\ UNCHANGED <<engine, manager>>
    BY <1>7, Zenon DEF WireguardStart, Ends
  <2>2. /\ request' \in Updates /\ request'.op = "wireguard" /\ request'.step = "text"
        /\ request'.cand = request.cand /\ request'.text = request.text /\ request'.todo = <<>>
    BY <1>1, <1>2, <2>1, SettingsParts, Went, Zenon
  <2>3. engine["wireguard"] \in WireGuardConfig \cup {Nil}
    BY <1>3, Zenon
  <2>4. SettingsTypes' /\ Shaped' /\ ListsInStep' /\ CertificateKept'
    BY <1>1, <1>2, <1>4, <2>1, <2>2, <2>3, SettingsParts, WireguardFrame, Zenon
  <2>5. Running'
    <3>1. "ikev2" \notin lossy' => AsSaved("ikev2", file)'
      BY <1>1, <1>2, <1>4, <2>1, SettingsParts, StillAsSaved, Zenon DEF Running, Services
    <3> QED BY <1>1, <1>2, <1>3, <2>1, <2>2, <3>1, SettingsParts, Zenon DEF Running, Services
  <2> QED BY <2>4, <2>5, Zenon DEF SettingsInvariant
<1> QED BY <1>6, <1>7, Zenon

\* The former text is written back.
LEMMA WireguardTextStep ==
    ASSUME SettingsInvariant, WireguardText
    PROVE  SettingsInvariant'
<1>1. /\ request.op = "wireguard" /\ request.step = "text" /\ Goto("again")
      /\ \/ file' = request.text /\ lossy' = lossy
         \/ file' = file /\ lossy' = lossy \cup {"wireguard"}
      /\ UNCHANGED <<disk, up, manager, engine, white_list, client_access, inherited, saving>>
  BY Zenon DEF WireguardText, At, memory, persist_config_text
<1>2. /\ up /\ saving.op = "none" /\ request.cand \in WireGuardConfig /\ request.text \in Texts
      /\ request.todo = <<>>
  BY <1>1, SettingsParts, Zenon DEF Shaped
<1>3. /\ engine["wireguard"] = Nil /\ ~manager["wireguard"] /\ file.ikev2 = request.text.ikev2
      /\ request.text.white_list = file.white_list /\ request.text.client_access = file.client_access
  BY <1>1, SettingsParts, Zenon DEF Running, ListsInStep, Services
<1>4. /\ request' \in Updates /\ request'.op = "wireguard" /\ request'.step = "again"
      /\ request'.cand = request.cand /\ request'.text = request.text /\ request'.todo = <<>>
  BY <1>1, <1>2, SettingsParts, Went, Zenon
<1>5. /\ file' \in Texts /\ file'.ikev2 = file.ikev2 /\ file'.white_list = file.white_list
      /\ file'.client_access = file.client_access
      /\ "wireguard" \notin lossy' => file'.wireguard = request.text.wireguard
      /\ \A x \in {"ikev2", "access", "certificate"} : x \in lossy' <=> x \in lossy
  BY <1>1, <1>2, <1>3, SettingsParts, Zenon
<1>6. SettingsTypes' /\ Shaped' /\ ListsInStep' /\ CertificateKept'
  BY <1>1, <1>2, <1>3, <1>4, <1>5, SettingsParts, WireguardFrame, Zenon
<1>7. Running'
  <2>1. "ikev2" \notin lossy' => AsSaved("ikev2", file)'
    BY <1>1, <1>2, <1>5, SettingsParts, StillAsSaved, Zenon DEF Running, Services
  <2> QED BY <1>1, <1>2, <1>3, <1>4, <1>5, <2>1, SettingsParts, Zenon DEF Running, Services
<1> QED BY <1>6, <1>7, Zenon DEF SettingsInvariant

\* The former service is started again.
LEMMA WireguardAgainStep ==
    ASSUME SettingsInvariant, WireguardAgain
    PROVE  SettingsInvariant'
<1>1. PICK p : p = request.text.wireguard
  BY Zenon
<1>2. /\ request.op = "wireguard" /\ request.step = "again" /\ request' = NoRequest
      /\ IF Enabled(p) /\ Starts("wireguard", p) THEN Run("wireguard", p) ELSE UNCHANGED <<engine, manager>>
      /\ lossy' = IF Enabled(p) /\ ~Starts("wireguard", p) THEN lossy \cup {"wireguard"} ELSE lossy
      /\ UNCHANGED <<file, disk, up, white_list, client_access, inherited, saving>>
  BY <1>1, Zenon DEF WireguardAgain, At, Lists, Ends
<1>3. up /\ saving.op = "none" /\ request.text \in Texts /\ p \in WireGuardConfig \cup {Nil}
  BY <1>1, <1>2, SettingsParts, Zenon DEF Shaped, Texts
<1>4. /\ engine["wireguard"] = Nil /\ ~manager["wireguard"]
      /\ "wireguard" \notin lossy => file.wireguard = p
  BY <1>1, <1>2, SettingsParts, Zenon DEF Running
<1>5. manager["wireguard"] \in BOOLEAN
  BY SettingsParts, Zenon DEF Services
<1>6. /\ manager' \in [Services -> BOOLEAN]
      /\ engine' \in [Services -> WireGuardConfig \cup Ikev2Config \cup {Nil}]
      /\ engine'["ikev2"] = engine["ikev2"] /\ manager'["ikev2"] = manager["ikev2"]
      /\ engine'["wireguard"] \in WireGuardConfig \cup {Nil}
      /\ manager'["wireguard"] = (engine'["wireguard"] # Nil)
      /\ "wireguard" \notin lossy' =>
           "wireguard" \notin lossy /\ engine'["wireguard"] = IF Enabled(p) THEN p ELSE Nil
      /\ \A x \in {"ikev2", "access", "certificate"} : x \in lossy' <=> x \in lossy
  <2>1. CASE Enabled(p) /\ Starts("wireguard", p)
    <3>1. p \in WireGuardConfig /\ Run("wireguard", p) /\ lossy' = lossy
      BY <1>2, <1>3, <2>1, Zenon DEF Enabled
    <3> QED BY <2>1, <3>1, SettingsParts, EngineChanges, NilApart, Zenon DEF Services
  <2>2. CASE ~ (Enabled(p) /\ Starts("wireguard", p))
    BY <1>2, <1>4, <1>5, <2>2, SettingsParts, Zenon
  <2> QED BY <2>1, <2>2, Zenon
<1>7. SettingsTypes' /\ Shaped' /\ ListsInStep' /\ CertificateKept'
  BY <1>2, <1>3, <1>6, SettingsParts, Nones, WireguardFrame, Zenon
<1>8. Running'
  <2>1. "wireguard" \notin lossy' => AsSaved("wireguard", file)'
    BY <1>2, <1>4, <1>6, SettingsParts, NowAsSaved, Zenon
  <2>2. "ikev2" \notin lossy' => AsSaved("ikev2", file)'
    BY <1>2, <1>3, <1>6, SettingsParts, StillAsSaved, Zenon DEF Running, Services
  <2>3. \A x \in Services : engine'[x] # Nil => manager'[x]
    BY <1>6, SettingsParts DEF Running, Services
  <2> QED BY <1>2, <1>3, <2>1, <2>2, <2>3, Nones, Zenon DEF Running, Services
<1> QED BY <1>7, <1>8, Zenon DEF SettingsInvariant

-----------------------------------------------------------------------------
(* The IKEv2 service.                                                       *)

\* What a step of an IKEv2 update leaves alone.
LEMMA Ikev2Frame ==
    ASSUME SettingsInvariant, file' \in Texts, disk' \in Disks, request' \in Updates,
           saving.op = "none", UNCHANGED <<up, white_list, client_access, inherited, saving>>, up,
           \A x \in {"wireguard", "access"} : x \in lossy' <=> x \in lossy,
           file'.wireguard = file.wireguard,
           file'.white_list = file.white_list, file'.client_access = file.client_access,
           manager' \in [Services -> BOOLEAN],
           engine' \in [Services -> WireGuardConfig \cup Ikev2Config \cup {Nil}],
           engine'["wireguard"] = engine["wireguard"], manager'["wireguard"] = manager["wireguard"],
           engine'["ikev2"] \in Ikev2Config \cup {Nil},
           request.op \in {"none", "ikev2"}, request'.op \in {"none", "ikev2"},
           request'.op = "none" => request' = NoRequest,
           request'.op = "ikev2" =>
             /\ request'.step \in {"files", "restore", "apply", "start", "fresh", "again", "text"}
             /\ request'.cand \in Ikev2Config /\ request'.backup \in Disks
             /\ request'.step \notin {"files", "restore"} => request'.todo = <<>>
             /\ request'.step = "restore" => request'.todo # <<>>
             /\ \/ request.op = "none" /\ request'.text = file
                \/ request.op = "ikev2" /\ request'.text = request.text
    PROVE  /\ SettingsTypes' /\ Shaped' /\ ListsInStep'
           /\ "wireguard" \notin lossy' => AsSaved("wireguard", file)'
<1>1. SettingsTypes'
  BY Zenon DEF SettingsInvariant, SettingsTypes
<1>2. request.op = "ikev2" => request.text \in Texts
  BY SettingsParts, Zenon DEF Shaped
<1>3. Shaped'
  BY <1>2, SettingsParts, Nones, Zenon DEF Shaped
<1>4. ListsInStep'
  BY SettingsParts, ListsKept, Zenon DEF Services
<1>5. "wireguard" \notin lossy' => AsSaved("wireguard", file)'
  BY SettingsParts, StillAsSaved, Zenon DEF Running, Services
<1> QED BY <1>1, <1>3, <1>4, <1>5, Zenon

\* IKEv2 runs from the former text.
LEMMA FormerRuns ==
    /\ request.text \in Texts =>
         (AsSaved("ikev2", request.text) <=>
            /\ engine["ikev2"] = IF Enabled(request.text.ikev2) THEN request.text.ikev2 ELSE Nil
            /\ manager["ikev2"] = (engine["ikev2"] # Nil))
    /\ request'.text \in Texts =>
         (AsSaved("ikev2", request.text)' <=>
            /\ engine'["ikev2"] = IF Enabled(request'.text.ikev2) THEN request'.text.ikev2 ELSE Nil
            /\ manager'["ikev2"] = (engine'["ikev2"] # Nil))
    /\ file \in Texts =>
         (AsSaved("ikev2", file) <=>
            /\ engine["ikev2"] = IF Enabled(file.ikev2) THEN file.ikev2 ELSE Nil
            /\ manager["ikev2"] = (engine["ikev2"] # Nil))
    /\ file' \in Texts =>
         (AsSaved("ikev2", file)' <=>
            /\ engine'["ikev2"] = IF Enabled(file'.ikev2) THEN file'.ikev2 ELSE Nil
            /\ manager'["ikev2"] = (engine'["ikev2"] # Nil))
<1>1. \A f \in Texts : Wanted(f)["ikev2"] = IF Enabled(f.ikev2) THEN f.ikev2 ELSE Nil
  BY WantedIs, Zenon
<1>2. Wanted(request.text)' = Wanted(request'.text) /\ Wanted(file)' = Wanted(file')
  BY Zenon DEF Wanted, Enabled
<1> QED BY <1>1, <1>2, Zenon DEF AsSaved

\* The section of IKEv2 is written.
LEMMA Ikev2Written ==
    ASSUME file \in Texts, NEW c \in Ikev2Config \cup {Nil}
    PROVE  /\ [file EXCEPT !.ikev2 = c] \in Texts
           /\ [file EXCEPT !.ikev2 = c].ikev2 = c
           /\ [file EXCEPT !.ikev2 = c].white_list = file.white_list
           /\ [file EXCEPT !.ikev2 = c].client_access = file.client_access
           /\ [file EXCEPT !.ikev2 = c].wireguard = file.wireguard
BY Zenon DEF Texts

\* An update is given up: the backup is to be put back.
LEMMA GivenUp ==
    ASSUME request \in Updates, request.backup \in Disks, GiveUp
    PROVE  /\ request' \in Updates /\ request'.op = request.op /\ request'.step = "restore"
           /\ request'.cand = request.cand /\ request'.text = request.text
           /\ request'.backup = request.backup /\ request'.todo = restore(request.backup)
           /\ request'.todo # <<>>
<1>1. restore(request.backup) \in Seq(Writes) /\ restore(request.backup) # <<>>
  BY RestoreTyped, Zenon
<1> QED BY <1>1, Zenon DEF GiveUp, Updates

\* The files are as they were when an update was given up.
LEMMA GivenUpCertificate ==
    ASSUME CertificateKept, request.op = "ikev2", request'.op = "ikev2", request'.step = "restore",
           request'.backup = request.backup, request'.todo = restore(request.backup),
           request'.todo # <<>>, Custom(file'.ikev2), request'.text = request.text,
           "certificate" \notin lossy' => "certificate" \notin lossy
    PROVE  CertificateKept'
BY Zenon DEF CertificateKept, Restoring, restore, Offered, Complete, Custom

\* An IKEv2 update begins.
LEMMA UpdateIkev2Step ==
    ASSUME SettingsInvariant, NEW b \in Ikev2Config, UpdateIkev2(b)
    PROVE  SettingsInvariant'
<1>1. PICK c \in Ikev2Config : c = merge_ikev2_service(b)
  BY MergedIs, Zenon
<1>2. /\ up /\ request = NoRequest /\ saving = NoSaving
      /\ UNCHANGED <<file, disk, up, manager, engine, white_list, client_access, inherited, saving, lossy>>
      /\ request' = [op |-> "ikev2", cand |-> Prepared(c), text |-> file, backup |-> disk,
                     step |-> IF Preparable(c, disk) THEN "files" ELSE "restore",
                     todo |-> IF Preparable(c, disk) THEN prepare_certificate(c, disk) ELSE restore(disk)]
  BY <1>1, Zenon DEF UpdateIkev2, LockFree, memory, backup_managed_certificate_files
<1>3. PICK todo : todo = IF Preparable(c, disk) THEN prepare_certificate(c, disk) ELSE restore(disk)
  BY Zenon
<1>4. /\ todo \in Seq(Writes) /\ (~Preparable(c, disk) => todo = restore(disk) /\ todo # <<>>)
      /\ Preparable(c, disk) /\ Offered(disk) /\ todo # <<>> => Completing(disk, todo)
  BY <1>3, SettingsParts, PreparedTyped, RestoreTyped, Zenon
<1>5. /\ request' \in Updates /\ request'.op = "ikev2" /\ request'.cand \in Ikev2Config
      /\ request'.text = file /\ request'.backup = disk /\ request'.todo = todo
      /\ request'.step = IF Preparable(c, disk) THEN "files" ELSE "restore"
  <2>1. Prepared(c) \in Ikev2Config /\ file \in Texts /\ disk \in Disks
    BY SettingsParts, PreparedIs, Zenon
  <2>2. PICK s \in {"files", "restore"} : s = IF Preparable(c, disk) THEN "files" ELSE "restore"
    BY Zenon
  <2>3. request' = [op |-> "ikev2", cand |-> Prepared(c), text |-> file, backup |-> disk, step |-> s,
                    todo |-> todo]
    BY <1>2, <1>3, <2>2, Zenon
  <2> QED BY <1>4, <2>1, <2>2, <2>3, Zenon DEF Updates
<1>6. /\ SettingsTypes' /\ Shaped' /\ ListsInStep'
      /\ "wireguard" \notin lossy' => AsSaved("wireguard", file)'
  <2>1. engine["ikev2"] \in Ikev2Config \cup {Nil}
    BY SettingsParts, Zenon DEF SettingsTypes
  <2> QED BY <1>2, <1>4, <1>5, <2>1, SettingsParts, Nones, Ikev2Frame, Zenon
<1>7. Running'
  <2>1. "ikev2" \notin lossy' => AsSaved("ikev2", request.text)'
    <3>1. "ikev2" \notin lossy => AsSaved("ikev2", file)
      BY <1>2, SettingsParts, Nones, Zenon DEF Running, Services
    <3> QED BY <1>2, <1>5, <3>1, SettingsParts, FormerRuns, Zenon
  <2> QED BY <1>2, <1>5, <1>6, <2>1, SettingsParts, Nones, Zenon DEF Running, Services
<1>8. CertificateKept'
  <2>1. Custom(file.ikev2) /\ ("certificate" \notin lossy => Offered(disk))
    BY <1>2, SettingsParts, Nones, Zenon DEF CertificateKept
  <2>2. request'.step = "restore" => Restoring(disk, request.backup, request.todo)'
    BY <1>2, <1>4, <1>5, Zenon DEF Restoring, restore
  <2>3. "certificate" \notin lossy' => Offered(disk)' /\ Offered(request.backup)'
    BY <1>2, <1>5, <2>1, Zenon DEF Offered, Complete
  <2>4. "certificate" \notin lossy' /\ request'.step = "files" /\ request'.todo # <<>> =>
          Completing(disk, request.todo)'
    <3>1. "certificate" \notin lossy /\ request'.step = "files" /\ todo # <<>> => Completing(disk, todo)
      BY <1>4, <1>5, <2>1, Zenon
    <3> QED BY <1>2, <1>5, <3>1, Zenon DEF Completing
  <2>5. Custom(file.ikev2)' /\ Custom(request.text.ikev2)'
    BY <1>2, <1>5, <2>1, Zenon DEF Custom
  <2> QED BY <1>5, <2>2, <2>3, <2>4, <2>5, Zenon DEF CertificateKept
<1> QED BY <1>6, <1>7, <1>8, Zenon DEF SettingsInvariant

-----------------------------------------------------------------------------
(* The files of the certificate.                                            *)

\* The fields of the files say what they are.
LEMMA SameFiles ==
    ASSUME NEW d \in Disks, NEW e \in Disks, d.cert = e.cert, d.key = e.key, d.ca = e.ca, d.cakey = e.cakey
    PROVE  d = e
BY DEF Disks

\* One more file of the backup is put back.
LEMMA RestoreGoesOn ==
    ASSUME NEW d \in Disks, NEW b \in Disks, NEW todo, Restoring(d, b, todo),
           NEW e, e = [d EXCEPT ![Head(todo)[1]] = Head(todo)[2]]
    PROVE  /\ Len(todo) = 1 => e = b
           /\ Len(todo) # 1 => Restoring(e, b, Tail(todo)) /\ Tail(todo) # <<>>
<1>2. CASE todo = restore(b)
  <2>1. Head(todo) = <<"cert", b.cert>> /\ Len(todo) = 4
        /\ Tail(todo) = <<<<"key", b.key>>, <<"ca", b.ca>>, <<"cakey", b.cakey>>>>
    BY <1>2 DEF restore
  <2>2. Head(todo)[1] = "cert" /\ Head(todo)[2] = b.cert
    BY <2>1
  <2>3. e.cert = b.cert
    BY <2>2, Zenon DEF Disks, KeyFiles, CertFiles, Certificates
  <2> QED BY <2>1, <2>3 DEF Restoring
<1>3. CASE todo = <<<<"key", b.key>>, <<"ca", b.ca>>, <<"cakey", b.cakey>>>> /\ d.cert = b.cert
  <2>1. Head(todo) = <<"key", b.key>> /\ Len(todo) = 3
        /\ Tail(todo) = <<<<"ca", b.ca>>, <<"cakey", b.cakey>>>>
    BY <1>3
  <2>2. Head(todo)[1] = "key" /\ Head(todo)[2] = b.key
    BY <2>1
  <2>3. e.key = b.key /\ e.cert = d.cert
    BY <2>2, Zenon DEF Disks, KeyFiles, CertFiles, Certificates
  <2> QED BY <1>3, <2>1, <2>3 DEF Restoring
<1>4. CASE todo = <<<<"ca", b.ca>>, <<"cakey", b.cakey>>>> /\ d.cert = b.cert /\ d.key = b.key
  <2>1. Head(todo) = <<"ca", b.ca>> /\ Len(todo) = 2 /\ Tail(todo) = <<<<"cakey", b.cakey>>>>
    BY <1>4
  <2>2. Head(todo)[1] = "ca" /\ Head(todo)[2] = b.ca
    BY <2>1
  <2>3. e.ca = b.ca /\ e.key = d.key /\ e.cert = d.cert
    BY <2>2, Zenon DEF Disks, KeyFiles, CertFiles, Certificates
  <2> QED BY <1>4, <2>1, <2>3 DEF Restoring
<1>5. CASE todo = <<<<"cakey", b.cakey>>>> /\ d.cert = b.cert /\ d.key = b.key /\ d.ca = b.ca
  <2>1. Head(todo) = <<"cakey", b.cakey>> /\ Len(todo) = 1
    BY <1>5
  <2>2. Head(todo)[1] = "cakey" /\ Head(todo)[2] = b.cakey
    BY <2>1
  <2>3. e \in Disks /\ e.cakey = b.cakey /\ e.ca = d.ca /\ e.key = d.key /\ e.cert = d.cert
    BY <2>2, Zenon DEF Disks, KeyFiles, CertFiles, Certificates
  <2> QED BY <1>5, <2>1, <2>3, SameFiles, Zenon
<1> QED BY <1>2, <1>3, <1>4, <1>5, Zenon DEF Restoring

\* The last write of a restore leaves the files of the backup.
LEMMA RestoreEnds ==
    ASSUME NEW d \in Disks, NEW b \in Disks, NEW todo, Restoring(d, b, todo), Len(todo) = 1,
           NEW e, e = [d EXCEPT ![Head(todo)[1]] = Head(todo)[2]]
    PROVE  e = b
BY RestoreGoesOn

\* One more file of a new certificate is written.
LEMMA CompletionGoesOn ==
    ASSUME NEW d \in Disks, NEW todo, Completing(d, todo),
           NEW e, e = [d EXCEPT ![Head(todo)[1]] = Head(todo)[2]]
    PROVE  /\ Tail(todo) = <<>> => Offered(e)
           /\ Tail(todo) # <<>> => Completing(e, Tail(todo))
<1>1. PICK k \in CertKeys, c \in Certificates :
        /\ c.issuer = k
        /\ \/ todo = <<<<"ca", k>>, <<"cakey", k>>, <<"cert", c>>, <<"key", c.key>>>>
           \/ todo = <<<<"cakey", k>>, <<"cert", c>>, <<"key", c.key>>>> /\ d.ca = k
           \/ todo = <<<<"cert", c>>, <<"key", c.key>>>> /\ d.ca = k /\ d.cakey = k
           \/ todo = <<<<"key", c.key>>>> /\ d.ca = k /\ d.cakey = k /\ d.cert = c
  BY Zenon DEF Completing
<1>2. c.issuer = k
  BY <1>1, Zenon
<1>3. CASE todo = <<<<"ca", k>>, <<"cakey", k>>, <<"cert", c>>, <<"key", c.key>>>>
  <2>1. Head(todo) = <<"ca", k>> /\ Tail(todo) = <<<<"cakey", k>>, <<"cert", c>>, <<"key", c.key>>>>
    BY <1>3
  <2>2. Head(todo)[1] = "ca" /\ Head(todo)[2] = k
    BY <2>1
  <2>3. e.ca = k
    BY <2>2, Zenon DEF Disks, KeyFiles, CertFiles, Certificates
  <2>4. Completing(e, Tail(todo))
    BY <1>2, <2>1, <2>3, Zenon DEF Completing
  <2> QED BY <2>1, <2>4
<1>4. CASE todo = <<<<"cakey", k>>, <<"cert", c>>, <<"key", c.key>>>> /\ d.ca = k
  <2>1. Head(todo) = <<"cakey", k>> /\ Tail(todo) = <<<<"cert", c>>, <<"key", c.key>>>>
    BY <1>4
  <2>2. Head(todo)[1] = "cakey" /\ Head(todo)[2] = k
    BY <2>1
  <2>3. e.cakey = k /\ e.ca = d.ca
    BY <2>2, Zenon DEF Disks, KeyFiles, CertFiles, Certificates
  <2>4. Completing(e, Tail(todo))
    BY <1>2, <1>4, <2>1, <2>3, Zenon DEF Completing
  <2> QED BY <2>1, <2>4
<1>5. CASE todo = <<<<"cert", c>>, <<"key", c.key>>>> /\ d.ca = k /\ d.cakey = k
  <2>1. Head(todo) = <<"cert", c>> /\ Tail(todo) = <<<<"key", c.key>>>>
    BY <1>5
  <2>2. Head(todo)[1] = "cert" /\ Head(todo)[2] = c
    BY <2>1
  <2>3. e.cert = c /\ e.ca = d.ca /\ e.cakey = d.cakey
    BY <2>2, Zenon DEF Disks, KeyFiles, CertFiles, Certificates
  <2>4. Completing(e, Tail(todo))
    BY <1>2, <1>5, <2>1, <2>3, Zenon DEF Completing
  <2> QED BY <2>1, <2>4
<1>6. CASE todo = <<<<"key", c.key>>>> /\ d.ca = k /\ d.cakey = k /\ d.cert = c
  <2>1. Head(todo) = <<"key", c.key>> /\ Tail(todo) = <<>>
    BY <1>6
  <2>2. Head(todo)[1] = "key" /\ Head(todo)[2] = c.key
    BY <2>1
  <2>3. e.key = c.key /\ e.ca = d.ca /\ e.cakey = d.cakey /\ e.cert = d.cert
    BY <2>2, Zenon DEF Disks, KeyFiles, CertFiles, Certificates
  <2> QED BY <1>1, <1>6, <2>1, <2>3, Zenon DEF Offered, Complete
<1> QED BY <1>1, <1>3, <1>4, <1>5, <1>6, Zenon

\* Who writes files.
LEMMA Writing ==
    ASSUME SettingsInvariant, request.todo # <<>>
    PROVE  /\ \/ request.op = "boot" /\ request.step = "files" /\ ~up
              \/ request.op = "ikev2" /\ request.step \in {"files", "restore"} /\ up
           /\ saving.op = "none" /\ request.text \in Texts
           /\ request.op = "ikev2" => request.backup \in Disks /\ request.cand \in Ikev2Config
           /\ request.op = "boot" => request.cand \in Ikev2Config \cup {Nil}
           /\ request.todo \in Seq(Writes) /\ Head(request.todo) \in Writes
           /\ [disk EXCEPT ![Head(request.todo)[1]] = Head(request.todo)[2]] \in Disks
           /\ [disk EXCEPT ![Head(request.todo)[1]] = Torn] \in Disks
<1>1. /\ request.todo \in Seq(Writes)
      /\ request.op \in {"none", "wireguard", "ikev2", "boot"}
  BY SettingsParts, Zenon DEF Updates
<1>2. Head(request.todo) \in Writes
  BY <1>1
<1>3. /\ [disk EXCEPT ![Head(request.todo)[1]] = Head(request.todo)[2]] \in Disks
      /\ [disk EXCEPT ![Head(request.todo)[1]] = Torn] \in Disks
  BY <1>2, SettingsParts, FileWritten, Zenon
<1> QED BY <1>1, <1>2, <1>3, SettingsParts, Nones, Zenon DEF Shaped

\* The rest is to be written.
LEMMA OneLess ==
    ASSUME request \in Updates, request.todo # <<>>, request' = [request EXCEPT !.todo = Tail(@)]
    PROVE  /\ request' \in Updates /\ request'.op = request.op /\ request'.step = request.step
           /\ request'.cand = request.cand /\ request'.text = request.text
           /\ request'.backup = request.backup /\ request'.todo = Tail(request.todo)
<1>1. request.todo \in Seq(Writes)
  BY Zenon DEF Updates
<1>2. Tail(request.todo) \in Seq(Writes)
  BY <1>1
<1> QED BY <1>2, Zenon DEF Updates

\* A step of an update that changes neither its place nor the services.
LEMMA RunningStays ==
    ASSUME Running, UNCHANGED <<file, engine, manager, up, lossy>>, request'.op = request.op,
           request'.step = request.step, request'.cand = request.cand, request'.text = request.text
    PROVE  Running'
<1>1. \A x \in Services : AsSaved(x, file)' <=> AsSaved(x, file)
  BY Zenon DEF AsSaved, Wanted, Enabled
<1>2. AsSaved("ikev2", request.text)' <=> AsSaved("ikev2", request.text)
  BY Zenon DEF AsSaved, Wanted, Enabled
<1> QED BY <1>1, <1>2, Zenon DEF Running

\* What a step of the start of the process leaves alone.
LEMMA BootFrame ==
    ASSUME SettingsInvariant, file' \in Texts, disk' \in Disks, request' \in Updates,
           ~up, UNCHANGED <<up, manager, engine, white_list, client_access, inherited, saving>>,
           "access" \in lossy' <=> "access" \in lossy,
           file'.white_list = file.white_list, file'.client_access = file.client_access,
           request'.op \in {"none", "boot"}, request'.op = "none" => request' = NoRequest,
           request'.op = "boot" =>
             /\ request'.step \in {"files", "key", "start"}
             /\ request'.cand \in Ikev2Config \cup {Nil} /\ request'.text \in Texts
             /\ request'.step # "files" => request'.todo = <<>>
    PROVE  SettingsTypes' /\ Shaped' /\ Running' /\ ListsInStep'
<1>1. SettingsTypes'
  BY Zenon DEF SettingsInvariant, SettingsTypes
<1>2. saving.op = "none"
  BY SettingsParts, Zenon DEF Shaped
<1>3. Shaped'
  BY <1>2, SettingsParts, Zenon DEF Shaped
<1>4. Running'
  BY SettingsParts, Zenon DEF Running
<1>5. ListsInStep'
  BY <1>2, SettingsParts, Zenon DEF ListsInStep, Services
<1> QED BY <1>1, <1>3, <1>4, <1>5, Zenon

\* One file is written.
LEMMA WriteFileStep ==
    ASSUME SettingsInvariant, WriteFile
    PROVE  SettingsInvariant'
<1>1. /\ request.todo # <<>>
      /\ disk' = [disk EXCEPT ![Head(request.todo)[1]] = Head(request.todo)[2]]
      /\ request' = IF request.step = "restore" /\ Len(request.todo) = 1 THEN NoRequest
                    ELSE [request EXCEPT !.todo = Tail(@)]
      /\ UNCHANGED <<file, up, manager, engine, white_list, client_access, inherited, saving, lossy>>
  BY Zenon DEF WriteFile, memory
<1>2. /\ \/ request.op = "boot" /\ request.step = "files" /\ ~up
         \/ request.op = "ikev2" /\ request.step \in {"files", "restore"} /\ up
      /\ saving.op = "none" /\ request.text \in Texts
      /\ request.op = "ikev2" => request.backup \in Disks /\ request.cand \in Ikev2Config
      /\ request.op = "boot" => request.cand \in Ikev2Config \cup {Nil}
      /\ request.todo \in Seq(Writes) /\ disk' \in Disks
  BY <1>1, Writing, Zenon
<1>3. PICK d : d = disk'
  BY Zenon
<1>d. disk \in Disks
  BY SettingsParts, Zenon
<1>4. /\ Custom(file.ikev2) /\ Custom(request.text.ikev2)
      /\ request.op = "boot" => Custom(request.cand)
      /\ request.step = "restore" => Restoring(disk, request.backup, request.todo)
      /\ "certificate" \notin lossy /\ request.step = "files" => Completing(disk, request.todo)
      /\ "certificate" \notin lossy /\ request.op = "ikev2" => Offered(request.backup)
  BY <1>1, <1>2, SettingsParts, Zenon DEF CertificateKept
<1>5. engine["ikev2"] \in Ikev2Config \cup {Nil}
  BY SettingsParts, Zenon DEF SettingsTypes
<1>6. CASE request.step = "restore" /\ Len(request.todo) = 1
  <2>1. request' = NoRequest /\ request.op = "ikev2"
    BY <1>1, <1>2, <1>6, Zenon
  <2>2. d = request.backup
    <3>1. PICK todo : todo = request.todo
      BY Zenon
    <3>2. PICK b \in Disks : b = request.backup
      BY <1>2, <2>1, Zenon
    <3>3. Restoring(disk, b, todo) /\ d = [disk EXCEPT ![Head(todo)[1]] = Head(todo)[2]] /\ Len(todo) = 1
      BY <1>1, <1>3, <1>4, <1>6, <3>1, <3>2, Zenon
    <3>4. d = b
      BY <3>3, <1>d, RestoreEnds
    <3> QED BY <3>2, <3>4, Zenon
  <2>3. /\ SettingsTypes' /\ Shaped' /\ ListsInStep'
        /\ "wireguard" \notin lossy' => AsSaved("wireguard", file)'
    BY <1>1, <1>2, <1>5, <2>1, SettingsParts, Nones, Ikev2Frame, Zenon
  <2>4. Running'
    <3>1. "ikev2" \notin lossy' => AsSaved("ikev2", file)'
      <4>1. "ikev2" \notin lossy => file = request.text /\ AsSaved("ikev2", request.text)
        BY <1>6, <2>1, SettingsParts, Zenon DEF Running
      <4>2. "ikev2" \notin lossy => AsSaved("ikev2", file)
        BY <4>1, Zenon
      <4> QED BY <1>1, <4>2, SettingsParts, StillAsSaved, Zenon
    <3> QED BY <1>1, <1>2, <2>1, <2>3, <3>1, SettingsParts, Nones, Zenon DEF Running, Services
  <2>5. CertificateKept'
    <3>1. "certificate" \notin lossy' => Offered(d)
      BY <1>1, <1>4, <2>1, <2>2, Zenon
    <3>2. "certificate" \notin lossy' => Offered(disk)'
      BY <1>3, <3>1, Zenon DEF Offered, Complete
    <3> QED BY <1>1, <1>4, <2>1, <3>2, Nones, Zenon DEF CertificateKept, Custom
  <2> QED BY <2>3, <2>4, <2>5, Zenon DEF SettingsInvariant
<1>7. CASE ~ (request.step = "restore" /\ Len(request.todo) = 1)
  <2>1. /\ request' \in Updates /\ request'.op = request.op /\ request'.step = request.step
        /\ request'.cand = request.cand /\ request'.text = request.text
        /\ request'.backup = request.backup /\ request'.todo = Tail(request.todo)
    BY <1>1, <1>7, SettingsParts, OneLess, Zenon
  <2>2. request.step = "restore" => Restoring(d, request.backup, Tail(request.todo)) /\ Tail(request.todo) # <<>>
    <3>1. SUFFICES ASSUME request.step = "restore"
                   PROVE  Restoring(d, request.backup, Tail(request.todo)) /\ Tail(request.todo) # <<>>
      BY Zenon
    <3>2. PICK todo : todo = request.todo
      BY Zenon
    <3>3. PICK b \in Disks : b = request.backup
      BY <1>2, <3>1, Zenon
    <3>4. Restoring(disk, b, todo) /\ d = [disk EXCEPT ![Head(todo)[1]] = Head(todo)[2]] /\ Len(todo) # 1
      BY <1>1, <1>3, <1>4, <1>7, <3>1, <3>2, <3>3, Zenon
    <3>5. Restoring(d, b, Tail(todo)) /\ Tail(todo) # <<>>
      BY <3>4, <1>d, RestoreGoesOn, Zenon
    <3> QED BY <3>2, <3>3, <3>5, Zenon
  <2>3. SettingsTypes' /\ Shaped' /\ Running' /\ ListsInStep'
    <3>1. CASE request.op = "ikev2"
      <4>1. SettingsTypes' /\ Shaped' /\ ListsInStep'
        BY <1>1, <1>2, <1>5, <2>1, <2>2, <3>1, SettingsParts, Ikev2Frame, Zenon
      <4> QED BY <1>1, <2>1, <4>1, SettingsParts, RunningStays, Zenon
    <3>2. CASE request.op = "boot"
      BY <1>1, <1>2, <2>1, <3>2, SettingsParts, BootFrame, Zenon
    <3> QED BY <1>2, <3>1, <3>2, Zenon
  <2>4. CertificateKept'
    <3>1. request'.step = "restore" => Restoring(disk, request.backup, request.todo)'
      BY <1>3, <2>1, <2>2, Zenon DEF Restoring, restore
    <3>2. "certificate" \notin lossy /\ request.step = "files" =>
            /\ Tail(request.todo) = <<>> => Offered(d)
            /\ Tail(request.todo) # <<>> => Completing(d, Tail(request.todo))
      BY <1>1, <1>3, <1>4, SettingsParts, CompletionGoesOn, Zenon
    <3>3. "certificate" \notin lossy' => (request'.todo = <<>> => Offered(disk)')
      <4>1. Offered(d) => Offered(disk)'
        BY <1>3, Zenon DEF Offered, Complete
      <4> QED BY <1>1, <1>2, <2>1, <2>2, <3>2, <4>1, Zenon
    <3>4. "certificate" \notin lossy' => (request'.step = "files" /\ request'.todo # <<>> =>
            Completing(disk, request.todo)')
      <4>1. Completing(d, Tail(request.todo)) => Completing(disk, request.todo)'
        BY <1>3, <2>1, Zenon DEF Completing
      <4> QED BY <1>1, <2>1, <3>2, <4>1, Zenon
    <3>5. "certificate" \notin lossy' => (request'.op = "ikev2" => Offered(request.backup)')
      BY <1>1, <1>4, <2>1, Zenon DEF Offered, Complete
    <3>6. Custom(file.ikev2)' /\ Custom(request.text.ikev2)' /\ (request'.op = "boot" => Custom(request.cand)')
      BY <1>1, <1>4, <2>1, Zenon DEF Custom
    <3> QED BY <3>1, <3>3, <3>4, <3>5, <3>6, Zenon DEF CertificateKept
  <2> QED BY <2>3, <2>4, Zenon DEF SettingsInvariant
<1> QED BY <1>6, <1>7, Zenon

-----------------------------------------------------------------------------
(* The files of the certificate, continued: failures, and the IKEv2 service. *)

\* An update that is not yet applied, or no longer, is given up or ends.
LEMMA BackToText ==
    ASSUME SettingsInvariant, request.op = "ikev2", request.step \in {"files", "restore"},
           disk' \in Disks, GiveUp \/ request' = NoRequest,
           UNCHANGED <<file, up, manager, engine, white_list, client_access, inherited, saving>>,
           \A x \in Services \cup {"access"} : x \in lossy' <=> x \in lossy
    PROVE  SettingsTypes' /\ Shaped' /\ Running' /\ ListsInStep'
<1>1. /\ up /\ saving.op = "none" /\ request.text \in Texts /\ request.backup \in Disks
      /\ request.cand \in Ikev2Config /\ engine["ikev2"] \in Ikev2Config \cup {Nil}
  BY SettingsParts, Zenon DEF Shaped, SettingsTypes
<1>2. "ikev2" \notin lossy => file = request.text /\ AsSaved("ikev2", request.text)
  BY SettingsParts, Zenon DEF Running
<1>3. "ikev2" \notin lossy' => AsSaved("ikev2", file)'
  <2>1. "ikev2" \notin lossy => AsSaved("ikev2", file)
    BY <1>2, Zenon
  <2> QED BY <2>1, SettingsParts, StillAsSaved, Zenon DEF Services
<1>4. CASE request' = NoRequest
  <2>1. /\ SettingsTypes' /\ Shaped' /\ ListsInStep'
        /\ "wireguard" \notin lossy' => AsSaved("wireguard", file)'
    BY <1>1, <1>4, SettingsParts, Nones, Ikev2Frame, Zenon DEF Services
  <2>2. Running'
    BY <1>1, <1>3, <1>4, <2>1, SettingsParts, Nones, Zenon DEF Running, Services
  <2> QED BY <2>1, <2>2, Zenon
<1>5. CASE GiveUp
  <2>1. /\ request' \in Updates /\ request'.op = request.op /\ request'.step = "restore"
        /\ request'.cand = request.cand /\ request'.text = request.text
        /\ request'.backup = request.backup /\ request'.todo # <<>>
    BY <1>1, <1>5, SettingsParts, GivenUp, Zenon
  <2>2. /\ SettingsTypes' /\ Shaped' /\ ListsInStep'
        /\ "wireguard" \notin lossy' => AsSaved("wireguard", file)'
    BY <1>1, <2>1, SettingsParts, Ikev2Frame, Zenon DEF Services
  <2>3. "ikev2" \notin lossy' => AsSaved("ikev2", request.text)'
    BY <1>1, <1>2, <2>1, FormerRuns, Zenon DEF Services
  <2>4. Running'
    BY <1>1, <1>2, <2>1, <2>2, <2>3, SettingsParts, Zenon DEF Running, Services
  <2> QED BY <2>2, <2>4, Zenon
<1> QED BY <1>4, <1>5, Zenon

\* One file cannot be written.
LEMMA WriteFailsStep ==
    ASSUME SettingsInvariant, WriteFails
    PROVE  SettingsInvariant'
<1>1. /\ request.todo # <<>>
      /\ disk' = disk \/ disk' = [disk EXCEPT ![Head(request.todo)[1]] = Torn]
      /\ IF request.op = "ikev2" /\ request.step = "files"
         THEN GiveUp /\ lossy' = lossy
         ELSE request' = NoRequest /\ lossy' = lossy \cup {"certificate"}
      /\ UNCHANGED <<file, up, manager, engine, white_list, client_access, inherited, saving>>
  BY Zenon DEF WriteFails, memory, GiveUp
<1>2. /\ \/ request.op = "boot" /\ request.step = "files" /\ ~up
         \/ request.op = "ikev2" /\ request.step \in {"files", "restore"} /\ up
      /\ request.op = "ikev2" => request.backup \in Disks
      /\ [disk EXCEPT ![Head(request.todo)[1]] = Torn] \in Disks
  BY <1>1, Writing, Zenon
<1>3. disk' \in Disks
  BY <1>1, <1>2, SettingsParts, Zenon
<1>4. \A x \in Services \cup {"access"} : x \in lossy' <=> x \in lossy
  BY <1>1, Zenon DEF Services
<1>5. SettingsTypes' /\ Shaped' /\ Running' /\ ListsInStep'
  <2>1. CASE request.op = "ikev2"
    BY <1>1, <1>2, <1>3, <1>4, <2>1, BackToText, Zenon
  <2>2. CASE request.op = "boot"
    BY <1>1, <1>2, <1>3, <1>4, <2>2, SettingsParts, Nones, BootFrame, Zenon
  <2> QED BY <1>2, <2>1, <2>2, Zenon
<1>6. Custom(file.ikev2)
  BY SettingsParts, Zenon DEF CertificateKept
<1>7. CertificateKept'
  <2>1. CASE request.op = "ikev2" /\ request.step = "files"
    <3>1. /\ request'.op = request.op /\ request'.step = "restore" /\ request'.text = request.text
          /\ request'.backup = request.backup /\ request'.todo = restore(request.backup)
          /\ request'.todo # <<>>
      BY <1>1, <1>2, <2>1, SettingsParts, GivenUp, Zenon
    <3> QED BY <1>1, <1>6, <2>1, <3>1, SettingsParts, GivenUpCertificate, Zenon
  <2>2. CASE ~ (request.op = "ikev2" /\ request.step = "files")
    BY <1>1, <1>6, <2>2, Nones, Zenon DEF CertificateKept, Custom
  <2> QED BY <2>1, <2>2, Zenon
<1> QED BY <1>5, <1>7, Zenon DEF SettingsInvariant

\* The certificate is loaded and the section saved, or the update is given up.
LEMMA Ikev2SaveStep ==
    ASSUME SettingsInvariant, Ikev2Save
    PROVE  SettingsInvariant'
<1>1. /\ request.op = "ikev2" /\ request.step = "files" /\ request.todo = <<>>
      /\ \/ /\ load_certificate(request.cand, disk) /\ file' = [file EXCEPT !.ikev2 = request.cand]
            /\ Goto("apply")
         \/ GiveUp /\ file' = file
      /\ UNCHANGED <<disk, up, manager, engine, white_list, client_access, inherited, saving, lossy>>
  BY Zenon DEF Ikev2Save, At, memory, update_ikev2_config, persist_config_text
<1>2. /\ up /\ saving.op = "none" /\ request.text \in Texts /\ request.backup \in Disks
      /\ request.cand \in Ikev2Config /\ engine["ikev2"] \in Ikev2Config \cup {Nil}
  BY <1>1, SettingsParts, Zenon DEF Shaped, SettingsTypes
<1>3. /\ file = request.text /\ Custom(file.ikev2) /\ Custom(request.text.ikev2)
      /\ "ikev2" \notin lossy => AsSaved("ikev2", request.text)
      /\ "certificate" \notin lossy => Offered(disk) /\ Offered(request.backup)
  BY <1>1, SettingsParts, Zenon DEF Running, CertificateKept
<1>4. CASE GiveUp /\ file' = file
  <2>1. SettingsTypes' /\ Shaped' /\ Running' /\ ListsInStep'
    BY <1>1, <1>4, SettingsParts, BackToText, Zenon
  <2>2. /\ request'.op = request.op /\ request'.step = "restore" /\ request'.text = request.text
        /\ request'.backup = request.backup /\ request'.todo = restore(request.backup)
        /\ request'.todo # <<>>
    BY <1>2, <1>4, SettingsParts, GivenUp, Zenon
  <2>3. CertificateKept'
    BY <1>1, <1>3, <1>4, <2>2, SettingsParts, GivenUpCertificate, Zenon
  <2> QED BY <2>1, <2>3, Zenon DEF SettingsInvariant
<1>5. CASE /\ load_certificate(request.cand, disk) /\ file' = [file EXCEPT !.ikev2 = request.cand]
           /\ Goto("apply")
  <2>1. /\ request' \in Updates /\ request'.step = "apply" /\ request'.op = "ikev2"
        /\ request'.cand = request.cand /\ request'.text = request.text
        /\ request'.backup = request.backup /\ request'.todo = <<>>
    BY <1>1, <1>5, SettingsParts, Went, Zenon
  <2>2. /\ file' \in Texts /\ file'.ikev2 = request.cand /\ file'.white_list = file.white_list
        /\ file'.client_access = file.client_access /\ file'.wireguard = file.wireguard
    BY <1>2, <1>5, SettingsParts, Ikev2Written, Zenon
  <2>3. /\ SettingsTypes' /\ Shaped' /\ ListsInStep'
        /\ "wireguard" \notin lossy' => AsSaved("wireguard", file)'
    BY <1>1, <1>2, <2>1, <2>2, SettingsParts, Ikev2Frame, Zenon
  <2>4. Running'
    <3>1. "ikev2" \notin lossy' => AsSaved("ikev2", request.text)'
      BY <1>1, <1>2, <1>3, <2>1, FormerRuns, Zenon
    <3> QED BY <1>1, <1>2, <1>3, <2>1, <2>2, <2>3, <3>1, SettingsParts, Zenon DEF Running, Services
  <2>5. CertificateKept'
    <3>1. Custom(file'.ikev2)
      BY <1>2, <1>5, <2>2, Zenon DEF load_certificate, is_managed_certificate, Custom
    <3> QED BY <1>1, <1>3, <2>1, <3>1, SettingsParts, CertificateFrame, Zenon
  <2> QED BY <2>3, <2>4, <2>5, Zenon DEF SettingsInvariant
<1> QED BY <1>1, <1>4, <1>5, Zenon

\* A step of applying an IKEv2 update.
LEMMA Ikev2Applies ==
    ASSUME SettingsInvariant, request.op = "ikev2", request.step \in {"apply", "start", "fresh", "again"},
           UNCHANGED <<file, disk, up, white_list, client_access, inherited, saving>>,
           \A x \in {"wireguard", "access", "certificate"} : x \in lossy' <=> x \in lossy,
           \/ request' = NoRequest
           \/ \E s \in {"start", "fresh", "again", "text"} : Goto(s),
           manager' \in [Services -> BOOLEAN],
           engine' \in [Services -> WireGuardConfig \cup Ikev2Config \cup {Nil}],
           engine'["wireguard"] = engine["wireguard"], manager'["wireguard"] = manager["wireguard"],
           engine'["ikev2"] \in Ikev2Config \cup {Nil}, engine'["ikev2"] # Nil => manager'["ikev2"],
           request'.step = "none" /\ "ikev2" \notin lossy' =>
             /\ engine'["ikev2"] = IF Enabled(file.ikev2) THEN file.ikev2 ELSE Nil
             /\ manager'["ikev2"] = (engine'["ikev2"] # Nil),
           request'.step \in {"start", "fresh"} => file.ikev2 = request.cand /\ request.cand.enabled,
           request'.step \in {"start", "fresh", "again"} => engine'["ikev2"] = Nil /\ ~manager'["ikev2"],
           request'.step \in {"fresh", "text"} /\ "ikev2" \notin lossy' =>
             /\ engine'["ikev2"] = IF Enabled(request.text.ikev2) THEN request.text.ikev2 ELSE Nil
             /\ manager'["ikev2"] = (engine'["ikev2"] # Nil)
    PROVE  SettingsInvariant'
<1>1. /\ up /\ saving.op = "none" /\ request.text \in Texts /\ request.backup \in Disks
      /\ request.cand \in Ikev2Config /\ request.todo = <<>>
  BY SettingsParts, Zenon DEF Shaped
<1>2. Custom(file.ikev2) /\ Custom(request.text.ikev2)
  BY SettingsParts, Zenon DEF CertificateKept
<1>3. CASE request' = NoRequest
  <2>1. /\ SettingsTypes' /\ Shaped' /\ ListsInStep'
        /\ "wireguard" \notin lossy' => AsSaved("wireguard", file)'
    BY <1>1, <1>3, SettingsParts, Nones, Ikev2Frame, Zenon
  <2>2. Running'
    <3>1. "ikev2" \notin lossy' => AsSaved("ikev2", file)'
      BY <1>3, SettingsParts, Nones, NowAsSaved, Zenon
    <3>2. \A x \in Services : engine'[x] # Nil => manager'[x]
      BY SettingsParts, Zenon DEF Running, Services
    <3> QED BY <1>1, <1>3, <2>1, <3>1, <3>2, Nones, Zenon DEF Running, Services
  <2>3. CertificateKept'
    BY <1>1, <1>2, <1>3, SettingsParts, Nones, CertificateFrame, Zenon
  <2> QED BY <2>1, <2>2, <2>3, Zenon DEF SettingsInvariant
<1>4. CASE \E s \in {"start", "fresh", "again", "text"} : Goto(s)
  <2>1. PICK s \in {"start", "fresh", "again", "text"} : Goto(s)
    BY <1>4, Zenon
  <2>2. /\ request' \in Updates /\ request'.step = s /\ request'.op = "ikev2"
        /\ request'.cand = request.cand /\ request'.text = request.text
        /\ request'.backup = request.backup /\ request'.todo = <<>>
    BY <1>1, <2>1, SettingsParts, Went, Zenon
  <2>3. /\ SettingsTypes' /\ Shaped' /\ ListsInStep'
        /\ "wireguard" \notin lossy' => AsSaved("wireguard", file)'
    BY <1>1, <2>2, SettingsParts, Ikev2Frame, Zenon
  <2>4. Running'
    <3>1. file.wireguard = request.text.wireguard
      BY SettingsParts, Zenon DEF Running
    <3>2. \A x \in Services : engine'[x] # Nil => manager'[x]
      BY SettingsParts, Zenon DEF Running, Services
    <3>3. request'.step \in {"fresh", "text"} /\ "ikev2" \notin lossy' => AsSaved("ikev2", request.text)'
      BY <1>1, <2>2, FormerRuns, Zenon
    <3> QED BY <1>1, <2>2, <2>3, <3>1, <3>2, <3>3, Zenon DEF Running, Services
  <2>5. CertificateKept'
    BY <1>1, <1>2, <2>2, SettingsParts, CertificateFrame, Zenon
  <2> QED BY <2>3, <2>4, <2>5, Zenon DEF SettingsInvariant
<1> QED BY <1>3, <1>4, Zenon

\* What an IKEv2 update finds when it is applied.
LEMMA Applying ==
    ASSUME SettingsInvariant, request.op = "ikev2", request.step \in {"apply", "start", "fresh", "again"}
    PROVE  /\ request.cand \in Ikev2Config /\ request.text \in Texts
           /\ request.text.ikev2 \in Ikev2Config \cup {Nil}
           /\ engine["ikev2"] \in Ikev2Config \cup {Nil} /\ manager["ikev2"] \in BOOLEAN
           /\ engine["ikev2"] # Nil => manager["ikev2"]
           /\ request.step # "again" => file.ikev2 = request.cand
           /\ request.step \in {"start", "fresh"} => request.cand.enabled
           /\ request.step # "apply" => engine["ikev2"] = Nil /\ ~manager["ikev2"]
           /\ request.step \in {"apply", "fresh"} /\ "ikev2" \notin lossy =>
                /\ engine["ikev2"] = IF Enabled(request.text.ikev2) THEN request.text.ikev2 ELSE Nil
                /\ manager["ikev2"] = (engine["ikev2"] # Nil)
<1>1. request.cand \in Ikev2Config /\ request.text \in Texts
  BY SettingsParts, Zenon DEF Shaped
<1>2. request.text.ikev2 \in Ikev2Config \cup {Nil}
  BY <1>1, Zenon DEF Texts
<1>3. engine["ikev2"] \in Ikev2Config \cup {Nil} /\ manager["ikev2"] \in BOOLEAN
  BY SettingsParts, Zenon DEF SettingsTypes, Services
<1>4. /\ engine["ikev2"] # Nil => manager["ikev2"]
      /\ request.step # "again" => file.ikev2 = request.cand
      /\ request.step \in {"start", "fresh"} => request.cand.enabled
      /\ request.step # "apply" => engine["ikev2"] = Nil /\ ~manager["ikev2"]
      /\ request.step \in {"apply", "fresh"} /\ "ikev2" \notin lossy => AsSaved("ikev2", request.text)
  BY SettingsParts, Zenon DEF Running, Services
<1> QED BY <1>1, <1>2, <1>3, <1>4, FormerRuns, Zenon

\* Where a step goes.
LEMMA WentOn ==
    ASSUME request \in Updates, NEW s \in {"start", "text", "again", "apply", "fresh", "key"}, Goto(s)
    PROVE  request'.step = s
BY Went, Zenon

\* The saved section is applied.
LEMMA Ikev2ApplyStep ==
    ASSUME SettingsInvariant, Ikev2Apply
    PROVE  SettingsInvariant'
<1>1. /\ request.op = "ikev2" /\ request.step = "apply"
      /\ UNCHANGED <<file, disk, up, white_list, client_access, inherited, saving>>
  BY Zenon DEF Ikev2Apply, At, Lists
<1>2. PICK p \in Ikev2Config \cup {Nil} : p = request.text.ikev2
  BY <1>1, Applying, Zenon
<1>3. PICK c \in Ikev2Config : c = request.cand
  BY <1>1, Applying, Zenon
<1>4. /\ engine["ikev2"] \in Ikev2Config \cup {Nil} /\ manager["ikev2"] \in BOOLEAN
      /\ engine["ikev2"] # Nil => manager["ikev2"]
      /\ file.ikev2 = c
      /\ "ikev2" \notin lossy => /\ engine["ikev2"] = IF Enabled(p) THEN p ELSE Nil
                                 /\ manager["ikev2"] = (engine["ikev2"] # Nil)
  BY <1>1, <1>2, <1>3, Applying, Zenon
<1>5. \/ p = c /\ request' = NoRequest /\ UNCHANGED <<engine, manager, lossy>>
      \/ ~c.enabled /\ Withdraw("ikev2") /\ request' = NoRequest /\ lossy' = lossy \ {"ikev2"}
      \/ c.enabled /\ Withdraw("ikev2") /\ Goto("start") /\ UNCHANGED lossy
      \/ /\ c.enabled /\ (p = Nil \/ ~Bound(p, c)) /\ engine["ikev2"] # Nil
         /\ Run("ikev2", [c EXCEPT !.bind = engine["ikev2"].bind]) /\ request' = NoRequest
         /\ lossy' = IF Bound(engine["ikev2"], c) THEN lossy ELSE lossy \ {"ikev2"}
      \/ c.enabled /\ Withdraw("ikev2") /\ Goto("again") /\ UNCHANGED lossy
      \/ c.enabled /\ ~manager["ikev2"] /\ Goto("fresh") /\ UNCHANGED <<engine, manager, lossy>>
  BY <1>2, <1>3, Zenon DEF Ikev2Apply, Ends
<1>6. CASE p = c /\ request' = NoRequest /\ UNCHANGED <<engine, manager, lossy>>
  BY <1>1, <1>4, <1>6, SettingsParts, Nones, Ikev2Applies, Zenon
<1>7. CASE ~c.enabled /\ Withdraw("ikev2") /\ request' = NoRequest /\ lossy' = lossy \ {"ikev2"}
  <2>1. /\ manager' \in [Services -> BOOLEAN]
        /\ engine' \in [Services -> WireGuardConfig \cup Ikev2Config \cup {Nil}]
        /\ engine'["wireguard"] = engine["wireguard"] /\ manager'["wireguard"] = manager["wireguard"]
        /\ engine'["ikev2"] = Nil /\ manager'["ikev2"] = FALSE
    BY <1>7, SettingsParts, EngineChanges, Zenon DEF Services
  <2>2. ~Enabled(file.ikev2)
    BY <1>4, <1>7, Zenon DEF Enabled
  <2> QED BY <1>1, <1>7, <2>1, <2>2, Nones, Ikev2Applies, Zenon
<1>8. CASE /\ c.enabled /\ Withdraw("ikev2") /\ (Goto("start") \/ Goto("again")) /\ UNCHANGED lossy
  <2>1. /\ manager' \in [Services -> BOOLEAN]
        /\ engine' \in [Services -> WireGuardConfig \cup Ikev2Config \cup {Nil}]
        /\ engine'["wireguard"] = engine["wireguard"] /\ manager'["wireguard"] = manager["wireguard"]
        /\ engine'["ikev2"] = Nil /\ manager'["ikev2"] = FALSE
    BY <1>8, SettingsParts, EngineChanges, Zenon DEF Services
  <2>2. request'.step \in {"start", "again"}
    BY <1>8, SettingsParts, WentOn, Zenon
  <2> QED BY <1>1, <1>3, <1>4, <1>8, <2>1, <2>2, Ikev2Applies, Zenon
<1>9. CASE c.enabled /\ ~manager["ikev2"] /\ Goto("fresh") /\ UNCHANGED <<engine, manager, lossy>>
  <2>1. request'.step = "fresh"
    BY <1>9, SettingsParts, WentOn, Zenon
  <2> QED BY <1>1, <1>2, <1>3, <1>4, <1>9, <2>1, SettingsParts, Ikev2Applies, Zenon
<1>10. CASE /\ c.enabled /\ (p = Nil \/ ~Bound(p, c)) /\ engine["ikev2"] # Nil
            /\ Run("ikev2", [c EXCEPT !.bind = engine["ikev2"].bind]) /\ request' = NoRequest
            /\ lossy' = IF Bound(engine["ikev2"], c) THEN lossy ELSE lossy \ {"ikev2"}
  <2>1. PICK r \in Ikev2Config : r = [c EXCEPT !.bind = engine["ikev2"].bind]
    BY <1>4, <1>10, Zenon DEF Ikev2Config
  <2>2. /\ manager' \in [Services -> BOOLEAN]
        /\ engine' \in [Services -> WireGuardConfig \cup Ikev2Config \cup {Nil}]
        /\ engine'["wireguard"] = engine["wireguard"] /\ manager'["wireguard"] = manager["wireguard"]
        /\ engine'["ikev2"] = r /\ manager'["ikev2"] = TRUE
    <3>1. Run("ikev2", r)
      BY <1>10, <2>1, Zenon
    <3> QED BY <3>1, SettingsParts, EngineChanges, Zenon DEF Services
  <2>3. "ikev2" \notin lossy' => r = c
    <3>1. "ikev2" \notin lossy' => engine["ikev2"].bind = c.bind
      BY <1>4, <1>10, Zenon DEF Bound
    <3> QED BY <2>1, <3>1, Zenon DEF Ikev2Config
  <2>4. Enabled(file.ikev2) /\ r # Nil
    BY <1>4, <1>10, NilApart, Zenon DEF Enabled
  <2>5. \A x \in {"wireguard", "access", "certificate"} : x \in lossy' <=> x \in lossy
    BY <1>10, Zenon
  <2>6. engine'["ikev2"] \in Ikev2Config \cup {Nil} /\ (engine'["ikev2"] # Nil => manager'["ikev2"])
    BY <2>2, Zenon
  <2>7. "ikev2" \notin lossy' => /\ engine'["ikev2"] = IF Enabled(file.ikev2) THEN file.ikev2 ELSE Nil
                                 /\ manager'["ikev2"] = (engine'["ikev2"] # Nil)
    BY <1>4, <2>2, <2>3, <2>4, Zenon
  <2> QED BY <1>1, <1>10, <2>2, <2>5, <2>6, <2>7, Nones, Ikev2Applies, Zenon
<1> QED BY <1>5, <1>6, <1>7, <1>8, <1>9, <1>10, Zenon

\* The first start.
LEMMA Ikev2StartStep ==
    ASSUME SettingsInvariant, Ikev2Start
    PROVE  SettingsInvariant'
<1>1. /\ request.op = "ikev2" /\ request.step \in {"start", "fresh"}
      /\ UNCHANGED <<file, disk, up, white_list, client_access, inherited, saving>>
  BY Zenon DEF Ikev2Start, Lists
<1>2. /\ request.cand \in Ikev2Config /\ file.ikev2 = request.cand /\ request.cand.enabled
      /\ engine["ikev2"] = Nil /\ ~manager["ikev2"]
      /\ request.step = "fresh" /\ "ikev2" \notin lossy =>
           /\ engine["ikev2"] = IF Enabled(request.text.ikev2) THEN request.text.ikev2 ELSE Nil
           /\ manager["ikev2"] = (engine["ikev2"] # Nil)
  BY <1>1, Applying, Zenon
<1>3. CASE Run("ikev2", request.cand) /\ request' = NoRequest /\ lossy' = lossy \ {"ikev2"}
  <2>1. /\ manager' \in [Services -> BOOLEAN]
        /\ engine' \in [Services -> WireGuardConfig \cup Ikev2Config \cup {Nil}]
        /\ engine'["wireguard"] = engine["wireguard"] /\ manager'["wireguard"] = manager["wireguard"]
        /\ engine'["ikev2"] = request.cand /\ manager'["ikev2"] = TRUE
    BY <1>2, <1>3, SettingsParts, EngineChanges, Zenon DEF Services
  <2>2. Enabled(file.ikev2) /\ request.cand # Nil
    BY <1>2, NilApart, Zenon DEF Enabled
  <2> QED BY <1>1, <1>2, <1>3, <2>1, <2>2, Nones, Ikev2Applies, Zenon
<1>4. CASE /\ Goto(IF request.step = "start" THEN "again" ELSE "text")
           /\ UNCHANGED <<engine, manager, lossy>>
  <2>1. CASE request.step = "start"
    <3>1. Goto("again")
      BY <1>4, <2>1, Zenon
    <3>2. request'.step = "again"
      BY <3>1, SettingsParts, WentOn, Zenon
    <3> QED BY <1>1, <1>2, <1>4, <3>1, <3>2, SettingsParts, Ikev2Applies, Zenon
  <2>2. CASE request.step = "fresh"
    <3>1. Goto("text")
      BY <1>4, <2>2, Zenon
    <3>2. request'.step = "text"
      BY <3>1, SettingsParts, WentOn, Zenon
    <3> QED BY <1>1, <1>2, <1>4, <2>2, <3>1, <3>2, SettingsParts, Ikev2Applies, Zenon
  <2> QED BY <1>1, <2>1, <2>2, Zenon
<1> QED BY <1>3, <1>4, Zenon DEF Ikev2Start, Ends

\* The former service is started again.
LEMMA Ikev2AgainStep ==
    ASSUME SettingsInvariant, Ikev2Again
    PROVE  SettingsInvariant'
<1>1. PICK p : p = request.text.ikev2
  BY Zenon
<1>2. /\ request.op = "ikev2" /\ request.step = "again" /\ Goto("text")
      /\ IF Enabled(p) /\ Starts("ikev2", p) THEN Run("ikev2", p) ELSE UNCHANGED <<engine, manager>>
      /\ lossy' = IF Enabled(p) /\ ~(Enabled(p) /\ Starts("ikev2", p)) THEN lossy \cup {"ikev2"} ELSE lossy
      /\ UNCHANGED <<file, disk, up, white_list, client_access, inherited, saving>>
  BY <1>1, Zenon DEF Ikev2Again, At, Lists
<1>3. p \in Ikev2Config \cup {Nil} /\ engine["ikev2"] = Nil /\ ~manager["ikev2"]
  BY <1>1, <1>2, Applying, Zenon
<1>4. request'.step = "text"
  BY <1>2, SettingsParts, WentOn, Zenon
<1>5. CASE Enabled(p) /\ Starts("ikev2", p)
  <2>1. p \in Ikev2Config /\ p # Nil /\ Run("ikev2", p) /\ lossy' = lossy
    BY <1>2, <1>3, <1>5, NilApart, Zenon DEF Enabled
  <2>2. /\ manager' \in [Services -> BOOLEAN]
        /\ engine' \in [Services -> WireGuardConfig \cup Ikev2Config \cup {Nil}]
        /\ engine'["wireguard"] = engine["wireguard"] /\ manager'["wireguard"] = manager["wireguard"]
        /\ engine'["ikev2"] = p /\ manager'["ikev2"] = TRUE
    BY <2>1, SettingsParts, EngineChanges, Zenon DEF Services
  <2> QED BY <1>1, <1>2, <1>4, <1>5, <2>1, <2>2, Ikev2Applies, Zenon
<1>6. CASE ~ (Enabled(p) /\ Starts("ikev2", p))
  <2>1. UNCHANGED <<engine, manager>> /\ ("ikev2" \notin lossy' => ~Enabled(p))
    BY <1>2, <1>6, Zenon
  <2>2. \A x \in {"wireguard", "access", "certificate"} : x \in lossy' <=> x \in lossy
    BY <1>2, Zenon
  <2>3. manager["ikev2"] = (engine["ikev2"] # Nil)
    BY <1>2, <1>3, Applying, Zenon
  <2> QED BY <1>1, <1>2, <1>3, <1>4, <2>1, <2>2, <2>3, SettingsParts, Ikev2Applies, Zenon
<1> QED BY <1>5, <1>6, Zenon

\* The former text is written back, and the backup is to be.
LEMMA Ikev2TextStep ==
    ASSUME SettingsInvariant, Ikev2Text
    PROVE  SettingsInvariant'
<1>1. /\ request.op = "ikev2" /\ request.step = "text" /\ GiveUp
      /\ \/ file' = request.text /\ lossy' = lossy
         \/ file' = file /\ lossy' = lossy \cup {"ikev2"}
      /\ UNCHANGED <<disk, up, manager, engine, white_list, client_access, inherited, saving>>
  BY Zenon DEF Ikev2Text, At, Lists, persist_config_text
<1>2. /\ up /\ saving.op = "none" /\ request.text \in Texts /\ request.backup \in Disks
      /\ request.cand \in Ikev2Config /\ engine["ikev2"] \in Ikev2Config \cup {Nil}
  BY <1>1, SettingsParts, Zenon DEF Shaped, SettingsTypes
<1>3. /\ file.wireguard = request.text.wireguard /\ Custom(file.ikev2) /\ Custom(request.text.ikev2)
      /\ request.text.white_list = file.white_list /\ request.text.client_access = file.client_access
      /\ "ikev2" \notin lossy => AsSaved("ikev2", request.text)
  BY <1>1, SettingsParts, Zenon DEF Running, ListsInStep, Services, CertificateKept
<1>4. /\ request' \in Updates /\ request'.op = request.op /\ request'.step = "restore"
      /\ request'.cand = request.cand /\ request'.text = request.text
      /\ request'.backup = request.backup /\ request'.todo = restore(request.backup)
      /\ request'.todo # <<>>
  BY <1>1, <1>2, SettingsParts, GivenUp, Zenon
<1>5. /\ file' \in Texts /\ file'.wireguard = file.wireguard /\ file'.white_list = file.white_list
      /\ file'.client_access = file.client_access /\ Custom(file'.ikev2)
      /\ "ikev2" \notin lossy' => file' = request.text /\ "ikev2" \notin lossy
      /\ \A x \in {"wireguard", "access", "certificate"} : x \in lossy' <=> x \in lossy
  BY <1>1, <1>2, <1>3, SettingsParts, Zenon
<1>6. /\ SettingsTypes' /\ Shaped' /\ ListsInStep'
      /\ "wireguard" \notin lossy' => AsSaved("wireguard", file)'
  BY <1>1, <1>2, <1>4, <1>5, SettingsParts, Ikev2Frame, Zenon
<1>7. Running'
  <2>1. "ikev2" \notin lossy' => AsSaved("ikev2", request.text)'
    BY <1>1, <1>2, <1>3, <1>4, <1>5, FormerRuns, Zenon
  <2> QED BY <1>1, <1>2, <1>3, <1>4, <1>5, <1>6, <2>1, SettingsParts, Zenon DEF Running, Services
<1>8. CertificateKept'
  BY <1>1, <1>4, <1>5, SettingsParts, GivenUpCertificate, Zenon
<1> QED BY <1>6, <1>7, <1>8, Zenon DEF SettingsInvariant

-----------------------------------------------------------------------------
(* The process.                                                             *)

\* The start prepares the certificate.
LEMMA BootStep ==
    ASSUME SettingsInvariant, Boot
    PROVE  SettingsInvariant'
<1>1. PICK c \in Ikev2Config \cup {Nil} : c = file.ikev2
  BY SettingsParts, Zenon DEF Texts
<1>2. /\ ~up /\ request = NoRequest /\ saving = NoSaving /\ (Enabled(c) => Preparable(c, disk))
      /\ UNCHANGED <<file, disk, up, manager, engine, white_list, client_access, inherited, saving, lossy>>
      /\ request' = [NoRequest EXCEPT
                       !.op = "boot", !.step = "files", !.text = file,
                       !.cand = IF Enabled(c) THEN Prepared(c) ELSE c,
                       !.todo = IF Enabled(c) THEN prepare_certificate(c, disk) ELSE <<>>]
  BY <1>1, Zenon DEF Boot, LockFree, memory
<1>3. PICK todo : todo = IF Enabled(c) THEN prepare_certificate(c, disk) ELSE <<>>
  BY Zenon
<1>4. PICK n : n = IF Enabled(c) THEN Prepared(c) ELSE c
  BY Zenon
<1>5. /\ todo \in Seq(Writes) /\ (Offered(disk) /\ todo # <<>> => Completing(disk, todo))
      /\ n \in Ikev2Config \cup {Nil} /\ (Custom(c) => Custom(n))
  <2>1. CASE Enabled(c)
    <3>1. c \in Ikev2Config /\ Preparable(c, disk)
      BY <1>2, <2>1, Zenon DEF Enabled
    <3>2. n = Prepared(c) /\ todo = prepare_certificate(c, disk)
      BY <1>3, <1>4, <2>1, Zenon
    <3>3. n \in Ikev2Config /\ n.id = c.id /\ (n.cert = "custom" <=> c.cert = "custom")
      BY <3>1, <3>2, PreparedIs, Zenon
    <3>4. Custom(c) => Custom(n)
      BY <3>1, <3>3, NilApart, Zenon DEF Custom
    <3>5. todo \in Seq(Writes) /\ (Offered(disk) /\ todo # <<>> => Completing(disk, todo))
      BY <3>1, <3>2, SettingsParts, PreparedTyped, Zenon
    <3> QED BY <3>3, <3>4, <3>5, Zenon
  <2>2. CASE ~ Enabled(c)
    BY <1>3, <1>4, <2>2
  <2> QED BY <2>1, <2>2, Zenon
<1>6. /\ request' \in Updates /\ request'.op = "boot" /\ request'.step = "files" /\ request'.text = file
      /\ request'.cand = n /\ request'.todo = todo
  <2>1. request' = [NoRequest EXCEPT !.op = "boot", !.step = "files", !.text = file, !.cand = n, !.todo = todo]
    BY <1>2, <1>3, <1>4, Zenon
  <2> QED BY <1>5, <2>1, SettingsParts, Zenon DEF NoRequest, Updates
<1>7. SettingsTypes' /\ Shaped' /\ Running' /\ ListsInStep'
  BY <1>2, <1>5, <1>6, SettingsParts, BootFrame, Zenon
<1>8. CertificateKept'
  <2>1. Custom(c) /\ ("certificate" \notin lossy => Offered(disk))
    BY <1>1, <1>2, SettingsParts, Nones, Zenon DEF CertificateKept
  <2>2. "certificate" \notin lossy' => Offered(disk)'
    BY <1>2, <2>1, Zenon DEF Offered, Complete
  <2>3. "certificate" \notin lossy' /\ request'.todo # <<>> => Completing(disk, request.todo)'
    <3>1. "certificate" \notin lossy /\ todo # <<>> => Completing(disk, todo)
      BY <1>5, <2>1, Zenon
    <3> QED BY <1>2, <1>6, <3>1, Zenon DEF Completing
  <2>4. Custom(file.ikev2)' /\ Custom(request.text.ikev2)' /\ Custom(request.cand)'
    BY <1>1, <1>2, <1>5, <1>6, <2>1, Zenon DEF Custom
  <2> QED BY <1>6, <2>2, <2>3, <2>4, Zenon DEF CertificateKept
<1> QED BY <1>7, <1>8, Zenon DEF SettingsInvariant

\* A later step of the start, or its end.
LEMMA BootGoesOn ==
    ASSUME SettingsInvariant, request.op = "boot", request.todo = <<>>, file' \in Texts,
           UNCHANGED <<disk, up, manager, engine, white_list, client_access, inherited, saving, lossy>>,
           file'.white_list = file.white_list, file'.client_access = file.client_access, Custom(file'.ikev2),
           request' = NoRequest \/ Goto("key") \/ Goto("start")
    PROVE  SettingsInvariant'
<1>1. ~up /\ request.cand \in Ikev2Config \cup {Nil} /\ request.text \in Texts
  BY SettingsParts, Zenon DEF Shaped
<1>2. Custom(request.cand) /\ Custom(request.text.ikev2)
  BY SettingsParts, Zenon DEF CertificateKept
<1>3. CASE request' = NoRequest
  <2>1. SettingsTypes' /\ Shaped' /\ Running' /\ ListsInStep'
    BY <1>1, <1>3, SettingsParts, Nones, BootFrame, Zenon
  <2>2. CertificateKept'
    BY <1>3, SettingsParts, Nones, CertificateFrame, Zenon
  <2> QED BY <2>1, <2>2, Zenon DEF SettingsInvariant
<1>4. CASE Goto("key") \/ Goto("start")
  <2>1. /\ request' \in Updates /\ request'.step \in {"key", "start"} /\ request'.op = "boot"
        /\ request'.cand = request.cand /\ request'.text = request.text /\ request'.todo = <<>>
    BY <1>4, SettingsParts, Went, Zenon
  <2>2. SettingsTypes' /\ Shaped' /\ Running' /\ ListsInStep'
    BY <1>1, <2>1, SettingsParts, BootFrame, Zenon
  <2>3. CertificateKept'
    BY <1>2, <2>1, SettingsParts, CertificateFrame, Zenon
  <2> QED BY <2>2, <2>3, Zenon DEF SettingsInvariant
<1> QED BY <1>3, <1>4, Zenon

\* The start loads the certificate and saves what the preparation changed.
LEMMA BootIkev2Step ==
    ASSUME SettingsInvariant, BootIkev2
    PROVE  SettingsInvariant'
<1>1. /\ request.op = "boot" /\ request.todo = <<>>
      /\ \/ file' = [file EXCEPT !.ikev2 = request.cand] /\ Goto("key")
         \/ file' = file /\ request' = NoRequest
      /\ UNCHANGED <<disk, up, manager, engine, white_list, client_access, inherited, saving, lossy>>
  BY Zenon DEF BootIkev2, At, memory, update_ikev2_config, persist_config_text
<1>2. request.cand \in Ikev2Config \cup {Nil} /\ Custom(request.cand) /\ Custom(file.ikev2)
  BY <1>1, SettingsParts, Zenon DEF Shaped, CertificateKept
<1>3. /\ file' \in Texts /\ file'.white_list = file.white_list
      /\ file'.client_access = file.client_access /\ Custom(file'.ikev2)
  BY <1>1, <1>2, SettingsParts, Ikev2Written, Zenon
<1> QED BY <1>1, <1>3, BootGoesOn, Zenon

\* The start generates a key for WireGuard.
LEMMA BootWireguardStep ==
    ASSUME SettingsInvariant, NEW k \in WgKeys, BootWireguard(k)
    PROVE  SettingsInvariant'
<1>1. PICK c \in WireGuardConfig \cup {Nil} : c = file.wireguard
  BY SettingsParts, Zenon DEF Texts
<1>2. /\ request.op = "boot" /\ request.step = "key"
      /\ \/ c # Nil /\ file' = [file EXCEPT !.wireguard = [c EXCEPT !.key = k]] /\ Goto("start")
         \/ file' = file /\ Goto("start")
         \/ file' = file /\ request' = NoRequest
      /\ UNCHANGED <<disk, up, manager, engine, white_list, client_access, inherited, saving, lossy>>
  BY <1>1, Zenon DEF BootWireguard, At, memory, update_wireguard_config, persist_config_text, Enabled
<1>3. request.todo = <<>> /\ Custom(file.ikev2)
  BY <1>2, SettingsParts, Zenon DEF Shaped, CertificateKept
<1>4. c # Nil => [c EXCEPT !.key = k] \in WireGuardConfig
  BY Zenon DEF WireGuardConfig
<1>5. /\ file' \in Texts /\ file'.white_list = file.white_list
      /\ file'.client_access = file.client_access /\ Custom(file'.ikev2)
  <2>1. CASE c # Nil /\ file' = [file EXCEPT !.wireguard = [c EXCEPT !.key = k]]
    <3>1. PICK n \in WireGuardConfig : n = [c EXCEPT !.key = k]
      BY <1>4, <2>1, Zenon
    <3>2. file' = [file EXCEPT !.wireguard = n]
      BY <2>1, <3>1, Zenon
    <3> QED BY <1>3, <3>2, SettingsParts, WireguardWritten, Zenon
  <2>2. CASE file' = file
    BY <1>3, <2>2, SettingsParts, Zenon
  <2> QED BY <1>2, <2>1, <2>2, Zenon
<1> QED BY <1>2, <1>3, <1>5, BootGoesOn, Zenon

\* The start ends.
LEMMA BootStartStep ==
    ASSUME SettingsInvariant, BootStart
    PROVE  SettingsInvariant'
<1>1. /\ request.op = "boot" /\ request.step = "start" /\ request' = NoRequest
      /\ \/ /\ up' = TRUE /\ engine' = Wanted(file)
            /\ manager' = [x \in Services |-> Wanted(file)[x] # Nil]
            /\ white_list' = file.white_list /\ client_access' = file.client_access
            /\ lossy' = lossy \ Services
         \/ UNCHANGED <<up, engine, manager, white_list, client_access, lossy>>
      /\ UNCHANGED <<file, disk, inherited, saving>>
  BY Zenon DEF BootStart, At
<1>2. request.todo = <<>> /\ Custom(file.ikev2) /\ saving.op = "none" /\ saving = NoSaving
  BY <1>1, SettingsParts, Zenon DEF Shaped, CertificateKept
<1>3. CASE UNCHANGED <<up, engine, manager, white_list, client_access, lossy>>
  BY <1>1, <1>2, <1>3, SettingsParts, BootGoesOn, Zenon
<1>4. CASE /\ up' = TRUE /\ engine' = Wanted(file)
           /\ manager' = [x \in Services |-> Wanted(file)[x] # Nil]
           /\ white_list' = file.white_list /\ client_access' = file.client_access
           /\ lossy' = lossy \ Services
  <2>1. /\ file.wireguard \in WireGuardConfig \cup {Nil} /\ file.ikev2 \in Ikev2Config \cup {Nil}
        /\ file.client_access \in Servers \cup {Nil}
    BY SettingsParts, Zenon DEF Texts
  <2>2. /\ engine'["wireguard"] = IF Enabled(file.wireguard) THEN file.wireguard ELSE Nil
        /\ engine'["ikev2"] = IF Enabled(file.ikev2) THEN file.ikev2 ELSE Nil
        /\ \A x \in Services : manager'[x] = (engine'[x] # Nil)
        /\ manager' \in [Services -> BOOLEAN]
    BY <1>4, SettingsParts, WantedIs, Zenon
  <2>3. engine' \in [Services -> WireGuardConfig \cup Ikev2Config \cup {Nil}]
    <3>1. \A x \in Services : engine'[x] \in WireGuardConfig \cup Ikev2Config \cup {Nil}
      BY <2>1, <2>2, Zenon DEF Services
    <3>2. engine' = [x \in Services |-> engine'[x]]
      BY <1>4, Zenon DEF Wanted
    <3> QED BY <3>1, <3>2, Zenon
  <2>4. engine'["wireguard"] \in WireGuardConfig \cup {Nil} /\ engine'["ikev2"] \in Ikev2Config \cup {Nil}
    BY <2>1, <2>2, Zenon
  <2>5. SettingsTypes'
    BY <1>1, <1>4, <2>1, <2>2, <2>3, <2>4, SettingsParts, Nones, Zenon DEF SettingsTypes
  <2>6. Shaped'
    BY <1>1, <1>2, Nones, Zenon DEF Shaped
  <2>7. Running'
    <3>1. AsSaved("wireguard", file)' /\ AsSaved("ikev2", file)'
      BY <1>1, <2>2, SettingsParts, NowAsSaved, Zenon DEF Services
    <3> QED BY <1>1, <1>4, <2>2, <3>1, Nones, Zenon DEF Running, Services
  <2>8. ListsInStep'
    BY <1>1, <1>2, <1>4, SettingsParts, Nones, Zenon DEF ListsInStep, Services
  <2>9. CertificateKept'
    <3>1. "certificate" \notin lossy' => "certificate" \notin lossy
      BY <1>4, Zenon DEF Services
    <3> QED BY <1>1, <1>2, <3>1, SettingsParts, Nones, CertificateFrame, Zenon
  <2> QED BY <2>5, <2>6, <2>7, <2>8, <2>9, Zenon DEF SettingsInvariant
<1> QED BY <1>1, <1>3, <1>4, Zenon

\* The process stops.
LEMMA StopStep ==
    ASSUME SettingsInvariant, Stop
    PROVE  SettingsInvariant'
<1>1. /\ \/ disk' = disk
         \/ request.todo # <<>> /\ disk' = [disk EXCEPT ![Head(request.todo)[1]] = Torn]
      /\ up' = FALSE /\ engine' = [x \in Services |-> Nil] /\ manager' = [x \in Services |-> FALSE]
      /\ white_list' = {} /\ client_access' = Nil /\ request' = NoRequest /\ saving' = NoSaving
      /\ lossy \subseteq lossy' /\ (request.todo # <<>> => "certificate" \in lossy')
      /\ saving.op = "access" => "access" \in lossy'
      /\ UNCHANGED <<file, inherited>>
  BY Zenon DEF Stop
<1>2. disk' \in Disks
  BY <1>1, SettingsParts, Writing, Zenon
<1>3. SettingsTypes'
  BY <1>1, <1>2, SettingsParts, Nones, Zenon DEF SettingsTypes, Services
<1>4. Shaped'
  BY <1>1, Nones, Zenon DEF Shaped
<1>5. Running'
  BY <1>1, Nones, Zenon DEF Running, Services
<1>6. ListsInStep'
  BY <1>1, SettingsParts, Nones, Zenon DEF ListsInStep, Services
<1>7. CertificateKept'
  <2>1. "certificate" \notin lossy' => Offered(disk) /\ disk' = disk
    BY <1>1, SettingsParts, Zenon DEF CertificateKept
  <2>2. "certificate" \notin lossy' => Offered(disk)'
    BY <2>1, Zenon DEF Offered, Complete
  <2>3. Custom(file.ikev2)
    BY SettingsParts, Zenon DEF CertificateKept
  <2> QED BY <1>1, <2>2, <2>3, Nones, Zenon DEF CertificateKept, Custom
<1> QED BY <1>3, <1>4, <1>5, <1>6, <1>7, Zenon DEF SettingsInvariant

\* A step that touches neither the files nor an update.
LEMMA CertificateStays ==
    ASSUME CertificateKept, UNCHANGED <<disk, request, file>>,
           "certificate" \in lossy' <=> "certificate" \in lossy
    PROVE  CertificateKept'
<1>1. Restoring(disk, request.backup, request.todo)' <=> Restoring(disk, request.backup, request.todo)
  BY Zenon DEF Restoring, restore
<1>2. (Offered(disk)' <=> Offered(disk)) /\ (Offered(request.backup)' <=> Offered(request.backup))
  BY Zenon DEF Offered, Complete
<1>3. Completing(disk, request.todo)' <=> Completing(disk, request.todo)
  BY Zenon DEF Completing
<1>4. /\ Custom(file.ikev2)' <=> Custom(file.ikev2)
      /\ Custom(request.text.ikev2)' <=> Custom(request.text.ikev2)
      /\ Custom(request.cand)' <=> Custom(request.cand)
  BY Zenon DEF Custom
<1> QED BY <1>1, <1>2, <1>3, <1>4, Zenon DEF CertificateKept

\* An engine dies.
LEMMA EngineDiesStep ==
    ASSUME SettingsInvariant, NEW x \in Services, EngineDies(x)
    PROVE  SettingsInvariant'
<1>1. /\ engine' = [engine EXCEPT ![x] = Nil] /\ lossy' = lossy \cup {x}
      /\ UNCHANGED <<file, disk, up, manager, white_list, client_access, inherited, request, saving>>
  BY Zenon DEF EngineDies, Lists
<1>2. /\ engine' \in [Services -> WireGuardConfig \cup Ikev2Config \cup {Nil}]
      /\ engine'[x] = Nil /\ \A y \in Services : y # x => engine'[y] = engine[y]
  BY <1>1, SettingsParts, Zenon
<1>3. "access" \in lossy' <=> "access" \in lossy
  BY <1>1, Zenon DEF Services
<1>4. "certificate" \in lossy' <=> "certificate" \in lossy
  BY <1>1, Zenon DEF Services
<1>5. \A y \in Services : y \notin lossy' => y # x /\ y \notin lossy
  BY <1>1, Zenon
<1>6. SettingsTypes'
  BY <1>1, <1>2, SettingsParts, Zenon DEF SettingsTypes, Services
<1>7. Shaped'
  BY <1>1, SettingsParts, Zenon DEF Shaped
<1>8. Running'
  <2>1. \A y \in Services : y # x /\ AsSaved(y, file) => AsSaved(y, file)'
    BY <1>1, <1>2, Zenon DEF AsSaved, Wanted, Enabled
  <2>2. x # "ikev2" /\ AsSaved("ikev2", request.text) => AsSaved("ikev2", request.text)'
    BY <1>1, <1>2, Zenon DEF AsSaved, Wanted, Enabled, Services
  <2>3. /\ ~up' => \A y \in Services : engine'[y] = Nil /\ ~manager'[y]
        /\ \A y \in Services : engine'[y] # Nil => manager'[y]
        /\ up' => \A y \in Services : y \notin lossy' /\ request'.op # y => AsSaved(y, file)'
    BY <1>1, <1>2, <1>5, <2>1, SettingsParts, Zenon DEF Running
  <2>4. \A y \in Services : engine[y] = Nil => engine'[y] = Nil
    BY <1>2, Zenon
  <2>5. (request.op = "wireguard" =>
           /\ file.ikev2 = request.text.ikev2
           /\ request.step \in {"stop", "start"} => file.wireguard = request.cand
           /\ request.step # "stop" => engine["wireguard"] = Nil /\ ~manager["wireguard"]
           /\ request.step = "again" /\ "wireguard" \notin lossy =>
                file.wireguard = request.text.wireguard)'
    BY <1>1, <1>5, <2>4, SettingsParts, Zenon DEF Running, Services
  <2>6. (request.op = "ikev2" =>
           /\ file.wireguard = request.text.wireguard
           /\ request.step = "files" => file = request.text
           /\ request.step = "restore" /\ "ikev2" \notin lossy => file = request.text
           /\ request.step \in {"apply", "start", "fresh"} => file.ikev2 = request.cand
           /\ request.step \in {"start", "fresh"} => request.cand.enabled
           /\ request.step \in {"start", "fresh", "again"} =>
                engine["ikev2"] = Nil /\ ~manager["ikev2"]
           /\ request.step \in {"files", "restore", "apply", "fresh", "text"} /\ "ikev2" \notin lossy =>
                AsSaved("ikev2", request.text))'
    BY <1>1, <1>5, <2>2, <2>4, SettingsParts, Zenon DEF Running, Services
  <2> QED BY <2>3, <2>5, <2>6, Zenon DEF Running
<1>9. ListsInStep'
  BY <1>1, <1>3, SettingsParts, Zenon DEF ListsInStep
<1>10. CertificateKept'
  BY <1>1, <1>4, SettingsParts, CertificateStays, Zenon
<1> QED BY <1>6, <1>7, <1>8, <1>9, <1>10, Zenon DEF SettingsInvariant

\* Addresses are taken and freed, and the certificate grows old.
LEMMA EnvironmentStep ==
    ASSUME SettingsInvariant, Environment
    PROVE  SettingsInvariant'
<1>1. /\ \/ disk' = disk
         \/ request = NoRequest /\ Whole(disk.cert) /\ disk' = [disk EXCEPT !.cert.old = TRUE]
      /\ UNCHANGED <<file, up, manager, engine, white_list, client_access, inherited, request, saving, lossy>>
  BY Zenon DEF Environment, memory
<1>2. disk' \in Disks /\ (request = NoRequest /\ Offered(disk) => Offered(disk)')
  <2>1. CASE disk' = disk
    BY <2>1, SettingsParts, Zenon DEF Offered, Complete
  <2>2. CASE request = NoRequest /\ Whole(disk.cert) /\ disk' = [disk EXCEPT !.cert.old = TRUE]
    <3>1. disk.cert \in Certificates
      BY <2>2, SettingsParts, Zenon DEF Whole, Disks, CertFiles
    <3>2. PICK c : c = [disk.cert EXCEPT !.old = TRUE]
      BY Zenon
    <3>3. c \in Certificates /\ c.issuer = disk.cert.issuer /\ c.key = disk.cert.key
      BY <3>1, <3>2, Zenon DEF Certificates
    <3>4. disk' = [disk EXCEPT !.cert = c]
      BY <2>2, <3>2, Zenon
    <3>5. /\ disk' \in Disks /\ disk'.cert = c /\ disk'.key = disk.key /\ disk'.ca = disk.ca
          /\ disk'.cakey = disk.cakey
      BY <3>3, <3>4, SettingsParts, Zenon DEF Disks, CertFiles
    <3>6. disk.cert # Nil
      BY <3>1, NilApart, Zenon
    <3> QED BY <3>3, <3>5, <3>6, Zenon DEF Offered, Complete, Nothing4
  <2> QED BY <1>1, <2>1, <2>2, Zenon
<1>3. SettingsTypes'
  BY <1>1, <1>2, SettingsParts, Zenon DEF SettingsTypes
<1>4. Shaped'
  BY <1>1, SettingsParts, Zenon DEF Shaped
<1>5. Running'
  BY <1>1, SettingsParts, RunningStays, Zenon
<1>6. ListsInStep'
  BY <1>1, SettingsParts, Zenon DEF ListsInStep
<1>7. CertificateKept'
  <2>1. CASE disk' = disk
    BY <1>1, <2>1, SettingsParts, CertificateStays, Zenon
  <2>2. CASE request = NoRequest
    BY <1>1, <1>2, <2>2, SettingsParts, Nones, Zenon DEF CertificateKept, Custom
  <2> QED BY <1>1, <2>1, <2>2, Zenon
<1> QED BY <1>3, <1>4, <1>5, <1>6, <1>7, Zenon DEF SettingsInvariant

-----------------------------------------------------------------------------
(* The theorems.                                                            *)

\* A hand-written file, no certificate and a process that has not started.
LEMMA SettingsInitially == SettingsInit => SettingsInvariant
<1> SUFFICES ASSUME SettingsInit PROVE SettingsInvariant
  BY Zenon
<1>1. file \in Texts /\ file.client_access = Nil /\ Custom(file.ikev2)
  BY Zenon DEF SettingsInit, HandWritten, Texts, Custom
<1>2. disk \in Disks /\ <<disk.cert, disk.key, disk.ca, disk.cakey>> = Nothing4
  BY Zenon DEF SettingsInit, Disks, CertFiles, KeyFiles, Nothing4
<1>3. SettingsTypes
  BY <1>1, <1>2, Nones, Zenon DEF SettingsInit, SettingsTypes, Services
<1>4. Shaped
  BY Nones, Zenon DEF SettingsInit, Shaped
<1>5. Running
  BY Nones, Zenon DEF SettingsInit, Running, Services
<1>6. ListsInStep
  BY <1>1, Nones, Zenon DEF SettingsInit, ListsInStep, Services
<1>7. CertificateKept
  BY <1>1, <1>2, Nones, Zenon DEF SettingsInit, CertificateKept, Offered
<1> QED BY <1>3, <1>4, <1>5, <1>6, <1>7, Zenon DEF SettingsInvariant

\* Every step keeps the invariant.
LEMMA SettingsStep == SettingsInvariant /\ [SettingsNext]_settingsVars => SettingsInvariant'
<1> SUFFICES ASSUME SettingsInvariant, [SettingsNext]_settingsVars PROVE SettingsInvariant'
  BY Zenon
<1>1. CASE ServiceStep
  BY <1>1, UpdateWireguardStep, WireguardStopStep, WireguardStartStep, WireguardTextStep,
     WireguardAgainStep, UpdateIkev2Step, WriteFileStep, WriteFailsStep, Ikev2SaveStep,
     Ikev2ApplyStep, Ikev2StartStep, Ikev2AgainStep, Ikev2TextStep, Zenon DEF ServiceStep
<1>2. CASE ListStep
  BY <1>2, UpdateWhiteListStep, UpdateClientAccessStep, WhiteListAppliedStep,
     ClientAccessAppliedStep, RowsUpdatedStep, RowsFailStep, ClientAccessUndoneStep, Zenon DEF ListStep
<1>3. CASE ProcessStep
  BY <1>3, BootStep, BootIkev2Step, BootWireguardStep, BootStartStep, StopStep, EngineDiesStep, Zenon
  DEF ProcessStep
<1>4. CASE Environment
  BY <1>4, EnvironmentStep, Zenon
<1>5. CASE UNCHANGED settingsVars
  <2>1. UNCHANGED <<file, disk, up, manager, engine, white_list, client_access, inherited, request,
                    saving, lossy>>
    BY <1>5, Zenon DEF settingsVars, memory
  <2>2. SettingsTypes' /\ Shaped' /\ ListsInStep'
    <3>1. SettingsTypes'
      BY <2>1, SettingsParts, Zenon DEF SettingsTypes
    <3>2. Shaped'
      BY <2>1, SettingsParts, Zenon DEF Shaped
    <3>3. ListsInStep'
      BY <2>1, SettingsParts, Zenon DEF ListsInStep
    <3> QED BY <3>1, <3>2, <3>3, Zenon
  <2>3. Running'
    BY <2>1, SettingsParts, RunningStays, Zenon
  <2>4. CertificateKept'
    BY <2>1, SettingsParts, CertificateStays, Zenon
  <2> QED BY <2>2, <2>3, <2>4, Zenon DEF SettingsInvariant
<1> QED BY <1>1, <1>2, <1>3, <1>4, <1>5, Zenon DEF SettingsNext

\* Every reachable state has the invariant: what each service runs from, where each list is and
\* what the certificate files hold at each step of each update, through every failure, every stop
\* of the process and every start.
THEOREM SettingsInvariantHolds == SettingsSpec => []SettingsInvariant
BY SettingsInitially, SettingsStep, PTL DEF SettingsSpec

\* When no update is under way each service runs exactly as the configuration file says, also
\* after updates that failed half-way and were undone by apply_ikev2_runtime or
\* update_wireguard_settings.
THEOREM SavedServiceRunsAlways == SettingsSpec => []SavedServiceRuns
<1>1. SettingsInvariant => SavedServiceRuns
  <2> SUFFICES ASSUME SettingsInvariant, Idle, NEW x \in Services \ lossy
               PROVE  engine[x] = Wanted(file)[x] /\ manager[x] = (engine[x] # Nil)
    BY Zenon DEF SavedServiceRuns
  <2>1. up /\ request.op = "none"
    BY Nones, Zenon DEF Idle
  <2>2. AsSaved(x, file)
    BY <2>1, SettingsParts, Zenon DEF Running, Services
  <2> QED BY <2>2, Zenon DEF AsSaved
<1> QED BY <1>1, SettingsInvariantHolds, PTL

\* The white list and the traffic servers in memory, and the rows that inherit the servers, are
\* those of the file whenever no update is under way.
THEOREM ListsCurrentAlways == SettingsSpec => []ListsCurrent
<1>1. SettingsInvariant => ListsCurrent
  BY SettingsParts, Nones, Zenon DEF ListsCurrent, Idle, ListsInStep
<1> QED BY <1>1, SettingsInvariantHolds, PTL

\* The process, stopped at any moment, gets past the preparation of its certificate when it is
\* started again: prepare_certificate can read the CA, and what it does not renew can be loaded.
THEOREM BootableAlways == SettingsSpec => []Bootable
<1>1. SettingsInvariant => Bootable
  <2> SUFFICES ASSUME SettingsInvariant, Enabled(file.ikev2), "certificate" \notin lossy, request.todo = <<>>
               PROVE  /\ Preparable(file.ikev2, disk)
                      /\ Renew(disk, file.ikev2.id) \/ load_certificate(Prepared(file.ikev2), disk)
    BY Zenon DEF Bootable
  <2>1. PICK c \in Ikev2Config : c = file.ikev2
    BY SettingsParts, Zenon DEF Enabled, Texts
  <2>2. Offered(disk) /\ Custom(c) /\ c.enabled
    BY <2>1, SettingsParts, Zenon DEF CertificateKept, Enabled
  <2>3. CaReadable(disk)
    BY <2>2, NilApart, Zenon DEF Offered, Complete, CaReadable, NoCa, Whole, Nothing4
  <2>4. Preparable(c, disk)
    BY <2>3, Zenon DEF Preparable
  <2>5. Renew(disk, c.id) \/ load_certificate(Prepared(c), disk)
    <3>1. Prepared(c) \in Ikev2Config /\ Prepared(c).id = c.id /\ Prepared(c) # Nil
      BY PreparedIs, NilApart, Zenon
    <3>2. CASE c.cert = "custom"
      <4>1. Prepared(c).cert = "custom" /\ c.id \in CustomIds
        BY <2>2, <3>2, PreparedIs, NilApart, Zenon DEF Custom
      <4> QED BY <3>1, <4>1, Zenon DEF load_certificate
    <3>3. CASE c.cert # "custom" /\ ~Renew(disk, c.id)
      <4>1. Prepared(c).cert = "managed"
        BY <2>2, <3>3, PreparedIs, Zenon DEF Prepared, Ikev2Config
      <4>2. Whole(disk.cert) /\ disk.key # Nil /\ disk.cert.id = c.id
        BY <3>3, Zenon DEF Renew, certificate_matches_remote_id
      <4>3. Complete(disk)
        BY <2>2, <4>2, Zenon DEF Offered, Whole, Nothing4
      <4>4. disk.key = disk.cert.key /\ Whole(disk.key)
        BY <4>3, NilApart, Zenon DEF Complete, Whole, Certificates
      <4> QED BY <3>1, <4>1, <4>2, <4>4, Zenon
              DEF load_certificate, is_managed_certificate, certificate_matches_remote_id
    <3> QED BY <3>2, <3>3, Zenon
  <2> QED BY <2>1, <2>4, <2>5, Zenon
<1> QED BY <1>1, SettingsInvariantHolds, PTL

\* The managed certificate is signed by the CA whose file is offered for download.
THEOREM IssuerOfferedAlways == SettingsSpec => []IssuerOffered
<1>1. SettingsInvariant => IssuerOffered
  BY SettingsParts, Zenon DEF IssuerOffered, CertificateKept, Offered, Complete, Whole, Nothing4
<1> QED BY <1>1, SettingsInvariantHolds, PTL

\* An IKEv2 update that fails leaves no trace: when ManagedCertificateBackup::restore has written
\* its last file, the certificate files are those the update found and the text is the former one.
THEOREM RollbackExactAlways == SettingsSpec => RollbackExact
<1> DEFINE Rolled == request.step = "restore" /\ request' = NoRequest /\ "certificate" \notin lossy' =>
                       /\ disk' = request.backup
                       /\ "ikev2" \notin lossy' => file' = request.text
<1>1. SettingsInvariant /\ [SettingsNext]_settingsVars => [Rolled]_settingsVars
  <2> SUFFICES ASSUME SettingsInvariant, SettingsNext, request.step = "restore", request' = NoRequest,
                      "certificate" \notin lossy'
               PROVE  disk' = request.backup /\ ("ikev2" \notin lossy' => file' = request.text)
    BY Zenon
  <2>1. request.op = "ikev2" /\ request.todo # <<>> /\ request # NoRequest /\ request.backup \in Disks
    BY SettingsParts, Nones, Zenon DEF Shaped, Updates
  <2>2. ~ListStep
    BY <2>1, Zenon DEF ListStep, UpdateWhiteList, UpdateClientAccess, LockFree, WhiteListApplied,
                ClientAccessApplied, RowsUpdated, RowsFail, ClientAccessUndone
  <2>3. ~ProcessStep
    BY <2>1, Zenon DEF ProcessStep, Boot, LockFree, BootIkev2, BootWireguard, BootStart, At, Stop, EngineDies
  <2>4. ~Environment
    BY <2>1, Zenon DEF Environment
  <2>5. WriteFile
    <3>1. ~WriteFails
      BY <2>1, Zenon DEF WriteFails
    <3> QED BY <2>1, <2>2, <2>3, <2>4, <3>1, Zenon
            DEF SettingsNext, ServiceStep, UpdateWireguard, LockFree, WireguardStop, WireguardStart,
                WireguardText, WireguardAgain, UpdateIkev2, Ikev2Save, Ikev2Apply, Ikev2Start,
                Ikev2Again, Ikev2Text, At
  <2>6. /\ disk' = [disk EXCEPT ![Head(request.todo)[1]] = Head(request.todo)[2]]
        /\ request' = IF request.step = "restore" /\ Len(request.todo) = 1 THEN NoRequest
                      ELSE [request EXCEPT !.todo = Tail(@)]
        /\ UNCHANGED <<file, lossy>>
    BY <2>5, Zenon DEF WriteFile
  <2>7. Len(request.todo) = 1
    <3>1. ~ (request' = [request EXCEPT !.todo = Tail(@)])
      BY <2>1, SettingsParts, OneLess, Nones, Zenon
    <3> QED BY <2>6, <3>1, Zenon
  <2>8. disk' = request.backup
    <3>1. PICK todo : todo = request.todo
      BY Zenon
    <3>2. PICK b \in Disks : b = request.backup
      BY <2>1, Zenon
    <3>3. PICK d : d = disk'
      BY Zenon
    <3>4. Restoring(disk, request.backup, request.todo)
      BY SettingsParts, Zenon DEF CertificateKept
    <3>5. Restoring(disk, b, todo) /\ d = [disk EXCEPT ![Head(todo)[1]] = Head(todo)[2]] /\ Len(todo) = 1
      BY <2>6, <2>7, <3>1, <3>2, <3>3, <3>4, Zenon
    <3>6. disk \in Disks
      BY SettingsParts, Zenon
    <3>7. d = b
      BY <3>5, <3>6, RestoreEnds
    <3> QED BY <3>2, <3>3, <3>7, Zenon
  <2>9. "ikev2" \notin lossy' => file' = request.text
    BY <2>1, <2>6, SettingsParts, Zenon DEF Running
  <2> QED BY <2>8, <2>9, Zenon
<1> QED BY <1>1, SettingsInvariantHolds, PTL DEF SettingsSpec, RollbackExact
=============================================================================
