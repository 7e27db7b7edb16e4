------------------------- MODULE TunnelControlProofs -------------------------
(***************************************************************************)
(* Proofs about TunnelControl: for any devices, configurations and numbers *)
(* of administrators, engine starts and handshakes, nobody waits for an    *)
(* answer that cannot come, no connected device is without its state, and  *)
(* once the edits are over the serving engine has the devices of the       *)
(* database and no peer of a former configuration.                         *)
(***************************************************************************)
EXTENDS TunnelControl, TLAPS

Commands == [from : Actors, op : {"disconnect", "reload", "reconfigure", "shutdown"},
             dev : Devices \cup {None}, table : Configs]

\* What an administrator's request has taken and filled in at each of its steps.
Holds(a) == admin[a].pc \in {"net", "kick", "kicked", "apply", "save", "refresh", "load",
                             "reloading"}
HoldsNetwork(a) ==
    \/ admin[a].pc \in {"apply", "save", "refresh", "load", "reloading"}
    \/ admin[a].op = "upsert" /\ admin[a].pc \in {"kick", "kicked"}

Requests ==
    \A a \in Admins :
        /\ Holds(a) => device_lock = a
        /\ HoldsNetwork(a) => lock = a
        /\ admin[a].pc # "ready" => admin[a].dev \in Devices
        /\ admin[a].pc = "ready" => admin[a].val = None
        /\ admin[a].pc # "ready" /\ admin[a].op = "upsert" => admin[a].val \in Vals
        /\ admin[a].op = "delete" => admin[a].val = None

\* The life of an engine, as the settings request sees it.
EngineLife ==
    /\ manager # None => /\ manager = engine.id /\ engine.pc # "off"
                         /\ web \in {"idle", "reconfiguring"}
    /\ web \in {"start", "restore", "loaded"} => engine.pc = "off"
    /\ web = "idle" /\ manager = None => engine.pc = "off"
    /\ web = "stopping" /\ Web \in answered => engine.pc = "off"
    /\ web = "reconfiguring" => manager # None
    /\ web = "loaded" => engine.id < MaxStarts
    /\ engine.pc = "off" => cmds = <<>> /\ connected = Empty /\ pending = Empty
    /\ engine.pc = "registering" => engine.dev \in Devices /\ engine.req # None /\ engine.cap # None

\* Who waits for what: a queued command is its sender's only one and not yet answered.
Waits(c) ==
    \/ c.from \in Admins /\ admin[c.from].pc = "kicked" /\ c.op = "disconnect"
    \/ c.from \in Admins /\ admin[c.from].pc = "reloading" /\ c.op = "reload"
    \/ c.from = Web /\ web = "stopping" /\ c.op = "shutdown"
    \/ c.from = Web /\ web = "reconfiguring" /\ c.op = "reconfigure"

Channel ==
    /\ \A i \in DOMAIN cmds : Waits(cmds[i]) /\ cmds[i].from \notin answered
    /\ \A i, j \in DOMAIN cmds : cmds[i].from = cmds[j].from => i = j
    /\ \A a \in answered : /\ a \in Admins => admin[a].pc \in {"kicked", "reloading"}
                           /\ a = Web => web \in {"stopping", "reconfiguring"}

\* A connected device has a state, also where a failed write takes an edit back.
Served ==
    /\ \A d \in Devices : Online(d) => config[d] # None
    /\ \A a \in Admins : admin[a].pc = "save" /\ admin[a].op = "upsert" /\ admin[a].prev = None
                           => ~Online(admin[a].dev)
    /\ kind = "Wireguard" => pending = Empty

\* The edit of a device is in memory and has not reached the engine yet.
Editing(a) == \/ admin[a].pc \in {"save", "refresh", "load"}
              \/ admin[a].pc = "reloading" /\ a \notin answered
Edited(d) == \E a \in Admins : Editing(a) /\ admin[a].dev = d

\* Unless a write failed or a start met an edit, the engine that serves lags behind only
\* for a device whose edit has not reached it, and the reload for that is in its queue.
Current ==
    /\ web = "loaded" => device_lock = None /\ table = Overlay
    /\ manager # None =>
         /\ \A a \in Admins : admin[a].pc = "load" => admin[a].engine = manager
         /\ \A i \in DOMAIN cmds : cmds[i].op = "reload" => cmds[i].table = Overlay
         /\ \A d \in Devices : Edited(d) \/ table[d] = Overlay[d]
         /\ kind = "Wireguard" =>
              /\ \A d \in Devices : Edited(d) \/ connected[d] \in {None, config[d]}
              /\ engine.pc = "registering" =>
                   \/ Edited(engine.dev)
                   \/ config[engine.dev] = None
                   \/ config[engine.dev] = engine.req /\ engine.cap = engine.req

TunnelInvariant ==
    /\ TypeOK /\ Requests /\ EngineLife /\ Channel /\ NoLostAnswer /\ Served
    /\ ~disturbed => Current

-----------------------------------------------------------------------------
(* Types, and what a step does to the requests.                             *)

\* The type invariant, one variable at a time.
LEMMA Types ==
    ASSUME TypeOK
    PROVE  /\ config \in Configs /\ db \in Configs /\ table \in Configs
           /\ pending \in Configs /\ connected \in Configs
           /\ cmds \in Seq(Commands) /\ answered \subseteq Actors
           /\ admin \in [Admins -> AdminRequest] /\ Overlay \in Configs
           /\ lock \in Admins \cup {Client, None} /\ device_lock \in Admins \cup {None}
           /\ engine.id \in 1 .. MaxStarts /\ engine.pc \in {"off", "idle", "registering"}
           /\ engine.dev \in Devices \cup {None} /\ engine.req \in Vals \cup {None}
           /\ engine.cap \in Vals \cup {None}
<1>1. config \in Configs /\ db \in Configs /\ table \in Configs
        /\ pending \in Configs /\ connected \in Configs
  BY Zenon DEF TypeOK
<1>2. Overlay \in Configs
  BY <1>1, Zenon DEF Overlay, Configs
<1> QED BY <1>1, <1>2, Zenon DEF TypeOK, Commands

\* The empty table is one.
LEMMA EmptyTyped == Empty \in Configs /\ \A d \in Devices : Empty[d] = None
BY Zenon DEF Empty, Configs

\* A request goes to its next step.
LEMMA Goes ==
    ASSUME admin \in [Admins -> AdminRequest], NEW a \in Admins,
           NEW pc \in {"net", "kick", "kicked", "apply", "save", "refresh", "load",
                       "reloading", "done"},
           Goto(a, pc)
    PROVE  /\ admin' \in [Admins -> AdminRequest]
           /\ \A b \in Admins : b # a => admin'[b] = admin[b]
           /\ admin'[a].pc = pc /\ admin'[a].op = admin[a].op /\ admin'[a].dev = admin[a].dev
           /\ admin'[a].val = admin[a].val /\ admin'[a].prev = admin[a].prev
           /\ admin'[a].engine = admin[a].engine
BY Zenon DEF Goto, AdminRequest

\* An edit begins.
LEMMA Begins ==
    ASSUME admin \in [Admins -> AdminRequest], NEW a \in Admins, BeginEdit(a)
    PROVE  /\ admin' \in [Admins -> AdminRequest]
           /\ \A b \in Admins : b # a => admin'[b] = admin[b]
           /\ admin[a].pc = "ready" /\ admin'[a].pc = "lock" /\ admin'[a].dev \in Devices
           /\ \/ admin'[a].op = "upsert" /\ admin'[a].val \in Vals
              \/ admin'[a].op = "delete" /\ admin'[a].val = admin[a].val
           /\ UNCHANGED <<config, db, lock, device_lock, manager, engine, table, pending,
                          connected, cmds, answered, web, rest>>
<1>1. ASSUME NEW d \in Devices, NEW v \in Vals,
             admin' = [admin EXCEPT ![a] = [@ EXCEPT !.pc = "lock", !.op = "upsert",
                                                     !.dev = d, !.val = v]]
      PROVE  /\ admin' \in [Admins -> AdminRequest]
             /\ \A b \in Admins : b # a => admin'[b] = admin[b]
             /\ admin'[a].pc = "lock" /\ admin'[a].dev \in Devices
             /\ admin'[a].op = "upsert" /\ admin'[a].val \in Vals
  BY <1>1, Zenon DEF AdminRequest
<1>2. ASSUME NEW d \in Devices,
             admin' = [admin EXCEPT ![a] = [@ EXCEPT !.pc = "lock", !.op = "delete", !.dev = d]]
      PROVE  /\ admin' \in [Admins -> AdminRequest]
             /\ \A b \in Admins : b # a => admin'[b] = admin[b]
             /\ admin'[a].pc = "lock" /\ admin'[a].dev \in Devices
             /\ admin'[a].op = "delete" /\ admin'[a].val = admin[a].val
  BY <1>2, ZenonT(30) DEF AdminRequest
<1> QED BY <1>1, <1>2, Zenon DEF BeginEdit

\* The configuration is changed in memory: the former one is kept.
LEMMA Applies ==
    ASSUME admin \in [Admins -> AdminRequest], NEW a \in Admins, config \in Configs,
           admin[a].dev \in Devices, Apply(a),
           ~ (admin[a].op = "delete" /\ Online(admin[a].dev))
    PROVE  /\ admin' \in [Admins -> AdminRequest]
           /\ \A b \in Admins : b # a => admin'[b] = admin[b]
           /\ admin'[a].pc = "save" /\ admin'[a].op = admin[a].op
           /\ admin'[a].dev = admin[a].dev /\ admin'[a].val = admin[a].val
           /\ admin'[a].prev = config[admin[a].dev]
           /\ config' = [config EXCEPT ![admin[a].dev] = admin[a].val]
           /\ UNCHANGED <<lock, device_lock>>
<1>1. config[admin[a].dev] \in Vals \cup {None}
  BY Zenon DEF Configs
<1>2. /\ config' = [config EXCEPT ![admin[a].dev] = admin[a].val]
      /\ admin' = [admin EXCEPT ![a] = [@ EXCEPT !.pc = "save", !.prev = config[admin[a].dev]]]
      /\ UNCHANGED <<lock, device_lock>>
  BY Zenon DEF Apply
<1> QED BY <1>1, <1>2, Zenon DEF AdminRequest

\* The handle is read: its engine is the one the devices will be sent to.
LEMMA Refreshes ==
    ASSUME admin \in [Admins -> AdminRequest], NEW a \in Admins, manager \in 1 .. MaxStarts,
           manager # None, Refresh(a)
    PROVE  /\ admin' \in [Admins -> AdminRequest]
           /\ \A b \in Admins : b # a => admin'[b] = admin[b]
           /\ admin'[a].pc = "load" /\ admin'[a].op = admin[a].op
           /\ admin'[a].dev = admin[a].dev /\ admin'[a].val = admin[a].val
           /\ admin'[a].engine = manager
           /\ UNCHANGED <<lock, device_lock>>
<1>1. /\ admin' = [admin EXCEPT ![a] = [@ EXCEPT !.pc = "load", !.engine = manager]]
      /\ UNCHANGED <<lock, device_lock>>
  BY Zenon DEF Refresh
<1>2. manager \in 0 .. MaxStarts
  BY TunnelAssumption
<1> QED BY <1>1, <1>2, Zenon DEF AdminRequest

-----------------------------------------------------------------------------
(* The locks and the requests.                                              *)

\* While a request holds the device locks no other does, nor the network's lock.
LEMMA OneHolder ==
    ASSUME Requests, NEW a \in Admins, Holds(a)
    PROVE  \A b \in Admins : b # a => ~ Holds(b) /\ ~ HoldsNetwork(b)
BY Zenon DEF Requests, Holds, HoldsNetwork

\* Nobody holds a lock that is free.
LEMMA NoHolder ==
    ASSUME Requests
    PROVE  /\ device_lock = None => \A b \in Admins : ~ Holds(b) /\ ~ HoldsNetwork(b)
           /\ lock \in {None, Client} => \A b \in Admins : ~ HoldsNetwork(b)
BY TunnelAssumption, Zenon DEF Requests, Holds, HoldsNetwork, Client

\* The end of an edit.
LEMMA Releases ==
    ASSUME TypeOK, Requests, NEW a \in Admins, Holds(a), Release(a)
    PROVE  /\ Requests' /\ admin' \in [Admins -> AdminRequest]
           /\ device_lock' = None /\ lock' \in {lock, None}
           /\ \A b \in Admins : b # a => admin'[b] = admin[b] /\ ~ Holds(b)
           /\ admin'[a].pc = "done" /\ admin'[a].op = admin[a].op
           /\ admin'[a].dev = admin[a].dev /\ admin'[a].val = admin[a].val
<1>1. /\ admin' \in [Admins -> AdminRequest]
      /\ \A b \in Admins : b # a => admin'[b] = admin[b]
      /\ admin'[a].pc = "done" /\ admin'[a].op = admin[a].op
      /\ admin'[a].dev = admin[a].dev /\ admin'[a].val = admin[a].val
  BY Types, Goes, Zenon DEF Release
<1>2. device_lock' = None /\ lock' \in {lock, None}
  BY Zenon DEF Release
<1>3. \A b \in Admins : b # a => ~ Holds(b) /\ ~ HoldsNetwork(b)
  BY OneHolder, Zenon
<1>4. Requests'
  BY <1>1, <1>3 DEF Requests, Holds, HoldsNetwork
<1> QED BY <1>1, <1>2, <1>3, <1>4, Zenon

\* Every step keeps the locks with those who took them.
LEMMA RequestsStep ==
    ASSUME TypeOK, Requests, Next
    PROVE  Requests'
<1>1. admin \in [Admins -> AdminRequest] /\ config \in Configs
  BY Types, Zenon
<1>2. CASE EngineStep \/ WithdrawEngine \/ ReloadSettings \/ WebStep
  <2>1. UNCHANGED <<admin, lock, device_lock>>
    BY <1>2, Zenon DEF EngineStep, Handshake, FinishEap, PeerIdle, RegisterSession, HandleCommand,
      WithdrawEngine, ReloadSettings, WebStep, WebAnswered, BindAndLoad, PublishEngine
  <2> QED BY <2>1, Zenon DEF Requests, Holds, HoldsNetwork
<1>3. CASE ClientLock \/ ClientUnlock
  BY <1>3, NoHolder, Zenon DEF ClientLock, ClientUnlock, Requests, Holds, HoldsNetwork
<1>4. ASSUME NEW a \in Admins, BeginEdit(a) PROVE Requests'
  BY <1>1, <1>4, Begins DEF Requests, Holds, HoldsNetwork
<1>5. ASSUME NEW a \in Admins, LockDevices(a) PROVE Requests'
  <2>1. PICK pc \in {"net", "kick"} : Goto(a, pc) /\ (admin[a].op = "upsert" => pc = "net")
    BY <1>5, Zenon DEF LockDevices
  <2>2. device_lock' = a /\ lock' = lock /\ admin[a].pc = "lock"
          /\ \A b \in Admins : ~ Holds(b) /\ ~ HoldsNetwork(b)
    BY <1>5, NoHolder, Zenon DEF LockDevices
  <2> QED BY <1>1, <2>1, <2>2, Goes DEF Requests, Holds, HoldsNetwork
<1>6. ASSUME NEW a \in Admins, LockNetwork(a) PROVE Requests'
  <2>1. PICK pc \in {"kick", "apply"} : Goto(a, pc)
    BY <1>6, Zenon DEF LockNetwork
  <2>2. device_lock' = device_lock /\ lock' = a /\ admin[a].pc = "net"
          /\ \A b \in Admins : ~ HoldsNetwork(b)
    BY <1>6, NoHolder, Zenon DEF LockNetwork
  <2> QED BY <1>1, <2>1, <2>2, Goes DEF Requests, Holds, HoldsNetwork
<1>7. ASSUME NEW a \in Admins, Kick(a) PROVE Requests'
  <2>1. PICK pc \in {"kicked", "apply", "net"} :
          Goto(a, pc) /\ (admin[a].op = "delete" => pc # "apply")
                      /\ (admin[a].op = "upsert" => pc # "net")
    BY <1>1, <1>7, Zenon DEF Kick, AfterKick, AdminRequest
  <2>2. UNCHANGED <<device_lock, lock>> /\ admin[a].pc = "kick"
    BY <1>7, Zenon DEF Kick
  <2> QED BY <1>1, <2>1, <2>2, Goes DEF Requests, Holds, HoldsNetwork, AdminRequest
<1>8. ASSUME NEW a \in Admins, Answered(a) PROVE Requests'
  <2>1. CASE admin[a].pc = "reloading" /\ Release(a)
    BY <2>1, Releases, Zenon DEF Holds
  <2>2. CASE admin[a].pc = "kicked" /\ Goto(a, AfterKick(a)) /\ UNCHANGED <<lock, device_lock>>
    <3>1. PICK pc \in {"apply", "net"} :
            Goto(a, pc) /\ (admin[a].op = "delete" => pc = "net")
                        /\ (admin[a].op = "upsert" => pc = "apply")
      BY <1>1, <2>2, Zenon DEF AfterKick, AdminRequest
    <3> QED BY <1>1, <2>2, <3>1, Goes DEF Requests, Holds, HoldsNetwork, AdminRequest
  <2> QED BY <1>8, <2>1, <2>2, Zenon DEF Answered
<1>9. ASSUME NEW a \in Admins, Apply(a) PROVE Requests'
  <2>1. admin[a].pc = "apply" /\ Holds(a) /\ HoldsNetwork(a) /\ admin[a].dev \in Devices
    BY <1>9, Zenon DEF Apply, Requests, Holds, HoldsNetwork
  <2>2. CASE admin[a].op = "delete" /\ Online(admin[a].dev)
    BY <1>9, <2>1, <2>2, Releases, Zenon DEF Apply
  <2>3. CASE ~ (admin[a].op = "delete" /\ Online(admin[a].dev))
    BY <1>1, <1>9, <2>1, <2>3, Applies DEF Requests, Holds, HoldsNetwork
  <2> QED BY <2>2, <2>3, Zenon
<1>10. ASSUME NEW a \in Admins, Save(a) PROVE Requests'
  <2>1. admin[a].pc = "save" /\ Holds(a)
    BY <1>10, Zenon DEF Save, Holds
  <2>2. CASE Release(a)
    BY <2>1, <2>2, Releases, Zenon
  <2>3. CASE Goto(a, "refresh") /\ UNCHANGED <<lock, device_lock>>
    BY <1>1, <2>1, <2>3, Goes DEF Requests, Holds, HoldsNetwork
  <2> QED BY <1>10, <2>2, <2>3, Zenon DEF Save
<1>11. ASSUME NEW a \in Admins, Refresh(a) PROVE Requests'
  <2>1. admin[a].pc = "refresh" /\ Holds(a)
    BY <1>11, Zenon DEF Refresh, Holds
  <2>2. CASE manager = None
    BY <1>11, <2>1, <2>2, Releases, Zenon DEF Refresh
  <2>3. CASE manager # None
    BY <1>1, <1>11, <2>1, <2>3, Refreshes DEF Requests, Holds, HoldsNetwork, TypeOK
  <2> QED BY <2>2, <2>3, Zenon
<1>12. ASSUME NEW a \in Admins, Reload(a) PROVE Requests'
  <2>1. admin[a].pc = "load" /\ Holds(a)
    BY <1>12, Zenon DEF Reload, Holds
  <2>2. CASE Release(a)
    BY <2>1, <2>2, Releases, Zenon
  <2>3. CASE Goto(a, "reloading") /\ UNCHANGED <<lock, device_lock>>
    BY <1>1, <2>1, <2>3, Goes DEF Requests, Holds, HoldsNetwork
  <2> QED BY <1>12, <2>2, <2>3, Zenon DEF Reload
<1> QED
  BY <1>2, <1>3, <1>4, <1>5, <1>6, <1>7, <1>8, <1>9, <1>10, <1>11, <1>12, Zenon DEF Next, AdminStep

-----------------------------------------------------------------------------
(* The command channel and the answers.                                     *)

Waiting(x) == IF x = Web THEN web \in {"stopping", "reconfiguring"}
              ELSE admin[x].pc \in {"kicked", "reloading"}

\* A command at the end of a queue.
LEMMA Appended ==
    ASSUME NEW S, NEW q \in Seq(S), NEW c \in S
    PROVE  /\ Append(q, c) \in Seq(S)
           /\ Len(q) + 1 \in DOMAIN Append(q, c) /\ Append(q, c)[Len(q) + 1] = c
           /\ \A i \in DOMAIN q : i \in DOMAIN Append(q, c) /\ Append(q, c)[i] = q[i]
           /\ \A i \in DOMAIN Append(q, c) : i = Len(q) + 1 \/ i \in DOMAIN q
OBVIOUS

\* A queue without its head.
LEMMA Tailed ==
    ASSUME NEW S, NEW q \in Seq(S), q # <<>>
    PROVE  /\ Tail(q) \in Seq(S) /\ 1 \in DOMAIN q /\ Head(q) = q[1] /\ Head(q) \in S
           /\ \A i \in DOMAIN Tail(q) : i \in Nat /\ i + 1 \in DOMAIN q /\ i + 1 # 1
                                          /\ Tail(q)[i] = q[i + 1]
           /\ \A i \in DOMAIN q : i # 1 => i - 1 \in DOMAIN Tail(q) /\ Tail(q)[i - 1] = q[i]
OBVIOUS

\* Who is told apart from whom.
LEMMA WebApart == Web \notin Admins /\ Actors = Admins \cup {Web}
BY TunnelAssumption, Zenon DEF Web, Actors

\* Whoever is in the queue or answered waits.
LEMMA WaitersOnly ==
    ASSUME TypeOK, Channel
    PROVE  /\ \A i \in DOMAIN cmds : cmds[i] \in Commands /\ cmds[i].from \in Actors
                                       /\ Waiting(cmds[i].from)
           /\ \A x \in answered : x \in Actors /\ Waiting(x)
<1>1. cmds \in Seq(Commands) /\ answered \subseteq Actors
  BY Types, Zenon
<1>2. \A i \in DOMAIN cmds : cmds[i] \in Commands
  BY <1>1
<1>3. \A c \in Commands : c.from \in Actors /\ (Waits(c) => Waiting(c.from))
  BY WebApart, Zenon DEF Commands, Waits, Waiting
<1> QED BY <1>1, <1>2, <1>3, WebApart, Zenon DEF Channel, Waiting

\* A step that sends nothing, answers nothing and lets everybody wait who does.
LEMMA QuietStep ==
    ASSUME TypeOK, Channel, NoLostAnswer, UNCHANGED <<cmds, answered>>,
           engine.pc # "off" => engine'.pc # "off",
           web' = web \/ {web, web'} \cap {"stopping", "reconfiguring"} = {},
           \A b \in Admins : \/ admin'[b].pc = admin[b].pc
                             \/ {admin[b].pc, admin'[b].pc} \cap {"kicked", "reloading"} = {}
    PROVE  Channel' /\ NoLostAnswer'
<1>1. \A i \in DOMAIN cmds : cmds[i] \in Commands
  BY Types
<1>2. \A c \in Commands : Waits(c) => Waits(c)'
  BY Zenon DEF Waits
<1>3. Channel'
  BY <1>1, <1>2, Zenon DEF Channel
<1>4. \A x \in Actors : Waiting(x)' => Waiting(x)
  BY WebApart, Zenon DEF Waiting
<1>5. NoLostAnswer'
  BY <1>4, Zenon DEF NoLostAnswer, Waiting
<1> QED BY <1>3, <1>5, Zenon

\* A command is sent to an engine that runs, and its sender waits from then on.
LEMMA SendStep ==
    ASSUME TypeOK, Channel, NoLostAnswer, NEW c \in Commands,
           cmds' = Append(cmds, c), UNCHANGED <<answered, engine>>, engine.pc # "off",
           ~ Waiting(c.from), Waits(c)',
           c.from # Web => web' = web,
           \A b \in Admins : b # c.from => admin'[b].pc = admin[b].pc
    PROVE  Channel' /\ NoLostAnswer'
<1>1. cmds \in Seq(Commands) /\ \A i \in DOMAIN cmds : cmds[i] \in Commands
  BY Types
<1> c.from \in Actors
  BY Zenon DEF Commands
<1>2. /\ c.from \notin answered /\ \A i \in DOMAIN cmds : cmds[i].from # c.from
  BY WaitersOnly, Zenon
<1>3. \A d \in Commands : d.from # c.from /\ Waits(d) => Waits(d)'
  BY Zenon DEF Waits
<1>4. /\ \A i \in DOMAIN cmds' : i = Len(cmds) + 1 \/ i \in DOMAIN cmds
      /\ \A i \in DOMAIN cmds : i \in DOMAIN cmds' /\ cmds'[i] = cmds[i]
      /\ cmds'[Len(cmds) + 1] = c /\ Len(cmds) + 1 \in DOMAIN cmds'
  BY <1>1, Appended
<1>5. ASSUME NEW i \in DOMAIN cmds'
      PROVE  Waits(cmds[i])' /\ cmds'[i].from \notin answered'
  <2>1. CASE i = Len(cmds) + 1
    BY <1>2, <1>4, <2>1, Zenon DEF Waits
  <2>2. CASE i \in DOMAIN cmds
    <3> DEFINE d == cmds[i]
    <3>1. cmds'[i] = d /\ d \in Commands /\ d.from # c.from /\ Waits(d) /\ d.from \notin answered
      BY <1>1, <1>2, <1>4, <2>2, Zenon DEF Channel
    <3>2. Waits(cmds[i])'
      BY <3>1, Zenon DEF Waits
    <3> QED BY <3>1, <3>2, Zenon
  <2> QED BY <1>4, <2>1, <2>2, Zenon
<1>6. \A i, j \in DOMAIN cmds' : cmds'[i].from = cmds'[j].from => i = j
  BY <1>2, <1>4 DEF Channel
<1>7. \A x \in answered' : /\ x \in Admins => admin'[x].pc \in {"kicked", "reloading"}
                           /\ x = Web => web' \in {"stopping", "reconfiguring"}
  BY <1>2, Zenon DEF Channel
<1>8. Channel'
  BY <1>5, <1>6, <1>7, Zenon DEF Channel
<1>9. ASSUME NEW x \in Actors, Waiting(x)'
      PROVE  x \in answered' \/ (engine'.pc # "off" /\ \E i \in DOMAIN cmds' : cmds'[i].from = x)
  <2>1. CASE x = c.from
    BY <1>4, <2>1, Zenon
  <2>2. CASE x # c.from
    <3>1. Waiting(x)
      BY <1>9, <2>2, WebApart, Zenon DEF Waiting
    <3>2. x \in answered \/ \E i \in DOMAIN cmds : cmds[i].from = x
      BY <3>1, Zenon DEF NoLostAnswer, Waiting
    <3> QED BY <1>4, <3>2, Zenon
  <2> QED BY <2>1, <2>2, Zenon
<1>10. NoLostAnswer'
  BY <1>9, Zenon DEF NoLostAnswer, Waiting
<1> QED BY <1>8, <1>10, Zenon

\* An answer is taken, and its receiver goes on.
LEMMA TakeStep ==
    ASSUME TypeOK, Channel, NoLostAnswer, NEW x \in Actors, x \in answered,
           answered' = answered \ {x}, UNCHANGED <<cmds, engine>>, ~ Waiting(x)',
           x # Web => web' = web,
           \A b \in Admins : b # x => admin'[b].pc = admin[b].pc
    PROVE  Channel' /\ NoLostAnswer'
<1>1. /\ \A i \in DOMAIN cmds : cmds[i] \in Commands /\ cmds[i].from # x
  BY WaitersOnly, Zenon DEF Channel
<1>2. \A c \in Commands : c.from # x /\ Waits(c) => Waits(c)'
  BY Zenon DEF Waits
<1>3. Channel'
  BY <1>1, <1>2, Zenon DEF Channel
<1>4. \A y \in Actors : Waiting(y)' => y # x /\ Waiting(y)
  BY WebApart, Zenon DEF Waiting
<1>5. NoLostAnswer'
  BY <1>4, Zenon DEF NoLostAnswer, Waiting
<1> QED BY <1>3, <1>5, Zenon

\* The engine handles a command: its sender is answered, and a stopping engine answers
\* everybody.
LEMMA HandleStep ==
    ASSUME TypeOK, Channel, NoLostAnswer, HandleCommand
    PROVE  Channel' /\ NoLostAnswer'
<1>1. /\ cmds \in Seq(Commands) /\ cmds # <<>> /\ UNCHANGED <<admin, web>>
      /\ answered' = answered \cup Woken(Head(cmds))
      /\ Head(cmds).op = "shutdown" => cmds' = <<>>
      /\ Head(cmds).op # "shutdown" => cmds' = Tail(cmds) /\ engine' = engine
  BY Types, Zenon DEF HandleCommand
<1>2. /\ 1 \in DOMAIN cmds /\ Head(cmds) = cmds[1] /\ engine.pc # "off"
      /\ \A i \in DOMAIN cmds : cmds[i] \in Commands /\ cmds[i].from \in Actors /\ Waiting(cmds[i].from)
  BY <1>1, Tailed, WaitersOnly, Zenon DEF HandleCommand
<1>3. \A x \in answered' : x \in answered \/ \E i \in DOMAIN cmds : x = cmds[i].from
  BY <1>1, <1>2, Zenon DEF Woken
<1>4. \A x \in answered' : x \in Actors /\ Waiting(x)
  BY <1>2, <1>3, WaitersOnly, Zenon
<1>5. \A x \in answered' : /\ x \in Admins => admin'[x].pc \in {"kicked", "reloading"}
                           /\ x = Web => web' \in {"stopping", "reconfiguring"}
  BY <1>1, <1>4, WebApart, Zenon DEF Waiting
<1>6. \A c \in Commands : Waits(c)' = Waits(c)
  BY <1>1, Zenon DEF Waits
<1>7. CASE Head(cmds).op = "shutdown"
  <2>1. \A i \in DOMAIN cmds : cmds[i].from \in answered'
    BY <1>1, <1>7, Zenon DEF Woken
  <2>2. cmds' = <<>> /\ DOMAIN cmds' = {}
    BY <1>1, <1>7
  <2>3. Channel'
    BY <1>5, <2>2, Zenon DEF Channel
  <2>4. \A x \in Actors : Waiting(x) => x \in answered'
    BY <1>1, <2>1, Zenon DEF NoLostAnswer, Waiting
  <2> QED BY <1>1, <2>3, <2>4, Zenon DEF NoLostAnswer, Waiting
<1>8. CASE Head(cmds).op # "shutdown"
  <2>1. answered' = answered \cup {cmds[1].from} /\ cmds' = Tail(cmds) /\ engine' = engine
    BY <1>1, <1>2, <1>8, Zenon DEF Woken
  <2>2. \A i \in DOMAIN cmds' : i \in Nat /\ i + 1 \in DOMAIN cmds /\ i + 1 # 1 /\ cmds'[i] = cmds[i + 1]
    BY <1>1, <2>1, Tailed, Zenon
  <2>3. \A i \in DOMAIN cmds : i # 1 => i - 1 \in DOMAIN cmds' /\ cmds'[i - 1] = cmds[i]
    BY <1>1, <2>1, Tailed, Zenon
  <2>4. ASSUME NEW i \in DOMAIN cmds'
        PROVE  Waits(cmds[i])' /\ cmds'[i].from \notin answered'
    <3> DEFINE d == cmds[i + 1]
    <3>1. cmds'[i] = d /\ d \in Commands /\ Waits(d) /\ d.from \notin answered /\ d.from # cmds[1].from
      BY <1>2, <2>2, Zenon DEF Channel
    <3>2. Waits(cmds[i])'
      BY <1>1, <3>1, Zenon DEF Waits
    <3> QED BY <2>1, <3>1, <3>2, Zenon
  <2>5. \A i, j \in DOMAIN cmds' : cmds'[i].from = cmds'[j].from => i = j
    BY <2>2 DEF Channel
  <2>6. Channel'
    BY <1>5, <2>4, <2>5, Zenon DEF Channel
  <2>7. ASSUME NEW x \in Actors, Waiting(x)
        PROVE  x \in answered' \/ (engine'.pc # "off" /\ \E i \in DOMAIN cmds' : cmds'[i].from = x)
    <3>1. x \in answered \/ \E i \in DOMAIN cmds : cmds[i].from = x
      BY <2>7, Zenon DEF NoLostAnswer, Waiting
    <3>2. CASE x \in answered
      BY <2>1, <3>2, Zenon
    <3>3. CASE \E i \in DOMAIN cmds : cmds[i].from = x
      <4>1. PICK i \in DOMAIN cmds : cmds[i].from = x
        BY <3>3, Zenon
      <4>2. i = 1 \/ (cmds'[i - 1].from = x /\ i - 1 \in DOMAIN cmds')
        BY <2>3, <4>1, Zenon
      <4> QED BY <1>2, <2>1, <4>1, <4>2, Zenon
    <3> QED BY <3>1, <3>2, <3>3, Zenon
  <2> QED BY <1>1, <2>6, <2>7, Zenon DEF NoLostAnswer, Waiting
<1> QED BY <1>7, <1>8, Zenon

\* The request that moves, from where to where, and whose answer it takes.
Moves(a) ==
    /\ admin' \in [Admins -> AdminRequest]
    /\ \A b \in Admins : b # a => admin'[b] = admin[b]
    /\ admin[a].pc # "ready" => admin'[a].dev = admin[a].dev /\ admin'[a].op = admin[a].op
                                  /\ admin'[a].val = admin[a].val
    /\ <<admin[a].pc, admin'[a].pc>> \in
         {"ready"} \X {"lock"} \cup {"lock"} \X {"net", "kick"} \cup {"net"} \X {"kick", "apply"}
         \cup {"kick"} \X {"kicked", "apply", "net"} \cup {"kicked"} \X {"apply", "net"}
         \cup {"apply"} \X {"save", "done"} \cup {"save"} \X {"refresh", "done"}
         \cup {"refresh"} \X {"load", "done"} \cup {"load"} \X {"reloading", "done"}
         \cup {"reloading"} \X {"done"}
    /\ device_lock' \in {device_lock, a, None} /\ lock' \in {lock, a, None}

\* Every step of an administrator's request moves that request.
LEMMA AdminMoves ==
    ASSUME TypeOK, Requests, NEW a \in Admins, BeginEdit(a) \/ AdminStep(a)
    PROVE  Moves(a)
<1>1. admin \in [Admins -> AdminRequest] /\ config \in Configs
  BY Types, Zenon
<1>2. ASSUME NEW pc \in {"net", "kick", "kicked", "apply", "save", "refresh", "load",
                         "reloading", "done"},
             Goto(a, pc)
      PROVE  /\ admin' \in [Admins -> AdminRequest]
             /\ \A b \in Admins : b # a => admin'[b] = admin[b]
             /\ admin'[a].dev = admin[a].dev /\ admin'[a].op = admin[a].op
             /\ admin'[a].val = admin[a].val
             /\ admin'[a].pc = pc
  BY <1>1, <1>2, Goes, Zenon
<1>3. CASE BeginEdit(a)
  BY <1>1, <1>3, Begins, Zenon DEF Moves
<1>4. CASE LockDevices(a)
  <2>1. PICK pc \in {"net", "kick"} : Goto(a, pc)
    BY <1>4, Zenon DEF LockDevices
  <2> QED BY <1>2, <1>4, <2>1, Zenon DEF LockDevices, Moves
<1>5. CASE LockNetwork(a)
  <2>1. PICK pc \in {"kick", "apply"} : Goto(a, pc)
    BY <1>5, Zenon DEF LockNetwork
  <2> QED BY <1>2, <1>5, <2>1, Zenon DEF LockNetwork, Moves
<1>6. CASE Kick(a)
  <2>1. PICK pc \in {"kicked", "apply", "net"} : Goto(a, pc)
    BY <1>6, Zenon DEF Kick, AfterKick
  <2> QED BY <1>2, <1>6, <2>1, Zenon DEF Kick, Moves
<1>7. ASSUME Release(a), admin[a].pc \in {"apply", "save", "refresh", "load", "reloading"}
      PROVE  Moves(a)
  <2>1. Goto(a, "done") /\ device_lock' = None /\ lock' \in {lock, None}
    BY <1>7, Zenon DEF Release
  <2> QED BY <1>2, <1>7, <2>1, Zenon DEF Moves
<1>8. CASE Answered(a)
  <2>1. CASE admin[a].pc = "kicked" /\ Goto(a, AfterKick(a)) /\ UNCHANGED <<lock, device_lock>>
    <3>1. PICK pc \in {"apply", "net"} : Goto(a, pc)
      BY <2>1, Zenon DEF AfterKick
    <3> QED BY <1>2, <2>1, <3>1, Zenon DEF Moves
  <2> QED BY <1>7, <1>8, <2>1, Zenon DEF Answered
<1>9. CASE Apply(a)
  <2>1. CASE admin[a].op = "delete" /\ Online(admin[a].dev)
    BY <1>7, <1>9, <2>1, Zenon DEF Apply
  <2>2. CASE ~ (admin[a].op = "delete" /\ Online(admin[a].dev))
    <3>1. admin[a].pc = "apply" /\ admin[a].dev \in Devices
      BY <1>9, Zenon DEF Apply, Requests
    <3> QED BY <1>1, <1>9, <2>2, <3>1, Applies, Zenon DEF Moves
  <2> QED BY <2>1, <2>2, Zenon
<1>10. CASE Save(a)
  <2>1. CASE Goto(a, "refresh") /\ UNCHANGED <<lock, device_lock>>
    BY <1>2, <1>10, <2>1, Zenon DEF Save, Moves
  <2> QED BY <1>7, <1>10, <2>1, Zenon DEF Save
<1>11. CASE Refresh(a)
  <2>1. CASE manager = None
    BY <1>7, <1>11, <2>1, Zenon DEF Refresh
  <2>2. CASE manager # None
    <3>1. manager \in 1 .. MaxStarts /\ admin[a].pc = "refresh"
      BY <1>11, <2>2, Zenon DEF TypeOK, Refresh
    <3> QED BY <1>1, <1>11, <2>2, <3>1, Refreshes, Zenon DEF Moves
  <2> QED BY <2>1, <2>2, Zenon
<1>12. CASE Reload(a)
  <2>1. CASE Goto(a, "reloading") /\ UNCHANGED <<lock, device_lock>>
    BY <1>2, <1>12, <2>1, Zenon DEF Reload, Moves
  <2> QED BY <1>7, <1>12, <2>1, Zenon DEF Reload
<1> QED BY <1>3, <1>4, <1>5, <1>6, <1>8, <1>9, <1>10, <1>11, <1>12, Zenon DEF AdminStep

\* Every step keeps the types.
LEMMA TypeStep ==
    ASSUME TypeOK, Requests, EngineLife, Next
    PROVE  TypeOK'
<1>1. /\ config \in Configs /\ db \in Configs /\ table \in Configs
      /\ pending \in Configs /\ connected \in Configs
      /\ cmds \in Seq(Commands) /\ answered \subseteq Actors
      /\ admin \in [Admins -> AdminRequest] /\ Overlay \in Configs
      /\ Empty \in Configs /\ Web \in Actors /\ Admins \subseteq Actors
  BY Types, EmptyTyped, WebApart, Zenon
<1>2. ASSUME NEW f \in Configs, NEW d \in Devices, NEW v \in Vals \cup {None}
      PROVE  [f EXCEPT ![d] = v] \in Configs
  BY Zenon DEF Configs
<1>3. \A f \in Configs, d \in Devices : f[d] \in Vals \cup {None}
  BY Zenon DEF Configs
<1>4. ASSUME NEW x \in Actors, NEW op \in {"disconnect", "reload", "reconfigure", "shutdown"},
             NEW d \in Devices \cup {None}, NEW t \in Configs
      PROVE  /\ Command(x, op, d, t) \in Commands
             /\ Append(cmds, Command(x, op, d, t)) \in Seq(Commands)
  <2>1. Command(x, op, d, t) \in Commands
    BY Zenon DEF Command, Commands
  <2> QED BY <1>1, <2>1, Appended, Zenon
<1>5. ASSUME NEW d \in Devices, Handshake(d) PROVE TypeOK'
  <2>1. config[d] \in Vals \cup {None} /\ table[d] \in Vals \cup {None}
    BY <1>1, <1>3, Zenon
  <2>2. engine' = [engine EXCEPT !.pc = "registering", !.dev = d, !.req = config[d],
                                 !.cap = table[d]]
    BY <1>5, Zenon DEF Handshake
  <2>3. engine' \in [id : 1 .. MaxStarts, pc : {"off", "idle", "registering"},
                     dev : Devices \cup {None}, req : Vals \cup {None}, cap : Vals \cup {None}]
    BY <2>1, <2>2, Zenon DEF TypeOK
  <2>4. /\ shakes' \in 0 .. MaxShakes
        /\ UNCHANGED <<config, db, lock, device_lock, manager, table, pending, connected,
                       cmds, answered, admin, web, kind, disturbed>>
    BY <1>5, TunnelAssumption DEF Handshake, TypeOK
  <2> QED BY <2>3, <2>4, Zenon DEF TypeOK
<1>6. CASE RegisterSession
  <2>1. engine' \in [id : 1 .. MaxStarts, pc : {"off", "idle", "registering"},
                     dev : Devices \cup {None}, req : Vals \cup {None}, cap : Vals \cup {None}]
    BY <1>6, Zenon DEF RegisterSession, TypeOK
  <2>2. /\ engine.dev \in Devices /\ engine.req \in Vals \cup {None}
        /\ engine.cap \in Vals \cup {None} /\ config[engine.dev] \in Vals \cup {None}
    BY <1>1, <1>3, <1>6, Types, Zenon DEF RegisterSession, EngineLife
  <2>3. config' \in Configs
    BY <1>1, <1>2, <1>6, <2>2 DEF RegisterSession
  <2>4. db' \in Configs
    BY <1>1, <1>2, <1>6, <2>2 DEF RegisterSession
  <2> DEFINE d == engine.dev
  <2>8. /\ [pending EXCEPT ![d] = engine.cap] \in Configs
        /\ [connected EXCEPT ![d] = engine.cap] \in Configs
    BY <1>1, <1>2, <2>2, Zenon
  <2>5. pending' \in Configs /\ connected' \in Configs
    BY <1>1, <1>6, <2>8, Zenon DEF RegisterSession
  <2>6. disturbed' \in BOOLEAN
    BY <1>6, Zenon DEF RegisterSession, TypeOK
  <2>7. UNCHANGED <<lock, device_lock, manager, table, cmds, answered, admin, web, shakes, kind>>
    BY <1>6, Zenon DEF RegisterSession
  <2> QED BY <2>1, <2>3, <2>4, <2>5, <2>6, <2>7, Zenon DEF TypeOK
<1>7. ASSUME NEW d \in Devices, FinishEap(d) \/ PeerIdle(d) PROVE TypeOK'
  <2>1. pending' \in Configs /\ connected' \in Configs
    BY <1>1, <1>2, <1>3, <1>7 DEF FinishEap, PeerIdle
  <2> QED BY <1>7, <2>1, Zenon DEF FinishEap, PeerIdle, TypeOK, rest
<1>8. CASE HandleCommand
  <2>1. /\ Head(cmds) \in Commands /\ Tail(cmds) \in Seq(Commands) /\ <<>> \in Seq(Commands)
        /\ \A i \in DOMAIN cmds : cmds[i].from \in Actors
    <3>1. \A c \in Commands : c.from \in Actors
      BY Zenon DEF Commands
    <3>2. \A i \in DOMAIN cmds : cmds[i] \in Commands
      BY <1>1
    <3> QED BY <1>1, <1>8, <3>1, <3>2, Tailed DEF HandleCommand
  <2>2. /\ Head(cmds).from \in Actors /\ Head(cmds).table \in Configs
        /\ Head(cmds).dev \in Devices \cup {None}
    BY <2>1, Zenon DEF Commands
  <2>3. engine' \in [id : 1 .. MaxStarts, pc : {"off", "idle", "registering"},
                     dev : Devices \cup {None}, req : Vals \cup {None}, cap : Vals \cup {None}]
    BY <1>8, Zenon DEF HandleCommand, TypeOK
  <2>4. cmds' \in Seq(Commands) /\ answered' \subseteq Actors
    BY <1>1, <1>8, <2>1, <2>2, Zenon DEF HandleCommand, Woken
  <2>5. table' \in Configs /\ pending' \in Configs
    BY <1>1, <1>8, <2>2, Zenon DEF HandleCommand, Reloaded
  <2>6. [connected EXCEPT ![Head(cmds).dev] = None] \in Configs
    BY <1>1, Zenon DEF Configs
  <2>7. [d \in Devices |-> IF Head(cmds).table[d] = connected[d] THEN connected[d] ELSE None] \in Configs
    BY <1>1, <1>3, Zenon DEF Configs
  <2>8. connected' \in Configs
    BY <1>1, <1>8, <2>6, <2>7, Zenon DEF HandleCommand
  <2>9. UNCHANGED <<config, db, lock, device_lock, manager, admin, web, shakes, kind, disturbed>>
    BY <1>8, Zenon DEF HandleCommand, rest
  <2> QED BY <2>3, <2>4, <2>5, <2>8, <2>9, Zenon DEF TypeOK, Commands
<1>9. ASSUME NEW a \in Admins, BeginEdit(a) \/ AdminStep(a) PROVE TypeOK'
  <2>1. /\ admin' \in [Admins -> AdminRequest]
        /\ device_lock' \in Admins \cup {None} /\ lock' \in Admins \cup {Client, None}
    BY <1>9, AdminMoves, Types, Zenon DEF Moves
  <2>2. admin[a].pc # "ready" => admin[a].dev \in Devices
    BY Zenon DEF Requests
  <2>3. admin[a].val \in Vals \cup {None} /\ admin[a].prev \in Vals \cup {None}
    BY <1>1, Zenon DEF AdminRequest
  <2>4. config' \in Configs /\ db' \in Configs
    <3> DEFINE d == admin[a].dev
    <3>1. CASE Apply(a)
      <4>1. [config EXCEPT ![d] = admin[a].val] \in Configs
        BY <1>1, <1>2, <2>2, <2>3, <3>1, Zenon DEF Apply
      <4> QED BY <1>1, <3>1, <4>1, Zenon DEF Apply
    <3>2. CASE Save(a)
      <4>1. d \in Devices /\ config[d] \in Vals \cup {None}
        BY <1>1, <1>3, <2>2, <3>2, Zenon DEF Save
      <4>2. [config EXCEPT ![d] = admin[a].prev] \in Configs /\ [db EXCEPT ![d] = config[d]] \in Configs
        BY <1>1, <1>2, <2>3, <4>1, Zenon
      <4> QED BY <1>1, <3>2, <4>2, Zenon DEF Save
    <3>3. ~ Apply(a) /\ ~ Save(a) => UNCHANGED <<config, db>>
      BY <1>9, Zenon DEF BeginEdit, AdminStep, LockDevices, LockNetwork, Kick, Answered, Refresh, Reload
    <3> QED BY <1>1, <3>1, <3>2, <3>3, Zenon
  <2>6. cmds' \in Seq(Commands)
    BY <1>1, <1>4, <1>9, <2>2, Zenon DEF BeginEdit, AdminStep, LockDevices, LockNetwork, Kick,
      Answered, Apply, Save, Refresh, Reload
  <2>7. /\ answered' \subseteq Actors /\ disturbed' \in BOOLEAN
        /\ UNCHANGED <<manager, engine, table, pending, connected, web, shakes, kind>>
    BY <1>1, <1>9, Zenon DEF BeginEdit, AdminStep, LockDevices, LockNetwork, Kick,
      Answered, Apply, Save, Refresh, Reload, rest, TypeOK
  <2> QED BY <2>1, <2>4, <2>6, <2>7, Zenon DEF TypeOK, Commands
<1>10. CASE ClientLock \/ ClientUnlock
  BY <1>10, Zenon DEF ClientLock, ClientUnlock, TypeOK, rest
<1>11. CASE WithdrawEngine \/ ReloadSettings
  <2>1. cmds' \in Seq(Commands)
    BY <1>1, <1>4, <1>11, Zenon DEF WithdrawEngine, ReloadSettings
  <2> QED BY <1>11, <2>1, Zenon DEF WithdrawEngine, ReloadSettings, TypeOK, Commands, rest
<1>12. CASE WebAnswered \/ BindAndLoad
  <2>1. table' \in Configs
    BY <1>1, <1>12, Zenon DEF WebAnswered, BindAndLoad
  <2> QED BY <1>12, <2>1, Zenon DEF WebAnswered, BindAndLoad, TypeOK, rest
<1>13. CASE PublishEngine
  <2>1. engine.id + 1 \in 1 .. MaxStarts
    BY <1>13, TunnelAssumption, Types DEF PublishEngine, EngineLife
  <2> QED BY <1>13, <2>1, Zenon DEF PublishEngine, TypeOK, rest
<1> QED BY <1>5, <1>6, <1>7, <1>8, <1>9, <1>10, <1>11, <1>12, <1>13, Zenon DEF Next, EngineStep, WebStep

\* What a command carries.
LEMMA Sendable ==
    ASSUME NEW x \in Actors, NEW op \in {"disconnect", "reload", "reconfigure", "shutdown"},
           NEW d \in Devices \cup {None}, NEW t \in Configs
    PROVE  \E c \in Commands : /\ c = Command(x, op, d, t)
                               /\ c.from = x /\ c.op = op /\ c.dev = d /\ c.table = t
<1>1. /\ Command(x, op, d, t) \in Commands
      /\ Command(x, op, d, t).from = x /\ Command(x, op, d, t).op = op
      /\ Command(x, op, d, t).dev = d /\ Command(x, op, d, t).table = t
  BY Zenon DEF Command, Commands
<1> QED BY <1>1, Zenon

\* The steps of a request other than a send, an answer, Apply and Save touch nothing else.
LEMMA Aside ==
    ASSUME NEW a \in Admins,
           BeginEdit(a) \/ LockDevices(a) \/ LockNetwork(a) \/ Refresh(a)
    PROVE  /\ UNCHANGED <<config, db, manager, engine, table, pending, connected, cmds, answered,
                          web, kind>>
           /\ admin[a].pc \in {"ready", "lock", "net", "refresh"}
BY Zenon DEF BeginEdit, LockDevices, LockNetwork, Refresh, rest

\* Every step keeps the commands and the answers with those who wait for them.
LEMMA ExchangeStep ==
    ASSUME TypeOK, Requests, EngineLife, Channel, NoLostAnswer, Next
    PROVE  Channel' /\ NoLostAnswer'
<1>1. CASE EngineStep
  <2>1. CASE HandleCommand
    BY <2>1, HandleStep, Zenon
  <2>2. ASSUME NEW d \in Devices, Handshake(d) PROVE Channel' /\ NoLostAnswer'
    <3>1. UNCHANGED <<cmds, answered, web, admin>> /\ engine'.pc = "registering"
      BY <2>2, Zenon DEF Handshake, TypeOK
    <3> QED BY <3>1, QuietStep, Zenon
  <2>3. CASE RegisterSession
    <3>1. UNCHANGED <<cmds, answered, web, admin>> /\ engine'.pc = "idle"
      BY <2>3, Zenon DEF RegisterSession, TypeOK
    <3> QED BY <3>1, QuietStep, Zenon
  <2>4. ASSUME NEW d \in Devices, FinishEap(d) \/ PeerIdle(d) PROVE Channel' /\ NoLostAnswer'
    <3>1. UNCHANGED <<cmds, answered, web, admin, engine>>
      BY <2>4, Zenon DEF FinishEap, PeerIdle
    <3> QED BY <3>1, QuietStep, Zenon
  <2> QED BY <1>1, <2>1, <2>2, <2>3, <2>4, Zenon DEF EngineStep
<1>2. ASSUME NEW a \in Admins, BeginEdit(a) \/ AdminStep(a) PROVE Channel' /\ NoLostAnswer'
  <2>1. Moves(a) /\ web' = web /\ engine' = engine /\ a # Web
    BY <1>2, AdminMoves, WebApart, Zenon DEF BeginEdit, AdminStep, LockDevices, LockNetwork, Kick,
      Answered, Apply, Save, Refresh, Reload
  <2>2. ASSUME UNCHANGED <<cmds, answered>>,
               {admin[a].pc, admin'[a].pc} \cap {"kicked", "reloading"} = {}
        PROVE  Channel' /\ NoLostAnswer'
    BY <2>1, <2>2, QuietStep, Zenon DEF Moves
  <2>3. CASE BeginEdit(a) \/ LockDevices(a) \/ LockNetwork(a) \/ Refresh(a)
    <3>1. UNCHANGED <<cmds, answered>> /\ admin[a].pc \in {"ready", "lock", "net", "refresh"}
      BY <2>3, Aside, Zenon
    <3> QED BY <2>1, <2>2, <3>1, Zenon DEF Moves
  <2>4. CASE Apply(a) \/ Save(a)
    <3>1. UNCHANGED <<cmds, answered>> /\ admin[a].pc \in {"apply", "save"}
      BY <2>4, Zenon DEF Apply, Save
    <3> QED BY <2>1, <2>2, <3>1, Zenon DEF Moves
  <2>5. CASE Kick(a)
    <3> DEFINE sent == MustKick(a) /\ manager # None /\ Alive(manager)
    <3>1. admin[a].pc = "kick" /\ answered' = answered /\ admin[a].dev \in Devices
      BY <2>5, Zenon DEF Kick, Requests
    <3>2. CASE ~ sent
      <4>1. PICK pc \in {"apply", "net"} : Goto(a, pc) /\ cmds' = cmds
        BY <2>5, <3>2, Zenon DEF Kick, AfterKick
      <4> QED BY <2>2, <3>1, <4>1, Types, Goes, Zenon
    <3>3. CASE sent
      <4>1. cmds' = Append(cmds, Command(a, "disconnect", admin[a].dev, Empty))
              /\ Goto(a, "kicked") /\ engine.pc # "off"
        BY <2>5, <3>3, Zenon DEF Kick, Alive
      <4>2. PICK c \in Commands : c = Command(a, "disconnect", admin[a].dev, Empty)
                                    /\ c.from = a /\ c.op = "disconnect"
        BY <3>1, EmptyTyped, WebApart, Sendable
      <4>3. admin'[a].pc = "kicked"
        BY <4>1, Types, Goes, Zenon
      <4>4. ~ Waiting(c.from) /\ Waits(c)'
        BY <2>1, <3>1, <4>2, <4>3, Zenon DEF Waiting, Waits
      <4> QED BY <2>1, <3>1, <4>1, <4>2, <4>4, SendStep, Zenon DEF Moves
    <3> QED BY <3>2, <3>3, Zenon
  <2>6. CASE Answered(a)
    <3>1. /\ a \in answered /\ answered' = answered \ {a} /\ cmds' = cmds /\ a \in Actors
          /\ admin[a].pc \in {"kicked", "reloading"}
      BY <2>6, WebApart, Zenon DEF Answered
    <3>2. ~ Waiting(a)'
      BY <2>1, <3>1, Zenon DEF Moves, Waiting
    <3> QED BY <2>1, <3>1, <3>2, TakeStep, Zenon DEF Moves
  <2>7. CASE Reload(a)
    <3>1. admin[a].pc = "load" /\ answered' = answered
      BY <2>7, Zenon DEF Reload
    <3>2. CASE ~ Alive(admin[a].engine)
      <4>1. Goto(a, "done") /\ cmds' = cmds
        BY <2>7, <3>2, Zenon DEF Reload, Release
      <4> QED BY <2>2, <3>1, <4>1, Types, Goes, Zenon
    <3>3. CASE Alive(admin[a].engine)
      <4>1. cmds' = Append(cmds, Command(a, "reload", None, Overlay))
              /\ Goto(a, "reloading") /\ engine.pc # "off"
        BY <2>7, <3>3, Zenon DEF Reload, Alive
      <4>2. a \in Actors /\ Overlay \in Configs
        BY Types, WebApart, Zenon
      <4>3. PICK c \in Commands : c = Command(a, "reload", None, Overlay)
                                    /\ c.from = a /\ c.op = "reload"
        BY <4>2, Sendable
      <4>4. admin'[a].pc = "reloading"
        BY <4>1, Types, Goes, Zenon
      <4>5. ~ Waiting(c.from) /\ Waits(c)'
        BY <2>1, <3>1, <4>3, <4>4, Zenon DEF Waiting, Waits
      <4> QED BY <2>1, <3>1, <4>1, <4>3, <4>5, SendStep, Zenon DEF Moves
    <3> QED BY <3>2, <3>3, Zenon
  <2> QED BY <1>2, <2>3, <2>4, <2>5, <2>6, <2>7, Zenon DEF AdminStep
<1>3. CASE ClientLock \/ ClientUnlock
  <2>1. UNCHANGED <<cmds, answered, web, admin, engine>>
    BY <1>3, Zenon DEF ClientLock, ClientUnlock
  <2> QED BY <2>1, QuietStep, Zenon
<1>4. ASSUME NEW op \in {"shutdown", "reconfigure"}, web = "idle", UNCHANGED <<admin, answered, engine>>,
             cmds' = Append(cmds, Command(Web, op, None, Empty)), engine.pc # "off",
             web' = IF op = "shutdown" THEN "stopping" ELSE "reconfiguring"
      PROVE  Channel' /\ NoLostAnswer'
  <2>1. PICK c \in Commands : c = Command(Web, op, None, Empty) /\ c.from = Web /\ c.op = op
    BY EmptyTyped, WebApart, Sendable
  <2>2. ~ Waiting(c.from) /\ Waits(c)'
    BY <1>4, <2>1, Zenon DEF Waiting, Waits
  <2> QED BY <1>4, <2>1, <2>2, SendStep, Zenon
<1>5. CASE WithdrawEngine
  <2>1. web = "idle" /\ UNCHANGED <<admin, answered, engine>>
    BY <1>5, Zenon DEF WithdrawEngine
  <2>2. CASE manager # None /\ Alive(manager)
    BY <1>4, <1>5, <2>1, <2>2, Zenon DEF WithdrawEngine, Alive
  <2>3. CASE ~ (manager # None /\ Alive(manager))
    BY <1>5, <2>1, <2>3, QuietStep, Zenon DEF WithdrawEngine
  <2> QED BY <2>2, <2>3, Zenon
<1>6. CASE ReloadSettings
  BY <1>4, <1>6, Zenon DEF ReloadSettings, Alive
<1>7. CASE WebAnswered
  <2>1. Web \in answered /\ answered' = answered \ {Web} /\ UNCHANGED <<cmds, engine, admin>>
          /\ Web \in Actors
    BY <1>7, WebApart, Zenon DEF WebAnswered
  <2>2. ~ Waiting(Web)'
    BY <1>7, Zenon DEF WebAnswered, Waiting
  <2> QED BY <2>1, <2>2, TakeStep, Zenon
<1>8. CASE BindAndLoad
  <2>1. UNCHANGED <<cmds, answered, admin, engine>>
          /\ web \in {"start", "restore"} /\ web' \in {"loaded", "restore", "idle"}
    BY <1>8, Zenon DEF BindAndLoad
  <2> QED BY <2>1, QuietStep, Zenon
<1>9. CASE PublishEngine
  <2>1. UNCHANGED <<cmds, answered, admin>> /\ engine'.pc = "idle"
          /\ web = "loaded" /\ web' = "idle"
    BY <1>9, Zenon DEF PublishEngine, TypeOK
  <2> QED BY <2>1, QuietStep, Zenon
<1> QED BY <1>1, <1>2, <1>3, <1>5, <1>6, <1>7, <1>8, <1>9, Zenon DEF Next, WebStep

-----------------------------------------------------------------------------
(* The engine's life and the connected devices.                             *)

\* A step that leaves the engine, its handle and the settings request alone.
LEMMA LifeKept ==
    ASSUME EngineLife, UNCHANGED <<manager, engine, web, connected, pending>>,
           Web \in answered' => Web \in answered,
           engine.pc = "off" => cmds' = cmds
    PROVE  EngineLife'
BY Zenon DEF EngineLife

\* Every step keeps the handle and the settings request in line with the engine.
LEMMA EngineLifeStep ==
    ASSUME TypeOK, Requests, EngineLife, Channel, Next
    PROVE  EngineLife'
<1>1. /\ config \in Configs /\ table \in Configs /\ cmds \in Seq(Commands)
      /\ engine.id \in 1 .. MaxStarts
  BY Types, Zenon
<1>2. ASSUME NEW d \in Devices, Handshake(d) PROVE EngineLife'
  <2>1. /\ engine'.pc = "registering" /\ engine'.id = engine.id /\ engine'.dev = d
        /\ engine'.req = config[d] /\ engine'.cap = table[d]
    BY <1>2, Zenon DEF Handshake, TypeOK
  <2>2. engine.pc = "idle" /\ config[d] # None /\ table[d] # None
          /\ UNCHANGED <<manager, pending, connected, cmds, answered, web>>
    BY <1>2, Zenon DEF Handshake
  <2> QED BY <2>1, <2>2, Zenon DEF EngineLife
<1>3. CASE RegisterSession
  <2>1. engine'.pc = "idle" /\ engine'.id = engine.id /\ engine.pc = "registering"
          /\ UNCHANGED <<manager, cmds, answered, web>>
    BY <1>3, Zenon DEF RegisterSession, TypeOK
  <2> QED BY <2>1, Zenon DEF EngineLife
<1>4. ASSUME NEW d \in Devices, FinishEap(d) \/ PeerIdle(d) PROVE EngineLife'
  BY <1>4, Zenon DEF FinishEap, PeerIdle, EngineLife
<1>5. CASE HandleCommand
  <2>1. /\ engine.pc = "idle" /\ UNCHANGED <<manager, web>> /\ Waits(Head(cmds))
        /\ answered' = answered \cup Woken(Head(cmds))
    BY <1>1, <1>5, Tailed DEF HandleCommand, Channel
  <2>2. CASE Head(cmds).op = "shutdown"
    <3>1. engine'.pc = "off" /\ engine'.id = engine.id /\ cmds' = <<>>
            /\ connected' = Empty /\ pending' = Empty
      BY <1>5, <2>2, Zenon DEF HandleCommand, TypeOK
    <3>2. web = "stopping"
      BY <2>1, <2>2, Zenon DEF Waits
    <3> QED BY <2>1, <3>1, <3>2, Zenon DEF EngineLife
  <2>3. CASE Head(cmds).op # "shutdown"
    <3>1. engine' = engine /\ answered' = answered \cup {Head(cmds).from}
      BY <1>5, <2>1, <2>3, Zenon DEF HandleCommand, Woken
    <3>2. Web \in answered' => Web \in answered \/ web = "reconfiguring"
      BY <2>1, <2>3, <3>1, WebApart, Zenon DEF Waits
    <3> QED BY <2>1, <3>1, <3>2, Zenon DEF EngineLife
  <2> QED BY <2>2, <2>3, Zenon
<1>6. ASSUME NEW a \in Admins, BeginEdit(a) \/ AdminStep(a) PROVE EngineLife'
  <2>1. UNCHANGED <<manager, engine, web, connected, pending>> /\ (Web \in answered' => Web \in answered)
    BY <1>6, Zenon DEF BeginEdit, AdminStep, LockDevices, LockNetwork, Kick, Answered, Apply, Save,
      Refresh, Reload
  <2>2. engine.pc = "off" => cmds' = cmds
    BY <1>6, Zenon DEF BeginEdit, AdminStep, LockDevices, LockNetwork, Kick, Answered, Apply, Save,
      Refresh, Reload, Alive
  <2> QED BY <2>1, <2>2, LifeKept, Zenon
<1>7. CASE ClientLock \/ ClientUnlock
  BY <1>7, LifeKept, Zenon DEF ClientLock, ClientUnlock
<1>8. CASE WithdrawEngine
  <2>1. web = "idle" /\ manager' = None /\ Web \notin answered
          /\ UNCHANGED <<engine, connected, pending, answered>>
    BY <1>8, Zenon DEF WithdrawEngine, Channel
  <2>2. CASE manager # None /\ Alive(manager)
    BY <1>8, <2>1, <2>2, Zenon DEF WithdrawEngine, Alive, EngineLife
  <2>3. CASE ~ (manager # None /\ Alive(manager))
    BY <1>8, <2>1, <2>3, Zenon DEF WithdrawEngine, Alive, EngineLife
  <2> QED BY <2>2, <2>3, Zenon
<1>9. CASE ReloadSettings
  BY <1>9, Zenon DEF ReloadSettings, Alive, EngineLife
<1>10. CASE WebAnswered
  BY <1>10, Zenon DEF WebAnswered, Channel, EngineLife
<1>11. CASE BindAndLoad
  <2>1. UNCHANGED <<manager, engine, connected, pending, cmds, answered>> /\ engine.id < MaxStarts
          /\ web \in {"start", "restore"} /\ web' \in {"loaded", "restore", "idle"}
    BY <1>11, Zenon DEF BindAndLoad
  <2> QED BY <2>1, Zenon DEF EngineLife
<1>12. CASE PublishEngine
  <2>1. engine'.pc = "idle" /\ engine'.id = engine.id + 1 /\ manager' = engine.id + 1
          /\ web' = "idle"
    BY <1>12, Zenon DEF PublishEngine, TypeOK
  <2>2. engine.id + 1 # None
    BY <1>1, TunnelAssumption
  <2> QED BY <2>1, <2>2, Zenon DEF EngineLife
<1> QED BY <1>2, <1>3, <1>4, <1>5, <1>6, <1>7, <1>8, <1>9, <1>10, <1>11, <1>12, Zenon
     DEF Next, EngineStep, WebStep

\* A step that connects nobody and changes no configuration.
LEMMA ServedKept ==
    ASSUME Served, UNCHANGED <<config, kind>>, pending' = pending \/ pending' = Empty,
           \A d \in Devices : Online(d)' => Online(d),
           \A a \in Admins : admin[a].pc # "ready" => admin[a].dev \in Devices,
           \A a \in Admins : admin'[a].pc = "save" => admin'[a] = admin[a]
    PROVE  Served'
<1>1. \A d \in Devices : Online(d)' => config'[d] # None
  BY Zenon DEF Served
<1>2. ASSUME NEW a \in Admins, admin'[a].pc = "save", admin'[a].op = "upsert", admin'[a].prev = None
      PROVE  ~ (Online(admin[a].dev)')
  <2>1. admin'[a] = admin[a] /\ admin[a].dev \in Devices /\ ~ Online(admin[a].dev)
    BY <1>2, Zenon DEF Served
  <2> QED BY <2>1, Zenon DEF Online
<1> QED BY <1>1, <1>2, Zenon DEF Served, Online

\* Every step keeps the states of the connected devices.
LEMMA ServedStep ==
    ASSUME TypeOK, Requests, EngineLife, Served, Next
    PROVE  Served'
<1>1. /\ config \in Configs /\ pending \in Configs /\ connected \in Configs
      /\ admin \in [Admins -> AdminRequest]
      /\ \A a \in Admins : admin[a].pc # "ready" => admin[a].dev \in Devices
  BY Types, Zenon DEF Requests
<1>2. ASSUME NEW d \in Devices, Handshake(d) \/ PeerIdle(d) PROVE Served'
  <2>1. UNCHANGED <<config, kind, pending, admin>>
    BY <1>2, Zenon DEF Handshake, PeerIdle, rest
  <2>2. \A e \in Devices : connected'[e] \in {connected[e], None}
    BY <1>1, <1>2, Zenon DEF Handshake, PeerIdle, Configs
  <2>3. \A e \in Devices : Online(e)' => Online(e)
    BY <2>1, <2>2, Zenon DEF Online
  <2> QED BY <1>1, <2>1, <2>3, ServedKept, Zenon
<1>3. ASSUME NEW d \in Devices, FinishEap(d) PROVE Served'
  <2>1. UNCHANGED <<config, kind, admin>> /\ pending[d] # None
          /\ pending' = [pending EXCEPT ![d] = None]
          /\ (connected' = [connected EXCEPT ![d] = pending[d]] \/ connected' = connected)
    BY <1>3, Zenon DEF FinishEap, rest
  <2>2. \A e \in Devices : Online(e)' => Online(e)
    BY <1>1, <2>1, Zenon DEF Online, Configs
  <2>3. kind # "Wireguard"
    BY <2>1, EmptyTyped, Zenon DEF Served
  <2>4. \A e \in Devices : Online(e)' => config'[e] # None
    BY <2>1, <2>2, Zenon DEF Served
  <2>5. ASSUME NEW a \in Admins, admin[a].pc = "save", admin[a].op = "upsert", admin[a].prev = None
        PROVE  ~ (Online(admin[a].dev)')
    <3>1. admin[a].dev \in Devices /\ ~ Online(admin[a].dev) /\ admin' = admin
      BY <1>1, <2>1, <2>5, Zenon DEF Served
    <3>2. admin[a].dev # d
      BY <2>1, <3>1, Zenon DEF Online
    <3> QED BY <1>1, <2>1, <3>1, <3>2, Zenon DEF Online, Configs
  <2> QED BY <2>1, <2>3, <2>4, <2>5, Zenon DEF Served, Online
<1>4. CASE RegisterSession
  <2> DEFINE d == engine.dev
  <2>1. /\ d \in Devices /\ engine.req # None /\ UNCHANGED <<admin, kind>> /\ lock = None
        /\ \A a \in Admins : admin[a].pc # "save"
    BY <1>4, NoHolder, Zenon DEF RegisterSession, EngineLife, HoldsNetwork
  <2>2. CASE UNCHANGED <<config, pending, connected>>
    BY <2>1, <2>2, Zenon DEF Served, Online
  <2>3. CASE \E moved \in {engine.req, config[d]} :
               config[d] # None /\ config' = [config EXCEPT ![d] = moved]
    <3>1. PICK moved \in {engine.req, config[d]} :
            config[d] # None /\ config' = [config EXCEPT ![d] = moved]
      BY <2>3, Zenon
    <3>2. config'[d] # None /\ \A e \in Devices : e # d => config'[e] = config[e]
      BY <1>1, <2>1, <3>1, Zenon DEF Configs
    <3>3. \A e \in Devices : e # d => pending'[e] = pending[e] /\ connected'[e] = connected[e]
      BY <1>1, <1>4, <2>1, Zenon DEF RegisterSession, Configs
    <3>4. \A e \in Devices : Online(e)' => config'[e] # None
      BY <3>2, <3>3, Zenon DEF Served, Online
    <3>5. kind = "Wireguard" => pending' = pending
      BY <1>4, Zenon DEF RegisterSession
    <3> QED BY <2>1, <3>4, <3>5, Zenon DEF Served
  <2> QED BY <1>4, <2>2, <2>3, Zenon DEF RegisterSession
<1>5. CASE HandleCommand
  <2>1. UNCHANGED <<config, kind, admin>> /\ (pending' = pending \/ pending' = Empty)
    BY <1>5, Zenon DEF HandleCommand, rest
  <2>2. \A e \in Devices : connected'[e] \in {connected[e], None}
    BY <1>1, <1>5, EmptyTyped, Zenon DEF HandleCommand, Configs
  <2>3. \A e \in Devices : Online(e)' => Online(e)
    BY <2>1, <2>2, EmptyTyped, Zenon DEF Online
  <2> QED BY <1>1, <2>1, <2>3, ServedKept, Zenon
<1>6. ASSUME NEW a \in Admins, Apply(a) PROVE Served'
  <2> DEFINE d == admin[a].dev
  <2>1. /\ admin[a].pc = "apply" /\ d \in Devices /\ UNCHANGED <<pending, connected, kind>>
        /\ \A b \in Admins : b # a => admin[b].pc # "save"
    BY <1>1, <1>6, OneHolder, Zenon DEF Apply, Holds, rest
  <2>2. CASE admin[a].op = "delete" /\ Online(d)
    <3>1. config' = config /\ Moves(a) /\ admin'[a].pc = "done"
      BY <1>1, <1>6, <2>2, AdminMoves, Goes, Zenon DEF Apply, AdminStep, Release
    <3> QED BY <1>1, <2>1, <3>1, ServedKept, Zenon DEF Moves, Online
  <2>3. CASE ~ (admin[a].op = "delete" /\ Online(d))
    <3>1. /\ config' = [config EXCEPT ![d] = admin[a].val]
          /\ \A b \in Admins : b # a => admin'[b] = admin[b]
          /\ admin'[a].dev = d /\ admin'[a].prev = config[d]
      BY <1>1, <1>6, <2>1, <2>3, Applies, Zenon
    <3>2. admin[a].val # None \/ ~ Online(d)
      BY <1>1, <2>1, <2>3, TunnelAssumption, Zenon DEF Requests, AdminRequest
    <3>3. \A e \in Devices : Online(e)' => config'[e] # None
      BY <1>1, <2>1, <3>1, <3>2, Zenon DEF Served, Online, Configs
    <3>4. config[d] = None => ~ Online(d)
      BY <2>1, Zenon DEF Served
    <3>5. \A b \in Admins : admin'[b].pc = "save" => b = a
      BY <2>1, <3>1, Zenon
    <3> QED BY <2>1, <3>1, <3>3, <3>4, <3>5, Zenon DEF Served, Online
  <2> QED BY <2>2, <2>3, Zenon
<1>7. ASSUME NEW a \in Admins, Save(a) PROVE Served'
  <2> DEFINE d == admin[a].dev
  <2>1. /\ admin[a].pc = "save" /\ d \in Devices /\ UNCHANGED <<pending, connected, kind>>
        /\ \A b \in Admins : b # a => admin[b].pc # "save"
    BY <1>1, <1>7, OneHolder, Zenon DEF Save, Holds
  <2>2. Moves(a)
    BY <1>7, AdminMoves, Zenon DEF AdminStep
  <2>3. \A b \in Admins : admin'[b].pc # "save"
    BY <2>1, <2>2, Zenon DEF Moves
  <2>4. \/ config' = config
        \/ admin[a].op = "upsert" /\ config' = [config EXCEPT ![d] = admin[a].prev]
    BY <1>7, Zenon DEF Save
  <2>5. \A e \in Devices : Online(e)' => config'[e] # None
    BY <1>1, <2>1, <2>4, Zenon DEF Served, Online, Configs
  <2> QED BY <2>1, <2>3, <2>5, Zenon DEF Served
<1>8. ASSUME NEW a \in Admins, BeginEdit(a) \/ AdminStep(a), ~ Apply(a), ~ Save(a) PROVE Served'
  <2>1. Moves(a) /\ UNCHANGED <<config, pending, connected, kind>> /\ admin[a].pc # "apply"
    BY <1>8, AdminMoves, Zenon DEF BeginEdit, AdminStep, LockDevices, LockNetwork, Kick, Answered,
      Refresh, Reload, rest
  <2> QED BY <1>1, <2>1, ServedKept, Zenon DEF Moves, Online
<1>9. CASE ClientLock \/ ClientUnlock \/ WithdrawEngine \/ ReloadSettings \/ WebStep
  <2>1. UNCHANGED <<config, kind, pending, connected, admin>>
    BY <1>9, Zenon DEF ClientLock, ClientUnlock, WithdrawEngine, ReloadSettings, WebStep, WebAnswered,
      BindAndLoad, PublishEngine, rest
  <2> QED BY <2>1, Zenon DEF Served, Online
<1> QED BY <1>2, <1>3, <1>4, <1>5, <1>6, <1>7, <1>8, <1>9, Zenon DEF Next, EngineStep

-----------------------------------------------------------------------------
(* The devices and peers of the engine that serves.                         *)

\* Who is editing holds both locks.
LEMMA EditorHolds ==
    ASSUME TypeOK, Requests, Channel
    PROVE  /\ \A a \in Admins : Editing(a) => Holds(a) /\ HoldsNetwork(a)
           /\ \A i \in DOMAIN cmds : cmds[i].op = "reload" =>
                /\ cmds[i].from \in Admins /\ Editing(cmds[i].from)
<1>1. \A a \in Admins : Editing(a) => Holds(a) /\ HoldsNetwork(a)
  BY Zenon DEF Editing, Holds, HoldsNetwork
<1>2. \A i \in DOMAIN cmds : cmds[i].op = "reload" => cmds[i].from \in Admins /\ Editing(cmds[i].from)
  BY Zenon DEF Channel, Waits, Editing
<1> QED BY <1>1, <1>2, Zenon

\* A step that changes no configuration and completes no edit, connects nobody and sends
\* no devices.
LEMMA CurrentKept ==
    ASSUME TypeOK, Current, UNCHANGED <<manager, table, config, db, kind>>,
           web' = "loaded" => web = "loaded" /\ device_lock' = device_lock,
           \A d \in Devices : Edited(d) => Edited(d)',
           \A d \in Devices : connected'[d] \in {connected[d], None},
           engine'.pc = "registering" => engine' = engine /\ engine.dev \in Devices,
           \A i \in DOMAIN cmds' : cmds'[i].op = "reload" => \E j \in DOMAIN cmds : cmds'[i] = cmds[j],
           \A b \in Admins : admin'[b].pc = "load" => admin[b].pc = "load" /\ admin'[b].engine = admin[b].engine
    PROVE  Current'
<1>1. Overlay' = Overlay
  BY Zenon DEF Overlay
<1>2. web' = "loaded" => device_lock' = None /\ table' = Overlay'
  BY <1>1, Zenon DEF Current
<1> SUFFICES ASSUME manager # None
             PROVE  /\ \A a \in Admins : admin'[a].pc = "load" => admin'[a].engine = manager'
                    /\ \A i \in DOMAIN cmds' : cmds'[i].op = "reload" => cmds'[i].table = Overlay'
                    /\ \A d \in Devices : Edited(d)' \/ table'[d] = Overlay'[d]
                    /\ kind' = "Wireguard" =>
                         /\ \A d \in Devices : Edited(d)' \/ connected'[d] \in {None, config'[d]}
                         /\ engine'.pc = "registering" =>
                              \/ Edited(engine.dev)'
                              \/ config'[engine'.dev] = None
                              \/ config'[engine'.dev] = engine'.req /\ engine'.cap = engine'.req
  BY <1>2, Zenon DEF Current
<1>3. \A a \in Admins : admin'[a].pc = "load" => admin'[a].engine = manager'
  BY Zenon DEF Current
<1>4. \A i \in DOMAIN cmds' : cmds'[i].op = "reload" => cmds'[i].table = Overlay'
  BY <1>1, Zenon DEF Current
<1>5. \A d \in Devices : Edited(d)' \/ table'[d] = Overlay'[d]
  BY <1>1, Zenon DEF Current
<1>6. kind = "Wireguard" => \A d \in Devices : Edited(d)' \/ connected'[d] \in {None, config'[d]}
  BY Zenon DEF Current
<1>7. ASSUME kind = "Wireguard", engine'.pc = "registering"
      PROVE  \/ Edited(engine.dev)'
             \/ config'[engine'.dev] = None
             \/ config'[engine'.dev] = engine'.req /\ engine'.cap = engine'.req
  <2>1. PICK d \in Devices : d = engine.dev /\ d = engine'.dev
    BY <1>7, Zenon
  <2>2. \/ Edited(d)
        \/ config[d] = None
        \/ config[d] = engine.req /\ engine.cap = engine.req
    BY <1>7, <2>1, Zenon DEF Current
  <2>3. Edited(d)' => Edited(engine.dev)'
    BY <2>1, Zenon DEF Edited
  <2> QED BY <1>7, <2>1, <2>2, <2>3, Zenon
<1> QED BY <1>3, <1>4, <1>5, <1>6, <1>7, Zenon

\* A request moves that neither begins nor ends the time its edit is under way.
LEMMA EditedKept ==
    ASSUME TypeOK, NEW a \in Admins, Moves(a), answered' \subseteq answered,
           Editing(a) => Editing(a)' /\ admin[a].pc # "ready"
    PROVE  \A d \in Devices : Edited(d) => Edited(d)'
<1>1. \A b \in Admins : b # a /\ Editing(b) => Editing(b)' /\ admin'[b].dev = admin[b].dev
  BY Zenon DEF Moves, Editing
<1>2. Editing(a) => Editing(a)' /\ admin'[a].dev = admin[a].dev
  BY Zenon DEF Moves
<1> QED BY <1>1, <1>2, Zenon DEF Edited

\* The engine's steps.
LEMMA CurrentEngineStep ==
    ASSUME TypeOK, Requests, EngineLife, Channel, Served, Current, EngineStep, disturbed' = FALSE
    PROVE  Current'
<1>1. /\ config \in Configs /\ db \in Configs /\ table \in Configs /\ connected \in Configs
      /\ cmds \in Seq(Commands) /\ admin \in [Admins -> AdminRequest]
  BY Types, Zenon
<1>2. ASSUME NEW d \in Devices, Handshake(d) PROVE Current'
  <2>1. /\ engine'.pc = "registering" /\ engine'.dev = d
        /\ engine'.req = config[d] /\ engine'.cap = table[d]
    BY <1>2, Zenon DEF Handshake, TypeOK
  <2>2. config[d] # None /\ UNCHANGED <<config, db, device_lock, manager, table, connected, cmds, answered,
                                         admin, web, kind>>
    BY <1>2, Zenon DEF Handshake
  <2>3. Overlay[d] = config[d] /\ Overlay' = Overlay
    BY <2>2, Zenon DEF Overlay
  <2>4. \A e \in Devices : Edited(e)' = Edited(e)
    BY <2>2, Zenon DEF Edited, Editing
  <2>5. Edited(engine.dev)' = Edited(d)
    BY <2>1, <2>2, Zenon DEF Edited, Editing
  <2>6. manager # None => Edited(d) \/ table[d] = config[d]
    BY <2>3, Zenon DEF Current
  <2> QED BY <2>1, <2>2, <2>3, <2>4, <2>5, <2>6, Zenon DEF Current
<1>3. CASE RegisterSession
  <2>1. PICK d \in Devices : d = engine.dev
    BY <1>3, Zenon DEF RegisterSession, EngineLife
  <2>2. /\ engine.pc = "registering" /\ lock = None /\ engine'.pc = "idle" /\ web # "loaded"
        /\ UNCHANGED <<device_lock, manager, table, cmds, answered, admin, web, kind>>
    BY <1>3, Zenon DEF RegisterSession, EngineLife, TypeOK
  <2>3. /\ \A a \in Admins : ~ Editing(a) /\ admin[a].pc # "load"
        /\ \A i \in DOMAIN cmds : cmds[i].op # "reload"
        /\ \A e \in Devices : ~ Edited(e)
    BY <2>2, NoHolder, EditorHolds, Zenon DEF Edited, HoldsNetwork
  <2>4. \/ UNCHANGED <<config, db, connected>>
        \/ \E moved \in IF kind = "Wireguard" THEN {engine.req, config[d]} ELSE {config[d]} :
             /\ config[d] # None /\ config' = [config EXCEPT ![d] = moved]
             /\ db' = [db EXCEPT ![d] = moved]
             /\ kind = "Wireguard" => connected' = [connected EXCEPT ![d] = engine.cap]
    BY <1>3, <2>1, Zenon DEF RegisterSession
  <2>5. CASE manager = None
    BY <2>2, <2>5, Zenon DEF Current
  <2>6. CASE manager # None
    <3>1. \A e \in Devices : table[e] = Overlay[e]
      BY <2>3, <2>6, Zenon DEF Current
    <3>2. kind = "Wireguard" => /\ \A e \in Devices : connected[e] \in {None, config[e]}
                                /\ config[d] = None \/ (config[d] = engine.req /\ engine.cap = engine.req)
      BY <2>1, <2>2, <2>3, <2>6, Zenon DEF Current
    <3>3. /\ \A e \in Devices : config'[e] = config[e]
          /\ \A e \in Devices : db'[e] = db[e] \/ config[e] # None
      BY <1>1, <2>4, <3>2, Zenon DEF Configs
    <3>4. kind = "Wireguard" => \A e \in Devices : connected'[e] \in {None, config[e]}
      BY <1>1, <2>4, <3>2, Zenon DEF Configs
    <3>5. \A e \in Devices : Overlay'[e] = Overlay[e]
      BY <3>3, Zenon DEF Overlay
    <3> QED BY <2>2, <2>3, <3>1, <3>3, <3>4, <3>5, Zenon DEF Current
  <2> QED BY <2>5, <2>6, Zenon
<1>4. ASSUME NEW d \in Devices, FinishEap(d) \/ PeerIdle(d) PROVE Current'
  <2>1. UNCHANGED <<config, db, device_lock, manager, table, engine, cmds, answered, admin, web, kind>>
    BY <1>4, Zenon DEF FinishEap, PeerIdle, rest
  <2>2. engine.pc # "registering"
    BY <1>4, Zenon DEF FinishEap, PeerIdle
  <2>3. \A e \in Devices : Edited(e)' = Edited(e)
    BY <2>1, Zenon DEF Edited, Editing
  <2>4. CASE PeerIdle(d)
    <3>1. \A e \in Devices : connected'[e] \in {connected[e], None}
      BY <1>1, <2>4, Zenon DEF PeerIdle, Configs
    <3> QED BY <2>1, <2>2, <2>3, <3>1, CurrentKept, Zenon
  <2>5. CASE FinishEap(d)
    <3>1. kind # "Wireguard"
      BY <2>5, EmptyTyped, Zenon DEF FinishEap, Served
    <3>2. Overlay' = Overlay
      BY <2>1, Zenon DEF Overlay
    <3> QED BY <2>1, <2>3, <3>1, <3>2, Zenon DEF Current
  <2> QED BY <1>4, <2>4, <2>5, Zenon
<1>5. CASE HandleCommand
  <2>1. PICK c \in Commands : c = Head(cmds)
    BY <1>1, <1>5, Tailed, Zenon DEF HandleCommand
  <2>2. /\ engine.pc = "idle" /\ UNCHANGED <<config, db, device_lock, manager, admin, web, kind>>
        /\ Waits(c) /\ answered' = answered \cup Woken(c)
        /\ \E i \in DOMAIN cmds : c = cmds[i]
    BY <1>1, <1>5, <2>1, Tailed DEF HandleCommand, Channel, rest
  <2>3. Overlay' = Overlay /\ web # "loaded"
    BY <2>2, Zenon DEF Overlay, EngineLife
  <2>4. c.op # "shutdown" => /\ engine' = engine /\ answered' = answered \cup {c.from}
                             /\ \A i \in DOMAIN cmds' : \E j \in DOMAIN cmds : cmds'[i] = cmds[j]
    <3>1. c.op # "shutdown" => engine' = engine /\ answered' = answered \cup {c.from} /\ cmds' = Tail(cmds)
      BY <1>5, <2>1, <2>2, Zenon DEF HandleCommand, Woken
    <3> QED BY <1>1, <1>5, <3>1, Tailed DEF HandleCommand
  <2>5. CASE manager = None
    BY <2>2, <2>3, <2>5, Zenon DEF Current
  <2>6. CASE manager # None
    <3>1. c.op \in {"disconnect", "reload", "reconfigure"}
      BY <2>2, <2>6, Zenon DEF Waits, EngineLife
    <3>2. CASE c.op # "reload"
      <4>1. /\ table' = table /\ \A e \in Devices : connected'[e] \in {connected[e], None}
        BY <1>1, <1>5, <2>1, <3>1, <3>2, EmptyTyped, Zenon DEF HandleCommand, Configs
      <4>2. \A a \in Admins : Editing(a) => Editing(a)'
        BY <2>2, <2>4, <3>1, <3>2, WebApart, Zenon DEF Editing, Waits
      <4>3. \A d \in Devices : Edited(d) => Edited(d)'
        BY <2>2, <4>2, Zenon DEF Edited
      <4> QED BY <2>2, <2>3, <2>4, <3>1, <4>1, <4>3, CurrentKept, Zenon
    <3>3. CASE c.op = "reload"
      <4>1. c.table = Overlay
        BY <2>2, <2>6, <3>3, Zenon DEF Current
      <4>2. table' = Overlay
        BY <1>5, <2>1, <3>3, <4>1, Zenon DEF HandleCommand, Reloaded
      <4>3. ASSUME kind = "Wireguard", NEW d \in Devices PROVE connected'[d] \in {None, config[d]}
        <5>1. connected'[d] = IF Overlay[d] = connected[d] THEN connected[d] ELSE None
          BY <1>5, <2>1, <3>3, <4>1, <4>3, Zenon DEF HandleCommand
        <5>2. connected[d] # None => Overlay[d] = config[d]
          BY Zenon DEF Served, Online, Overlay
        <5> QED BY <5>1, <5>2, Zenon
      <4>4. \A i \in DOMAIN cmds' : cmds'[i].op = "reload" => cmds'[i].table = Overlay
        BY <2>4, <2>6, <3>3, Zenon DEF Current
      <4>5. engine'.pc = "idle"
        BY <2>2, <2>4, <3>3, Zenon
      <4> QED BY <2>2, <2>3, <2>6, <4>2, <4>3, <4>4, <4>5, Zenon DEF Current
    <3> QED BY <3>2, <3>3, Zenon
  <2> QED BY <2>5, <2>6, Zenon
<1> QED BY <1>2, <1>3, <1>4, <1>5, Zenon DEF EngineStep

\* The steps of the administrators' requests.
LEMMA CurrentAdminStep ==
    ASSUME TypeOK, Requests, EngineLife, Channel, Current, NEW a \in Admins,
           BeginEdit(a) \/ AdminStep(a), disturbed' = FALSE
    PROVE  Current'
<1>1. /\ config \in Configs /\ db \in Configs /\ table \in Configs /\ connected \in Configs
      /\ cmds \in Seq(Commands) /\ admin \in [Admins -> AdminRequest]
      /\ Moves(a) /\ UNCHANGED <<manager, table, connected, engine, web, kind>>
  BY Types, AdminMoves, Zenon DEF BeginEdit, AdminStep, LockDevices, LockNetwork, Kick, Answered, Apply,
    Save, Refresh, Reload, rest
<1>2. BeginEdit(a) => device_lock' = device_lock
  BY Zenon DEF BeginEdit
<1>3. ~ BeginEdit(a) => web # "loaded"
  <2>1. LockDevices(a) => web # "loaded"
    BY Zenon DEF LockDevices, TypeOK
  <2>2. ~ LockDevices(a) /\ AdminStep(a) => Holds(a)
    BY Zenon DEF AdminStep, LockNetwork, Kick, Answered, Apply, Save, Refresh, Reload, Holds
  <2>3. Holds(a) => device_lock # None
    BY TunnelAssumption, Zenon DEF Requests
  <2> QED BY <2>1, <2>2, <2>3, Zenon DEF Current
<1>4. engine.pc = "registering" => engine.dev \in Devices
  BY Zenon DEF EngineLife
<1>5. ASSUME UNCHANGED <<config, db>>, answered' \subseteq answered,
             Editing(a) => Editing(a)' /\ admin[a].pc # "ready",
             \A i \in DOMAIN cmds' : cmds'[i].op = "reload" => \E j \in DOMAIN cmds : cmds'[i] = cmds[j],
             admin'[a].pc # "load"
      PROVE  Current'
  <2>1. \A d \in Devices : Edited(d) => Edited(d)'
    BY <1>1, <1>5, EditedKept, Zenon
  <2>2. \A b \in Admins : admin'[b].pc = "load" => admin[b].pc = "load" /\ admin'[b].engine = admin[b].engine
    BY <1>1, <1>5, Zenon DEF Moves
  <2> QED BY <1>1, <1>2, <1>3, <1>4, <1>5, <2>1, <2>2, CurrentKept, Zenon
<1>6. CASE BeginEdit(a) \/ LockDevices(a) \/ LockNetwork(a)
  <2>1. UNCHANGED <<config, db, cmds, answered>> /\ admin[a].pc \in {"ready", "lock", "net"}
    BY <1>6, Zenon DEF BeginEdit, LockDevices, LockNetwork
  <2>2. admin'[a].pc # "load" /\ ~ Editing(a)
    BY <1>1, <2>1, Zenon DEF Moves, Editing
  <2> QED BY <1>5, <2>1, <2>2, Zenon
<1>7. CASE Kick(a)
  <2>1. UNCHANGED <<config, db, answered>> /\ admin[a].pc = "kick" /\ admin[a].dev \in Devices
    BY <1>7, Zenon DEF Kick, Requests
  <2>2. admin'[a].pc # "load" /\ ~ Editing(a)
    BY <1>1, <2>1, Zenon DEF Moves, Editing
  <2>3. PICK c \in Commands : c = Command(a, "disconnect", admin[a].dev, Empty) /\ c.op = "disconnect"
    BY <2>1, EmptyTyped, WebApart, Sendable
  <2>4. cmds' = cmds \/ cmds' = Append(cmds, c)
    BY <1>7, <2>3, Zenon DEF Kick
  <2>5. \A i \in DOMAIN cmds' : cmds'[i].op = "reload" => \E j \in DOMAIN cmds : cmds'[i] = cmds[j]
    BY <1>1, <2>3, <2>4, Appended
  <2> QED BY <1>5, <2>1, <2>2, <2>5, Zenon
<1>8. CASE Answered(a)
  <2>1. /\ UNCHANGED <<config, db, cmds>> /\ a \in answered /\ answered' = answered \ {a}
        /\ admin[a].pc \in {"kicked", "reloading"}
    BY <1>8, Zenon DEF Answered
  <2>2. admin'[a].pc # "load" /\ ~ Editing(a)
    BY <1>1, <2>1, Zenon DEF Moves, Editing
  <2> QED BY <1>5, <2>1, <2>2, Zenon
<1>9. ASSUME Holds(a)
      PROVE  /\ \A b \in Admins : b # a => ~ Editing(b) /\ admin[b].pc # "load"
             /\ \A i \in DOMAIN cmds : cmds[i].op = "reload" => cmds[i].from = a /\ Editing(a)
             /\ \A d \in Devices : Edited(d) => Editing(a) /\ admin[a].dev = d
  BY <1>9, OneHolder, EditorHolds, Zenon DEF Edited, Holds
<1>10. ASSUME admin[a].pc \in {"apply", "save"}, cmds' = cmds, admin'[a].pc \in {"save", "refresh"},
              \A d \in Devices : d # admin[a].dev => config'[d] = config[d] /\ db'[d] = db[d]
       PROVE  Current'
  <2>1. Holds(a) /\ admin[a].dev \in Devices
    BY <1>10, Zenon DEF Holds, Requests
  <2>2. /\ \A b \in Admins : b # a => admin[b].pc # "load"
        /\ \A d \in Devices : Edited(d) => admin[a].dev = d
    BY <1>9, <2>1, Zenon
  <2>3. \A i \in DOMAIN cmds : cmds[i].op # "reload"
    BY <1>10, <2>1, <1>9, Zenon DEF Channel, Waits
  <2>4. \A b \in Admins : admin'[b].pc # "load"
    BY <1>1, <1>10, <2>2, Zenon DEF Moves
  <2>5. admin'[a].dev = admin[a].dev
    BY <1>1, <1>10, Zenon DEF Moves
  <2>6. \A d \in Devices : d = admin[a].dev => Edited(d)'
    BY <1>10, <2>5, Zenon DEF Edited, Editing
  <2>7. \A d \in Devices : d # admin[a].dev => Overlay'[d] = Overlay[d]
    BY <1>10, Zenon DEF Overlay
  <2>8. web' # "loaded"
    BY <1>1, <1>3, <1>10, Zenon DEF BeginEdit
  <2>9. manager # None => \A d \in Devices : Edited(d)' \/ table'[d] = Overlay'[d]
    BY <1>1, <2>2, <2>6, <2>7, Zenon DEF Current
  <2>10. manager # None /\ kind = "Wireguard" =>
           \A d \in Devices : Edited(d)' \/ connected'[d] \in {None, config'[d]}
    BY <1>1, <1>10, <2>2, <2>6, Zenon DEF Current
  <2>11. manager # None /\ kind = "Wireguard" /\ engine.pc = "registering" =>
           \/ Edited(engine.dev)' \/ config'[engine.dev] = None
           \/ config'[engine.dev] = engine.req /\ engine.cap = engine.req
    <3> SUFFICES ASSUME manager # None, kind = "Wireguard", engine.pc = "registering"
                 PROVE  \/ Edited(engine.dev)' \/ config'[engine.dev] = None
                        \/ config'[engine.dev] = engine.req /\ engine.cap = engine.req
      BY Zenon
    <3>1. PICK d \in Devices : d = engine.dev /\ d = engine'.dev
      BY <1>1, <1>4, Zenon
    <3>2. CASE d = admin[a].dev
      <4>1. Edited(engine.dev)'
        BY <1>10, <2>5, <3>1, <3>2, Zenon DEF Edited, Editing
      <4> QED BY <4>1, Zenon
    <3>3. CASE d # admin[a].dev
      BY <1>10, <2>2, <3>1, <3>3, Zenon DEF Current
    <3> QED BY <3>2, <3>3, Zenon
  <2> QED BY <1>1, <1>10, <2>3, <2>4, <2>8, <2>9, <2>10, <2>11, Zenon DEF Current
<1>11. CASE Apply(a)
  <2>1. admin[a].pc = "apply" /\ admin[a].dev \in Devices /\ UNCHANGED <<db, cmds, answered>>
    BY <1>11, Zenon DEF Apply, Requests
  <2>2. CASE admin[a].op = "delete" /\ Online(admin[a].dev)
    <3>1. config' = config /\ admin'[a].pc # "load" /\ ~ Editing(a)
      BY <1>1, <1>11, <2>1, <2>2, Zenon DEF Apply, Moves, Editing
    <3> QED BY <1>5, <2>1, <3>1, Zenon
  <2>3. CASE ~ (admin[a].op = "delete" /\ Online(admin[a].dev))
    <3>1. admin'[a].pc = "save" /\ config' = [config EXCEPT ![admin[a].dev] = admin[a].val]
      BY <1>1, <1>11, <2>1, <2>3, Applies, Zenon
    <3> QED BY <1>1, <1>10, <2>1, <3>1, Zenon DEF Configs
  <2> QED BY <2>2, <2>3, Zenon
<1>12. CASE Save(a)
  <2>1. /\ admin[a].pc = "save" /\ config' = config /\ cmds' = cmds
        /\ db' = [db EXCEPT ![admin[a].dev] = config[admin[a].dev]] /\ Goto(a, "refresh")
    BY <1>12, Zenon DEF Save
  <2>2. admin'[a].pc = "refresh"
    BY <1>1, <2>1, Goes, Zenon
  <2> QED BY <1>1, <1>10, <2>1, <2>2, Zenon DEF Configs
<1>13. CASE Refresh(a)
  <2>1. UNCHANGED <<config, db, cmds, answered>> /\ admin[a].pc = "refresh"
    BY <1>13, Zenon DEF Refresh
  <2>2. CASE manager = None
    BY <1>1, <1>3, <2>1, <2>2, Zenon DEF Current, BeginEdit
  <2>3. CASE manager # None
    <3>1. admin'[a].pc = "load" /\ admin'[a].engine = manager
      BY <1>1, <1>13, <2>3, Refreshes, Zenon DEF TypeOK
    <3>2. Editing(a)' /\ Overlay' = Overlay
      BY <2>1, <3>1, Zenon DEF Editing, Overlay
    <3>3. \A d \in Devices : Edited(d) => Edited(d)'
      BY <1>1, <2>1, <3>2, EditedKept, Zenon
    <3>4. \A b \in Admins : admin'[b].pc = "load" => admin'[b].engine = manager
      BY <1>1, <3>1, <2>3 DEF Moves, Current
    <3>5. engine.pc = "registering" /\ Edited(engine.dev) => Edited(engine.dev)'
      <4>1. CASE engine.pc = "registering"
        <5>1. PICK d \in Devices : d = engine.dev /\ d = engine'.dev
          BY <1>1, <1>4, <4>1, Zenon
        <5>2. Edited(d) => Edited(d)'
          BY <3>3, Zenon
        <5> QED BY <5>1, <5>2, Zenon DEF Edited
      <4> QED BY <4>1, Zenon
    <3>6. web' # "loaded"
      BY <1>1, <1>3, <2>1, Zenon DEF BeginEdit
    <3> QED BY <1>1, <2>1, <2>3, <3>2, <3>3, <3>4, <3>5, <3>6, Zenon DEF Current
  <2> QED BY <2>2, <2>3, Zenon
<1>14. CASE Reload(a)
  <2>1. UNCHANGED <<config, db, answered>> /\ admin[a].pc = "load" /\ a \notin answered
    BY <1>14, Zenon DEF Reload, Channel
  <2>2. web' # "loaded"
    BY <1>1, <1>3, <2>1, Zenon DEF BeginEdit
  <2>3. CASE manager = None
    BY <1>1, <2>2, <2>3, Zenon DEF Current
  <2>4. CASE manager # None
    <3>1. Alive(admin[a].engine)
      BY <2>1, <2>4, Zenon DEF Current, EngineLife, Alive
    <3>2. cmds' = Append(cmds, Command(a, "reload", None, Overlay)) /\ Goto(a, "reloading")
      BY <1>14, <3>1, Zenon DEF Reload
    <3>3. admin'[a].pc = "reloading"
      BY <1>1, <3>2, Goes, Zenon
    <3>4. Editing(a)' /\ Overlay' = Overlay
      BY <2>1, <3>3, Zenon DEF Editing, Overlay
    <3>5. \A d \in Devices : Edited(d) => Edited(d)'
      BY <1>1, <2>1, <3>4, EditedKept, Zenon
    <3>a. a \in Actors
      BY WebApart, Zenon
    <3>6. a \in Actors /\ Overlay \in Configs
      BY <3>a, Types, Zenon
    <3>7. PICK c \in Commands : c = Command(a, "reload", None, Overlay) /\ c.table = Overlay
      BY <3>6, Sendable
    <3>8. \A i \in DOMAIN cmds' : cmds'[i].op = "reload" => cmds'[i].table = Overlay
      BY <1>1, <2>4, <3>2, <3>7, Appended DEF Current
    <3>9. \A b \in Admins : admin'[b].pc = "load" => admin'[b].engine = manager
      BY <1>1, <2>4, <3>3, Zenon DEF Moves, Current
    <3>10. engine.pc = "registering" /\ Edited(engine.dev) => Edited(engine.dev)'
      <4>1. CASE engine.pc = "registering"
        <5>1. PICK d \in Devices : d = engine.dev /\ d = engine'.dev
          BY <1>1, <1>4, <4>1, Zenon
        <5>2. Edited(d) => Edited(d)'
          BY <3>5, Zenon
        <5> QED BY <5>1, <5>2, Zenon DEF Edited
      <4> QED BY <4>1, Zenon
    <3> QED BY <1>1, <2>1, <2>2, <2>4, <3>4, <3>5, <3>8, <3>9, <3>10, Zenon DEF Current
  <2> QED BY <2>3, <2>4, Zenon
<1> QED BY <1>6, <1>7, <1>8, <1>11, <1>12, <1>13, <1>14, Zenon DEF AdminStep

\* The steps of the settings request and of other clients.
LEMMA CurrentWebStep ==
    ASSUME TypeOK, Requests, EngineLife, Channel, Current, disturbed' = FALSE,
           ClientLock \/ ClientUnlock \/ WithdrawEngine \/ ReloadSettings \/ WebStep
    PROVE  Current'
<1>1. /\ cmds \in Seq(Commands) /\ UNCHANGED <<config, db, device_lock, admin, connected, kind>>
      /\ engine.id \in 1 .. MaxStarts
  BY Types, Zenon DEF ClientLock, ClientUnlock, WithdrawEngine, ReloadSettings, WebStep, WebAnswered,
      BindAndLoad, PublishEngine, rest
<1>2. Overlay' = Overlay
  BY <1>1, Zenon DEF Overlay
<1>3. engine.pc = "registering" => engine.dev \in Devices
  BY Zenon DEF EngineLife
<1>4. CASE ClientLock \/ ClientUnlock \/ WebAnswered
  <2>1. UNCHANGED <<manager, table, engine, cmds>> /\ (web' = "loaded" => web = "loaded")
          /\ \A a \in Admins : a \in answered' <=> a \in answered
    BY <1>4, WebApart, Zenon DEF ClientLock, ClientUnlock, WebAnswered
  <2>2. \A d \in Devices : Edited(d) => Edited(d)'
    BY <1>1, <2>1, Zenon DEF Edited, Editing
  <2> QED BY <1>1, <1>3, <2>1, <2>2, CurrentKept, Zenon
<1>5. CASE WithdrawEngine
  BY <1>5, Zenon DEF WithdrawEngine, Current
<1>6. CASE ReloadSettings
  <2>1. UNCHANGED <<manager, table, engine, answered>> /\ web' # "loaded"
          /\ cmds' = Append(cmds, Command(Web, "reconfigure", None, Empty))
    BY <1>6, Zenon DEF ReloadSettings
  <2>2. \A d \in Devices : Edited(d) => Edited(d)'
    BY <1>1, <2>1, Zenon DEF Edited, Editing
  <2>3. PICK c \in Commands : c = Command(Web, "reconfigure", None, Empty) /\ c.op = "reconfigure"
    BY EmptyTyped, WebApart, Sendable
  <2>4. \A i \in DOMAIN cmds' : cmds'[i].op = "reload" => \E j \in DOMAIN cmds : cmds'[i] = cmds[j]
    BY <1>1, <2>1, <2>3, Appended
  <2> QED BY <1>1, <1>3, <2>1, <2>2, <2>4, CurrentKept, Zenon
<1>7. CASE BindAndLoad
  <2>1. manager' = None
    BY <1>7, Zenon DEF BindAndLoad, EngineLife
  <2>2. web' = "loaded" => device_lock' = None /\ table' = Overlay
    BY <1>7, Zenon DEF BindAndLoad
  <2> QED BY <1>2, <2>1, <2>2, Zenon DEF Current
<1>8. CASE PublishEngine
  <2>1. /\ device_lock = None /\ table' = Overlay /\ cmds' = <<>> /\ connected' = Empty
        /\ engine'.pc = "idle" /\ web' = "idle"
    BY <1>1, <1>8, Zenon DEF PublishEngine, Current, EngineLife, TypeOK
  <2>2. \A a \in Admins : admin'[a].pc # "load"
    BY <1>1, <2>1, NoHolder, Zenon DEF Holds
  <2>3. \A d \in Devices : connected'[d] = None /\ table'[d] = Overlay'[d]
    BY <1>2, <2>1, EmptyTyped, Zenon
  <2>4. DOMAIN cmds' = {}
    BY <2>1
  <2> QED BY <2>1, <2>2, <2>3, <2>4, Zenon DEF Current
<1> QED BY <1>4, <1>5, <1>6, <1>7, <1>8, Zenon DEF WebStep

-----------------------------------------------------------------------------
(* The theorems.                                                            *)

\* The service starts with the invariant.
LEMMA TunnelInit == Init => TunnelInvariant
<1> SUFFICES ASSUME Init PROVE TunnelInvariant
  BY Zenon
<1>1. /\ config \in Configs /\ db = config /\ table = config /\ connected = Empty /\ pending = Empty
      /\ Empty \in Configs /\ \A d \in Devices : Empty[d] = None
  BY EmptyTyped, Zenon DEF Init, Configs
<1>2. /\ engine.id = 1 /\ engine.pc = "idle" /\ manager = 1 /\ 1 # None /\ 1 \in 1 .. MaxStarts
      /\ 0 \in 0 .. MaxStarts /\ 0 \in 0 .. MaxShakes
  BY TunnelAssumption DEF Init
<1>3. \A a \in Admins : /\ admin[a].pc = "ready" /\ admin[a].op = "upsert" /\ admin[a].val = None
  BY Zenon DEF Init
<1>4. admin \in [Admins -> AdminRequest]
  BY <1>2, Zenon DEF Init, AdminRequest
<1>5. /\ cmds \in Seq(Commands) /\ DOMAIN cmds = {} /\ answered = {} /\ web = "idle"
  BY DEF Init
<1>6. TypeOK
  BY <1>1, <1>2, <1>4, <1>5, Zenon DEF Init, TypeOK, Commands
<1>7. Requests /\ EngineLife
  BY <1>2, <1>3, <1>5, Zenon DEF Requests, Holds, HoldsNetwork, EngineLife
<1>8. Channel /\ NoLostAnswer /\ Served
  BY <1>1, <1>3, <1>5, WebApart, Zenon DEF Channel, NoLostAnswer, Served, Online
<1>9. Overlay = table
  BY <1>1, Zenon DEF Overlay, Configs
<1>10. Current
  BY <1>1, <1>2, <1>3, <1>5, <1>9, Zenon DEF Current
<1> QED BY <1>6, <1>7, <1>8, <1>10, Zenon DEF TunnelInvariant

\* Every step keeps it.
LEMMA TunnelStep == TunnelInvariant /\ [Next]_vars => TunnelInvariant'
<1> SUFFICES ASSUME TunnelInvariant, [Next]_vars PROVE TunnelInvariant'
  BY Zenon
<1>1. TypeOK /\ Requests /\ EngineLife /\ Channel /\ NoLostAnswer /\ Served /\ (~ disturbed => Current)
  BY Zenon DEF TunnelInvariant
<1>2. CASE Next
  <2>1. TypeOK' /\ Requests' /\ EngineLife' /\ Channel' /\ NoLostAnswer' /\ Served'
    BY <1>1, <1>2, TypeStep, RequestsStep, EngineLifeStep, ExchangeStep, ServedStep, Zenon
  <2>2. disturbed \in BOOLEAN /\ disturbed' \in BOOLEAN
    BY <1>1, <2>1, Zenon DEF TypeOK
  <2>3. disturbed => disturbed'
    BY <1>2, Zenon DEF Next, EngineStep, Handshake, FinishEap, PeerIdle, RegisterSession, HandleCommand,
      BeginEdit, AdminStep, LockDevices, LockNetwork, Kick, Answered, Apply, Save, Refresh, Reload,
      ClientLock, ClientUnlock, WithdrawEngine, ReloadSettings, WebStep, WebAnswered, BindAndLoad,
      PublishEngine, rest
  <2>4. ASSUME ~ disturbed' PROVE Current'
    <3>1. disturbed' = FALSE /\ Current
      BY <1>1, <2>2, <2>3, <2>4, Zenon
    <3> QED BY <1>1, <1>2, <3>1, CurrentEngineStep, CurrentAdminStep, CurrentWebStep, Zenon DEF Next
  <2> QED BY <2>1, <2>4, Zenon DEF TunnelInvariant
<1>3. CASE UNCHANGED vars
  <2> USE <1>1, <1>3 DEF vars, rest
  <2>a. TypeOK'
    BY ZenonT(30) DEF TypeOK
  <2>b. Requests'
    BY Zenon DEF Requests, Holds, HoldsNetwork
  <2>1. TypeOK' /\ Requests' /\ EngineLife'
    BY <2>a, <2>b, Zenon DEF EngineLife
  <2>2. Channel' /\ NoLostAnswer' /\ Served'
    BY Zenon DEF Channel, Waits, NoLostAnswer, Served, Online
  <2>3. (~ disturbed => Current)'
    BY Zenon DEF Current, Overlay, Edited, Editing, Holds
  <2> QED BY <2>1, <2>2, <2>3, Zenon DEF TunnelInvariant
<1> QED BY <1>2, <1>3, Zenon

\* The locks, the channel, the states of connected devices and, unless a write failed or a
\* start met an edit, the engine's devices stay as TunnelInvariant says.
THEOREM TunnelInvariantHolds == Spec => []TunnelInvariant
BY TunnelInit, TunnelStep, PTL DEF Spec

\* A caller of the engine (disconnect_device, the reloads, shutdown) never waits for an
\* answer that cannot come, also when the engine stops with commands in its channel.
THEOREM NoLostAnswerHolds == Spec => []NoLostAnswer
<1>1. TunnelInvariant => NoLostAnswer
  BY Zenon DEF TunnelInvariant
<1> QED BY <1>1, TunnelInvariantHolds, PTL

\* Whenever no edit is under way, every connected device still has its state in memory:
\* delete_device refuses a connected one, and a failed write takes back only an edit
\* that connected nobody.
THEOREM NoOrphanPeerHolds == Spec => []NoOrphanPeer
<1>1. TunnelInvariant => NoOrphanPeer
  BY Zenon DEF TunnelInvariant, Served, NoOrphanPeer
<1> QED BY <1>1, TunnelInvariantHolds, PTL

\* Whenever no edit is under way, the serving engine's table is what the rows and the
\* states in memory say (refresh_wireguard_peers, refresh_ikev2_credentials).
THEOREM EngineTableCurrentHolds == Spec => []EngineTableCurrent
<1>1. ASSUME TunnelInvariant PROVE EngineTableCurrent
  <2> SUFFICES ASSUME Settled, ~ disturbed PROVE table = Overlay
    BY Zenon DEF EngineTableCurrent
  <2>1. Current /\ manager # None /\ \A d \in Devices : ~ Edited(d)
    BY <1>1, NoHolder, EditorHolds, Zenon DEF TunnelInvariant, Settled, Edited
  <2>2. \A d \in Devices : table[d] = Overlay[d]
    BY <2>1, Zenon DEF Current
  <2>3. table \in Configs /\ Overlay \in Configs
    BY <1>1, Types, Zenon DEF TunnelInvariant
  <2> QED BY <2>2, <2>3 DEF Configs
<1>2. TunnelInvariant => EngineTableCurrent
  BY <1>1, Zenon
<1> QED BY <1>2, TunnelInvariantHolds, PTL

\* Whenever no edit is under way, every WireGuard peer is connected under the
\* configuration its device has now.
THEOREM NoStalePeerHolds == Spec => []NoStalePeer
<1>1. ASSUME TunnelInvariant PROVE NoStalePeer
  <2> SUFFICES ASSUME kind = "Wireguard", Settled, ~ disturbed, NEW d \in Devices, connected[d] # None
               PROVE  connected[d] = config[d]
    BY Zenon DEF NoStalePeer
  <2>1. Current /\ manager # None /\ ~ Edited(d)
    BY <1>1, NoHolder, EditorHolds, Zenon DEF TunnelInvariant, Settled, Edited
  <2> QED BY <2>1, Zenon DEF Current
<1>2. TunnelInvariant => NoStalePeer
  BY <1>1, Zenon
<1> QED BY <1>2, TunnelInvariantHolds, PTL
==============================================================================
