--------------------------- MODULE ConsoleProofs ---------------------------
(***************************************************************************)
(* Proofs about what the console manages.  Networks: for any devices,      *)
(* configurations and number of concurrent requests, the state in memory   *)
(* follows the configuration and lists every session, and every address    *)
(* belongs to the network.  Subscription: what the console shows of a      *)
(* managed device is true and never goes back, for any number of           *)
(* connections and revisions.                                              *)
(***************************************************************************)
EXTENDS Networks, Subscription, TLAPS

-----------------------------------------------------------------------------
(* The invariant of a network code.                                         *)

Requests == [pc : {"rest", "tunnel", "known", "fetch", "ready", "save", "pending", "live",
                   "insert", "update", "delete", "list", "replace", "store", "remove", "refresh"},
             dev : Devices \cup {Absent}, config : Nets \cup {Absent}, net : Nets \cup {Absent},
             here : BOOLEAN, fresh : BOOLEAN]

NetworkTypes ==
    /\ {custom, db_nets, net_row} \subseteq Nets \cup {Absent}
    /\ device_rows \in [Devices -> Nets \cup {Absent}]
    /\ state \in Listed \cup {Absent} /\ init_lock \in Loading \cup {Absent}
    /\ mutation_lock \in Actors \cup {Absent}
    /\ proc \in [Actors -> Requests]
    /\ offline \subseteq Devices \X Nets /\ table \subseteq Tunnels

\* Where a device's request is, what it has filled in by then and when it holds the mutation
\* lock, ...
DevicePlaced(d) ==
    /\ proc[d].pc \in {"rest", "tunnel", "known", "fetch", "ready", "save", "pending", "live"}
    /\ proc[d].pc \in {"fetch", "ready", "save"} => mutation_lock = d
    /\ proc[d].pc \in {"fetch", "ready", "save", "pending", "live"} => proc[d].dev = d
    /\ proc[d].pc \in {"tunnel", "known"} => d \in Tunnels /\ d \in table
    /\ proc[d].pc = "pending" => d \in Clients
    /\ proc[d].pc \in {"tunnel", "fetch"} => proc[d].config \in Nets
    /\ proc[d].pc \in {"ready", "save", "pending", "live"} => proc[d].net \in Nets

\* ... the same of the administrator's, ...
AdminPlaced ==
    /\ proc["admin"].pc \notin {"tunnel", "known", "save", "pending", "live"}
    /\ proc["admin"].pc # "rest" => mutation_lock = "admin"
    /\ proc["admin"].pc \in {"fetch", "ready", "store", "remove", "refresh"}
         => proc["admin"].dev \in Devices
    /\ proc["admin"].pc \in {"fetch", "ready", "store"} => proc["admin"].config \in Nets
    /\ proc["admin"].pc = "remove" => ~proc["admin"].here /\ proc["admin"].config = Absent

\* ... and who has fetched the state, or loads it.
LoadPlaced ==
    /\ \A a \in Actors : proc[a].here => state # Absent
    /\ init_lock # Absent => /\ state = Absent /\ Fetching(init_lock.by)
                             /\ init_lock.net = proc[init_lock.by].config

Sequenced == (\A d \in Devices : DevicePlaced(d)) /\ AdminPlaced /\ LoadPlaced

\* Every stored, listed or loaded copy of the configuration that is not the configured one's
\* is out of use, ...
DataCopies ==
    /\ db_nets = Absent => state = Absent /\ init_lock = Absent /\ Stored = {}
    /\ \A d \in Stored : device_rows[d] = db_nets
    /\ state # Absent => state.net = db_nets
    /\ \A d \in InMemory : state.devices[d] = db_nets
    /\ init_lock # Absent => \A d \in Devices : init_lock.devices[d] \in {Absent, db_nets}

\* ... and so is every copy a request holds.
RequestCopies ==
    /\ \A a \in Actors : /\ proc[a].pc \in {"fetch", "tunnel", "known"} => proc[a].config = db_nets
                         /\ proc[a].pc = "ready" => proc[a].here /\ proc[a].net = db_nets
                         /\ proc[a].pc # "rest" /\ db_nets = Absent =>
                              a = "admin" /\ proc[a].pc \in {"insert", "list"}
    /\ proc["admin"].pc \in {"ready", "store"} => proc["admin"].config = db_nets /\ proc["admin"].here
    /\ \A d \in Devices :
         proc[d].pc \in {"save", "pending", "live"} =>
             proc[d].here /\ proc[d].net = db_nets /\ d \in InMemory

Copies == DataCopies /\ RequestCopies

\* What an edit of the network, or of a device, has found out is still so.
Checked ==
    /\ proc["admin"].pc \in {"insert", "list"} => db_nets = Absent
    /\ proc["admin"].pc \in {"update", "delete"} =>
         \A d \in Stored : d \in InMemory /\ proc[d].pc # "pending"
    /\ proc["admin"].pc = "replace" => Stored = {} /\ InMemory = {}
    /\ proc["admin"].pc = "store" =>
         proc[proc["admin"].dev].pc \notin {"save", "pending", "live"}

Refreshing(t) == proc["admin"].pc = "refresh" /\ proc["admin"].dev = t

\* A tunnel device without a row is in no table, and a state that still has it holds up
\* the refresh of the table.
Created ==
    /\ \A t \in table : t \in Stored \/ Refreshing(t)
    /\ init_lock # Absent =>
         /\ \A t \in Tunnels : init_lock.devices[t] # Absent => t \in Stored \/ Refreshing(t)
         /\ init_lock.by \in Tunnels /\ proc[init_lock.by].pc = "tunnel" =>
              init_lock.devices[init_lock.by] # Absent \/ Refreshing(init_lock.by)
    /\ \A t \in InMemory \cap Tunnels :
         \/ t \in Stored
         \/ proc["admin"].pc = "store" /\ proc["admin"].dev = t
         \/ Refreshing(t) /\ \E u \in Tunnels : proc[u].pc = "known"
    /\ proc["admin"].pc = "remove" /\ proc["admin"].dev \in InMemory \cap Tunnels =>
         \E u \in Tunnels : proc[u].pc = "known"

NetworkInvariant ==
    /\ NetworkTypes /\ Sequenced
    /\ slips = {} => Copies /\ Checked /\ Created

-----------------------------------------------------------------------------
(* What the steps do to the requests and to the network state.              *)

PCs == {"rest", "tunnel", "known", "fetch", "ready", "save", "pending", "live",
        "insert", "update", "delete", "list", "replace", "store", "remove", "refresh"}

\* Nobody is mistaken for somebody else.
LEMMA ActorsApart ==
    /\ "admin" \in Actors /\ "admin" \notin Devices /\ Devices \subseteq Actors
    /\ Absent \notin Nets /\ Absent \notin Actors /\ Absent \notin Devices
    /\ Tunnels \subseteq Devices /\ Clients \subseteq Devices
    /\ Absent \notin Listed /\ Absent \notin Loading /\ Clients \cap Tunnels = {}
    /\ Default \in Nets
    /\ \A a \in Actors : a \in Devices \/ a = "admin"
BY NetworksAssumption, Zenon DEF Actors, Devices

\* A request at rest.
LEMMA RestingIs ==
    /\ Resting \in Requests /\ Resting.pc = "rest" /\ Resting.here = FALSE
    /\ Resting.dev = Absent /\ Resting.config = Absent /\ Resting.net = Absent
BY Zenon DEF Resting, Requests

\* The other requests stay as they are.
Others(a) == proc' \in [Actors -> Requests] /\ \A b \in Actors : b # a => proc'[b] = proc[b]

\* A request goes to its next step.
LEMMA Stepped ==
    ASSUME proc \in [Actors -> Requests], NEW a \in Actors, NEW pc \in PCs, Step(a, pc)
    PROVE  /\ Others(a) /\ proc'[a].pc = pc
           /\ proc'[a].dev = proc[a].dev /\ proc'[a].config = proc[a].config
           /\ proc'[a].net = proc[a].net /\ proc'[a].here = proc[a].here
BY DEF Step, Requests, PCs, Others

\* A request ends.
LEMMA Rested ==
    ASSUME proc \in [Actors -> Requests], NEW a \in Actors, Rest(a)
    PROVE  Others(a) /\ proc'[a] = Resting
BY RestingIs, Zenon DEF Rest, Others

\* An administrator's request begins.
LEMMA Requested ==
    ASSUME proc \in [Actors -> Requests], NEW pc \in PCs, NEW d \in Devices \cup {Absent},
           NEW n \in Nets \cup {Absent}, Request(pc, d, n)
    PROVE  /\ Others("admin") /\ proc'["admin"].pc = pc /\ proc'["admin"].dev = d
           /\ proc'["admin"].config = n /\ proc'["admin"].here = FALSE
           /\ proc'["admin"].net = Absent
<1> DEFINE r == [Resting EXCEPT !.pc = pc, !.dev = d, !.config = n]
<1>1. /\ r \in Requests /\ r.pc = pc /\ r.dev = d /\ r.config = n /\ r.here = FALSE /\ r.net = Absent
  BY Zenon DEF Resting, Requests, PCs
<1>2. proc' = [proc EXCEPT !["admin"] = r]
  BY Zenon DEF Request
<1> HIDE DEF r
<1> QED BY <1>1, <1>2, ActorsApart, Zenon DEF Others

\* The state a request has fetched, when it is still listed, gets or loses a device.
LEMMA DevicePut ==
    ASSUME NetworkTypes, Sequenced, NEW a \in Actors, proc[a].dev \in Devices,
           NEW v \in Nets \cup {Absent}, WithDevice(a, v)
    PROVE  /\ state' \in Listed \cup {Absent} /\ (state' = Absent <=> state = Absent)
           /\ state # Absent => /\ state'.net = state.net
                                /\ \A d \in Devices : ~ (proc[a].here /\ d = proc[a].dev)
                                     => state'.devices[d] = state.devices[d]
           /\ proc[a].here => state'.devices[proc[a].dev] = v
<1>1. CASE ~ proc[a].here
  BY <1>1, Zenon DEF WithDevice, NetworkTypes
<1>2. CASE proc[a].here
  <2>1. state # Absent /\ state \in Listed
    BY <1>2, Zenon DEF Sequenced, DevicePlaced, AdminPlaced, LoadPlaced, NetworkTypes
  <2>2. state' = [state EXCEPT !.devices = [state.devices EXCEPT ![proc[a].dev] = v]]
    BY <1>2, <2>1, Zenon DEF WithDevice, Listed
  <2>3. /\ state' \in Listed /\ state'.net = state.net
        /\ state'.devices = [state.devices EXCEPT ![proc[a].dev] = v]
    BY <2>1, <2>2, Zenon DEF Listed
  <2> QED BY <1>2, <2>1, <2>3, ActorsApart DEF Listed
<1> QED BY <1>1, <1>2, Zenon

\* The state is fetched: by a request under the lock, or by a tunnel's registration.
LEMMA FetchedDoes ==
    ASSUME proc \in [Actors -> Requests], NEW a \in Actors, Fetching(a), NEW s \in Listed,
           Fetched(a, s), a \in Devices \/ proc[a].pc = "fetch"
    PROVE  /\ Others(a)
           /\ proc[a].pc = "fetch" =>
                /\ proc'[a].pc = "ready" /\ proc'[a].net = s.net /\ proc'[a].here = TRUE
                /\ proc'[a].dev = proc[a].dev /\ proc'[a].config = proc[a].config
           /\ proc[a].pc = "tunnel" =>
                /\ s.devices[a] # Absent => /\ proc'[a].pc = "known" /\ proc'[a].config = s.devices[a]
                                            /\ proc'[a].here = proc[a].here
                /\ s.devices[a] = Absent => proc'[a] = Resting
<1>1. s.net \in Nets /\ (a \in Devices => s.devices[a] \in Nets \cup {Absent})
  BY Zenon DEF Listed
<1>2. CASE proc[a].pc = "fetch"
  <2>1. proc' = [proc EXCEPT ![a] = [@ EXCEPT !.pc = "ready", !.net = s.net, !.here = TRUE]]
    BY <1>2, Zenon DEF Fetched
  <2> QED BY <1>1, <1>2, <2>1, Zenon DEF Requests, Others
<1>3. CASE proc[a].pc = "tunnel" /\ s.devices[a] # Absent
  <2>1. proc' = [proc EXCEPT ![a] = [@ EXCEPT !.pc = "known", !.config = s.devices[a]]]
    BY <1>3, Zenon DEF Fetched
  <2>2. s.devices[a] \in Nets
    BY <1>1, <1>3, Zenon
  <2> QED BY <1>3, <2>1, <2>2, ZenonT(30) DEF Requests, Others
<1>4. CASE proc[a].pc = "tunnel" /\ s.devices[a] = Absent
  <2>1. proc' = [proc EXCEPT ![a] = Resting]
    BY <1>4, Zenon DEF Fetched
  <2> QED BY <1>4, <2>1, RestingIs, Zenon DEF Others
<1> QED BY <1>2, <1>3, <1>4, Zenon DEF Fetching

\* A state is dropped: nobody has fetched the one that is listed then.
LEMMA UnlistedDoes ==
    ASSUME proc \in [Actors -> Requests]
    PROVE  /\ Unlisted(proc) \in [Actors -> Requests]
           /\ \A a \in Actors : /\ Unlisted(proc)[a].here = FALSE
                                /\ Unlisted(proc)[a].pc = proc[a].pc
                                /\ Unlisted(proc)[a].dev = proc[a].dev
                                /\ Unlisted(proc)[a].config = proc[a].config
                                /\ Unlisted(proc)[a].net = proc[a].net
BY ZenonT(30) DEF Unlisted, Requests

\* The invariant, one part at a time.
LEMMA Parts ==
    ASSUME NetworkInvariant
    PROVE  /\ NetworkTypes /\ Sequenced
           /\ slips = {} => Copies /\ Checked /\ Created
           /\ proc \in [Actors -> Requests] /\ state \in Listed \cup {Absent}
           /\ init_lock \in Loading \cup {Absent}
           /\ device_rows \in [Devices -> Nets \cup {Absent}]
           /\ \A a \in Actors : proc[a] \in Requests
BY Zenon DEF NetworkInvariant, NetworkTypes

-----------------------------------------------------------------------------
(* Loading.                                                                 *)

\* A listed state is fetched.
LEMMA FoundStep ==
    ASSUME NetworkInvariant, NEW a \in Actors, Found(a)
    PROVE  NetworkInvariant'
<1>1. /\ NetworkTypes /\ Sequenced /\ proc \in [Actors -> Requests] /\ state \in Listed
      /\ Fetching(a) /\ state # Absent
      /\ UNCHANGED <<custom, db_nets, net_row, device_rows, init_lock, mutation_lock, offline,
                     table, slips>>
  BY Parts, Zenon DEF Found
<1>2. a \in Devices \/ proc[a].pc = "fetch"
  BY <1>1, ActorsApart, Zenon DEF Sequenced, DevicePlaced, AdminPlaced, LoadPlaced, Fetching
<1>3. /\ Others(a)
      /\ proc[a].pc = "fetch" =>
           /\ proc'[a].pc = "ready" /\ proc'[a].net = state.net /\ proc'[a].here = TRUE
           /\ proc'[a].dev = proc[a].dev /\ proc'[a].config = proc[a].config
      /\ proc[a].pc = "tunnel" =>
           /\ state.devices[a] # Absent => /\ proc'[a].pc = "known" /\ proc'[a].config = state.devices[a]
                                           /\ proc'[a].here = proc[a].here
           /\ state.devices[a] = Absent => proc'[a] = Resting
  BY <1>1, <1>2, FetchedDoes, Zenon DEF Found
<1>4. state' \in Listed /\ state'.net = state.net /\ state'.devices = state.devices /\ state' # Absent
  BY <1>1, ActorsApart, Zenon DEF Found, Listed
<1>5. InMemory' = InMemory /\ Stored' = Stored
  BY <1>1, <1>4, Zenon DEF InMemory, Stored
<1>6. NetworkTypes'
  BY <1>1, <1>3, <1>4, Zenon DEF NetworkTypes, Others
<1>7. proc[a].pc \in {"fetch", "tunnel"} /\ init_lock = Absent
  BY <1>1, Zenon DEF Fetching, Sequenced, DevicePlaced, AdminPlaced, LoadPlaced
<1>8. Sequenced'
  <2>1. state.net \in Nets
    BY <1>1, Zenon DEF Listed
  <2>11. \A e \in Devices : DevicePlaced(e)'
    BY <1>1, <1>3, <1>4, <1>7, <2>1, ActorsApart, RestingIs DEF Sequenced, DevicePlaced, Others
  <2>12. AdminPlaced'
    BY <1>1, <1>3, <1>4, <1>7, <2>1, ActorsApart, RestingIs, Zenon DEF Sequenced, AdminPlaced, Others
  <2>13. LoadPlaced'
    BY <1>1, <1>3, <1>4, <1>7, <2>1, ActorsApart, RestingIs, Zenon DEF Sequenced, LoadPlaced, Others
  <2> QED BY <2>11, <2>12, <2>13, Zenon DEF Sequenced
<1>9. ASSUME slips' = {} PROVE Copies' /\ Checked' /\ Created'
  <2>1. Copies /\ Checked /\ Created
    BY <1>1, <1>9, Parts, Zenon
  <2>5. \A d \in Devices : proc'[d].pc \in {"save", "pending", "live"} => proc'[d] = proc[d]
    BY <1>3, <1>7, ActorsApart, RestingIs, Zenon DEF Others
  <2>6. db_nets # Absent /\ state.net = db_nets /\ \A d \in InMemory' : state'.devices[d] = db_nets
    BY <1>1, <1>4, <1>5, <2>1, ActorsApart, Zenon DEF Copies, DataCopies, RequestCopies
  <2>7. /\ proc'[a].pc \in {"fetch", "tunnel", "known"} => proc'[a].config = db_nets
        /\ proc'[a].pc = "ready" => proc'[a].here /\ proc'[a].net = db_nets
        /\ a = "admin" /\ proc'[a].pc \in {"ready", "store"} =>
             proc'[a].config = db_nets /\ proc'[a].here
    <3>1. CASE proc[a].pc = "fetch"
      BY <1>3, <2>1, <2>6, <3>1, Zenon DEF Copies, DataCopies, RequestCopies
    <3>2. CASE proc[a].pc = "tunnel"
      <4>1. a \in Devices
        BY <1>2, <3>2, Zenon
      <4>2. state.devices[a] # Absent => state.devices[a] = db_nets
        BY <1>1, <2>1, <4>1, Zenon DEF Copies, DataCopies, RequestCopies, InMemory
      <4> QED BY <1>3, <3>2, <4>1, <4>2, ActorsApart, RestingIs, Zenon
    <3> QED BY <1>7, <3>1, <3>2, Zenon
  <2>2. Copies'
    <3>11. DataCopies'
      BY <1>1, <1>3, <1>4, <1>5, <2>1, <2>5, <2>6, <2>7, ActorsApart, Zenon DEF Copies, DataCopies
    <3>12. RequestCopies'
      BY <1>1, <1>3, <1>4, <1>5, <2>1, <2>5, <2>6, <2>7, ActorsApart DEF Copies, RequestCopies, Others
    <3> QED BY <3>11, <3>12, Zenon DEF Copies
  <2>3. Checked'
    <3>1. CASE a = "admin"
      BY <1>3, <1>2, <3>1, ActorsApart, Zenon DEF Checked
    <3>2. CASE a # "admin"
      <4>1. /\ proc'["admin"] = proc["admin"] /\ Stored \subseteq Devices
            /\ proc["admin"].pc = "store" => proc["admin"].dev \in Devices
        BY <1>1, <1>3, <3>2, ActorsApart, Zenon DEF Others, Sequenced, DevicePlaced, AdminPlaced, LoadPlaced, Stored
      <4> QED BY <1>1, <1>5, <2>1, <2>5, <4>1, Zenon DEF Checked
    <3> QED BY <3>1, <3>2, Zenon
  <2>4. Created'
    BY <1>1, <1>3, <1>5, <1>7, <2>1, ActorsApart, RestingIs DEF Created, Refreshing, Others
  <2> QED BY <2>2, <2>3, <2>4, Zenon
<1> QED BY <1>6, <1>8, <1>9, Zenon DEF NetworkInvariant

\* A state is being loaded.
LEMMA BeginLoadStep ==
    ASSUME NetworkInvariant, NEW a \in Actors, BeginLoad(a)
    PROVE  NetworkInvariant'
<1>1. /\ NetworkTypes /\ Sequenced /\ proc \in [Actors -> Requests]
      /\ device_rows \in [Devices -> Nets \cup {Absent}]
      /\ Fetching(a) /\ state = Absent /\ init_lock = Absent
      /\ UNCHANGED <<custom, db_nets, net_row, device_rows, state, mutation_lock, proc, offline,
                     table, slips>>
  BY Parts, Zenon DEF BeginLoad
<1>2. proc[a].config \in Nets /\ proc[a].pc \in {"fetch", "tunnel"}
  BY <1>1, ActorsApart, Zenon DEF Sequenced, DevicePlaced, AdminPlaced, LoadPlaced, Fetching
<1>3. /\ init_lock' \in Loading /\ init_lock' # Absent /\ init_lock'.by = a
      /\ init_lock'.net = proc[a].config /\ init_lock'.devices = device_rows
  BY <1>1, <1>2, ActorsApart DEF BeginLoad, Loading
<1>4. InMemory' = InMemory /\ Stored' = Stored
  BY <1>1, Zenon DEF InMemory, Stored
<1>5. NetworkTypes'
  BY <1>1, <1>3, Zenon DEF NetworkTypes
<1>6. Sequenced'
  <2>11. \A e \in Devices : DevicePlaced(e)'
    BY <1>1, <1>3, <1>2, Zenon DEF Sequenced, DevicePlaced
  <2>12. AdminPlaced'
    BY <1>1, <1>3, <1>2, Zenon DEF Sequenced, AdminPlaced
  <2>13. LoadPlaced'
    BY <1>1, <1>3, <1>2, Zenon DEF Sequenced, LoadPlaced, Fetching
  <2> QED BY <2>11, <2>12, <2>13, Zenon DEF Sequenced
<1>7. ASSUME slips' = {} PROVE Copies' /\ Checked' /\ Created'
  <2>1. Copies /\ Checked /\ Created
    BY <1>1, <1>7, Parts, Zenon
  <2>2. db_nets # Absent
    BY <1>2, <2>1, ActorsApart, Zenon DEF Copies, DataCopies, RequestCopies
  <2>3. \A d \in Devices : device_rows[d] \in {Absent, db_nets}
    BY <2>1, Zenon DEF Copies, DataCopies, RequestCopies, Stored
  <2>4. Copies'
    <3>11. DataCopies'
      BY <1>1, <1>3, <1>4, <2>1, <2>2, <2>3, Zenon DEF Copies, DataCopies
    <3>12. RequestCopies'
      BY <1>1, <1>3, <1>4, <2>1, <2>2, <2>3, Zenon DEF Copies, RequestCopies
    <3> QED BY <3>11, <3>12, Zenon DEF Copies
  <2>5. Checked'
    BY <1>1, <1>4, <2>1, Zenon DEF Checked
  <2>6. Created'
    BY <1>1, <1>3, <1>4, <2>1, ActorsApart, Zenon DEF Created, Refreshing, Stored, Sequenced, DevicePlaced, AdminPlaced, LoadPlaced
  <2> QED BY <2>4, <2>5, <2>6, Zenon
<1> QED BY <1>5, <1>6, <1>7, Zenon DEF NetworkInvariant

\* A loaded state is listed.
LEMMA EndLoadStep ==
    ASSUME NetworkInvariant, EndLoad
    PROVE  NetworkInvariant'
<1>1. /\ NetworkTypes /\ Sequenced /\ proc \in [Actors -> Requests] /\ init_lock \in Loading
      /\ state = Absent /\ Fetching(init_lock.by) /\ init_lock.net = proc[init_lock.by].config
      /\ init_lock' = Absent
      /\ UNCHANGED <<custom, db_nets, net_row, device_rows, mutation_lock, offline, table, slips>>
  BY Parts, Zenon DEF EndLoad, Sequenced, DevicePlaced, AdminPlaced, LoadPlaced
<1>2. PICK a \in Actors : a = init_lock.by
  BY <1>1, Zenon DEF Loading
<1>3. proc[a].pc \in {"fetch", "tunnel"} /\ (a \in Devices \/ proc[a].pc = "fetch")
  BY <1>1, <1>2, ActorsApart, Zenon DEF Sequenced, DevicePlaced, AdminPlaced, LoadPlaced, Fetching
<1>4. /\ state' \in Listed /\ state' # Absent /\ state'.net = init_lock.net
      /\ state'.devices = init_lock.devices
  <2>1. init_lock.net \in Nets /\ init_lock.devices \in [Devices -> Nets \cup {Absent}]
    BY <1>1, Zenon DEF Loading
  <2>2. state' = [net |-> init_lock.net, devices |-> init_lock.devices, idle |-> FALSE]
    BY Zenon DEF EndLoad
  <2>3. state' \in Listed /\ state'.net = init_lock.net /\ state'.devices = init_lock.devices
    BY <2>1, <2>2, Zenon DEF Listed
  <2> QED BY <2>3, ActorsApart, Zenon
<1>5. /\ Others(a)
      /\ proc[a].pc = "fetch" =>
           /\ proc'[a].pc = "ready" /\ proc'[a].net = init_lock.net /\ proc'[a].here = TRUE
           /\ proc'[a].dev = proc[a].dev /\ proc'[a].config = proc[a].config
      /\ proc[a].pc = "tunnel" =>
           /\ init_lock.devices[a] # Absent =>
                /\ proc'[a].pc = "known" /\ proc'[a].config = init_lock.devices[a]
                /\ proc'[a].here = proc[a].here
           /\ init_lock.devices[a] = Absent => proc'[a] = Resting
  <2>1. PICK s \in Listed : s = state'
    BY <1>4, Zenon
  <2>2. Fetching(a) /\ Fetched(a, s)
    BY <1>1, <1>2, <2>1, Zenon DEF EndLoad, Fetched
  <2>3. proc \in [Actors -> Requests] /\ (a \in Devices \/ proc[a].pc = "fetch")
    BY <1>1, <1>3, Zenon
  <2>4. /\ Others(a)
        /\ proc[a].pc = "fetch" =>
             /\ proc'[a].pc = "ready" /\ proc'[a].net = s.net /\ proc'[a].here = TRUE
             /\ proc'[a].dev = proc[a].dev /\ proc'[a].config = proc[a].config
        /\ proc[a].pc = "tunnel" =>
             /\ s.devices[a] # Absent =>
                  /\ proc'[a].pc = "known" /\ proc'[a].config = s.devices[a]
                  /\ proc'[a].here = proc[a].here
             /\ s.devices[a] = Absent => proc'[a] = Resting
    BY <2>2, <2>3, FetchedDoes, Zenon
  <2>5. s.net = init_lock.net /\ s.devices = init_lock.devices
    BY <1>4, <2>1, Zenon
  <2> QED BY <2>4, <2>5, Zenon
<1>6. /\ Stored' = Stored /\ InMemory = {}
      /\ \A d \in Devices : d \in InMemory' <=> init_lock.devices[d] # Absent
  BY <1>1, <1>4, Zenon DEF InMemory, Stored
<1>7. NetworkTypes'
  BY <1>1, <1>4, <1>5, Zenon DEF NetworkTypes, Others
<1>8. Sequenced'
  <2>1. init_lock.net \in Nets
    BY <1>1, Zenon DEF Loading
  <2>11. \A e \in Devices : DevicePlaced(e)'
    BY <1>1, <1>3, <1>4, <1>5, <2>1, ActorsApart, RestingIs DEF Sequenced, DevicePlaced, Others
  <2>12. AdminPlaced'
    BY <1>1, <1>3, <1>4, <1>5, <2>1, ActorsApart, RestingIs, Zenon DEF Sequenced, AdminPlaced, Others
  <2>13. LoadPlaced'
    BY <1>1, <1>3, <1>4, <1>5, <2>1, ActorsApart, RestingIs, Zenon DEF Sequenced, LoadPlaced, Others
  <2> QED BY <2>11, <2>12, <2>13, Zenon DEF Sequenced
<1>9. ASSUME slips' = {} PROVE Copies' /\ Checked' /\ Created'
  <2>1. Copies /\ Checked /\ Created
    BY <1>1, <1>9, Parts, Zenon
  <2>2. /\ db_nets # Absent /\ init_lock.net = db_nets /\ init_lock # Absent
        /\ \A d \in Devices : init_lock.devices[d] \in {Absent, db_nets}
    BY <1>1, <1>2, <1>3, <2>1, ActorsApart, Zenon DEF Copies, DataCopies, RequestCopies
  <2>3. InMemory' \subseteq Devices /\ \A d \in InMemory' : state'.devices[d] = db_nets
    BY <1>4, <1>6, <2>2, Zenon DEF InMemory
  <2>4. Copies'
    <3>11. DataCopies'
      BY <1>1, <1>3, <1>4, <1>5, <1>6, <2>1, <2>2, <2>3, ActorsApart, RestingIs, Zenon DEF Copies, DataCopies
    <3>12. RequestCopies'
      BY <1>1, <1>3, <1>4, <1>5, <1>6, <2>1, <2>2, <2>3, ActorsApart, RestingIs DEF Copies, RequestCopies, Others
    <3> QED BY <3>11, <3>12, Zenon DEF Copies
  <2>5. Checked'
    <3>1. proc["admin"].pc # "replace" \/ InMemory' = {}
      <4>1. CASE proc["admin"].pc = "replace"
        <5>1. Stored = {} /\ a \in Devices /\ a # "admin" /\ mutation_lock = "admin"
          BY <1>1, <1>3, <2>1, <4>1, ActorsApart, Zenon DEF Checked, Sequenced, DevicePlaced, AdminPlaced, LoadPlaced
        <5>2. a \in table
          BY <1>1, <1>3, <5>1, Zenon DEF Sequenced, DevicePlaced, AdminPlaced, LoadPlaced
        <5> QED BY <2>1, <4>1, <5>1, <5>2, Zenon DEF Created, Refreshing
      <4> QED BY <4>1, Zenon
    <3> QED BY <1>1, <1>3, <1>5, <1>6, <2>1, <3>1, ActorsApart, RestingIs DEF Checked, Others, Sequenced, DevicePlaced, AdminPlaced, LoadPlaced
  <2>6. Created'
    <3>1. \A t \in Tunnels : Refreshing(t)' <=> Refreshing(t)
      BY <1>3, <1>5, ActorsApart, RestingIs, Zenon DEF Refreshing, Others
    <3>2. ASSUME NEW t \in Tunnels, init_lock.devices[t] # Absent,
                 proc["admin"].pc \in {"remove", "refresh"}, proc["admin"].dev = t
          PROVE  \E u \in Tunnels : proc'[u].pc = "known"
      <4>1. a \in Tunnels /\ proc[a].pc = "tunnel"
        BY <1>1, <1>3, <3>2, ActorsApart, Zenon DEF Sequenced, DevicePlaced, AdminPlaced, LoadPlaced
      <4>2. init_lock.devices[a] # Absent
        BY <1>2, <2>1, <2>2, <3>2, <4>1, Zenon DEF Created, Refreshing
      <4> QED BY <1>5, <4>1, <4>2, Zenon
    <3>3. \A t \in InMemory' \cap Tunnels :
            \/ t \in Stored'
            \/ Refreshing(t)' /\ \E u \in Tunnels : proc'[u].pc = "known"
      BY <1>6, <2>1, <2>2, <3>1, <3>2, ActorsApart, Zenon DEF Created, Refreshing
    <3>4. \/ ~ (proc'["admin"].pc = "remove" /\ proc'["admin"].dev \in InMemory' \cap Tunnels)
          \/ \E u \in Tunnels : proc'[u].pc = "known"
      BY <1>3, <1>5, <1>6, <3>2, ActorsApart DEF Others
    <3>5. \A t \in table' : t \in Stored' \/ Refreshing(t)'
      BY <1>1, <1>6, <2>1, <3>1, Zenon DEF Created, NetworkTypes
    <3> QED BY <1>1, <3>3, <3>4, <3>5, Zenon DEF Created
  <2> QED BY <2>4, <2>5, <2>6, Zenon
<1> QED BY <1>7, <1>8, <1>9, Zenon DEF NetworkInvariant

-----------------------------------------------------------------------------
(* Registrations.                                                           *)

\* What a registration under the lock, or a session, excludes.
LEMMA Aside ==
    ASSUME NetworkTypes, Sequenced
    PROVE  /\ mutation_lock # "admin" => proc["admin"].pc = "rest"
           /\ init_lock # Absent => /\ init_lock \in Loading /\ init_lock.by \in Actors
                                    /\ proc[init_lock.by].pc \in {"fetch", "tunnel"}
           /\ InMemory \subseteq Devices /\ Stored \subseteq Devices
           /\ state # Absent => init_lock = Absent
BY Zenon DEF NetworkTypes, Sequenced, DevicePlaced, AdminPlaced, LoadPlaced, Fetching, Loading, InMemory, Stored

\* A tunnel's registration looks for its device.
LEMMA TunnelBeginsStep ==
    ASSUME NetworkInvariant, NEW t \in Devices, TunnelBegins(t)
    PROVE  NetworkInvariant'
<1>1. /\ NetworkTypes /\ Sequenced /\ proc \in [Actors -> Requests]
      /\ t \in table /\ t \in Tunnels /\ t \in Actors /\ proc[t].pc = "rest"
      /\ UNCHANGED <<custom, db_nets, net_row, device_rows, state, init_lock, mutation_lock,
                     offline, table, slips>>
  BY Parts, ActorsApart, Zenon DEF TunnelBegins, NetworkTypes
<1>2. network_config(Absent) \in Nets
  BY <1>1, ActorsApart, Zenon DEF network_config, NetworkTypes
<1>3. /\ Others(t) /\ proc'[t].pc = "tunnel" /\ proc'[t].config = network_config(Absent)
      /\ proc'[t].here = proc[t].here
  BY <1>1, <1>2, Zenon DEF TunnelBegins, Others, Requests
<1>4. InMemory' = InMemory /\ Stored' = Stored
  BY <1>1, Zenon DEF InMemory, Stored
<1>5. NetworkTypes'
  BY <1>1, <1>3, Zenon DEF NetworkTypes, Others
<1>6. Sequenced'
  <2>11. \A e \in Devices : DevicePlaced(e)'
    BY <1>1, <1>2, <1>3, Aside, ActorsApart DEF Sequenced, DevicePlaced, Others
  <2>12. AdminPlaced'
    BY <1>1, <1>2, <1>3, Aside, ActorsApart, Zenon DEF Sequenced, AdminPlaced, Others
  <2>13. LoadPlaced'
    BY <1>1, <1>2, <1>3, Aside, ActorsApart, Zenon DEF Sequenced, LoadPlaced, Fetching, Others
  <2> QED BY <2>11, <2>12, <2>13, Zenon DEF Sequenced
<1>7. ASSUME slips' = {} PROVE Copies' /\ Checked' /\ Created'
  <2>1. Copies /\ Checked /\ Created
    BY <1>1, <1>7, Parts, Zenon
  <2>2. db_nets # Absent
    BY <1>1, <2>1, ActorsApart, Zenon DEF Copies, DataCopies, RequestCopies, Created, Refreshing
  <2>3. proc'[t].config = db_nets /\ proc'["admin"] = proc["admin"]
    BY <1>1, <1>3, <2>2, ActorsApart, Zenon DEF network_config, Others
  <2>4. Copies'
    <3>11. DataCopies'
      BY <1>1, <1>3, <1>4, <2>1, <2>2, <2>3, ActorsApart, Zenon DEF Copies, DataCopies
    <3>12. RequestCopies'
      <4>1. ASSUME NEW a \in Actors
            PROVE  /\ proc'[a].pc \in {"fetch", "tunnel", "known"} => proc'[a].config = db_nets
                   /\ proc'[a].pc = "ready" => proc'[a].here /\ proc'[a].net = db_nets
                   /\ proc'[a].pc \in {"save", "pending", "live"} => proc'[a] = proc[a]
        <5>1. CASE a = t
          BY <1>3, <2>3, <5>1, Zenon
        <5>2. CASE a # t
          BY <1>3, <2>1, <5>2, Zenon DEF Copies, RequestCopies, Others
        <5> QED BY <5>1, <5>2, Zenon
      <4>2. ASSUME NEW d \in Devices, proc'[d].pc \in {"save", "pending", "live"}
            PROVE  proc'[d].here /\ proc'[d].net = db_nets /\ d \in InMemory
        BY <2>1, <4>1, <4>2, ActorsApart, Zenon DEF Copies, RequestCopies
      <4> QED
        BY <1>1, <1>4, <2>1, <2>2, <2>3, <4>1, <4>2, Zenon DEF Copies, RequestCopies
    <3> QED BY <3>11, <3>12, Zenon DEF Copies
  <2>5. Checked'
    <3>1. proc["admin"].pc = "store" => proc["admin"].dev \in Devices
      BY <1>1, Zenon DEF Sequenced, DevicePlaced, AdminPlaced, LoadPlaced
    <3> QED BY <1>1, <1>3, <1>4, <2>1, <2>3, <3>1, Aside, ActorsApart DEF Checked, Others
  <2>6. Created'
    <3>1. init_lock # Absent => init_lock.by # t /\ init_lock.by \in Actors
      BY <1>1, Aside, Zenon
    <3>2. \A u \in Tunnels : proc[u].pc = "known" => proc'[u].pc = "known"
      BY <1>1, <1>3, ActorsApart, Zenon DEF Others
    <3> QED BY <1>1, <1>3, <1>4, <2>1, <2>3, <3>1, <3>2, ActorsApart DEF Created, Refreshing, Others
  <2> QED BY <2>4, <2>5, <2>6, Zenon
<1> QED BY <1>5, <1>6, <1>7, Zenon DEF NetworkInvariant

\* register_inner has the lock, and a configuration.
LEMMA RegisterLockedStep ==
    ASSUME NetworkInvariant, NEW d \in Devices, NEW hint \in Nets \cup {Absent},
           RegisterLocked(d, hint)
    PROVE  NetworkInvariant'
<1>1. /\ NetworkTypes /\ Sequenced /\ proc \in [Actors -> Requests]
      /\ d \in Actors /\ proc[d].pc \in {"rest", "known"} /\ mutation_lock = Absent
      /\ mutation_lock' = d
      /\ UNCHANGED <<custom, net_row, device_rows, state, init_lock, offline, table, slips>>
  BY Parts, ActorsApart, Zenon DEF RegisterLocked, Lock
<1>2. PICK n \in Nets : n = network_config(hint)
  BY <1>1, ActorsApart, Zenon DEF network_config, NetworkTypes
<1>3. /\ Others(d) /\ proc'[d].pc = "fetch" /\ proc'[d].config = n /\ proc'[d].here = FALSE
      /\ proc'[d].dev = d
  <2> DEFINE r == [Resting EXCEPT !.pc = "fetch", !.dev = d, !.config = n, !.fresh = (db_nets = Absent)]
  <2>1. r \in Requests /\ r.pc = "fetch" /\ r.config = n /\ r.here = FALSE /\ r.dev = d
    BY <1>2, Zenon DEF Resting, Requests
  <2>2. proc' = [proc EXCEPT ![d] = r]
    BY <1>2, Zenon DEF RegisterLocked
  <2> HIDE DEF r
  <2> QED BY <1>1, <2>1, <2>2, Zenon DEF Others
<1>4. InMemory' = InMemory /\ Stored' = Stored /\ db_nets' = n
  BY <1>1, <1>2, Zenon DEF InMemory, Stored, RegisterLocked
<1>5. proc["admin"].pc = "rest" /\ proc'["admin"] = proc["admin"]
  BY <1>1, <1>3, Aside, ActorsApart, Zenon DEF Others
<1>6. NetworkTypes'
  BY <1>1, <1>3, <1>4 DEF NetworkTypes, Others
<1>7. Sequenced'
  <2>11. \A e \in Devices : DevicePlaced(e)'
    BY <1>1, <1>3, <1>5, Aside, ActorsApart DEF Sequenced, DevicePlaced, Others
  <2>12. AdminPlaced'
    BY <1>1, <1>3, <1>5, Aside, ActorsApart, Zenon DEF Sequenced, AdminPlaced, Others
  <2>13. LoadPlaced'
    BY <1>1, <1>3, <1>5, Aside, ActorsApart, Zenon DEF Sequenced, LoadPlaced, Fetching, Others
  <2> QED BY <2>11, <2>12, <2>13, Zenon DEF Sequenced
<1>8. ASSUME slips' = {} PROVE Copies' /\ Checked' /\ Created'
  <2>1. Copies /\ Checked /\ Created
    BY <1>1, <1>8, Parts, Zenon
  <2>2. CASE db_nets = Absent
    <3>1. /\ state = Absent /\ init_lock = Absent /\ Stored = {} /\ InMemory = {}
          /\ \A a \in Actors : proc[a].pc = "rest"
      BY <1>5, <2>1, <2>2, Zenon DEF Copies, DataCopies, RequestCopies, InMemory
    <3>2. Copies'
      <4>11. DataCopies'
        BY <1>1, <1>3, <1>4, <1>5, <3>1, ActorsApart, Zenon DEF Copies, DataCopies
      <4>12. RequestCopies'
        BY <1>1, <1>3, <1>4, <1>5, <3>1, ActorsApart, Zenon DEF Copies, RequestCopies, Others
      <4> QED BY <4>11, <4>12, Zenon DEF Copies
    <3>3. Checked' /\ Created'
      BY <1>1, <1>3, <1>4, <1>5, <2>1, <3>1, ActorsApart, Zenon DEF Checked, Created, Refreshing, Others
    <3> QED BY <3>2, <3>3, Zenon
  <2>3. CASE db_nets # Absent
    <3>1. db_nets' = db_nets /\ n = db_nets
      BY <1>2, <1>4, <2>3, Zenon DEF network_config
    <3>2. Copies'
      <4>11. DataCopies'
        BY <1>1, <1>3, <1>4, <1>5, <2>1, <2>3, <3>1, ActorsApart, Zenon DEF Copies, DataCopies
      <4>12. RequestCopies'
        BY <1>3, <1>4, <2>1, <3>1, ActorsApart DEF Copies, RequestCopies, Others
      <4> QED BY <4>11, <4>12, Zenon DEF Copies
    <3>3. init_lock # Absent => init_lock.by # d /\ init_lock.by \in Actors
      BY <1>1, Aside, Zenon
    <3>4. Checked' /\ Created'
      BY <1>1, <1>3, <1>4, <1>5, <2>1, <3>3, ActorsApart, Zenon DEF Checked, Created, Refreshing, Others
    <3> QED BY <3>2, <3>4, Zenon
  <2> QED BY <2>2, <2>3, Zenon
<1> QED BY <1>6, <1>7, <1>8, Zenon DEF NetworkInvariant

\* A device gets an address of the state its registration has fetched.
LEMMA AllocateStep ==
    ASSUME NetworkInvariant, NEW d \in Devices, NEW pre \in BOOLEAN, Allocate(d, pre)
    PROVE  NetworkInvariant'
<1>1. /\ NetworkTypes /\ Sequenced /\ proc \in [Actors -> Requests]
      /\ d \in Actors /\ proc[d].pc = "ready" /\ proc[d].dev = d /\ mutation_lock = d
      /\ proc[d].net \in Nets
      /\ d \in Tunnels => ~pre /\ (proc[d].here => d \in InMemory)
      /\ WithDevice(d, proc[d].net)
      /\ UNCHANGED <<custom, db_nets, net_row, device_rows, init_lock, offline, table, slips>>
  BY Parts, ActorsApart, Zenon DEF Allocate, Sequenced, DevicePlaced, AdminPlaced, LoadPlaced
<1>2. /\ state' \in Listed \cup {Absent} /\ (state' = Absent <=> state = Absent)
      /\ state # Absent => /\ state'.net = state.net
                           /\ \A e \in Devices : ~ (proc[d].here /\ e = d)
                                => state'.devices[e] = state.devices[e]
      /\ proc[d].here => state'.devices[d] = proc[d].net
  BY <1>1, DevicePut
<1>3. PICK pc \in {"pending", "save"} :
        /\ Others(d) /\ proc'[d].pc = pc /\ proc'[d].dev = d /\ proc'[d].net = proc[d].net
        /\ proc'[d].here = proc[d].here
        /\ mutation_lock' = IF pc = "pending" THEN Absent ELSE d
        /\ pc = "pending" => d \in Clients
  <2>1. CASE pre
    BY <1>1, <2>1, Stepped, Zenon DEF Allocate, PCs, Unlock, Devices
  <2>2. CASE ~pre
    BY <1>1, <2>2, Stepped, Zenon DEF Allocate, PCs
  <2> QED BY <2>1, <2>2, Zenon
<1>4. Stored' = Stored /\ (proc[d].here => InMemory' = InMemory \cup {d})
  BY <1>1, <1>2, ActorsApart DEF InMemory, Stored, Sequenced, DevicePlaced, AdminPlaced, LoadPlaced
<1>5. proc["admin"].pc = "rest" /\ proc'["admin"] = proc["admin"]
  BY <1>1, <1>3, Aside, ActorsApart, Zenon DEF Others
<1>6. NetworkTypes'
  BY <1>1, <1>2, <1>3, Zenon DEF NetworkTypes, Others
<1>7. Sequenced'
  <2>11. \A e \in Devices : DevicePlaced(e)'
    BY <1>1, <1>2, <1>3, <1>5, Aside, ActorsApart DEF Sequenced, DevicePlaced, Others
  <2>12. AdminPlaced'
    BY <1>1, <1>2, <1>3, <1>5, Aside, ActorsApart, Zenon DEF Sequenced, AdminPlaced, Others
  <2>13. LoadPlaced'
    BY <1>1, <1>2, <1>3, Aside, Zenon DEF Sequenced, LoadPlaced, Fetching, Others
  <2> QED BY <2>11, <2>12, <2>13, Zenon DEF Sequenced
<1>8. ASSUME slips' = {} PROVE Copies' /\ Checked' /\ Created'
  <2>1. Copies /\ Checked /\ Created
    BY <1>1, <1>8, Parts, Zenon
  <2>2. /\ proc[d].here /\ proc[d].net = db_nets /\ state # Absent /\ init_lock = Absent
        /\ db_nets # Absent
    BY <1>1, <2>1, Aside, ActorsApart, Zenon DEF Copies, DataCopies, RequestCopies, Sequenced, DevicePlaced, AdminPlaced, LoadPlaced
  <2>3. \A e \in InMemory' : e \in Devices /\ state'.devices[e] = db_nets
    BY <1>2, <1>4, <2>1, <2>2, Aside, <1>1 DEF Copies, DataCopies, RequestCopies, InMemory
  <2>4. Copies'
    <3>1. \A e \in Devices : proc'[e].pc \in {"save", "pending", "live"} =>
            proc'[e].here /\ proc'[e].net = db_nets /\ e \in InMemory'
      <4>1. proc'[d].here /\ proc'[d].net = db_nets /\ d \in InMemory'
        BY <1>3, <1>4, <2>2, Zenon
      <4>2. \A e \in Devices : e # d => proc'[e] = proc[e] /\ (e \in InMemory => e \in InMemory')
        BY <1>3, <1>4, <2>2, ActorsApart, Zenon DEF Others
      <4> QED BY <2>1, <4>1, <4>2 DEF Copies, DataCopies, RequestCopies
    <3>2. \A a \in Actors : /\ proc'[a].pc \in {"fetch", "tunnel", "known"} => proc'[a].config = db_nets
                            /\ proc'[a].pc = "ready" => proc'[a].here /\ proc'[a].net = db_nets
      BY <1>1, <1>3, <2>1 DEF Copies, DataCopies, RequestCopies, Others
    <3>11. DataCopies'
      BY <1>1, <1>2, <1>4, <1>5, <2>1, <2>2, <2>3, <3>1, <3>2, Zenon DEF Copies, DataCopies
    <3>12. RequestCopies'
      BY <1>1, <1>2, <1>4, <1>5, <2>1, <2>2, <2>3, <3>1, <3>2, Zenon DEF Copies, RequestCopies
    <3> QED BY <3>11, <3>12, Zenon DEF Copies
  <2>5. Checked'
    BY <1>5, Zenon DEF Checked
  <2>6. Created'
    <3>1. InMemory' \cap Tunnels = InMemory \cap Tunnels
      BY <1>1, <1>4, <2>2, Zenon
    <3> QED BY <1>1, <1>4, <1>5, <2>1, <2>2, <3>1, Zenon DEF Created, Refreshing
  <2> QED BY <2>4, <2>5, <2>6, Zenon
<1> QED BY <1>6, <1>7, <1>8, Zenon DEF NetworkInvariant

\* A registration or a session that goes to rest, and what it leaves is as it was.
LEMMA Ends ==
    ASSUME NetworkInvariant, NEW d \in Devices, proc[d].pc \in {"ready", "save", "live"}, Rest(d),
           mutation_lock' = IF proc[d].pc = "live" THEN mutation_lock ELSE Absent,
           offline' = IF proc[d].pc = "ready" THEN offline ELSE offline \cup {<<d, proc[d].net>>},
           UNCHANGED <<custom, db_nets, net_row, device_rows, state, init_lock, table, slips>>
    PROVE  NetworkInvariant'
<1>1. /\ NetworkTypes /\ Sequenced /\ proc \in [Actors -> Requests]
      /\ d \in Actors /\ proc[d].pc \in {"ready", "save"} => mutation_lock = d
  BY Parts, ActorsApart, Zenon DEF Sequenced, DevicePlaced, AdminPlaced, LoadPlaced
<1>2. Others(d) /\ proc'[d] = Resting /\ d \in Actors
  BY <1>1, Rested, ActorsApart, Zenon
<1>3. InMemory' = InMemory /\ Stored' = Stored
  BY Zenon DEF InMemory, Stored
<1>4. proc'["admin"] = proc["admin"] /\ (mutation_lock' # mutation_lock => proc["admin"].pc = "rest")
  BY <1>1, <1>2, Aside, ActorsApart, Zenon DEF Others
<1>5. NetworkTypes'
  <2>1. offline' \subseteq Devices \X Nets
    BY <1>1 DEF NetworkTypes, Sequenced, DevicePlaced, AdminPlaced, LoadPlaced
  <2>2. mutation_lock' \in Actors \cup {Absent}
    BY <1>1, Zenon DEF NetworkTypes, Unlock
  <2> QED BY <1>1, <1>2, <2>1, <2>2, Zenon DEF NetworkTypes, Others
<1>6. Sequenced'
  <2>1. \A e \in Devices : proc'[e].pc \in {"fetch", "ready", "save"} => mutation_lock' = e
    BY <1>1, <1>2, ActorsApart, RestingIs DEF Others, Sequenced, DevicePlaced, AdminPlaced, LoadPlaced, Unlock
  <2>2. init_lock # Absent => init_lock.by \in Actors /\ init_lock.by # d
    BY <1>1, Aside, Zenon
  <2>11. \A e \in Devices : DevicePlaced(e)'
    BY <1>1, <1>2, <1>4, <2>1, <2>2, ActorsApart, RestingIs DEF Sequenced, DevicePlaced, Others
  <2>12. AdminPlaced'
    BY <1>1, <1>2, <1>4, <2>1, <2>2, ActorsApart, RestingIs, Zenon DEF Sequenced, AdminPlaced, Others
  <2>13. LoadPlaced'
    BY <1>1, <1>2, <1>4, <2>1, <2>2, ActorsApart, RestingIs, Zenon DEF Sequenced, LoadPlaced, Fetching, Others
  <2> QED BY <2>11, <2>12, <2>13, Zenon DEF Sequenced
<1>7. ASSUME slips' = {} PROVE Copies' /\ Checked' /\ Created'
  <2>1. Copies /\ Checked /\ Created
    BY <1>7, Parts, Zenon
  <2>2. Copies'
    <3>11. DataCopies'
      BY <1>2, <1>3, <1>4, <2>1, ActorsApart, RestingIs, Zenon DEF Copies, DataCopies
    <3>12. RequestCopies'
      BY <1>2, <1>3, <1>4, <2>1, ActorsApart, RestingIs, Zenon DEF Copies, RequestCopies, Others
    <3> QED BY <3>11, <3>12, Zenon DEF Copies
  <2>3. Checked'
    <3>1. Stored \subseteq Devices /\ (proc["admin"].pc = "store" => proc["admin"].dev \in Devices)
      BY <1>1, Aside, Zenon DEF Sequenced, DevicePlaced, AdminPlaced, LoadPlaced
    <3>2. \A e \in Devices : proc'[e].pc \in {"save", "pending", "live"} => proc'[e] = proc[e]
      BY <1>2, ActorsApart, RestingIs, Zenon DEF Others
    <3> QED BY <1>3, <1>4, <2>1, <3>1, <3>2, Zenon DEF Checked
  <2>4. Created'
    <3>1. \A u \in Tunnels : proc[u].pc = "known" => proc'[u].pc = "known"
      BY <1>2, ActorsApart, Zenon DEF Others
    <3>2. init_lock # Absent => init_lock.by \in Actors /\ init_lock.by # d
      BY <1>1, Aside, Zenon
    <3> QED BY <1>2, <1>3, <1>4, <2>1, <3>1, <3>2, Zenon DEF Created, Refreshing, Others
  <2> QED BY <2>2, <2>3, <2>4, Zenon
<1> QED BY <1>5, <1>6, <1>7, Zenon DEF NetworkInvariant

\* A registration is refused.
LEMMA RefusedStep ==
    ASSUME NetworkInvariant, NEW d \in Devices, Refused(d)
    PROVE  NetworkInvariant'
<1>1. proc[d].pc = "ready" /\ Rest(d) /\ mutation_lock' = Absent
  BY Zenon DEF Refused, Unlock
<1>2. UNCHANGED <<custom, db_nets, net_row, device_rows, state, init_lock, offline, table, slips>>
  BY Zenon DEF Refused
<1> QED BY <1>1, <1>2, Ends, Zenon

\* A registration fails with the write of its row.
LEMMA SaveFailsStep ==
    ASSUME NetworkInvariant, NEW d \in Devices, SaveFails(d)
    PROVE  NetworkInvariant'
BY Ends, Zenon DEF SaveFails, Unlock

\* A row is written for a device in memory: at the end of its registration or when it is
\* confirmed.
LEMMA Kept ==
    ASSUME NetworkInvariant, NEW d \in Devices, proc[d].pc \in {"save", "pending"},
           device_rows' = [device_rows EXCEPT ![d] = proc[d].net], Step(d, "live"),
           IF proc[d].pc = "save" THEN Unlock ELSE UNCHANGED mutation_lock,
           UNCHANGED <<custom, db_nets, net_row, state, init_lock, offline, table, slips>>
    PROVE  NetworkInvariant'
<1>1. /\ NetworkTypes /\ Sequenced /\ proc \in [Actors -> Requests] /\ d \in Actors
      /\ device_rows \in [Devices -> Nets \cup {Absent}]
      /\ proc[d].net \in Nets /\ (proc[d].pc = "save" => mutation_lock = d)
  BY Parts, ActorsApart, Zenon DEF Sequenced, DevicePlaced, AdminPlaced, LoadPlaced
<1>2. /\ Others(d) /\ proc'[d].pc = "live" /\ proc'[d].dev = proc[d].dev
      /\ proc'[d].net = proc[d].net /\ proc'[d].here = proc[d].here
  BY <1>1, Stepped, Zenon DEF PCs
<1>3. /\ device_rows' \in [Devices -> Nets \cup {Absent}] /\ device_rows'[d] = proc[d].net
      /\ \A e \in Devices : e # d => device_rows'[e] = device_rows[e]
      /\ InMemory' = InMemory /\ Stored' = Stored \cup {d}
  BY <1>1, ActorsApart, Zenon DEF InMemory, Stored
<1>4. proc'["admin"] = proc["admin"] /\ (mutation_lock' # mutation_lock => proc["admin"].pc = "rest")
  BY <1>1, <1>2, Aside, ActorsApart, Zenon DEF Others
<1>5. NetworkTypes'
  BY <1>1, <1>2, <1>3, Zenon DEF NetworkTypes, Others, Unlock
<1>6. Sequenced'
  <2>1. \A e \in Devices : proc'[e].pc \in {"fetch", "ready", "save"} => mutation_lock' = e
    BY <1>1, <1>2, ActorsApart DEF Others, Sequenced, DevicePlaced, AdminPlaced, LoadPlaced, Unlock
  <2>2. init_lock # Absent => init_lock.by \in Actors /\ init_lock.by # d
    BY <1>1, Aside, Zenon
  <2>11. \A e \in Devices : DevicePlaced(e)'
    BY <1>1, <1>2, <1>4, <2>1, <2>2, ActorsApart DEF Sequenced, DevicePlaced, Others
  <2>12. AdminPlaced'
    BY <1>1, <1>2, <1>4, <2>1, <2>2, ActorsApart, Zenon DEF Sequenced, AdminPlaced, Others
  <2>13. LoadPlaced'
    BY <1>1, <1>2, <1>4, <2>1, <2>2, ActorsApart, Zenon DEF Sequenced, LoadPlaced, Fetching, Others
  <2> QED BY <2>11, <2>12, <2>13, Zenon DEF Sequenced
<1>7. ASSUME slips' = {} PROVE Copies' /\ Checked' /\ Created'
  <2>1. Copies /\ Checked /\ Created
    BY <1>7, Parts, Zenon
  <2>2. /\ proc[d].here /\ proc[d].net = db_nets /\ d \in InMemory /\ db_nets # Absent
        /\ state # Absent /\ init_lock = Absent
    BY <1>1, <2>1, Aside, ActorsApart, Zenon DEF Copies, DataCopies, RequestCopies, Sequenced, DevicePlaced, AdminPlaced, LoadPlaced
  <2>3. Copies'
    <3>1. \A e \in Stored' : device_rows'[e] = db_nets
      BY <1>3, <2>1, <2>2, <1>1, Aside, Zenon DEF Copies, DataCopies, RequestCopies
    <3>2. \A e \in Devices : proc'[e].pc \in {"save", "pending", "live"} =>
            proc'[e].here /\ proc'[e].net = db_nets /\ e \in InMemory
      <4>1. \A e \in Devices : e # d => proc'[e] = proc[e]
        BY <1>2, ActorsApart, Zenon DEF Others
      <4> QED BY <1>2, <2>1, <4>1, ZenonT(30) DEF Copies, RequestCopies
    <3>3. \A a \in Actors : /\ proc'[a].pc \in {"fetch", "tunnel", "known"} => proc'[a].config = db_nets
                            /\ proc'[a].pc = "ready" => proc'[a].here /\ proc'[a].net = db_nets
      BY <1>2, <2>1 DEF Copies, DataCopies, RequestCopies, Others
    <3>11. DataCopies'
      BY <1>3, <1>4, <2>1, <2>2, <3>1, <3>2, <3>3, Zenon DEF Copies, DataCopies
    <3>12. RequestCopies'
      BY <1>3, <1>4, <2>1, <2>2, <3>1, <3>2, <3>3, Zenon DEF Copies, RequestCopies
    <3> QED BY <3>11, <3>12, Zenon DEF Copies
  <2>4. Checked'
    <3>1. Stored \subseteq Devices /\ (proc["admin"].pc = "store" => proc["admin"].dev \in Devices)
      BY <1>1, Aside, Zenon DEF Sequenced, DevicePlaced, AdminPlaced, LoadPlaced
    <3>2. \A e \in Devices : e # d => proc'[e] = proc[e]
      BY <1>2, ActorsApart, Zenon DEF Others
    <3> QED BY <1>2, <1>3, <1>4, <2>1, <2>2, <3>1, <3>2 DEF Checked
  <2>5. Created'
    <3>1. \A u \in Tunnels : proc[u].pc = "known" => proc'[u].pc = "known"
      BY <1>2, ActorsApart, Zenon DEF Others
    <3> QED BY <1>3, <1>4, <2>1, <2>2, <3>1 DEF Created, Refreshing
  <2> QED BY <2>3, <2>4, <2>5, Zenon
<1> QED BY <1>5, <1>6, <1>7, Zenon DEF NetworkInvariant

\* A registration ends with its row written.
LEMMA SavedStep ==
    ASSUME NetworkInvariant, NEW d \in Devices, Saved(d)
    PROVE  NetworkInvariant'
BY Kept, Zenon DEF Saved

\* A pre-registered device is confirmed.
LEMMA ConfirmStep ==
    ASSUME NetworkInvariant, NEW d \in Devices, confirm_registration(d)
    PROVE  NetworkInvariant'
BY Kept, Zenon DEF confirm_registration

\* A session ends.
LEMMA EndSessionStep ==
    ASSUME NetworkInvariant, NEW d \in Devices, EndSession(d)
    PROVE  NetworkInvariant'
<1>1. CASE proc[d].pc = "live"
  <2>1. Rest(d) /\ offline' = offline \cup {<<d, proc[d].net>>}
    BY <1>1, Zenon DEF EndSession
  <2>2. /\ mutation_lock' = mutation_lock
        /\ UNCHANGED <<custom, db_nets, net_row, device_rows, state, init_lock, table, slips>>
    BY <1>1, Zenon DEF EndSession
  <2> QED BY <1>1, <2>1, <2>2, Ends, Zenon
<1>2. CASE proc[d].pc = "pending"
  <2>1. /\ NetworkTypes /\ Sequenced /\ proc \in [Actors -> Requests] /\ d \in Actors
        /\ d \in Clients /\ d \notin Tunnels /\ proc[d].dev = d /\ WithDevice(d, Absent) /\ Rest(d)
        /\ UNCHANGED <<custom, db_nets, net_row, device_rows, init_lock, mutation_lock, offline,
                       table, slips>>
    BY <1>2, Parts, ActorsApart, Zenon DEF Sequenced, DevicePlaced, AdminPlaced, LoadPlaced, EndSession
  <2>2. Others(d) /\ proc'[d] = Resting
    BY <2>1, Rested, Zenon
  <2>3. /\ state' \in Listed \cup {Absent} /\ (state' = Absent <=> state = Absent)
        /\ state # Absent => /\ state'.net = state.net
                             /\ \A e \in Devices : ~ (proc[d].here /\ e = d)
                                  => state'.devices[e] = state.devices[e]
        /\ proc[d].here => state'.devices[d] = Absent
    BY <2>1, DevicePut
  <2>4. Stored' = Stored /\ (proc[d].here => InMemory' = InMemory \ {d})
    BY <2>1, <2>3, ActorsApart DEF InMemory, Stored, Sequenced, DevicePlaced, AdminPlaced, LoadPlaced
  <2>5. proc'["admin"] = proc["admin"] /\ (init_lock # Absent => init_lock.by \in Actors /\ init_lock.by # d)
    BY <1>2, <2>1, <2>2, Aside, ActorsApart, Zenon DEF Others
  <2>6. NetworkTypes'
    BY <2>1, <2>2, <2>3, Zenon DEF NetworkTypes, Others
  <2>7. Sequenced'
    <3>11. \A e \in Devices : DevicePlaced(e)'
      BY <2>1, <2>2, <2>3, <2>5, ActorsApart, RestingIs DEF Sequenced, DevicePlaced, Others
    <3>12. AdminPlaced'
      BY <2>1, <2>2, <2>3, <2>5, ActorsApart, RestingIs, Zenon DEF Sequenced, AdminPlaced, Others
    <3>13. LoadPlaced'
      BY <2>1, <2>2, <2>3, <2>5, ActorsApart, RestingIs, Zenon DEF Sequenced, LoadPlaced, Fetching, Others
    <3> QED BY <3>11, <3>12, <3>13, Zenon DEF Sequenced
  <2>8. ASSUME slips' = {} PROVE Copies' /\ Checked' /\ Created'
    <3>1. Copies /\ Checked /\ Created
      BY <2>1, <2>8, Parts, Zenon
    <3>2. proc[d].here /\ state # Absent /\ init_lock = Absent /\ db_nets # Absent
      BY <1>2, <2>1, <3>1, Aside, ActorsApart, Zenon DEF Copies, DataCopies, RequestCopies, Sequenced, DevicePlaced, AdminPlaced, LoadPlaced
    <3>3. \A e \in Devices : proc'[e].pc # "rest" => e # d /\ proc'[e] = proc[e]
      BY <2>2, ActorsApart, RestingIs, Zenon DEF Others
    <3>4. \A e \in InMemory' : state'.devices[e] = db_nets
      BY <2>1, <2>3, <2>4, <3>1, <3>2, Aside DEF Copies, DataCopies, RequestCopies
    <3>5. Copies'
      <4>1. \A a \in Actors : proc'[a].pc # "rest" => proc'[a] = proc[a]
        BY <2>2, RestingIs, Zenon DEF Others
      <4>2. \A e \in Devices : proc'[e].pc \in {"save", "pending", "live"} =>
              proc'[e].here /\ proc'[e].net = db_nets /\ e \in InMemory'
        BY <2>4, <3>1, <3>2, <3>3, Zenon DEF Copies, DataCopies, RequestCopies
      <4>11. DataCopies'
        BY <2>1, <2>3, <2>4, <2>5, <3>1, <3>2, <3>4, <4>1, <4>2, Zenon DEF Copies, DataCopies
      <4>12. RequestCopies'
        BY <2>1, <2>5, <3>1, <4>1, <4>2 DEF Copies, RequestCopies
      <4> QED BY <4>11, <4>12, Zenon DEF Copies
    <3>6. Checked'
      <4>1. Stored \subseteq Devices /\ (proc["admin"].pc = "store" => proc["admin"].dev \in Devices)
        BY <2>1, Aside, Zenon DEF Sequenced, DevicePlaced, AdminPlaced, LoadPlaced
      <4> QED BY <1>2, <2>1, <2>4, <2>5, <3>1, <3>2, <3>3, <4>1 DEF Checked
    <3>7. Created'
      <4>1. \A u \in Tunnels : proc[u].pc = "known" => proc'[u].pc = "known"
        BY <1>2, <2>2, ActorsApart, Zenon DEF Others
      <4>2. InMemory' \cap Tunnels = InMemory \cap Tunnels
        BY <2>1, <2>4, <3>2, Zenon
      <4> QED BY <2>1, <2>4, <2>5, <3>1, <3>2, <4>1, <4>2, Zenon DEF Created, Refreshing
    <3> QED BY <3>5, <3>6, <3>7, Zenon
  <2> QED BY <2>6, <2>7, <2>8, Zenon DEF NetworkInvariant
<1> QED BY <1>1, <1>2, Zenon DEF EndSession

-----------------------------------------------------------------------------
(* The spawned writes, unused networks, and the process.                    *)

\* What the invariant speaks of does not change.
LEMMA Unmoved ==
    ASSUME NetworkInvariant, net_row' \in Nets \cup {Absent}, offline' \subseteq offline,
           UNCHANGED <<custom, db_nets, device_rows, state, init_lock, mutation_lock, proc, table, slips>>
    PROVE  NetworkInvariant'
<1>1. InMemory' = InMemory /\ Stored' = Stored
  BY Zenon DEF InMemory, Stored
<1>2. NetworkTypes'
  BY Zenon DEF NetworkInvariant, NetworkTypes
<1>3. Sequenced'
  BY Zenon DEF NetworkInvariant, Sequenced, DevicePlaced, AdminPlaced, LoadPlaced, Fetching
<1>4. slips = {} => Copies' /\ Checked' /\ Created'
  BY <1>1, Zenon DEF NetworkInvariant, Copies, DataCopies, RequestCopies, Checked, Created, Refreshing
<1> QED BY <1>2, <1>3, <1>4, Zenon DEF NetworkInvariant

\* The row of a device that has left is not written.
LEMMA OfflineLostStep ==
    ASSUME NetworkInvariant, NEW w \in offline, OfflineLost(w)
    PROVE  NetworkInvariant'
BY Unmoved, Zenon DEF OfflineLost, NetworkInvariant, NetworkTypes

\* The row of a device that has left is written.
LEMMA OfflineSavedStep ==
    ASSUME NetworkInvariant, NEW w \in offline, OfflineSaved(w)
    PROVE  NetworkInvariant'
<1>1. /\ NetworkTypes /\ Sequenced /\ device_rows \in [Devices -> Nets \cup {Absent}]
      /\ w[1] \in Devices /\ w[2] \in Nets /\ offline' \subseteq offline
      /\ device_rows' = [device_rows EXCEPT ![w[1]] = w[2]]
      /\ UNCHANGED <<custom, db_nets, net_row, state, init_lock, mutation_lock, proc, table>>
  BY Parts, Zenon DEF OfflineSaved, NetworkTypes
<1>2. CASE slips' = {}
  <2>1. slips = {} /\ w[1] \in Stored /\ w[2] = db_nets
    BY <1>2, Zenon DEF OfflineSaved
  <2>2. device_rows[w[1]] = db_nets
    BY <2>1, Parts, Zenon DEF Copies, DataCopies, RequestCopies
  <2>3. device_rows' = device_rows /\ slips' = slips
    BY <1>1, <1>2, <2>1, <2>2, Zenon
  <2> QED BY <1>1, <2>3, Unmoved, Zenon DEF NetworkTypes
<1>3. CASE slips' # {}
  <2>1. device_rows' \in [Devices -> Nets \cup {Absent}]
    BY <1>1, Zenon
  <2>2. NetworkTypes'
    BY <1>1, <2>1, Zenon DEF NetworkTypes
  <2>3. Sequenced'
    <3>11. \A e \in Devices : DevicePlaced(e)'
      BY <1>1, Zenon DEF Sequenced, DevicePlaced
    <3>12. AdminPlaced'
      BY <1>1, Zenon DEF Sequenced, AdminPlaced
    <3>13. LoadPlaced'
      BY <1>1, Zenon DEF Sequenced, LoadPlaced, Fetching
    <3> QED BY <3>11, <3>12, <3>13, Zenon DEF Sequenced
  <2> QED BY <1>3, <2>2, <2>3, Zenon DEF NetworkInvariant
<1> QED BY <1>2, <1>3, Zenon

\* The row of a new network is written, or not.
LEMMA NetworkSavedStep ==
    ASSUME NetworkInvariant, NEW n \in spawned, spawned \subseteq Nets \cup {Absent},
           NetworkSaved(n)
    PROVE  NetworkInvariant'
BY Unmoved, Zenon DEF NetworkSaved, NetworkInvariant, NetworkTypes

\* A state has been idle.
LEMMA HourPassesStep ==
    ASSUME NetworkInvariant, HourPasses
    PROVE  NetworkInvariant'
<1>1. /\ NetworkTypes /\ Sequenced /\ state \in Listed /\ state # Absent
      /\ UNCHANGED <<custom, db_nets, net_row, device_rows, init_lock, mutation_lock, proc, offline,
                     table, slips>>
  BY Parts, Zenon DEF HourPasses
<1>2. state' \in Listed /\ state'.net = state.net /\ state'.devices = state.devices /\ state' # Absent
  BY <1>1, ActorsApart, Zenon DEF HourPasses, Listed
<1>3. InMemory' = InMemory /\ Stored' = Stored
  BY <1>1, <1>2, Zenon DEF InMemory, Stored
<1>4. NetworkTypes'
  BY <1>1, <1>2, Zenon DEF NetworkTypes
<1>5. Sequenced'
  BY <1>1, <1>2, Zenon DEF Sequenced, DevicePlaced, AdminPlaced, LoadPlaced
<1>6. slips = {} => Copies' /\ Checked' /\ Created'
  BY <1>1, <1>2, <1>3 DEF NetworkInvariant, Copies, DataCopies, RequestCopies, Checked, Created, Refreshing
<1> QED BY <1>1, <1>4, <1>5, <1>6, Zenon DEF NetworkInvariant

\* release_network finds the state unused.
LEMMA ReleaseBeginsStep ==
    ASSUME NetworkInvariant, ReleaseBegins
    PROVE  NetworkInvariant'
BY Unmoved, Zenon DEF ReleaseBegins, NetworkInvariant, NetworkTypes

\* release_network drops the state.
LEMMA ReleaseStep ==
    ASSUME NetworkInvariant, release_network
    PROVE  NetworkInvariant'
<1>1. /\ NetworkTypes /\ Sequenced /\ proc \in [Actors -> Requests] /\ state' = Absent
      /\ proc' = Unlisted(proc)
      /\ UNCHANGED <<custom, db_nets, net_row, device_rows, init_lock, mutation_lock, offline, table>>
  BY Parts, Zenon DEF release_network
<1>2. /\ proc' \in [Actors -> Requests]
      /\ \A a \in Actors : /\ proc'[a].here = FALSE /\ proc'[a].pc = proc[a].pc
                           /\ proc'[a].dev = proc[a].dev /\ proc'[a].config = proc[a].config
                           /\ proc'[a].net = proc[a].net
  BY <1>1, UnlistedDoes, Zenon
<1>3. InMemory' = {} /\ Stored' = Stored
  BY <1>1, Zenon DEF InMemory, Stored
<1>4. NetworkTypes'
  BY <1>1, <1>2, Zenon DEF NetworkTypes
<1>5. Sequenced'
  <2>11. \A e \in Devices : DevicePlaced(e)'
    BY <1>1, <1>2, Aside, ActorsApart DEF Sequenced, DevicePlaced
  <2>12. AdminPlaced'
    BY <1>1, <1>2, Aside, ActorsApart, Zenon DEF Sequenced, AdminPlaced
  <2>13. LoadPlaced'
    BY <1>1, <1>2, Aside, ActorsApart, Zenon DEF Sequenced, LoadPlaced, Fetching
  <2> QED BY <2>11, <2>12, <2>13, Zenon DEF Sequenced
<1>6. ASSUME slips' = {} PROVE Copies' /\ Checked' /\ Created'
  <2>1. slips = {} /\ InMemory = {} /\ \A a \in Actors : ~proc[a].here
    BY <1>6, Zenon DEF release_network
  <2>2. Copies /\ Checked /\ Created
    BY <2>1, Parts, Zenon
  <2>3. /\ \A a \in Actors : proc[a].pc # "ready"
        /\ \A d \in Devices : proc[d].pc \notin {"save", "pending", "live"}
        /\ proc["admin"].pc # "store"
    BY <2>1, <2>2, ActorsApart, Zenon DEF Copies, DataCopies, RequestCopies
  <2>4. Copies'
    <3>11. DataCopies'
      BY <1>1, <1>2, <1>3, <2>2, <2>3, ActorsApart, Zenon DEF Copies, DataCopies
    <3>12. RequestCopies'
      BY <1>1, <1>2, <1>3, <2>2, <2>3, ActorsApart DEF Copies, RequestCopies
    <3> QED BY <3>11, <3>12, Zenon DEF Copies
  <2>5. Checked'
    BY <1>1, <1>2, <1>3, <2>1, <2>2, <2>3, ActorsApart, Zenon DEF Checked
  <2>6. Created'
    <3>1. init_lock # Absent => init_lock.by \in Actors
      BY <1>1, Aside, Zenon
    <3> QED BY <1>1, <1>2, <1>3, <2>2, <3>1, ActorsApart, Zenon DEF Created, Refreshing
  <2> QED BY <2>4, <2>5, <2>6, Zenon
<1> QED BY <1>4, <1>5, <1>6, Zenon DEF NetworkInvariant

\* The process starts again.
LEMMA RestartStep ==
    ASSUME NetworkInvariant, Restart
    PROVE  NetworkInvariant'
<1>1. /\ NetworkTypes /\ Sequenced /\ state' = Absent /\ init_lock' = Absent /\ mutation_lock' = Absent
      /\ proc' = [a \in Actors |-> Resting] /\ offline' = {} /\ table' = Tunnels \cap Stored
      /\ UNCHANGED <<custom, device_rows>> /\ db_nets' = net_row' /\ net_row' \in {custom, net_row}
  BY Parts, Zenon DEF Restart
<1>2. proc' \in [Actors -> Requests] /\ \A a \in Actors : proc'[a].pc = "rest" /\ ~proc'[a].here
  BY <1>1, RestingIs, Zenon
<1>3. InMemory' = {} /\ Stored' = Stored
  BY <1>1, Zenon DEF InMemory, Stored
<1>4. NetworkTypes'
  BY <1>1, <1>2, Zenon DEF NetworkTypes
<1>5. Sequenced'
  BY <1>1, <1>2, ActorsApart, Zenon DEF Sequenced, DevicePlaced, AdminPlaced, LoadPlaced
<1>6. ASSUME slips' = {} PROVE Copies' /\ Checked' /\ Created'
  <2>1. slips = {} /\ db_nets' = db_nets
    BY <1>6, Zenon DEF Restart
  <2>2. Copies
    BY <2>1, Parts, Zenon
  <2>3. Copies'
    <3>11. DataCopies'
      BY <1>1, <1>2, <1>3, <2>1, <2>2, ActorsApart, Zenon DEF Copies, DataCopies
    <3>12. RequestCopies'
      BY <1>1, <1>2, <1>3, <2>1, <2>2, ActorsApart, Zenon DEF Copies, RequestCopies
    <3> QED BY <3>11, <3>12, Zenon DEF Copies
  <2>4. Checked' /\ Created'
    BY <1>1, <1>2, <1>3, ActorsApart, Zenon DEF Checked, Created
  <2> QED BY <2>3, <2>4, Zenon
<1> QED BY <1>4, <1>5, <1>6, Zenon DEF NetworkInvariant

-----------------------------------------------------------------------------
(* The administrator's requests.                                            *)

\* A request of the administrator takes the lock: whoever is elsewhere stays there.
LEMMA RequestBegins ==
    ASSUME NetworkInvariant, NEW pc \in {"insert", "update", "delete", "fetch"},
           NEW d \in Devices \cup {Absent}, NEW n \in Nets \cup {Absent},
           Lock("admin"), Request(pc, d, n),
           pc = "insert" => db_nets = Absent, pc # "insert" => db_nets # Absent,
           pc \in {"update", "delete"} => Stored = {},
           pc = "fetch" => d \in Devices /\ n = db_nets,
           UNCHANGED <<custom, db_nets, net_row, device_rows, state, init_lock, offline, table, slips>>
    PROVE  NetworkInvariant'
<1>1. /\ NetworkTypes /\ Sequenced /\ proc \in [Actors -> Requests]
      /\ mutation_lock = Absent /\ mutation_lock' = "admin" /\ proc["admin"].pc = "rest"
  BY Parts, Aside, ActorsApart, Zenon DEF Lock
<1>2. /\ Others("admin") /\ proc'["admin"].pc = pc /\ proc'["admin"].dev = d
      /\ proc'["admin"].config = n /\ proc'["admin"].here = FALSE
  <2>1. pc \in PCs
    BY Zenon DEF PCs
  <2> QED BY <1>1, <2>1, Requested, Zenon
<1>3. InMemory' = InMemory /\ Stored' = Stored /\ \A e \in Devices : proc'[e] = proc[e]
  BY <1>2, ActorsApart, Zenon DEF InMemory, Stored, Others
<1>4. NetworkTypes'
  BY <1>1, <1>2, ActorsApart, Zenon DEF NetworkTypes, Others
<1>5. Sequenced'
  <2>1. pc = "fetch" => n \in Nets
    BY <1>1, Zenon DEF NetworkTypes
  <2>2. init_lock # Absent => init_lock.by \in Actors /\ init_lock.by # "admin"
    BY <1>1, Aside, Zenon
  <2>11. \A e \in Devices : DevicePlaced(e)'
    BY <1>1, <1>2, <1>3, <2>1, <2>2, ActorsApart DEF Sequenced, DevicePlaced, Others
  <2>12. AdminPlaced'
    BY <1>1, <1>2, <1>3, <2>1, <2>2, ActorsApart, Zenon DEF Sequenced, AdminPlaced, Others
  <2>13. LoadPlaced'
    BY <1>1, <1>2, <1>3, <2>1, <2>2, ActorsApart, Zenon DEF Sequenced, LoadPlaced, Fetching, Others
  <2> QED BY <2>11, <2>12, <2>13, Zenon DEF Sequenced
<1>6. ASSUME slips' = {} PROVE Copies' /\ Checked' /\ Created'
  <2>1. Copies /\ Checked /\ Created
    BY <1>6, Parts, Zenon
  <2>2. Copies'
    <3>11. DataCopies'
      BY <1>1, <1>2, <1>3, <2>1, ActorsApart, Zenon DEF Copies, DataCopies
    <3>12. RequestCopies'
      BY <1>1, <1>2, <1>3, <2>1, ActorsApart DEF Copies, RequestCopies, Others
    <3> QED BY <3>11, <3>12, Zenon DEF Copies
  <2>3. Checked'
    BY <1>2, <1>3, <2>1, Zenon DEF Checked
  <2>4. Created'
    <3>1. init_lock # Absent => init_lock.by \in Actors /\ init_lock.by # "admin"
      BY <1>1, Aside, Zenon
    <3> QED BY <1>1, <1>2, <1>3, <2>1, <3>1, ActorsApart, Zenon DEF Created, Refreshing, Others
  <2> QED BY <2>2, <2>3, <2>4, Zenon
<1> QED BY <1>4, <1>5, <1>6, Zenon DEF NetworkInvariant

\* A network is added, ...
LEMMA AddNetworkStep ==
    ASSUME NetworkInvariant, NEW n \in Nets, add_network(n)
    PROVE  NetworkInvariant'
BY RequestBegins, Zenon DEF add_network

\* ... changed, ...
LEMMA UpdateNetworkStep ==
    ASSUME NetworkInvariant, NEW n \in Nets, update_network(n)
    PROVE  NetworkInvariant'
BY RequestBegins, Zenon DEF update_network

\* ... or deleted.
LEMMA DeleteNetworkStep ==
    ASSUME NetworkInvariant, delete_network
    PROVE  NetworkInvariant'
BY RequestBegins, Zenon DEF delete_network

\* A device is to be created.
LEMMA CreateDeviceStep ==
    ASSUME NetworkInvariant, NEW d \in Devices, create_device(d)
    PROVE  NetworkInvariant'
<1>1. db_nets \in Nets \cup {Absent}
  BY Zenon DEF NetworkInvariant, NetworkTypes
<1> QED BY <1>1, RequestBegins, Zenon DEF create_device

\* The networks table is written.
LEMMA NetworkWrittenStep ==
    ASSUME NetworkInvariant, NetworkWritten
    PROVE  NetworkInvariant'
<1>1. /\ NetworkTypes /\ Sequenced /\ proc \in [Actors -> Requests]
      /\ proc["admin"].pc \in {"insert", "update", "delete"} /\ mutation_lock = "admin"
      /\ proc["admin"].pc # "insert" => InMemory = {}
      /\ UNCHANGED <<custom, db_nets, device_rows, state, init_lock, mutation_lock, offline, table, slips>>
  BY Parts, Zenon DEF NetworkWritten, NoDevices, Sequenced, DevicePlaced, AdminPlaced, LoadPlaced
<1>2. net_row' \in Nets \cup {Absent}
  BY <1>1, ActorsApart, Zenon DEF NetworkWritten, Requests
<1>3. /\ Others("admin") /\ proc'["admin"].here = proc["admin"].here
      /\ proc'["admin"].pc = IF proc["admin"].pc = "insert" THEN "list" ELSE "replace"
  BY <1>1, Stepped, ActorsApart, Zenon DEF NetworkWritten, PCs
<1>4. InMemory' = InMemory /\ Stored' = Stored /\ \A e \in Devices : proc'[e] = proc[e]
  BY <1>1, <1>3, ActorsApart, Zenon DEF InMemory, Stored, Others
<1>5. NetworkTypes'
  BY <1>1, <1>2, <1>3, Zenon DEF NetworkTypes, Others
<1>6. init_lock # Absent => init_lock.by \in Actors /\ init_lock.by # "admin"
  BY <1>1, Aside, Zenon
<1>7. Sequenced'
  <2>11. \A e \in Devices : DevicePlaced(e)'
    BY <1>1, <1>4, Zenon DEF Sequenced, DevicePlaced
  <2>12. AdminPlaced'
    BY <1>1, <1>3, <1>4, <1>6, ActorsApart, Zenon DEF Sequenced, AdminPlaced, Others
  <2>13. LoadPlaced'
    BY <1>1, <1>3, <1>4, <1>6, ActorsApart, Zenon DEF Sequenced, LoadPlaced, Fetching, Others
  <2> QED BY <2>11, <2>12, <2>13, Zenon DEF Sequenced
<1>8. ASSUME slips' = {} PROVE Copies' /\ Checked' /\ Created'
  <2>1. Copies /\ Checked /\ Created
    BY <1>1, <1>8, Parts, Zenon
  <2>2. Copies'
    <3>11. DataCopies'
      BY <1>1, <1>3, <1>4, <2>1, ActorsApart, Zenon DEF Copies, DataCopies
    <3>12. RequestCopies'
      BY <1>1, <1>3, <1>4, <2>1, ActorsApart DEF Copies, RequestCopies, Others
    <3> QED BY <3>11, <3>12, Zenon DEF Copies
  <2>3. Checked'
    BY <1>1, <1>3, <1>4, <2>1, Zenon DEF Checked
  <2>4. Created'
    BY <1>1, <1>3, <1>4, <1>6, <2>1, ActorsApart, Zenon DEF Created, Refreshing, Others
  <2> QED BY <2>2, <2>3, <2>4, Zenon
<1> QED BY <1>5, <1>7, <1>8, Zenon DEF NetworkInvariant

\* A request of the administrator ends, with nothing left to undo.
LEMMA RequestEnds ==
    ASSUME NetworkInvariant, proc["admin"].pc \in {"insert", "update", "delete", "ready", "remove"},
           Rest("admin"), Unlock,
           UNCHANGED <<custom, db_nets, net_row, device_rows, state, init_lock, offline, table, slips>>
    PROVE  NetworkInvariant'
<1>1. /\ NetworkTypes /\ Sequenced /\ proc \in [Actors -> Requests] /\ mutation_lock = "admin"
      /\ mutation_lock' = Absent
  BY Parts, Zenon DEF Sequenced, DevicePlaced, AdminPlaced, LoadPlaced, Unlock
<1>2. Others("admin") /\ proc'["admin"] = Resting
  BY <1>1, Rested, ActorsApart, Zenon
<1>3. InMemory' = InMemory /\ Stored' = Stored /\ \A e \in Devices : proc'[e] = proc[e]
  BY <1>2, ActorsApart, Zenon DEF InMemory, Stored, Others
<1>4. NetworkTypes'
  BY <1>1, <1>2, Zenon DEF NetworkTypes, Others
<1>5. init_lock # Absent => init_lock.by \in Actors /\ init_lock.by # "admin"
  BY <1>1, Aside, Zenon
<1>6. Sequenced'
  <2>11. \A e \in Devices : DevicePlaced(e)'
    BY <1>1, <1>3, ActorsApart DEF Sequenced, DevicePlaced
  <2>12. AdminPlaced'
    BY <1>1, <1>2, <1>3, <1>5, ActorsApart, RestingIs, Zenon DEF Sequenced, AdminPlaced, Others
  <2>13. LoadPlaced'
    BY <1>1, <1>2, <1>3, <1>5, ActorsApart, RestingIs, Zenon DEF Sequenced, LoadPlaced, Fetching, Others
  <2> QED BY <2>11, <2>12, <2>13, Zenon DEF Sequenced
<1>7. ASSUME slips' = {} PROVE Copies' /\ Checked' /\ Created'
  <2>1. Copies /\ Checked /\ Created
    BY <1>7, Parts, Zenon
  <2>2. Copies'
    <3>11. DataCopies'
      BY <1>2, <1>3, <2>1, ActorsApart, RestingIs, Zenon DEF Copies, DataCopies
    <3>12. RequestCopies'
      BY <1>2, <1>3, <2>1, ActorsApart, RestingIs DEF Copies, RequestCopies, Others
    <3> QED BY <3>11, <3>12, Zenon DEF Copies
  <2>3. Checked'
    BY <1>2, RestingIs, Zenon DEF Checked
  <2>4. Created'
    BY <1>2, <1>3, <1>5, <2>1, ActorsApart, RestingIs, Zenon DEF Created, Refreshing, Others
  <2> QED BY <2>2, <2>3, <2>4, Zenon
<1> QED BY <1>4, <1>6, <1>7, Zenon DEF NetworkInvariant

\* The edit of a network is refused.
LEMMA NetworkRefusedStep ==
    ASSUME NetworkInvariant, NetworkRefused
    PROVE  NetworkInvariant'
BY RequestEnds, Zenon DEF NetworkRefused

\* The configuration changes.
LEMMA NetworkAppliedStep ==
    ASSUME NetworkInvariant, NetworkApplied
    PROVE  NetworkInvariant'
<1>1. /\ NetworkTypes /\ Sequenced /\ proc \in [Actors -> Requests] /\ mutation_lock = "admin"
      /\ mutation_lock' = Absent /\ proc["admin"].pc \in {"list", "replace"}
      /\ db_nets' = proc["admin"].config
      /\ UNCHANGED <<custom, net_row, device_rows, init_lock, offline, table, slips>>
  BY Parts, Zenon DEF Sequenced, DevicePlaced, AdminPlaced, LoadPlaced, Unlock, NetworkApplied
<1>2. db_nets' \in Nets \cup {Absent}
  BY <1>1, ActorsApart, Zenon DEF Requests
<1>3. /\ proc' \in [Actors -> Requests] /\ proc'["admin"] = Resting
      /\ \A a \in Actors \ {"admin"} :
           /\ proc'[a].pc = proc[a].pc /\ proc'[a].dev = proc[a].dev
           /\ proc'[a].config = proc[a].config /\ proc'[a].net = proc[a].net
           /\ proc'[a].here => proc[a].here /\ state' # Absent
      /\ state' \in {state, Absent}
  <2>1. CASE proc["admin"].pc = "list"
    <3>1. Rest("admin") /\ state' = state
      BY <2>1, Zenon DEF NetworkApplied
    <3>2. Others("admin") /\ proc'["admin"] = Resting
      BY <1>1, <3>1, Rested, ActorsApart, Zenon
    <3> QED BY <1>1, <3>1, <3>2, Zenon DEF Others, Sequenced, DevicePlaced, AdminPlaced, LoadPlaced
  <2>2. CASE proc["admin"].pc = "replace"
    <3>1. proc' = [Unlisted(proc) EXCEPT !["admin"] = Resting] /\ state' = Absent
      BY <2>2, Zenon DEF NetworkApplied
    <3> QED BY <1>1, <3>1, UnlistedDoes, RestingIs, ActorsApart, Zenon
  <2> QED BY <1>1, <2>1, <2>2, Zenon
<1>4. NetworkTypes'
  BY <1>1, <1>2, <1>3, Zenon DEF NetworkTypes
<1>5. Sequenced'
  <2>1. init_lock # Absent => init_lock.by \in Actors \ {"admin"} /\ state = Absent
    BY <1>1, Aside, Zenon
  <2>11. \A e \in Devices : DevicePlaced(e)'
    BY <1>1, <1>3, <2>1, ActorsApart, RestingIs DEF Sequenced, DevicePlaced
  <2>12. AdminPlaced'
    BY <1>1, <1>3, <2>1, ActorsApart, RestingIs, Zenon DEF Sequenced, AdminPlaced
  <2>13. LoadPlaced'
    BY <1>1, <1>3, <2>1, ActorsApart, RestingIs, Zenon DEF Sequenced, LoadPlaced, Fetching
  <2> QED BY <2>11, <2>12, <2>13, Zenon DEF Sequenced
<1>6. ASSUME slips' = {} PROVE Copies' /\ Checked' /\ Created'
  <2>1. Copies /\ Checked /\ Created
    BY <1>1, <1>6, Parts, Zenon
  <2>2. Stored = {} /\ InMemory = {} /\ table = {}
    <3>1. CASE proc["admin"].pc = "list"
      BY <2>1, <3>1 DEF Copies, DataCopies, RequestCopies, Checked, InMemory, Created, Refreshing
    <3>2. CASE proc["admin"].pc = "replace"
      BY <2>1, <3>2, Zenon DEF Checked, Created, Refreshing
    <3> QED BY <1>1, <3>1, <3>2, Zenon
  <2>3. \A d \in Devices : proc[d].pc = "rest"
    BY <1>1, <2>1, <2>2, ActorsApart, Zenon DEF Sequenced, DevicePlaced, AdminPlaced, LoadPlaced, Copies, DataCopies, RequestCopies
  <2>4. init_lock = Absent
    BY <1>1, <2>3, Aside, ActorsApart, Zenon
  <2>5. state' = Absent
    <3>1. CASE proc["admin"].pc = "list"
      BY <1>3, <2>1, <3>1, Zenon DEF Copies, DataCopies, RequestCopies, Checked
    <3>2. CASE proc["admin"].pc = "replace"
      BY <3>2, Zenon DEF NetworkApplied
    <3> QED BY <1>1, <3>1, <3>2, Zenon
  <2>6. Stored' = {} /\ InMemory' = {} /\ \A a \in Actors : proc'[a].pc = "rest"
    BY <1>1, <1>3, <2>2, <2>3, <2>5, ActorsApart, RestingIs DEF Stored, InMemory
  <2>7. Copies'
    <3>11. DataCopies'
      BY <1>1, <2>4, <2>5, <2>6, ActorsApart, Zenon DEF Copies, DataCopies
    <3>12. RequestCopies'
      BY <1>1, <2>4, <2>5, <2>6, ActorsApart, Zenon DEF Copies, RequestCopies
    <3> QED BY <3>11, <3>12, Zenon DEF Copies
  <2>8. Checked' /\ Created'
    BY <1>1, <2>2, <2>4, <2>6, ActorsApart, Zenon DEF Checked, Created
  <2> QED BY <2>7, <2>8, Zenon
<1> QED BY <1>4, <1>5, <1>6, Zenon DEF NetworkInvariant

\* A device is to be deleted, and leaves memory.
LEMMA DeleteDeviceStep ==
    ASSUME NetworkInvariant, NEW d \in Devices, delete_device(d)
    PROVE  NetworkInvariant'
<1>1. /\ NetworkTypes /\ Sequenced /\ proc \in [Actors -> Requests] /\ state \in Listed \cup {Absent}
      /\ mutation_lock = Absent /\ mutation_lock' = "admin" /\ proc["admin"].pc = "rest"
      /\ state # Absent => ~Connected(d)
      /\ UNCHANGED <<custom, db_nets, net_row, device_rows, init_lock, offline, table, slips>>
  BY Parts, Aside, ActorsApart, Zenon DEF Lock, delete_device
<1>2. /\ Others("admin") /\ proc'["admin"].pc = "remove" /\ proc'["admin"].dev = d
      /\ proc'["admin"].config = Absent /\ proc'["admin"].here = FALSE
  BY <1>1, Requested, Zenon DEF delete_device, PCs
<1>3. /\ state' \in Listed \cup {Absent} /\ (state' = Absent <=> state = Absent)
      /\ state # Absent => /\ state'.net = state.net /\ state'.devices[d] = Absent
                           /\ \A e \in Devices : e # d => state'.devices[e] = state.devices[e]
  <2>1. CASE state = Absent
    BY <2>1, Zenon DEF delete_device
  <2>2. CASE state # Absent
    <3>1. state \in Listed /\ state' = [state EXCEPT !.devices = [state.devices EXCEPT ![d] = Absent]]
      BY <1>1, <2>2, Zenon DEF delete_device, Listed
    <3>2. state' \in Listed /\ state'.net = state.net
          /\ state'.devices = [state.devices EXCEPT ![d] = Absent]
      BY <3>1, Zenon DEF Listed
    <3> QED BY <2>2, <3>1, <3>2, ActorsApart, Zenon DEF Listed
  <2> QED BY <2>1, <2>2, Zenon
<1>4. InMemory' = InMemory \ {d} /\ Stored' = Stored /\ \A e \in Devices : proc'[e] = proc[e]
  BY <1>1, <1>2, <1>3, ActorsApart DEF InMemory, Stored, Others
<1>5. NetworkTypes'
  BY <1>1, <1>2, <1>3, ActorsApart, Zenon DEF NetworkTypes, Others
<1>6. init_lock # Absent => init_lock.by \in Actors /\ init_lock.by # "admin"
  BY <1>1, Aside, Zenon
<1>7. Sequenced'
  <2>11. \A e \in Devices : DevicePlaced(e)'
    BY <1>1, <1>2, <1>3, <1>4, <1>6, ActorsApart DEF Sequenced, DevicePlaced, Others
  <2>12. AdminPlaced'
    BY <1>1, <1>2, <1>3, <1>4, <1>6, ActorsApart, Zenon DEF Sequenced, AdminPlaced, Others
  <2>13. LoadPlaced'
    BY <1>1, <1>2, <1>3, <1>4, <1>6, ActorsApart, Zenon DEF Sequenced, LoadPlaced, Fetching, Others
  <2> QED BY <2>11, <2>12, <2>13, Zenon DEF Sequenced
<1>8. ASSUME slips' = {} PROVE Copies' /\ Checked' /\ Created'
  <2>1. Copies /\ Checked /\ Created
    BY <1>1, <1>8, Parts, Zenon
  <2>2. proc[d].pc \notin {"save", "pending", "live"}
    BY <1>1, <2>1, ActorsApart, Zenon DEF Copies, DataCopies, RequestCopies, Connected, Sequenced, DevicePlaced, AdminPlaced, LoadPlaced
  <2>3. \A e \in InMemory' : state'.devices[e] = db_nets
    BY <1>1, <1>3, <1>4, <2>1, Aside, ZenonT(30) DEF Copies, DataCopies
  <2>4. db_nets # Absent
    BY <2>1, Zenon DEF delete_device, Copies, DataCopies, RequestCopies, InMemory
  <2>5. Copies'
    <3>1. \A e \in Devices : proc'[e].pc \in {"save", "pending", "live"} =>
            proc'[e].here /\ proc'[e].net = db_nets /\ e \in InMemory'
      BY <1>4, <2>1, <2>2, Zenon DEF Copies, DataCopies, RequestCopies
    <3>11. DataCopies'
      BY <1>1, <1>2, <1>3, <1>4, <2>1, <2>3, <2>4, <3>1, ActorsApart, Zenon DEF Copies, DataCopies
    <3>12. RequestCopies'
      BY <1>1, <1>2, <1>3, <1>4, <2>1, <2>3, <2>4, <3>1, ActorsApart DEF Copies, RequestCopies, Others
    <3> QED BY <3>11, <3>12, Zenon DEF Copies
  <2>6. Checked'
    BY <1>2, Zenon DEF Checked
  <2>7. Created'
    BY <1>1, <1>2, <1>4, <1>6, <2>1, ActorsApart, Zenon DEF Created, Refreshing, Others
  <2> QED BY <2>5, <2>6, <2>7, Zenon
<1> QED BY <1>5, <1>7, <1>8, Zenon DEF NetworkInvariant

\* The entry of a new device.
LEMMA CreateEntryStep ==
    ASSUME NetworkInvariant, CreateEntry
    PROVE  NetworkInvariant'
<1>1. CASE ~ (proc["admin"].here => proc["admin"].dev \notin InMemory)
  BY <1>1, RequestEnds, Zenon DEF CreateEntry
<1>2. CASE proc["admin"].here => proc["admin"].dev \notin InMemory
  <2>1. /\ NetworkTypes /\ Sequenced /\ proc \in [Actors -> Requests] /\ proc["admin"].pc = "ready"
        /\ mutation_lock = "admin" /\ WithDevice("admin", proc["admin"].config) /\ Step("admin", "store")
        /\ UNCHANGED <<custom, db_nets, net_row, device_rows, init_lock, mutation_lock, offline,
                       table, slips>>
    BY <1>2, Parts, Zenon DEF CreateEntry, Sequenced, DevicePlaced, AdminPlaced, LoadPlaced
  <2>2. PICK d \in Devices : d = proc["admin"].dev
    BY <2>1, Zenon DEF Sequenced, DevicePlaced, AdminPlaced, LoadPlaced
  <2>3. PICK n \in Nets : n = proc["admin"].config
    BY <2>1, Zenon DEF Sequenced, DevicePlaced, AdminPlaced, LoadPlaced
  <2>4. /\ state' \in Listed \cup {Absent} /\ (state' = Absent <=> state = Absent)
        /\ state # Absent => /\ state'.net = state.net
                             /\ \A e \in Devices : ~ (proc["admin"].here /\ e = d)
                                  => state'.devices[e] = state.devices[e]
        /\ proc["admin"].here => state'.devices[d] = n
    BY <2>1, <2>2, <2>3, DevicePut, ActorsApart, Zenon
  <2>5. /\ Others("admin") /\ proc'["admin"].pc = "store" /\ proc'["admin"].dev = d
        /\ proc'["admin"].config = n /\ proc'["admin"].here = proc["admin"].here
    BY <2>1, <2>2, <2>3, Stepped, ActorsApart, Zenon DEF PCs
  <2>6. /\ Stored' = Stored /\ (proc["admin"].here => InMemory' = InMemory \cup {d})
        /\ \A e \in Devices : proc'[e] = proc[e]
    BY <2>1, <2>4, <2>5, ActorsApart DEF InMemory, Stored, Sequenced, DevicePlaced, AdminPlaced, LoadPlaced, Others
  <2>7. NetworkTypes'
    BY <2>1, <2>4, <2>5, Zenon DEF NetworkTypes, Others
  <2>8. Sequenced'
    <3>11. \A e \in Devices : DevicePlaced(e)'
      BY <2>1, <2>4, <2>5, <2>6, Aside, ActorsApart DEF Sequenced, DevicePlaced, Others
    <3>12. AdminPlaced'
      BY <2>1, <2>4, <2>5, <2>6, Aside, ActorsApart, Zenon DEF Sequenced, AdminPlaced, Others
    <3>13. LoadPlaced'
      BY <2>1, <2>4, <2>5, <2>6, Aside, ActorsApart, Zenon DEF Sequenced, LoadPlaced, Fetching, Others
    <3> QED BY <3>11, <3>12, <3>13, Zenon DEF Sequenced
  <2>9. ASSUME slips' = {} PROVE Copies' /\ Checked' /\ Created'
    <3>1. Copies /\ Checked /\ Created
      BY <2>1, <2>9, Parts, Zenon
    <3>2. /\ proc["admin"].here /\ n = db_nets /\ d \notin InMemory /\ state # Absent
          /\ init_lock = Absent /\ db_nets # Absent
      BY <1>2, <2>1, <2>2, <2>3, <3>1, Aside, ActorsApart, Zenon DEF Copies, DataCopies, RequestCopies, Sequenced, DevicePlaced, AdminPlaced, LoadPlaced
    <3>3. \A e \in InMemory' : state'.devices[e] = db_nets
      BY <2>1, <2>4, <2>6, <3>1, <3>2, Aside DEF Copies, DataCopies, RequestCopies
    <3>4. Copies'
      <4>1. \A e \in Devices : proc'[e].pc \in {"save", "pending", "live"} =>
              proc'[e].here /\ proc'[e].net = db_nets /\ e \in InMemory'
        BY <2>6, <3>1, <3>2, Zenon DEF Copies, DataCopies, RequestCopies
      <4>11. DataCopies'
        BY <2>1, <2>4, <2>6, <3>1, <3>3, Zenon DEF Copies, DataCopies
      <4>12. RequestCopies'
        <5>1. /\ db_nets' = db_nets /\ proc'["admin"].pc = "store"
              /\ proc'["admin"].config = db_nets /\ proc'["admin"].here
          BY <2>1, <2>5, <3>2, Zenon
        <5>2. \A a \in Actors :
                /\ proc'[a].pc \in {"fetch", "tunnel", "known"} => proc'[a].config = db_nets
                /\ proc'[a].pc = "ready" => proc'[a].here /\ proc'[a].net = db_nets
          BY <2>5, <3>1, <5>1, Zenon DEF Copies, RequestCopies, Others
        <5> QED BY <3>2, <4>1, <5>1, <5>2, Zenon DEF RequestCopies
      <4> QED BY <4>11, <4>12, Zenon DEF Copies
    <3>5. Checked'
      BY <2>5, <2>6, <3>1, <3>2, Zenon DEF Checked, Copies, DataCopies, RequestCopies
    <3>6. Created'
      BY <2>1, <2>5, <2>6, <3>1, <3>2, ActorsApart, Zenon DEF Created, Refreshing
    <3> QED BY <3>4, <3>5, <3>6, Zenon
  <2> QED BY <2>7, <2>8, <2>9, Zenon DEF NetworkInvariant
<1> QED BY <1>1, <1>2, Zenon

\* The row of a device is not written: its new entry goes again.
LEMMA DeviceNotWrittenStep ==
    ASSUME NetworkInvariant, DeviceNotWritten
    PROVE  NetworkInvariant'
<1>1. CASE proc["admin"].pc = "remove"
  <2>1. ~ proc["admin"].here
    BY <1>1, Parts, Zenon DEF Sequenced, DevicePlaced, AdminPlaced, LoadPlaced
  <2>2. state' = state
    BY <2>1, Zenon DEF DeviceNotWritten, WithDevice
  <2> QED BY <1>1, <2>2, RequestEnds, Zenon DEF DeviceNotWritten
<1>2. CASE proc["admin"].pc = "store"
  <2>1. /\ NetworkTypes /\ Sequenced /\ proc \in [Actors -> Requests] /\ mutation_lock = "admin"
        /\ WithDevice("admin", Absent) /\ Rest("admin") /\ mutation_lock' = Absent
        /\ UNCHANGED <<custom, db_nets, net_row, device_rows, init_lock, offline, table, slips>>
    BY <1>2, Parts, Zenon DEF DeviceNotWritten, Sequenced, DevicePlaced, AdminPlaced, LoadPlaced, Unlock
  <2>2. PICK d \in Devices : d = proc["admin"].dev
    BY <1>2, <2>1, Zenon DEF Sequenced, DevicePlaced, AdminPlaced, LoadPlaced
  <2>3. /\ state' \in Listed \cup {Absent} /\ (state' = Absent <=> state = Absent)
        /\ state # Absent => /\ state'.net = state.net
                             /\ \A e \in Devices : ~ (proc["admin"].here /\ e = d)
                                  => state'.devices[e] = state.devices[e]
        /\ proc["admin"].here => state'.devices[d] = Absent
    BY <2>1, <2>2, DevicePut, ActorsApart, Zenon
  <2>4. Others("admin") /\ proc'["admin"] = Resting
    BY <2>1, Rested, ActorsApart, Zenon
  <2>5. /\ Stored' = Stored /\ (proc["admin"].here => InMemory' = InMemory \ {d})
        /\ \A e \in Devices : proc'[e] = proc[e]
    BY <2>1, <2>3, <2>4, ActorsApart DEF InMemory, Stored, Sequenced, DevicePlaced, AdminPlaced, LoadPlaced, Others
  <2>6. NetworkTypes'
    BY <2>1, <2>3, <2>4, Zenon DEF NetworkTypes, Others
  <2>7. Sequenced'
    <3>1. init_lock # Absent => init_lock.by \in Actors /\ init_lock.by # "admin"
      BY <1>2, <2>1, Aside, Zenon
    <3>11. \A e \in Devices : DevicePlaced(e)'
      BY <2>1, <2>3, <2>4, <2>5, <3>1, ActorsApart, RestingIs DEF Sequenced, DevicePlaced, Others
    <3>12. AdminPlaced'
      BY <2>1, <2>3, <2>4, <2>5, <3>1, ActorsApart, RestingIs, Zenon DEF Sequenced, AdminPlaced, Others
    <3>13. LoadPlaced'
      BY <2>1, <2>3, <2>4, <2>5, <3>1, ActorsApart, RestingIs, Zenon DEF Sequenced, LoadPlaced, Fetching, Others
    <3> QED BY <3>11, <3>12, <3>13, Zenon DEF Sequenced
  <2>8. ASSUME slips' = {} PROVE Copies' /\ Checked' /\ Created'
    <3>1. Copies /\ Checked /\ Created
      BY <2>1, <2>8, Parts, Zenon
    <3>2. /\ proc["admin"].here /\ state # Absent /\ init_lock = Absent /\ db_nets # Absent
          /\ proc[d].pc \notin {"save", "pending", "live"}
      BY <1>2, <2>1, <2>2, <3>1, Aside, ActorsApart, Zenon DEF Copies, DataCopies, RequestCopies, Checked, Sequenced, DevicePlaced, AdminPlaced, LoadPlaced
    <3>3. \A e \in InMemory' : state'.devices[e] = db_nets
      BY <2>1, <2>3, <2>5, <3>1, <3>2, Aside, Zenon DEF Copies, DataCopies, RequestCopies
    <3>4. Copies'
      <4>1. \A e \in Devices : proc'[e].pc \in {"save", "pending", "live"} =>
              proc'[e].here /\ proc'[e].net = db_nets /\ e \in InMemory'
        BY <2>5, <3>1, <3>2, Zenon DEF Copies, DataCopies, RequestCopies
      <4>11. DataCopies'
        BY <2>1, <2>3, <2>5, <3>1, <3>3, Zenon DEF Copies, DataCopies
      <4>12. RequestCopies'
        BY <2>1, <2>3, <2>4, <2>5, <3>1, <3>2, <3>3, <4>1, ActorsApart, RestingIs DEF Copies, RequestCopies, Others
      <4> QED BY <4>11, <4>12, Zenon DEF Copies
    <3>5. Checked'
      BY <2>4, RestingIs, Zenon DEF Checked
    <3>6. Created'
      BY <1>2, <2>1, <2>2, <2>4, <2>5, <3>1, <3>2, RestingIs, Zenon DEF Created, Refreshing
    <3> QED BY <3>4, <3>5, <3>6, Zenon
  <2> QED BY <2>6, <2>7, <2>8, Zenon DEF NetworkInvariant
<1> QED BY <1>1, <1>2, Zenon DEF DeviceNotWritten

\* The row of a device is written, or deleted.
LEMMA WrittenStep ==
    ASSUME NetworkInvariant, Written
    PROVE  NetworkInvariant'
<1>1. /\ NetworkTypes /\ Sequenced /\ proc \in [Actors -> Requests] /\ mutation_lock = "admin"
      /\ device_rows \in [Devices -> Nets \cup {Absent}]
      /\ proc["admin"].pc \in {"store", "remove"} /\ Step("admin", "refresh")
      /\ UNCHANGED <<custom, db_nets, net_row, state, init_lock, mutation_lock, offline, table, slips>>
  BY Parts, Zenon DEF Written, Sequenced, DevicePlaced, AdminPlaced, LoadPlaced
<1>2. PICK d \in Devices : d = proc["admin"].dev
  BY <1>1, Zenon DEF Sequenced, DevicePlaced, AdminPlaced, LoadPlaced
<1>3. PICK v \in Nets \cup {Absent} : v = proc["admin"].config
  BY <1>1, ActorsApart, Zenon DEF Requests
<1>4. /\ Others("admin") /\ proc'["admin"].pc = "refresh" /\ proc'["admin"].dev = d
      /\ proc'["admin"].here = proc["admin"].here
      /\ \A e \in Devices : proc'[e] = proc[e]
  <2>1. /\ Others("admin") /\ proc'["admin"].pc = "refresh" /\ proc'["admin"].dev = proc["admin"].dev
        /\ proc'["admin"].here = proc["admin"].here
    BY <1>1, Stepped, ActorsApart, Zenon DEF PCs
  <2> QED BY <1>2, <2>1, ActorsApart, Zenon DEF Others
<1>5. /\ device_rows' \in [Devices -> Nets \cup {Absent}] /\ device_rows'[d] = v
      /\ \A e \in Devices : e # d => device_rows'[e] = device_rows[e]
      /\ InMemory' = InMemory
  BY <1>1, <1>2, <1>3, Zenon DEF Written, InMemory
<1>6. NetworkTypes'
  BY <1>1, <1>4, <1>5, Zenon DEF NetworkTypes, Others
<1>7. init_lock # Absent => init_lock.by \in Actors /\ init_lock.by # "admin"
  BY <1>1, Aside, Zenon
<1>8. Sequenced'
  <2>11. \A e \in Devices : DevicePlaced(e)'
    BY <1>1, <1>4, Zenon DEF Sequenced, DevicePlaced
  <2>12. AdminPlaced'
    BY <1>1, <1>4, <1>7, ActorsApart, Zenon DEF Sequenced, AdminPlaced, Others
  <2>13. LoadPlaced'
    BY <1>1, <1>4, <1>7, ActorsApart, Zenon DEF Sequenced, LoadPlaced, Fetching, Others
  <2> QED BY <2>11, <2>12, <2>13, Zenon DEF Sequenced
<1>9. ASSUME slips' = {} PROVE Copies' /\ Checked' /\ Created'
  <2>1. Copies /\ Checked /\ Created
    BY <1>1, <1>9, Parts, Zenon
  <2>2. db_nets # Absent /\ v \in {Absent, db_nets}
    BY <1>1, <1>3, <2>1, ActorsApart, Zenon DEF Copies, DataCopies, RequestCopies, Sequenced, DevicePlaced, AdminPlaced, LoadPlaced
  <2>3. Copies'
    <3>1. \A e \in Stored' : device_rows'[e] = db_nets
      BY <1>5, <2>1, <2>2, Zenon DEF Copies, DataCopies, RequestCopies, Stored
    <3>11. DataCopies'
      BY <1>1, <1>4, <1>5, <2>1, <2>2, <3>1, ActorsApart, Zenon DEF Copies, DataCopies
    <3>12. RequestCopies'
      BY <1>1, <1>4, <1>5, <2>1, <2>2, <3>1, ActorsApart DEF Copies, RequestCopies, Others
    <3> QED BY <3>11, <3>12, Zenon DEF Copies
  <2>4. Checked'
    BY <1>4, Zenon DEF Checked
  <2>5. \A e \in Devices : e # d => (e \in Stored' <=> e \in Stored)
    BY <1>5, Zenon DEF Stored
  <2>6. ~ \E t \in Tunnels : Refreshing(t)
    BY <1>1, Zenon DEF Refreshing
  <2>7. Refreshing(d)'
    BY <1>4, Zenon DEF Refreshing
  <2>8. \A t \in InMemory \cap Tunnels :
          \/ t \in Stored'
          \/ Refreshing(t)' /\ \E u \in Tunnels : proc'[u].pc = "known"
    <3>1. CASE proc["admin"].pc = "store"
      <4>1. d \in Stored'
        BY <1>1, <1>3, <1>5, <2>1, <2>2, <3>1 DEF Copies, DataCopies, RequestCopies, Stored
      <4> QED BY <1>2, <2>1, <2>5, <2>6, <3>1, <4>1, ActorsApart, Zenon DEF Created
    <3>2. CASE proc["admin"].pc = "remove"
      <4>1. d \in InMemory \cap Tunnels => \E u \in Tunnels : proc'[u].pc = "known"
        BY <1>2, <1>4, <2>1, <3>2, ActorsApart, Zenon DEF Created
      <4> QED BY <2>1, <2>5, <2>6, <2>7, <3>2, <4>1, ActorsApart, Zenon DEF Created
    <3> QED BY <1>1, <3>1, <3>2, Zenon
  <2>9. Created'
    <3>1. table \subseteq Tunnels
      BY <1>1, Zenon DEF NetworkTypes
    <3> QED BY <1>1, <1>4, <1>5, <1>7, <2>1, <2>5, <2>6, <2>7, <2>8, <3>1, ActorsApart, Zenon DEF Created, Others
  <2> QED BY <2>3, <2>4, <2>9, Zenon
<1> QED BY <1>6, <1>8, <1>9, Zenon DEF NetworkInvariant

\* The engines learn which devices there are.
LEMMA RefreshedStep ==
    ASSUME NetworkInvariant, Refreshed
    PROVE  NetworkInvariant'
<1>1. /\ NetworkTypes /\ Sequenced /\ proc \in [Actors -> Requests] /\ mutation_lock = "admin"
      /\ mutation_lock' = Absent /\ proc["admin"].pc = "refresh" /\ Rest("admin")
      /\ UNCHANGED <<custom, db_nets, net_row, device_rows, state, init_lock, offline, slips>>
  BY Parts, Zenon DEF Refreshed, Sequenced, DevicePlaced, AdminPlaced, LoadPlaced, Unlock
<1>2. Others("admin") /\ proc'["admin"] = Resting
  BY <1>1, Rested, ActorsApart, Zenon
<1>3. InMemory' = InMemory /\ Stored' = Stored /\ \A e \in Devices : proc'[e] = proc[e]
  BY <1>1, <1>2, ActorsApart, Zenon DEF InMemory, Stored, Others
<1>4. init_lock # Absent => init_lock.by \in Devices /\ proc[init_lock.by].pc = "tunnel"
  BY <1>1, Aside, ActorsApart, Zenon DEF Sequenced, DevicePlaced, AdminPlaced, LoadPlaced
<1>5. /\ table' \subseteq Tunnels
      /\ \/ table' = table /\ proc["admin"].dev \notin Tunnels
         \/ /\ table' = Tunnels \cap (Stored \cup InMemory)
            /\ \A t \in Tunnels : proc[t].pc \in {"rest", "live"}
  BY <1>1, Zenon DEF Refreshed, EngineBusy, NetworkTypes
<1>6. NetworkTypes'
  BY <1>1, <1>2, <1>5, Zenon DEF NetworkTypes, Others
<1>7. Sequenced'
  <2>11. \A e \in Devices : DevicePlaced(e)'
    BY <1>1, <1>2, <1>3, <1>4, <1>5, ActorsApart, RestingIs DEF Sequenced, DevicePlaced, Others
  <2>12. AdminPlaced'
    BY <1>1, <1>2, <1>3, <1>4, <1>5, ActorsApart, RestingIs, Zenon DEF Sequenced, AdminPlaced, Others
  <2>13. LoadPlaced'
    BY <1>1, <1>2, <1>3, <1>4, <1>5, ActorsApart, RestingIs, Zenon DEF Sequenced, LoadPlaced, Fetching, Others
  <2> QED BY <2>11, <2>12, <2>13, Zenon DEF Sequenced
<1>8. ASSUME slips' = {} PROVE Copies' /\ Checked' /\ Created'
  <2>1. Copies /\ Checked /\ Created
    BY <1>1, <1>8, Parts, Zenon
  <2>2. Copies'
    <3>11. DataCopies'
      BY <1>1, <1>2, <1>3, <2>1, ActorsApart, RestingIs, Zenon DEF Copies, DataCopies
    <3>12. RequestCopies'
      BY <1>1, <1>2, <1>3, <2>1, ActorsApart, RestingIs DEF Copies, RequestCopies, Others
    <3> QED BY <3>11, <3>12, Zenon DEF Copies
  <2>3. Checked'
    BY <1>2, RestingIs, Zenon DEF Checked
  <2>4. \A t \in InMemory \cap Tunnels : t \in Stored
    BY <1>1, <1>5, <2>1, Zenon DEF Created, Refreshing
  <2>5. \A t \in table' : t \in Stored
    BY <1>1, <1>5, <2>1, <2>4, Zenon DEF Created, Refreshing
  <2>6. init_lock # Absent => table' = table /\ proc["admin"].dev \notin Tunnels
    BY <1>1, <1>4, <1>5, Zenon DEF Sequenced, DevicePlaced
  <2>7. Created'
    BY <1>1, <1>2, <1>3, <1>4, <2>1, <2>4, <2>5, <2>6, RestingIs, Zenon DEF Created, Refreshing
  <2> QED BY <2>2, <2>3, <2>7, Zenon
<1> QED BY <1>6, <1>7, <1>8, Zenon DEF NetworkInvariant

-----------------------------------------------------------------------------
(* The theorems.                                                            *)

\* A network that is about to be stored is one.
Spawned == spawned \subseteq Nets \cup {Absent}

\* The writes under way are of networks.
LEMMA SpawnedStep ==
    ASSUME NetworkInvariant, Spawned, [NetworksNext]_networkVars
    PROVE  Spawned'
<1>1. \A d \in Devices : proc[d].config \in Nets \cup {Absent}
  BY Parts, ActorsApart, Zenon DEF Requests
<1>2. CASE \E d \in Devices : RegisterStep(d)
  BY <1>1, <1>2, Zenon DEF RegisterStep, TunnelBegins, RegisterLocked, Allocate, Refused, Saved, SaveFails,
     confirm_registration, EndSession, Spawned
<1>3. CASE AdminStep
  BY <1>3, Zenon DEF AdminStep, add_network, update_network, delete_network, NetworkWritten, NetworkRefused,
     NetworkApplied, create_device, delete_device, CreateEntry, DeviceNotWritten, Written, Refreshed, Spawned
<1>4. CASE UNCHANGED networkVars
  BY <1>4, Zenon DEF networkVars, Spawned
<1> QED BY <1>2, <1>3, <1>4, Zenon DEF NetworksNext, Found, BeginLoad, EndLoad, OfflineSaved, OfflineLost,
     NetworkSaved, HourPasses, ReleaseBegins, release_network, Restart, Spawned

\* The invariant holds at the start, ...
LEMMA NetworkStarts == NetworksInit => NetworkInvariant /\ Spawned
<1> SUFFICES ASSUME NetworksInit PROVE NetworkInvariant /\ Spawned
  BY Zenon
<1>1. proc \in [Actors -> Requests] /\ \A a \in Actors : proc[a] = Resting
  BY RestingIs, Zenon DEF NetworksInit
<1>2. device_rows \in [Devices -> Nets \cup {Absent}] /\ Stored = {} /\ InMemory = {}
  BY Zenon DEF NetworksInit, Nothing, Stored, InMemory
<1>3. NetworkTypes
  BY <1>1, <1>2, NetworksAssumption, Zenon DEF NetworksInit, NetworkTypes
<1>4. Sequenced
  BY ActorsApart, RestingIs, Zenon DEF NetworksInit, Sequenced, DevicePlaced, AdminPlaced,
    LoadPlaced
<1>5. Copies /\ Checked /\ Created
  BY <1>1, <1>2, ActorsApart, RestingIs, Zenon DEF NetworksInit, Copies, DataCopies, RequestCopies, Checked, Created
<1> QED BY <1>3, <1>4, <1>5, Zenon DEF NetworkInvariant, Spawned, NetworksInit

\* ... and every step keeps it.
LEMMA NetworkStep ==
    ASSUME NetworkInvariant, Spawned, [NetworksNext]_networkVars
    PROVE  NetworkInvariant'
<1>1. ASSUME NEW d \in Devices, RegisterStep(d) PROVE NetworkInvariant'
  BY <1>1, TunnelBeginsStep, RegisterLockedStep, AllocateStep, RefusedStep, SavedStep, SaveFailsStep,
     ConfirmStep, EndSessionStep, Zenon DEF RegisterStep
<1>2. CASE AdminStep
  BY <1>2, AddNetworkStep, UpdateNetworkStep, DeleteNetworkStep, NetworkWrittenStep, NetworkRefusedStep,
     NetworkAppliedStep, CreateDeviceStep, DeleteDeviceStep, CreateEntryStep, DeviceNotWrittenStep,
     WrittenStep, RefreshedStep, Zenon DEF AdminStep
<1>3. CASE UNCHANGED networkVars
  <2>1. net_row \in Nets \cup {Absent}
    BY Zenon DEF NetworkInvariant, NetworkTypes
  <2> QED BY <1>3, <2>1, Unmoved, Zenon DEF networkVars
<1>4. ASSUME NEW a \in Actors, Found(a) \/ BeginLoad(a) PROVE NetworkInvariant'
  BY <1>4, FoundStep, BeginLoadStep, Zenon
<1>5. ASSUME NEW w \in offline, OfflineSaved(w) \/ OfflineLost(w) PROVE NetworkInvariant'
  BY <1>5, OfflineSavedStep, OfflineLostStep, Zenon
<1>6. ASSUME NEW n \in spawned, NetworkSaved(n) PROVE NetworkInvariant'
  BY <1>6, NetworkSavedStep, Zenon DEF Spawned
<1> QED BY <1>1, <1>2, <1>3, <1>4, <1>5, <1>6, EndLoadStep, HourPassesStep, ReleaseBeginsStep,
     ReleaseStep, RestartStep, Zenon DEF NetworksNext

\* The invariant of a network code holds for every number of devices and of networks:
\* registrations inside and outside of the lock, loads, edits, releases, late writes and
\* restarts in any order keep it.
THEOREM NetworkInvariantHolds == NetworksSpec => []NetworkInvariant
<1>1. NetworkInvariant /\ Spawned /\ [NetworksNext]_networkVars => NetworkInvariant' /\ Spawned'
  BY NetworkStep, SpawnedStep, Zenon
<1> QED BY <1>1, NetworkStarts, PTL DEF NetworksSpec

\* The listed state is that of the present configuration.
THEOREM StateCurrentAlways == NetworksSpec => []StateCurrent
<1>1. NetworkInvariant => StateCurrent
  BY Zenon DEF NetworkInvariant, Copies, DataCopies, RequestCopies, StateCurrent
<1> QED BY <1>1, NetworkInvariantHolds, PTL

\* Edits and releases leave no session on a state that is not listed.
THEOREM SessionsListedAlways == NetworksSpec => []SessionsListed
<1>1. NetworkInvariant => SessionsListed
  BY Zenon DEF NetworkInvariant, Copies, DataCopies, RequestCopies, SessionsListed
<1> QED BY <1>1, NetworkInvariantHolds, PTL

\* Every address, stored or in memory, belongs to the configured network.
THEOREM AddressesFitAlways == NetworksSpec => []AddressesFit
<1>1. NetworkInvariant => AddressesFit
  BY Zenon DEF NetworkInvariant, Copies, DataCopies, RequestCopies, AddressesFit
<1> QED BY <1>1, NetworkInvariantHolds, PTL

-----------------------------------------------------------------------------
(* The configuration channel of managed devices.                            *)

\* Status and monotony rest on two facts: a connection enters the session entry once, before it
\* can carry acknowledgements; and every success on its way to the entry, in a queue or inside
\* acknowledge_subscription_config, is already applied.

\* The device is used by one client run at a time, as its subscription intends.
OneRun == \A i, j \in Instances : i = j

\* A connection that has not registered is not the session's.
EnteredOnce ==
    \A c \in Conns : conn[c].pc \in {"new", "read", "checked"} => ~ Linked(c)
Identified == \A c \in Conns : conn[c].pc # "new" => conn[c].instance \in Instances

\* Everything reported as applied is.
Reported(r) == \A i \in Instances : r <= applied[i]
SuccessesApplied ==
    /\ \A c \in Conns : conn[c].pc # "new" => Reported(conn[c].applied)
    /\ \A c \in Conns : \A k \in 1 .. Len(acks[c]) : acks[c][k].ok => Reported(acks[c][k].revision)
    /\ acking # None /\ acking.ack.ok => Reported(acking.ack.revision)
    /\ entry # None => Reported(entry.applied)

SessionInvariant == SubscriptionTypeOK /\ EnteredOnce /\ Identified

-----------------------------------------------------------------------------
(* The session entry.                                                       *)

\* The server starts without sessions.
LEMMA SessionInit == SubscriptionInit => SessionInvariant
<1> SUFFICES ASSUME SubscriptionInit PROVE SessionInvariant
  BY Zenon
<1> USE SubscriptionAssumption
<1>1. revision \in Revisions /\ broken \in BOOLEAN /\ removing \in BOOLEAN
  BY Zenon DEF SubscriptionInit, Revisions
<1>2. 0 \in Revisions /\ 0 \in 0 .. MaxEdits
  BY DEF Revisions
<1>3. conn \in [Conns -> Connection]
  <2>1. [pc |-> "new", instance |-> None, revision |-> 0, applied |-> 0, broken |-> FALSE]
          \in Connection
    BY <1>2, Zenon DEF Connection
  <2> QED BY <2>1, Zenon DEF SubscriptionInit
<1>4. queue \in [Conns -> Seq(Message)] /\ acks \in [Conns -> Seq(Ack)]
        /\ \A c \in Conns : Len(queue[c]) <= OutboundCap
  BY DEF SubscriptionInit
<1>5. SubscriptionTypeOK
  BY <1>1, <1>2, <1>3, <1>4, Zenon DEF SubscriptionInit, SubscriptionTypeOK, Writer
<1> QED BY <1>5, Zenon DEF SessionInvariant, EnteredOnce, Identified, SubscriptionInit, Linked

\* The steps of one connection keep the entry's facts.
LEMMA ConnectionSteps ==
    ASSUME SessionInvariant, NEW c \in Conns,
           \/ \E i \in Instances : ReadRecord(c, i)
           \/ Register(c) \/ CloseConnection(c)
    PROVE  SessionInvariant'
<1>1. SubscriptionTypeOK /\ EnteredOnce /\ Identified
        /\ conn \in [Conns -> Connection] /\ conn[c] \in Connection
  BY Zenon DEF SessionInvariant, SubscriptionTypeOK
<1>2. ASSUME NEW i \in Instances, ReadRecord(c, i) PROVE SessionInvariant'
  <2>1. [pc |-> "read", instance |-> i, revision |-> revision,
         applied |-> applied[i], broken |-> broken] \in Connection
    BY <1>1, Zenon DEF SubscriptionTypeOK, Connection
  <2>2. SubscriptionTypeOK'
    BY <1>1, <1>2, <2>1, Zenon DEF SubscriptionTypeOK, ReadRecord
  <2>3. EnteredOnce' /\ Identified'
    BY <1>1, <1>2, Zenon DEF EnteredOnce, Identified, ReadRecord, Linked
  <2> QED BY <2>2, <2>3, Zenon DEF SessionInvariant
<1>3. CASE CheckInstance(c)
  <2>1. SubscriptionTypeOK'
    BY <1>1, <1>3, Zenon DEF SubscriptionTypeOK, CheckInstance, Connection
  <2>2. EnteredOnce' /\ Identified'
    BY <1>1, <1>3 DEF EnteredOnce, Identified, CheckInstance, Linked
  <2> QED BY <2>1, <2>2, Zenon DEF SessionInvariant
<1>4. CASE InsertEntry(c)
  <2>1. entry' \in Entry
    BY SubscriptionAssumption, <1>1, <1>4 DEF InsertEntry, Entry, Connection, Identified,
      Revisions
  <2>2. SubscriptionTypeOK'
    BY <1>1, <1>4, <2>1, Zenon DEF SubscriptionTypeOK, InsertEntry, Connection
  <2>3. EnteredOnce' /\ Identified'
    BY <1>1, <1>4, Zenon DEF EnteredOnce, Identified, InsertEntry, Linked, Connection
  <2> QED BY <2>2, <2>3, Zenon DEF SessionInvariant
<1>5. CASE SendReply(c)
  <2>1. [kind |-> "reply", revision |-> conn[c].revision] \in Message
    BY <1>1, Zenon DEF Connection, Message
  <2>2. queue' \in [Conns -> Seq(Message)] /\ \A d \in Conns : Len(queue'[d]) <= OutboundCap
    BY SubscriptionAssumption, <1>1, <1>5, <2>1 DEF SubscriptionTypeOK, SendReply, HasRoom
  <2>3. SubscriptionTypeOK'
    BY <1>1, <1>5, <2>2, Zenon DEF SubscriptionTypeOK, SendReply, Connection
  <2>4. EnteredOnce' /\ Identified'
    BY <1>1, <1>5, Zenon DEF EnteredOnce, Identified, SendReply, Linked, Connection
  <2> QED BY <2>3, <2>4, Zenon DEF SessionInvariant
<1>6. CASE CloseConnection(c)
  <2>1. SubscriptionTypeOK'
    BY <1>1, <1>6, Zenon DEF SubscriptionTypeOK, CloseConnection, DropSession, Connection
  <2>2. EnteredOnce' /\ Identified'
    BY <1>1, <1>6, Zenon DEF EnteredOnce, Identified, CloseConnection, DropSession, Linked, Connection
  <2> QED BY <2>1, <2>2, Zenon DEF SessionInvariant
<1> QED BY <1>2, <1>3, <1>4, <1>5, <1>6, Zenon DEF Register

\* A client that applies a revision; an acknowledgement that begins.
LEMMA ClientSteps ==
    ASSUME SessionInvariant, NEW c \in Conns, ClientReceive(c) \/ BeginAck(c)
    PROVE  SessionInvariant'
<1>1. SubscriptionTypeOK /\ EnteredOnce /\ Identified
        /\ conn \in [Conns -> Connection] /\ conn[c] \in Connection
        /\ conn[c].pc = "live" /\ conn[c].instance \in Instances
  BY Zenon DEF SessionInvariant, SubscriptionTypeOK, ClientReceive, BeginAck, Identified
<1>2. CASE ClientReceive(c)
  <2>1. Head(queue[c]) \in Message /\ Tail(queue[c]) \in Seq(Message)
          /\ Len(Tail(queue[c])) <= OutboundCap
    BY SubscriptionAssumption, <1>1, <1>2 DEF SubscriptionTypeOK, ClientReceive
  <2>2. Head(queue[c]).revision \in Revisions
    BY <2>1, Zenon DEF Message
  <2>3. \A ok \in BOOLEAN : [ok |-> ok, revision |-> Head(queue[c]).revision] \in Ack
    BY <2>2, Zenon DEF Ack
  <2>4. acks' \in [Conns -> Seq(Ack)] /\ applied' \in [Instances -> Revisions]
    <3>1. CASE Head(queue[c]).revision <= applied[conn[c].instance]
      BY <1>1, <1>2, <3>1, Zenon DEF SubscriptionTypeOK, ClientReceive
    <3>2. CASE ~ (Head(queue[c]).revision <= applied[conn[c].instance])
      <4>1. PICK ok \in BOOLEAN :
              /\ applied' = IF ok THEN [applied EXCEPT ![conn[c].instance] = Head(queue[c]).revision]
                            ELSE applied
              /\ acks' = [acks EXCEPT ![c] =
                            Append(@, [ok |-> ok, revision |-> Head(queue[c]).revision])]
        BY <1>2, <3>2, Zenon DEF ClientReceive
      <4>2. Append(acks[c], [ok |-> ok, revision |-> Head(queue[c]).revision]) \in Seq(Ack)
        <5>1. acks[c] \in Seq(Ack)
          BY <1>1, Zenon DEF SubscriptionTypeOK
        <5> DEFINE a == [ok |-> ok, revision |-> Head(queue[c]).revision]
        <5>2. a \in Ack
          BY <2>3, Zenon
        <5> HIDE DEF a
        <5> QED BY <5>1, <5>2 DEF a
      <4>3. acks' \in [Conns -> Seq(Ack)]
        BY <1>1, <4>1, <4>2, Zenon DEF SubscriptionTypeOK
      <4>4. applied' \in [Instances -> Revisions]
        BY <1>1, <2>2, <4>1, Zenon DEF SubscriptionTypeOK
      <4> QED BY <4>3, <4>4, Zenon
    <3> QED BY <3>1, <3>2, Zenon
  <2>5. queue' \in [Conns -> Seq(Message)] /\ \A d \in Conns : Len(queue'[d]) <= OutboundCap
    BY <1>1, <1>2, <2>1, Zenon DEF SubscriptionTypeOK, ClientReceive
  <2>6. SubscriptionTypeOK' /\ EnteredOnce' /\ Identified'
    BY <1>1, <1>2, <2>4, <2>5, Zenon DEF SubscriptionTypeOK, ClientReceive, EnteredOnce, Identified, Linked
  <2> QED BY <2>6, Zenon DEF SessionInvariant
<1>3. CASE BeginAck(c)
  <2>1. Head(acks[c]) \in Ack /\ Tail(acks[c]) \in Seq(Ack)
    BY <1>1, <1>3 DEF SubscriptionTypeOK, BeginAck
  <2>2. acks' \in [Conns -> Seq(Ack)]
    BY <1>1, <1>3, <2>1, Zenon DEF SubscriptionTypeOK, BeginAck
  <2>3. conn' \in [Conns -> Connection] /\ entry' \in Entry \cup {None}
          /\ acking' \in [conn : Conns, ack : Ack, target : Revisions] \cup {None}
    <3>1. CASE Linked(c) /\ revision # 0 /\ Head(acks[c]).revision <= revision
      <4>1. acking' = [conn |-> c, ack |-> Head(acks[c]), target |-> revision]
              /\ conn' = conn /\ entry' = entry
        BY <1>3, <3>1, Zenon DEF BeginAck
      <4> QED BY <1>1, <2>1, <4>1, Zenon DEF SubscriptionTypeOK
    <3>2. CASE ~ (Linked(c) /\ revision # 0 /\ Head(acks[c]).revision <= revision)
      <4>1. conn' = [conn EXCEPT ![c].pc = "closed"] /\ DropSession(c) /\ acking' = acking
        BY <1>3, <3>2, Zenon DEF BeginAck
      <4>2. conn' \in [Conns -> Connection]
        BY <1>1, <4>1, Zenon DEF Connection
      <4> QED BY <1>1, <4>1, <4>2, Zenon DEF SubscriptionTypeOK, DropSession
    <3> QED BY <3>1, <3>2, Zenon
  <2>4. SubscriptionTypeOK'
    BY <1>1, <1>3, <2>2, <2>3, Zenon DEF SubscriptionTypeOK, BeginAck
  <2>5. EnteredOnce' /\ Identified'
    BY <1>1, <1>3 DEF BeginAck, DropSession, EnteredOnce, Identified, Linked, Connection
  <2> QED BY <2>4, <2>5, Zenon DEF SessionInvariant
<1> QED BY <1>2, <1>3, Zenon

\* An acknowledgement changes neither the connection nor the type of the entry.
LEMMA AcknowledgedTyped ==
    ASSUME NEW a \in Ack, entry \in Entry
    PROVE  Acknowledged(a) \in Entry /\ Acknowledged(a).conn = entry.conn
<1>1. 0 \in Revisions /\ a.revision \in Revisions
  BY SubscriptionAssumption DEF Revisions, Ack
<1>2. [entry EXCEPT !.applied = a.revision, !.error = 0] \in Entry
        /\ [entry EXCEPT !.applied = a.revision, !.error = 0].conn = entry.conn
  BY <1>1, Zenon DEF Entry
<1>3. [entry EXCEPT !.error = a.revision] \in Entry
        /\ [entry EXCEPT !.error = a.revision].conn = entry.conn
  BY <1>1, Zenon DEF Entry
<1> QED BY <1>2, <1>3, Zenon DEF Acknowledged

\* The acknowledgement that ends, and the requests of administrators.
LEMMA OtherSteps ==
    ASSUME SessionInvariant,
           \/ FinishAck \/ CreateConfig \/ RepairRow
           \/ \E w \in Writers : CommitRevision(w) \/ Write(w)
           \/ RemoveOrReissue \/ Disconnect
    PROVE  SessionInvariant'
<1>1. SubscriptionTypeOK /\ EnteredOnce /\ Identified
  BY Zenon DEF SessionInvariant
<1> USE SubscriptionAssumption
<1>2. CASE FinishAck
  <2>1. acking.ack \in Ack /\ acking.ack.revision \in Revisions
    BY <1>1, <1>2, SMT, Zenon DEF SubscriptionTypeOK, FinishAck, Ack
  <2>2. entry # None => Acknowledged(acking.ack) \in Entry /\ Acknowledged(acking.ack).conn = entry.conn
    BY <1>1, <2>1, AcknowledgedTyped, Zenon DEF SubscriptionTypeOK
  <2>3. /\ entry' \in Entry \cup {None}
        /\ entry' # None => entry # None /\ entry'.conn = entry.conn
    BY NoneApart, <1>1, <1>2, <2>2, Zenon DEF SubscriptionTypeOK, FinishAck
  <2>4. SubscriptionTypeOK'
    BY <1>1, <1>2, <2>3, Zenon DEF SubscriptionTypeOK, FinishAck
  <2>5. EnteredOnce' /\ Identified'
    BY <1>1, <1>2, <2>3, Zenon DEF EnteredOnce, Identified, Linked, FinishAck
  <2> QED BY <2>4, <2>5, Zenon DEF SessionInvariant
<1>3. CASE CreateConfig
  <2>2. revision' \in Revisions /\ edits' \in 0 .. MaxEdits
    BY <1>1, <1>3 DEF SubscriptionTypeOK, CreateConfig, Revisions
  <2>1. SubscriptionTypeOK'
    BY <1>1, <1>3, <2>2, Zenon DEF SubscriptionTypeOK, CreateConfig
  <2> QED BY <1>1, <1>3, <2>1, Zenon DEF SessionInvariant, EnteredOnce, Identified, Linked, CreateConfig
<1>4. CASE RepairRow
  BY <1>1, <1>4, Zenon DEF SessionInvariant, SubscriptionTypeOK, EnteredOnce, Identified, Linked, RepairRow
<1>5. ASSUME NEW w \in Writers, CommitRevision(w) PROVE SessionInvariant'
  <2>1. revision' \in Revisions /\ edits' \in 0 .. MaxEdits
    BY <1>1, <1>5 DEF SubscriptionTypeOK, CommitRevision, Revisions
  <2>2. SubscriptionTypeOK'
    BY <1>1, <1>5, <2>1, Zenon DEF SubscriptionTypeOK, CommitRevision, Writer
  <2> QED BY <1>1, <1>5, <2>2, Zenon DEF SessionInvariant, EnteredOnce, Identified, Linked, CommitRevision
<1>6. ASSUME NEW w \in Writers, RereadRecord(w) \/ PickTarget(w) PROVE SessionInvariant'
  <2>1. entry # None => entry.conn \in Conns
    BY <1>1, Zenon DEF SubscriptionTypeOK, Entry
  <2>2. writer' \in [Writers -> Writer]
    <3>1. CASE RereadRecord(w)
      <4>1. writer[w] \in Writer /\ revision \in Revisions /\ writer \in [Writers -> Writer]
        BY <1>1, Zenon DEF SubscriptionTypeOK
      <4>2. ASSUME NEW pc \in {"idle", "push"}
            PROVE  [writer[w] EXCEPT !.pc = pc, !.revision = revision] \in Writer
        BY <4>1, Zenon DEF Writer
      <4>3. writer' = [writer EXCEPT ![w] = [writer[w] EXCEPT
              !.pc = IF revision = 0 THEN "idle" ELSE "push", !.revision = revision]]
        BY <3>1, <4>1, Zenon DEF RereadRecord
      <4> QED BY <4>1, <4>2, <4>3, Zenon
    <3>2. CASE PickTarget(w) /\ entry = None
      BY <1>1, <3>2, Zenon DEF SubscriptionTypeOK, PickTarget, Writer
    <3>3. CASE PickTarget(w) /\ entry # None
      BY <1>1, <2>1, <3>3, Zenon DEF SubscriptionTypeOK, PickTarget, Writer
    <3> QED BY <1>6, <3>1, <3>2, <3>3, Zenon
  <2>3. SubscriptionTypeOK'
    BY <1>1, <1>6, <2>2, Zenon DEF SubscriptionTypeOK, RereadRecord, PickTarget
  <2> QED BY <1>1, <1>6, <2>3, Zenon
        DEF SessionInvariant, EnteredOnce, Identified, Linked, RereadRecord, PickTarget
<1>7. ASSUME NEW w \in Writers, Deliver(w) PROVE SessionInvariant'
  <2>1. [kind |-> "push", revision |-> writer[w].revision] \in Message
    BY <1>1, Zenon DEF SubscriptionTypeOK, Message, Writer
  <2> DEFINE c == writer[w].conn
             longer == Append(queue[c], [kind |-> "push", revision |-> writer[w].revision])
  <2>2. c \in Conns \cup {None}
    BY <1>1, Zenon DEF SubscriptionTypeOK, Writer
  <2>3. c \in Conns /\ HasRoom(c) => longer \in Seq(Message) /\ Len(longer) <= OutboundCap
    BY <1>1, <2>1 DEF SubscriptionTypeOK, HasRoom
  <2>4. queue' \in {queue, [queue EXCEPT ![c] = longer]}
          /\ (c \in Conns /\ ~ HasRoom(c) => queue' = queue)
    BY <1>7, Zenon DEF Deliver
  <2> HIDE DEF c, longer
  <2>5. queue' \in [Conns -> Seq(Message)] /\ \A d \in Conns : Len(queue'[d]) <= OutboundCap
    <3>1. CASE c \in Conns /\ HasRoom(c)
      <4>1. queue \in [Conns -> Seq(Message)] /\ \A d \in Conns : Len(queue[d]) <= OutboundCap
        BY <1>1, Zenon DEF SubscriptionTypeOK
      <4>2. [queue EXCEPT ![c] = longer] \in [Conns -> Seq(Message)]
        BY <2>3, <3>1, <4>1, Zenon
      <4>3. \A d \in Conns : Len([queue EXCEPT ![c] = longer][d]) <= OutboundCap
        BY <2>3, <3>1, <4>1, Zenon
      <4> QED BY <2>4, <4>1, <4>2, <4>3, Zenon
    <3>2. CASE c \in Conns /\ ~ HasRoom(c)
      BY <1>1, <2>4, <3>2, Zenon DEF SubscriptionTypeOK
    <3>3. CASE c = None
      <4>1. [queue EXCEPT ![c] = longer] = queue
        BY <1>1, <3>3, Zenon DEF SubscriptionTypeOK
      <4> QED BY <1>1, <2>4, <4>1, Zenon DEF SubscriptionTypeOK
    <3> QED BY <2>2, <3>1, <3>2, <3>3, Zenon
  <2>6. writer' \in [Writers -> Writer]
    <3>1. writer' = [writer EXCEPT ![w].pc = "idle", ![w].conn = None]
      BY <1>7, Zenon DEF Deliver
    <3> QED BY <1>1, <3>1, Zenon DEF SubscriptionTypeOK, Writer
  <2>7. SubscriptionTypeOK'
    BY <1>1, <1>7, <2>5, <2>6, Zenon DEF SubscriptionTypeOK, Deliver
  <2> QED BY <1>1, <1>7, <2>7, Zenon DEF SessionInvariant, EnteredOnce, Identified, Linked, Deliver
<1>8. CASE RemoveOrReissue
  <2>1. revision' \in Revisions /\ edits' \in 0 .. MaxEdits
    BY <1>1, <1>8 DEF SubscriptionTypeOK, RemoveOrReissue, Revisions
  <2>2. SubscriptionTypeOK'
    BY <1>1, <1>8, <2>1, Zenon DEF SubscriptionTypeOK, RemoveOrReissue
  <2> QED BY <1>1, <1>8, <2>2, Zenon DEF SessionInvariant, EnteredOnce, Identified, Linked, RemoveOrReissue
<1>9. CASE Disconnect
  BY <1>1, <1>9, Zenon DEF SessionInvariant, SubscriptionTypeOK, EnteredOnce, Identified, Linked, Disconnect
<1> QED BY <1>2, <1>3, <1>4, <1>5, <1>6, <1>7, <1>8, <1>9, Zenon DEF Write

\* The session's facts hold throughout.
LEMMA SessionInductive == SubscriptionSpec => []SessionInvariant
<1>1. SessionInvariant /\ [SubscriptionNext]_subscriptionVars => SessionInvariant'
  <2> SUFFICES ASSUME SessionInvariant, [SubscriptionNext]_subscriptionVars PROVE SessionInvariant'
    BY Zenon
  <2>1. CASE UNCHANGED subscriptionVars
    BY <2>1, Zenon DEF subscriptionVars, SessionInvariant, SubscriptionTypeOK, EnteredOnce, Identified, Linked
  <2> QED BY <2>1, ConnectionSteps, ClientSteps, OtherSteps, Zenon DEF SubscriptionNext
<1> QED BY <1>1, SessionInit, PTL DEF SubscriptionSpec

\* While a session lasts its applied revision never goes back, for any number of client
\* runs, connections and revisions: a delayed acknowledgement cannot undo a newer one.
THEOREM StatusNeverGoesBack == SubscriptionSpec => AckMonotone
<1> DEFINE A == entry # None /\ entry' # None /\ entry'.conn = entry.conn
                  => entry'.applied >= entry.applied
<1>1. SessionInvariant /\ [SubscriptionNext]_subscriptionVars => [A]_subscriptionVars
  <2> SUFFICES ASSUME SessionInvariant, SubscriptionNext, entry # None, entry' # None,
                      entry'.conn = entry.conn
               PROVE  entry'.applied >= entry.applied
    BY Zenon
  <2>1. SubscriptionTypeOK /\ EnteredOnce /\ entry \in Entry /\ entry.applied \in Nat
    BY DEF SessionInvariant, SubscriptionTypeOK, Entry, Revisions
  <2>2. CASE entry' = entry
    BY <2>1, <2>2
  <2>3. ASSUME NEW c \in Conns, InsertEntry(c) PROVE FALSE
    BY <2>1, <2>3, Zenon DEF InsertEntry, EnteredOnce, Linked
  <2>4. CASE FinishAck
    <3>1. CASE entry' = entry
      BY <2>1, <3>1
    <3>2. CASE entry' # entry
      <4>1. acking.ack.revision >= entry.applied /\ entry' = Acknowledged(acking.ack)
        BY <2>4, <3>2, Zenon DEF FinishAck, ack_can_update_live_state
      <4>2. entry'.applied \in {acking.ack.revision, entry.applied}
        BY <2>1, <4>1, Zenon DEF Acknowledged, Entry
      <4> QED BY <2>1, <4>1, <4>2
    <3> QED BY <3>1, <3>2, Zenon
  <2>5. ASSUME ~ FinishAck, \A c \in Conns : ~ InsertEntry(c) PROVE entry' \in {entry, None}
    BY <2>5, Zenon DEF SubscriptionNext, ReadRecord, Register, CheckInstance, SendReply, CloseConnection,
      ClientReceive, BeginAck, DropSession, CreateConfig, RepairRow, CommitRevision, Write,
      RereadRecord, PickTarget, Deliver, RemoveOrReissue, Disconnect
  <2> QED BY <2>2, <2>3, <2>4, <2>5, Zenon
<1> QED BY <1>1, SessionInductive, PTL DEF SubscriptionSpec, AckMonotone

\* For any number of connections, only its own end or an administrator takes a session
\* away: the late end of a replaced connection leaves its successor registered.
THEOREM SessionsAlwaysKept == SubscriptionSpec => LiveSessionKept
<1> DEFINE A == entry # None /\ conn'[entry.conn].pc # "closed" /\ entry' = None => Disconnect
<1>1. SessionInvariant /\ [SubscriptionNext]_subscriptionVars => [A]_subscriptionVars
  <2> SUFFICES ASSUME SessionInvariant, SubscriptionNext, entry # None, entry' = None, ~ Disconnect
               PROVE  conn'[entry.conn].pc = "closed"
    BY Zenon
  <2>1. SubscriptionTypeOK /\ entry \in Entry /\ conn \in [Conns -> Connection]
    BY Zenon DEF SessionInvariant, SubscriptionTypeOK
  <2>2. ASSUME NEW c \in Conns, CloseConnection(c) \/ BeginAck(c)
        PROVE  conn'[entry.conn].pc = "closed"
    <3>1. entry.conn = c /\ conn' = [conn EXCEPT ![c].pc = "closed"]
      BY <2>2, Zenon DEF CloseConnection, BeginAck, DropSession, Linked
    <3> QED BY <2>1, <3>1
  <2>3. CASE FinishAck
    <3>1. Acknowledged(acking.ack) \in Entry
      BY <2>1, <2>3, AcknowledgedTyped, Zenon DEF SubscriptionTypeOK, FinishAck
    <3> QED BY NoneApart, <2>3, <3>1, Zenon DEF FinishAck
  <2>4. ASSUME NEW c \in Conns, InsertEntry(c) PROVE FALSE
    <3>1. /\ conn[c].instance \in Instances /\ conn[c].applied \in Revisions /\ 0 \in Revisions
      BY SubscriptionAssumption, <2>1, <2>4 DEF SessionInvariant, InsertEntry, Connection,
        Identified, Revisions
    <3>2. entry' \in Entry
      BY <2>4, <3>1 DEF InsertEntry, Entry
    <3> QED BY NoneApart, <3>2, Zenon
  <2>5. ASSUME ~ FinishAck,
               \A c \in Conns : ~ InsertEntry(c) /\ ~ CloseConnection(c) /\ ~ BeginAck(c)
        PROVE  entry' = entry
    BY <2>5, Zenon DEF SubscriptionNext, ReadRecord, Register, CheckInstance, SendReply, ClientReceive,
      CreateConfig, RepairRow, CommitRevision, Write, RereadRecord, PickTarget, Deliver,
      RemoveOrReissue
  <2> QED BY <2>2, <2>3, <2>4, <2>5, Zenon
<1> QED BY <1>1, SessionInductive, PTL DEF SubscriptionSpec, LiveSessionKept

-----------------------------------------------------------------------------
(* What is reported as applied.                                             *)

\* Nothing that is reported is taken back: what clients have applied only grows.
LEMMA ReportedStays ==
    ASSUME SubscriptionTypeOK, SubscriptionTypeOK', \A i \in Instances : applied'[i] >= applied[i],
           NEW r \in Revisions, Reported(r)
    PROVE  \A i \in Instances : r <= applied'[i]
BY DEF SubscriptionTypeOK, Reported, Revisions

\* A client run applies a revision before it acknowledges it.
LEMMA ReceiveApplies ==
    ASSUME SessionInvariant, SessionInvariant', SuccessesApplied, OneRun,
           NEW c \in Conns, ClientReceive(c)
    PROVE  SuccessesApplied'
<1> DEFINE i == conn[c].instance
           r == Head(queue[c]).revision
<1>1. /\ SubscriptionTypeOK /\ SubscriptionTypeOK' /\ i \in Instances /\ r \in Revisions
      /\ UNCHANGED <<revision, broken, removing, entry, conn, acking, writer, edits>>
  <2>1. queue[c] \in Seq(Message) /\ queue[c] # <<>>
    BY Zenon DEF SessionInvariant, SubscriptionTypeOK, ClientReceive
  <2>2. Head(queue[c]) \in Message
    BY <2>1
  <2> QED BY <2>2, Zenon DEF SessionInvariant, ClientReceive, Identified, Message
<1>2. CASE r <= applied[i]
  <2>1. applied' = applied /\ acks' = acks
    BY <1>2, Zenon DEF ClientReceive
  <2> QED BY <1>1, <2>1, Zenon DEF SuccessesApplied, Reported
<1>3. CASE ~ (r <= applied[i])
  <2>1. PICK ok \in BOOLEAN :
          /\ applied' = IF ok THEN [applied EXCEPT ![i] = r] ELSE applied
          /\ acks' = [acks EXCEPT ![c] = Append(@, [ok |-> ok, revision |-> r])]
    BY <1>3, Zenon DEF ClientReceive
  <2>2. \A j \in Instances : applied'[j] >= applied[j]
    BY <1>1, <1>3, <2>1 DEF SubscriptionTypeOK, Revisions
  <2>3. ok => \A j \in Instances : r <= applied'[j]
    BY <1>1, <2>1 DEF SubscriptionTypeOK, OneRun, Revisions
  <2>4. \A d \in Conns : conn[d].applied \in Revisions
    BY <1>1, Zenon DEF SubscriptionTypeOK, Connection
  <2>5. \A d \in Conns : conn[d].pc # "new" => \A j \in Instances : conn[d].applied <= applied'[j]
    BY <1>1, <2>2, <2>4, ReportedStays, Zenon DEF SuccessesApplied
  <2>6. acking # None /\ acking.ack.ok => \A j \in Instances : acking.ack.revision <= applied'[j]
    BY <1>1, <2>2, ReportedStays, Zenon DEF SuccessesApplied, SubscriptionTypeOK, Ack
  <2>7. entry # None => \A j \in Instances : entry.applied <= applied'[j]
    BY <1>1, <2>2, ReportedStays, Zenon DEF SuccessesApplied, SubscriptionTypeOK, Entry
  <2>8. ASSUME NEW d \in Conns, NEW k \in 1 .. Len(acks'[d]), acks'[d][k].ok
        PROVE  \A j \in Instances : acks'[d][k].revision <= applied'[j]
    <3>1. acks[d] \in Seq(Ack) /\ acks \in [Conns -> Seq(Ack)]
      BY <1>1, Zenon DEF SubscriptionTypeOK
    <3>2. CASE d # c
      <4>1. acks'[d] = acks[d]
        BY <2>1, <3>1, <3>2, Zenon
      <4>2. acks[d][k] \in Ack /\ Reported(acks[d][k].revision)
        BY <2>8, <3>1, <4>1 DEF SuccessesApplied
      <4>3. acks[d][k].revision \in Revisions
        BY <4>2, Zenon DEF Ack
      <4> QED BY <1>1, <2>2, <4>1, <4>2, <4>3, ReportedStays, Zenon
    <3>3. CASE d = c
      <4>1. acks'[c] = Append(acks[c], [ok |-> ok, revision |-> r])
        BY <2>1, <3>1, Zenon
      <4>2. CASE k = Len(acks[c]) + 1
        <5>1. acks'[d][k] = [ok |-> ok, revision |-> r]
          BY <3>1, <3>3, <4>1, <4>2
        <5>2. acks'[d][k].revision = r /\ ok
          BY <2>8, <5>1
        <5> QED BY <2>3, <5>2, Zenon
      <4>3. CASE k # Len(acks[c]) + 1
        <5>1. k \in 1 .. Len(acks[c]) /\ acks'[d][k] = acks[d][k]
          BY <3>1, <3>3, <4>1, <4>3
        <5>2. acks[d][k] \in Ack /\ Reported(acks[d][k].revision)
          BY <2>8, <3>1, <3>3, <5>1 DEF SuccessesApplied
        <5>3. acks[d][k].revision \in Revisions
          BY <5>2, Zenon DEF Ack
        <5> QED BY <1>1, <2>2, <5>1, <5>2, <5>3, ReportedStays, Zenon
      <4> QED BY <4>2, <4>3, Zenon
    <3> QED BY <3>2, <3>3, Zenon
  <2> QED BY <1>1, <2>5, <2>6, <2>7, <2>8, Zenon DEF SuccessesApplied, Reported
<1> QED BY <1>2, <1>3, Zenon

\* The other steps carry what is reported from the connection to the entry.
LEMMA CarriedOn ==
    ASSUME SessionInvariant, SuccessesApplied, OneRun, SubscriptionNext, \A c \in Conns : ~ ClientReceive(c)
    PROVE  SuccessesApplied'
<1>1. SubscriptionTypeOK /\ Identified /\ conn \in [Conns -> Connection]
        /\ applied \in [Instances -> Revisions]
        /\ acks \in [Conns -> Seq(Ack)]
  BY Zenon DEF SessionInvariant, SubscriptionTypeOK
<1>2. applied' = applied
  BY Zenon DEF SubscriptionNext, ReadRecord, Register, CheckInstance, InsertEntry, SendReply, CloseConnection,
    BeginAck, FinishAck, CreateConfig, RepairRow, CommitRevision, Write, RereadRecord,
    PickTarget, Deliver, RemoveOrReissue, Disconnect
<1>3. \A r : Reported(r)' = Reported(r)
  BY <1>2, Zenon DEF Reported
<1>4. ASSUME NEW d \in Conns, conn'[d].pc # "new" PROVE Reported(conn'[d].applied)
  <2>1. CASE conn'[d].applied = conn[d].applied /\ conn[d].pc # "new"
    BY <2>1, Zenon DEF SuccessesApplied
  <2>2. ASSUME NEW i \in Instances, ReadRecord(d, i) PROVE Reported(conn'[d].applied)
    <3>1. conn'[d].applied = applied[i]
      BY <1>1, <2>2, Zenon DEF ReadRecord
    <3> QED BY <1>1, <3>1 DEF Reported, OneRun, Revisions
  <2>3. ASSUME \A i \in Instances : ~ ReadRecord(d, i)
        PROVE  conn'[d].applied = conn[d].applied /\ conn[d].pc # "new"
    <3>1. ASSUME NEW c \in Conns, CheckInstance(c) \/ InsertEntry(c) \/ SendReply(c)
                                    \/ CloseConnection(c) \/ BeginAck(c)
          PROVE  conn'[d].applied = conn[d].applied /\ conn[d].pc # "new"
      <4>1. conn[c].pc # "new" /\ (conn' = conn \/ \E x : conn' = [conn EXCEPT ![c].pc = x])
        BY <3>1, Zenon DEF CheckInstance, InsertEntry, SendReply, CloseConnection, BeginAck
      <4>2. CASE conn' = conn
        BY <1>4, <4>2, Zenon
      <4>3. ASSUME NEW x, conn' = [conn EXCEPT ![c].pc = x]
            PROVE  conn'[d].applied = conn[d].applied /\ conn[d].pc # "new"
        <5>1. CASE d = c
          BY <1>1, <4>1, <4>3, <5>1 DEF Connection
        <5>2. CASE d # c
          BY <1>1, <1>4, <4>3, <5>2, Zenon
        <5> QED BY <5>1, <5>2, Zenon
      <4> QED BY <4>1, <4>2, <4>3, Zenon
    <3>2. ASSUME NEW c \in Conns, NEW i \in Instances, c # d, ReadRecord(c, i)
          PROVE  conn'[d].applied = conn[d].applied /\ conn[d].pc # "new"
      BY <1>1, <1>4, <3>2, Zenon DEF ReadRecord
    <3>3. CASE conn' = conn
      BY <1>4, <3>3, Zenon
    <3>4. \/ \E c \in Conns : CheckInstance(c) \/ InsertEntry(c) \/ SendReply(c)
                                \/ CloseConnection(c) \/ BeginAck(c)
          \/ \E c \in Conns, i \in Instances : c # d /\ ReadRecord(c, i)
          \/ conn' = conn
      BY <2>3, Zenon DEF SubscriptionNext, Register, FinishAck, CreateConfig, RepairRow, CommitRevision, Write,
        RereadRecord, PickTarget, Deliver, RemoveOrReissue, Disconnect
    <3> QED BY <3>1, <3>2, <3>3, <3>4, Zenon
  <2> QED BY <2>1, <2>2, <2>3, Zenon
<1>5. \/ acks' = acks /\ acking' \in {acking, None}
      \/ \E c \in Conns : BeginAck(c)
  BY Zenon DEF SubscriptionNext, ReadRecord, Register, CheckInstance, InsertEntry, SendReply, CloseConnection,
    FinishAck, CreateConfig, RepairRow, CommitRevision, Write, RereadRecord, PickTarget, Deliver,
    RemoveOrReissue, Disconnect
<1>6. /\ \A d \in Conns : \A k \in 1 .. Len(acks'[d]) :
           acks'[d][k].ok => Reported(acks'[d][k].revision)
      /\ acking' # None /\ acking'.ack.ok => Reported(acking'.ack.revision)
  <2>1. CASE acks' = acks /\ acking' \in {acking, None}
    BY <2>1, Zenon DEF SuccessesApplied
  <2>2. ASSUME NEW c \in Conns, BeginAck(c)
        PROVE  /\ \A d \in Conns : \A k \in 1 .. Len(acks'[d]) :
                    acks'[d][k].ok => Reported(acks'[d][k].revision)
               /\ acking' # None /\ acking'.ack.ok => Reported(acking'.ack.revision)
    <3>1. acks[c] \in Seq(Ack) /\ acks[c] # <<>> /\ acks' = [acks EXCEPT ![c] = Tail(@)]
      BY <1>1, <2>2, Zenon DEF BeginAck
    <3>2. \A d \in Conns : d # c => acks'[d] = acks[d]
      BY <1>1, <3>1, Zenon
    <3>3. \A k \in 1 .. Len(acks'[c]) : k + 1 \in 1 .. Len(acks[c]) /\ acks'[c][k] = acks[c][k + 1]
      BY <1>1, <3>1
    <3>4. \A d \in Conns : \A k \in 1 .. Len(acks'[d]) :
            acks'[d][k].ok => Reported(acks'[d][k].revision)
      <4>1. ASSUME NEW k \in 1 .. Len(acks'[c]), acks'[c][k].ok
            PROVE  Reported(acks'[c][k].revision)
        BY <3>3, <4>1, Zenon DEF SuccessesApplied
      <4>2. ASSUME NEW d \in Conns, d # c, NEW k \in 1 .. Len(acks'[d]), acks'[d][k].ok
            PROVE  Reported(acks'[d][k].revision)
        BY <3>2, <4>2, Zenon DEF SuccessesApplied
      <4> QED BY <4>1, <4>2, Zenon
    <3>5. Head(acks[c]) = acks[c][1] /\ 1 \in 1 .. Len(acks[c])
      BY <3>1
    <3>6. acking' \in {acking, [conn |-> c, ack |-> Head(acks[c]), target |-> revision]}
      BY <2>2, Zenon DEF BeginAck
    <3>7. acking' # None /\ acking'.ack.ok => Reported(acking'.ack.revision)
      BY <3>5, <3>6 DEF SuccessesApplied
    <3> QED BY <3>4, <3>7, Zenon
  <2> QED BY <1>5, <2>1, <2>2, Zenon
<1>7. entry' # None => Reported(entry'.applied)
  <2>1. CASE entry' \in {entry, None}
    BY <2>1, Zenon DEF SuccessesApplied
  <2>2. ASSUME NEW c \in Conns, InsertEntry(c) PROVE Reported(entry'.applied)
    <3>1. entry'.applied = conn[c].applied /\ conn[c].pc # "new"
      BY <2>2, Zenon DEF InsertEntry
    <3> QED BY <3>1, Zenon DEF SuccessesApplied
  <2>3. ASSUME FinishAck, entry' \notin {entry, None} PROVE Reported(entry'.applied)
    <3>1. acking # None /\ entry # None /\ entry' = Acknowledged(acking.ack) /\ entry \in Entry
      BY <1>1, <2>3, Zenon DEF FinishAck, SubscriptionTypeOK
    <3>2. CASE acking.ack.ok
      <4>1. entry'.applied = acking.ack.revision
        BY <3>1, <3>2, Zenon DEF Acknowledged, Entry
      <4> QED BY <3>1, <3>2, <4>1, Zenon DEF SuccessesApplied
    <3>3. CASE ~ acking.ack.ok
      <4>1. entry'.applied = entry.applied
        BY <3>1, <3>3, Zenon DEF Acknowledged, Entry
      <4> QED BY <3>1, <4>1, Zenon DEF SuccessesApplied
    <3> QED BY <3>2, <3>3, Zenon
  <2>4. ASSUME ~ FinishAck, \A c \in Conns : ~ InsertEntry(c) PROVE entry' \in {entry, None}
    BY <2>4, Zenon DEF SubscriptionNext, ReadRecord, Register, CheckInstance, SendReply, CloseConnection,
      BeginAck, DropSession, CreateConfig, RepairRow, CommitRevision, Write,
      RereadRecord, PickTarget, Deliver, RemoveOrReissue, Disconnect
  <2> QED BY <2>1, <2>2, <2>3, <2>4, Zenon
<1> QED BY <1>3, <1>4, <1>6, <1>7, Zenon DEF SuccessesApplied

\* What the console shows as applied was applied, for any number of connections and
\* revisions, as long as one client run uses the device.
THEOREM StatusAlwaysTrue == ASSUME OneRun PROVE SubscriptionSpec => []TruthfulStatus
<1>1. SubscriptionInit => SuccessesApplied
  BY DEF SubscriptionInit, SuccessesApplied
<1>2. SessionInvariant /\ SessionInvariant' /\ SuccessesApplied /\ [SubscriptionNext]_subscriptionVars
        => SuccessesApplied'
  <2> SUFFICES ASSUME SessionInvariant, SessionInvariant', SuccessesApplied, [SubscriptionNext]_subscriptionVars
               PROVE  SuccessesApplied'
    BY Zenon
  <2>1. CASE UNCHANGED subscriptionVars
    BY <2>1, Zenon DEF subscriptionVars, SuccessesApplied, Reported
  <2> QED BY <2>1, ReceiveApplies, CarriedOn, Zenon
<1>3. SessionInvariant /\ SuccessesApplied => TruthfulStatus
  BY Zenon DEF SessionInvariant, SubscriptionTypeOK, Entry, SuccessesApplied, Reported, TruthfulStatus
<1> QED BY <1>1, <1>2, <1>3, SessionInductive, PTL DEF SubscriptionSpec

=============================================================================
