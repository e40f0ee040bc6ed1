------------------------------ MODULE Registry ------------------------------
(***************************************************************************)
(* The inventory under the administrator's hands                           *)
(* (src/backend/app/api/devices.py, interfaces.py, topology.py,            *)
(* services/interface_service.py): devices with their services, parents    *)
(* and links, further addresses as interfaces of a device, the merging of  *)
(* duplicates, and the caches the lists are answered from.                 *)
(*                                                                         *)
(* A request that waits, for a name server, a port scan or only for the    *)
(* next query, is two steps: what it has read, and what it writes from it. *)
(* Others come in between.  From its first write to its commit a request   *)
(* holds SQLite's write lock, so that part is one step, and so is a        *)
(* request that writes without looking.  Most requests read their row once *)
(* more after the commit, and drop the caches when they have it: a step of *)
(* its own.                                                                *)
(*                                                                         *)
(* A service is known by its port; names, groups and the rest of a row are *)
(* seen as writes only; what makes two addresses look like one box (MAC,   *)
(* host name, SSH host key, a subnet's gateway) is a signal.               *)
(***************************************************************************)
EXTENDS Integers, FiniteSetsExt

CONSTANTS
  Devices,          \* row ids, 1 .. n
  Addresses, Ports,
  Discovered,       \* addresses a scan has found
  Agents,           \* devices with an agent token
  Segment,          \* Segment[a]: the subnet of an address
  Signals,          \* Signals[a]: its MAC, its host name, its host keys
  Gateway,          \* Gateway[a]: "entered", "suggested" or "no"
  FirstDevices, FirstServices, FirstLinks,    \* the rows at the start
  Tasks,            \* requests that may overlap
  MaxService,       \* bound: ids of services
  MaxRequests       \* bound: requests

NoOne == 0      \* no device
None == "none"  \* no address, nothing cached

Row == [ip : Addresses \cup {None}, parent : Devices \cup {NoOne}]
Services == [id : 1 .. MaxService, of : Devices, port : Ports, auto : BOOLEAN]
Owners == [Addresses -> Devices \cup {NoOne}]
Links == Devices \X Devices
Caches == {None, "fresh", "stale"}

ASSUME RegistryAssumption ==
  /\ Devices = 1 .. Cardinality(Devices)
  /\ Discovered \subseteq Addresses /\ Agents \subseteq Devices
  /\ FirstDevices \in [Devices -> Row] /\ FirstServices \subseteq Services
  /\ FirstLinks \subseteq Links
  /\ MaxService \in Nat /\ MaxRequests \in Nat

\* An address is of one device, and an id of one service; what is no row has no parent.
ASSUME FirstRowsAssumption ==
  /\ \A d, e \in Devices : FirstDevices[d].ip = FirstDevices[e].ip => d = e \/ FirstDevices[d].ip = None
  /\ \A d \in Devices : FirstDevices[d].ip = None => FirstDevices[d].parent = NoOne
  /\ \A s, r \in FirstServices : s.id = r.id => s = r

ASSUME NamesAssumption ==
  /\ None \notin Addresses /\ NoOne \notin Tasks
  /\ IsFiniteSet(Devices) /\ IsFiniteSet(Addresses) /\ IsFiniteSet(Ports) /\ Ports \subseteq Nat

VARIABLES
  device,       \* device[d]: its row, with no address when there is none
  owner,        \* owner[a]: the device an interface row with this address belongs to
  service,      \* rows of services
  link,         \* rows of topology links
  dismissed,    \* suggestions the administrator does not want
  listed,       \* the cached device list: "none", "fresh" or "stale"
  mapped,       \* the cached topology map
  task,         \* task[t]: a request that has read and not written yet, or not dropped the caches
  requests,     \* requests so far
  \* auxiliary: not in the program, they only watch it
  setUp,        \* links, children and services the administrator wants
  contested,    \* addresses two requests at a time have checked and taken
  slipped       \* "list" and "map": the cached one was read before a write and stored after, or
                \* older than a write that drops nothing

tables == <<device, owner, service, link>>
vars == <<tables, dismissed, listed, mapped, task, requests, setUp, contested, slipped>>

Idle == [kind |-> "idle", dev |-> NoOne, other |-> NoOne, parent |-> NoOne, at |-> None,
         seen |-> {}, overtaken |-> FALSE, rival |-> FALSE]
Request(kind, d) == [Idle EXCEPT !.kind = kind, !.dev = d]
NoRow == [ip |-> None, parent |-> NoOne]

Here == {d \in Devices : device[d].ip # None}
NewId == IF Here = {} THEN 1 ELSE Max(Here) + 1
HolderOf(a) == {d \in Here : device[d].ip = a}
ServicesOf(d) == {s \in service : s.of = d}

\* SQLite's next row id: one more than the largest, so that of a deleted row comes again.
NextService == IF service = {} THEN 1 ELSE Max({s.id : s \in service}) + 1

\* What a suggestion to merge can be about: a device, or a discovered address that is none.
Entity(kind, d, a) == [kind |-> kind, dev |-> d, at |-> a]
DeviceEntities == {Entity("device", d, device[d].ip) : d \in Here}
Entities ==
  DeviceEntities \cup
    {Entity("discovered", NoOne, a) : a \in {x \in Discovered : owner[x] = NoOne /\ HolderOf(x) = {}}}

Init ==
  /\ device = FirstDevices
  /\ owner = [a \in Addresses |-> NoOne]
  /\ service = FirstServices
  /\ link = FirstLinks
  /\ dismissed = {}
  /\ listed = None /\ mapped = None
  /\ task = [t \in Tasks |-> Idle]
  /\ requests = 0
  /\ setUp = {<<"link", l[1], l[2]>> : l \in FirstLinks}
               \cup {<<"child", d, FirstDevices[d].parent>> :
                         d \in {x \in Devices : FirstDevices[x].parent # NoOne}}
               \cup {<<"port", s.of, s.port>> : s \in FirstServices}
  /\ contested = {} /\ slipped = {}

-----------------------------------------------------------------------------
(* What a write does to the caches and to the requests under way.            *)

\* A request is overtaken by a write to what it has read: the services of these devices,
\* or, for a list or a map, anything it shows.
Overtaken(r, devs) == r.kind \in {"list", "map"} \/ {r.dev, r.other} \cap devs # {}

\* The others learn of a write, and of the address it takes.
Told(t, devs, a) ==
  [u \in Tasks |-> IF u = t \/ task[u] = Idle THEN task[u]
                   ELSE [task[u] EXCEPT !.overtaken = @ \/ Overtaken(task[u], devs),
                                        !.rival = @ \/ (a # None /\ task[u].at = a)]]
Tell(t, devs, a, q) == task' = [Told(t, devs, a) EXCEPT ![t] = q]

\* A link, for one, is shown by the map only.
Overtakes(kinds) ==
  task' = [u \in Tasks |-> [task[u] EXCEPT !.overtaken = @ \/ task[u].kind \in kinds]]

Older(cache) == IF cache = None THEN None ELSE "stale"

\* Mutant: a write forgets the list.
InvalidateMapOnly == listed' = Older(listed) /\ mapped' = None /\ slipped' = slipped \ {"map"}

\* dashboard_cache.invalidate_all, topology_cache.invalidate
InvalidateBoth == listed' = None /\ mapped' = None /\ slipped' = {}

InvalidateMap == mapped' = None /\ slipped' = slipped \ {"map"} /\ UNCHANGED listed

\* After a commit the request waits for its row: of a device, an interface, a service.
Refetch(d, a, ids) == [Request("drop", d) EXCEPT !.at = a, !.seen = ids]
Gone(q) ==
  \/ q.dev \notin Here \cup {NoOne}
  \/ q.at # None /\ owner[q.at] = NoOne
  \/ ~(q.seen \subseteq {s.id : s \in service})
DropsLater == listed' = Older(listed) /\ mapped' = Older(mapped) /\ UNCHANGED slipped

Counted == requests < MaxRequests /\ requests' = requests + 1

\* A request that writes at once, to the services of these devices among other things.
Writes(devs) == Counted /\ task' = Told(NoOne, devs, None) /\ InvalidateBoth

\* A request that writes at once, and drops the caches later.
WritesFirst(t, devs, q) ==
  /\ Counted
  /\ task[t] = Idle
  /\ task' = [Told(t, devs, None) EXCEPT ![t] = q]
  /\ DropsLater

\* A request that reads, and waits.
Waits(t, r) ==
  /\ Counted
  /\ task[t] = Idle
  /\ task' = [task EXCEPT ![t] = r]
  /\ UNCHANGED <<tables, dismissed, listed, mapped, setUp, contested, slipped>>

\* It fails, and leaves nothing behind.
Fails(t) ==
  /\ task' = [task EXCEPT ![t] = Idle]
  /\ UNCHANGED <<tables, dismissed, listed, mapped, requests, setUp, contested, slipped>>

\* The row is read once more, and the caches are dropped ...
Dropped(t) ==
  /\ task[t].kind = "drop" /\ ~Gone(task[t])
  /\ task' = [task EXCEPT ![t] = Idle]
  /\ InvalidateBoth
  /\ UNCHANGED <<tables, dismissed, requests, setUp, contested>>

\* ... but not when it is gone: that is an error.
DropFails(t) == task[t].kind \in {"drop", "added"} /\ Gone(task[t]) /\ Fails(t)

-----------------------------------------------------------------------------
(* Lists and the map.                                                        *)

\* The list is not cached: read it ...
List(t) == listed = None /\ Waits(t, Request("list", NoOne))
ShowMap(t) == mapped = None /\ Waits(t, Request("map", NoOne))

\* ... and cache what was read.
Cached(t) == IF task[t].overtaken THEN "stale" ELSE "fresh"
ListStored(t) ==
  /\ task[t].kind = "list"
  /\ listed' = Cached(t)
  /\ slipped' = IF task[t].overtaken THEN slipped \cup {"list"} ELSE slipped \ {"list"}
  /\ task' = [task EXCEPT ![t] = Idle]
  /\ UNCHANGED <<tables, dismissed, mapped, requests, setUp, contested>>
MapStored(t) ==
  /\ task[t].kind = "map"
  /\ mapped' = Cached(t)
  /\ slipped' = IF task[t].overtaken THEN slipped \cup {"map"} ELSE slipped \ {"map"}
  /\ task' = [task EXCEPT ![t] = Idle]
  /\ UNCHANGED <<tables, dismissed, listed, requests, setUp, contested>>

\* Ten and thirty seconds.
ListExpires ==
  /\ listed # None /\ listed' = None /\ slipped' = slipped \ {"list"}
  /\ UNCHANGED <<tables, dismissed, mapped, task, requests, setUp, contested>>
MapExpires ==
  /\ mapped # None /\ mapped' = None /\ slipped' = slipped \ {"map"}
  /\ UNCHANGED <<tables, dismissed, listed, task, requests, setUp, contested>>

-----------------------------------------------------------------------------
(* Devices.                                                                  *)

\* A name, a group, and whatever else a row has.
EditDevice(d) == d \in Here /\ Writes({}) /\ UNCHANGED <<tables, dismissed, setUp, contested>>

\* What the list says of an agent, or of the rack a device is in, changes, and the list is
\* not dropped.
ListAges ==
  /\ Counted
  /\ listed' = Older(listed)
  /\ UNCHANGED <<tables, dismissed, setUp, contested>>
Aged == IF listed = None THEN slipped ELSE slipped \cup {"list"}

\* An agent is deployed, adopted or removed.
ChangeAgent == ListAges /\ Overtakes({"list"}) /\ slipped' = Aged /\ UNCHANGED mapped

\* The map is dropped.
DeleteRack ==
  ListAges /\ Overtakes({"list", "map"}) /\ mapped' = None /\ slipped' = Aged \ {"map"}

SetParent(d, p) ==
  /\ d \in Here /\ p \in (Here \ {d}) \cup {NoOne} /\ p # device[d].parent
  /\ device' = [device EXCEPT ![d].parent = p]
  /\ Writes({})
  /\ setUp' = {f \in setUp : ~(f[1] = "child" /\ f[2] = d)}
                \cup (IF p = NoOne THEN {} ELSE {<<"child", d, p>>})
  /\ UNCHANGED <<owner, service, link, dismissed, contested>>

\* With every row that refers to them.
DeleteDevices(devs) ==
  /\ devs # {} /\ devs \subseteq Here
  /\ device' = [d \in Devices |->
                  IF d \in devs THEN NoRow
                  ELSE IF device[d].parent \in devs THEN [device[d] EXCEPT !.parent = NoOne] ELSE device[d]]
  /\ owner' = [a \in Addresses |-> IF owner[a] \in devs THEN NoOne ELSE owner[a]]
  /\ service' = {s \in service : s.of \notin devs}
  /\ link' = {l \in link : {l[1], l[2]} \cap devs = {}}
  /\ Writes(devs)
  /\ setUp' = {f \in setUp : f[2] \notin devs /\ (f[1] # "port" => f[3] \notin devs)}
  /\ UNCHANGED <<dismissed, contested>>

\* An address that is no device and no interface becomes a device ...
Add(t, a) ==
  /\ HolderOf(a) = {} /\ owner[a] = NoOne
  /\ Waits(t, [Request("add", NoOne) EXCEPT !.at = a])

\* ... unless another request was quicker.
Added(t) ==
  LET a == task[t].at
  IN  /\ task[t].kind = "add" /\ HolderOf(a) = {} /\ NewId \in Devices
      /\ device' = [device EXCEPT ![NewId] = [NoRow EXCEPT !.ip = a]]
      /\ Tell(t, {}, a, Request("added", NewId)) /\ DropsLater
      /\ contested' = IF task[t].rival THEN contested \cup {a} ELSE contested
      /\ UNCHANGED <<owner, service, link, dismissed, requests, setUp>>
AddRefused(t) == task[t].kind = "add" /\ HolderOf(task[t].at) # {} /\ Fails(t)

\* Then the names of the new device are looked up.
AddAnswered(t) ==
  /\ task[t].kind = "added" /\ ~Gone(task[t])
  /\ task' = [task EXCEPT ![t] = Request("info", task[t].dev)]
  /\ InvalidateBoth
  /\ UNCHANGED <<tables, dismissed, requests, setUp, contested>>

-----------------------------------------------------------------------------
(* What the scanners know about one device, or about all.                    *)

RefreshInfo(t, d) == d \in Here /\ Waits(t, Request("info", d))

InfoRefreshed(t) ==
  /\ task[t].kind = "info" /\ task[t].dev \in Here
  /\ Tell(t, {}, None, Refetch(task[t].dev, None, {})) /\ DropsLater
  /\ UNCHANGED <<tables, dismissed, requests, setUp, contested>>

\* The row is gone.
RowGone(t) == task[t].kind \in {"info", "services"} /\ task[t].dev \notin Here /\ Fails(t)

\* All devices, one after the other in the background; the caches are dropped at the end.
RefreshAll(t) == Waits(t, [Request("all", NoOne) EXCEPT !.seen = Here])
OneRefreshed(t, d) ==
  /\ task[t].kind = "all" /\ d \in task[t].seen
  /\ \/ d \in Here /\ DropsLater /\ task' = [Told(t, {}, None) EXCEPT ![t].seen = @ \ {d}]
     \/ task' = [task EXCEPT ![t].seen = @ \ {d}] /\ UNCHANGED <<listed, mapped, slipped>>
  /\ UNCHANGED <<tables, dismissed, requests, setUp, contested>>
AllRefreshed(t) ==
  /\ task[t].kind = "all" /\ task[t].seen = {}
  /\ task' = [task EXCEPT ![t] = Idle]
  /\ InvalidateBoth
  /\ UNCHANGED <<tables, dismissed, requests, setUp, contested>>

\* A port scan: the services are read before it ...
RefreshServices(t, d) == d \in Here /\ Waits(t, [Request("services", d) EXCEPT !.seen = ServicesOf(d)])

\* Open ports no service was seen for.
Missing(seen, open) == open \ {s.port : s \in seen}

\* ... and those found open and not seen are added after it, those seen marked.  One that
\* is deleted by then makes the commit fail: the scanner's own always, others if they are
\* to be marked.
ServicesRefreshed(t, open) ==
  LET d == task[t].dev
      new == Missing(task[t].seen, open)
  IN  /\ task[t].kind = "services" /\ d \in Here
      /\ {s.id : s \in {x \in task[t].seen : x.auto}} \subseteq {s.id : s \in service}
      /\ NextService + Cardinality(new) <= MaxService + 1
      /\ service' = service \cup
           {[id |-> NextService + Cardinality({q \in new : q < p}), of |-> d, port |-> p,
             auto |-> TRUE] : p \in new}
      /\ Tell(t, {d}, None, Refetch(d, None, {})) /\ DropsLater
      /\ UNCHANGED <<device, owner, link, dismissed, requests, setUp, contested>>
SeenDeleted(t) ==
  /\ task[t].kind = "services"
  /\ ~({s.id : s \in task[t].seen} \subseteq {s.id : s \in service})
  /\ Fails(t)

-----------------------------------------------------------------------------
(* Services, groups and links, as the administrator edits them.              *)

AddService(t, d, p) ==
  /\ d \in Here /\ NextService <= MaxService
  /\ service' = service \cup {[id |-> NextService, of |-> d, port |-> p, auto |-> TRUE]}
  /\ WritesFirst(t, {d}, Refetch(NoOne, None, {NextService}))
  /\ setUp' = setUp \cup {<<"port", d, p>>}
  /\ UNCHANGED <<device, owner, link, dismissed, contested>>

\* What is wanted when s is not at its port any more.
WantedWithout(s) ==
  IF \E q \in service \ {s} : q.of = s.of /\ q.port = s.port THEN setUp
  ELSE setUp \ {<<"port", s.of, s.port>>}

\* A service changed by hand, be it to another port, is not the scanner's any more.
UpdateService(t, s, p) ==
  /\ s \in service
  /\ service' = (service \ {s}) \cup {[s EXCEPT !.port = p, !.auto = FALSE]}
  /\ WritesFirst(t, {s.of}, Refetch(NoOne, None, {s.id}))
  /\ setUp' = WantedWithout(s) \cup {<<"port", s.of, p>>}
  /\ UNCHANGED <<device, owner, link, dismissed, contested>>

DeleteService(s) ==
  /\ s \in service
  /\ service' = service \ {s}
  /\ Writes({s.of})
  /\ setUp' = WantedWithout(s)
  /\ UNCHANGED <<device, owner, link, dismissed, contested>>

\* A group is created or changed, or deleted (what a group is called is not kept, nor that it
\* is gone when it is read once more).
EditGroup(t) ==
  WritesFirst(t, {}, Refetch(NoOne, None, {})) /\ UNCHANGED <<tables, dismissed, setUp, contested>>
DeleteGroup == Writes({}) /\ UNCHANGED <<tables, dismissed, setUp, contested>>

EditLinks(links, facts) ==
  /\ links # link
  /\ link' = links
  /\ setUp' = facts
  /\ Counted /\ Overtakes({"map"}) /\ InvalidateMap
  /\ UNCHANGED <<device, owner, service, dismissed, contested>>
CreateLink(a, b) ==
  /\ a \in Here /\ b \in Here
  /\ EditLinks(link \cup {<<a, b>>}, setUp \cup {<<"link", a, b>>})
DeleteLink(l) == l \in link /\ EditLinks(link \ {l}, setUp \ {<<"link", l[1], l[2]>>})
\* Other ends; a second link between the same two is refused by the table.
UpdateLink(l, a, b) ==
  /\ l \in link /\ {a, b} \subseteq Here /\ <<a, b>> \notin link
  /\ EditLinks((link \ {l}) \cup {<<a, b>>}, (setUp \ {<<"link", l[1], l[2]>>}) \cup {<<"link", a, b>>})

-----------------------------------------------------------------------------
(* Interfaces.                                                               *)

\* Mutant: only other interfaces are in the way of an address.
FreeOfInterfaces(d, a) == device[d].ip # a /\ owner[a] = NoOne

\* _ensure_address_free
Free(d, a) == device[d].ip # a /\ owner[a] = NoOne /\ HolderOf(a) = {}

Attach(t, d, a) == d \in Here /\ Free(d, a) /\ Waits(t, [Request("attach", d) EXCEPT !.at = a])

Attached(t) ==
  LET d == task[t].dev
      a == task[t].at
  IN  /\ task[t].kind = "attach" /\ d \in Here /\ owner[a] = NoOne
      /\ owner' = [owner EXCEPT ![a] = d]
      /\ Tell(t, {}, a, Refetch(NoOne, a, {})) /\ DropsLater
      /\ contested' = IF task[t].rival THEN contested \cup {a} ELSE contested
      /\ UNCHANGED <<device, service, link, dismissed, requests, setUp>>

\* The address has a row already, or the device none any more.
AttachRefused(t) ==
  /\ task[t].kind = "attach" /\ (task[t].dev \notin Here \/ owner[task[t].at] # NoOne)
  /\ Fails(t)

Detach(a) ==
  /\ owner[a] # NoOne
  /\ owner' = [owner EXCEPT ![a] = NoOne]
  /\ Writes({})
  /\ UNCHANGED <<device, service, link, dismissed, setUp, contested>>

\* A duplicate is to become an interface of d.  The parent of d, and the services the
\* duplicate has and d lacks, are those loaded before the first write.
Merge(t, d, source) ==
  /\ d \in Here /\ source \in Here \ {d}
  /\ source \notin Agents /\ owner[device[source].ip] = NoOne
  /\ Waits(t, [Request("merge", d) EXCEPT !.other = source, !.at = device[source].ip,
                 !.parent = device[d].parent,
                 !.seen = {s.id : s \in {x \in ServicesOf(source) :
                                           \A y \in ServicesOf(d) : y.port # x.port}}])

\* Mutant: only the links that begin at the duplicate are moved.
MovedLinksOneEnd(d, source) ==
  {<<d, l[2]>> : l \in {x \in link : x[1] = source /\ x[2] \notin {d, source}}}
    \cup {l \in link : source \notin {l[1], l[2]}}

\* _move_topology_links: the duplicate's links become d's, but none from d to itself.
MovedLinks(d, source) ==
  LET End(x) == IF x = source THEN d ELSE x
  IN  {<<End(l[1]), End(l[2])>> : l \in {x \in link : source \in {x[1], x[2]} /\ End(x[1]) # End(x[2])}}
        \cup {l \in link : source \notin {l[1], l[2]}}

\* What was set up for the duplicate is set up for d; the parent of the duplicate itself
\* is not kept, nor are services that changed while it was merged, or that came to a third
\* device with the id of one deleted since.  Neither is a parent d got while it was merged,
\* when the one loaded before was the duplicate.
MovedSetUp(d, source, parent, seen, overtaken) ==
  LET End(x) == IF x = source THEN d ELSE x
  IN  {<<f[1], End(f[2]), IF f[1] = "port" THEN f[3] ELSE End(f[3])>> :
         f \in {x \in setUp : /\ x[1] = "port" => ~(overtaken /\ x[2] = source)
                              /\ ~\E s \in service :
                                      s.id \in seen /\ s.of \notin {d, source} /\ x = <<"port", s.of, s.port>>
                              /\ x[1] = "child" => x[2] # source /\ (x[2] = d => parent # source)
                              /\ x[1] # "port" => End(x[2]) # End(x[3])}}

\* Services are moved by their ids, whosever they are by now.
DevicesOf(ids) == {s.of : s \in {x \in service : x.id \in ids}}

\* d is not to be its own parent: what was loaded is compared.  A parent that has become
\* the duplicate since goes with it (ON DELETE SET NULL).
ParentOfTarget(d, source, loaded) ==
  IF source \in {loaded, device[d].parent} THEN NoOne ELSE device[d].parent

\* The address becomes an interface, everything that refers to the duplicate refers to d,
\* and the duplicate goes.
Merged(t) ==
  LET d == task[t].dev
      source == task[t].other
      a == task[t].at
  IN  /\ task[t].kind = "merge" /\ d \in Here /\ owner[a] = NoOne
      /\ service' = {IF s.id \in task[t].seen THEN [s EXCEPT !.of = d] ELSE s :
                       s \in {x \in service : x.of = source => x.id \in task[t].seen}}
      /\ link' = MovedLinks(d, source)
      /\ device' = [x \in Devices |->
                      IF x = source THEN NoRow
                      ELSE IF x = d
                      THEN [device[d] EXCEPT !.parent = ParentOfTarget(d, source, task[t].parent)]
                      ELSE [device[x] EXCEPT !.parent = IF @ = source THEN d ELSE @]]
      /\ owner' = [x \in Addresses |-> IF x = a \/ owner[x] = source THEN d ELSE owner[x]]
      /\ Tell(t, {d, source} \cup DevicesOf(task[t].seen), a, Refetch(d, a, {})) /\ DropsLater
      /\ setUp' = MovedSetUp(d, source, task[t].parent, task[t].seen, task[t].overtaken)
      /\ contested' = IF task[t].rival THEN contested \cup {a} ELSE contested
      /\ UNCHANGED <<dismissed, requests>>
MergeRefused(t) ==
  /\ task[t].kind = "merge" /\ (task[t].dev \notin Here \/ owner[task[t].at] # NoOne)
  /\ Fails(t)

-----------------------------------------------------------------------------
(* Which devices and discovered addresses look like further interfaces of    *)
(* another device (find_merge_suggestions).                                  *)

\* A signal that is there twice in one subnet cannot point at a single box.
Ambiguous(members) == \E e, f \in members : e # f /\ Segment[e.at] = Segment[f.at]

\* _buckets: the others.
Telling(entities) ==
  {signal \in UNION {Signals[e.at] : e \in entities} :
     ~Ambiguous({e \in entities : signal \in Signals[e.at]})}

\* Two guesses that an address is a gateway prove nothing.
BothGateways(e, f) ==
  /\ "no" \notin {Gateway[e.at], Gateway[f.at]}
  /\ {Gateway[e.at], Gateway[f.at]} # {"suggested"}

Linked(e, f, telling) ==
  /\ "device" \in {e.kind, f.kind}
  /\ Segment[e.at] # Segment[f.at] /\ None \notin {Segment[e.at], Segment[f.at]}
  /\ \/ BothGateways(e, f)
     \/ Signals[e.at] \cap Signals[f.at] \cap telling # {}

\* Which of two keeps its identity: one with an agent, the one with more interfaces, a
\* gateway, the older one.
Rank(d) == <<IF d \in Agents THEN 0 ELSE 1,
             -Cardinality({a \in Addresses : owner[a] = d}),
             IF Gateway[device[d].ip] # "no" THEN 0 ELSE 1,
             d>>
Outranks(d, e) ==
  LET r == Rank(d)
      s == Rank(e)
  IN  \E i \in 1 .. 4 : r[i] < s[i] /\ \A j \in 1 .. i - 1 : r[j] = s[j]

Best(devs) == CHOOSE d \in devs : \A e \in devs \ {d} : Outranks(d, e)

\* _edges: device and entity, linked.
Edges ==
  LET entities == Entities
      telling == Telling(entities)
  IN  {edge \in DeviceEntities \X entities : edge[1] # edge[2] /\ Linked(edge[1], edge[2], telling)}

\* _cluster_roots: devices linked to one another, directly or not, make a cluster; what no
\* edge joins to the rest can be set apart.
Cluster(d, joined) ==
  Here \ UNION {devs \in SUBSET (Here \ {d}) :
                  \A pair \in joined : pair \subseteq devs \/ pair \cap devs = {}}

\* _targets: the best of a cluster is the one the others are to become interfaces of.
Targets(edges) ==
  LET joined == {{e[1].dev, e[2].dev} : e \in {f \in edges : f[2].kind = "device"}}
  IN  [d \in Here |-> Best(Cluster(d, joined))]

\* A target and what looks like an interface of it.  An address that is linked to several
\* clusters is suggested for one of them: all are listed here.
Suggestions ==
  LET edges == Edges
      target == Targets(edges)
  IN  {s \in {<<target[e[1].dev], e[2]>> : e \in edges} :
         s[1] # s[2].dev /\ <<s[1], s[2].kind, s[2].at>> \notin dismissed}

\* The administrator does not want it.
Dismiss ==
  /\ Counted
  /\ \E s \in Suggestions : dismissed' = dismissed \cup {<<s[1], s[2].kind, s[2].at>>}
  /\ UNCHANGED <<tables, listed, mapped, task, setUp, contested, slipped>>

-----------------------------------------------------------------------------
Next ==
  \/ \E t \in Tasks :
       \/ List(t) \/ ShowMap(t) \/ ListStored(t) \/ MapStored(t)
       \/ \E a \in Addresses : Add(t, a) \/ \E d \in Devices : Attach(t, d, a)
       \/ Added(t) \/ AddRefused(t) \/ AddAnswered(t) \/ Attached(t) \/ AttachRefused(t)
       \/ \E d \in Devices : \/ RefreshInfo(t, d) \/ RefreshServices(t, d) \/ OneRefreshed(t, d)
                             \/ \E source \in Devices : Merge(t, d, source)
                             \/ \E p \in Ports : AddService(t, d, p)
       \/ \E s \in service, p \in Ports : UpdateService(t, s, p)
       \/ \E open \in SUBSET Ports : ServicesRefreshed(t, open)
       \/ InfoRefreshed(t) \/ RowGone(t) \/ SeenDeleted(t)
       \/ RefreshAll(t) \/ AllRefreshed(t) \/ EditGroup(t)
       \/ Merged(t) \/ MergeRefused(t) \/ Dropped(t) \/ DropFails(t)
  \/ \E d \in Devices :
       \/ EditDevice(d)
       \/ \E p \in Devices \cup {NoOne} : SetParent(d, p)
       \/ \E b \in Devices \ {d} : CreateLink(d, b)
  \/ \E devs \in SUBSET Devices : DeleteDevices(devs)
  \/ \E s \in service : DeleteService(s)
  \/ DeleteGroup \/ ChangeAgent \/ DeleteRack
  \/ \E l \in link :
       DeleteLink(l) \/ \E d \in Devices \ {l[1], l[2]} : UpdateLink(l, l[1], d) \/ UpdateLink(l, d, l[2])
  \/ \E a \in Addresses : Detach(a)
  \/ Dismiss \/ ListExpires \/ MapExpires

Spec == Init /\ [][Next]_vars

-----------------------------------------------------------------------------
\* Types: ids of rows and caches.
TypeOK ==
  /\ device \in [Devices -> Row] /\ owner \in Owners /\ service \subseteq Services
  /\ link \subseteq Links
  /\ listed \in Caches /\ mapped \in Caches
  /\ \A s, r \in service : s.id = r.id => s = r

\* A merge moves history, cables, children "and services the target lacks" to the device
\* that is kept, "so nothing the operator set up is lost" (interface_service.py:333-334);
\* no port scan, look-up or deletion of something else takes it away either: every link,
\* child and service that was set up is there, between the devices that were kept.  What
\* changes while a merge is under way is not always (MovedSetUp).
NothingSetUpIsLost ==
  \A f \in setUp :
    CASE f[1] = "link"  -> <<f[2], f[3]>> \in link
      [] f[1] = "child" -> device[f[2]].parent = f[3]
      [] f[1] = "port"  -> \E s \in ServicesOf(f[2]) : s.port = f[3]

\* An address is a device or an interface of one, never both (interface_service.py:230-238,
\* devices.py:196-205), through attaching, merging, detaching and adding in any order: but
\* for addresses that two requests had both found free before either took it.
AddressOnce ==
  \A a \in Addresses \ contested : owner[a] = NoOne \/ HolderOf(a) = {}

\* Whoever is still to drop the caches: a request whose row is there, or the refresh of all
\* devices, which drops them in the end (devices.py:172-174).
Dropping(t) == task[t].kind = "all" \/ (task[t].kind \in {"drop", "added"} /\ ~Gone(task[t]))

\* A cached list or map that does not show the tables is about to be dropped, or it was read
\* before a change and stored after it, or the change is one that drops nothing
\* (ListAges): also when the request that made the change fails before it drops the
\* caches, since whoever deleted its row drops them.
CachesAreCurrent ==
  /\ listed = "stale" => "list" \in slipped \/ \E t \in Tasks : Dropping(t)
  /\ mapped = "stale" => "map" \in slipped \/ \E t \in Tasks : Dropping(t)

\* Suggestions can be carried out in any order (interface_service.py:129-148): none wants a
\* target that another one wants merged away, and none would be refused, except for the
\* sake of an agent.
SuggestionsHold ==
  LET suggestions == Suggestions
  IN  \A s \in suggestions :
        /\ \A r \in suggestions : r[1] # s[2].dev
        /\ s[2].at \in contested \/ owner[s[2].at] = NoOne
        /\ s[2].kind = "discovered" => Free(s[1], s[2].at)

\* The types, and no request and no suggestion uses an address twice.
AddressesHold == TypeOK /\ AddressOnce /\ SuggestionsHold
=============================================================================
