---------------------------- MODULE RegistryProofs ----------------------------
(***************************************************************************)
(* Proofs about Registry for any number of devices, addresses, services    *)
(* and overlapping requests.  The invariant says what the rows are         *)
(* (RowsTyped), that what was set up is there (Kept), that addresses are   *)
(* taken once (Single), and of every request that waits what it is about   *)
(* (Shaped) and what still holds of what it has read, unless it was        *)
(* overtaken (SeenHolds) or has a rival (NoRivals).                        *)
(***************************************************************************)
EXTENDS Registry, FiniteSetTheorems, WellFoundedInduction, TLAPS

Kinds == {"idle", "list", "map", "add", "added", "info", "all", "services", "attach", "merge", "drop"}
Seen == SUBSET ((1 .. MaxService) \cup Services \cup Devices)
Requests == [kind : Kinds, dev : Devices \cup {NoOne}, other : Devices \cup {NoOne},
             parent : Devices \cup {NoOne}, at : Addresses \cup {None}, seen : Seen, overtaken : BOOLEAN, rival : BOOLEAN]

Facts == ({"link"} \X Devices \X Devices) \cup ({"child"} \X Devices \X Devices)
           \cup ({"port"} \X Devices \X Ports)

RowsTyped ==
  /\ device \in [Devices -> Row] /\ owner \in Owners /\ service \subseteq Services
  /\ link \subseteq Links
  /\ \A s, r \in service : s.id = r.id => s = r
TasksTyped == task \in [Tasks -> Requests]
CachesTyped == listed \in Caches /\ mapped \in Caches

\* What was set up is there.
LinksKept == \A x, y \in Devices : <<"link", x, y>> \in setUp => <<x, y>> \in link
ChildrenKept ==
  \A x, y \in Devices : <<"child", x, y>> \in setUp => device[x].parent = y /\ x \in Here
PortsKept ==
  \A x \in Devices, p \in Ports : <<"port", x, p>> \in setUp => \E s \in service : s.of = x /\ s.port = p
Kept == setUp \subseteq Facts /\ LinksKept /\ ChildrenKept /\ PortsKept

UniqueIp == \A d, e \in Devices : device[d].ip = device[e].ip => d = e \/ device[d].ip = None
Once == \A a \in Addresses \ contested, d \in Devices : owner[a] = NoOne \/ device[d].ip # a
Single == UniqueIp /\ Once

\* What a request is about.
Shape(r) ==
  /\ r.kind \in {"add", "attach", "merge"} => r.at \in Addresses
  /\ r.kind \in {"attach", "merge"} => r.dev \in Devices
  /\ r.kind = "merge" => r.other \in Devices \ {r.dev}

\* A merge that was not overtaken has seen each service of the duplicate, or the target has
\* one for the port.
Served(r) ==
  r.kind = "merge" /\ ~r.overtaken =>
    \A s \in service : s.of = r.other =>
      s.id \in r.seen \/ \E y \in service : y.of = r.dev /\ y.port = s.port

\* The address of a request without a rival is as free as it was when it was checked.
Unrivalled(r) ==
  ~r.rival =>
    /\ r.kind = "add" => owner[r.at] = NoOne
    /\ r.kind = "attach" => \A d \in Devices : device[d].ip # r.at
    /\ r.kind = "merge" => \A d \in Devices : device[d].ip = r.at => d = r.other

Shaped == \A u \in Tasks : Shape(task[u])
SeenHolds == \A u \in Tasks : Served(task[u])
NoRivals == \A u \in Tasks : Unrivalled(task[u])

Inv ==
  /\ RowsTyped /\ TasksTyped /\ CachesTyped
  /\ Kept /\ Single /\ Shaped /\ SeenHolds /\ NoRivals /\ CachesAreCurrent

-----------------------------------------------------------------------------
(* New ids *)

Less == OpToRel(<, Nat)

LEMMA LessIs == \A x \in Nat : \A y \in Nat : <<x, y>> \in Less <=> x < y
BY DEF Less, OpToRel

\* Max of a bounded set of numbers is its greatest.
LEMMA MaxFacts ==
  ASSUME NEW N \in Nat, NEW S, S \subseteq 0 .. N, S # {}
  PROVE  Max(S) + 1 \in Nat \ {0} /\ \A y \in S : y < Max(S) + 1
<1> DEFINE T == {N - x : x \in S}
<1>1. T \subseteq Nat /\ T # {}
  <2>1. \A x \in S : N - x \in Nat
    OBVIOUS
  <2> QED
    BY <2>1
<1>2. IsWellFoundedOn(Less, Nat)
  BY NatLessThanWellFounded DEF Less
<1>3. \E m \in T : \A z \in T : ~(<<z, m>> \in Less)
  BY <1>1, <1>2, WFMin
<1>4. PICK m \in T : \A z \in T : ~(<<z, m>> \in Less)
  BY <1>3
<1>5. \A z \in T : ~(z < m)
  BY <1>1, <1>4, LessIs
<1>6. PICK x \in S : m = N - x
  BY <1>4
<1>7. \A y \in S : x >= y
  <2>1. \A y \in S : ~(N - y < N - x)
    BY <1>5, <1>6
  <2> QED
    BY <2>1
<1>8. \E z \in S : \A y \in S : z >= y
  BY <1>6, <1>7
<1>9. Max(S) \in S /\ \A y \in S : Max(S) >= y
  BY <1>8 DEF Max
<1>10. \A y \in S : y \in Nat
  OBVIOUS
<1>11. Max(S) \in Nat
  BY <1>9, <1>10
<1>12. \A y \in S : y < Max(S) + 1
  BY <1>9, <1>10, <1>11
<1> QED
  BY <1>11, <1>12

\* A new device gets an id no row has.
LEMMA NewIdIsNew == RowsTyped => NewId \notin Here
<1> SUFFICES ASSUME RowsTyped PROVE NewId \notin Here
  OBVIOUS
<1>1. CASE Here = {}
  BY <1>1
<1>2. CASE Here # {}
  <2>1. Cardinality(Devices) \in Nat
    BY NamesAssumption, FS_CardinalityType
  <2>2. Here \subseteq 0 .. Cardinality(Devices)
    <3> DEFINE n == Cardinality(Devices)
    <3>1. n \in Nat /\ Devices = 1 .. n
      BY <2>1, RegistryAssumption
    <3> HIDE DEF n
    <3>2. Here \subseteq 0 .. n
      BY <3>1 DEF Here
    <3> QED
      BY <3>2 DEF n
  <2>3. \A y \in Here : y < Max(Here) + 1
    BY <1>2, <2>1, <2>2, MaxFacts
  <2>4. NewId = Max(Here) + 1
    BY <1>2 DEF NewId
  <2>5. \A y \in Here : y \in Nat
    BY <2>1, <2>2
  <2> QED
    BY <2>3, <2>4, <2>5
<1> QED
  BY <1>1, <1>2

\* A new service gets an id no row has.
LEMMA NextServiceIsNew ==
  RowsTyped => NextService \in Nat \ {0} /\ \A s \in service : s.id < NextService
<1> SUFFICES ASSUME RowsTyped PROVE NextService \in Nat \ {0} /\ \A s \in service : s.id < NextService
  OBVIOUS
<1> DEFINE Ids == {s.id : s \in service}
<1>1. CASE service = {}
  BY <1>1 DEF NextService
<1>2. CASE service # {}
  <2>1. MaxService \in Nat /\ Ids \subseteq 0 .. MaxService /\ Ids # {}
    BY <1>2, RegistryAssumption DEF RowsTyped, Services
  <2>2. Max(Ids) + 1 \in Nat \ {0} /\ \A y \in Ids : y < Max(Ids) + 1
    BY <2>1, MaxFacts
  <2>3. NextService = Max(Ids) + 1
    BY <1>2 DEF NextService
  <2> QED
    BY <2>2, <2>3
<1> QED
  BY <1>1, <1>2

-----------------------------------------------------------------------------
(* What a step makes of the requests that wait *)

Critical == {"add", "attach", "merge"}

\* r goes on as q: overtaken if it has read a device of devs, a rival's if it is about a.
GoesOn(r, q, devs, a) ==
  /\ q.kind = r.kind /\ q.dev = r.dev /\ q.other = r.other /\ q.at = r.at /\ q.seen = r.seen
  /\ ~q.overtaken => ~r.overtaken /\ r.dev \notin devs /\ r.other \notin devs
  /\ ~q.rival => ~r.rival /\ (a = None \/ r.at # a)

Hears(devs, a) == \A u \in Tasks : task'[u].kind \in Critical => GoesOn(task[u], task'[u], devs, a)
DroppingGoesOn == \A u \in Tasks : Dropping(u) => Dropping(u)'

\* A step that writes services of devs only, and takes no address but a.
ServicesStay(devs) ==
  \A s : s.of \notin devs => (s \in service' <=> s \in service)
AddressesStay(a) ==
  \A x \in Addresses : a = x \/ ( /\ owner[x] = NoOne => owner'[x] = NoOne
                               /\ \A d \in Devices : device'[d].ip = x => device[d].ip = x )

LEMMA ShapedStays == ASSUME Shaped, NEW devs, NEW a, Hears(devs, a) PROVE Shaped'
<1> SUFFICES ASSUME NEW u \in Tasks PROVE Shape(task'[u])
  BY DEF Shaped, Shape
<1>1. CASE task'[u].kind \in Critical
  BY <1>1 DEF Shaped, Shape, Hears, GoesOn
<1>2. CASE task'[u].kind \notin Critical
  BY <1>2 DEF Shape, Critical
<1> QED
  BY <1>1, <1>2

LEMMA SeenStays ==
  ASSUME SeenHolds, NEW devs, NEW a, Hears(devs, a), ServicesStay(devs)
  PROVE  SeenHolds'
<1> SUFFICES ASSUME NEW u \in Tasks, task'[u].kind = "merge", ~task'[u].overtaken,
                    NEW s \in service', s.of = task'[u].other
             PROVE  s.id \in task'[u].seen \/ \E y \in service' : y.of = task'[u].dev /\ y.port = s.port
  BY DEF SeenHolds, Served
<1>1. GoesOn(task[u], task'[u], devs, a)
  BY DEF Hears, Critical
<1>2. /\ task[u].kind = "merge" /\ ~task[u].overtaken /\ task[u].other = task'[u].other
      /\ task[u].dev = task'[u].dev /\ task[u].seen = task'[u].seen
      /\ task[u].dev \notin devs /\ task[u].other \notin devs
  BY <1>1 DEF GoesOn
<1>3. s \in service
  BY <1>2 DEF ServicesStay
<1>4. s.id \in task[u].seen \/ \E y \in service : y.of = task[u].dev /\ y.port = s.port
  BY <1>2, <1>3 DEF SeenHolds, Served
<1> QED
  BY <1>2, <1>4 DEF ServicesStay

LEMMA RivalsStay ==
  ASSUME NoRivals, Shaped, NEW devs, NEW a, Hears(devs, a), AddressesStay(a)
  PROVE  NoRivals'
<1> SUFFICES ASSUME NEW u \in Tasks, ~task'[u].rival, task'[u].kind \in Critical
             PROVE  /\ task'[u].kind = "add" => owner'[task'[u].at] = NoOne
                    /\ task'[u].kind = "attach" => \A d \in Devices : device'[d].ip # task'[u].at
                    /\ task'[u].kind = "merge" =>
                         \A d \in Devices : device'[d].ip = task'[u].at => d = task'[u].other
  BY DEF NoRivals, Unrivalled, Critical
<1>1. GoesOn(task[u], task'[u], devs, a)
  BY DEF Hears
<1>2. /\ task[u].kind = task'[u].kind /\ ~task[u].rival /\ task[u].other = task'[u].other
      /\ task[u].at = task'[u].at /\ (a = None \/ task[u].at # a)
  BY <1>1 DEF GoesOn
<1>3. task[u].at \in Addresses
  BY <1>2 DEF Shaped, Shape, Critical
<1>4. a # task[u].at
  BY <1>2, <1>3, NamesAssumption
<1>5. Unrivalled(task[u])
  BY DEF NoRivals
<1> QED
  BY <1>2, <1>3, <1>4, <1>5 DEF Unrivalled, AddressesStay

\* What is left to show of a step.
LEMMA StepKeeps ==
  ASSUME Inv, NEW devs, NEW a, Hears(devs, a), ServicesStay(devs), AddressesStay(a),
         TasksTyped', CachesTyped', CachesAreCurrent', RowsTyped', Kept', Single'
  PROVE  Inv'
BY ShapedStays, SeenStays, RivalsStay DEF Inv

LEMMA IdleFits == Idle \in Requests /\ Idle.kind = "idle"
BY DEF Idle, Requests, Kinds, Seen

\* The others when t writes.
LEMMA ToldFacts ==
  ASSUME TasksTyped, NEW t, NEW devs, NEW a, NEW u \in Tasks
  PROVE  /\ Told(t, devs, a)[u] \in Requests /\ Told(t, devs, a)[u].kind = task[u].kind
         /\ Told(t, devs, a)[u].seen = task[u].seen
         /\ (u # t /\ task[u].kind \in Critical) => GoesOn(task[u], Told(t, devs, a)[u], devs, a)
<1> DEFINE over == task[u].overtaken \/ Overtaken(task[u], devs)
           riv == task[u].rival \/ (a # None /\ task[u].at = a)
           q == [task[u] EXCEPT !.overtaken = over, !.rival = riv]
<1>1. task[u] \in Requests
  BY DEF TasksTyped
<1>2. CASE u = t \/ task[u] = Idle
  <2>1. Told(t, devs, a)[u] = task[u]
    BY <1>2 DEF Told
  <2> QED
    BY <1>1, <1>2, <2>1, IdleFits DEF Critical
<1>3. CASE ~(u = t \/ task[u] = Idle)
  <2>1. Told(t, devs, a)[u] = q
    BY <1>3 DEF Told
  <2>2. over \in BOOLEAN /\ riv \in BOOLEAN
    BY <1>1 DEF Requests
  <2>3. ~over => ~task[u].overtaken /\ task[u].dev \notin devs /\ task[u].other \notin devs
    BY DEF Overtaken
  <2> HIDE DEF over
  <2>4. /\ q \in Requests /\ q.kind = task[u].kind /\ q.dev = task[u].dev /\ q.other = task[u].other
        /\ q.at = task[u].at /\ q.seen = task[u].seen /\ q.overtaken = over /\ q.rival = riv
    <3> HIDE DEF riv
    <3> QED
      BY <1>1, <2>2 DEF Requests
  <2>5. GoesOn(task[u], q, devs, a)
    BY <2>3, <2>4 DEF GoesOn
  <2> QED
    BY <2>1, <2>4, <2>5
<1> QED
  BY <1>2, <1>3

\* A write drops both caches.
LEMMA InvalidatedFacts == ASSUME InvalidateBoth PROVE CachesTyped' /\ CachesAreCurrent'
BY DEF InvalidateBoth, CachesTyped, Caches, CachesAreCurrent, None

LEMMA WritesFacts ==
  ASSUME Inv, NEW devs, Writes(devs)
  PROVE  Hears(devs, None) /\ TasksTyped' /\ CachesTyped' /\ CachesAreCurrent'
<1>1. task' = Told(NoOne, devs, None) /\ InvalidateBoth
  BY DEF Writes
<1>2. TasksTyped
  BY DEF Inv
<1>3. \A u \in Tasks : u # NoOne
  BY NamesAssumption
<1>4. Hears(devs, None)
  BY <1>1, <1>2, <1>3, ToldFacts DEF Hears
<1>5. Told(NoOne, devs, None) = [u \in Tasks |-> Told(NoOne, devs, None)[u]]
  BY DEF Told
<1>6. TasksTyped'
  BY <1>1, <1>2, <1>5, ToldFacts DEF TasksTyped
<1> QED
  BY <1>1, <1>4, <1>6, InvalidatedFacts

\* A request that has waited writes, and is done or goes on as r.
LEMMA GoneOnFacts ==
  ASSUME Inv, NEW t \in Tasks, NEW devs, NEW a, NEW r \in Requests, r.kind \notin Critical,
         task' = [u \in Tasks |-> IF u = t THEN r ELSE Told(t, devs, a)[u]]
  PROVE  Hears(devs, a) /\ TasksTyped'
<1>1. TasksTyped
  BY DEF Inv
<1>2. Hears(devs, a)
  BY <1>1, ToldFacts DEF Hears
<1>3. TasksTyped'
  BY <1>1, ToldFacts DEF TasksTyped
<1> QED
  BY <1>2, <1>3

LEMMA TellFacts ==
  ASSUME Inv, NEW t \in Tasks, NEW devs, NEW a, NEW q \in Requests, q.kind \notin Critical,
         Tell(t, devs, a, q)
  PROVE  Hears(devs, a) /\ TasksTyped' /\ task'[t] = q
<1>1. task' = [u \in Tasks |-> IF u = t THEN q ELSE Told(t, devs, a)[u]]
  BY DEF Tell, Told
<1> QED
  BY <1>1, GoneOnFacts

LEMMA WritesFirstFacts ==
  ASSUME Inv, NEW t \in Tasks, NEW devs, NEW q \in Requests, q.kind \notin Critical,
         WritesFirst(t, devs, q)
  PROVE  Hears(devs, None) /\ TasksTyped' /\ task'[t] = q /\ DropsLater
BY TellFacts DEF WritesFirst, Tell

\* A write that drops the caches later leaves somebody who will.
LEMMA DropsLaterFacts ==
  ASSUME Inv, DropsLater, NEW t \in Tasks, Dropping(t)'
  PROVE  CachesTyped' /\ CachesAreCurrent'
<1>1. CachesTyped'
  BY DEF Inv, CachesTyped, Caches, DropsLater, Older
<1>2. CachesAreCurrent'
  BY DEF CachesAreCurrent
<1> QED
  BY <1>1, <1>2

LEMMA StillDrops ==
  ASSUME NEW t \in Tasks, NEW q, task'[t] = q, q.kind \in {"drop", "added"},
         q.dev \in Here' \cup {NoOne}, q.at = None \/ owner'[q.at] # NoOne,
         q.seen \subseteq {s.id : s \in service'}
  PROVE  Dropping(t)'
BY DEF Dropping, Gone

\* Whoever was to drop the caches still is, when no row comes or goes.
LEMMA OthersDrop ==
  ASSUME UNCHANGED <<device, owner, service>>,
         \A u \in Tasks : Dropping(u) =>
           \/ task'[u].kind = "all"
           \/ /\ task'[u].kind = task[u].kind /\ task'[u].dev = task[u].dev
              /\ task'[u].at = task[u].at /\ task'[u].seen = task[u].seen
  PROVE  DroppingGoesOn
BY DEF DroppingGoesOn, Dropping, Gone, Here

\* The rows stay as they are.
LEMMA RowsStay ==
  ASSUME Inv, UNCHANGED <<device, owner, service, link, setUp, contested>>
  PROVE  RowsTyped' /\ Kept' /\ Single' /\ \A devs, a : ServicesStay(devs) /\ AddressesStay(a)
<1>1. RowsTyped'
  BY DEF Inv, RowsTyped
<1>2. Kept'
  BY DEF Inv, Kept, LinksKept, ChildrenKept, PortsKept, Here
<1>3. Single'
  BY DEF Inv, Single, UniqueIp, Once
<1>4. \A devs, a : ServicesStay(devs) /\ AddressesStay(a)
  BY DEF ServicesStay, AddressesStay
<1> QED
  BY <1>1, <1>2, <1>3, <1>4

\* One task becomes r, the others stay.
LEMMA OneBecomes ==
  ASSUME Inv, NEW t \in Tasks, NEW r \in Requests, task' = [task EXCEPT ![t] = r]
  PROVE  TasksTyped' /\ \A u \in Tasks : task'[u] = IF u = t THEN r ELSE task[u]
BY DEF Inv, TasksTyped

\* The caches stay, and so does who is to drop them.
LEMMA CachesStay ==
  ASSUME Inv, UNCHANGED <<listed, mapped, slipped>>, DroppingGoesOn
  PROVE  CachesTyped' /\ CachesAreCurrent'
BY DEF Inv, CachesTyped, CachesAreCurrent, DroppingGoesOn

\* A request that begins to wait.
LEMMA WaitsKeeps ==
  ASSUME Inv, NEW t \in Tasks, NEW r \in Requests, Waits(t, r), Shape(r), Served(r), Unrivalled(r)
  PROVE  Inv'
<1>1. /\ UNCHANGED <<device, owner, service, link, listed, mapped, setUp, contested, slipped>>
      /\ task[t] = Idle /\ task' = [task EXCEPT ![t] = r]
  BY DEF Waits, tables
<1>2. TasksTyped' /\ \A u \in Tasks : task'[u] = IF u = t THEN r ELSE task[u]
  BY <1>1, OneBecomes
<1>3. DroppingGoesOn
  <2>1. ~Dropping(t)
    BY <1>1, IdleFits DEF Dropping
  <2> QED
    BY <1>1, <1>2, <2>1, OthersDrop
<1>4. CachesTyped' /\ CachesAreCurrent'
  BY <1>1, <1>3, CachesStay
<1>5. RowsTyped' /\ Kept' /\ Single'
  BY <1>1, RowsStay
<1>6. Shaped'
  BY <1>2 DEF Inv, Shaped, Shape
<1>7. SeenHolds'
  BY <1>1, <1>2 DEF Inv, SeenHolds, Served
<1>8. NoRivals'
  BY <1>1, <1>2 DEF Inv, NoRivals, Unrivalled
<1> QED
  BY <1>2, <1>4, <1>5, <1>6, <1>7, <1>8 DEF Inv

\* A request that fails, or only ends.
LEMMA FailsKeeps ==
  ASSUME Inv, NEW t \in Tasks, Fails(t), ~Dropping(t)
  PROVE  Inv'
<1>1. /\ UNCHANGED <<device, owner, service, link, listed, mapped, setUp, contested, slipped>>
      /\ task' = [task EXCEPT ![t] = Idle]
  BY DEF Fails, tables
<1>2. TasksTyped' /\ \A u \in Tasks : task'[u] = IF u = t THEN Idle ELSE task[u]
  BY <1>1, OneBecomes, IdleFits
<1>3. DroppingGoesOn
  BY <1>1, <1>2, OthersDrop
<1>4. Hears({}, None)
  BY <1>2, IdleFits DEF Hears, GoesOn, Critical
<1> QED
  BY <1>1, <1>2, <1>3, <1>4, CachesStay, RowsStay, StepKeeps

-----------------------------------------------------------------------------
(* Lists and the map *)

LEMMA RequestFits ==
  ASSUME NEW kind \in Kinds, NEW d \in Devices \cup {NoOne}
  PROVE  /\ Request(kind, d) \in Requests /\ Request(kind, d).kind = kind /\ Request(kind, d).dev = d
         /\ Request(kind, d).at = None /\ Request(kind, d).seen = {}
<1>1. Idle \in Requests /\ Idle.at = None /\ Idle.seen = {}
  BY DEF Idle, Requests, Kinds, Seen
<1> QED
  BY <1>1 DEF Request, Requests

LEMMA RefetchFits ==
  ASSUME NEW d \in Devices \cup {NoOne}, NEW a \in Addresses \cup {None},
         NEW ids \in SUBSET (1 .. MaxService)
  PROVE  LET q == Refetch(d, a, ids)
         IN  q \in Requests /\ q.kind = "drop" /\ q.dev = d /\ q.at = a /\ q.seen = ids
<1>1. Request("drop", d) \in Requests /\ Request("drop", d).kind = "drop" /\ Request("drop", d).dev = d
  BY RequestFits DEF Kinds
<1>2. ids \in Seen
  BY DEF Seen
<1> QED
  BY <1>1, <1>2 DEF Refetch, Requests

LEMMA FreeShape == ASSUME NEW r, r.kind \notin Critical PROVE Shape(r) /\ Served(r) /\ Unrivalled(r)
BY DEF Shape, Served, Unrivalled, Critical

LEMMA ListKeeps == ASSUME Inv, NEW t \in Tasks, List(t) \/ ShowMap(t) PROVE Inv'
<1>1. ASSUME NEW kind \in {"list", "map"}, Waits(t, Request(kind, NoOne)) PROVE Inv'
  <2>1. Request(kind, NoOne) \in Requests /\ Request(kind, NoOne).kind \notin Critical
    BY RequestFits DEF Kinds, Critical
  <2> QED
    BY <1>1, <2>1, FreeShape, WaitsKeeps
<1> QED
  BY <1>1 DEF List, ShowMap

LEMMA ListStoredKeeps == ASSUME Inv, NEW t \in Tasks, ListStored(t) PROVE Inv'
<1>1. /\ UNCHANGED <<device, owner, service, link, mapped, setUp, contested>>
      /\ task' = [task EXCEPT ![t] = Idle] /\ task[t].kind = "list"
  BY DEF ListStored, tables
<1>2. TasksTyped' /\ \A u \in Tasks : task'[u] = IF u = t THEN Idle ELSE task[u]
  BY <1>1, OneBecomes, IdleFits
<1>3. Hears({}, None)
  BY <1>2, IdleFits DEF Hears, GoesOn, Critical
<1>4. CachesTyped'
  BY <1>1 DEF Inv, CachesTyped, Caches, ListStored, Cached
<1>5. listed' = "stale" => "list" \in slipped'
  BY DEF ListStored, Cached
<1>6. "map" \in slipped => "map" \in slipped'
  BY DEF ListStored
<1>7. DroppingGoesOn
  <2>1. ~Dropping(t)
    BY <1>1 DEF Dropping
  <2> QED
    BY <1>1, <1>2, <2>1, OthersDrop
<1>8. CachesAreCurrent'
  BY <1>1, <1>5, <1>6, <1>7 DEF Inv, CachesAreCurrent, DroppingGoesOn
<1> QED
  BY <1>1, <1>2, <1>3, <1>4, <1>8, RowsStay, StepKeeps

LEMMA MapStoredKeeps == ASSUME Inv, NEW t \in Tasks, MapStored(t) PROVE Inv'
<1>1. /\ UNCHANGED <<device, owner, service, link, listed, setUp, contested>>
      /\ task' = [task EXCEPT ![t] = Idle] /\ task[t].kind = "map"
  BY DEF MapStored, tables
<1>2. TasksTyped' /\ \A u \in Tasks : task'[u] = IF u = t THEN Idle ELSE task[u]
  BY <1>1, OneBecomes, IdleFits
<1>3. Hears({}, None)
  BY <1>2, IdleFits DEF Hears, GoesOn, Critical
<1>4. CachesTyped'
  BY <1>1 DEF Inv, CachesTyped, Caches, MapStored, Cached
<1>5. mapped' = "stale" => "map" \in slipped'
  BY DEF MapStored, Cached
<1>6. "list" \in slipped => "list" \in slipped'
  BY DEF MapStored
<1>7. DroppingGoesOn
  <2>1. ~Dropping(t)
    BY <1>1 DEF Dropping
  <2> QED
    BY <1>1, <1>2, <2>1, OthersDrop
<1>8. CachesAreCurrent'
  BY <1>1, <1>5, <1>6, <1>7 DEF Inv, CachesAreCurrent, DroppingGoesOn
<1> QED
  BY <1>1, <1>2, <1>3, <1>4, <1>8, RowsStay, StepKeeps

\* Requests stay as they are.
LEMMA TasksStay ==
  ASSUME Inv, UNCHANGED <<device, owner, service, task>>
  PROVE  TasksTyped' /\ DroppingGoesOn /\ Hears({}, None)
<1>1. Hears({}, None)
  BY DEF Hears, GoesOn
<1>2. DroppingGoesOn
  BY OthersDrop
<1> QED
  BY <1>1, <1>2 DEF Inv, TasksTyped

LEMMA ExpiresKeeps == ASSUME Inv, ListExpires \/ MapExpires PROVE Inv'
<1>1. UNCHANGED <<device, owner, service, link, task, setUp, contested>>
  BY DEF ListExpires, MapExpires, tables
<1>2. TasksTyped' /\ DroppingGoesOn /\ Hears({}, None)
  BY <1>1, TasksStay
<1>3. CachesTyped' /\ CachesAreCurrent'
  <2>1. CASE ListExpires
    BY <1>2, <2>1 DEF Inv, ListExpires, CachesTyped, CachesAreCurrent, Caches, None, DroppingGoesOn
  <2>2. CASE MapExpires
    BY <1>2, <2>2 DEF Inv, MapExpires, CachesTyped, CachesAreCurrent, Caches, None, DroppingGoesOn
  <2> QED
    BY <2>1, <2>2
<1> QED
  BY <1>1, <1>2, <1>3, RowsStay, StepKeeps

\* A dismissed suggestion is remembered, and nothing else.
LEMMA DismissKeeps == ASSUME Inv, Dismiss PROVE Inv'
<1>1. UNCHANGED <<device, owner, service, link, listed, mapped, task, setUp, contested, slipped>>
  BY DEF Dismiss, tables
<1> QED
  BY <1>1, TasksStay, CachesStay, RowsStay, StepKeeps

-----------------------------------------------------------------------------
(* Devices *)

LEMMA RowFacts ==
  ASSUME RowsTyped, NEW d \in Devices
  PROVE  device[d] \in Row /\ (d \in Here <=> device[d].ip \in Addresses)
<1>1. device[d] \in Row
  BY DEF RowsTyped
<1>2. device[d].ip \in Addresses \cup {None}
  BY <1>1 DEF Row
<1> QED
  BY <1>1, <1>2, NamesAssumption DEF Here

\* A row of a device that keeps its address.
LEMMA RowChanges ==
  ASSUME Inv, NEW d \in Here, NEW row \in Row, row.ip = device[d].ip,
         device' = [device EXCEPT ![d] = row], UNCHANGED <<owner, service, link, contested>>
  PROVE  /\ RowsTyped' /\ Single' /\ ServicesStay({}) /\ AddressesStay(None)
         /\ Here' = Here /\ \A e \in Devices : device'[e] = IF e = d THEN row ELSE device[e]
<1>1. \A e \in Devices : device'[e] = IF e = d THEN row ELSE device[e]
  BY DEF Inv, RowsTyped
<1>2. \A e \in Devices : device'[e].ip = device[e].ip
  BY <1>1
<1>3. RowsTyped'
  BY DEF Inv, RowsTyped, Here
<1>4. Single'
  BY <1>2 DEF Inv, Single, UniqueIp, Once
<1>5. Here' = Here
  BY <1>2 DEF Here
<1>6. ServicesStay({}) /\ AddressesStay(None)
  BY <1>2 DEF ServicesStay, AddressesStay
<1> QED
  BY <1>1, <1>3, <1>4, <1>5, <1>6

LEMMA NoOneIsNoDevice == NoOne \notin Devices
<1>1. Cardinality(Devices) \in Nat
  BY NamesAssumption, FS_CardinalityType
<1> DEFINE n == Cardinality(Devices)
<1>2. n \in Nat /\ Devices = 1 .. n
  BY <1>1, RegistryAssumption
<1> HIDE DEF n
<1> QED
  BY <1>2 DEF NoOne

\* A write of what is not kept.
LEMMA WritesOnly ==
  ASSUME Inv, Writes({}), UNCHANGED <<device, owner, service, link, contested, setUp>>
  PROVE  Inv'
BY WritesFacts, RowsStay, StepKeeps

\* Reads of these kinds are overtaken, and no row comes or goes.
LEMMA OvertakesFacts ==
  ASSUME Inv, NEW kinds, Overtakes(kinds), UNCHANGED <<device, owner, service>>
  PROVE  TasksTyped' /\ DroppingGoesOn /\ Hears({}, None)
<1> DEFINE r(u) == [task[u] EXCEPT !.overtaken = @ \/ task[u].kind \in kinds]
<1>1. task' = [u \in Tasks |-> r(u)]
  BY DEF Overtakes
<1>2. ASSUME NEW u \in Tasks
      PROVE  r(u) \in Requests /\ r(u).kind = task[u].kind /\ GoesOn(task[u], r(u), {}, None)
  <2> DEFINE over == task[u].overtaken \/ task[u].kind \in kinds
             q == [task[u] EXCEPT !.overtaken = over]
  <2>1. r(u) = q
    OBVIOUS
  <2>2. task[u] \in Requests
    BY DEF Inv, TasksTyped
  <2>3. over \in BOOLEAN /\ (~over => ~task[u].overtaken)
    BY <2>2 DEF Requests
  <2> HIDE DEF r, over
  <2>4. /\ q \in Requests /\ q.kind = task[u].kind /\ q.dev = task[u].dev /\ q.other = task[u].other
        /\ q.at = task[u].at /\ q.seen = task[u].seen /\ q.overtaken = over /\ q.rival = task[u].rival
    BY <2>2, <2>3 DEF Requests
  <2> HIDE DEF q
  <2>5. GoesOn(task[u], q, {}, None)
    BY <2>3, <2>4 DEF GoesOn
  <2> QED
    BY <2>1, <2>4, <2>5
<1> HIDE DEF r
<1>3. \A u \in Tasks : /\ task'[u].kind = task[u].kind /\ task'[u].dev = task[u].dev
                        /\ task'[u].at = task[u].at /\ task'[u].seen = task[u].seen
  BY <1>1, <1>2 DEF GoesOn
<1>4. DroppingGoesOn
  BY <1>3, OthersDrop
<1> QED
  BY <1>1, <1>2, <1>4 DEF TasksTyped, Hears

\* The list is not dropped, and marked as older than the write.
LEMMA ListAgesKeeps == ASSUME Inv, ChangeAgent \/ DeleteRack PROVE Inv'
<1>1. /\ UNCHANGED <<device, owner, service, link, setUp, contested>>
      /\ listed' = Older(listed) /\ (listed # None => "list" \in slipped')
      /\ \/ mapped' = mapped /\ ("map" \in slipped => "map" \in slipped')
         \/ mapped' = None
      /\ \E kinds : Overtakes(kinds)
  BY DEF ChangeAgent, DeleteRack, ListAges, Aged, tables
<1>2. TasksTyped' /\ DroppingGoesOn /\ Hears({}, None)
  BY <1>1, OvertakesFacts
<1>3. CachesTyped'
  BY <1>1 DEF Inv, CachesTyped, Caches, Older
<1>4. listed' = "stale" => "list" \in slipped'
  BY <1>1 DEF Older, None
<1>5. mapped' = "stale" => "map" \in slipped' \/ \E u \in Tasks : Dropping(u)'
  <2>1. mapped = "stale" => "map" \in slipped \/ \E u \in Tasks : Dropping(u)
    BY DEF Inv, CachesAreCurrent
  <2> QED
    BY <1>1, <1>2, <2>1 DEF DroppingGoesOn, None
<1>6. CachesAreCurrent'
  BY <1>4, <1>5 DEF CachesAreCurrent
<1> QED
  BY <1>1, <1>2, <1>3, <1>6, RowsStay, StepKeeps

LEMMA EditKeeps ==
  ASSUME Inv, DeleteGroup \/ \E d \in Devices : EditDevice(d)
  PROVE  Inv'
<1>1. Writes({}) /\ UNCHANGED <<device, owner, service, link, contested, setUp>>
  BY DEF EditDevice, DeleteGroup, tables
<1> QED
  BY <1>1, WritesOnly

LEMMA SetParentKeeps ==
  ASSUME Inv, NEW d \in Devices, NEW p \in Devices \cup {NoOne}, SetParent(d, p)
  PROVE  Inv'
<1> DEFINE row == [device[d] EXCEPT !.parent = p]
<1>1. /\ d \in Here /\ device' = [device EXCEPT ![d] = row] /\ Writes({})
      /\ UNCHANGED <<owner, service, link, contested>>
      /\ setUp' = {f \in setUp : ~(f[1] = "child" /\ f[2] = d)}
                    \cup (IF p = NoOne THEN {} ELSE {<<"child", d, p>>})
  BY DEF SetParent
<1>2. row \in Row /\ row.ip = device[d].ip /\ row.parent = p
  BY RowFacts DEF Inv, Row
<1> HIDE DEF row
<1>3. /\ RowsTyped' /\ Single' /\ ServicesStay({}) /\ AddressesStay(None)
      /\ Here' = Here /\ \A e \in Devices : device'[e] = IF e = d THEN row ELSE device[e]
  BY <1>1, <1>2, RowChanges
<1>4. Kept'
  <2>1. setUp' \subseteq Facts
    BY <1>1 DEF Inv, Kept, Facts
  <2>2. LinksKept' /\ PortsKept'
    BY <1>1 DEF Inv, Kept, LinksKept, PortsKept
  <2>3. ASSUME NEW x \in Devices, NEW y \in Devices, <<"child", x, y>> \in setUp'
        PROVE  device'[x].parent = y /\ x \in Here
    <3>1. CASE x = d
      BY <1>1, <1>2, <1>3, <2>3, <3>1
    <3>2. CASE x # d
      BY <1>1, <1>3, <2>3, <3>2 DEF Inv, Kept, ChildrenKept
    <3> QED
      BY <3>1, <3>2
  <2> QED
    BY <1>3, <2>1, <2>2, <2>3 DEF Kept, ChildrenKept
<1> QED
  BY <1>1, <1>3, <1>4, WritesFacts, StepKeeps

LEMMA DeleteDevicesKeeps == ASSUME Inv, NEW devs \in SUBSET Devices, DeleteDevices(devs) PROVE Inv'
<1> DEFINE orphan(d) == [device[d] EXCEPT !.parent = NoOne]
           row(d) == IF d \in devs THEN NoRow ELSE IF device[d].parent \in devs THEN orphan(d) ELSE device[d]
<1>1. /\ device' = [d \in Devices |-> row(d)] /\ Writes(devs)
      /\ owner' = [a \in Addresses |-> IF owner[a] \in devs THEN NoOne ELSE owner[a]]
      /\ service' = {s \in service : s.of \notin devs}
      /\ link' = {l \in link : {l[1], l[2]} \cap devs = {}}
      /\ setUp' = {f \in setUp : f[2] \notin devs /\ (f[1] # "port" => f[3] \notin devs)}
      /\ UNCHANGED contested
  BY DEF DeleteDevices
<1>2. ASSUME NEW d \in Devices
      PROVE  /\ row(d) \in Row
             /\ (d \notin devs => row(d).ip = device[d].ip) /\ (d \in devs => row(d).ip = None)
             /\ (d \notin devs /\ device[d].parent \notin devs => row(d).parent = device[d].parent)
  BY RowFacts DEF Inv, Row, NoRow
<1> HIDE DEF row
<1>3. \A d \in Devices : device'[d] = row(d)
  BY <1>1
<1>4. RowsTyped'
  <2>1. device' \in [Devices -> Row]
    BY <1>1, <1>2
  <2>2. owner' \in Owners
    BY <1>1 DEF Inv, RowsTyped, Owners
  <2>3. service' \subseteq service /\ link' \subseteq link
    BY <1>1
  <2> QED
    BY <1>1, <2>1, <2>2, <2>3 DEF Inv, RowsTyped
<1>5. Single'
  <2>1. UniqueIp'
    BY <1>2, <1>3 DEF Inv, Single, UniqueIp
  <2>2. Once'
    BY <1>1, <1>2, <1>3, NamesAssumption DEF Inv, Single, Once, RowsTyped, Owners
  <2> QED
    BY <2>1, <2>2 DEF Single
<1>6. Kept'
  <2>1. setUp' \subseteq Facts
    BY <1>1 DEF Inv, Kept
  <2>2. LinksKept'
    BY <1>1 DEF Inv, Kept, LinksKept
  <2>3. ChildrenKept'
    BY <1>1, <1>2, <1>3 DEF Inv, Kept, ChildrenKept, Here
  <2>4. PortsKept'
    BY <1>1 DEF Inv, Kept, PortsKept
  <2> QED
    BY <2>1, <2>2, <2>3, <2>4 DEF Kept
<1>7. ServicesStay(devs)
  BY <1>1 DEF ServicesStay
<1>8. AddressesStay(None)
  BY <1>1, <1>2, <1>3, NamesAssumption DEF AddressesStay, Inv, RowsTyped, Owners
<1> QED
  BY <1>1, <1>4, <1>5, <1>6, <1>7, <1>8, WritesFacts, StepKeeps

-----------------------------------------------------------------------------
(* Adding a device *)

LEMMA AddKeeps == ASSUME Inv, NEW t \in Tasks, NEW a \in Addresses, Add(t, a) PROVE Inv'
<1> DEFINE r == [Request("add", NoOne) EXCEPT !.at = a]
<1>1. Request("add", NoOne) \in Requests /\ Request("add", NoOne).kind = "add"
  BY RequestFits DEF Kinds
<1>2. r \in Requests /\ r.kind = "add" /\ r.at = a
  BY <1>1 DEF Requests
<1>3. Waits(t, r) /\ owner[a] = NoOne
  BY DEF Add
<1> HIDE DEF r
<1>4. Shape(r) /\ Served(r) /\ Unrivalled(r)
  BY <1>2, <1>3 DEF Shape, Served, Unrivalled
<1> QED
  BY <1>2, <1>3, <1>4, WaitsKeeps

LEMMA AddedKeeps == ASSUME Inv, NEW t \in Tasks, Added(t) PROVE Inv'
<1> DEFINE a == task[t].at
           n == NewId
           row == [NoRow EXCEPT !.ip = a]
           r == Request("added", n)
<1>1. /\ task[t].kind = "add" /\ HolderOf(a) = {} /\ n \in Devices
      /\ device' = [device EXCEPT ![n] = row]
      /\ Tell(t, {}, a, r) /\ DropsLater
      /\ contested' = IF task[t].rival THEN contested \cup {a} ELSE contested
      /\ UNCHANGED <<owner, service, link, setUp>>
  BY DEF Added
<1>2. a \in Addresses /\ a # None
  BY <1>1, NamesAssumption DEF Inv, Shaped, Shape
<1>3. n \notin Here /\ device[n].ip = None
  BY <1>1, NewIdIsNew DEF Inv, Here
<1>4. row \in Row /\ row.ip = a
  BY <1>2 DEF Row, NoRow
<1>5. r \in Requests /\ r.kind = "added" /\ r.dev = n /\ r.at = None /\ r.seen = {}
  BY <1>1, RequestFits DEF Kinds
<1> HIDE DEF a, n, row, r
<1>6. r.kind \notin Critical
  BY <1>5 DEF Critical
<1>7. Hears({}, a) /\ TasksTyped' /\ task'[t] = r
  BY <1>1, <1>5, <1>6, TellFacts
<1>8. \A d \in Devices : device'[d] = IF d = n THEN row ELSE device[d]
  BY <1>1 DEF Inv, RowsTyped
<1>9. RowsTyped'
  BY <1>1, <1>4 DEF Inv, RowsTyped
<1>10. Kept'
  BY <1>1, <1>3, <1>8 DEF Inv, Kept, LinksKept, ChildrenKept, PortsKept, Here
<1>11. \A d \in Devices : device[d].ip # a
  BY <1>1, <1>2 DEF HolderOf, Here
<1>12. UniqueIp'
  BY <1>4, <1>8, <1>11 DEF Inv, Single, UniqueIp
<1>13. ~task[t].rival => owner[a] = NoOne
  BY <1>1 DEF Inv, NoRivals, Unrivalled, a
<1>14. a \in contested' \/ owner[a] = NoOne
  BY <1>1, <1>13
<1>15. contested \subseteq contested'
  BY <1>1
<1>16. Once'
  BY <1>1, <1>4, <1>8, <1>14, <1>15 DEF Inv, Single, Once
<1>17. ServicesStay({})
  BY <1>1 DEF ServicesStay
<1>18. AddressesStay(a)
  BY <1>1, <1>4, <1>8 DEF AddressesStay
<1>19. n \in Here'
  BY <1>1, <1>2, <1>4, <1>8 DEF Here
<1>20. CachesTyped' /\ CachesAreCurrent'
  BY <1>1, <1>5, <1>7, <1>19, StillDrops, DropsLaterFacts
<1> QED
  BY <1>7, <1>9, <1>10, <1>12, <1>16, <1>17, <1>18, <1>20, StepKeeps DEF Single

\* A request ends, or goes on to look up a name, and drops both caches.
LEMMA AnsweredKeeps ==
  ASSUME Inv, NEW t \in Tasks, AddAnswered(t) \/ AllRefreshed(t) \/ Dropped(t)
  PROVE  Inv'
<1>1. /\ UNCHANGED <<device, owner, service, link, setUp, contested>> /\ InvalidateBoth
      /\ task' = [task EXCEPT ![t] = Idle] \/ task' = [task EXCEPT ![t] = Request("info", task[t].dev)]
  BY DEF AddAnswered, AllRefreshed, Dropped, tables
<1>2. task[t].dev \in Devices \cup {NoOne}
  BY DEF Inv, TasksTyped, Requests
<1>3. /\ Request("info", task[t].dev) \in Requests /\ Idle \in Requests
      /\ Request("info", task[t].dev).kind = "info" /\ Idle.kind = "idle"
  BY <1>2, RequestFits, IdleFits DEF Kinds
<1>4. PICK r \in Requests : r.kind \notin Critical /\ task' = [task EXCEPT ![t] = r]
  BY <1>1, <1>3 DEF Critical
<1>5. TasksTyped' /\ \A u \in Tasks : task'[u] = IF u = t THEN r ELSE task[u]
  BY <1>4, OneBecomes
<1>6. Hears({}, None)
  BY <1>4, <1>5 DEF Hears, GoesOn
<1> QED
  BY <1>1, <1>5, <1>6, InvalidatedFacts, RowsStay, StepKeeps

LEMMA RefusedKeeps ==
  ASSUME Inv, NEW t \in Tasks,
         \/ AddRefused(t) \/ RowGone(t) \/ SeenDeleted(t) \/ AttachRefused(t) \/ MergeRefused(t)
         \/ DropFails(t)
  PROVE  Inv'
<1>1. Fails(t) /\ ~Dropping(t)
  BY DEF AddRefused, RowGone, SeenDeleted, AttachRefused, MergeRefused, DropFails, Dropping
<1> QED
  BY <1>1, FailsKeeps

-----------------------------------------------------------------------------
(* What the scanners know *)

\* A request whose writes are of what is not kept, and that drops the caches later.
LEMMA LaterKeeps ==
  ASSUME Inv, NEW t \in Tasks, NEW d \in Here \cup {NoOne}, DropsLater,
         Tell(t, {}, None, Refetch(d, None, {})),
         UNCHANGED <<device, owner, service, link, contested, setUp>>
  PROVE  Inv'
<1> DEFINE q == Refetch(d, None, {})
<1>1. q \in Requests /\ q.kind = "drop" /\ q.dev = d /\ q.at = None /\ q.seen = {}
  BY RefetchFits DEF Here
<1>2. Tell(t, {}, None, q)
  OBVIOUS
<1> HIDE DEF q
<1>3. Hears({}, None) /\ TasksTyped' /\ task'[t] = q
  BY <1>1, <1>2, TellFacts DEF Critical
<1>4. q.dev \in Here' \cup {NoOne}
  BY <1>1 DEF Here
<1>5. CachesTyped' /\ CachesAreCurrent'
  BY <1>1, <1>3, <1>4, StillDrops, DropsLaterFacts
<1> QED
  BY <1>3, <1>5, RowsStay, StepKeeps

LEMMA InfoRefreshedKeeps == ASSUME Inv, NEW t \in Tasks, InfoRefreshed(t) PROVE Inv'
<1>1. /\ task[t].dev \in Here /\ Tell(t, {}, None, Refetch(task[t].dev, None, {})) /\ DropsLater
      /\ UNCHANGED <<device, owner, service, link, contested, setUp>>
  BY DEF InfoRefreshed, tables
<1> QED
  BY <1>1, LaterKeeps

LEMMA EditGroupKeeps == ASSUME Inv, NEW t \in Tasks, EditGroup(t) PROVE Inv'
<1>1. /\ Tell(t, {}, None, Refetch(NoOne, None, {})) /\ DropsLater
      /\ UNCHANGED <<device, owner, service, link, contested, setUp>>
  BY DEF EditGroup, WritesFirst, Tell, tables
<1> QED
  BY <1>1, LaterKeeps

\* A request about a device that has read something.
LEMMA ReadFits ==
  ASSUME NEW kind \in Kinds \ Critical, NEW d \in Devices \cup {NoOne}, NEW seen \in Seen
  PROVE  LET r == [Request(kind, d) EXCEPT !.seen = seen]
         IN  r \in Requests /\ Shape(r) /\ Served(r) /\ Unrivalled(r)
<1> DEFINE r == [Request(kind, d) EXCEPT !.seen = seen]
<1>1. Request(kind, d) \in Requests /\ Request(kind, d).kind = kind
  BY RequestFits
<1>2. r \in Requests /\ r.kind = kind
  BY <1>1 DEF Requests
<1> HIDE DEF r
<1>3. Shape(r) /\ Served(r) /\ Unrivalled(r)
  BY <1>2, FreeShape
<1> QED
  BY <1>2, <1>3 DEF r

LEMMA RefreshKeeps ==
  ASSUME Inv, NEW t \in Tasks, NEW d \in Devices,
         RefreshInfo(t, d) \/ RefreshServices(t, d)
  PROVE  Inv'
<1>1. ASSUME NEW kind \in Kinds \ Critical, NEW e \in Devices \cup {NoOne}, NEW seen \in Seen,
             Waits(t, [Request(kind, e) EXCEPT !.seen = seen])
      PROVE  Inv'
  BY <1>1, ReadFits, WaitsKeeps
<1>2. CASE RefreshInfo(t, d)
  <2>1. Request("info", d) \in Requests /\ Request("info", d).kind = "info"
    BY RequestFits DEF Kinds
  <2>2. Waits(t, Request("info", d)) /\ Request("info", d).kind \notin Critical
    BY <1>2, <2>1 DEF RefreshInfo, Critical
  <2> QED
    BY <2>1, <2>2, FreeShape, WaitsKeeps
<1>3. CASE RefreshServices(t, d)
  <2>1. ServicesOf(d) \in Seen
    BY DEF Inv, RowsTyped, Seen, ServicesOf
  <2> QED
    BY <1>1, <1>3, <2>1 DEF RefreshServices, Kinds, Critical
<1> QED
  BY <1>2, <1>3

LEMMA RefreshAllKeeps == ASSUME Inv, NEW t \in Tasks, RefreshAll(t) PROVE Inv'
<1>1. Here \in Seen
  BY DEF Seen, Here
<1> QED
  BY <1>1, ReadFits, WaitsKeeps DEF RefreshAll, Kinds, Critical

\* A background refresh goes on, with one device less to see to.
LEMMA OneRefreshedKeeps ==
  ASSUME Inv, NEW t \in Tasks, NEW d \in Devices, OneRefreshed(t, d)
  PROVE  Inv'
<1> DEFINE r == [task[t] EXCEPT !.seen = @ \ {d}]
<1>1. task[t] \in Requests /\ task[t].kind = "all"
  BY DEF Inv, TasksTyped, OneRefreshed
<1>2. r \in Requests /\ r.kind = "all" /\ r.kind \notin Critical
  <2>1. task[t].seen \ {d} \in Seen
    BY <1>1 DEF Requests, Seen
  <2> QED
    BY <1>1, <2>1 DEF Requests, Critical
<1>3. UNCHANGED <<device, owner, service, link, setUp, contested>>
  BY DEF OneRefreshed, tables
<1>4. CASE DropsLater /\ task' = [Told(t, {}, None) EXCEPT ![t].seen = @ \ {d}]
  <2>1. Told(t, {}, None)[t] = task[t]
    BY DEF Told
  <2>2. task' = [u \in Tasks |-> IF u = t THEN r ELSE Told(t, {}, None)[u]]
    BY <1>4, <2>1 DEF Told
  <2> HIDE DEF r
  <2>3. Hears({}, None) /\ TasksTyped'
    BY <1>2, <2>2, GoneOnFacts
  <2>4. Dropping(t)'
    BY <1>2, <2>2 DEF Dropping
  <2>5. CachesTyped' /\ CachesAreCurrent'
    BY <1>4, <2>4, DropsLaterFacts
  <2> QED
    BY <1>3, <2>3, <2>5, RowsStay, StepKeeps
<1>5. CASE task' = [task EXCEPT ![t].seen = @ \ {d}] /\ UNCHANGED <<listed, mapped, slipped>>
  <2>1. task' = [task EXCEPT ![t] = r]
    BY <1>5
  <2> HIDE DEF r
  <2>2. TasksTyped' /\ \A u \in Tasks : task'[u] = IF u = t THEN r ELSE task[u]
    BY <1>2, <2>1, OneBecomes
  <2>3. DroppingGoesOn
    BY <1>2, <1>3, <2>2, OthersDrop
  <2>4. Hears({}, None)
    BY <1>2, <2>2 DEF Hears, GoesOn
  <2> QED
    BY <1>3, <1>5, <2>2, <2>3, <2>4, CachesStay, RowsStay, StepKeeps
<1> QED
  BY <1>4, <1>5 DEF OneRefreshed

-----------------------------------------------------------------------------
(* Services *)

\* Services change, and nothing else does; what is set up anew is a service.
LEMMA ServicesChange ==
  ASSUME Inv, UNCHANGED <<device, owner, link, contested>>, service' \subseteq Services,
         \A s, r \in service' : s.id = r.id => s = r,
         setUp' \subseteq setUp \cup ({"port"} \X Devices \X Ports), PortsKept'
  PROVE  RowsTyped' /\ Kept' /\ Single' /\ AddressesStay(None)
<1>1. RowsTyped'
  BY DEF Inv, RowsTyped
<1>2. setUp' \subseteq Facts
  BY DEF Inv, Kept, Facts
<1>3. LinksKept' /\ ChildrenKept'
  BY DEF Inv, Kept, LinksKept, ChildrenKept, Here
<1>4. Single'
  BY DEF Inv, Single, UniqueIp, Once
<1>5. AddressesStay(None)
  BY DEF AddressesStay
<1> QED
  BY <1>1, <1>2, <1>3, <1>4, <1>5 DEF Kept

\* New services of one device.
LEMMA ServicesAdded ==
  ASSUME Inv, NEW d \in Devices, NEW new \in SUBSET Services, service' = service \cup new,
         \A s \in new : s.of = d /\ s.id >= NextService, \A s, r \in new : s.id = r.id => s = r
  PROVE  /\ service' \subseteq Services /\ \A s, r \in service' : s.id = r.id => s = r
         /\ ServicesStay({d})
<1>1. \A s \in service, r \in new : s.id # r.id
  <2> SUFFICES ASSUME NEW s \in service, NEW r \in new PROVE s.id # r.id
    OBVIOUS
  <2>1. s.id < NextService /\ NextService \in Nat
    BY NextServiceIsNew DEF Inv
  <2>2. s.id \in Nat /\ r.id \in Nat /\ r.id >= NextService
    BY RegistryAssumption DEF Inv, RowsTyped, Services
  <2> QED
    BY <2>1, <2>2
<1>2. \A s, r \in service : s.id = r.id => s = r
  BY DEF Inv, RowsTyped
<1>3. service \subseteq Services
  BY DEF Inv, RowsTyped
<1> QED
  BY <1>1, <1>2, <1>3 DEF ServicesStay

\* How many members of a set of numbers are below one of them tells it from the others.
LEMMA PlacesDiffer ==
  ASSUME NEW S \in SUBSET Nat, IsFiniteSet(S)
  PROVE  /\ \A p \in S : Cardinality({q \in S : q < p}) \in 0 .. Cardinality(S) - 1
         /\ \A p, r \in S : p < r =>
              Cardinality({q \in S : q < p}) # Cardinality({q \in S : q < r})
<1> DEFINE Below(p) == {q \in S : q < p}
<1>1. ASSUME NEW p \in S
      PROVE  Cardinality(Below(p)) \in 0 .. Cardinality(S) - 1
  <2>1. Below(p) \subseteq S /\ Below(p) # S
    OBVIOUS
  <2> HIDE DEF Below
  <2>2. /\ IsFiniteSet(Below(p)) /\ Cardinality(Below(p)) <= Cardinality(S)
        /\ Cardinality(Below(p)) # Cardinality(S)
    BY <2>1, FS_Subset
  <2>3. Cardinality(Below(p)) \in Nat /\ Cardinality(S) \in Nat
    BY <2>2, FS_CardinalityType
  <2> QED
    BY <2>2, <2>3
<1>2. ASSUME NEW p \in S, NEW r \in S, p < r
      PROVE  Cardinality(Below(p)) # Cardinality(Below(r))
  <2>1. p \in Below(r) /\ p \notin Below(p)
    BY <1>2
  <2>2. \A q \in S : q < p => q < r
    BY <1>2
  <2>3. Below(p) \subseteq Below(r) /\ Below(r) \subseteq S
    BY <2>2
  <2> HIDE DEF Below
  <2>4. IsFiniteSet(Below(r))
    BY <2>3, FS_Subset
  <2> QED
    BY <2>1, <2>3, <2>4, FS_Subset
<1> QED
  BY <1>1, <1>2

LEMMA ServicesRefreshedKeeps ==
  ASSUME Inv, NEW t \in Tasks, NEW open \in SUBSET Ports, ServicesRefreshed(t, open)
  PROVE  Inv'
<1> DEFINE d == task[t].dev
           new == Missing(task[t].seen, open)
           place(p) == Cardinality({q \in new : q < p})
           row(p) == [id |-> NextService + place(p), of |-> d, port |-> p, auto |-> TRUE]
           rows == {row(p) : p \in new}
           q == Refetch(d, None, {})
<1>1. /\ d \in Here /\ NextService + Cardinality(new) <= MaxService + 1
      /\ service' = service \cup rows /\ Tell(t, {d}, None, q) /\ DropsLater
      /\ UNCHANGED <<device, owner, link, setUp, contested>>
  BY DEF ServicesRefreshed
<1>2. d \in Devices
  BY <1>1 DEF Here
<1>18. q \in Requests /\ q.kind = "drop" /\ q.dev = d /\ q.at = None /\ q.seen = {}
  BY <1>2, RefetchFits
<1>3. new \subseteq Ports
  BY DEF Missing
<1>4. new \in SUBSET Nat /\ IsFiniteSet(new)
  BY <1>3, NamesAssumption, FS_Subset
<1>5. Cardinality(new) \in Nat
  BY <1>4, FS_CardinalityType
<1>6. NextService \in Nat \ {0}
  BY NextServiceIsNew DEF Inv
<1> HIDE DEF d, new, q
<1>7. /\ \A p \in new : place(p) \in 0 .. Cardinality(new) - 1
      /\ \A p, r \in new : p < r => place(p) # place(r)
  BY <1>4, PlacesDiffer
<1> HIDE DEF place
<1>8. MaxService \in Nat
  BY RegistryAssumption
<1>9. \A p \in new : NextService + place(p) \in 1 .. MaxService /\ NextService + place(p) >= NextService
  BY <1>1, <1>5, <1>6, <1>7, <1>8
<1>10. \A p, r \in new : NextService + place(p) = NextService + place(r) => p = r
  <2> SUFFICES ASSUME NEW p \in new, NEW r \in new, p # r
               PROVE  NextService + place(p) # NextService + place(r)
    OBVIOUS
  <2>1. p < r \/ r < p
    BY <1>4
  <2>2. place(p) # place(r)
    BY <1>7, <2>1
  <2>3. place(p) \in Nat /\ place(r) \in Nat
    BY <1>7
  <2> QED
    BY <1>6, <2>2, <2>3
<1>11. \A p \in new : row(p) \in Services /\ row(p).id = NextService + place(p) /\ row(p).of = d
  BY <1>2, <1>3, <1>9 DEF Services
<1> HIDE DEF row
<1>12. rows \in SUBSET Services
  BY <1>11
<1>13. \A s \in rows : s.of = d /\ s.id >= NextService
  BY <1>9, <1>11
<1>14. \A s, r \in rows : s.id = r.id => s = r
  BY <1>10, <1>11
<1> HIDE DEF rows
<1>15. /\ service' \subseteq Services /\ \A s, r \in service' : s.id = r.id => s = r
       /\ ServicesStay({d})
  BY <1>1, <1>2, <1>12, <1>13, <1>14, ServicesAdded
<1>16. PortsKept'
  BY <1>1 DEF Inv, Kept, PortsKept
<1>17. RowsTyped' /\ Kept' /\ Single' /\ AddressesStay(None)
  BY <1>1, <1>15, <1>16, ServicesChange
<1>19. Hears({d}, None) /\ TasksTyped' /\ task'[t] = q
  BY <1>1, <1>18, TellFacts DEF Critical
<1>20. d \in Here'
  BY <1>1 DEF Here
<1>21. CachesTyped' /\ CachesAreCurrent'
  BY <1>1, <1>18, <1>19, <1>20, StillDrops, DropsLaterFacts
<1> QED
  BY <1>15, <1>17, <1>19, <1>21, StepKeeps

\* A request about a service writes, and reads it once more.
LEMMA ServiceWritten ==
  ASSUME Inv, NEW t \in Tasks, NEW d \in Devices, NEW n \in 1 .. MaxService,
         WritesFirst(t, {d}, Refetch(NoOne, None, {n})), \E s \in service' : s.id = n
  PROVE  Hears({d}, None) /\ TasksTyped' /\ CachesTyped' /\ CachesAreCurrent'
<1> DEFINE q == Refetch(NoOne, None, {n})
<1>1. q \in Requests /\ q.kind = "drop" /\ q.dev = NoOne /\ q.at = None /\ q.seen = {n}
  <2>1. {n} \in SUBSET (1 .. MaxService)
    OBVIOUS
  <2> QED
    BY <2>1, RefetchFits
<1>2. WritesFirst(t, {d}, q)
  OBVIOUS
<1> HIDE DEF q
<1>3. Hears({d}, None) /\ TasksTyped' /\ task'[t] = q /\ DropsLater
  BY <1>1, <1>2, WritesFirstFacts DEF Critical
<1>4. CachesTyped' /\ CachesAreCurrent'
  BY <1>1, <1>3, StillDrops, DropsLaterFacts
<1> QED
  BY <1>3, <1>4

LEMMA AddServiceKeeps ==
  ASSUME Inv, NEW t \in Tasks, NEW d \in Devices, NEW p \in Ports, AddService(t, d, p)
  PROVE  Inv'
<1> DEFINE s == [id |-> NextService, of |-> d, port |-> p, auto |-> TRUE]
<1>1. /\ NextService <= MaxService /\ service' = service \cup {s}
      /\ WritesFirst(t, {d}, Refetch(NoOne, None, {NextService}))
      /\ setUp' = setUp \cup {<<"port", d, p>>} /\ UNCHANGED <<device, owner, link, contested>>
  BY DEF AddService
<1>2. NextService \in 1 .. MaxService
  BY <1>1, NextServiceIsNew, RegistryAssumption DEF Inv
<1>3. s \in Services /\ s.of = d /\ s.port = p /\ s.id = NextService
  BY <1>2 DEF Services
<1> HIDE DEF s
<1>4. s.id >= NextService
  BY <1>2, <1>3
<1>5. /\ service' \subseteq Services /\ \A x, y \in service' : x.id = y.id => x = y
      /\ ServicesStay({d})
  <2> DEFINE new == {s}
  <2>1. /\ new \in SUBSET Services /\ service' = service \cup new
        /\ \A x \in new : x.of = d /\ x.id >= NextService
        /\ \A x, y \in new : x.id = y.id => x = y
    BY <1>1, <1>3, <1>4
  <2> HIDE DEF new
  <2> QED
    BY <2>1, ServicesAdded
<1>6. PortsKept'
  BY <1>1, <1>3 DEF Inv, Kept, PortsKept
<1>7. RowsTyped' /\ Kept' /\ Single' /\ AddressesStay(None)
  BY <1>1, <1>5, <1>6, ServicesChange
<1>8. Hears({d}, None) /\ TasksTyped' /\ CachesTyped' /\ CachesAreCurrent'
  BY <1>1, <1>2, <1>3, ServiceWritten
<1> QED
  BY <1>5, <1>7, <1>8, StepKeeps

LEMMA WantedStays ==
  ASSUME Inv, NEW s \in service, NEW x \in Devices, NEW p \in Ports,
         <<"port", x, p>> \in WantedWithout(s)
  PROVE  \E y \in service \ {s} : y.of = x /\ y.port = p
<1>1. <<"port", x, p>> \in setUp
  BY DEF WantedWithout
<1>2. PICK y \in service : y.of = x /\ y.port = p
  BY <1>1 DEF Inv, Kept, PortsKept
<1>3. CASE y = s
  BY <1>2, <1>3 DEF WantedWithout
<1>4. CASE y # s
  BY <1>2, <1>4
<1> QED
  BY <1>3, <1>4

LEMMA UpdateServiceKeeps ==
  ASSUME Inv, NEW t \in Tasks, NEW s \in service, NEW p \in Ports, UpdateService(t, s, p)
  PROVE  Inv'
<1> DEFINE r == [s EXCEPT !.port = p, !.auto = FALSE]
<1>1. /\ service' = (service \ {s}) \cup {r}
      /\ WritesFirst(t, {s.of}, Refetch(NoOne, None, {s.id}))
      /\ setUp' = WantedWithout(s) \cup {<<"port", s.of, p>>}
      /\ UNCHANGED <<device, owner, link, contested>>
  BY DEF UpdateService
<1>2. s \in Services /\ s.of \in Devices /\ s.id \in 1 .. MaxService
  BY DEF Inv, RowsTyped, Services
<1>3. r \in Services /\ r.id = s.id /\ r.of = s.of /\ r.port = p
  BY <1>2 DEF Services
<1> HIDE DEF r
<1>4. service' \subseteq Services /\ \A x, y \in service' : x.id = y.id => x = y
  BY <1>1, <1>3 DEF Inv, RowsTyped
<1>5. ServicesStay({s.of})
  BY <1>1, <1>3 DEF ServicesStay
<1>6. ASSUME NEW x \in Devices, NEW n \in Ports, <<"port", x, n>> \in setUp'
      PROVE  \E y \in service' : y.of = x /\ y.port = n
  <2>1. CASE <<"port", x, n>> \in WantedWithout(s)
    BY <1>1, <2>1, WantedStays
  <2>2. CASE x = s.of /\ n = p
    BY <1>1, <1>3, <2>2
  <2> QED
    BY <1>1, <1>6, <2>1, <2>2
<1>7. setUp' \subseteq setUp \cup ({"port"} \X Devices \X Ports)
  BY <1>1, <1>2 DEF WantedWithout
<1>8. RowsTyped' /\ Kept' /\ Single' /\ AddressesStay(None)
  BY <1>1, <1>4, <1>6, <1>7, ServicesChange DEF PortsKept
<1>9. Hears({s.of}, None) /\ TasksTyped' /\ CachesTyped' /\ CachesAreCurrent'
  BY <1>1, <1>2, <1>3, ServiceWritten
<1> QED
  BY <1>5, <1>8, <1>9, StepKeeps

LEMMA DeleteServiceKeeps == ASSUME Inv, NEW s \in service, DeleteService(s) PROVE Inv'
<1>1. /\ service' = service \ {s} /\ Writes({s.of}) /\ setUp' = WantedWithout(s)
      /\ UNCHANGED <<device, owner, link, contested>>
  BY DEF DeleteService
<1>2. service' \subseteq Services /\ \A x, y \in service' : x.id = y.id => x = y
  BY <1>1 DEF Inv, RowsTyped
<1>3. ServicesStay({s.of})
  BY <1>1 DEF ServicesStay
<1>4. PortsKept'
  BY <1>1, WantedStays DEF PortsKept
<1>5. setUp' \subseteq setUp
  BY <1>1 DEF WantedWithout
<1>6. RowsTyped' /\ Kept' /\ Single' /\ AddressesStay(None)
  BY <1>1, <1>2, <1>4, <1>5, ServicesChange
<1> QED
  BY <1>1, <1>3, <1>6, WritesFacts, StepKeeps

-----------------------------------------------------------------------------
(* Links *)

LEMMA EditLinksKeeps ==
  ASSUME Inv, NEW links \in SUBSET Links, NEW facts, EditLinks(links, facts),
         facts \subseteq setUp \cup ({"link"} \X Devices \X Devices),
         \A x, y \in Devices : <<"link", x, y>> \in facts => <<x, y>> \in links
  PROVE  Inv'
<1>1. /\ link' = links /\ setUp' = facts /\ Overtakes({"map"}) /\ InvalidateMap
      /\ UNCHANGED <<device, owner, service, contested>>
  BY DEF EditLinks
<1>4. TasksTyped' /\ DroppingGoesOn /\ Hears({}, None)
  BY <1>1, OvertakesFacts
<1>5. CachesTyped' /\ CachesAreCurrent'
  BY <1>1, <1>4 DEF Inv, CachesTyped, Caches, InvalidateMap, CachesAreCurrent, DroppingGoesOn, None
<1>6. RowsTyped'
  BY <1>1 DEF Inv, RowsTyped
<1>7. Kept'
  <2>1. setUp' \subseteq Facts
    BY <1>1 DEF Inv, Kept, Facts
  <2>2. ChildrenKept' /\ PortsKept'
    BY <1>1 DEF Inv, Kept, ChildrenKept, PortsKept, Here
  <2>3. LinksKept'
    BY <1>1 DEF LinksKept
  <2> QED
    BY <2>1, <2>2, <2>3 DEF Kept
<1>8. Single'
  BY <1>1 DEF Inv, Single, UniqueIp, Once
<1>9. ServicesStay({}) /\ AddressesStay(None)
  BY <1>1 DEF ServicesStay, AddressesStay
<1> QED
  BY <1>4, <1>5, <1>6, <1>7, <1>8, <1>9, StepKeeps

LEMMA LinkFacts ==
  ASSUME Inv
  PROVE  link \subseteq Links /\ \A x, y \in Devices : <<"link", x, y>> \in setUp => <<x, y>> \in link
BY DEF Inv, RowsTyped, Kept, LinksKept

LEMMA CreateLinkKeeps ==
  ASSUME Inv, NEW a \in Devices, NEW b \in Devices, CreateLink(a, b)
  PROVE  Inv'
<1> DEFINE links == link \cup {<<a, b>>}
           facts == setUp \cup {<<"link", a, b>>}
<1>1. EditLinks(links, facts)
  BY DEF CreateLink
<1>2. links \in SUBSET Links /\ facts \subseteq setUp \cup ({"link"} \X Devices \X Devices)
  BY LinkFacts DEF Links
<1>3. \A x, y \in Devices : <<"link", x, y>> \in facts => <<x, y>> \in links
  BY LinkFacts
<1> HIDE DEF links, facts
<1> QED
  BY <1>1, <1>2, <1>3, EditLinksKeeps

LEMMA DeleteLinkKeeps == ASSUME Inv, NEW l \in link, DeleteLink(l) PROVE Inv'
<1> DEFINE links == link \ {l}
           facts == setUp \ {<<"link", l[1], l[2]>>}
<1>1. EditLinks(links, facts)
  BY DEF DeleteLink
<1>2. links \in SUBSET Links /\ facts \subseteq setUp \cup ({"link"} \X Devices \X Devices)
  BY LinkFacts
<1>3. \A x, y \in Devices : <<"link", x, y>> \in facts => <<x, y>> \in links
  BY LinkFacts DEF Links
<1> HIDE DEF links, facts
<1> QED
  BY <1>1, <1>2, <1>3, EditLinksKeeps

LEMMA UpdateLinkKeeps ==
  ASSUME Inv, NEW l \in link, NEW a \in Devices, NEW b \in Devices, UpdateLink(l, a, b)
  PROVE  Inv'
<1> DEFINE links == (link \ {l}) \cup {<<a, b>>}
           facts == (setUp \ {<<"link", l[1], l[2]>>}) \cup {<<"link", a, b>>}
<1>1. EditLinks(links, facts)
  BY DEF UpdateLink
<1>2. links \in SUBSET Links /\ facts \subseteq setUp \cup ({"link"} \X Devices \X Devices)
  BY LinkFacts DEF Links
<1>3. \A x, y \in Devices : <<"link", x, y>> \in facts => <<x, y>> \in links
  BY LinkFacts DEF Links
<1> HIDE DEF links, facts
<1> QED
  BY <1>1, <1>2, <1>3, EditLinksKeeps

-----------------------------------------------------------------------------
(* Interfaces *)

LEMMA AttachKeeps ==
  ASSUME Inv, NEW t \in Tasks, NEW d \in Devices, NEW a \in Addresses, Attach(t, d, a)
  PROVE  Inv'
<1> DEFINE r == [Request("attach", d) EXCEPT !.at = a]
<1>1. /\ Request("attach", d) \in Requests
      /\ Request("attach", d).kind = "attach" /\ Request("attach", d).dev = d
  BY RequestFits DEF Kinds
<1>2. r \in Requests /\ r.kind = "attach" /\ r.dev = d /\ r.at = a
  BY <1>1 DEF Requests
<1>3. Waits(t, r) /\ HolderOf(a) = {}
  BY DEF Attach, Free
<1> HIDE DEF r
<1>4. \A e \in Devices : device[e].ip # a
  BY <1>3, NamesAssumption DEF HolderOf, Here
<1>5. Shape(r) /\ Served(r) /\ Unrivalled(r)
  BY <1>2, <1>4 DEF Shape, Served, Unrivalled
<1> QED
  BY <1>2, <1>3, <1>5, WaitsKeeps

LEMMA AttachedKeeps == ASSUME Inv, NEW t \in Tasks, Attached(t) PROVE Inv'
<1> DEFINE d == task[t].dev
           a == task[t].at
           q == Refetch(NoOne, a, {})
<1>1. /\ task[t].kind = "attach" /\ owner' = [owner EXCEPT ![a] = d]
      /\ Tell(t, {}, a, q) /\ DropsLater
      /\ contested' = IF task[t].rival THEN contested \cup {a} ELSE contested
      /\ UNCHANGED <<device, service, link, setUp>>
  BY DEF Attached
<1>2. a \in Addresses /\ d \in Devices
  BY <1>1 DEF Inv, Shaped, Shape
<1>3. ~task[t].rival => \A e \in Devices : device[e].ip # a
  BY <1>1 DEF Inv, NoRivals, Unrivalled
<1>11. q \in Requests /\ q.kind = "drop" /\ q.dev = NoOne /\ q.at = a /\ q.seen = {}
  BY <1>2, RefetchFits
<1> HIDE DEF a, d, q
<1>4. a \in contested' \/ \A e \in Devices : device[e].ip # a
  BY <1>1, <1>3
<1>5. \A x \in Addresses : owner'[x] = IF x = a THEN d ELSE owner[x]
  BY <1>1 DEF Inv, RowsTyped, Owners
<1>6. RowsTyped'
  BY <1>1, <1>2 DEF Inv, RowsTyped, Owners
<1>7. Kept'
  BY <1>1 DEF Inv, Kept, LinksKept, ChildrenKept, PortsKept, Here
<1>8. contested \subseteq contested'
  BY <1>1
<1>9. Single'
  BY <1>1, <1>4, <1>5, <1>8 DEF Inv, Single, UniqueIp, Once
<1>10. ServicesStay({}) /\ AddressesStay(a)
  BY <1>1, <1>5 DEF ServicesStay, AddressesStay
<1>12. Hears({}, a) /\ TasksTyped' /\ task'[t] = q
  BY <1>1, <1>11, TellFacts DEF Critical
<1>13. owner'[a] # NoOne
  BY <1>2, <1>5, NoOneIsNoDevice
<1>14. CachesTyped' /\ CachesAreCurrent'
  BY <1>1, <1>11, <1>12, <1>13, StillDrops, DropsLaterFacts
<1> QED
  BY <1>6, <1>7, <1>9, <1>10, <1>12, <1>14, StepKeeps

LEMMA DetachKeeps == ASSUME Inv, NEW a \in Addresses, Detach(a) PROVE Inv'
<1>1. /\ owner' = [owner EXCEPT ![a] = NoOne] /\ Writes({})
      /\ UNCHANGED <<device, service, link, setUp, contested>>
  BY DEF Detach
<1>2. \A x \in Addresses : owner'[x] = IF x = a THEN NoOne ELSE owner[x]
  BY <1>1 DEF Inv, RowsTyped, Owners
<1>3. RowsTyped'
  BY <1>1 DEF Inv, RowsTyped, Owners
<1>4. Kept'
  BY <1>1 DEF Inv, Kept, LinksKept, ChildrenKept, PortsKept, Here
<1>5. Single'
  BY <1>1, <1>2 DEF Inv, Single, UniqueIp, Once
<1>6. ServicesStay({}) /\ AddressesStay(None)
  BY <1>1, <1>2 DEF ServicesStay, AddressesStay
<1> QED
  BY <1>1, <1>3, <1>4, <1>5, <1>6, WritesFacts, StepKeeps

-----------------------------------------------------------------------------
(* Merging *)

LEMMA MergeKeeps ==
  ASSUME Inv, NEW t \in Tasks, NEW d \in Devices, NEW source \in Devices, Merge(t, d, source)
  PROVE  Inv'
<1> DEFINE lacks == {x \in ServicesOf(source) : \A y \in ServicesOf(d) : y.port # x.port}
           seen == {s.id : s \in lacks}
           a == device[source].ip
           p == device[d].parent
           r == [Request("merge", d) EXCEPT !.other = source, !.at = a, !.parent = p, !.seen = seen]
<1>1. Waits(t, r) /\ source \in Here /\ source # d
  BY DEF Merge
<1>2. seen \in Seen
  BY DEF Inv, RowsTyped, ServicesOf, Services, Seen
<1>3. a \in Addresses /\ a # None
  BY <1>1, RowFacts, NamesAssumption DEF Inv
<1>4. \A e \in Devices : device[e].ip = a => e = source
  BY <1>1 DEF Inv, Single, UniqueIp, Here
<1>5. \A s \in service : s.of = source => s.id \in seen \/ \E y \in service : y.of = d /\ y.port = s.port
  BY DEF ServicesOf
<1>6. Request("merge", d) \in Requests /\ Request("merge", d).kind = "merge" /\ Request("merge", d).dev = d
  BY RequestFits DEF Kinds
<1>9. p \in Devices \cup {NoOne}
  BY RowFacts DEF Inv, Row
<1> HIDE DEF seen, a, p
<1>7. r \in Requests /\ r.kind = "merge" /\ r.dev = d /\ r.other = source /\ r.at = a /\ r.seen = seen
  BY <1>2, <1>3, <1>6, <1>9 DEF Requests
<1> HIDE DEF r
<1>8. Shape(r) /\ Served(r) /\ Unrivalled(r)
  BY <1>1, <1>3, <1>4, <1>5, <1>7 DEF Shape, Served, Unrivalled
<1> QED
  BY <1>1, <1>7, <1>8, WaitsKeeps

\* What is said after a merge was said before it, of d or of the duplicate.
EndOf(x, d, source) == IF x = source THEN d ELSE x
SaidBefore(f, d, source, parent, seen, overtaken) ==
  \/ \E x, y \in Devices :
       /\ <<"link", x, y>> \in setUp /\ f = <<"link", EndOf(x, d, source), EndOf(y, d, source)>>
       /\ EndOf(x, d, source) # EndOf(y, d, source)
  \/ \E x, y \in Devices :
       /\ <<"child", x, y>> \in setUp /\ f = <<"child", x, EndOf(y, d, source)>>
       /\ x # source /\ x # EndOf(y, d, source) /\ (x = d => parent # source)
  \/ \E x \in Devices, p \in Ports :
       /\ <<"port", x, p>> \in setUp /\ f = <<"port", EndOf(x, d, source), p>>
       /\ ~(overtaken /\ x = source)
       /\ \A s \in service : s.of = x /\ s.port = p /\ s.id \in seen => x \in {d, source}

LEMMA MovedFact ==
  ASSUME Inv, NEW d, NEW source, NEW parent, NEW seen, NEW overtaken,
         NEW f \in MovedSetUp(d, source, parent, seen, overtaken)
  PROVE  SaidBefore(f, d, source, parent, seen, overtaken)
<1> DEFINE End(x) == EndOf(x, d, source)
<1>1. PICK x \in setUp :
        /\ x[1] = "port" => ~(overtaken /\ x[2] = source)
        /\ ~\E s \in service : s.id \in seen /\ s.of \notin {d, source} /\ x = <<"port", s.of, s.port>>
        /\ x[1] = "child" => x[2] # source /\ (x[2] = d => parent # source)
        /\ x[1] # "port" => End(x[2]) # End(x[3])
        /\ f = <<x[1], End(x[2]), IF x[1] = "port" THEN x[3] ELSE End(x[3])>>
  BY DEF MovedSetUp, EndOf
<1>2. x \in Facts
  BY DEF Inv, Kept
<1>3. CASE x \in {"link"} \X Devices \X Devices
  <2>1. PICK u \in Devices, v \in Devices : x = <<"link", u, v>>
    BY <1>3
  <2> QED
    BY <1>1, <2>1 DEF SaidBefore, EndOf
<1>4. CASE x \in {"child"} \X Devices \X Devices
  <2>1. PICK u \in Devices, v \in Devices : x = <<"child", u, v>>
    BY <1>4
  <2> QED
    BY <1>1, <2>1 DEF SaidBefore, EndOf
<1>5. CASE x \in {"port"} \X Devices \X Ports
  <2>1. PICK u \in Devices, p \in Ports : x = <<"port", u, p>>
    BY <1>5
  <2> QED
    BY <1>1, <2>1 DEF SaidBefore, EndOf
<1> QED
  BY <1>2, <1>3, <1>4, <1>5 DEF Facts

LEMMA MergedKeeps == ASSUME Inv, NEW t \in Tasks, Merged(t) PROVE Inv'
<1> DEFINE d == task[t].dev
           source == task[t].other
           a == task[t].at
           parent == task[t].parent
           seen == task[t].seen
           over == task[t].overtaken
           devs == {d, source} \cup DevicesOf(seen)
           End(x) == EndOf(x, d, source)
           Moved(s) == IF s.id \in seen THEN [s EXCEPT !.of = d] ELSE s
           Left == {x \in service : x.of = source => x.id \in seen}
           row(x) == IF x = source THEN NoRow
                     ELSE IF x = d THEN [device[d] EXCEPT !.parent = ParentOfTarget(d, source, parent)]
                     ELSE [device[x] EXCEPT !.parent = IF @ = source THEN d ELSE @]
           q == Refetch(d, a, {})
<1>1. /\ task[t].kind = "merge" /\ d \in Here /\ owner[a] = NoOne
      /\ service' = {Moved(s) : s \in Left} /\ link' = MovedLinks(d, source)
      /\ device' = [x \in Devices |-> row(x)]
      /\ owner' = [x \in Addresses |-> IF x = a \/ owner[x] = source THEN d ELSE owner[x]]
      /\ Tell(t, devs, a, q) /\ DropsLater
      /\ setUp' = MovedSetUp(d, source, parent, seen, over)
      /\ contested' = IF task[t].rival THEN contested \cup {a} ELSE contested
  BY DEF Merged
<1>2. a \in Addresses /\ a # None /\ d \in Devices /\ source \in Devices /\ source # d
  BY <1>1, NamesAssumption DEF Inv, Shaped, Shape
<1>3. ~over => \A s \in service : s.of = source =>
                   s.id \in seen \/ \E y \in service : y.of = d /\ y.port = s.port
  BY <1>1 DEF Inv, SeenHolds, Served
<1>4. ~task[t].rival => \A e \in Devices : device[e].ip = a => e = source
  BY <1>1 DEF Inv, NoRivals, Unrivalled
<1>23. q \in Requests /\ q.kind = "drop" /\ q.dev = d /\ q.at = a /\ q.seen = {}
  BY <1>2, RefetchFits
<1>6. source # NoOne /\ d # NoOne
  BY <1>2, NoOneIsNoDevice
<1> HIDE DEF a, d, source, parent, seen, over, q
<1>5. Hears(devs, a) /\ TasksTyped' /\ task'[t] = q
  <2> HIDE DEF devs
  <2> QED
    BY <1>1, <1>23, TellFacts DEF Critical
<1>7. \A s \in service :
        /\ Moved(s) \in Services /\ Moved(s).id = s.id /\ Moved(s).port = s.port
        /\ s.id \in seen => Moved(s).of = d
        /\ s.id \notin seen => Moved(s) = s
  BY <1>2 DEF Inv, RowsTyped, Services
<1>8. ASSUME NEW x \in Devices
      PROVE  /\ row(x) \in Row
             /\ row(x).ip = IF x = source THEN None ELSE device[x].ip
             /\ row(x).parent = IF x = source THEN NoOne
                                ELSE IF x = d THEN ParentOfTarget(d, source, parent)
                                ELSE IF device[x].parent = source THEN d ELSE device[x].parent
  <2>1. device[x] \in Row /\ device[d].parent \in Devices \cup {NoOne}
    BY <1>2, RowFacts DEF Inv, Row
  <2>2. ParentOfTarget(d, source, parent) \in Devices \cup {NoOne}
    BY <2>1 DEF ParentOfTarget
  <2> QED
    BY <1>2, <2>1, <2>2 DEF Row, NoRow
<1> HIDE DEF Moved, row
<1>9. \A x \in Devices : device'[x] = row(x)
  BY <1>1
<1>10. \A x \in Addresses : owner'[x] = IF x = a \/ owner[x] = source THEN d ELSE owner[x]
  BY <1>1
<1>11. RowsTyped'
  <2>1. device' \in [Devices -> Row]
    BY <1>1, <1>8
  <2>2. owner' \in Owners
    BY <1>1, <1>2 DEF Inv, RowsTyped, Owners
  <2>3. service' \subseteq Services
    BY <1>1, <1>7
  <2>4. \A s, r \in service' : s.id = r.id => s = r
    BY <1>1, <1>7 DEF Inv, RowsTyped
  <2>5. link' \subseteq Links
    BY <1>1, <1>2 DEF MovedLinks, Inv, RowsTyped, Links
  <2> QED
    BY <2>1, <2>2, <2>3, <2>4, <2>5 DEF RowsTyped
<1>12. ASSUME NEW f \in setUp' PROVE SaidBefore(f, d, source, parent, seen, over)
  <2>1. f \in MovedSetUp(d, source, parent, seen, over)
    BY <1>1
  <2> QED
    BY <2>1, MovedFact
<1>13. \A x \in Devices : End(x) \in Devices /\ End(x) = IF x = source THEN d ELSE x
  BY <1>2 DEF EndOf
<1>14. setUp' \subseteq Facts
  <2> SUFFICES ASSUME NEW f \in setUp' PROVE f \in Facts
    OBVIOUS
  <2>1. CASE \E x, y \in Devices : f = <<"link", End(x), End(y)>>
    BY <1>13, <2>1 DEF Facts
  <2>2. CASE \E x, y \in Devices : f = <<"child", x, End(y)>>
    BY <1>13, <2>2 DEF Facts
  <2>3. CASE \E x \in Devices, p \in Ports : f = <<"port", End(x), p>>
    BY <1>13, <2>3 DEF Facts
  <2> QED
    BY <1>12, <2>1, <2>2, <2>3 DEF SaidBefore
<1>15. LinksKept'
  <2> SUFFICES ASSUME NEW u \in Devices, NEW v \in Devices, <<"link", u, v>> \in setUp'
               PROVE  <<u, v>> \in link'
    BY DEF LinksKept
  <2>1. PICK x \in Devices, y \in Devices :
          <<"link", x, y>> \in setUp /\ u = End(x) /\ v = End(y) /\ End(x) # End(y)
    BY <1>12 DEF SaidBefore
  <2>2. <<x, y>> \in link
    BY <2>1 DEF Inv, Kept, LinksKept
  <2> QED
    BY <1>1, <1>13, <2>1, <2>2 DEF MovedLinks
<1>16. ChildrenKept'
  <2> SUFFICES ASSUME NEW u \in Devices, NEW v \in Devices, <<"child", u, v>> \in setUp'
               PROVE  device'[u].parent = v /\ u \in Here'
    BY DEF ChildrenKept
  <2>1. PICK y \in Devices : /\ <<"child", u, y>> \in setUp /\ v = End(y)
                             /\ u # source /\ u # End(y) /\ (u = d => parent # source)
    BY <1>12 DEF SaidBefore
  <2>2. device[u].parent = y /\ device[u].ip # None
    BY <2>1 DEF Inv, Kept, ChildrenKept, Here
  <2>3. u = d => y # source
    BY <1>13, <2>1
  <2>4. row(u).ip # None /\ row(u).parent = v
    BY <1>8, <1>13, <2>1, <2>2, <2>3 DEF ParentOfTarget
  <2> QED
    BY <1>9, <2>4 DEF Here
<1>17. PortsKept'
  <2> SUFFICES ASSUME NEW u \in Devices, NEW p \in Ports, <<"port", u, p>> \in setUp'
               PROVE  \E s \in service' : s.of = u /\ s.port = p
    BY DEF PortsKept
  <2>1. PICK x \in Devices :
          /\ <<"port", x, p>> \in setUp /\ u = End(x) /\ ~(over /\ x = source)
          /\ \A s \in service : s.of = x /\ s.port = p /\ s.id \in seen => x \in {d, source}
    BY <1>12 DEF SaidBefore
  <2>2. PICK s \in service : s.of = x /\ s.port = p
    BY <2>1 DEF Inv, Kept, PortsKept
  <2>3. \A y \in service : y.of # source \/ y.id \in seen => Moved(y) \in service'
    BY <1>1
  <2>4. CASE x = source
    <3>1. s.id \in seen \/ \E y \in service : y.of = d /\ y.port = p
      BY <1>3, <2>1, <2>2, <2>4
    <3>2. CASE s.id \in seen
      BY <1>7, <1>13, <2>1, <2>2, <2>3, <2>4, <3>2
    <3>3. ASSUME NEW y \in service, y.of = d, y.port = p PROVE \E z \in service' : z.of = u /\ z.port = p
      <4>1. Moved(y) \in service' /\ Moved(y).port = p /\ Moved(y).of = d
        BY <1>2, <1>7, <2>3, <3>3
      <4> QED
        BY <1>13, <2>1, <2>4, <4>1
    <3> QED
      BY <3>1, <3>2, <3>3
  <2>5. CASE x # source
    <3>1. Moved(s) \in service' /\ Moved(s).port = p
      BY <1>7, <2>2, <2>3, <2>5
    <3>2. s.id \in seen => x = d
      BY <2>1, <2>2, <2>5
    <3>3. Moved(s).of = x
      BY <1>7, <2>2, <3>2
    <3> QED
      BY <1>13, <2>1, <2>5, <3>1, <3>3
  <2> QED
    BY <2>4, <2>5
<1>18. UniqueIp'
  BY <1>8, <1>9 DEF Inv, Single, UniqueIp
<1>19. Once'
  <2> SUFFICES ASSUME NEW x \in Addresses \ contested', NEW e \in Devices
               PROVE  owner'[x] = NoOne \/ device'[e].ip # x
    BY DEF Once
  <2>1. x \notin contested /\ x # None
    BY <1>1, NamesAssumption
  <2>2. owner[x] = NoOne \/ device[e].ip # x
    BY <2>1 DEF Inv, Single, Once
  <2>3. device'[e].ip = x => device[e].ip = x /\ e # source
    BY <1>8, <1>9, <2>1
  <2>4. CASE x = a
    BY <1>1, <1>4, <2>3, <2>4
  <2>5. CASE x # a
    BY <1>6, <1>10, <2>2, <2>3, <2>5
  <2> QED
    BY <2>4, <2>5
<1>20. ServicesStay(devs)
  <2> SUFFICES ASSUME NEW s, s.of \notin devs PROVE s \in service' <=> s \in service
    BY DEF ServicesStay
  <2>1. s.of # d /\ s.of # source /\ ~(s \in service /\ s.id \in seen)
    BY DEF DevicesOf
  <2>2. s \in service => s \in service'
    BY <1>1, <1>7, <2>1
  <2>3. ASSUME s \in service' PROVE s \in service
    <3>1. PICK z \in Left : s = Moved(z)
      BY <1>1, <2>3
    <3> QED
      BY <1>7, <2>1, <3>1
  <2> QED
    BY <2>2, <2>3
<1>21. AddressesStay(a)
  <2> SUFFICES ASSUME NEW x \in Addresses, x # a
               PROVE  /\ owner[x] = NoOne => owner'[x] = NoOne
                      /\ \A e \in Devices : device'[e].ip = x => device[e].ip = x
    BY DEF AddressesStay
  <2>1. x # None
    BY NamesAssumption
  <2> QED
    BY <1>6, <1>8, <1>9, <1>10, <2>1
<1>24. d \in Here' /\ owner'[a] # NoOne
  BY <1>1, <1>2, <1>6, <1>8, <1>9, <1>10 DEF Here
<1> HIDE DEF devs
<1>22. Kept' /\ Single'
  BY <1>14, <1>15, <1>16, <1>17, <1>18, <1>19 DEF Kept, Single
<1>25. CachesTyped' /\ CachesAreCurrent'
  BY <1>1, <1>5, <1>23, <1>24, StillDrops, DropsLaterFacts
<1> QED
  BY <1>5, <1>11, <1>20, <1>21, <1>22, <1>25, StepKeeps

-----------------------------------------------------------------------------
(* The whole *)

LEMMA InitHolds == Init => Inv
<1> SUFFICES ASSUME Init PROVE Inv
  OBVIOUS
<1>1. /\ device = FirstDevices /\ owner = [a \in Addresses |-> NoOne] /\ service = FirstServices
      /\ link = FirstLinks /\ listed = None /\ mapped = None
      /\ task = [t \in Tasks |-> Idle] /\ contested = {}
      /\ setUp = {<<"link", l[1], l[2]>> : l \in FirstLinks}
                   \cup {<<"child", d, FirstDevices[d].parent>> :
                             d \in {x \in Devices : FirstDevices[x].parent # NoOne}}
                   \cup {<<"port", s.of, s.port>> : s \in FirstServices}
  BY DEF Init
<1>2. RowsTyped
  BY <1>1, RegistryAssumption, FirstRowsAssumption DEF RowsTyped, Owners
<1>3. TasksTyped
  BY <1>1, IdleFits DEF TasksTyped
<1>4. CachesTyped /\ CachesAreCurrent
  BY <1>1 DEF CachesTyped, Caches, CachesAreCurrent, None
<1>5. \A d \in Devices : device[d] \in Row
  BY <1>2 DEF RowsTyped
<1>6. Kept
  <2>1. {<<"link", l[1], l[2]>> : l \in FirstLinks} \subseteq {"link"} \X Devices \X Devices
    BY RegistryAssumption DEF Links
  <2>2. {<<"child", d, FirstDevices[d].parent>> : d \in {x \in Devices : FirstDevices[x].parent # NoOne}}
          \subseteq {"child"} \X Devices \X Devices
    BY <1>1, <1>5 DEF Row
  <2>3. {<<"port", s.of, s.port>> : s \in FirstServices} \subseteq {"port"} \X Devices \X Ports
    BY RegistryAssumption DEF Services
  <2>4. setUp \subseteq Facts
    BY <1>1, <2>1, <2>2, <2>3 DEF Facts
  <2>5. LinksKept
    <3> SUFFICES ASSUME NEW x \in Devices, NEW y \in Devices, <<"link", x, y>> \in setUp
                 PROVE  <<x, y>> \in FirstLinks
      BY <1>1 DEF LinksKept
    <3>1. PICK l \in FirstLinks : <<"link", x, y>> = <<"link", l[1], l[2]>>
      BY <1>1
    <3> QED
      BY <3>1, RegistryAssumption DEF Links
  <2>6. ChildrenKept
    <3> SUFFICES ASSUME NEW x \in Devices, NEW y \in Devices, <<"child", x, y>> \in setUp
                 PROVE  device[x].parent = y /\ x \in Here
      BY DEF ChildrenKept
    <3>1. FirstDevices[x].parent = y /\ FirstDevices[x].parent # NoOne
      BY <1>1
    <3> QED
      BY <1>1, <3>1, FirstRowsAssumption DEF Here
  <2>7. PortsKept
    BY <1>1 DEF PortsKept
  <2> QED
    BY <2>4, <2>5, <2>6, <2>7 DEF Kept
<1>7. Single
  BY <1>1, FirstRowsAssumption DEF Single, UniqueIp, Once
<1>8. \A u \in Tasks : task[u].kind \notin Critical
  BY <1>1, IdleFits DEF Critical
<1>9. Shaped /\ SeenHolds /\ NoRivals
  BY <1>8, FreeShape DEF Shaped, SeenHolds, NoRivals
<1> QED
  BY <1>2, <1>3, <1>4, <1>6, <1>7, <1>9 DEF Inv

LEMMA Stutter == ASSUME Inv, UNCHANGED vars PROVE Inv'
<1>1. UNCHANGED <<device, owner, service, link, listed, mapped, task, setUp, contested, slipped>>
  BY DEF vars, tables
<1> QED
  BY <1>1, TasksStay, CachesStay, RowsStay, StepKeeps

LEMMA RequestSteps ==
  ASSUME Inv, NEW t \in Tasks,
         \/ List(t) \/ ShowMap(t) \/ ListStored(t) \/ MapStored(t)
         \/ \E a \in Addresses : Add(t, a) \/ \E d \in Devices : Attach(t, d, a)
         \/ Added(t) \/ AddRefused(t) \/ AddAnswered(t) \/ Attached(t) \/ AttachRefused(t)
         \/ \E d \in Devices : \/ RefreshInfo(t, d) \/ RefreshServices(t, d) \/ OneRefreshed(t, d)
                               \/ \E source \in Devices : Merge(t, d, source)
                               \/ \E p \in Ports : AddService(t, d, p)
         \/ \E s \in service, p \in Ports : UpdateService(t, s, p)
         \/ \E open \in SUBSET Ports : ServicesRefreshed(t, open)
         \/ InfoRefreshed(t) \/ RowGone(t) \/ SeenDeleted(t)
         \/ RefreshAll(t) \/ AllRefreshed(t) \/ EditGroup(t)
         \/ Merged(t) \/ MergeRefused(t) \/ Dropped(t) \/ DropFails(t)
  PROVE  Inv'
<1>1. CASE List(t) \/ ShowMap(t)
  BY <1>1, ListKeeps
<1>2. CASE ListStored(t)
  BY <1>2, ListStoredKeeps
<1>3. CASE MapStored(t)
  BY <1>3, MapStoredKeeps
<1>4. CASE \E a \in Addresses : Add(t, a)
  BY <1>4, AddKeeps
<1>5. CASE \E a \in Addresses : \E d \in Devices : Attach(t, d, a)
  BY <1>5, AttachKeeps
<1>6. CASE Added(t)
  BY <1>6, AddedKeeps
<1>7. CASE Attached(t)
  BY <1>7, AttachedKeeps
<1>8. CASE \/ AddRefused(t) \/ RowGone(t) \/ SeenDeleted(t) \/ AttachRefused(t) \/ MergeRefused(t)
           \/ DropFails(t)
  BY <1>8, RefusedKeeps
<1>9. CASE RefreshAll(t) \/ \E d \in Devices : RefreshInfo(t, d) \/ RefreshServices(t, d)
  BY <1>9, RefreshAllKeeps, RefreshKeeps
<1>10. CASE \E d \in Devices : \E source \in Devices : Merge(t, d, source)
  BY <1>10, MergeKeeps
<1>11. CASE InfoRefreshed(t) \/ EditGroup(t)
  BY <1>11, InfoRefreshedKeeps, EditGroupKeeps
<1>12. CASE \E d \in Devices : OneRefreshed(t, d)
  BY <1>12, OneRefreshedKeeps
<1>13. CASE \E open \in SUBSET Ports : ServicesRefreshed(t, open)
  BY <1>13, ServicesRefreshedKeeps
<1>14. CASE AddAnswered(t) \/ AllRefreshed(t) \/ Dropped(t)
  BY <1>14, AnsweredKeeps
<1>15. CASE Merged(t)
  BY <1>15, MergedKeeps
<1>16. CASE \E d \in Devices : \E p \in Ports : AddService(t, d, p)
  BY <1>16, AddServiceKeeps
<1>17. CASE \E s \in service, p \in Ports : UpdateService(t, s, p)
  BY <1>17, UpdateServiceKeeps
<1> QED
  BY <1>1, <1>2, <1>3, <1>4, <1>5, <1>6, <1>7, <1>8, <1>9, <1>10, <1>11, <1>12, <1>13, <1>14, <1>15,
     <1>16, <1>17

LEMMA DeviceSteps ==
  ASSUME Inv, NEW d \in Devices,
         \/ EditDevice(d)
         \/ \E p \in Devices \cup {NoOne} : SetParent(d, p)
         \/ \E b \in Devices \ {d} : CreateLink(d, b)
  PROVE  Inv'
BY EditKeeps, SetParentKeeps, CreateLinkKeeps

LEMMA LinkSteps ==
  ASSUME Inv, NEW l \in link,
         DeleteLink(l) \/ \E d \in Devices \ {l[1], l[2]} : UpdateLink(l, l[1], d) \/ UpdateLink(l, d, l[2])
  PROVE  Inv'
<1>1. l[1] \in Devices /\ l[2] \in Devices
  BY LinkFacts DEF Links
<1> QED
  BY <1>1, DeleteLinkKeeps, UpdateLinkKeeps

LEMMA NextHolds == ASSUME Inv, [Next]_vars PROVE Inv'
<1>1. CASE UNCHANGED vars
  BY <1>1, Stutter
<1>2. CASE Next
  BY <1>2, RequestSteps, DeviceSteps, LinkSteps, DeleteDevicesKeeps, DeleteServiceKeeps,
     EditKeeps, ListAgesKeeps, DetachKeeps, DismissKeeps, ExpiresKeeps DEF Next
<1> QED
  BY <1>1, <1>2

LEMMA InvAlways == Spec => []Inv
<1>1. Inv /\ [Next]_vars => Inv'
  BY NextHolds
<1> QED
  BY <1>1, InitHolds, PTL DEF Spec

-----------------------------------------------------------------------------
(* Suggestions *)

\* Of the members of a set, one has the least number.
LEMMA LeastOf ==
  ASSUME NEW S, S # {}, NEW f, \A x \in S : f[x] \in Nat
  PROVE  \E m \in S : \A x \in S : f[m] <= f[x]
<1> DEFINE T == {f[x] : x \in S}
<1>1. T \subseteq Nat /\ T # {}
  OBVIOUS
<1>2. IsWellFoundedOn(Less, Nat)
  BY NatLessThanWellFounded DEF Less
<1>3. \E n \in T : \A z \in T : ~(<<z, n>> \in Less)
  BY <1>1, <1>2, WFMin
<1>4. PICK n \in T : \A z \in T : ~(<<z, n>> \in Less)
  BY <1>3
<1>5. \A z \in T : n <= z
  <2>1. n \in Nat /\ \A z \in T : z \in Nat
    BY <1>1, <1>4
  <2>2. \A z \in T : ~(z < n)
    BY <1>4, <2>1, LessIs
  <2> HIDE DEF T
  <2> QED
    BY <2>1, <2>2
<1>6. PICK m \in S : n = f[m]
  BY <1>4
<1> QED
  BY <1>5, <1>6

Interfaces(d) == Cardinality({a \in Addresses : owner[a] = d})

LEMMA InterfacesCount ==
  \A d : Interfaces(d) \in 0 .. Cardinality(Addresses) /\ Cardinality(Addresses) \in Nat
<1> TAKE d
<1> DEFINE own == {a \in Addresses : owner[a] = d}
<1>1. IsFiniteSet(Addresses) /\ own \subseteq Addresses
  BY NamesAssumption
<1> HIDE DEF own
<1>2. Cardinality(own) \in Nat /\ Cardinality(Addresses) \in Nat /\ Cardinality(own) <= Cardinality(Addresses)
  BY <1>1, FS_Subset, FS_CardinalityType
<1> QED
  BY <1>2 DEF Interfaces, own

\* The four numbers a rank is compared by.
Agentless(d) == IF d \in Agents THEN 0 ELSE 1
Inner(d) == IF Gateway[device[d].ip] # "no" THEN 0 ELSE 1

LEMMA RankIs ==
  ASSUME NEW d
  PROVE  /\ Rank(d)[1] = Agentless(d) /\ Rank(d)[2] = -Interfaces(d)
         /\ Rank(d)[3] = Inner(d) /\ Rank(d)[4] = d
BY DEF Rank, Agentless, Interfaces, Inner

LEMMA OutranksBy ==
  ASSUME NEW d \in Nat, NEW e \in Nat,
         \/ Agentless(d) < Agentless(e)
         \/ Agentless(d) = Agentless(e) /\ Interfaces(d) > Interfaces(e)
         \/ Agentless(d) = Agentless(e) /\ Interfaces(d) = Interfaces(e) /\ Inner(d) < Inner(e)
         \/ /\ Agentless(d) = Agentless(e) /\ Interfaces(d) = Interfaces(e)
            /\ Inner(d) = Inner(e) /\ d < e
  PROVE  Outranks(d, e)
<1> DEFINE r == Rank(d)
           s == Rank(e)
<1>1. /\ r[1] = Agentless(d) /\ r[2] = -Interfaces(d) /\ r[3] = Inner(d) /\ r[4] = d
      /\ s[1] = Agentless(e) /\ s[2] = -Interfaces(e) /\ s[3] = Inner(e) /\ s[4] = e
  BY RankIs
<1>2. Interfaces(d) \in Nat /\ Interfaces(e) \in Nat
  BY InterfacesCount
<1> SUFFICES \E i \in 1 .. 4 : r[i] < s[i] /\ \A j \in 1 .. i - 1 : r[j] = s[j]
  BY DEF Outranks
<1> HIDE DEF r, s
<1>3. CASE Agentless(d) < Agentless(e)
  <2>1. r[1] < s[1] /\ \A j \in 1 .. 1 - 1 : r[j] = s[j]
    BY <1>1, <1>3
  <2> QED
    BY <2>1
<1>4. CASE Agentless(d) = Agentless(e) /\ Interfaces(d) > Interfaces(e)
  <2>1. r[2] < s[2] /\ r[1] = s[1]
    BY <1>1, <1>2, <1>4
  <2>2. \A j \in 1 .. 2 - 1 : r[j] = s[j]
    BY <2>1
  <2> QED
    BY <2>1, <2>2
<1>5. CASE Agentless(d) = Agentless(e) /\ Interfaces(d) = Interfaces(e) /\ Inner(d) < Inner(e)
  <2>1. r[3] < s[3] /\ r[1] = s[1] /\ r[2] = s[2]
    BY <1>1, <1>5
  <2>2. \A j \in 1 .. 3 - 1 : r[j] = s[j]
    BY <2>1
  <2> QED
    BY <2>1, <2>2
<1>6. CASE /\ Agentless(d) = Agentless(e) /\ Interfaces(d) = Interfaces(e)
           /\ Inner(d) = Inner(e) /\ d < e
  <2>1. r[4] < s[4] /\ r[1] = s[1] /\ r[2] = s[2] /\ r[3] = s[3]
    BY <1>1, <1>6
  <2>2. \A j \in 1 .. 4 - 1 : r[j] = s[j]
    BY <2>1
  <2> QED
    BY <2>1, <2>2
<1> QED
  BY <1>3, <1>4, <1>5, <1>6

\* Of any devices one outranks the others.
LEMMA BestIsOne == ASSUME NEW devs \in SUBSET Devices, devs # {} PROVE Best(devs) \in devs
<1> DEFINE N == Cardinality(Addresses)
           f1 == [d \in devs |-> Agentless(d)]
           A == {d \in devs : \A e \in devs : Agentless(d) <= Agentless(e)}
           f2 == [d \in A |-> N - Interfaces(d)]
           B == {d \in A : \A e \in A : Interfaces(d) >= Interfaces(e)}
           f3 == [d \in B |-> Inner(d)]
           C == {d \in B : \A e \in B : Inner(d) <= Inner(e)}
           f4 == [d \in C |-> d]
<1>1. devs \subseteq Nat
  <2>1. Cardinality(Devices) \in Nat
    BY NamesAssumption, FS_CardinalityType
  <2> DEFINE n == Cardinality(Devices)
  <2>2. n \in Nat /\ Devices = 1 .. n
    BY <2>1, RegistryAssumption
  <2> HIDE DEF n
  <2> QED
    BY <2>2
<1>2. \A d \in devs : Agentless(d) \in {0, 1} /\ Inner(d) \in {0, 1}
  BY DEF Agentless, Inner
<1>3. \A d \in devs : Interfaces(d) \in Nat /\ N - Interfaces(d) \in Nat /\ N \in Nat
  BY InterfacesCount
<1>4. A # {}
  <2>1. \A d \in devs : f1[d] \in Nat /\ f1[d] = Agentless(d)
    BY <1>2
  <2> HIDE DEF f1
  <2>2. PICK m \in devs : \A d \in devs : f1[m] <= f1[d]
    BY <2>1, LeastOf
  <2> QED
    BY <2>1, <2>2
<1> HIDE DEF N
<1>5. B # {}
  <2>1. \A d \in A : f2[d] \in Nat /\ f2[d] = N - Interfaces(d) /\ d \in devs
    BY <1>3
  <2> HIDE DEF f2, A
  <2>2. PICK m \in A : \A d \in A : f2[m] <= f2[d]
    BY <1>4, <2>1, LeastOf
  <2>3. \A d \in A : N - Interfaces(m) <= N - Interfaces(d)
    BY <2>1, <2>2
  <2>4. \A d \in A : Interfaces(m) >= Interfaces(d)
    BY <1>3, <2>1, <2>3
  <2> QED
    BY <2>4
<1>6. C # {}
  <2>1. \A d \in B : f3[d] \in Nat /\ f3[d] = Inner(d)
    BY <1>2
  <2> HIDE DEF f3, B
  <2>2. PICK m \in B : \A d \in B : f3[m] <= f3[d]
    BY <1>5, <2>1, LeastOf
  <2> QED
    BY <2>1, <2>2
<1>7. PICK m \in C : \A d \in C : m <= d
  <2>1. \A d \in C : f4[d] \in Nat /\ f4[d] = d
    BY <1>1
  <2> HIDE DEF f4, C
  <2>2. PICK m \in C : \A d \in C : f4[m] <= f4[d]
    BY <1>6, <2>1, LeastOf
  <2> QED
    BY <2>1, <2>2
<1>8. m \in devs /\ m \in A /\ m \in B
  OBVIOUS
<1>9. ASSUME NEW e \in devs \ {m} PROVE Outranks(m, e)
  <2>1. m \in Nat /\ e \in Nat
    BY <1>1, <1>8
  <2>2. Agentless(m) <= Agentless(e) /\ Agentless(m) \in Nat /\ Agentless(e) \in Nat
    BY <1>2, <1>8
  <2>3. e \notin A => Agentless(m) < Agentless(e)
    <3>1. ASSUME e \notin A PROVE Agentless(m) # Agentless(e)
      BY <1>8, <3>1
    <3> QED
      BY <2>2, <3>1
  <2>4. e \in A => Agentless(m) = Agentless(e)
    BY <1>2, <1>8
  <2>5. e \in A => Interfaces(m) >= Interfaces(e)
    BY <1>8
  <2>6. e \in A /\ e \notin B => Interfaces(m) > Interfaces(e)
    <3>1. ASSUME e \in A, e \notin B PROVE Interfaces(m) # Interfaces(e)
      BY <1>8, <3>1
    <3> QED
      BY <1>3, <1>8, <2>5, <3>1
  <2>7. e \in B => Interfaces(m) = Interfaces(e)
    BY <1>3, <1>8
  <2>8. e \in B => Inner(m) <= Inner(e)
    BY <1>7
  <2>9. e \in B /\ e \notin C => Inner(m) < Inner(e)
    <3>1. ASSUME e \in B, e \notin C PROVE Inner(m) # Inner(e)
      BY <1>7, <3>1
    <3> QED
      BY <1>2, <1>8, <2>8, <3>1
  <2>10. e \in C => Inner(m) = Inner(e) /\ m < e
    BY <1>2, <1>7, <1>8, <2>1
  <2>11. e \in B => e \in A
    OBVIOUS
  <2> HIDE DEF A, B, C
  <2> QED
    BY <2>1, <2>3, <2>4, <2>6, <2>7, <2>9, <2>10, <2>11, OutranksBy
<1> HIDE DEF A, B, C
<1>10. \E d \in devs : \A e \in devs \ {d} : Outranks(d, e)
  BY <1>8, <1>9
<1> QED
  BY <1>10 DEF Best

\* A device is in its cluster, and members of one cluster have the same.
LEMMA ClusterHasIt == ASSUME NEW joined, NEW d \in Here PROVE d \in Cluster(d, joined)
BY DEF Cluster

LEMMA ClustersAgree ==
  ASSUME NEW joined, \A pair \in joined : pair \subseteq Here, NEW d \in Here, NEW e \in Cluster(d, joined)
  PROVE  Cluster(e, joined) = Cluster(d, joined)
<1> DEFINE Alone(devs) == \A pair \in joined : pair \subseteq devs \/ pair \cap devs = {}
           C(x) == Here \ UNION {devs \in SUBSET (Here \ {x}) : Alone(devs)}
<1>1. Cluster(d, joined) = C(d) /\ Cluster(e, joined) = C(e)
  BY DEF Cluster
<1>2. e \in Here /\ \A devs \in SUBSET Here : Alone(devs) /\ e \in devs => d \in devs
  BY <1>1
<1>3. ASSUME NEW devs \in SUBSET Here, Alone(devs), d \in devs PROVE e \in devs
  <2> SUFFICES ASSUME e \notin devs PROVE FALSE
    OBVIOUS
  <2> DEFINE rest == Here \ devs
  <2>1. e \in rest /\ d \notin rest
    BY <1>2, <1>3
  <2>2. Alone(rest)
    BY <1>3
  <2> QED
    BY <1>2, <2>1, <2>2
<1>4. \A devs \in SUBSET Here : Alone(devs) => (d \in devs <=> e \in devs)
  BY <1>2, <1>3
<1> QED
  BY <1>1, <1>4

LEMMA SuggestionsFit == Inv => SuggestionsHold
<1> SUFFICES ASSUME Inv PROVE SuggestionsHold
  OBVIOUS
<1> DEFINE edges == Edges
           joined == {{e[1].dev, e[2].dev} : e \in {f \in edges : f[2].kind = "device"}}
           target == Targets(edges)
<1>1. \A d \in Here : d \in Devices /\ device[d].ip \in Addresses
  BY RowFacts DEF Inv, Here
<1>2. ASSUME NEW e \in edges
      PROVE  /\ e[1].dev \in Here
             /\ \/ /\ e[2].kind = "device" /\ e[2].dev \in Here /\ e[2].at = device[e[2].dev].ip
                \/ /\ e[2].kind = "discovered" /\ e[2].dev = NoOne /\ e[2].at \in Discovered
                   /\ owner[e[2].at] = NoOne /\ HolderOf(e[2].at) = {}
  <2>1. e[1] \in DeviceEntities /\ e[2] \in Entities
    BY DEF Edges
  <2>2. PICK d \in Here : e[1] = Entity("device", d, device[d].ip)
    BY <2>1 DEF DeviceEntities
  <2>3. CASE e[2] \in DeviceEntities
    <3>1. PICK x \in Here : e[2] = Entity("device", x, device[x].ip)
      BY <2>3 DEF DeviceEntities
    <3> QED
      BY <2>2, <3>1 DEF Entity
  <2>4. CASE \E a \in Discovered :
               owner[a] = NoOne /\ HolderOf(a) = {} /\ e[2] = Entity("discovered", NoOne, a)
    BY <2>2, <2>4 DEF Entity
  <2> QED
    BY <2>1, <2>3, <2>4 DEF Entities
<1> HIDE DEF edges
<1>3. \A pair \in joined : pair \subseteq Here
  BY <1>2
<1>4. \A e \in edges : e[2].kind = "device" => {e[1].dev, e[2].dev} \in joined
  OBVIOUS
<1>5. target = [d \in Here |-> Best(Cluster(d, joined))]
  BY DEF Targets
<1> HIDE DEF joined, target
<1>6. \A d \in Here : Cluster(d, joined) \subseteq Here /\ d \in Cluster(d, joined)
  BY ClusterHasIt DEF Cluster
<1>7. ASSUME NEW d \in Here
      PROVE  target[d] = Best(Cluster(d, joined)) /\ target[d] \in Cluster(d, joined)
  <2>1. Cluster(d, joined) \in SUBSET Devices /\ Cluster(d, joined) # {}
    BY <1>1, <1>6
  <2> QED
    BY <1>5, <2>1, BestIsOne
<1>8. ASSUME NEW e \in edges, e[2].kind = "device"
      PROVE  target[e[1].dev] = target[e[2].dev]
  <2>1. e[1].dev \in Here /\ e[2].dev \in Here
    BY <1>2, <1>8
  <2>2. e[2].dev \in Cluster(e[1].dev, joined)
    <3> DEFINE x == e[1].dev
               y == e[2].dev
    <3>1. {x, y} \in joined
      BY <1>4, <1>8
    <3> HIDE DEF x, y
    <3>2. \A devs \in SUBSET (Here \ {x}) : {x, y} \subseteq devs \/ {x, y} \cap devs = {} => y \notin devs
      OBVIOUS
    <3>3. y \in Cluster(x, joined)
      BY <2>1, <3>1, <3>2 DEF Cluster, y
    <3> QED
      BY <3>3 DEF x, y
  <2>3. Cluster(e[2].dev, joined) = Cluster(e[1].dev, joined)
    BY <1>3, <2>1, <2>2, ClustersAgree
  <2> QED
    BY <1>7, <2>1, <2>3
<1>9. ASSUME NEW s \in Suggestions
      PROVE  \E e \in edges : s[1] = target[e[1].dev] /\ s[2] = e[2] /\ s[1] # s[2].dev
  BY DEF Suggestions, edges, target
<1>10. ASSUME NEW s \in Suggestions, NEW r \in Suggestions
       PROVE  r[1] # s[2].dev
  <2>1. PICK e \in edges : s[1] = target[e[1].dev] /\ s[2] = e[2] /\ s[1] # s[2].dev
    BY <1>9
  <2>2. PICK f \in edges : r[1] = target[f[1].dev]
    BY <1>9
  <2>3. f[1].dev \in Here /\ e[1].dev \in Here
    BY <1>2
  <2>4. r[1] \in Cluster(f[1].dev, joined) /\ r[1] = Best(Cluster(f[1].dev, joined))
    BY <1>7, <2>2, <2>3
  <2>5. r[1] \in Here
    BY <1>6, <2>3, <2>4
  <2>6. CASE e[2].kind # "device"
    BY <1>1, <1>2, <2>1, <2>5, <2>6, NoOneIsNoDevice
  <2>7. CASE e[2].kind = "device"
    <3> SUFFICES ASSUME r[1] = e[2].dev PROVE FALSE
      BY <2>1
    <3>1. Cluster(r[1], joined) = Cluster(f[1].dev, joined)
      BY <1>3, <2>3, <2>4, ClustersAgree
    <3>2. target[r[1]] = r[1]
      BY <1>7, <2>4, <2>5, <3>1
    <3> QED
      BY <1>8, <2>1, <2>7, <3>2
  <2> QED
    BY <2>6, <2>7
<1>11. ASSUME NEW s \in Suggestions
       PROVE  /\ s[2].at \in contested \/ owner[s[2].at] = NoOne
              /\ s[2].kind = "discovered" => Free(s[1], s[2].at)
  <2>1. PICK e \in edges : s[1] = target[e[1].dev] /\ s[2] = e[2]
    BY <1>9
  <2>2. s[1] \in Here
    BY <1>2, <1>6, <1>7, <2>1
  <2>3. CASE e[2].kind = "device"
    BY <1>1, <1>2, <2>1, <2>3 DEF Inv, Single, Once
  <2>4. CASE e[2].kind = "discovered"
    BY <1>2, <2>1, <2>2, <2>4 DEF Free, HolderOf
  <2> QED
    BY <1>2, <2>1, <2>3, <2>4
<1> QED
  BY <1>10, <1>11 DEF SuggestionsHold

-----------------------------------------------------------------------------
(* What follows *)

\* Through merging, deleting, port scans and edits in any order, and any number of them at
\* a time, every link, child and service that was set up is there, between the devices
\* that were kept (interface_service.py:333-334): but what MovedSetUp leaves out, which is
\* what changed while a merge was under way, such as a parent the target of a merge got
\* when the one loaded before was the duplicate (interface_service.py:319-320).
THEOREM SetUpIsKept == Spec => []NothingSetUpIsLost
<1>1. Inv => NothingSetUpIsLost
  <2> SUFFICES ASSUME Inv, NEW f \in setUp
               PROVE  CASE f[1] = "link"  -> <<f[2], f[3]>> \in link
                        [] f[1] = "child" -> device[f[2]].parent = f[3]
                        [] f[1] = "port"  -> \E s \in ServicesOf(f[2]) : s.port = f[3]
    BY DEF NothingSetUpIsLost
  <2>1. f \in Facts
    BY DEF Inv, Kept
  <2>2. CASE f \in {"link"} \X Devices \X Devices
    <3>1. PICK x \in Devices, y \in Devices : f = <<"link", x, y>>
      BY <2>2
    <3> QED
      BY <3>1 DEF Inv, Kept, LinksKept
  <2>3. CASE f \in {"child"} \X Devices \X Devices
    <3>1. PICK x \in Devices, y \in Devices : f = <<"child", x, y>>
      BY <2>3
    <3> QED
      BY <3>1 DEF Inv, Kept, ChildrenKept
  <2>4. CASE f \in {"port"} \X Devices \X Ports
    <3>1. PICK x \in Devices, p \in Ports : f = <<"port", x, p>>
      BY <2>4
    <3> QED
      BY <3>1 DEF Inv, Kept, PortsKept, ServicesOf
  <2> QED
    BY <2>1, <2>2, <2>3, <2>4 DEF Facts
<1> QED
  BY <1>1, InvAlways, PTL

\* A cached list or map that does not show the tables was stored after a write that came
\* between, or somebody is still to drop it: the request that wrote, when it has read its
\* row once more (devices.py:578-582), or the background refresh (devices.py:172-174); and
\* no request that fails at that row, gone since, leaves it behind.
THEOREM CachesStayCurrent == Spec => []CachesAreCurrent
<1>1. Inv => CachesAreCurrent
  BY DEF Inv
<1> QED
  BY <1>1, InvAlways, PTL

\* The tables keep their types; no address is a device and an interface, but for one that
\* two requests had found free before either took it (interface_service.py:230-238,
\* devices.py:196-205); and the suggestions can be carried out in any order: none wants a
\* target another one merges away, and none is refused for its address
\* (interface_service.py:129-148).
THEOREM AddressesAlwaysHold == Spec => []AddressesHold
<1>1. Inv => TypeOK
  BY DEF Inv, RowsTyped, CachesTyped, TypeOK
<1>2. Inv => AddressOnce
  BY DEF Inv, Single, Once, AddressOnce, HolderOf, Here
<1>3. Inv => AddressesHold
  BY <1>1, <1>2, SuggestionsFit DEF AddressesHold
<1> QED
  BY <1>3, InvAlways, PTL
=============================================================================
