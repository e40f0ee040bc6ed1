--------------------------------- MODULE Scans ---------------------------------
(***************************************************************************)
(* Scan jobs: the one scan a request may start and what browsers are told  *)
(* of it (api/scanner.py), the quick scan that runs beside it, and the     *)
(* list of discovered hosts both write (scanner/planner.py, dashboard.py,  *)
(* services/agent_scanner_relay.py).                                       *)
(*                                                                         *)
(* All of them share one event loop.  An asyncio.Lock nobody holds is      *)
(* taken without giving up control, and no holder awaits, so the flag is   *)
(* read and set in one step; a broadcast gives up control at every send.   *)
(*                                                                         *)
(* Abstracted: one host per subnet, named after it, without a device       *)
(* (devices are in Presence, the rows a batch writes in Inventory);        *)
(* "running" is every status between start and end, "ended" completed or   *)
(* failed.                                                                 *)
(***************************************************************************)
EXTENDS Integers, FiniteSetsExt

CONSTANTS
  Subnets,         \* what a scan may cover, in the order it sweeps them
  Skipped,         \* those no scan sweeps: larger than a /16, or link-local
  Restless,        \* subnets whose host comes and goes
  Timers,          \* scans the scheduler starts: "quick" (planner), "full" (dashboard)
  Hearers,         \* who hears of hosts beside the scans: "arp", "relay"
  Requests,        \* the scans a request may ask for: [planner, subnets]
  Clients,         \* slots for sockets of /api/scanner/ws
  MaxMishaps       \* bound: failures, crashes and deletions

ASSUME SubnetsAssumption ==
  /\ Skipped \subseteq Subnets /\ Restless \subseteq Subnets
  /\ Subnets # {} /\ Subnets \subseteq Nat
ASSUME TimersAssumption == Timers \subseteq {"quick", "full"} /\ Hearers \subseteq {"arp", "relay"}
ASSUME RequestsAssumption == Requests \subseteq [planner : BOOLEAN, subnets : SUBSET Subnets]
ASSUME ScansBoundsAssumption == MaxMishaps \in Nat

VARIABLES
  alive,     \* hosts that answer
  listed,    \* rows of discovered_hosts
  first,     \* the setting scanner.initial_scan_done has a row
  active,    \* ScanStateManager.is_active
  last,      \* ScanStateManager.last_progress
  client,    \* client[c]: "off", or the last status sent to it ("idle": none yet)
  cast,      \* cast[b]: the broadcast b is sending, and to whom it has yet to
  scan,      \* scan[t]: how far scan t is
  batch,     \* batch[w]: the hosts w has read from the table and not yet committed
  mishaps

scansVars == <<alive, listed, first, active, last, client, cast, scan, batch, mishaps>>
memory == <<active, last, client, cast>>
tables == <<alive, listed, first, batch>>

Scanners == {"api"} \cup Timers
Writers == Scanners \cup Hearers
Status == {"idle", "running", "ended"}
Quiet == [status |-> "idle", todo |-> {}]
NoScan == [at |-> "off", covers |-> {}, left |-> {}, found |-> {},
           gone |-> {}, saw |-> FALSE]
\* covers, found: kept for the sweeps of a planner scan; a dashboard scan deletes nothing.
\* new: hosts that had no row when the batch read; stale: hosts whose row is gone since.
NoBatch == [hosts |-> {}, new |-> {}, stale |-> {}]

ScansTypeOK ==
  /\ alive \subseteq Subnets /\ listed \subseteq Subnets
  /\ first \in BOOLEAN /\ active \in BOOLEAN
  /\ last \in Status
  /\ client \in [Clients -> Status \cup {"off"}]
  /\ cast \in [{"api", "relay"} -> [status : Status, todo : SUBSET Clients]]
  /\ scan \in [Scanners -> [at : {"off", "sweep", "batch", "commit", "end"}, covers : SUBSET Subnets,
                            left : SUBSET Subnets, found : SUBSET Subnets, gone : SUBSET Subnets, saw : BOOLEAN]]
  /\ batch \in [Writers -> [hosts : SUBSET Subnets, new : SUBSET Subnets, stale : SUBSET Subnets]]
  /\ mishaps \in 0 .. MaxMishaps

ScansInit ==
  /\ alive \in {S \in SUBSET Subnets : Subnets \ Restless \subseteq S} /\ listed = {} /\ first = FALSE
  /\ active = FALSE /\ last = "idle"
  /\ client = [c \in Clients |-> "off"] /\ cast = [b \in {"api", "relay"} |-> Quiet]
  /\ scan = [t \in Scanners |-> NoScan] /\ batch = [w \in Writers |-> NoBatch]
  /\ mishaps = 0

Mishap == mishaps < MaxMishaps /\ mishaps' = mishaps + 1

-----------------------------------------------------------------------------
(* What browsers are told *)

Attached == {c \in Clients : client[c] # "off"}
Casting(status, C) == IF C = {} THEN Quiet ELSE [status |-> status, todo |-> C]

\* Each broadcaster waits until its last broadcast is through.
Broadcast(b, status) ==
  /\ cast[b] = Quiet
  /\ last' = status /\ cast' = [cast EXCEPT ![b] = Casting(status, Attached)]

Deliver(b, c) ==
  /\ c \in cast[b].todo
  /\ client' = [client EXCEPT ![c] = cast[b].status]
  /\ cast' = [cast EXCEPT ![b] = Casting(@.status, @.todo \ {c})]
  /\ UNCHANGED <<tables, active, last, scan, mishaps>>

Connect(c) ==
  /\ client[c] = "off" /\ client' = [client EXCEPT ![c] = "idle"]
  /\ UNCHANGED <<tables, active, last, cast, scan, mishaps>>

\* The browser leaves, a send to it fails, or a reset detaches it with all others: what
\* is still on its way to it fails and changes nothing.
Leave(C) ==
  /\ C # {} /\ C \subseteq Attached
  /\ client' = [c \in Clients |-> IF c \in C THEN "off" ELSE client[c]]
  /\ cast' = [b \in DOMAIN cast |-> Casting(cast[b].status, cast[b].todo \ C)]
  /\ UNCHANGED <<tables, active, last, scan, mishaps>>

-----------------------------------------------------------------------------
(* The scan a request starts *)

\* start_scan and start_dashboard_scan_api: a request that finds a scan changes nothing.
\* (stop_scan sets an event that no scan is given to look at.)
StartScan(r) ==
  /\ ~active /\ r.subnets # {}
  /\ active' = TRUE
  /\ Broadcast("api", "running")
  /\ scan' = [scan EXCEPT !["api"] =
       [NoScan EXCEPT !.at = "sweep", !.covers = IF r.planner THEN r.subnets ELSE {}, !.left = r.subnets]]
  /\ UNCHANGED <<tables, client, mishaps>>

\* The scheduler's loops: the quick scan covers all enabled subnets.
Wake(t) ==
  /\ t \in Timers /\ scan[t].at = "off"
  /\ scan' = [scan EXCEPT ![t] =
       [NoScan EXCEPT !.at = "sweep", !.covers = IF t = "quick" THEN Subnets ELSE {}, !.left = Subnets]]
  /\ UNCHANGED <<tables, memory, mishaps>>

\* A scan a request started reports its progress and waits for its broadcasts.
Reports(t, status) ==
  /\ IF t = "api" THEN Broadcast("api", status) ELSE UNCHANGED <<last, cast>>
  /\ UNCHANGED <<active, client>>

-----------------------------------------------------------------------------
(* Batches: the rows are read, then written in one transaction, which others may overtake *)

Reads(w, S) == batch' = [batch EXCEPT ![w] = [hosts |-> S, new |-> S \ listed, stale |-> {}]]
Drops(w) == batch' = [batch EXCEPT ![w] = NoBatch] /\ UNCHANGED listed

\* An update of a row that is gone: the whole batch is rolled back without an error.
Outdated(w) == batch[w].stale # {}
\* A second row for an address: the commit raises an error.
Conflict(w) == ~Outdated(w) /\ batch[w].new \cap listed # {}

\* A row that is inserted may get the number of one that was deleted (same), which a cleanup
\* has loaded to delete or a batch to update.
Stores(w, scans) ==
  /\ ~Outdated(w) /\ ~Conflict(w)
  /\ listed' = listed \cup batch[w].hosts
  /\ \E same \in SUBSET batch[w].new :
       /\ scan' = [t \in Scanners |-> [scans[t] EXCEPT !.gone = @ \ (batch[w].new \ same)]]
       /\ batch' = [v \in Writers |-> IF v = w THEN NoBatch ELSE [batch[v] EXCEPT !.stale = @ \ same]]

Deletes(S) ==
  /\ listed' = listed \ S
  /\ batch' = [v \in Writers |->
       [batch[v] EXCEPT !.stale = @ \cup ((S \cap listed \cap batch[v].hosts) \ batch[v].new)]]

-----------------------------------------------------------------------------
(* The steps of a scan *)

Answers(s) == {s} \cap alive

\* Mutant: what answered in the subnet before is forgotten.
FoundLast(S, found) == S

\* What answered counts as found, stored or not.
FoundWith(S, found) == found \cup S

\* Mutant: a subnet in which nobody answered is swept again.
LeftUnanswered(t, s) == scan[t].left \ Answers(s)

LeftAfter(t, s) == scan[t].left \ {s}

\* scan_target_ips, or the error it raises.
HasTargets(s) == s \notin Skipped
Sweeps(t, s) == scan[t].at = "sweep" /\ scan[t].left # {} /\ s = Min(scan[t].left)
PassesBy(t, s) == scan' = [scan EXCEPT ![t].left = LeftAfter(t, s)] /\ UNCHANGED batch

\* One subnet is discovered; what answers is synced in a batch of its own.
Sweep(t, s) ==
  /\ Sweeps(t, s)
  /\ Reports(t, "running")
  /\ IF HasTargets(s) /\ Answers(s) # {}
     THEN Reads(t, Answers(s)) /\ scan' = [scan EXCEPT ![t].at = "batch"]
     ELSE PassesBy(t, s)
  /\ UNCHANGED <<alive, listed, first, mishaps>>

Dashboard(t) == scan[t].covers = {}

\* A dashboard scan goes on without a subnet whose discovery fails.
SweepFails(t, s) ==
  /\ Mishap /\ Dashboard(t)
  /\ Sweeps(t, s)
  /\ Reports(t, "running") /\ PassesBy(t, s)
  /\ UNCHANGED <<alive, listed, first>>

Swept(t, s) == [scan EXCEPT ![t].at = "sweep",
                            ![t].left = LeftAfter(t, s),
                            ![t].found = FoundWith(batch[t].hosts, @) \cap scan[t].covers]

\* Whether or not the batch is stored, the scan goes on: a database that is locked loses it
\* (Mishap) without an error as well, and a dashboard scan catches every error.
SyncSubnet(t, s) ==
  /\ scan[t].at = "batch" /\ scan[t].left # {} /\ s = Min(scan[t].left)
  /\ \/ Stores(t, Swept(t, s)) /\ UNCHANGED mishaps
     \/ /\ Mishap \/ ((Outdated(t) \/ (Dashboard(t) /\ Conflict(t))) /\ UNCHANGED mishaps)
        /\ Drops(t) /\ scan' = Swept(t, s)
  /\ UNCHANGED <<alive, first, memory>>

\* What the planner deletes: rows inside the subnets of the scan that it did not find.
NotFound(t) == (listed \cap scan[t].covers) \ scan[t].found

\* The rows to delete and the setting are read; devices are probed before the commit.
Tidy(t) ==
  /\ scan[t].at = "sweep" /\ scan[t].left = {}
  /\ t = "api" => cast["api"] = Quiet
  /\ scan' = [scan EXCEPT ![t] = [NoScan EXCEPT !.at = "commit", !.gone = NotFound(t), !.saw = first]]
  /\ UNCHANGED <<tables, memory, mishaps>>

Rolled(t) == ~scan[t].saw /\ first
Off(t) == scan' = [scan EXCEPT ![t] = NoScan]
Ends(t) == IF t = "api" THEN scan' = [scan EXCEPT ![t] = [NoScan EXCEPT !.at = "end"]] ELSE Off(t)

\* Two scans that both met no row for the setting: the second insert violates the
\* unique key, and the cleanup is rolled back with it.
CommitScan(t) ==
  /\ scan[t].at = "commit" /\ ~Rolled(t)
  /\ Reports(t, "ended")
  /\ Deletes(scan[t].gone) /\ first' = TRUE
  /\ Ends(t)
  /\ UNCHANGED <<alive, mishaps>>

Breaks(t) ==
  \/ scan[t].at = "commit" /\ Rolled(t) /\ UNCHANGED mishaps
  \/ scan[t].at = "batch" /\ Conflict(t) /\ ~Dashboard(t) /\ UNCHANGED mishaps
  \/ scan[t].at \in {"sweep", "batch", "commit"} /\ Mishap

\* Mutant: a scan that fails leaves without a word.
FailSilently(t) ==
  /\ Breaks(t)
  /\ t = "api" => cast["api"] = Quiet
  /\ Ends(t) /\ Drops(t) /\ UNCHANGED <<alive, first, memory>>

Fail(t) ==
  /\ Breaks(t)
  /\ Reports(t, "ended")
  /\ Ends(t) /\ Drops(t) /\ UNCHANGED <<alive, first>>

Finish ==
  /\ scan["api"].at = "end" /\ cast["api"] = Quiet
  /\ active' = FALSE /\ Off("api")
  /\ UNCHANGED <<tables, last, client, cast, mishaps>>

-----------------------------------------------------------------------------
(* Beside the scans *)

\* The ARP turbo loop or a live discovery ("arp"), and an agent's ARP table ("relay"): some of
\* what answers is read ...
Hear(w, s) ==
  /\ batch[w] = NoBatch /\ s \in alive /\ Reads(w, {s})
  /\ UNCHANGED <<alive, listed, first, memory, scan, mishaps>>

\* ... and stored, a relay's announced as a completed scan; or lost, with an error or without.
Heard(w) ==
  /\ batch[w] # NoBatch
  /\ \/ /\ Stores(w, scan) /\ UNCHANGED mishaps
        /\ IF w = "relay" THEN Broadcast("relay", "ended") ELSE UNCHANGED <<last, cast>>
     \/ /\ Mishap \/ ((Outdated(w) \/ Conflict(w)) /\ UNCHANGED mishaps)
        /\ Drops(w) /\ UNCHANGED <<last, cast, scan>>
  /\ UNCHANGED <<alive, first, active, client>>

DeleteHost(s) ==
  /\ Mishap /\ s \in listed /\ Deletes({s})
  /\ UNCHANGED <<alive, first, memory, scan>>

HostChanges(s) ==
  /\ s \in Restless
  /\ alive' = IF s \in alive THEN alive \ {s} ELSE alive \cup {s}
  /\ UNCHANGED <<listed, first, memory, scan, batch, mishaps>>

ServerRestarts ==
  /\ Mishap
  /\ active' = FALSE /\ last' = "idle"
  /\ client' = [c \in Clients |-> "off"] /\ cast' = [b \in DOMAIN cast |-> Quiet]
  /\ scan' = [t \in Scanners |-> NoScan] /\ batch' = [w \in Writers |-> NoBatch]
  /\ UNCHANGED <<alive, listed, first>>

-----------------------------------------------------------------------------
Steps(t) ==
  \/ \E s \in Subnets : Sweep(t, s) \/ SyncSubnet(t, s)
  \/ Tidy(t) \/ CommitScan(t) \/ Fail(t)

ScansNext ==
  \/ \E t \in Scanners : Steps(t)
  \/ \E t \in Scanners, s \in Subnets : SweepFails(t, s)
  \/ \E r \in Requests : StartScan(r)
  \/ \E t \in Timers : Wake(t)
  \/ Finish \/ ServerRestarts
  \/ \E b \in DOMAIN cast, c \in Clients : Deliver(b, c)
  \/ \E c \in Clients : Connect(c)
  \/ \E C \in SUBSET Clients : Leave(C)
  \/ \E w \in Hearers : Heard(w) \/ \E s \in Subnets : Hear(w, s)
  \/ \E s \in Subnets : DeleteHost(s) \/ HostChanges(s)

ScansSpec == ScansInit /\ [][ScansNext]_scansVars

\* The loops start over for ever; a scan, a broadcast and the last step of a scan go on
\* by themselves (a browser that takes nothing is dropped by the server's ping).  Whoever inserts
\* a host between a planner scan's read and its commit ends that scan: that does not happen in
\* every scan.
ScansFairness ==
  /\ \A t \in Timers : WF_scansVars(Wake(t))
  /\ \A t \in Scanners : WF_scansVars(Steps(t))
  /\ \A t \in Timers, s \in Subnets : SF_scansVars(SyncSubnet(t, s))
  /\ WF_scansVars(Finish)
  /\ \A b \in {"api", "relay"}, c \in Clients : WF_scansVars(Deliver(b, c))

FairScansSpec == ScansSpec /\ ScansFairness

-----------------------------------------------------------------------------
\* The flag that keeps a second scan out is up exactly as long as the first one is at
\* work, however that ends.
FlagIsScan == active <=> scan["api"].at # "off"

\* No browser is left with a progress bar: when no scan is at work and nothing is on its
\* way, neither the status asked for nor the one last sent to a browser says "running",
\* although a relay's broadcast and the scan's overtake each other and browsers come and go.
NobodyLeftWaiting ==
  ~active /\ (\A b \in DOMAIN cast : cast[b] = Quiet) =>
    last # "running" /\ \A c \in Clients : client[c] # "running"

\* What the server and the browsers take for running is what runs.
ScanIsShown == FlagIsScan /\ NobodyLeftWaiting

\* Every scan ends, and another can be started.
ScanEnds == active ~> ~active

\* A host that answers for good is listed for good, although cleanups make batches that met
\* its row stale and race the ARP loop, the relay and each other; but not in a subnet no scan
\* sweeps, where every cleanup deletes what was heard of it.
AnsweringIsListed == \A s \in Subnets \ Skipped : <>[](s \in alive) => <>[](s \in listed)

\* A host that is silent for good leaves the list.
SilentIsDropped == \A s \in Subnets : <>[](s \notin alive) => <>[](s \notin listed)

\* The list of discovered hosts follows who answers.
ListFollowsHosts == AnsweringIsListed /\ SilentIsDropped
================================================================================
