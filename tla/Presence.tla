------------------------------ MODULE Presence ------------------------------
(***************************************************************************)
(* Online/offline hysteresis of the device inventory                       *)
(* (src/backend/app/scanner/presence.py) and the tasks that drive it:      *)
(*                                                                         *)
(*   planner    _cleanup_devices after every quick or manual planner scan  *)
(*   dashboard  _run_health_phase of a full scan, one commit per batch     *)
(*   probe      run_health_probe_pass, once a minute                       *)
(*   sync       ARP turbo loop, discovery and Docker sync: devices heard,  *)
(*              and devices displaced from an address another one now has  *)
(*   report     one agent report                                           *)
(*                                                                         *)
(* They share one event loop and one SQLite file but not a session.  Each  *)
(* loads rows into its own identity map (no autoflush, no expiry on        *)
(* commit), awaits the network, changes its copies, and commits; a commit  *)
(* writes the columns that differ from what the session LOADED, never      *)
(* looking at what the row holds by then.  A copy here is that loaded row  *)
(* with the verdict the pass reached about the device.                     *)
(***************************************************************************)
EXTENDS Integers, FiniteSets

CONSTANTS
  Devices,          \* rows of the devices table
  Serviced,         \* devices with configured services
  Agents,           \* devices with an agent (has_agent or a token row)
  Alerting,         \* devices with alert_offline set
  Hidden,           \* devices with is_hidden set
  Outside,          \* devices whose address is in no scanned subnet
  Passes,           \* tasks that may hold a session
  Kind,             \* what each of them runs
  Thresholds,       \* values the setting scanner.offline_threshold takes
  BatchSize,        \* devices per dashboard batch (12 in the code)
  MaxMissed,        \* bound: missed counters and streaks saturate here
  MaxDisturbances   \* bound: failed commits, restarts and relay wake-ups

Kinds == {"planner", "dashboard", "probe", "sync", "report"}

ASSUME DevicesAssumption ==
  /\ Serviced \subseteq Devices /\ Agents \subseteq Devices /\ Alerting \subseteq Devices
  /\ Hidden \subseteq Devices /\ Outside \subseteq Devices
ASSUME KindAssumption == Kind \in [Passes -> Kinds]
ASSUME BoundsAssumption ==
  /\ MaxMissed \in Nat
  /\ Thresholds \subseteq 1 .. MaxMissed
  /\ Thresholds # {}
  /\ BatchSize \in Nat \ {0}
  /\ MaxDisturbances \in Nat

VARIABLES
  row,           \* committed devices rows: is_online, missed_scans
  parked,        \* committed column ip_placeholder: its address went to another device
  threshold,     \* committed setting scanner.offline_threshold
  fresh,         \* agent heartbeat younger than the stale window
  copy,          \* copy[p][d]: the row as pass p loaded it, and p's verdict
  recorded,      \* an "offline" history row is newer than the last time online
  alarmed,       \* a device.offline webhook was triggered in this outage or for a
                 \* verdict not committed yet
  disturbances,
  \* auxiliary: not in the program, they only watch it
  silent,        \* the outage began without a check: displaced by the sync or repaired
  streak,        \* failed checks of the device since its last successful one
  trusted        \* its checks were serial and none was lost since a clean reset

vars == <<row, parked, threshold, fresh, copy, recorded, alarmed, disturbances,
          silent, streak, trusted>>

Row == [online : BOOLEAN, missed : 0 .. MaxMissed]
Marks == {"none", "todo", "seen", "missed", "skipped", "displaced"}
Copy == [mark : Marks, online : BOOLEAN, missed : 0 .. MaxMissed,
         limit : 0 .. MaxMissed, stale : BOOLEAN, parked : BOOLEAN]
NoCopy == [mark |-> "none", online |-> FALSE, missed |-> 0, limit |-> 0, stale |-> FALSE,
           parked |-> FALSE]

Bump(n) == IF n < MaxMissed THEN n + 1 ELSE n

-----------------------------------------------------------------------------
(* What a pass makes of one loaded row.                                     *)

Seen(c) == [online |-> TRUE, missed |-> 0]

\* Mutant: every miss raised.
RaisedAlways(c) == IF c.missed < c.limit - 1 THEN c.limit - 1 ELSE c.missed

\* An agent that went silent too: the probe's miss is raised to the last one
\* before the threshold, whether or not the device is still online.
Raised(c) == IF c.stale /\ c.missed < c.limit - 1 THEN c.limit - 1 ELSE c.missed

Missed(c) ==
  CASE ~c.online -> [online |-> FALSE, missed |-> Raised(c)]
    [] c.online /\ Bump(Raised(c)) < c.limit -> [online |-> TRUE, missed |-> Bump(Raised(c))]
    [] OTHER -> [online |-> FALSE, missed |-> Bump(Raised(c))]

Result(c) ==
  CASE c.mark = "seen"   -> Seen(c)
    [] c.mark = "missed" -> Missed(c)
    [] c.mark = "displaced" -> [online |-> FALSE, missed |-> c.missed]
    [] OTHER             -> [online |-> c.online, missed |-> c.missed]

\* The UPDATE of a commit: only columns whose value differs from the loaded one.
Merge(r, c) ==
  [online |-> IF Result(c).online = c.online THEN r.online ELSE Result(c).online,
   missed |-> IF Result(c).missed = c.missed THEN r.missed ELSE Result(c).missed]

\* The column ip_placeholder: set by a displacement, cleared by the sync that hears the
\* device; its copies alone carry the loaded value.
MergeParked(was, c) ==
  CASE c.mark = "displaced" /\ ~c.parked -> TRUE
    [] c.mark = "seen" /\ c.parked -> FALSE
    [] OTHER -> was

\* Mutant: reported only when the counter meets the threshold exactly.
GoesOfflineExactly(c) == c.mark = "missed" /\ c.online /\ Missed(c).missed = c.limit

GoesOffline(c) == c.mark = "missed" /\ c.online /\ ~Missed(c).online

\* Mutant: the probe leaves devices with an agent to the agent, silent or not.
CountsMissAgentless(p, d) ==
  \/ Kind[p] = "planner" /\ d \notin Serviced
  \/ Kind[p] = "dashboard"
  \/ Kind[p] = "probe" /\ d \in Serviced \ Agents

\* Which failed checks are counted at all.
CountsMiss(p, d) ==
  \/ Kind[p] = "planner" /\ d \notin Serviced
  \/ Kind[p] = "dashboard"
  \/ Kind[p] = "probe" /\ (copy[p][d].stale \/ (d \in Serviced /\ d \notin Agents))

-----------------------------------------------------------------------------
Todo(p)    == {d \in Devices : copy[p][d].mark = "todo"}
Judged(p)  == {d \in Devices : copy[p][d].mark \notin {"none", "todo"}}
Idle(p)    == \A d \in Devices : copy[p][d].mark = "none"
OthersHold(p, d) == \E q \in Passes \ {p} : copy[q][d].mark # "none"

\* A pass of P has triggered the webhook of d for a verdict it has yet to commit.
InFlight(d, P) == \E q \in P : GoesOffline(copy[q][d]) /\ d \in Alerting

Init ==
  /\ row = [d \in Devices |-> [online |-> TRUE, missed |-> 0]]
  /\ parked = [d \in Devices |-> FALSE]
  /\ threshold \in Thresholds
  /\ fresh = [d \in Devices |-> d \in Agents]
  /\ copy = [p \in Passes |-> [d \in Devices |-> NoCopy]]
  /\ recorded = [d \in Devices |-> FALSE]
  /\ alarmed = [d \in Devices |-> FALSE]
  /\ disturbances = 0
  /\ silent = [d \in Devices |-> FALSE]
  /\ streak = [d \in Devices |-> 0]
  /\ trusted = [d \in Devices |-> TRUE]

\* The devices the planner counts: those online whose address it has scanned.  A
\* displaced device sits at 0.0.0.n, or at an old address in a scanned subnet.
InScan == {d \in Devices \ Outside : row[d].online}

\* The devices a pass selects: the probe leaves out hidden and displaced ones, a report
\* has its own device, a sync whatever hosts were heard, a full scan has all.
Selects(p, S) ==
  CASE Kind[p] = "planner" -> S \subseteq InScan /\ \A d \in InScan \ S : parked[d]
    [] Kind[p] = "probe"   -> S = {d \in Devices \ Hidden : ~parked[d]}
    [] Kind[p] = "report"  -> S \subseteq Agents /\ Cardinality(S) = 1
    [] Kind[p] = "sync"    -> TRUE
    [] OTHER               -> S = Devices

Load(p, S) ==
  /\ Idle(p)
  /\ S # {}
  /\ Selects(p, S)
  /\ copy' = [copy EXCEPT ![p] = [d \in Devices |->
       IF d \in S
       THEN [mark |-> "todo", online |-> row[d].online, missed |-> row[d].missed,
             limit |-> IF Kind[p] \in {"sync", "report"} THEN 0 ELSE threshold,
             stale |-> Kind[p] = "probe" /\ d \in Agents /\ ~fresh[d],
             parked |-> Kind[p] = "sync" /\ parked[d]]
       ELSE NoCopy]]
  /\ trusted' = [d \in Devices |-> trusted[d] /\ ~(d \in S /\ OthersHold(p, d))]
  /\ UNCHANGED <<row, parked, threshold, fresh, recorded, alarmed, disturbances,
                 silent, streak>>

\* The answer of device d reaches pass p.  Offline transitions of alerting devices
\* trigger their webhook here, in a session of its own, before the pass commits.
Judge(p, d, answered) ==
  /\ copy[p][d].mark = "todo"
  /\ Kind[p] = "dashboard" => Cardinality(Judged(p)) < BatchSize
  /\ Kind[p] \in {"sync", "report"} => answered
  /\ LET verdict == CASE answered -> "seen"
                      [] ~answered /\ CountsMiss(p, d) -> "missed"
                      [] OTHER -> "skipped"
         c == [copy[p][d] EXCEPT !.mark = verdict]
     IN  /\ copy' = [copy EXCEPT ![p][d] = c]
         /\ alarmed' = [alarmed EXCEPT ![d] = @ \/ (GoesOffline(c) /\ d \in Alerting)]
  /\ streak' = [streak EXCEPT ![d] = IF answered THEN 0 ELSE Bump(@)]
  /\ UNCHANGED <<row, parked, threshold, fresh, recorded, disturbances, silent, trusted>>

\* A sync gives the address of d to the device it heard there (_resolve_ip_conflict,
\* _relocate_conflicting_device): d goes offline with no check, no history entry, no
\* webhook and its counter as it is.
Displace(p, d) ==
  /\ Kind[p] = "sync"
  /\ copy[p][d].mark = "todo"
  /\ copy' = [copy EXCEPT ![p][d].mark = "displaced"]
  /\ UNCHANGED <<row, parked, threshold, fresh, recorded, alarmed, disturbances,
                 silent, streak, trusted>>

\* A batch is complete: every device of the pass judged, or a full dashboard batch.
Ready(p) ==
  /\ Judged(p) # {}
  /\ Todo(p) = {} \/ (Kind[p] = "dashboard" /\ Cardinality(Judged(p)) = BatchSize)

CommittedRow(p, d) == IF d \in Judged(p) THEN Merge(row[d], copy[p][d]) ELSE row[d]

\* The rows become `new`, the verdicts of the passes P stay open; `told` has just been
\* written to the history, `quiet` went offline without a check.
Shows(new, P, told, quiet) ==
  /\ row' = new
  /\ recorded' = [d \in Devices |-> ~new[d].online /\ (recorded[d] \/ d \in told)]
  /\ alarmed' = [d \in Devices |-> (~new[d].online /\ alarmed[d]) \/ InFlight(d, P)]
  /\ silent' = [d \in Devices |->
       ~new[d].online /\ (silent[d] \/ (row[d].online /\ d \in quiet))]

Commit(p) ==
  /\ Ready(p)
  /\ Shows([d \in Devices |-> CommittedRow(p, d)], Passes \ {p},
           {d \in Judged(p) \cap Alerting : GoesOffline(copy[p][d])},
           {d \in Devices : copy[p][d].mark = "displaced"})
  /\ parked' = [d \in Devices |-> MergeParked(parked[d], copy[p][d])]
  /\ fresh' = [d \in Devices |-> fresh[d] \/ (Kind[p] = "report" /\ d \in Judged(p))]
  /\ copy' = [copy EXCEPT ![p] = [d \in Devices |->
       IF d \in Judged(p) THEN NoCopy ELSE copy[p][d]]]
  /\ trusted' = [d \in Devices |->
       \/ trusted[d]
       \/ /\ copy[p][d].mark = "seen" /\ ~OthersHold(p, d)
          /\ CommittedRow(p, d) = [online |-> TRUE, missed |-> 0]]
  /\ UNCHANGED <<threshold, disturbances, streak>>

-----------------------------------------------------------------------------
(* Disturbances.                                                            *)

Disturb == disturbances < MaxDisturbances /\ disturbances' = disturbances + 1

\* A session ends without its writes; a lost success leaves the counter standing.
Discard(P) ==
  /\ Disturb
  /\ copy' = [p \in Passes |-> IF p \in P THEN [d \in Devices |-> NoCopy] ELSE copy[p]]
  /\ UNCHANGED <<threshold, fresh, streak>>

LosesNoSuccess(P, d) == \A p \in P : copy[p][d].mark # "seen"

\* A locked database or a device deleted under the pass: the batch is rolled back
\* (an agent report is retried from the start instead).
CommitFails(p) ==
  /\ Ready(p)
  /\ Kind[p] # "report"
  /\ Discard({p})
  /\ Shows(row, Passes \ {p}, {}, {})
  /\ trusted' = [d \in Devices |-> trusted[d] /\ LosesNoSuccess({p}, d)]
  /\ UNCHANGED parked

\* The process stops with passes in flight.  Its next start repairs the displaced rows
\* (_repair_corrupted_devices): those of running containers, `home`, come back with an
\* address, the others are shown offline.
Restart(home) ==
  /\ \E p \in Passes : ~Idle(p)
  /\ \A d \in home : parked[d]
  /\ Discard(Passes)
  /\ Shows([d \in Devices |-> IF parked[d] THEN [row[d] EXCEPT !.online = d \in home] ELSE row[d]],
           {}, {}, {d \in Devices : parked[d]})
  /\ parked' = [d \in Devices |-> parked[d] /\ d \notin home]
  /\ trusted' = [d \in Devices |-> trusted[d] /\ LosesNoSuccess(Passes, d) /\ d \notin home]

\* An agent's ARP table names an offline device without an agent of its own.
RelayWake(d) ==
  /\ Disturb
  /\ d \notin Agents
  /\ ~row[d].online
  /\ Shows([row EXCEPT ![d].online = TRUE], Passes, {}, {})
  /\ streak' = [streak EXCEPT ![d] = 0]
  /\ trusted' = [trusted EXCEPT ![d] = FALSE]
  /\ UNCHANGED <<parked, threshold, fresh, copy>>

AgentFallsSilent(d) ==
  /\ fresh[d]
  /\ fresh' = [fresh EXCEPT ![d] = FALSE]
  /\ UNCHANGED <<row, parked, threshold, copy, recorded, alarmed, disturbances,
                 silent, streak, trusted>>

ChangeThreshold(t) ==
  /\ t # threshold
  /\ threshold' = t
  /\ UNCHANGED <<row, parked, fresh, copy, recorded, alarmed, disturbances,
                 silent, streak, trusted>>

-----------------------------------------------------------------------------
Next ==
  \/ \E p \in Passes : \E S \in SUBSET Devices : Load(p, S)
  \/ \E p \in Passes, d \in Devices, answered \in BOOLEAN : Judge(p, d, answered)
  \/ \E p \in Passes, d \in Devices : Displace(p, d)
  \/ \E p \in Passes : Commit(p)
  \/ \E p \in Passes : CommitFails(p)
  \/ \E home \in SUBSET Devices : Restart(home)
  \/ \E d \in Devices : RelayWake(d)
  \/ \E d \in Devices : AgentFallsSilent(d)
  \/ \E t \in Thresholds : ChangeThreshold(t)

Spec == Init /\ [][Next]_vars

\* What runs by itself: the quick scan and the probe loop start over for ever (a
\* full scan is off by default), a started pass runs on, heartbeats age.
Fairness ==
  /\ \A p \in Passes : Kind[p] \in {"planner", "probe"} =>
       WF_vars(\E S \in SUBSET Devices : Load(p, S))
  /\ \A p \in Passes : WF_vars(\E d \in Devices, answered \in BOOLEAN : Judge(p, d, answered))
  /\ \A p \in Passes : WF_vars(Commit(p))
  /\ \A d \in Devices : WF_vars(AgentFallsSilent(d))

FairSpec == Spec /\ Fairness

-----------------------------------------------------------------------------
TypeOK ==
  /\ row \in [Devices -> Row]
  /\ parked \in [Devices -> BOOLEAN]
  /\ threshold \in Thresholds
  /\ fresh \in [Devices -> BOOLEAN]
  /\ copy \in [Passes -> [Devices -> Copy]]
  /\ recorded \in [Devices -> BOOLEAN]
  /\ alarmed \in [Devices -> BOOLEAN]
  /\ disturbances \in 0 .. MaxDisturbances
  /\ silent \in [Devices -> BOOLEAN]
  /\ streak \in [Devices -> 0 .. MaxMissed]
  /\ trusted \in [Devices -> BOOLEAN]

\* An alerting device that is shown offline has, however the passes interleave, its
\* "offline" history row, written in the commit that took it offline or in a later
\* one of the same outage, and the webhook of this outage was triggered
\* (mark_device_offline).  Outages that began without a check have neither: the device
\* was displaced by the sync (sync.py:439, 663) or by the repair of a start.
OutageIsReported ==
  \A d \in Devices : ~row[d].online /\ d \in Alerting /\ ~silent[d] => recorded[d] /\ alarmed[d]

\* The step takes device d offline in the database.
TakenOffline(d) == row[d].online /\ ~row'[d].online

\* Some pass took d offline after as many failed checks in a row as it was told to
\* wait for, or because the probe and the silent agent agree.
EnoughMisses(d) ==
  \E p \in Passes : /\ copy[p][d].mark = "missed"
                    /\ streak[d] >= copy[p][d].limit \/ copy[p][d].stale

\* The promise of presence.py as far as the code keeps it: while no two sessions held
\* the device at once, no success was rolled back and no relay woke it since its last
\* clean reset, it goes offline only after `offline_threshold` failed checks in a row,
\* or because it lost its address to another device.
OfflineAfterConsecutiveMisses ==
  [][\A d \in Devices : TakenOffline(d) /\ trusted[d] => EnoughMisses(d) \/ silent'[d]]_vars

\* A recurring pass looks at d and counts a failure of it: the planner if it has no
\* services and an address in a scanned subnet, the probe if it has services or an
\* agent and is not hidden.  Nothing that runs by itself counts for any other device.
Watched(d) ==
  /\ ~parked[d]
  /\ \/ d \notin Serviced \cup Outside
     \/ d \in Serviced \cup Agents /\ d \notin Hidden

\* A device that stops answering for good is shown offline for good, if it is watched,
\* although passes overwrite each other's counters, commits fail and the process restarts.
DeadGoesOffline ==
  \A d \in Devices : <>[](streak[d] > 0 /\ Watched(d)) => <>[](~row[d].online)

\* A device the probe looks at whose every check succeeds from some point on is shown
\* online for good.
AnsweringComesBack ==
  \A d \in Devices \ Hidden : <>[](streak[d] = 0 /\ ~parked[d]) => <>[](row[d].online)

\* In the end a device is shown as it is.
ShownAsItIs == DeadGoesOffline /\ AnsweringComesBack
=============================================================================
