-------------------------------- MODULE Process --------------------------------
(***************************************************************************)
(* The server process: a start migrates the database step by step          *)
(* (main.py, database/migrations.py), then the scheduler's loops run       *)
(* (scanner/scheduler.py), until a stop, a crash or a database reset       *)
(* (api/settings.py) interrupts them.                                      *)
(*                                                                         *)
(* A start ends the process, goes on without a step, or is cut off; the    *)
(* database keeps what the steps before committed.                         *)
(*                                                                         *)
(* Abstracted: what a loop does in a turn (modules Presence, Rollups,      *)
(* Outbox, Scans); the columns added, the repair of addresses and tokens   *)
(* and the move of the measurements into a file of their own.  There is    *)
(* one reset at a time.                                                    *)
(***************************************************************************)
EXTENDS Integers

CONSTANTS
  Tables,        \* tables that may hold duplicate rows
  Indexed,       \* those that get a unique index with the cleanup
  Loops,         \* loops of the scheduler: "scan", "retention", "outbox"
  CleanupHours,  \* hours between two cleanups of the history (12 in the code)
  MaxFaults      \* bound: failed steps, crashes and stops

ASSUME TablesAssumption == Indexed \subseteq Tables
ASSUME LoopsAssumption == Loops \subseteq {"scan", "retention", "outbox"}
ASSUME ProcessBoundsAssumption ==
  /\ CleanupHours \in Nat \ {0} /\ MaxFaults \in Nat

VARIABLES
  proc,      \* "down", the step of the start that comes next, "up" or "stopping"
  dups,      \* tables that hold duplicates
  indexed,   \* tables that have their unique index
  copies,    \* tables whose latest duplicates are in a copy beside the database
  copied,    \* this start has taken its copy
  setting,   \* the legacy setting scan_subnets is there, naming one subnet
  subnet,    \* that subnet is in the table of subnets
  setup,     \* setup.complete
  expired,   \* history older than its retention is stored
  running,   \* ScanScheduler._running
  loop,      \* loop[l]: where loop l is
  stamp,     \* hours since _last_cleanup_time; CleanupHours: due
  reset,     \* the reset under way
  \* auxiliary: not in the program
  removed,   \* tables whose latest duplicates a start deleted
  dropped,   \* the administrator deleted the subnet
  faults

database == <<dups, indexed, copies, setting, subnet, setup, expired>>
watched == <<removed, dropped, faults>>
processVars == <<proc, database, copied, running, loop, stamp, reset, watched>>

StartSteps == {"unique", "services", "subnets", "serve"}
Following == [unique |-> "services", services |-> "subnets", subnets |-> "serve"]
Gated(l) == l # "outbox"

ProcessTypeOK ==
  /\ proc \in {"down", "up", "stopping"} \cup StartSteps
  /\ dups \subseteq Tables /\ indexed \subseteq Indexed /\ copies \subseteq Tables
  /\ {copied, setting, subnet, setup, expired, running, dropped} \subseteq BOOLEAN
  /\ loop \in [Loops -> {"off", "gate", "work", "rest", "closing"}]
  /\ stamp \in 0 .. CleanupHours
  /\ reset \in {"none", "stopping", "late", "wiping", "dropping", "starting"}
  /\ removed \subseteq Tables /\ faults \in 0 .. MaxFaults

\* A database an old version left, set up or not.
ProcessInit ==
  /\ proc = "down" /\ setup \in BOOLEAN
  /\ dups \in SUBSET Tables /\ indexed = {} /\ copies = {} /\ copied = FALSE
  /\ setting \in BOOLEAN /\ subnet \in BOOLEAN /\ expired \in BOOLEAN
  /\ running = FALSE /\ loop = [l \in Loops |-> "off"] /\ stamp = CleanupHours /\ reset = "none"
  /\ removed = {} /\ dropped = FALSE /\ faults = 0

Fault == faults < MaxFaults /\ faults' = faults + 1
Goes(step) == proc' = Following[step]
NoLoops == loop' = [l \in Loops |-> "off"]

-----------------------------------------------------------------------------
(* The start *)

Start ==
  /\ proc = "down"
  /\ proc' = "unique" /\ copied' = FALSE /\ stamp' = CleanupHours
  /\ UNCHANGED <<database, running, loop, reset, watched>>

\* Mutant: one copy is enough, whatever the starts after it find.
TakeCopyOnce ==
  IF copied \/ copies # {} THEN UNCHANGED <<copies, copied>>
  ELSE copies' = copies \cup dups /\ copied' = TRUE

\* Before the first deletion of a start the database is copied as it is.
TakeCopy ==
  IF copied THEN UNCHANGED <<copies, copied>> ELSE copies' = copies \cup dups /\ copied' = TRUE

\* The duplicates of one table; without a copy none is deleted.
Removes(t) ==
  /\ IF t \in dups THEN TakeCopy /\ removed' = removed \cup {t} ELSE UNCHANGED <<copies, copied, removed>>
  /\ dups' = dups \ {t}

\* Each table in a transaction of its own; a failure leaves that table as it was.
AddUniqueIndex(t) ==
  /\ proc = "unique" /\ t \in Indexed \ indexed
  /\ Removes(t) /\ indexed' = indexed \cup {t}
  /\ UNCHANGED <<proc, setting, subnet, setup, expired, running, loop, stamp, reset,
                 dropped, faults>>

\* The rest of the tables when this start is through with them or has failed at them.
UniqueDone ==
  /\ proc = "unique" /\ Goes("unique")
  /\ IF indexed = Indexed THEN UNCHANGED faults ELSE Fault
  /\ UNCHANGED <<database, copied, running, loop, stamp, reset, removed, dropped>>

DeduplicateServices ==
  /\ proc = "services" /\ Goes("services")
  /\ \E t \in Tables \ Indexed : Removes(t)
  /\ UNCHANGED <<indexed, setting, subnet, setup, expired, running, loop, stamp, reset,
                 dropped, faults>>

ServicesFail ==
  /\ Fault
  /\ proc = "services" /\ Goes("services")
  /\ UNCHANGED <<database, copied, running, loop, stamp, reset, removed, dropped>>

MoveSubnets ==
  /\ proc = "subnets" /\ Goes("subnets")
  /\ subnet' = (subnet \/ setting) /\ setting' = FALSE
  /\ UNCHANGED <<dups, indexed, copies, copied, setup, expired, running, loop, stamp,
                 reset, watched>>

\* scheduler.start: nothing if it runs.
StartsLoops ==
  IF running THEN UNCHANGED <<running, loop>>
  ELSE running' = TRUE /\ loop' = [l \in Loops |-> "gate"]

Serve ==
  /\ proc = "serve" /\ proc' = "up" /\ StartsLoops
  /\ UNCHANGED <<database, copied, stamp, reset, watched>>

-----------------------------------------------------------------------------
(* The loops: a look whether the setup is complete, a turn, a rest *)

Turn(l, at) == loop' = [loop EXCEPT ![l] = at]
Stays == UNCHANGED <<proc, dups, indexed, copies, copied, setting, subnet, setup, running,
                     reset, removed, dropped>>

\* An error reading the setting counts as not set up.
Look(l) ==
  /\ loop[l] = "gate"
  /\ \/ Turn(l, IF Gated(l) /\ ~setup THEN "rest" ELSE "work") /\ UNCHANGED faults
     \/ Gated(l) /\ Fault /\ Turn(l, "rest")
  /\ UNCHANGED <<expired, stamp>> /\ Stays

\* Mutant: every look at the clock counts as a cleanup.
CleanStampsAlways ==
  /\ loop["retention"] = "work" /\ Turn("retention", "rest") /\ stamp' = 0
  /\ \/ stamp < CleanupHours /\ UNCHANGED <<expired, faults>>
     \/ stamp = CleanupHours /\ expired' = FALSE /\ UNCHANGED faults
     \/ stamp = CleanupHours /\ Fault /\ UNCHANGED expired
  /\ Stays

\* _clean_old_history: the time is taken before the attempt, so that a failed one also
\* counts for CleanupHours.
Clean ==
  /\ loop["retention"] = "work" /\ Turn("retention", "rest")
  /\ \/ stamp < CleanupHours /\ UNCHANGED <<stamp, expired, faults>>
     \/ stamp = CleanupHours /\ stamp' = 0 /\ expired' = FALSE /\ UNCHANGED faults
     \/ stamp = CleanupHours /\ stamp' = 0 /\ Fault /\ UNCHANGED expired
  /\ Stays

\* A scan or a delivery; whatever it raises is logged, and the loop rests.
Turned(l) ==
  /\ loop[l] = "work" /\ l # "retention" /\ Turn(l, "rest")
  /\ UNCHANGED <<expired, stamp, faults>> /\ Stays

\* The retention loop rests for an hour.
Rested(l) ==
  /\ loop[l] = "rest" /\ running
  /\ Turn(l, "gate")
  /\ stamp' = IF l = "retention" /\ stamp < CleanupHours THEN stamp + 1 ELSE stamp
  /\ UNCHANGED <<expired, faults>> /\ Stays

\* Cancelled at its next await; a session it has open it still closes, and that may take as
\* long as another one's commit waits for the lock of the database.
Cancelled(l) ==
  /\ ~running /\ loop[l] \in {"gate", "work", "rest"}
  /\ Turn(l, IF loop[l] = "rest" THEN "off" ELSE "closing")
  /\ UNCHANGED <<expired, stamp, faults>> /\ Stays

Closed(l) ==
  /\ loop[l] = "closing" /\ Turn(l, "off")
  /\ UNCHANGED <<expired, stamp, faults>> /\ Stays

LoopSteps(l) ==
  \/ Look(l) \/ Turned(l) \/ Rested(l) \/ Cancelled(l) \/ Closed(l)
  \/ l = "retention" /\ Clean

-----------------------------------------------------------------------------
(* Requests, and the end of the process *)

CompleteSetup ==
  /\ proc = "up" /\ ~setup /\ reset = "none" /\ setup' = TRUE
  /\ UNCHANGED <<proc, dups, indexed, copies, copied, setting, subnet, expired, running,
                 loop, stamp, reset, watched>>

DropSubnet ==
  /\ proc = "up" /\ setup /\ subnet
  /\ subnet' = FALSE /\ dropped' = TRUE
  /\ UNCHANGED <<proc, dups, indexed, copies, copied, setting, setup, expired, running,
                 loop, stamp, reset, removed, faults>>

\* An import of an old backup brings duplicates where no unique index refuses them.
DuplicatesArise(t) ==
  /\ proc = "up" /\ setup /\ t \in Tables \ (indexed \cup dups)
  /\ dups' = dups \cup {t} /\ copies' = copies \ {t} /\ removed' = removed \ {t}
  /\ UNCHANGED <<proc, indexed, copied, setting, subnet, setup, expired, running,
                 loop, stamp, reset, dropped, faults>>

HistoryExpires ==
  /\ proc = "up" /\ setup /\ ~expired /\ expired' = TRUE
  /\ UNCHANGED <<proc, dups, indexed, copies, copied, setting, subnet, setup, running,
                 loop, stamp, reset, watched>>

ResetRequested ==
  /\ proc = "up" /\ setup /\ reset = "none"
  /\ reset' = "stopping" /\ running' = FALSE
  /\ UNCHANGED <<proc, database, copied, loop, stamp, watched>>

Ended == \A l \in Loops : loop[l] = "off"

\* After 5 s every loop that is still closing its session is cancelled once more, which ends
\* it.  wait_for raises only when stop() is over, and the gather of stop(), which returns
\* exceptions, is over only when every loop is.
TimesOut ==
  /\ reset = "stopping" /\ reset' = "late"
  /\ loop' = [l \in Loops |-> IF loop[l] = "closing" THEN "off" ELSE loop[l]]
  /\ UNCHANGED <<proc, database, copied, running, stamp, watched>>

\* Mutant: at the timeout the loops are left to themselves.
StoppedUnwaited ==
  /\ reset \in {"stopping", "late"} /\ (reset = "stopping" => Ended) /\ reset' = "wiping"
  /\ UNCHANGED <<proc, database, copied, running, loop, stamp, watched>>

\* With or without the timeout, which is only logged.
Stopped ==
  /\ reset \in {"stopping", "late"} /\ Ended /\ reset' = "wiping"
  /\ UNCHANGED <<proc, database, copied, running, loop, stamp, watched>>

\* One transaction over every table.
Wipe ==
  /\ reset = "wiping" /\ reset' = "dropping"
  /\ dups' = {}
  /\ setting' = FALSE /\ subnet' = FALSE /\ setup' = FALSE /\ expired' = FALSE
  /\ UNCHANGED <<proc, indexed, copies, copied, running, loop, stamp, watched>>

\* Credentials in memory, copies and streams.
Drop ==
  /\ reset = "dropping" /\ reset' = "starting"
  /\ copies' = {} /\ removed' = {}
  /\ UNCHANGED <<proc, dups, indexed, copied, setting, subnet, setup, expired, running,
                 loop, stamp, dropped, faults>>

StartAgain ==
  /\ reset = "starting" /\ reset' = "none" /\ StartsLoops
  /\ UNCHANGED <<proc, database, copied, stamp, watched>>

\* The wipe or the drop raises: answered with 500, and that is all.
ResetFails ==
  /\ Fault
  /\ reset \in {"wiping", "dropping"} /\ reset' = "none"
  /\ UNCHANGED <<proc, database, copied, running, loop, stamp, removed, dropped>>

\* The shutdown of the lifespan waits for requests first.
Shutdown ==
  /\ Fault
  /\ proc = "up" /\ reset = "none" /\ proc' = "stopping" /\ running' = FALSE
  /\ UNCHANGED <<database, copied, loop, stamp, reset, removed, dropped>>

Exit ==
  /\ proc = "stopping" /\ Ended /\ proc' = "down"
  /\ UNCHANGED <<database, copied, running, loop, stamp, reset, watched>>

\* Also a start that a step outside any try ends.
Crash ==
  /\ Fault
  /\ proc # "down" /\ proc' = "down" /\ running' = FALSE /\ NoLoops /\ reset' = "none"
  /\ UNCHANGED <<database, copied, stamp, removed, dropped>>

-----------------------------------------------------------------------------
Starting ==
  \/ Start \/ (\E t \in Tables : AddUniqueIndex(t)) \/ UniqueDone \/ DeduplicateServices
  \/ MoveSubnets \/ Serve

Resetting == TimesOut \/ Stopped \/ Wipe \/ Drop \/ StartAgain

ProcessNext ==
  \/ Starting \/ ServicesFail
  \/ \E l \in Loops : LoopSteps(l)
  \/ CompleteSetup \/ DropSubnet \/ HistoryExpires
  \/ \E t \in Tables : DuplicatesArise(t)
  \/ ResetRequested \/ Resetting \/ ResetFails
  \/ Shutdown \/ Exit \/ Crash

ProcessSpec == ProcessInit /\ [][ProcessNext]_processVars

ProcessFairness ==
  /\ WF_processVars(Starting) /\ WF_processVars(Resetting) /\ WF_processVars(Exit)
  /\ \A l \in Loops : WF_processVars(LoopSteps(l))

FairProcessSpec == ProcessSpec /\ ProcessFairness

-----------------------------------------------------------------------------
\* No scan and no cleanup is at work in an installation that is not set up: a reset
\* waits for the loops before it takes the setup back.
NoWorkBeforeSetup == ~setup => \A l \in Loops : Gated(l) => loop[l] # "work"

\* settings.py: from the wipe to its last step a reset is alone.  No loop of before is left, not
\* even one that was slow to end, to write into the empty tables, deliver what was queued or run
\* beside the loop that replaces it.
AloneInReset ==
  reset \in {"wiping", "dropping", "starting"} => ~running /\ \A l \in Loops : loop[l] = "off"

\* The loops work only when they should.
LoopsFollowSetup == NoWorkBeforeSetup /\ AloneInReset

\* Every duplicate a start deleted is in a copy, however often starts were cut off, until
\* a reset removes the copies.
DeletedIsCopied == removed \subseteq copies

\* main.py: a subnet the administrator deleted does not come back on the next start.
SubnetStaysDeleted == dropped => ~subnet

\* Starts that are cut off and repeated neither lose nor resurrect a row.
StartsRepeatSafely == DeletedIsCopied /\ SubnetStaysDeleted

\* While the scheduler keeps running in an installation that is set up, expired history
\* is removed again and again, although one attempt may fail.
HistoryIsCleaned == <>[](running /\ setup) => []<>(~expired)
================================================================================
