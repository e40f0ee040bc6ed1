------------------------------- MODULE Rollups -------------------------------
(***************************************************************************)
(* The three tiers of telemetry.db                                         *)
(* (src/backend/app/services/telemetry_rollups.py): raw measurements,      *)
(* hourly rollups, daily rollups.  An hourly maintenance run folds every   *)
(* complete hour into one row per device, every complete day of hourly     *)
(* rows into one more, and prunes each tier to its retention.  Meanwhile   *)
(* probes and agent reports store measurements stamped with the time they  *)
(* began, the admin purges data or changes the retention, the run fails.   *)
(*                                                                         *)
(* A rollup row is abstracted to the set of measurements it aggregates,    *)
(* the empty set being no row; what the row computes from them (counts,    *)
(* weighted means) is left out.  Health samples and agent metrics go       *)
(* through the same code one after the other; one of them is modelled.     *)
(*                                                                         *)
(* Time is a clock of ticks, TicksPerHour of them to the hour: the first   *)
(* tick of an hour is the grace period in which the hour before is not     *)
(* complete yet.                                                           *)
(***************************************************************************)
EXTENDS Integers, FiniteSets, FiniteSetsExt

CONSTANTS
  Devices,
  TicksPerHour,     \* ticks to the hour, the first of them within ROLLUP_GRACE
  HoursPerDay,      \* 24 in the code
  Retentions,       \* settings the admin may choose: raw hours, hourly and daily days
  FirstRetention,   \* the one in force when the installation starts
  WindowLengths,    \* how far back a query of the history may reach, in ticks
  CommitEvery,      \* hours or days per transaction (24 in the code)
  MaxClock,         \* bound: the last tick
  MaxSamples,       \* bound: measurements taken
  MaxRunTicks,      \* bound: ticks one maintenance run lasts
  MaxDisruptions    \* bound: failed runs, crashes, purges and changes of the retention

Retention == [raw : Nat, hourly : Nat, daily : Nat]

ASSUME TimeAssumption ==
  /\ TicksPerHour \in Nat \ {0, 1}
  /\ HoursPerDay \in Nat \ {0}
  /\ CommitEvery \in Nat \ {0}
  /\ WindowLengths \subseteq Nat
  /\ MaxClock \in Nat /\ MaxSamples \in Nat /\ MaxRunTicks \in Nat /\ MaxDisruptions \in Nat
\* The endpoint accepts only tiers that nest.
ASSUME RetentionsAssumption ==
  /\ Retentions \subseteq Retention /\ FirstRetention \in Retentions
  /\ \A r \in Retentions : r.raw <= r.hourly * HoursPerDay /\ r.hourly <= r.daily

Ticks == 0 .. MaxClock
HourOf(t) == t \div TicksPerHour
DayOf(h) == h \div HoursPerDay
Hours == 0 .. HourOf(MaxClock)
None == -1      \* no hour, no day

VARIABLES
  clock,
  taken,        \* measurements under way, not committed yet: device and time stamp
  raw,          \* committed raw rows
  hourly,       \* hourly[d][h]: measurements in the hourly row of d
  daily,        \* daily[d][y]: measurements in the daily row of d
  retention,
  \* the maintenance run
  stage,        \* "idle", "hours", "days" or "prune"
  now,          \* its time, read when it starts
  keep,         \* the retention it read when it started
  cursor,       \* next hour or day to fold, or None
  staged,       \* rows added to the session, not committed
  processed,    \* buckets since the last commit
  measured,     \* measurements begun so far: device and time stamp
  disruptions,
  \* auxiliary: not in the program, they only watch it
  accepted      \* measurements committed in time, neither purged nor expired

run == <<stage, now, keep, cursor, staged, processed>>
vars == <<clock, taken, raw, hourly, daily, retention, run, measured, disruptions, accepted>>

Sample == Devices \X Ticks
NoRows == [d \in Devices |-> [b \in Hours |-> {}]]

-----------------------------------------------------------------------------
(* Time.                                                                     *)

\* Hours before this one are complete at time t, the grace period included.
EndHour(t) == HourOf(t - 1)

\* A day is complete once its last hour is.
EndDay(t) == DayOf(EndHour(t))

-----------------------------------------------------------------------------
(* What the queries of a run see.                                            *)

Rolled(tier) == {b \in Hours : \E d \in Devices : tier[d][b] # {}}
RawHours == {HourOf(s[2]) : s \in raw}

\* Mutant: progress is where the oldest rows are, not where the newest rollup is.
NextStartOldest(tier, sources) == IF sources # {} THEN Min(sources) ELSE None

\* _next_start: after the newest rollup, else at the oldest source row.
NextStart(tier, sources) ==
  CASE Rolled(tier) # {}                   -> Max(Rolled(tier)) + 1
    [] Rolled(tier) = {} /\ sources # {}   -> Min(sources)
    [] OTHER                               -> None

\* Mutant: a run stops at the first gap in the data.
SkipNowhere(b, sources) == None

\* _skip_to_data: the next bucket that has a source row.
SkipTo(b, sources) ==
  LET later == {x \in sources : x >= b} IN IF later = {} THEN None ELSE Min(later)

HourRow(d, h) == {t \in Ticks : <<d, t>> \in raw /\ HourOf(t) = h}
DayRow(d, y) == UNION {hourly[d][h] : h \in {x \in Hours : DayOf(x) = y}}
HourlyDays == {DayOf(h) : h \in Rolled(hourly)}

\* What a commit makes of a tier.
Flushed(tier, rows) ==
  [d \in Devices |-> [b \in Hours |-> IF rows[d][b] # {} THEN rows[d][b] ELSE tier[d][b]]]

\* _covered_until: source rows before this bucket are safe to drop.
CoveredUntil(tier) == IF Rolled(tier) = {} THEN 0 ELSE Max(Rolled(tier)) + 1

-----------------------------------------------------------------------------
Init ==
  /\ clock = 0
  /\ taken = {} /\ raw = {}
  /\ hourly = NoRows /\ daily = NoRows
  /\ retention = FirstRetention
  /\ stage = "idle" /\ now = 0 /\ keep = retention
  /\ cursor = None /\ staged = NoRows /\ processed = 0
  /\ measured = {} /\ disruptions = 0
  /\ accepted = {}

Tick ==
  /\ clock < MaxClock
  /\ stage # "idle" => clock < now + MaxRunTicks
  /\ clock' = clock + 1
  /\ UNCHANGED <<measured, taken, raw, hourly, daily, retention, run, disruptions, accepted>>

\* A probe or a report reads the time ...
Take(d) ==
  /\ <<d, clock>> \notin measured /\ Cardinality(measured) < MaxSamples
  /\ measured' = measured \cup {<<d, clock>>}
  /\ taken' = taken \cup {<<d, clock>>}
  /\ UNCHANGED <<clock, raw, hourly, daily, retention, run, disruptions, accepted>>

\* Its hour and the grace period after it are not over.
InTime(s) == HourOf(s[2]) >= HourOf(clock - 1)

\* ... and commits its row, in time or after its hour may have been folded.
Store(s) ==
  /\ s \in taken
  /\ taken' = taken \ {s}
  /\ raw' = raw \cup {s}
  /\ accepted' = IF InTime(s) THEN accepted \cup {s} ELSE accepted
  /\ UNCHANGED <<measured, clock, hourly, daily, retention, run, disruptions>>

-----------------------------------------------------------------------------
(* One maintenance run.                                                      *)

StartRun ==
  /\ stage = "idle"
  /\ stage' = "hours"
  /\ now' = clock
  /\ keep' = retention
  /\ cursor' = NextStart(hourly, RawHours)
  /\ UNCHANGED <<measured, clock, taken, raw, hourly, daily, retention, staged, processed,
                 disruptions, accepted>>

\* Buckets since the last commit, after n.
BatchCount(n) == n % CommitEvery

\* Fold one bucket: add its rows to the session and commit every CommitEvery buckets,
\* or jump to the next bucket with data.  row[d] is what d's sources hold.
FoldBucket(tier, row, sources) ==
  IF \E d \in Devices : row[d] # {}
  THEN LET rows == [d \in Devices |-> [staged[d] EXCEPT ![cursor] = row[d]]]
           full == BatchCount(processed + 1) = 0
       IN  /\ cursor' = cursor + 1
           /\ processed' = BatchCount(processed + 1)
           /\ staged' = IF full THEN NoRows ELSE rows
           /\ tier' = IF full THEN Flushed(tier, rows) ELSE tier
  ELSE /\ cursor' = SkipTo(cursor + 1, sources)
       /\ UNCHANGED <<processed, staged, tier>>

FoldHour ==
  /\ stage = "hours" /\ cursor # None /\ cursor < EndHour(now)
  /\ FoldBucket(hourly, [d \in Devices |-> HourRow(d, cursor)], RawHours)
  /\ UNCHANGED <<measured, clock, taken, raw, daily, retention, stage, now, keep,
                 disruptions, accepted>>

\* The final commit of the hours; then the start of the days is looked up.
HoursDone ==
  /\ stage = "hours" /\ (cursor = None \/ cursor >= EndHour(now))
  /\ hourly' = Flushed(hourly, staged)
  /\ stage' = "days"
  /\ staged' = NoRows /\ processed' = 0
  /\ cursor' = NextStart(daily, HourlyDays')
  /\ UNCHANGED <<measured, clock, taken, raw, daily, retention, now, keep, disruptions, accepted>>

FoldDay ==
  /\ stage = "days" /\ cursor # None /\ cursor < EndDay(now)
  /\ FoldBucket(daily, [d \in Devices |-> DayRow(d, cursor)], HourlyDays)
  /\ UNCHANGED <<measured, clock, taken, raw, hourly, retention, stage, now, keep,
                 disruptions, accepted>>

DaysDone ==
  /\ stage = "days" /\ (cursor = None \/ cursor >= EndDay(now))
  /\ daily' = Flushed(daily, staged)
  /\ stage' = "prune"
  /\ staged' = NoRows /\ processed' = 0 /\ cursor' = None
  /\ UNCHANGED <<measured, clock, taken, raw, hourly, retention, now, keep, disruptions, accepted>>

\* Mutant: a raw row goes once its hour began before the cutoff, folded or not.
RawGoesUnfolded(h) == h <= HourOf(now) - keep.raw

\* A raw row goes once it is too old and its hour is folded; an hourly row once it is
\* too old and its day is.
RawGoes(h) == h < HourOf(now) - keep.raw /\ h < CoveredUntil(hourly)
HourlyGoes(h) == DayOf(h) < DayOf(HourOf(now)) - keep.hourly /\ DayOf(h) < CoveredUntil(daily)
DailyGoes(y) == y < DayOf(HourOf(now)) - keep.daily

Prune ==
  /\ stage = "prune"
  /\ raw' = {s \in raw : ~RawGoes(HourOf(s[2]))}
  /\ hourly' = [d \in Devices |-> [h \in Hours |-> IF HourlyGoes(h) THEN {} ELSE hourly[d][h]]]
  /\ daily' = [d \in Devices |-> [y \in Hours |-> IF DailyGoes(y) THEN {} ELSE daily[d][y]]]
  /\ accepted' = {s \in accepted : ~DailyGoes(DayOf(HourOf(s[2])))}
  /\ stage' = "idle"
  /\ now' = 0
  /\ UNCHANGED <<measured, clock, taken, retention, keep, cursor, staged, processed, disruptions>>


\* An exception, or a stop of the scheduler: the session is rolled back.
RunFails ==
  /\ stage # "idle" /\ disruptions < MaxDisruptions
  /\ disruptions' = disruptions + 1
  /\ stage' = "idle" /\ now' = 0 /\ cursor' = None
  /\ staged' = NoRows /\ processed' = 0
  /\ UNCHANGED <<measured, clock, taken, raw, hourly, daily, retention, keep, accepted>>

\* The server dies; what was under way is gone.
Crash ==
  /\ stage # "idle" /\ disruptions < MaxDisruptions
  /\ disruptions' = disruptions + 1
  /\ taken' = {}
  /\ stage' = "idle" /\ now' = 0 /\ cursor' = None
  /\ staged' = NoRows /\ processed' = 0
  /\ UNCHANGED <<measured, clock, raw, hourly, daily, retention, keep, accepted>>

-----------------------------------------------------------------------------
(* The admin.                                                                *)

\* Delete the rows of these devices stamped before this time, in every tier; a rollup
\* row is stamped with the start of its bucket.
Purge(devices, cutoff) ==
  LET TicksPerDay == TicksPerHour * HoursPerDay
      Goes(d, start) == d \in devices /\ start < cutoff
  IN  /\ disruptions < MaxDisruptions
      /\ disruptions' = disruptions + 1
      /\ raw' = {s \in raw : ~Goes(s[1], s[2])}
      /\ hourly' = [d \in Devices |-> [h \in Hours |->
                      IF Goes(d, h * TicksPerHour) THEN {} ELSE hourly[d][h]]]
      /\ daily' = [d \in Devices |-> [y \in Hours |->
                      IF Goes(d, y * TicksPerDay) THEN {} ELSE daily[d][y]]]
      /\ accepted' = {s \in accepted : ~Goes(s[1], DayOf(HourOf(s[2])) * TicksPerDay)}
      /\ UNCHANGED <<measured, clock, taken, retention, run>>

PurgeAll == Purge(Devices, clock + 1)
PurgeDevice(d) == Purge({d}, clock + 1)
PurgeOlder(days) == Purge(Devices, clock - days * TicksPerHour * HoursPerDay)

ChangeRetention(r) ==
  /\ r # retention /\ disruptions < MaxDisruptions
  /\ disruptions' = disruptions + 1
  /\ retention' = r
  /\ UNCHANGED <<measured, clock, taken, raw, hourly, daily, run, accepted>>

-----------------------------------------------------------------------------
Next ==
  \/ Tick
  \/ \E d \in Devices : Take(d) \/ PurgeDevice(d)
  \/ \E s \in taken : Store(s)
  \/ StartRun \/ FoldHour \/ HoursDone \/ FoldDay \/ DaysDone \/ Prune
  \/ RunFails \/ Crash
  \/ PurgeAll
  \/ \E days \in 1 .. DayOf(HourOf(MaxClock)) : PurgeOlder(days)
  \/ \E r \in Retentions : ChangeRetention(r)

Spec == Init /\ [][Next]_vars

-----------------------------------------------------------------------------
(* A query of the history (telemetry_query.py, health.py), which the tiers   *)
(* answer together: one of them preferred, and from the others what it does  *)
(* not hold.                                                                 *)

TicksIn(tier) == IF tier = "day" THEN TicksPerHour * HoursPerDay ELSE TicksPerHour
FloorTo(t, tier) == t - (t % TicksIn(tier))
CeilTo(t, tier) == IF FloorTo(t, tier) = t THEN t ELSE FloorTo(t, tier) + TicksIn(tier)
Forever == MaxClock + 2 * TicksIn("day")

\* Where a window that ends now may begin.
Windows == {Max({0, clock - length}) : length \in WindowLengths}

\* choose_resolution, by the length of the window and the retention.
Preferred(w) ==
  CASE clock - w <= TicksPerHour * Min({retention.raw, 2 * HoursPerDay})        -> "raw"
    [] clock - w > TicksPerHour * Min({retention.raw, 2 * HoursPerDay})
       /\ clock - w <= TicksIn("day") * retention.hourly                        -> "hour"
    [] OTHER                                                                    -> "day"

\* _coverage of a tier with rows that start at these ticks, over all devices: the start of
\* the first bucket, the end of the last one; an empty tier begins at no time.
Coverage(tier, starts) ==
  IF starts = {} THEN [from |-> Forever, to |-> 0]
  ELSE [from |-> Min(starts), to |-> IF tier = "raw" THEN Forever ELSE Max(starts) + TicksIn(tier)]
Coverages ==
  [raw  |-> Coverage("raw", {s[2] : s \in raw}),
   hour |-> Coverage("hour", {h * TicksIn("hour") : h \in Rolled(hourly)}),
   day  |-> Coverage("day", {y * TicksIn("day") : y \in Rolled(daily)})]

\* From one moment to another; a plan knows its oldest segment and from where it has data.
Segment(tier, from, to) == [tier |-> tier, from |-> from, to |-> to]
Plan(head, rest, earliest) == [head |-> head, rest |-> rest, earliest |-> earliest]

\* Newer than the preferred tier's last bucket: the next finer tier, at last the raw rows.
Fine(w, cov) ==
  LET preferred == Preferred(w)
      days  == IF preferred = "day" THEN Max({w, cov.day.to}) ELSE w
      hours == IF preferred = "raw" THEN w ELSE Max({days, cov.hour.to})
      all   == {s \in {Segment("day", w, days), Segment("hour", days, hours)} : s.from < s.to}
                 \cup {Segment("raw", hours, Forever)}
      head  == CHOOSE s \in all : \A r \in all : s.from <= r.from
  IN  Plan(head, all \ {head}, Max({w, cov[head.tier].from}))

\* Mutant: a coarser tier is added, and the finer one still begins where it did.
FilledUnclipped(plan, tier, w, cov) ==
  LET edge == Min({plan.earliest, cov.to})
  IN  IF plan.earliest <= w \/ cov.from >= FloorTo(edge, tier) THEN plan
      ELSE Plan(Segment(tier, w, CeilTo(edge, tier)), plan.rest \cup {plan.head}, Max({w, cov.from}))

\* Older than the head's first bucket: this coarser tier, unless it has nothing older.
Filled(plan, tier, w, cov) ==
  LET edge == Min({plan.earliest, cov.to})
      clipped == [plan.head EXCEPT !.from = Max({@, CeilTo(edge, tier)})]
  IN  IF plan.earliest <= w \/ cov.from >= FloorTo(edge, tier) THEN plan
      ELSE Plan(Segment(tier, w, CeilTo(edge, tier)), plan.rest \cup {clipped}, Max({w, cov.from}))

\* plan_segments
Segments(w, cov) ==
  LET fine == Fine(w, cov)
      hours == IF fine.head.tier = "raw" THEN Filled(fine, "hour", w, cov.hour) ELSE fine
      days == IF fine.head.tier \in {"raw", "hour"} THEN Filled(hours, "day", w, cov.day) ELSE hours
  IN  days.rest \cup {days.head}

\* The rows of a rollup tier whose bucket starts within a segment, and the raw rows stamped
\* within one, each of them a bucket of one.
Within(seg, t) == seg.from <= t /\ t < seg.to
Buckets(tier, seg) ==
  LET starts == {x \in Devices \X Hours :
                   tier[x[1]][x[2]] # {} /\ Within(seg, x[2] * TicksIn(seg.tier))}
  IN  {[of |-> x[1], tier |-> seg.tier, at |-> x[2], rows |-> tier[x[1]][x[2]]] : x \in starts}
RawRows(seg) ==
  {[of |-> s[1], tier |-> "raw", at |-> s[2], rows |-> {s[2]}] : s \in {x \in raw : Within(seg, x[2])}}
PointsOf(seg) ==
  CASE seg.tier = "raw"  -> RawRows(seg)
    [] seg.tier = "hour" -> Buckets(hourly, seg)
    [] seg.tier = "day"  -> Buckets(daily, seg)

\* load_health_points, load_metric_points
Points(w, cov) == UNION {PointsOf(seg) : seg \in Segments(w, cov)}

-----------------------------------------------------------------------------
Rows == [Devices -> [Hours -> SUBSET Ticks]]

TypeOK ==
  /\ clock \in Ticks
  /\ taken \subseteq Sample /\ raw \subseteq Sample /\ accepted \subseteq Sample
  /\ hourly \in Rows /\ daily \in Rows /\ staged \in Rows
  /\ retention \in Retentions /\ keep \in Retentions
  /\ stage \in {"idle", "hours", "days", "prune"}
  /\ now \in Ticks /\ now <= clock
  /\ cursor \in {None} \cup Nat
  /\ processed \in 0 .. CommitEvery - 1
  /\ measured \subseteq Sample /\ disruptions \in 0 .. MaxDisruptions

\* A measurement is in the raw tier, in its hour's row or in its day's row.
InHour(s) == s[2] \in hourly[s[1]][HourOf(s[2])]
InDay(s) == s[2] \in daily[s[1]][DayOf(HourOf(s[2]))]
Held(s) == s \in raw \/ InHour(s) \/ InDay(s)

\* Each tier is pruned to its retention, but never past what the coarser tier holds
\* (telemetry_rollups.py:9-10): a measurement committed before its hour was due to be
\* folded stays in some tier until its day is beyond the daily retention or the admin
\* purges it, whatever runs fail on the way.
NothingLost == \A s \in accepted : Held(s)

\* A day is folded only once all its hours are (telemetry_rollups.py:313): a day's row
\* aggregates every measurement of the day that was committed in time.
DailyIsWhole ==
  \A s \in accepted : daily[s[1]][DayOf(HourOf(s[2]))] # {} => InDay(s)

\* Whatever was measured in time is in a tier, and in its day's row once there is one.
TiersHold == TypeOK /\ NothingLost /\ DailyIsWhole

\* "an interrupted run continues where it stopped and a repeated run adds nothing
\* twice" (telemetry_rollups.py:12-13): a row added is never there already.
AddsNothingTwice ==
  \A d \in Devices, b \in Hours : staged[d][b] # {} =>
    IF stage = "hours" THEN hourly[d][b] = {} ELSE daily[d][b] = {}

\* "every complete hour that has raw rows but no hourly rollup yet" becomes a row, then
\* every complete day (telemetry_rollups.py:6-8): when a run has folded the hours, and
\* again when it has folded the days, no measurement committed in time is left behind,
\* whatever gaps, failed runs and purges came before.
CaughtUp ==
  /\ stage \in {"days", "prune"} =>
       \A s \in accepted : HourOf(s[2]) < HourOf(now - 1) => InHour(s) \/ InDay(s)
  /\ stage = "prune" =>
       \A s \in accepted : DayOf(HourOf(s[2])) < DayOf(HourOf(now - 1)) => InDay(s)

\* No measurement is behind two points: uptime and latency are weighed by the samples of
\* each point.
CountsOnce(w) ==
  LET points == Points(w, Coverages)
  IN  \A p, q \in points : p # q /\ p.of = q.of => p.rows \cap q.rows = {}

\* No measurement is missing after the first, partial day of the window.
MissesNothing(w) ==
  LET points == Points(w, Coverages)
  IN  \A s \in accepted : s[2] >= CeilTo(w, "day") => \E p \in points : p.of = s[1] /\ s[2] \in p.rows

\* "Boundaries fall on bucket edges, so no measurement is counted twice"
\* (telemetry_query.py:11): whatever of a window comes from which tier, at whatever point
\* of a maintenance run it is read.
CountedOnce == \A w \in Windows : CountsOnce(w)

\* No row of the raw and hourly tiers came too late for its rollup, and no day was purged
\* in part.
AllInTime ==
  /\ raw \subseteq accepted
  /\ \A d \in Devices, h \in Hours : \A t \in hourly[d][h] : <<d, t>> \in accepted

\* The raw tier reaches back as far as the retention in force says: the admin has not
\* raised it since the rows it would keep were pruned.
RawReachesBack == \A h \in Rolled(hourly) : h >= HourOf(clock) - retention.raw => h \in RawHours

\* A purge came between the folding of a day and its commit: the day's row is back.
DayCameBack == \E s \in raw : InDay(s) /\ ~InHour(s)

\* What the preferred tier does not hold comes from the coarser tiers, or from the finer
\* ones (telemetry_query.py:3-9), and boundaries fall on bucket edges: a query misses no
\* measurement of its whole days unless a late row is about, and counts none twice unless
\* the raw retention was raised or a purge met a run.
QueriesAreExact ==
  /\ AllInTime => \A w \in Windows : MissesNothing(w)
  /\ RawReachesBack /\ ~DayCameBack => CountedOnce

=============================================================================
