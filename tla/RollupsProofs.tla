---------------------------- MODULE RollupsProofs ----------------------------
(***************************************************************************)
(* Proofs about Rollups for any number of devices, ticks, hours to the     *)
(* day, retentions, batches, purges and failed runs.  The invariant, Whole, *)
(* follows one measurement that was committed in time: wherever a tier has *)
(* a bucket at or after its own, the measurement is in that tier or in the *)
(* coarser one, and while a run folds, what the run has passed is folded   *)
(* or staged.  For the queries a second invariant, Exact, says what a tier *)
(* no longer has: rows go from the finer tiers first, and oldest first.    *)
(***************************************************************************)
EXTENDS Rollups, WellFoundedInduction, TLAPS

\* The bucket of a measurement in the hourly tier and in the daily one.
Hr(s) == HourOf(s[2])
Dy(s) == DayOf(HourOf(s[2]))

\* The time up to which a bucket may be complete.
Asof == IF stage = "idle" THEN clock ELSE now

\* Only complete buckets have rows.
Complete ==
  /\ \A d \in Devices : \A h \in Hours : hourly[d][h] # {} => h < EndHour(Asof)
  /\ \A d \in Devices : \A y \in Hours : daily[d][y] # {} => y < EndDay(Asof)

\* What is in a tier or staged for it is behind the cursor.
Behind(tier, end) ==
  \A d \in Devices : \A b \in Hours :
    tier[d][b] # {} \/ staged[d][b] # {} => b < end /\ (cursor # None => b < cursor)

RunInv ==
  /\ stage = "hours" => Behind(hourly, EndHour(now))
  /\ stage = "days" => Behind(daily, EndDay(now))
  /\ stage \in {"idle", "prune"} => staged = NoRows

\* Passed by the run: complete, and before its cursor.
Passed(b, end) == b < end /\ (cursor # None => b < cursor)

Folded(s) == InHour(s) \/ InDay(s)
Staged(s, b) == s[2] \in staged[s[1]][b]

\* One measurement committed in time.
HourFrontier(s) ==
  \A d \in Devices : \A h \in Hours : hourly[d][h] # {} /\ Hr(s) <= h => Folded(s)
DayFrontier(s) ==
  \A d \in Devices : \A y \in Hours : daily[d][y] # {} /\ Dy(s) <= y => InDay(s)
HoursSoFar(s) ==
  stage = "hours" /\ Passed(Hr(s), EndHour(now)) => Folded(s) \/ Staged(s, Hr(s))
DaysSoFar(s) ==
  stage = "days" /\ Passed(Dy(s), EndDay(now)) => InDay(s) \/ Staged(s, Dy(s))
HoursFolded(s) == stage \in {"days", "prune"} /\ Hr(s) < EndHour(now) => Folded(s)
DaysFolded(s) == stage = "prune" /\ Dy(s) < EndDay(now) => InDay(s)

Sound(s) ==
  /\ Held(s) /\ HourFrontier(s) /\ DayFrontier(s)
  /\ HoursSoFar(s) /\ DaysSoFar(s) /\ HoursFolded(s) /\ DaysFolded(s)

Whole ==
  /\ TypeOK /\ Complete /\ RunInv /\ AddsNothingTwice
  /\ \A s \in accepted : Sound(s)

-----------------------------------------------------------------------------
(* Least and greatest elements, and division.                                *)

Less == OpToRel(<, Nat)

LEMMA LessIs == \A x \in Nat : \A y \in Nat : <<x, y>> \in Less <=> x < y
BY DEF Less, OpToRel

\* Min of a set of naturals is its least element.
LEMMA MinFacts ==
  ASSUME NEW S, S \subseteq Nat, S # {}
  PROVE  Min(S) \in S /\ \A y \in S : Min(S) <= y
<1>1. IsWellFoundedOn(Less, Nat)
  BY NatLessThanWellFounded DEF Less
<1>2. \E x \in S : \A y \in S : ~(<<y, x>> \in Less)
  BY <1>1, WFMin
<1>3. \E x \in S : \A y \in S : x <= y
  <2>1. PICK x \in S : \A y \in S : ~(<<y, x>> \in Less)
    BY <1>2
  <2>2. \A y \in S : ~(y < x)
    BY <2>1, LessIs
  <2>3. \A y \in S : y \in Nat
    OBVIOUS
  <2>4. \A y \in S : x <= y
    BY <2>2, <2>3
  <2>5. QED
    BY <2>4
<1>4. QED
  BY <1>3 DEF Min

\* Max of a bounded one is its greatest.
LEMMA MaxFacts ==
  ASSUME NEW N \in Nat, NEW S, S \subseteq 0 .. N, S # {}
  PROVE  Max(S) \in S /\ \A y \in S : y <= Max(S)
<1> DEFINE T == {N - x : x \in S}
<1>1. T \subseteq Nat /\ T # {}
  <2>1. \A x \in S : x \in 0 .. N
    OBVIOUS
  <2>2. \A x \in S : N - x \in Nat
    BY <2>1
  <2>3. QED
    BY <2>2
<1>2. Min(T) \in T /\ \A y \in T : Min(T) <= y
  BY <1>1, MinFacts
<1>3. \E x \in S : \A y \in S : x >= y
  <2>1. PICK x \in S : Min(T) = N - x
    BY <1>2
  <2>2. \A y \in S : N - x <= N - y
    BY <1>2, <2>1
  <2>3. \A y \in S : x >= y
    BY <2>2
  <2>4. QED
    BY <2>3
<1>4. Max(S) \in S /\ \A y \in S : Max(S) >= y
  BY <1>3 DEF Max
<1>5. QED
  BY <1>4

\* A quotient, and what is left of the dividend.
LEMMA Quotient ==
  ASSUME NEW d \in Nat \ {0}, NEW t \in Int
  PROVE  t \div d \in Int /\ d * (t \div d) <= t /\ t < d * (t \div d) + d
OBVIOUS

LEMMA QuotientGrows ==
  ASSUME NEW d \in Nat \ {0}, NEW t \in Int, NEW u \in Int, t <= u
  PROVE  t \div d <= u \div d
<1> DEFINE a == t \div d
           b == u \div d
<1>1. a \in Int /\ b \in Int /\ d * a <= t /\ u < d * b + d
  BY Quotient
<1> HIDE DEF a, b
<1>2. SUFFICES ASSUME b + 1 <= a PROVE FALSE
  BY <1>1
<1>3. d * (b + 1) <= d * a
  BY <1>1, <1>2
<1>4. d * (b + 1) = d * b + d
  BY <1>1
<1>5. QED
  BY <1>1, <1>3, <1>4

LEMMA QuotientOfNat ==
  ASSUME NEW d \in Nat \ {0}, NEW t \in Nat
  PROVE  t \div d \in Nat /\ t \div d <= t
<1> DEFINE a == t \div d
<1>1. a \in Int /\ d * a <= t /\ t < d * a + d
  BY Quotient
<1> HIDE DEF a
<1>2. a >= 0
  BY <1>1
<1>3. a <= d * a
  BY <1>1, <1>2
<1>4. QED
  BY <1>1, <1>2, <1>3 DEF a

-----------------------------------------------------------------------------
(* Hours and days.                                                           *)

LEMMA Scale ==
  TicksPerHour \in Nat \ {0} /\ HoursPerDay \in Nat \ {0} /\ MaxClock \in Nat
BY TimeAssumption

\* Hours and days grow with time; a complete hour or day is in the model's range.
LEMMA HourFacts ==
  /\ \A t \in Int : HourOf(t) \in Int
  /\ \A t \in Int : \A u \in Int : t <= u => HourOf(t) <= HourOf(u)
  /\ \A t \in Nat : HourOf(t) \in Nat
BY Scale, Quotient, QuotientGrows, QuotientOfNat DEF HourOf

LEMMA DayFacts ==
  /\ \A t \in Int : DayOf(t) \in Int
  /\ \A t \in Int : \A u \in Int : t <= u => DayOf(t) <= DayOf(u)
  /\ \A t \in Nat : DayOf(t) \in Nat /\ DayOf(t) <= t
BY Scale, Quotient, QuotientGrows, QuotientOfNat DEF DayOf

LEMMA HourRange ==
  /\ Hours \subseteq Nat
  /\ HourOf(MaxClock) \in Nat
  /\ \A t \in Ticks : HourOf(t) \in Hours
  /\ \A h \in Hours : DayOf(h) \in Hours
<1>1. HourOf(MaxClock) \in Nat
  BY Scale, HourFacts
<1>2. \A t \in Ticks : HourOf(t) \in Hours
  BY <1>1, Scale, HourFacts DEF Ticks, Hours
<1>3. \A h \in Hours : h \in Nat /\ h <= HourOf(MaxClock)
  BY <1>1 DEF Hours
<1>4. \A h \in Hours : DayOf(h) \in Hours
  BY <1>1, <1>3, DayFacts DEF Hours
<1>5. QED
  BY <1>1, <1>2, <1>3, <1>4

LEMMA EndFacts ==
  /\ \A t \in Ticks : EndHour(t) \in Int /\ EndDay(t) \in Int
  /\ \A t \in Ticks : \A u \in Ticks : t <= u => EndHour(t) <= EndHour(u)
  /\ \A t \in Ticks : \A u \in Ticks : t <= u => EndDay(t) <= EndDay(u)
  /\ \A t \in Ticks : \A b \in Nat : b < EndHour(t) => b \in Hours
  /\ \A t \in Ticks : \A b \in Nat : b < EndDay(t) => b \in Hours
  /\ \A t \in Ticks : \A h \in Int : DayOf(h) < EndDay(t) => h < EndHour(t)
<1>1. \A t \in Ticks : EndHour(t) \in Int /\ EndDay(t) \in Int
  BY Scale, HourFacts, DayFacts DEF EndHour, EndDay, Ticks
<1>2. \A t \in Ticks : \A u \in Ticks : t <= u => EndHour(t) <= EndHour(u)
  BY Scale, HourFacts DEF EndHour, Ticks
<1>3. \A t \in Ticks : \A u \in Ticks : t <= u => EndDay(t) <= EndDay(u)
  BY <1>1, <1>2, DayFacts DEF EndDay
<1>4. \A t \in Ticks : EndHour(t) <= HourOf(MaxClock)
  BY Scale, HourFacts DEF EndHour, Ticks
<1>5. \A t \in Ticks : \A b \in Nat : b < EndHour(t) => b \in Hours
  BY <1>1, <1>4, HourRange DEF Hours
<1>6. \A t \in Ticks : EndDay(t) <= HourOf(MaxClock)
  BY <1>1, <1>4, HourRange, DayFacts DEF EndDay
<1>7. \A t \in Ticks : \A b \in Nat : b < EndDay(t) => b \in Hours
  BY <1>1, <1>6, HourRange DEF Hours
<1>8. \A t \in Ticks : \A h \in Int : DayOf(h) < EndDay(t) => h < EndHour(t)
  <2>1. SUFFICES ASSUME NEW t \in Ticks, NEW h \in Int, EndHour(t) <= h
                 PROVE  EndDay(t) <= DayOf(h)
    BY <1>1, DayFacts
  <2>2. QED
    BY <2>1, <1>1, DayFacts DEF EndDay
<1>9. QED
  BY <1>1, <1>2, <1>3, <1>5, <1>7, <1>8

\* The buckets of a measurement.
LEMMA SampleFacts ==
  ASSUME NEW s \in Sample
  PROVE  /\ s[1] \in Devices /\ s[2] \in Ticks /\ s = <<s[1], s[2]>>
         /\ Hr(s) \in Hours /\ Dy(s) \in Hours
         /\ Hr(s) \in Nat /\ Dy(s) \in Nat
         /\ Dy(s) = DayOf(Hr(s))
<1>1. s[1] \in Devices /\ s[2] \in Ticks /\ s = <<s[1], s[2]>>
  BY DEF Sample
<1>2. QED
  BY <1>1, HourRange DEF Hr, Dy

\* No rows at all.
LEMMA NoRowsFacts == NoRows \in Rows /\ \A d \in Devices : \A b \in Hours : NoRows[d][b] = {}
BY DEF NoRows, Rows

\* What a commit leaves: the staged rows, and what the tier had where nothing was staged.
LEMMA FlushFacts ==
  ASSUME NEW tier \in Rows, NEW rows \in Rows
  PROVE  /\ Flushed(tier, rows) \in Rows
         /\ \A d \in Devices : \A b \in Hours :
              rows[d][b] # {} => Flushed(tier, rows)[d][b] = rows[d][b]
         /\ \A d \in Devices : \A b \in Hours :
              rows[d][b] = {} => Flushed(tier, rows)[d][b] = tier[d][b]
BY DEF Flushed, Rows

-----------------------------------------------------------------------------
(* What the steps of a run compute.                                          *)

LEMMA Typed ==
  ASSUME TypeOK
  PROVE  /\ clock \in Ticks /\ now \in Ticks /\ now <= clock
         /\ raw \in SUBSET Sample /\ accepted \in SUBSET Sample /\ taken \in SUBSET Sample
         /\ hourly \in Rows /\ daily \in Rows /\ staged \in Rows
         /\ cursor \in {None} \cup Nat
         /\ Asof \in Ticks
         /\ Ticks \subseteq Nat /\ MaxClock \in Nat
BY Scale DEF TypeOK, Asof, Ticks

\* The next bucket to fold after the newest one of a tier.
LEMMA NextStartFacts ==
  ASSUME NEW tier \in Rows, NEW sources, sources \subseteq Hours
  PROVE  /\ NextStart(tier, sources) \in {None} \cup Nat
         /\ NextStart(tier, sources) # None =>
              \A d \in Devices : \A b \in Hours : tier[d][b] # {} => b < NextStart(tier, sources)
         /\ NextStart(tier, sources) = None =>
              sources = {} /\ \A d \in Devices : \A b \in Hours : tier[d][b] = {}
         /\ \A b \in sources :
              b < NextStart(tier, sources) =>
                \E d \in Devices : \E c \in Hours : tier[d][c] # {} /\ b <= c
<1>0. Hours = 0 .. HourOf(MaxClock) /\ HourOf(MaxClock) \in Nat /\ Hours \subseteq Nat
  BY HourRange DEF Hours
<1>1. \A d \in Devices : \A b \in Hours : tier[d][b] # {} => b \in Rolled(tier)
  BY DEF Rolled
<1>2. CASE Rolled(tier) # {}
  <2>1. Rolled(tier) \subseteq Hours
    BY DEF Rolled
  <2>2. Max(Rolled(tier)) \in Rolled(tier) /\ \A b \in Rolled(tier) : b <= Max(Rolled(tier))
    BY <1>0, <1>2, <2>1, MaxFacts
  <2>3. NextStart(tier, sources) = Max(Rolled(tier)) + 1
    BY <1>2 DEF NextStart
  <2>4. PICK m \in Hours : m = Max(Rolled(tier)) /\ \E d \in Devices : tier[d][m] # {}
    BY <2>1, <2>2 DEF Rolled
  <2>5. m \in Nat /\ NextStart(tier, sources) = m + 1
    BY <2>3, <2>4, <1>0
  <2>6. \A b \in Rolled(tier) : b < m + 1
    BY <2>1, <2>2, <2>4, <1>0
  <2>7. \A b \in sources : b < m + 1 => b <= m
    BY <1>0, <2>5
  <2>8. NextStart(tier, sources) # None /\ NextStart(tier, sources) \in Nat
    BY <2>5 DEF None
  <2>9. \A d \in Devices : \A b \in Hours : tier[d][b] # {} => b < NextStart(tier, sources)
    BY <1>1, <2>5, <2>6
  <2>10. \A b \in sources : b < NextStart(tier, sources) =>
           \E d \in Devices : \E c \in Hours : tier[d][c] # {} /\ b <= c
    BY <2>4, <2>5, <2>7
  <2>11. QED
    BY <2>8, <2>9, <2>10
<1>3. CASE Rolled(tier) = {} /\ sources # {}
  <2>1. NextStart(tier, sources) = Min(sources)
    BY <1>3 DEF NextStart
  <2>2. Min(sources) \in sources /\ \A b \in sources : Min(sources) <= b
    BY <1>0, <1>3, MinFacts
  <2>3. Min(sources) \in Nat /\ \A b \in sources : ~(b < Min(sources))
    <3>1. \A b \in sources : b \in Nat
      BY <1>0
    <3>2. QED
      BY <2>2, <3>1
  <2>4. \A d \in Devices : \A b \in Hours : tier[d][b] = {}
    BY <1>1, <1>3
  <2>5. QED
    BY <2>1, <2>3, <2>4 DEF None
<1>4. CASE Rolled(tier) = {} /\ sources = {}
  BY <1>1, <1>4 DEF NextStart
<1>5. QED
  BY <1>2, <1>3, <1>4

\* The next bucket with data: no source lies between.
LEMMA SkipFacts ==
  ASSUME NEW c \in Nat, NEW sources, sources \subseteq Hours
  PROVE  /\ SkipTo(c, sources) \in {None} \cup Nat
         /\ SkipTo(c, sources) # None => c <= SkipTo(c, sources)
         /\ \A b \in sources : c <= b => SkipTo(c, sources) # None /\ SkipTo(c, sources) <= b
<1> DEFINE later == {x \in sources : x >= c}
<1>0. Hours \subseteq Nat
  BY HourRange
<1>1. \A b \in sources : c <= b => b \in later
  BY <1>0
<1>2. CASE later = {}
  <2>1. SkipTo(c, sources) = None
    BY <1>2 DEF SkipTo
  <2>2. QED
    BY <2>1, <1>1, <1>2
<1>3. CASE later # {}
  <2>1. SkipTo(c, sources) = Min(later)
    BY <1>3 DEF SkipTo
  <2>2. later \subseteq Nat
    BY <1>0
  <2>3. Min(later) \in later /\ \A b \in later : Min(later) <= b
    BY <1>3, <2>2, MinFacts
  <2>4. Min(later) \in Nat /\ c <= Min(later)
    BY <2>2, <2>3
  <2>5. QED
    BY <1>1, <2>1, <2>3, <2>4 DEF None
<1>4. QED
  BY <1>2, <1>3

\* Below CoveredUntil there is a row at or after the bucket.
LEMMA CoveredFacts ==
  ASSUME NEW tier \in Rows, NEW b \in Nat, b < CoveredUntil(tier)
  PROVE  \E d \in Devices : \E c \in Hours : tier[d][c] # {} /\ b <= c
<1>0. Hours = 0 .. HourOf(MaxClock) /\ HourOf(MaxClock) \in Nat /\ Hours \subseteq Nat
  BY HourRange DEF Hours
<1>1. Rolled(tier) # {} /\ Rolled(tier) \subseteq Hours
  BY DEF CoveredUntil, Rolled
<1>2. Max(Rolled(tier)) \in Rolled(tier)
  BY <1>0, <1>1, MaxFacts
<1>3. PICK m \in Hours : m = Max(Rolled(tier)) /\ \E d \in Devices : tier[d][m] # {}
  BY <1>1, <1>2 DEF Rolled
<1>4. b < m + 1
  BY <1>1, <1>3 DEF CoveredUntil
<1>5. b <= m
  BY <1>4, <1>3, <1>0
<1>6. QED
  BY <1>3, <1>5

\* The raw measurements of an hour, and what the hourly rows of a day hold.
LEMMA RowFacts ==
  ASSUME TypeOK, NEW d \in Devices, NEW b \in Hours
  PROVE  /\ HourRow(d, b) \in SUBSET Ticks
         /\ DayRow(d, b) \in SUBSET Ticks
         /\ \A s \in Sample : s \in raw /\ s[1] = d /\ Hr(s) = b => s[2] \in HourRow(d, b)
         /\ \A s \in Sample : InHour(s) /\ s[1] = d /\ Dy(s) = b => s[2] \in DayRow(d, b)
<1>1. HourRow(d, b) \in SUBSET Ticks
  BY DEF HourRow
<1>2. DayRow(d, b) \in SUBSET Ticks
  BY Typed DEF DayRow, Rows
<1>3. \A s \in Sample : s \in raw /\ s[1] = d /\ Hr(s) = b => s[2] \in HourRow(d, b)
  BY SampleFacts DEF HourRow, Hr
<1>4. \A s \in Sample : InHour(s) /\ s[1] = d /\ Dy(s) = b => s[2] \in DayRow(d, b)
  <2>1. SUFFICES ASSUME NEW s \in Sample, InHour(s), s[1] = d, Dy(s) = b
                 PROVE  s[2] \in DayRow(d, b)
    OBVIOUS
  <2>2. Hr(s) \in Hours /\ DayOf(Hr(s)) = b /\ s[2] \in hourly[d][Hr(s)]
    BY <2>1, SampleFacts DEF InHour, Hr
  <2>3. QED
    BY <2>2 DEF DayRow
<1>5. QED
  BY <1>1, <1>2, <1>3, <1>4

\* Hours of raw rows and days of hourly rows.
LEMMA SourceFacts ==
  ASSUME TypeOK
  PROVE  /\ RawHours \subseteq Hours /\ HourlyDays \subseteq Hours
         /\ \A s \in raw : Hr(s) \in RawHours
         /\ \A s \in Sample : InHour(s) => Dy(s) \in HourlyDays
<1>1. RawHours \subseteq Hours
  BY Typed, SampleFacts DEF RawHours, Hr
<1>2. HourlyDays \subseteq Hours
  BY HourRange DEF HourlyDays, Rolled
<1>3. \A s \in raw : Hr(s) \in RawHours
  BY DEF RawHours, Hr
<1>4. \A s \in Sample : InHour(s) => Dy(s) \in HourlyDays
  <2>1. SUFFICES ASSUME NEW s \in Sample, InHour(s) PROVE Dy(s) \in HourlyDays
    OBVIOUS
  <2>2. Hr(s) \in Hours /\ s[1] \in Devices /\ hourly[s[1]][Hr(s)] # {}
    BY <2>1, SampleFacts DEF InHour, Hr
  <2>3. Hr(s) \in Rolled(hourly)
    BY <2>2 DEF Rolled
  <2>4. QED
    BY <2>3 DEF HourlyDays, Dy, Hr
<1>5. QED
  BY <1>1, <1>2, <1>3, <1>4

-----------------------------------------------------------------------------
(* Steps that fold nothing.                                                  *)

\* Rows may go and time may pass.
LEMMA CompleteStays ==
  ASSUME TypeOK, TypeOK', Complete, Asof <= Asof',
         \A d \in Devices : \A b \in Hours : hourly'[d][b] # {} => hourly[d][b] # {},
         \A d \in Devices : \A b \in Hours : daily'[d][b] # {} => daily[d][b] # {}
  PROVE  Complete'
<1>1. Asof \in Ticks /\ Asof' \in Ticks
  BY DEF TypeOK, Asof
<1>2. /\ EndHour(Asof) <= EndHour(Asof') /\ EndDay(Asof) <= EndDay(Asof')
      /\ EndHour(Asof) \in Int /\ EndHour(Asof') \in Int
      /\ EndDay(Asof) \in Int /\ EndDay(Asof') \in Int
  BY <1>1, EndFacts
<1>3. (EndHour(Asof))' = EndHour(Asof') /\ (EndDay(Asof))' = EndDay(Asof')
  BY DEF EndHour, EndDay
<1>4. Hours \subseteq Nat
  BY HourRange
<1>5. \A d \in Devices : \A h \in Hours : hourly'[d][h] # {} => h < EndHour(Asof')
  BY <1>2, <1>4 DEF Complete
<1>6. \A d \in Devices : \A y \in Hours : daily'[d][y] # {} => y < EndDay(Asof')
  BY <1>2, <1>4 DEF Complete
<1>7. QED
  BY <1>3, <1>5, <1>6 DEF Complete

\* While the run and the tiers stand still, a measurement loses nothing.
LEMMA SoundStays ==
  ASSUME NEW s, Sound(s), UNCHANGED <<hourly, daily, staged, stage, now, cursor>>,
         s \in raw => s \in raw'
  PROVE  Sound(s)'
<1>1. (Folded(s)' <=> Folded(s)) /\ (InDay(s)' <=> InDay(s)) /\ (Held(s) => Held(s)')
  BY DEF Folded, InHour, InDay, Held
<1>2. HourFrontier(s)' /\ DayFrontier(s)'
  BY <1>1 DEF Sound, HourFrontier, DayFrontier, Hr, Dy
<1>3. HoursSoFar(s)' /\ DaysSoFar(s)'
  BY <1>1 DEF Sound, HoursSoFar, DaysSoFar, Passed, Staged, Hr, Dy, EndHour, EndDay
<1>4. HoursFolded(s)' /\ DaysFolded(s)'
  BY <1>1 DEF Sound, HoursFolded, DaysFolded, Hr, Dy, EndHour, EndDay
<1>5. QED
  BY <1>1, <1>2, <1>3, <1>4 DEF Sound

\* So does what is said about the run.
LEMMA RunStays ==
  ASSUME UNCHANGED <<hourly, daily, staged, stage, now, cursor>>, RunInv, AddsNothingTwice
  PROVE  RunInv' /\ AddsNothingTwice'
BY DEF RunInv, AddsNothingTwice, Behind, EndHour, EndDay

\* Initially there is nothing.
LEMMA WholeInit == Init => Whole
<1> SUFFICES ASSUME Init PROVE Whole
  OBVIOUS
<1>1. TypeOK
  BY Scale, TimeAssumption, RetentionsAssumption, NoRowsFacts DEF Init, TypeOK, Ticks, None
<1>2. Complete /\ RunInv /\ AddsNothingTwice
  BY NoRowsFacts DEF Init, Complete, RunInv, AddsNothingTwice
<1>3. \A s \in accepted : Sound(s)
  BY DEF Init
<1>4. QED
  BY <1>1, <1>2, <1>3 DEF Whole

\* Time passes, a measurement begins, the retention changes: nothing moves.
LEMMA QuietSteps ==
  ASSUME Whole,
         \/ Tick \/ \E d \in Devices : Take(d)
         \/ \E r \in Retentions : ChangeRetention(r)
         \/ UNCHANGED vars
  PROVE  Whole'
<1>0. /\ TypeOK /\ UNCHANGED <<hourly, daily, staged, stage, now, cursor, raw, accepted>>
      /\ clock' \in {clock, clock + 1}
  BY DEF Whole, Tick, Take, ChangeRetention, vars, run
<1>1. TypeOK'
  <2>1. CASE Tick
    <3>1. clock < MaxClock /\ clock' = clock + 1
          /\ UNCHANGED <<measured, taken, raw, hourly, daily, retention, run, disruptions, accepted>>
      BY <2>1 DEF Tick
    <3>2. clock' \in Ticks /\ now <= clock'
      BY <3>1, <1>0, Typed DEF Ticks
    <3>3. QED
      BY <3>1, <3>2, <1>0 DEF TypeOK, run
  <2>2. ASSUME NEW d \in Devices, Take(d) PROVE TypeOK'
    <3>1. measured' = measured \cup {<<d, clock>>} /\ taken' = taken \cup {<<d, clock>>}
          /\ UNCHANGED <<clock, raw, hourly, daily, retention, run, disruptions, accepted>>
      BY <2>2 DEF Take
    <3>2. <<d, clock>> \in Sample
      BY <1>0, Typed DEF Sample
    <3>3. measured' \subseteq Sample /\ taken' \subseteq Sample
      BY <3>1, <3>2, <1>0 DEF TypeOK
    <3>4. QED
      BY <3>1, <3>3, <1>0 DEF TypeOK, run
  <2>3. ASSUME NEW r \in Retentions, ChangeRetention(r) PROVE TypeOK'
    <3>1. disruptions' \in 0 .. MaxDisruptions /\ retention' \in Retentions
      BY <2>3, <1>0, TimeAssumption DEF ChangeRetention, TypeOK
    <3>2. UNCHANGED <<measured, clock, taken, raw, hourly, daily, run, accepted>>
      BY <2>3 DEF ChangeRetention
    <3>3. QED
      BY <3>1, <3>2, <1>0 DEF TypeOK, run
  <2>4. CASE UNCHANGED vars
    BY <2>4, <1>0 DEF TypeOK, vars, run
  <2>5. QED
    BY <2>1, <2>2, <2>3, <2>4
<1>2. Asof <= Asof'
  BY <1>0, <1>1, Typed DEF Asof
<1>3. Complete'
  BY <1>0, <1>1, <1>2, CompleteStays DEF Whole
<1>4. RunInv' /\ AddsNothingTwice'
  BY <1>0, RunStays DEF Whole
<1>5. \A s \in accepted' : Sound(s)'
  BY <1>0, SoundStays DEF Whole
<1>6. QED
  BY <1>1, <1>3, <1>4, <1>5 DEF Whole

\* A measurement committed in time is newer than every bucket there is and every bucket
\* the run may fold.
LEMMA NewIsSound ==
  ASSUME Whole, NEW s \in Sample, InTime(s), s \in raw',
         UNCHANGED <<clock, hourly, daily, staged, stage, now, cursor>>
  PROVE  Sound(s)'
<1>0. TypeOK /\ clock \in Ticks /\ now \in Ticks /\ now <= clock
  BY Typed DEF Whole
<1>1. EndHour(clock) <= Hr(s)
  BY <1>0, SampleFacts, EndFacts DEF InTime, EndHour, Hr
<1>2. EndDay(clock) <= Dy(s)
  <2>1. EndHour(clock) \in Int /\ Hr(s) \in Int /\ Dy(s) = DayOf(Hr(s))
    BY <1>0, SampleFacts, EndFacts, HourRange
  <2>2. QED
    BY <1>1, <2>1, DayFacts DEF EndDay
<1>3. Asof \in Ticks /\ Asof <= clock
  BY <1>0, Typed DEF Asof, Ticks
<1>4. /\ \A h \in Hours : h < EndHour(Asof) => h < Hr(s)
      /\ \A y \in Hours : y < EndDay(Asof) => y < Dy(s)
      /\ ~(Hr(s) < EndHour(now)) /\ ~(Dy(s) < EndDay(now))
  <2>1. /\ EndHour(Asof) <= EndHour(clock) /\ EndHour(now) <= EndHour(clock)
        /\ EndDay(Asof) <= EndDay(clock) /\ EndDay(now) <= EndDay(clock)
        /\ EndHour(Asof) \in Int /\ EndHour(now) \in Int /\ EndHour(clock) \in Int
        /\ EndDay(Asof) \in Int /\ EndDay(now) \in Int /\ EndDay(clock) \in Int
    BY <1>0, <1>3, EndFacts
  <2>2. Hr(s) \in Nat /\ Dy(s) \in Nat /\ Hours \subseteq Nat
    BY SampleFacts, HourRange
  <2>3. \A h \in Hours : h < EndHour(Asof) => h < Hr(s)
    BY <2>1, <2>2, <1>1
  <2>4. \A y \in Hours : y < EndDay(Asof) => y < Dy(s)
    BY <2>1, <2>2, <1>2
  <2>5. QED
    BY <2>1, <2>2, <2>3, <2>4, <1>1, <1>2
<1>5. \A d \in Devices : \A b \in Hours :
        /\ hourly[d][b] # {} => ~(Hr(s) <= b)
        /\ daily[d][b] # {} => ~(Dy(s) <= b)
  <2>1. \A b \in Hours : b < Hr(s) => ~(Hr(s) <= b)
    BY SampleFacts, HourRange
  <2>2. \A b \in Hours : b < Dy(s) => ~(Dy(s) <= b)
    BY SampleFacts, HourRange
  <2>3. QED
    BY <1>4, <2>1, <2>2 DEF Whole, Complete
<1>6. Held(s)' /\ HourFrontier(s)' /\ DayFrontier(s)'
  BY <1>5 DEF Held, HourFrontier, DayFrontier, Hr, Dy
<1>7. HoursSoFar(s)' /\ DaysSoFar(s)' /\ HoursFolded(s)' /\ DaysFolded(s)'
  BY <1>4 DEF HoursSoFar, DaysSoFar, HoursFolded, DaysFolded, Passed, EndHour, EndDay, Hr, Dy
<1>8. QED
  BY <1>6, <1>7 DEF Sound

\* A measurement is committed, in time or late.
LEMMA StoreWhole == ASSUME Whole, NEW s \in taken, Store(s) PROVE Whole'
<1>0. /\ TypeOK /\ s \in Sample /\ raw' = raw \cup {s} /\ taken' = taken \ {s}
      /\ accepted' = IF InTime(s) THEN accepted \cup {s} ELSE accepted
      /\ UNCHANGED <<measured, clock, hourly, daily, retention, stage, now, keep, cursor,
                     staged, processed, disruptions>>
  BY DEF Whole, TypeOK, Store, run
<1>1. TypeOK'
  BY <1>0 DEF TypeOK
<1>2. Asof <= Asof'
  BY <1>0, Typed DEF Asof, Ticks
<1>3. Complete'
  BY <1>0, <1>1, <1>2, CompleteStays DEF Whole
<1>4. RunInv' /\ AddsNothingTwice'
  BY <1>0, RunStays DEF Whole
<1>5. ASSUME NEW r \in accepted' PROVE Sound(r)'
  <2>1. CASE r \in accepted
    BY <2>1, <1>0, SoundStays DEF Whole
  <2>2. CASE r \notin accepted
    <3>1. r = s /\ InTime(s)
      BY <2>2, <1>0
    <3>2. Sound(s)'
      BY <3>1, <1>0, NewIsSound
    <3>3. QED
      BY <3>1, <3>2
  <2>3. QED
    BY <2>1, <2>2
<1>6. QED
  BY <1>1, <1>3, <1>4, <1>5 DEF Whole

-----------------------------------------------------------------------------
(* A run starts, fails, or dies with the server.                             *)

\* A run that starts resumes after the newest hourly row, or at the oldest raw row.
LEMMA StartWhole == ASSUME Whole, StartRun PROVE Whole'
<1> DEFINE start == NextStart(hourly, RawHours)
<1>0. /\ TypeOK /\ stage = "idle" /\ stage' = "hours" /\ now' = clock /\ cursor' = start
      /\ keep' = retention /\ staged = NoRows
      /\ UNCHANGED <<measured, clock, taken, raw, hourly, daily, retention, staged, processed,
                     disruptions, accepted>>
  BY DEF Whole, RunInv, StartRun
<1>1. /\ start \in {None} \cup Nat
      /\ start # None => \A d \in Devices : \A b \in Hours : hourly[d][b] # {} => b < start
      /\ start = None => RawHours = {} /\ \A d \in Devices : \A b \in Hours : hourly[d][b] = {}
      /\ \A b \in RawHours : b < start =>
           \E d \in Devices : \E c \in Hours : hourly[d][c] # {} /\ b <= c
  BY <1>0, Typed, SourceFacts, NextStartFacts
<1> HIDE DEF start
<1>2. TypeOK'
  BY <1>0, <1>1, Typed DEF TypeOK
<1>3. Asof' = clock /\ Asof = clock
  BY <1>0 DEF Asof
<1>4. Complete'
  BY <1>0, <1>2, <1>3, Typed, CompleteStays DEF Whole, Ticks
<1>5. RunInv' /\ AddsNothingTwice'
  <2>1. \A d \in Devices : \A b \in Hours : staged[d][b] = {}
    BY <1>0, NoRowsFacts
  <2>2. AddsNothingTwice'
    BY <1>0, <2>1 DEF AddsNothingTwice
  <2>3. \A d \in Devices : \A b \in Hours : hourly[d][b] # {} => b < EndHour(clock)
    BY <1>3 DEF Whole, Complete
  <2>4. \A d \in Devices : \A b \in Hours :
          hourly[d][b] # {} => b < EndHour(clock) /\ (start # None => b < start)
    BY <2>3, <1>1
  <2>5. Behind(hourly, EndHour(now))'
    BY <1>0, <2>1, <2>4 DEF Behind, EndHour
  <2>6. QED
    BY <1>0, <2>2, <2>5 DEF RunInv
<1>6. ASSUME NEW s \in accepted' PROVE Sound(s)'
  <2>0. Sound(s) /\ s \in Sample /\ s \in accepted
    BY <1>0, <1>6, Typed DEF Whole
  <2>1. (Folded(s)' <=> Folded(s)) /\ (InDay(s)' <=> InDay(s)) /\ Held(s)'
    BY <1>0, <2>0 DEF Sound, Folded, InHour, InDay, Held
  <2>2. HourFrontier(s)' /\ DayFrontier(s)'
    BY <1>0, <2>0, <2>1 DEF Sound, HourFrontier, DayFrontier, Hr, Dy
  <2>3. ASSUME start # None => Hr(s) < start PROVE Folded(s)
    <3>1. CASE s \in raw
      <4>1. Hr(s) \in RawHours
        BY <3>1, <1>0, SourceFacts
      <4>2. start # None
        BY <4>1, <1>1
      <4>3. PICK d \in Devices, c \in Hours : hourly[d][c] # {} /\ Hr(s) <= c
        BY <4>1, <4>2, <1>1, <2>3
      <4>4. QED
        BY <4>3, <2>0 DEF Sound, HourFrontier
    <3>2. CASE s \notin raw
      BY <3>2, <2>0 DEF Sound, Held, Folded
    <3>3. QED
      BY <3>1, <3>2
  <2>4. HoursSoFar(s)'
    BY <1>0, <2>1, <2>3 DEF HoursSoFar, Passed, Hr
  <2>5. QED
    BY <1>0, <2>1, <2>2, <2>4 DEF Sound, DaysSoFar, HoursFolded, DaysFolded
<1>7. QED
  BY <1>2, <1>4, <1>5, <1>6 DEF Whole

\* What was staged is gone; the next run begins with what was committed.
LEMMA FailWhole == ASSUME Whole, RunFails \/ Crash PROVE Whole'
<1>0. /\ TypeOK /\ stage # "idle" /\ stage' = "idle" /\ now' = 0 /\ cursor' = None
      /\ staged' = NoRows /\ processed' = 0 /\ taken' \subseteq taken
      /\ disruptions < MaxDisruptions /\ disruptions' = disruptions + 1
      /\ UNCHANGED <<measured, clock, raw, hourly, daily, retention, keep, accepted>>
  BY DEF Whole, RunFails, Crash
<1>1. TypeOK'
  <2>1. disruptions' \in 0 .. MaxDisruptions /\ processed' \in 0 .. CommitEvery - 1
    BY <1>0, TimeAssumption DEF TypeOK
  <2>2. now' \in Ticks /\ now' <= clock'
    BY <1>0, Typed, Scale DEF Ticks
  <2>3. QED
    BY <1>0, <2>1, <2>2, NoRowsFacts DEF TypeOK
<1>2. Asof <= Asof'
  BY <1>0, Typed DEF Asof
<1>3. Complete'
  BY <1>0, <1>1, <1>2, CompleteStays DEF Whole
<1>4. RunInv' /\ AddsNothingTwice'
  <2>1. \A d \in Devices : \A b \in Hours : staged'[d][b] = {}
    BY <1>0, NoRowsFacts
  <2>2. QED
    BY <1>0, <2>1 DEF RunInv, AddsNothingTwice
<1>5. ASSUME NEW s \in accepted' PROVE Sound(s)'
  <2>0. Sound(s)
    BY <1>0, <1>5 DEF Whole
  <2>1. (Folded(s)' <=> Folded(s)) /\ (InDay(s)' <=> InDay(s)) /\ Held(s)'
    BY <1>0, <2>0 DEF Sound, Folded, InHour, InDay, Held
  <2>2. HourFrontier(s)' /\ DayFrontier(s)'
    BY <1>0, <2>0, <2>1 DEF Sound, HourFrontier, DayFrontier, Hr, Dy
  <2>3. QED
    BY <1>0, <2>1, <2>2 DEF Sound, HoursSoFar, DaysSoFar, HoursFolded, DaysFolded
<1>6. QED
  BY <1>1, <1>3, <1>4, <1>5 DEF Whole

-----------------------------------------------------------------------------
(* Rows go: the admin's purge and the run's pruning.                         *)

\* What a purge or a pruning may do: whole rows go, and a measurement that stays accepted
\* goes from a tier only if a coarser one has it.
Spared(s) ==
  /\ s \in raw => s \in raw' \/ Folded(s)
  /\ InHour(s) => InHour(s)' \/ InDay(s)
  /\ InDay(s) => InDay(s)'

LEMMA SparedIsSound ==
  ASSUME NEW s, Sound(s), Spared(s), staged' = staged, cursor' = cursor,
         stage' = "idle" \/ (stage' = stage /\ now' = now),
         \A d \in Devices : \A b \in Hours : hourly'[d][b] # {} => hourly[d][b] # {},
         \A d \in Devices : \A b \in Hours : daily'[d][b] # {} => daily[d][b] # {}
  PROVE  Sound(s)'
<1>1. (Folded(s) => Folded(s)') /\ (InDay(s) => InDay(s)') /\ (Held(s) => Held(s)')
  BY DEF Spared, Folded, Held
<1>2. HourFrontier(s)' /\ DayFrontier(s)'
  BY <1>1 DEF Sound, HourFrontier, DayFrontier, Hr, Dy
<1>3. HoursSoFar(s)' /\ DaysSoFar(s)'
  BY <1>1 DEF Sound, HoursSoFar, DaysSoFar, Passed, Staged, Hr, Dy, EndHour, EndDay
<1>4. HoursFolded(s)' /\ DaysFolded(s)'
  BY <1>1 DEF Sound, HoursFolded, DaysFolded, Hr, Dy, EndHour, EndDay
<1>5. QED
  BY <1>1, <1>2, <1>3, <1>4 DEF Sound

\* The day of a measurement begins no later than its hour, and that no later than it does.
LEMMA StartsBefore ==
  ASSUME NEW s \in Sample
  PROVE  /\ Hr(s) * TicksPerHour \in Nat /\ Dy(s) * (TicksPerHour * HoursPerDay) \in Nat
         /\ Hr(s) * TicksPerHour <= s[2]
         /\ Dy(s) * (TicksPerHour * HoursPerDay) <= Hr(s) * TicksPerHour
<1> DEFINE h == Hr(s)
           y == Dy(s)
<1>1. h \in Nat /\ y \in Nat /\ s[2] \in Nat
  BY SampleFacts, Scale DEF Ticks
<1>2. TicksPerHour * h <= s[2]
  <2>1. \A t \in Int : TicksPerHour * HourOf(t) <= t
    BY Scale, Quotient DEF HourOf
  <2>2. QED
    BY <1>1, <2>1 DEF Hr
<1>3. HoursPerDay * y <= h
  BY <1>1, Scale, Quotient DEF Hr, Dy, DayOf
<1> HIDE DEF h, y
<1>4. TicksPerHour * (HoursPerDay * y) <= TicksPerHour * h
  BY <1>1, <1>3, Scale
<1>5. y * (TicksPerHour * HoursPerDay) = TicksPerHour * (HoursPerDay * y)
  BY <1>1, Scale
<1>6. h * TicksPerHour = TicksPerHour * h
  BY <1>1, Scale
<1>7. h * TicksPerHour \in Nat /\ y * (TicksPerHour * HoursPerDay) \in Nat
  BY <1>1, Scale
<1>8. QED
  BY <1>2, <1>4, <1>5, <1>6, <1>7 DEF h, y

\* A purge takes a day's measurements out of every tier, or leaves them in all.
LEMMA PurgeSpares ==
  ASSUME Whole, NEW D, NEW cutoff \in Int, Purge(D, cutoff)
  PROVE  Whole'
<1> DEFINE perDay == TicksPerHour * HoursPerDay
<1>0. /\ TypeOK
      /\ disruptions < MaxDisruptions /\ disruptions' = disruptions + 1
      /\ raw' = {s \in raw : ~(s[1] \in D /\ s[2] < cutoff)}
      /\ hourly' = [d \in Devices |-> [h \in Hours |->
                      IF d \in D /\ h * TicksPerHour < cutoff THEN {} ELSE hourly[d][h]]]
      /\ daily' = [d \in Devices |-> [y \in Hours |->
                      IF d \in D /\ y * perDay < cutoff THEN {} ELSE daily[d][y]]]
      /\ accepted' = {s \in accepted : ~(s[1] \in D /\ Dy(s) * perDay < cutoff)}
      /\ UNCHANGED <<measured, clock, taken, retention, stage, now, keep, cursor, staged,
                     processed>>
  BY DEF Whole, Purge, run, Dy
<1>1. /\ \A d \in Devices : \A b \in Hours : hourly'[d][b] \in {{}, hourly[d][b]}
      /\ \A d \in Devices : \A b \in Hours : daily'[d][b] \in {{}, daily[d][b]}
  BY <1>0
<1>2. TypeOK'
  <2>1. disruptions' \in 0 .. MaxDisruptions
    BY <1>0, TimeAssumption DEF TypeOK
  <2>2. hourly' \in Rows /\ daily' \in Rows
    BY <1>0, Typed DEF Rows
  <2>3. raw' \subseteq Sample /\ accepted' \subseteq Sample
    BY <1>0, Typed
  <2>4. QED
    BY <1>0, <2>1, <2>2, <2>3 DEF TypeOK
<1>3. Asof <= Asof'
  BY <1>0, Typed DEF Asof, Ticks
<1>4. Complete'
  BY <1>1, <1>0, <1>2, <1>3, CompleteStays DEF Whole
<1>5. RunInv' /\ AddsNothingTwice'
  <2>1. AddsNothingTwice'
    BY <1>0, <1>1 DEF Whole, AddsNothingTwice
  <2>2. stage = "hours" => Behind(hourly, EndHour(now))'
    BY <1>0, <1>1 DEF Whole, RunInv, Behind, EndHour
  <2>3. stage = "days" => Behind(daily, EndDay(now))'
    BY <1>0, <1>1 DEF Whole, RunInv, Behind, EndDay, EndHour
  <2>4. QED
    BY <1>0, <2>1, <2>2, <2>3 DEF Whole, RunInv
<1>6. ASSUME NEW s \in accepted' PROVE Sound(s)'
  <2>0. Sound(s) /\ s \in Sample /\ s \in accepted /\ ~(s[1] \in D /\ Dy(s) * perDay < cutoff)
    BY <1>0, <1>6, Typed DEF Whole
  <2>1. /\ s[1] \in Devices /\ Hr(s) \in Hours /\ Dy(s) \in Hours /\ s[2] \in Nat
    BY <2>0, SampleFacts, Scale DEF Ticks
  <2>2. ~(s[1] \in D /\ s[2] < cutoff) /\ ~(s[1] \in D /\ Hr(s) * TicksPerHour < cutoff)
    BY <2>0, <2>1, StartsBefore
  <2>3. s \in raw => s \in raw'
    BY <1>0, <2>2
  <2>4. hourly'[s[1]][Hr(s)] = hourly[s[1]][Hr(s)]
    BY <1>0, <2>1, <2>2
  <2>5. daily'[s[1]][Dy(s)] = daily[s[1]][Dy(s)]
    BY <1>0, <2>0, <2>1
  <2>6. Spared(s)
    BY <2>3, <2>4, <2>5 DEF Spared, InHour, InDay, Hr, Dy
  <2>7. QED
    BY <1>0, <1>1, <2>0, <2>6, SparedIsSound
<1>7. QED
  BY <1>2, <1>4, <1>5, <1>6 DEF Whole

LEMMA PurgeWhole ==
  ASSUME Whole,
         \/ PurgeAll \/ \E d \in Devices : PurgeDevice(d)
         \/ \E days \in 1 .. DayOf(HourOf(MaxClock)) : PurgeOlder(days)
  PROVE  Whole'
<1>1. clock \in Int /\ clock + 1 \in Int
  BY Typed DEF Whole, Ticks
<1>2. ASSUME NEW days \in 1 .. DayOf(HourOf(MaxClock)), PurgeOlder(days) PROVE Whole'
  <2>1. clock - days * TicksPerHour * HoursPerDay \in Int
    BY <1>1, Scale
  <2>2. QED
    BY <1>2, <2>1, PurgeSpares DEF PurgeOlder
<1>3. QED
  BY <1>1, <1>2, PurgeSpares DEF PurgeAll, PurgeDevice

\* The run ends with the pruning: a raw row goes only when its hour is folded, an hourly
\* row only when its day is.
LEMMA PruneWhole == ASSUME Whole, Prune PROVE Whole'
<1>0. /\ TypeOK /\ stage = "prune" /\ stage' = "idle" /\ now' = 0
      /\ raw' = {s \in raw : ~RawGoes(HourOf(s[2]))}
      /\ hourly' = [d \in Devices |-> [h \in Hours |->
                      IF HourlyGoes(h) THEN {} ELSE hourly[d][h]]]
      /\ daily' = [d \in Devices |-> [y \in Hours |->
                      IF DailyGoes(y) THEN {} ELSE daily[d][y]]]
      /\ accepted' = {s \in accepted : ~DailyGoes(DayOf(HourOf(s[2])))}
      /\ UNCHANGED <<measured, clock, taken, retention, keep, cursor, staged, processed,
                     disruptions>>
  BY DEF Whole, Prune
<1>1. /\ \A d \in Devices : \A b \in Hours : hourly'[d][b] \in {{}, hourly[d][b]}
      /\ \A d \in Devices : \A b \in Hours : daily'[d][b] \in {{}, daily[d][b]}
  BY <1>0
<1>2. TypeOK'
  <2>1. now' \in Ticks /\ now' <= clock'
    BY <1>0, Typed, Scale DEF Ticks
  <2>2. hourly' \in Rows /\ daily' \in Rows
    BY <1>0, Typed DEF Rows
  <2>3. raw' \subseteq Sample /\ accepted' \subseteq Sample
    BY <1>0, Typed
  <2>4. QED
    BY <1>0, <2>1, <2>2, <2>3 DEF TypeOK
<1>3. Asof <= Asof'
  BY <1>0, Typed DEF Asof
<1>4. Complete'
  BY <1>1, <1>0, <1>2, <1>3, CompleteStays DEF Whole
<1>5. RunInv' /\ AddsNothingTwice'
  <2>1. staged' = NoRows
    BY <1>0 DEF Whole, RunInv
  <2>2. \A d \in Devices : \A b \in Hours : staged'[d][b] = {}
    BY <2>1, NoRowsFacts
  <2>3. QED
    BY <1>0, <2>1, <2>2 DEF RunInv, AddsNothingTwice
<1>6. ASSUME NEW s \in accepted' PROVE Sound(s)'
  <2>0. Sound(s) /\ s \in Sample /\ s \in accepted /\ ~DailyGoes(Dy(s))
    BY <1>0, <1>6, Typed DEF Whole, Dy
  <2>1. s[1] \in Devices /\ Hr(s) \in Hours /\ Dy(s) \in Hours /\ Hr(s) \in Nat /\ Dy(s) \in Nat
    BY <2>0, SampleFacts
  <2>2. InDay(s) => InDay(s)'
    BY <1>0, <2>0, <2>1 DEF InDay, Dy
  <2>3. HourlyGoes(Hr(s)) => InDay(s)
    <3>1. SUFFICES ASSUME HourlyGoes(Hr(s)) PROVE InDay(s)
      OBVIOUS
    <3>2. Dy(s) < CoveredUntil(daily)
      BY <3>1 DEF HourlyGoes, Dy, Hr
    <3>3. PICK d \in Devices, c \in Hours : daily[d][c] # {} /\ Dy(s) <= c
      BY <3>2, <2>1, <1>0, Typed, CoveredFacts
    <3>4. QED
      BY <3>3, <2>0 DEF Sound, DayFrontier
  <2>4. InHour(s) => InHour(s)' \/ InDay(s)
    BY <1>0, <2>1, <2>3 DEF InHour, Hr
  <2>5. RawGoes(Hr(s)) => Folded(s)
    <3>1. SUFFICES ASSUME RawGoes(Hr(s)) PROVE Folded(s)
      OBVIOUS
    <3>2. Hr(s) < CoveredUntil(hourly)
      BY <3>1 DEF RawGoes
    <3>3. PICK d \in Devices, c \in Hours : hourly[d][c] # {} /\ Hr(s) <= c
      BY <3>2, <2>1, <1>0, Typed, CoveredFacts
    <3>4. QED
      BY <3>3, <2>0 DEF Sound, HourFrontier
  <2>6. s \in raw => s \in raw' \/ Folded(s)
    BY <1>0, <2>5 DEF Hr
  <2>7. Spared(s)
    BY <2>2, <2>4, <2>6 DEF Spared
  <2>8. QED
    BY <1>0, <1>1, <2>0, <2>7, SparedIsSound
<1>7. QED
  BY <1>2, <1>4, <1>5, <1>6 DEF Whole

-----------------------------------------------------------------------------
(* Folding.                                                                  *)

\* The session's rows with those of one more bucket.
WithBucket(row) == [d \in Devices |-> [staged[d] EXCEPT ![cursor] = row[d]]]

LEMMA BucketFacts ==
  ASSUME TypeOK, cursor \in Hours, NEW row \in [Devices -> SUBSET Ticks]
  PROVE  /\ WithBucket(row) \in Rows
         /\ \A d \in Devices : WithBucket(row)[d][cursor] = row[d]
         /\ \A d \in Devices : \A b \in Hours :
              b # cursor => WithBucket(row)[d][b] = staged[d][b]
BY Typed DEF WithBucket, Rows

\* The two ways a fold with data ends, and what keeps them from losing a row.
Outcome(tier, rows, tier2, staged2) ==
  \/ staged2 = NoRows /\ tier2 = Flushed(tier, rows)
  \/ staged2 = rows /\ tier2 = tier
Apart(tier, rows) == \A d \in Devices : \A b \in Hours : rows[d][b] # {} => tier[d][b] = {}

\* A bucket with data is staged, or committed with what was staged before: either way the
\* tier keeps its rows, and what is staged is not in the tier.
LEMMA CommitOrStage ==
  ASSUME NEW tier \in Rows, NEW rows \in Rows, NEW tier2, NEW staged2,
         Outcome(tier, rows, tier2, staged2), Apart(tier, rows)
  PROVE  /\ tier2 \in Rows /\ staged2 \in Rows
         /\ \A d \in Devices : \A b \in Hours :
              tier2[d][b] # {} \/ staged2[d][b] # {} => tier[d][b] # {} \/ rows[d][b] # {}
         /\ \A d \in Devices : \A b \in Hours : tier[d][b] # {} => tier2[d][b] = tier[d][b]
         /\ \A d \in Devices : \A b \in Hours : \A t \in rows[d][b] :
              t \in tier2[d][b] \/ t \in staged2[d][b]
         /\ \A d \in Devices : \A b \in Hours : staged2[d][b] # {} => tier2[d][b] = {}
         /\ staged2 = NoRows \/ tier2 = tier
BY NoRowsFacts, FlushFacts DEF Outcome, Apart

LEMMA BatchFacts == \A n \in Nat : BatchCount(n) \in 0 .. CommitEvery - 1
BY TimeAssumption DEF BatchCount

\* What a run adds to the hours.
LEMMA HourData ==
  ASSUME Whole, FoldHour, \E d \in Devices : HourRow(d, cursor) # {}
  PROVE  Whole'
<1> DEFINE row == [d \in Devices |-> HourRow(d, cursor)]
           rows == WithBucket(row)
<1>0. /\ TypeOK /\ stage = "hours" /\ cursor \in Nat /\ cursor < EndHour(now)
      /\ cursor' = cursor + 1 /\ processed' = BatchCount(processed + 1)
      /\ Outcome(hourly, rows, hourly', staged')
      /\ UNCHANGED <<measured, clock, taken, raw, daily, retention, stage, now, keep,
                     disruptions, accepted>>
  BY DEF Whole, FoldHour, FoldBucket, WithBucket, Outcome, TypeOK
<1>1. cursor \in Hours /\ now \in Ticks /\ EndHour(now) \in Int /\ Hours \subseteq Nat
  BY <1>0, Typed, EndFacts, HourRange
<1>2. \A d \in Devices : HourRow(d, cursor) \in SUBSET Ticks
  BY <1>0, <1>1, RowFacts
<1>3. /\ rows \in Rows
      /\ \A d \in Devices : rows[d][cursor] = HourRow(d, cursor)
      /\ \A d \in Devices : \A b \in Hours : b # cursor => rows[d][b] = staged[d][b]
  BY <1>0, <1>1, <1>2, BucketFacts
<1> HIDE DEF rows
<1>4. Behind(hourly, EndHour(now)) /\ cursor # None
  BY <1>0 DEF Whole, RunInv, None
<1>5. Apart(hourly, rows)
  <2>1. \A d \in Devices : hourly[d][cursor] = {}
    BY <1>1, <1>4 DEF Behind
  <2>2. \A d \in Devices : \A b \in Hours : staged[d][b] # {} => hourly[d][b] = {}
    BY <1>0 DEF Whole, AddsNothingTwice
  <2>3. QED
    BY <1>3, <2>1, <2>2 DEF Apart
<1>6. /\ hourly' \in Rows /\ staged' \in Rows
      /\ \A d \in Devices : \A b \in Hours :
           hourly'[d][b] # {} \/ staged'[d][b] # {} => hourly[d][b] # {} \/ rows[d][b] # {}
      /\ \A d \in Devices : \A b \in Hours : hourly[d][b] # {} => hourly'[d][b] = hourly[d][b]
      /\ \A d \in Devices : \A b \in Hours : \A t \in rows[d][b] :
           t \in hourly'[d][b] \/ t \in staged'[d][b]
      /\ \A d \in Devices : \A b \in Hours : staged'[d][b] # {} => hourly'[d][b] = {}
      /\ staged' = NoRows \/ hourly' = hourly
  BY <1>0, <1>3, <1>5, Typed, CommitOrStage
<1>7. \A d \in Devices : \A b \in Hours :
        hourly'[d][b] # {} \/ staged'[d][b] # {} => b < EndHour(now) /\ b < cursor + 1
  <2>1. \A d \in Devices : \A b \in Hours :
          hourly[d][b] # {} \/ rows[d][b] # {} => b < EndHour(now) /\ b <= cursor
    BY <1>0, <1>1, <1>3, <1>4 DEF Behind
  <2>2. \A b \in Hours : b <= cursor => b < cursor + 1
    BY <1>0, <1>1
  <2>3. QED
    BY <1>6, <2>1, <2>2
<1>8. TypeOK'
  <2>1. processed' \in 0 .. CommitEvery - 1
    BY <1>0, BatchFacts, TimeAssumption DEF TypeOK
  <2>2. QED
    BY <1>0, <1>6, <2>1 DEF TypeOK
<1>9. Complete'
  BY <1>0, <1>7 DEF Whole, Complete, Asof, EndHour, EndDay
<1>10. RunInv' /\ AddsNothingTwice'
  BY <1>0, <1>6, <1>7 DEF RunInv, Behind, AddsNothingTwice, EndHour
<1>11. ASSUME NEW s \in accepted' PROVE Sound(s)'
  <2>0. Sound(s) /\ s \in Sample /\ s \in accepted
    BY <1>0, <1>11, Typed DEF Whole
  <2>1. /\ s[1] \in Devices /\ Hr(s) \in Hours /\ Dy(s) \in Hours /\ Hr(s) \in Nat
        /\ s = <<s[1], s[2]>>
    BY <2>0, SampleFacts
  <2>2. (InDay(s)' <=> InDay(s)) /\ (InHour(s) => InHour(s)')
    BY <1>0, <1>6, <2>1 DEF InDay, InHour, Hr
  <2>3. (Folded(s) => Folded(s)') /\ Held(s)'
    BY <1>0, <2>0, <2>2 DEF Sound, Folded, Held
  <2>4. ASSUME Hr(s) < EndHour(now), Hr(s) <= cursor PROVE Folded(s)' \/ s[2] \in rows[s[1]][Hr(s)]
    <3>1. CASE Hr(s) = cursor
      <4>1. s \in raw => s[2] \in HourRow(s[1], cursor)
        BY <3>1, <2>0, <2>1, <1>0, RowFacts
      <4>2. QED
        BY <3>1, <4>1, <2>0, <2>1, <2>3, <1>3 DEF Sound, Held, Folded
    <3>2. CASE Hr(s) # cursor
      <4>1. Hr(s) < cursor
        BY <3>2, <2>4, <2>1, <1>0
      <4>2. Folded(s) \/ s[2] \in staged[s[1]][Hr(s)]
        BY <4>1, <2>0, <2>4, <1>0 DEF Sound, HoursSoFar, Passed, Staged
      <4>3. QED
        BY <3>2, <4>2, <2>1, <2>3, <1>3
    <3>3. QED
      BY <3>1, <3>2
  <2>5. ASSUME Hr(s) < EndHour(now), Hr(s) <= cursor PROVE Folded(s)' \/ Staged(s, Hr(s))'
    <3>1. s[2] \in rows[s[1]][Hr(s)] => s[2] \in hourly'[s[1]][Hr(s)] \/ s[2] \in staged'[s[1]][Hr(s)]
      BY <1>6, <2>1
    <3>2. QED
      BY <3>1, <2>4, <2>5 DEF Folded, InHour, Staged, Hr
  <2>6. HoursSoFar(s)'
    <3>1. Hr(s) < cursor + 1 => Hr(s) <= cursor
      BY <2>1, <1>0
    <3>2. cursor' # None /\ EndHour(now)' = EndHour(now) /\ Hr(s)' = Hr(s)
      BY <1>0 DEF None, EndHour, Hr
    <3>3. QED
      BY <1>0, <2>5, <3>1, <3>2 DEF HoursSoFar, Passed
  <2>7. HourFrontier(s)'
    <3>1. SUFFICES ASSUME NEW d \in Devices, NEW h \in Hours, hourly'[d][h] # {}, Hr(s) <= h
                   PROVE  Folded(s)'
      BY DEF HourFrontier, Hr
    <3>2. CASE hourly' = hourly
      BY <3>1, <3>2, <2>0, <2>3 DEF Sound, HourFrontier
    <3>3. CASE staged' = NoRows
      <4>1. h < EndHour(now) /\ h <= cursor /\ h \in Nat
        BY <3>1, <1>0, <1>1, <1>7
      <4>2. Hr(s) < EndHour(now) /\ Hr(s) <= cursor
        BY <3>1, <4>1, <2>1, <1>0, <1>1
      <4>3. staged'[s[1]][Hr(s)] = {}
        BY <3>3, <2>1, NoRowsFacts
      <4>4. QED
        BY <4>2, <4>3, <2>5 DEF Staged, Hr
    <3>4. QED
      BY <3>2, <3>3, <1>6
  <2>8. DayFrontier(s)'
    BY <1>0, <2>0, <2>2 DEF Sound, DayFrontier, Dy
  <2>9. QED
    BY <1>0, <2>3, <2>6, <2>7, <2>8 DEF Sound, DaysSoFar, HoursFolded, DaysFolded
<1>12. QED
  BY <1>8, <1>9, <1>10, <1>11 DEF Whole

\* An hour without raw rows: the run jumps to the next one that has some.
LEMMA HourGap ==
  ASSUME Whole, FoldHour, ~\E d \in Devices : HourRow(d, cursor) # {}
  PROVE  Whole'
<1> DEFINE next == SkipTo(cursor + 1, RawHours)
<1>0. /\ TypeOK /\ stage = "hours" /\ cursor \in Nat /\ cursor < EndHour(now)
      /\ cursor' = next
      /\ UNCHANGED <<measured, clock, taken, raw, hourly, daily, retention, stage, now, keep,
                     staged, processed, disruptions, accepted>>
  BY DEF Whole, FoldHour, FoldBucket, TypeOK
<1>1. cursor \in Hours /\ cursor # None /\ Hours \subseteq Nat
  BY <1>0, Typed, EndFacts, HourRange DEF None
<1>2. /\ next \in {None} \cup Nat
      /\ next # None => cursor + 1 <= next
      /\ \A b \in RawHours : cursor + 1 <= b => next # None /\ next <= b
  BY <1>0, SourceFacts, SkipFacts
<1> HIDE DEF next
<1>3. TypeOK'
  BY <1>0, <1>2 DEF TypeOK
<1>4. Complete'
  BY <1>0 DEF Whole, Complete, Asof, EndHour, EndDay
<1>5. RunInv' /\ AddsNothingTwice'
  <2>1. \A b \in Hours : b < cursor /\ next # None => b < next
    BY <1>0, <1>1, <1>2
  <2>2. Behind(hourly, EndHour(now))'
    BY <1>0, <1>1, <2>1 DEF Whole, RunInv, Behind, EndHour
  <2>3. QED
    BY <1>0, <2>2 DEF Whole, RunInv, AddsNothingTwice
<1>6. ASSUME NEW s \in accepted' PROVE Sound(s)'
  <2>0. Sound(s) /\ s \in Sample /\ s \in accepted
    BY <1>0, <1>6, Typed DEF Whole
  <2>1. Hr(s) \in Nat /\ s[1] \in Devices /\ s[2] \in Ticks
    BY <2>0, SampleFacts
  <2>2. (Folded(s)' <=> Folded(s)) /\ (InDay(s)' <=> InDay(s)) /\ Held(s)'
    BY <1>0, <2>0 DEF Sound, Folded, InHour, InDay, Held
  <2>3. HourFrontier(s)' /\ DayFrontier(s)'
    BY <1>0, <2>0, <2>2 DEF Sound, HourFrontier, DayFrontier, Hr, Dy
  <2>4. ASSUME Hr(s) < EndHour(now), next # None => Hr(s) < next
        PROVE  Folded(s) \/ Staged(s, Hr(s))
    <3>1. CASE Hr(s) < cursor
      BY <3>1, <2>0, <2>4, <1>0 DEF Sound, HoursSoFar, Passed
    <3>2. CASE ~(Hr(s) < cursor) /\ s \in raw
      <4>1. Hr(s) \in RawHours
        BY <3>2, <1>0, SourceFacts
      <4>2. Hr(s) # cursor
        BY <3>2, <1>0, <1>1, <2>0, <2>1, RowFacts
      <4>3. cursor + 1 <= Hr(s)
        BY <3>2, <4>2, <2>1, <1>0
      <4>4. next # None /\ next <= Hr(s) /\ Hr(s) < next
        BY <4>1, <4>3, <1>2, <2>4
      <4>5. next \in Nat
        BY <4>4, <1>2
      <4>6. QED
        BY <4>4, <4>5, <2>1
    <3>3. CASE s \notin raw
      BY <3>3, <2>0 DEF Sound, Held, Folded
    <3>4. QED
      BY <3>1, <3>2, <3>3
  <2>5. HoursSoFar(s)'
    BY <1>0, <2>2, <2>4 DEF HoursSoFar, Passed, Staged, Hr, EndHour
  <2>6. QED
    BY <1>0, <2>2, <2>3, <2>5 DEF Sound, DaysSoFar, HoursFolded, DaysFolded
<1>7. QED
  BY <1>3, <1>4, <1>5, <1>6 DEF Whole

\* The days of the rows of a tier of hours.
DaysOf(tier) == {DayOf(h) : h \in Rolled(tier)}

LEMMA DaysOfFacts ==
  ASSUME NEW tier
  PROVE  /\ DaysOf(tier) \subseteq Hours
         /\ \A s \in Sample : s[2] \in tier[s[1]][Hr(s)] => Dy(s) \in DaysOf(tier)
<1>1. Rolled(tier) \subseteq Hours
  BY DEF Rolled
<1>2. DaysOf(tier) \subseteq Hours
  BY <1>1, HourRange DEF DaysOf
<1>3. ASSUME NEW s \in Sample, s[2] \in tier[s[1]][Hr(s)] PROVE Dy(s) \in DaysOf(tier)
  <2>1. Hr(s) \in Hours /\ s[1] \in Devices /\ tier[s[1]][Hr(s)] # {} /\ Dy(s) = DayOf(Hr(s))
    BY <1>3, SampleFacts
  <2>2. Hr(s) \in Rolled(tier)
    BY <2>1 DEF Rolled
  <2>3. QED
    BY <2>1, <2>2 DEF DaysOf
<1>4. QED
  BY <1>2, <1>3

\* The hours are done: what was staged is committed, and the days begin after the newest.
LEMMA HoursDoneWhole == ASSUME Whole, HoursDone PROVE Whole'
<1> DEFINE start == NextStart(daily, DaysOf(hourly'))
<1>0. /\ TypeOK /\ stage = "hours" /\ (cursor = None \/ cursor >= EndHour(now))
      /\ stage' = "days" /\ hourly' = Flushed(hourly, staged) /\ staged' = NoRows
      /\ processed' = 0
      /\ UNCHANGED <<measured, clock, taken, raw, daily, retention, now, keep, disruptions,
                     accepted>>
  BY DEF Whole, HoursDone
<1>1. cursor' = start
  BY DEF HoursDone, HourlyDays, DaysOf, Rolled
<1>2. /\ now \in Ticks /\ EndHour(now) \in Int /\ EndDay(now) \in Int /\ Hours \subseteq Nat
      /\ cursor \in {None} \cup Nat /\ daily \in Rows
  BY <1>0, Typed, EndFacts, HourRange
<1>3. /\ start \in {None} \cup Nat
      /\ start # None => \A d \in Devices : \A b \in Hours : daily[d][b] # {} => b < start
      /\ start = None => DaysOf(hourly') = {} /\ \A d \in Devices : \A b \in Hours : daily[d][b] = {}
      /\ \A b \in DaysOf(hourly') : b < start =>
           \E d \in Devices : \E c \in Hours : daily[d][c] # {} /\ b <= c
  BY <1>2, DaysOfFacts, NextStartFacts
<1> HIDE DEF start
<1>4. Apart(hourly, staged) /\ Outcome(hourly, staged, hourly', NoRows)
  BY <1>0 DEF Whole, AddsNothingTwice, Apart, Outcome
<1>5. /\ hourly' \in Rows
      /\ \A d \in Devices : \A b \in Hours :
           hourly'[d][b] # {} => hourly[d][b] # {} \/ staged[d][b] # {}
      /\ \A d \in Devices : \A b \in Hours : hourly[d][b] # {} => hourly'[d][b] = hourly[d][b]
      /\ \A d \in Devices : \A b \in Hours : \A t \in staged[d][b] : t \in hourly'[d][b]
  BY <1>0, <1>4, Typed, CommitOrStage, NoRowsFacts
<1>6. TypeOK'
  BY <1>0, <1>1, <1>3, <1>5, NoRowsFacts, TimeAssumption DEF TypeOK
<1>7. \A d \in Devices : \A h \in Hours : hourly'[d][h] # {} => h < EndHour(now)
  BY <1>0, <1>5 DEF Whole, RunInv, Behind
<1>8. \A d \in Devices : \A y \in Hours : daily[d][y] # {} => y < EndDay(now)
  BY <1>0 DEF Whole, Complete, Asof
<1>9. Complete'
  BY <1>0, <1>7, <1>8 DEF Complete, Asof, EndHour, EndDay
<1>10. RunInv' /\ AddsNothingTwice'
  <2>1. \A d \in Devices : \A b \in Hours : staged'[d][b] = {}
    BY <1>0, NoRowsFacts
  <2>2. Behind(daily, EndDay(now))'
    BY <1>0, <1>1, <1>3, <1>8, <2>1 DEF Behind, EndDay, EndHour
  <2>3. QED
    BY <1>0, <2>1, <2>2 DEF RunInv, AddsNothingTwice
<1>11. ASSUME NEW s \in accepted' PROVE Sound(s)'
  <2>0. Sound(s) /\ s \in Sample /\ s \in accepted
    BY <1>0, <1>11, Typed DEF Whole
  <2>1. s[1] \in Devices /\ Hr(s) \in Hours /\ Hr(s) \in Nat /\ Dy(s) = DayOf(Hr(s))
        /\ Dy(s) \in Nat
    BY <2>0, SampleFacts
  <2>2. (InDay(s)' <=> InDay(s)) /\ (InHour(s) => InHour(s)')
    BY <1>0, <1>5, <2>1 DEF InDay, InHour, Hr
  <2>3. (Folded(s) => Folded(s)') /\ Held(s)'
    BY <1>0, <2>0, <2>2 DEF Sound, Folded, Held
  <2>4. Hr(s) < EndHour(now) => Folded(s)'
    <3>1. SUFFICES ASSUME Hr(s) < EndHour(now) PROVE Folded(s)'
      OBVIOUS
    <3>2. cursor # None => Hr(s) < cursor
      BY <3>1, <1>0, <1>2, <2>1
    <3>3. Folded(s) \/ Staged(s, Hr(s))
      BY <3>1, <3>2, <1>0, <2>0 DEF Sound, HoursSoFar, Passed
    <3>4. Staged(s, Hr(s)) => InHour(s)'
      BY <1>5, <2>1 DEF Staged, InHour, Hr
    <3>5. QED
      BY <3>3, <3>4, <2>3 DEF Folded
  <2>5. HourFrontier(s)'
    <3>1. SUFFICES ASSUME NEW d \in Devices, NEW h \in Hours, hourly'[d][h] # {}, Hr(s) <= h
                   PROVE  Folded(s)'
      BY DEF HourFrontier, Hr
    <3>2. Hr(s) < EndHour(now)
      BY <3>1, <1>2, <1>7, <2>1
    <3>3. QED
      BY <3>2, <2>4
  <2>6. DayFrontier(s)'
    BY <1>0, <2>0, <2>2 DEF Sound, DayFrontier, Dy
  <2>7. HoursFolded(s)'
    BY <1>0, <2>4 DEF HoursFolded, Hr, EndHour
  <2>8. ASSUME Dy(s) < EndDay(now), start # None => Dy(s) < start PROVE InDay(s)
    <3>1. Hr(s) < EndHour(now)
      BY <2>8, <2>1, <1>2, EndFacts
    <3>2. CASE InHour(s)'
      <4>1. Dy(s) \in DaysOf(hourly')
        BY <3>2, <2>0, DaysOfFacts DEF InHour, Hr
      <4>2. Dy(s) < start
        BY <4>1, <2>8, <1>3
      <4>3. PICK d \in Devices, c \in Hours : daily[d][c] # {} /\ Dy(s) <= c
        BY <4>1, <4>2, <1>3
      <4>4. QED
        BY <4>3, <2>0 DEF Sound, DayFrontier
    <3>3. QED
      BY <3>1, <3>2, <2>2, <2>4 DEF Folded
  <2>9. DaysSoFar(s)'
    BY <1>0, <1>1, <2>2, <2>8 DEF DaysSoFar, Passed, Dy, EndDay, EndHour
  <2>10. QED
    BY <1>0, <2>3, <2>5, <2>6, <2>7, <2>9 DEF Sound, HoursSoFar, DaysFolded
<1>12. QED
  BY <1>6, <1>9, <1>10, <1>11 DEF Whole

\* What a run adds to the days: by then every hour of the day is folded.
LEMMA DayData ==
  ASSUME Whole, FoldDay, \E d \in Devices : DayRow(d, cursor) # {}
  PROVE  Whole'
<1> DEFINE row == [d \in Devices |-> DayRow(d, cursor)]
           rows == WithBucket(row)
<1>0. /\ TypeOK /\ stage = "days" /\ cursor \in Nat /\ cursor < EndDay(now)
      /\ cursor' = cursor + 1 /\ processed' = BatchCount(processed + 1)
      /\ Outcome(daily, rows, daily', staged')
      /\ UNCHANGED <<measured, clock, taken, raw, hourly, retention, stage, now, keep,
                     disruptions, accepted>>
  BY DEF Whole, FoldDay, FoldBucket, WithBucket, Outcome, TypeOK
<1>1. cursor \in Hours /\ now \in Ticks /\ EndDay(now) \in Int /\ Hours \subseteq Nat
  BY <1>0, Typed, EndFacts, HourRange
<1>2. \A d \in Devices : DayRow(d, cursor) \in SUBSET Ticks
  BY <1>0, <1>1, RowFacts
<1>3. /\ rows \in Rows
      /\ \A d \in Devices : rows[d][cursor] = DayRow(d, cursor)
      /\ \A d \in Devices : \A b \in Hours : b # cursor => rows[d][b] = staged[d][b]
  BY <1>0, <1>1, <1>2, BucketFacts
<1> HIDE DEF rows
<1>4. Behind(daily, EndDay(now)) /\ cursor # None
  BY <1>0 DEF Whole, RunInv, None
<1>5. Apart(daily, rows)
  <2>1. \A d \in Devices : daily[d][cursor] = {}
    BY <1>1, <1>4 DEF Behind
  <2>2. \A d \in Devices : \A b \in Hours : staged[d][b] # {} => daily[d][b] = {}
    BY <1>0 DEF Whole, AddsNothingTwice
  <2>3. QED
    BY <1>3, <2>1, <2>2 DEF Apart
<1>6. /\ daily' \in Rows /\ staged' \in Rows
      /\ \A d \in Devices : \A b \in Hours :
           daily'[d][b] # {} \/ staged'[d][b] # {} => daily[d][b] # {} \/ rows[d][b] # {}
      /\ \A d \in Devices : \A b \in Hours : daily[d][b] # {} => daily'[d][b] = daily[d][b]
      /\ \A d \in Devices : \A b \in Hours : \A t \in rows[d][b] :
           t \in daily'[d][b] \/ t \in staged'[d][b]
      /\ \A d \in Devices : \A b \in Hours : staged'[d][b] # {} => daily'[d][b] = {}
      /\ staged' = NoRows \/ daily' = daily
  BY <1>0, <1>3, <1>5, Typed, CommitOrStage
<1>7. \A d \in Devices : \A b \in Hours :
        daily'[d][b] # {} \/ staged'[d][b] # {} => b < EndDay(now) /\ b < cursor + 1
  <2>1. \A d \in Devices : \A b \in Hours :
          daily[d][b] # {} \/ rows[d][b] # {} => b < EndDay(now) /\ b <= cursor
    BY <1>0, <1>1, <1>3, <1>4 DEF Behind
  <2>2. \A b \in Hours : b <= cursor => b < cursor + 1
    BY <1>0, <1>1
  <2>3. QED
    BY <1>6, <2>1, <2>2
<1>8. TypeOK'
  <2>1. processed' \in 0 .. CommitEvery - 1
    BY <1>0, BatchFacts, TimeAssumption DEF TypeOK
  <2>2. QED
    BY <1>0, <1>6, <2>1 DEF TypeOK
<1>9. Complete'
  BY <1>0, <1>7 DEF Whole, Complete, Asof, EndHour, EndDay
<1>10. RunInv' /\ AddsNothingTwice'
  BY <1>0, <1>6, <1>7 DEF RunInv, Behind, AddsNothingTwice, EndHour, EndDay
<1>11. ASSUME NEW s \in accepted' PROVE Sound(s)'
  <2>0. Sound(s) /\ s \in Sample /\ s \in accepted
    BY <1>0, <1>11, Typed DEF Whole
  <2>1. /\ s[1] \in Devices /\ Hr(s) \in Hours /\ Dy(s) \in Hours /\ Dy(s) \in Nat
        /\ Hr(s) \in Nat /\ Dy(s) = DayOf(Hr(s))
    BY <2>0, SampleFacts
  <2>2. (InHour(s)' <=> InHour(s)) /\ (InDay(s) => InDay(s)')
    BY <1>0, <1>6, <2>1 DEF InDay, InHour, Dy
  <2>3. (Folded(s) => Folded(s)') /\ Held(s)'
    BY <1>0, <2>0, <2>2 DEF Sound, Folded, Held
  <2>4. ASSUME Dy(s) < EndDay(now), Dy(s) <= cursor PROVE InDay(s)' \/ s[2] \in rows[s[1]][Dy(s)]
    <3>1. CASE Dy(s) = cursor
      <4>1. Hr(s) < EndHour(now)
        BY <2>4, <2>1, <1>1, EndFacts
      <4>2. Folded(s)
        BY <4>1, <1>0, <2>0 DEF Sound, HoursFolded
      <4>3. InHour(s) => s[2] \in DayRow(s[1], cursor)
        BY <3>1, <2>0, <2>1, <1>0, RowFacts
      <4>4. QED
        BY <3>1, <4>2, <4>3, <2>1, <2>2, <1>3 DEF Folded
    <3>2. CASE Dy(s) # cursor
      <4>1. Dy(s) < cursor
        BY <3>2, <2>4, <2>1, <1>0
      <4>2. InDay(s) \/ s[2] \in staged[s[1]][Dy(s)]
        BY <4>1, <2>0, <2>4, <1>0 DEF Sound, DaysSoFar, Passed, Staged
      <4>3. QED
        BY <3>2, <4>2, <2>1, <2>2, <1>3
    <3>3. QED
      BY <3>1, <3>2
  <2>5. ASSUME Dy(s) < EndDay(now), Dy(s) <= cursor PROVE InDay(s)' \/ Staged(s, Dy(s))'
    <3>1. s[2] \in rows[s[1]][Dy(s)] => s[2] \in daily'[s[1]][Dy(s)] \/ s[2] \in staged'[s[1]][Dy(s)]
      BY <1>6, <2>1
    <3>2. QED
      BY <3>1, <2>4, <2>5 DEF InDay, Staged, Dy
  <2>6. DaysSoFar(s)'
    <3>1. Dy(s) < cursor + 1 => Dy(s) <= cursor
      BY <2>1, <1>0
    <3>2. cursor' # None /\ EndDay(now)' = EndDay(now) /\ Dy(s)' = Dy(s)
      BY <1>0 DEF None, EndDay, EndHour, Dy
    <3>3. QED
      BY <1>0, <2>5, <3>1, <3>2 DEF DaysSoFar, Passed
  <2>7. DayFrontier(s)'
    <3>1. SUFFICES ASSUME NEW d \in Devices, NEW y \in Hours, daily'[d][y] # {}, Dy(s) <= y
                   PROVE  InDay(s)'
      BY DEF DayFrontier, Dy
    <3>2. CASE daily' = daily
      BY <3>1, <3>2, <2>0, <2>2 DEF Sound, DayFrontier
    <3>3. CASE staged' = NoRows
      <4>1. y < EndDay(now) /\ y <= cursor /\ y \in Nat
        BY <3>1, <1>0, <1>1, <1>7
      <4>2. Dy(s) < EndDay(now) /\ Dy(s) <= cursor
        BY <3>1, <4>1, <2>1, <1>0, <1>1
      <4>3. staged'[s[1]][Dy(s)] = {}
        BY <3>3, <2>1, NoRowsFacts
      <4>4. QED
        BY <4>2, <4>3, <2>5 DEF Staged, Dy
    <3>4. QED
      BY <3>2, <3>3, <1>6
  <2>8. HourFrontier(s)'
    BY <1>0, <2>0, <2>3 DEF Sound, HourFrontier, Hr
  <2>9. HoursFolded(s)'
    BY <1>0, <2>0, <2>3 DEF Sound, HoursFolded, Hr, EndHour
  <2>10. QED
    BY <1>0, <2>3, <2>6, <2>7, <2>8, <2>9 DEF Sound, HoursSoFar, DaysFolded
<1>12. QED
  BY <1>8, <1>9, <1>10, <1>11 DEF Whole

\* A day without hourly rows: the run jumps to the next one that has some.
LEMMA DayGap ==
  ASSUME Whole, FoldDay, ~\E d \in Devices : DayRow(d, cursor) # {}
  PROVE  Whole'
<1> DEFINE next == SkipTo(cursor + 1, HourlyDays)
<1>0. /\ TypeOK /\ stage = "days" /\ cursor \in Nat /\ cursor < EndDay(now)
      /\ cursor' = next
      /\ UNCHANGED <<measured, clock, taken, raw, hourly, daily, retention, stage, now, keep,
                     staged, processed, disruptions, accepted>>
  BY DEF Whole, FoldDay, FoldBucket, TypeOK
<1>1. cursor \in Hours /\ cursor # None /\ Hours \subseteq Nat /\ now \in Ticks
  BY <1>0, Typed, EndFacts, HourRange DEF None
<1>2. /\ next \in {None} \cup Nat
      /\ next # None => cursor + 1 <= next
      /\ \A b \in HourlyDays : cursor + 1 <= b => next # None /\ next <= b
  BY <1>0, SourceFacts, SkipFacts
<1> HIDE DEF next
<1>3. TypeOK'
  BY <1>0, <1>2 DEF TypeOK
<1>4. Complete'
  BY <1>0 DEF Whole, Complete, Asof, EndHour, EndDay
<1>5. RunInv' /\ AddsNothingTwice'
  <2>1. \A b \in Hours : b < cursor /\ next # None => b < next
    BY <1>0, <1>1, <1>2
  <2>2. Behind(daily, EndDay(now))'
    BY <1>0, <1>1, <2>1 DEF Whole, RunInv, Behind, EndDay, EndHour
  <2>3. QED
    BY <1>0, <2>2 DEF Whole, RunInv, AddsNothingTwice
<1>6. ASSUME NEW s \in accepted' PROVE Sound(s)'
  <2>0. Sound(s) /\ s \in Sample /\ s \in accepted
    BY <1>0, <1>6, Typed DEF Whole
  <2>1. /\ Hr(s) \in Nat /\ Dy(s) \in Nat /\ s[1] \in Devices /\ s[2] \in Ticks
        /\ Dy(s) = DayOf(Hr(s))
    BY <2>0, SampleFacts
  <2>2. (Folded(s)' <=> Folded(s)) /\ (InDay(s)' <=> InDay(s)) /\ Held(s)'
    BY <1>0, <2>0 DEF Sound, Folded, InHour, InDay, Held
  <2>3. HourFrontier(s)' /\ DayFrontier(s)' /\ HoursFolded(s)'
    BY <1>0, <2>0, <2>2 DEF Sound, HourFrontier, DayFrontier, HoursFolded, Hr, Dy, EndHour
  <2>4. ASSUME Dy(s) < EndDay(now), next # None => Dy(s) < next
        PROVE  InDay(s) \/ Staged(s, Dy(s))
    <3>1. CASE Dy(s) < cursor
      BY <3>1, <2>0, <2>4, <1>0 DEF Sound, DaysSoFar, Passed
    <3>2. CASE ~(Dy(s) < cursor) /\ InHour(s)
      <4>1. Dy(s) \in HourlyDays
        BY <3>2, <1>0, <2>0, SourceFacts
      <4>2. Dy(s) # cursor
        BY <3>2, <1>0, <1>1, <2>0, <2>1, RowFacts
      <4>3. cursor + 1 <= Dy(s)
        BY <3>2, <4>2, <2>1, <1>0
      <4>4. next # None /\ next <= Dy(s) /\ Dy(s) < next
        BY <4>1, <4>3, <1>2, <2>4
      <4>5. next \in Nat
        BY <4>4, <1>2
      <4>6. QED
        BY <4>4, <4>5, <2>1
    <3>3. CASE ~InHour(s)
      <4>1. Hr(s) < EndHour(now)
        BY <2>4, <2>1, <1>1, EndFacts
      <4>2. Folded(s)
        BY <4>1, <1>0, <2>0 DEF Sound, HoursFolded
      <4>3. QED
        BY <4>2, <3>3 DEF Folded
    <3>4. QED
      BY <3>1, <3>2, <3>3
  <2>5. DaysSoFar(s)'
    BY <1>0, <2>2, <2>4 DEF DaysSoFar, Passed, Staged, Dy, EndDay, EndHour
  <2>6. QED
    BY <1>0, <2>2, <2>3, <2>5 DEF Sound, HoursSoFar, DaysFolded
<1>7. QED
  BY <1>3, <1>4, <1>5, <1>6 DEF Whole

\* The days are done: what was staged is committed.
LEMMA DaysDoneWhole == ASSUME Whole, DaysDone PROVE Whole'
<1>0. /\ TypeOK /\ stage = "days" /\ (cursor = None \/ cursor >= EndDay(now))
      /\ stage' = "prune" /\ daily' = Flushed(daily, staged) /\ staged' = NoRows
      /\ processed' = 0 /\ cursor' = None
      /\ UNCHANGED <<measured, clock, taken, raw, hourly, retention, now, keep, disruptions,
                     accepted>>
  BY DEF Whole, DaysDone
<1>1. /\ now \in Ticks /\ EndDay(now) \in Int /\ Hours \subseteq Nat
      /\ cursor \in {None} \cup Nat
  BY <1>0, Typed, EndFacts, HourRange
<1>2. Apart(daily, staged) /\ Outcome(daily, staged, daily', NoRows)
  BY <1>0 DEF Whole, AddsNothingTwice, Apart, Outcome
<1>3. /\ daily' \in Rows
      /\ \A d \in Devices : \A b \in Hours :
           daily'[d][b] # {} => daily[d][b] # {} \/ staged[d][b] # {}
      /\ \A d \in Devices : \A b \in Hours : daily[d][b] # {} => daily'[d][b] = daily[d][b]
      /\ \A d \in Devices : \A b \in Hours : \A t \in staged[d][b] : t \in daily'[d][b]
  BY <1>0, <1>2, Typed, CommitOrStage, NoRowsFacts
<1>4. TypeOK'
  BY <1>0, <1>3, NoRowsFacts, TimeAssumption DEF TypeOK
<1>5. \A d \in Devices : \A y \in Hours : daily'[d][y] # {} => y < EndDay(now)
  BY <1>0, <1>3 DEF Whole, RunInv, Behind
<1>6. Complete'
  BY <1>0, <1>5 DEF Whole, Complete, Asof, EndHour, EndDay
<1>7. RunInv' /\ AddsNothingTwice'
  BY <1>0, NoRowsFacts DEF RunInv, AddsNothingTwice
<1>8. ASSUME NEW s \in accepted' PROVE Sound(s)'
  <2>0. Sound(s) /\ s \in Sample /\ s \in accepted
    BY <1>0, <1>8, Typed DEF Whole
  <2>1. s[1] \in Devices /\ Dy(s) \in Hours /\ Dy(s) \in Nat
    BY <2>0, SampleFacts
  <2>2. (InHour(s)' <=> InHour(s)) /\ (InDay(s) => InDay(s)')
    BY <1>0, <1>3, <2>1 DEF InDay, InHour, Dy
  <2>3. (Folded(s) => Folded(s)') /\ Held(s)'
    BY <1>0, <2>0, <2>2 DEF Sound, Folded, Held
  <2>4. Dy(s) < EndDay(now) => InDay(s)'
    <3>1. SUFFICES ASSUME Dy(s) < EndDay(now) PROVE InDay(s)'
      OBVIOUS
    <3>2. cursor # None => Dy(s) < cursor
      BY <3>1, <1>0, <1>1, <2>1
    <3>3. InDay(s) \/ Staged(s, Dy(s))
      BY <3>1, <3>2, <1>0, <2>0 DEF Sound, DaysSoFar, Passed
    <3>4. Staged(s, Dy(s)) => InDay(s)'
      BY <1>3, <2>1 DEF Staged, InDay, Dy
    <3>5. QED
      BY <3>3, <3>4, <2>2
  <2>5. DayFrontier(s)'
    <3>1. SUFFICES ASSUME NEW d \in Devices, NEW y \in Hours, daily'[d][y] # {}, Dy(s) <= y
                   PROVE  InDay(s)'
      BY DEF DayFrontier, Dy
    <3>2. Dy(s) < EndDay(now)
      BY <3>1, <1>1, <1>5, <2>1
    <3>3. QED
      BY <3>2, <2>4
  <2>6. HourFrontier(s)'
    BY <1>0, <2>0, <2>3 DEF Sound, HourFrontier, Hr
  <2>7. HoursFolded(s)'
    BY <1>0, <2>0, <2>3 DEF Sound, HoursFolded, Hr, EndHour
  <2>8. DaysFolded(s)'
    BY <1>0, <2>4 DEF DaysFolded, Dy, EndDay, EndHour
  <2>9. QED
    BY <1>0, <2>3, <2>5, <2>6, <2>7, <2>8 DEF Sound, HoursSoFar, DaysSoFar
<1>9. QED
  BY <1>4, <1>6, <1>7, <1>8 DEF Whole

-----------------------------------------------------------------------------
\* Every step keeps the invariant.
LEMMA WholeNext == Whole /\ [Next]_vars => Whole'
<1> SUFFICES ASSUME Whole, [Next]_vars PROVE Whole'
  OBVIOUS
<1>1. ASSUME FoldHour PROVE Whole'
  BY <1>1, HourData, HourGap
<1>2. ASSUME FoldDay PROVE Whole'
  BY <1>2, DayData, DayGap
<1>3. QED
  BY <1>1, <1>2, QuietSteps, StoreWhole, StartWhole, HoursDoneWhole, DaysDoneWhole, PruneWhole,
    FailWhole, PurgeWhole DEF Next

LEMMA WholeAlways == Spec => []Whole
BY WholeInit, WholeNext, PTL DEF Spec

\* A measurement committed before its hour was due to be folded is in some tier until its
\* day is beyond the daily retention or the admin purges it, and in its day's row once
\* there is one: pruning never outruns the folding of telemetry_rollups.py, whatever the
\* retention, the gaps in the data, and the runs that failed.
THEOREM TiersAlwaysHold == Spec => []TiersHold
<1>1. ASSUME Whole, NEW s \in accepted, daily[s[1]][DayOf(HourOf(s[2]))] # {} PROVE InDay(s)
  <2>1. s \in Sample /\ Sound(s)
    BY <1>1, Typed DEF Whole
  <2>2. s[1] \in Devices /\ Dy(s) \in Hours /\ Dy(s) <= Dy(s)
    BY <2>1, SampleFacts
  <2>3. QED
    BY <1>1, <2>1, <2>2 DEF Sound, DayFrontier, Dy
<1>2. Whole => TiersHold
  BY <1>1 DEF Whole, Sound, TiersHold, NothingLost, DailyIsWhole
<1>3. QED
  BY <1>2, WholeAlways, PTL

\* A run that continues after a failure, a crash or a purge stages no row that the tier
\* has already: _next_start is always past the newest rollup.
THEOREM NothingIsAddedTwice == Spec => []AddsNothingTwice
<1>1. Whole => AddsNothingTwice
  BY DEF Whole
<1>2. QED
  BY <1>1, WholeAlways, PTL

\* When a run has folded the hours, and again when it has folded the days, no measurement
\* committed in time is left behind: jumping over gaps skips no data.
THEOREM RunsCatchUp == Spec => []CaughtUp
<1>1. Whole => CaughtUp
  <2>1. SUFFICES ASSUME Whole PROVE CaughtUp
    OBVIOUS
  <2>2. \A s \in accepted : HoursFolded(s) /\ DaysFolded(s)
    BY <2>1 DEF Whole, Sound
  <2>3. QED
    BY <2>2 DEF CaughtUp, HoursFolded, DaysFolded, Folded, Hr, Dy, EndHour, EndDay
<1>2. QED
  BY <1>1, WholeAlways, PTL

-----------------------------------------------------------------------------
(* What a query needs to know of the tiers: the second invariant, Exact.     *)

\* Every row holds measurements of its own bucket.
Contents ==
  /\ \A d \in Devices : \A h \in Hours : \A t \in hourly[d][h] : HourOf(t) = h
  /\ \A d \in Devices : \A y \in Hours : \A t \in daily[d][y] : DayOf(HourOf(t)) = y
  /\ stage = "hours" =>
       \A d \in Devices : \A h \in Hours : \A t \in staged[d][h] : HourOf(t) = h
  /\ stage = "days" =>
       \A d \in Devices : \A y \in Hours : \A t \in staged[d][y] : DayOf(HourOf(t)) = y

\* What is under way was not committed before.
Fresh == taken \subseteq measured /\ accepted \subseteq measured /\ taken \cap accepted = {}

\* A measurement that is still in a tier is in the finer ones it came from, or those have
\* been pruned.
Layered(s) ==
  /\ s \in raw /\ InDay(s) => InHour(s)
  /\ stage = "hours" /\ Staged(s, Hr(s)) => s \in raw
  /\ stage = "days" /\ Staged(s, Dy(s)) => InHour(s)

\* Pruning goes by age: what r still has, s has lost only if it is older.
Aged(s, r) ==
  /\ r \in raw /\ s \notin raw => Hr(s) < Hr(r)
  /\ InDay(s) /\ ~InHour(s) /\ (r \in raw \/ InHour(r)) => Dy(s) < Dy(r)

Exact ==
  /\ Contents /\ Fresh
  /\ \A s \in accepted : Layered(s)
  /\ \A s \in accepted : \A r \in accepted : Aged(s, r)

LEMMA ExactInit == Init => Exact
BY NoRowsFacts DEF Init, Exact, Contents, Fresh

\* While the tiers and the run stand still.
LEMMA LayersStay ==
  ASSUME NEW s, NEW r, UNCHANGED <<raw, hourly, daily, staged, stage>>
  PROVE  (Layered(s) => Layered(s)') /\ (Aged(s, r) => Aged(s, r)')
<1>1. /\ InDay(s)' <=> InDay(s)
      /\ InHour(s)' <=> InHour(s)
      /\ InHour(r)' <=> InHour(r)
  BY DEF InDay, InHour
<1>2. QED
  BY <1>1 DEF Layered, Aged, Staged, Hr, Dy

LEMMA QuietExact ==
  ASSUME Whole, Exact,
         \/ Tick \/ \E d \in Devices : Take(d)
         \/ \E r \in Retentions : ChangeRetention(r)
         \/ UNCHANGED vars
  PROVE  Exact'
<1>1. UNCHANGED <<raw, hourly, daily, staged, stage, accepted>>
  BY DEF Tick, Take, ChangeRetention, vars, run
<1>2. Contents'
  BY <1>1 DEF Exact, Contents
<1>3. Fresh'
  <2>1. CASE UNCHANGED <<taken, measured>>
    BY <2>1, <1>1 DEF Exact, Fresh
  <2>2. CASE \E d \in Devices : Take(d)
    BY <2>2, <1>1 DEF Exact, Fresh, Take
  <2>3. QED
    BY <2>1, <2>2 DEF Tick, ChangeRetention, vars
<1>4. QED
  BY <1>1, <1>2, <1>3, LayersStay DEF Exact

\* The rows of a bucket that is complete.
LEMMA FoldedIsOld ==
  ASSUME Whole, NEW s \in Sample
  PROVE  /\ InHour(s) => Hr(s) < EndHour(clock)
         /\ InDay(s) => Dy(s) < EndDay(clock) /\ Hr(s) < EndHour(clock)
<1>1. /\ s[1] \in Devices /\ Hr(s) \in Hours /\ Dy(s) \in Hours /\ Hr(s) \in Nat /\ Dy(s) \in Nat
      /\ Dy(s) = DayOf(Hr(s))
  BY SampleFacts
<1>2. Asof \in Ticks /\ clock \in Ticks /\ Asof <= clock
  BY Typed DEF Whole, Asof, Ticks
<1>3. /\ EndHour(Asof) <= EndHour(clock) /\ EndDay(Asof) <= EndDay(clock)
      /\ EndHour(Asof) \in Int /\ EndHour(clock) \in Int
      /\ EndDay(Asof) \in Int /\ EndDay(clock) \in Int
  BY <1>2, EndFacts
<1>4. InHour(s) => Hr(s) < EndHour(Asof)
  BY <1>1 DEF Whole, Complete, InHour, Hr
<1>5. InDay(s) => Dy(s) < EndDay(Asof)
  BY <1>1 DEF Whole, Complete, InDay, Dy
<1>6. Dy(s) < EndDay(clock) => Hr(s) < EndHour(clock)
  BY <1>1, <1>2, EndFacts
<1>7. QED
  BY <1>1, <1>3, <1>4, <1>5, <1>6

LEMMA StoreExact == ASSUME Whole, Exact, NEW s \in taken, Store(s) PROVE Exact'
<1>0. /\ TypeOK /\ s \in Sample /\ raw' = raw \cup {s} /\ taken' = taken \ {s}
      /\ accepted' = IF InTime(s) THEN accepted \cup {s} ELSE accepted
      /\ s \in measured /\ s \notin accepted
      /\ UNCHANGED <<measured, clock, hourly, daily, stage, now, cursor, staged>>
  BY DEF Whole, TypeOK, Store, run, Exact, Fresh
<1>1. Contents' /\ Fresh'
  BY <1>0 DEF Exact, Contents, Fresh
<1>2. \A r : (InDay(r)' <=> InDay(r)) /\ (InHour(r)' <=> InHour(r)) /\ (r # s => (r \in raw' <=> r \in raw))
  BY <1>0 DEF InDay, InHour
<1>3. clock \in Ticks /\ now \in Ticks /\ now <= clock
  BY <1>0, Typed
<1>4. /\ EndHour(clock) \in Int /\ EndDay(clock) \in Int /\ EndDay(now) \in Int
      /\ EndDay(now) <= EndDay(clock)
  BY <1>3, EndFacts
<1>5. Hr(s) \in Nat /\ Dy(s) \in Nat /\ Dy(s) = DayOf(Hr(s)) /\ Dy(s) \in Hours /\ s[1] \in Devices
  BY <1>0, SampleFacts
<1>6. ASSUME InTime(s) PROVE EndHour(clock) <= Hr(s) /\ EndDay(clock) <= Dy(s)
  <2>1. EndHour(clock) <= Hr(s)
    BY <1>3, <1>4, <1>5, <1>6 DEF InTime, EndHour, Hr
  <2>2. EndDay(clock) <= Dy(s)
    BY <2>1, <1>4, <1>5, DayFacts DEF EndDay
  <2>3. QED
    BY <2>1, <2>2
<1>7. ASSUME NEW r \in accepted' PROVE Layered(r)'
  <2>1. CASE r \in accepted
    <3>1. r # s /\ Layered(r)
      BY <2>1, <1>0 DEF Exact
    <3>2. QED
      BY <3>1, <1>0, <1>2 DEF Layered, Staged, Hr, Dy
  <2>2. CASE r = s /\ InTime(s)
    <3>1. ~InDay(s)
      BY <2>2, <1>0, <1>4, <1>5, <1>6, FoldedIsOld
    <3>2. stage = "days" => ~Staged(s, Dy(s))
      <4>1. SUFFICES ASSUME stage = "days", Staged(s, Dy(s)) PROVE FALSE
        OBVIOUS
      <4>2. Dy(s) < EndDay(now)
        BY <4>1, <1>5 DEF Whole, RunInv, Behind, Staged
      <4>3. QED
        BY <4>2, <2>2, <1>4, <1>5, <1>6
    <3>3. QED
      BY <3>1, <3>2, <2>2, <1>0, <1>2 DEF Layered, Staged, Hr, Dy
  <2>3. QED
    BY <2>1, <2>2, <1>0
<1>8. ASSUME NEW q \in accepted', NEW r \in accepted' PROVE Aged(q, r)'
  <2>1. CASE q \in accepted /\ r \in accepted
    <3>1. q # s /\ r # s /\ Aged(q, r)
      BY <2>1, <1>0 DEF Exact
    <3>2. QED
      BY <3>1, <1>2 DEF Aged, Hr, Dy
  <2>2. CASE q = s /\ InTime(s)
    <3>1. ~InDay(s)
      BY <2>2, <1>0, <1>4, <1>5, <1>6, FoldedIsOld
    <3>2. QED
      BY <3>1, <2>2, <1>0, <1>2 DEF Aged
  <2>3. CASE q \in accepted /\ r = s /\ InTime(s)
    <3>1. q \in Sample /\ Sound(q) /\ q # s
      BY <2>3, <1>0, Typed DEF Whole
    <3>2. Hr(q) \in Nat /\ Dy(q) \in Nat
      BY <3>1, SampleFacts
    <3>3. q \notin raw => Hr(q) < Hr(s)
      <4>1. SUFFICES ASSUME q \notin raw PROVE Hr(q) < Hr(s)
        OBVIOUS
      <4>2. Hr(q) < EndHour(clock)
        BY <4>1, <3>1, FoldedIsOld DEF Sound, Held
      <4>3. QED
        BY <4>2, <3>2, <2>3, <1>4, <1>5, <1>6
    <3>4. InDay(q) => Dy(q) < Dy(s)
      BY <3>1, <3>2, <2>3, <1>4, <1>5, <1>6, FoldedIsOld
    <3>5. QED
      BY <3>1, <3>3, <3>4, <2>3, <1>2 DEF Aged, Hr, Dy
  <2>4. QED
    BY <2>1, <2>2, <2>3, <1>0
<1>9. QED
  BY <1>1, <1>7, <1>8 DEF Exact

\* A run starts, fails, or dies: nothing is staged.
LEMMA StartFailExact ==
  ASSUME Whole, Exact, StartRun \/ RunFails \/ Crash
  PROVE  Exact'
<1>0. /\ TypeOK /\ staged' = NoRows /\ stage' \in {"idle", "hours"} /\ taken' \subseteq taken
      /\ UNCHANGED <<measured, raw, hourly, daily, accepted>>
  BY DEF Whole, RunInv, StartRun, RunFails, Crash
<1>1. \A d \in Devices : \A b \in Hours : staged'[d][b] = {}
  BY <1>0, NoRowsFacts
<1>2. Contents' /\ Fresh'
  BY <1>0, <1>1 DEF Exact, Contents, Fresh
<1>3. \A s : (InDay(s)' <=> InDay(s)) /\ (InHour(s)' <=> InHour(s))
  BY <1>0 DEF InDay, InHour
<1>4. ASSUME NEW s \in accepted' PROVE Layered(s)'
  <2>1. s \in accepted /\ s \in Sample /\ Layered(s)
    BY <1>0, <1>4, Typed DEF Exact
  <2>2. s[1] \in Devices /\ Hr(s) \in Hours
    BY <2>1, SampleFacts
  <2>3. ~(stage' = "hours" /\ Staged(s, Hr(s))')
    BY <2>2, <1>1 DEF Staged, Hr
  <2>4. QED
    BY <2>1, <2>3, <1>0, <1>3 DEF Layered
<1>5. ASSUME NEW s \in accepted', NEW r \in accepted' PROVE Aged(s, r)'
  BY <1>0, <1>3, <1>5 DEF Exact, Aged, Hr, Dy
<1>6. QED
  BY <1>2, <1>4, <1>5 DEF Exact

\* What stays accepted after a purge is where it was.
LEMMA PurgeExact ==
  ASSUME Whole, Exact, NEW D, NEW cutoff \in Int, Purge(D, cutoff)
  PROVE  Exact'
<1> DEFINE perDay == TicksPerHour * HoursPerDay
<1>0. /\ TypeOK
      /\ raw' = {s \in raw : ~(s[1] \in D /\ s[2] < cutoff)}
      /\ hourly' = [d \in Devices |-> [h \in Hours |->
                      IF d \in D /\ h * TicksPerHour < cutoff THEN {} ELSE hourly[d][h]]]
      /\ daily' = [d \in Devices |-> [y \in Hours |->
                      IF d \in D /\ y * perDay < cutoff THEN {} ELSE daily[d][y]]]
      /\ accepted' = {s \in accepted : ~(s[1] \in D /\ Dy(s) * perDay < cutoff)}
      /\ UNCHANGED <<measured, taken, stage, staged>>
  BY DEF Whole, Purge, run, Dy
<1>1. /\ \A d \in Devices : \A b \in Hours : hourly'[d][b] \in {{}, hourly[d][b]}
      /\ \A d \in Devices : \A b \in Hours : daily'[d][b] \in {{}, daily[d][b]}
  BY <1>0
<1>2. Contents' /\ Fresh'
  BY <1>0, <1>1 DEF Exact, Contents, Fresh
<1>3. ASSUME NEW s \in accepted'
      PROVE  /\ s \in accepted /\ (s \in raw' <=> s \in raw)
             /\ (InHour(s)' <=> InHour(s)) /\ (InDay(s)' <=> InDay(s))
  <2>0. s \in Sample /\ s \in accepted /\ ~(s[1] \in D /\ Dy(s) * perDay < cutoff)
    BY <1>0, <1>3, Typed
  <2>1. /\ s[1] \in Devices /\ Hr(s) \in Hours /\ Dy(s) \in Hours /\ s[2] \in Nat
    BY <2>0, SampleFacts, Scale DEF Ticks
  <2>2. ~(s[1] \in D /\ s[2] < cutoff) /\ ~(s[1] \in D /\ Hr(s) * TicksPerHour < cutoff)
    BY <2>0, <2>1, StartsBefore
  <2>3. s \in raw' <=> s \in raw
    BY <1>0, <2>2
  <2>4. hourly'[s[1]][Hr(s)] = hourly[s[1]][Hr(s)]
    BY <1>0, <2>1, <2>2
  <2>5. daily'[s[1]][Dy(s)] = daily[s[1]][Dy(s)]
    BY <1>0, <2>0, <2>1
  <2>6. QED
    BY <2>0, <2>3, <2>4, <2>5 DEF InHour, InDay, Hr, Dy
<1>4. \A s \in accepted' : Layered(s)'
  BY <1>0, <1>3 DEF Exact, Layered, Staged, Hr, Dy
<1>5. \A s \in accepted' : \A r \in accepted' : Aged(s, r)'
  BY <1>3 DEF Exact, Aged, Hr, Dy
<1>6. QED
  BY <1>2, <1>4, <1>5 DEF Exact

LEMMA PurgesExact ==
  ASSUME Whole, Exact,
         \/ PurgeAll \/ \E d \in Devices : PurgeDevice(d)
         \/ \E days \in 1 .. DayOf(HourOf(MaxClock)) : PurgeOlder(days)
  PROVE  Exact'
<1>1. clock \in Int /\ clock + 1 \in Int
  BY Typed DEF Whole, Ticks
<1>2. ASSUME NEW days \in 1 .. DayOf(HourOf(MaxClock)), PurgeOlder(days) PROVE Exact'
  <2>1. clock - days * TicksPerHour * HoursPerDay \in Int
    BY <1>1, Scale
  <2>2. QED
    BY <1>2, <2>1, PurgeExact DEF PurgeOlder
<1>3. QED
  BY <1>1, <1>2, PurgeExact DEF PurgeAll, PurgeDevice

\* A row at a bucket is below CoveredUntil.
LEMMA RowIsCovered ==
  ASSUME NEW tier \in Rows, NEW d \in Devices, NEW b \in Hours, tier[d][b] # {}
  PROVE  CoveredUntil(tier) \in Nat /\ b < CoveredUntil(tier)
<1>0. Hours = 0 .. HourOf(MaxClock) /\ HourOf(MaxClock) \in Nat /\ Hours \subseteq Nat
  BY HourRange DEF Hours
<1>1. b \in Rolled(tier) /\ Rolled(tier) \subseteq Hours
  BY DEF Rolled
<1>2. Max(Rolled(tier)) \in Hours /\ b <= Max(Rolled(tier))
  BY <1>0, <1>1, MaxFacts
<1>3. CoveredUntil(tier) = Max(Rolled(tier)) + 1
  BY <1>1 DEF CoveredUntil
<1>4. QED
  BY <1>0, <1>2, <1>3

\* An hourly row that is too old is older than any raw row the retention keeps.
LEMMA RetentionNests ==
  ASSUME TypeOK, NEW h \in Nat, HourlyGoes(h)
  PROVE  h < HourOf(now) - keep.raw
<1> DEFINE H == HourOf(now)
           n == HoursPerDay
<1>1. keep.raw \in Nat /\ keep.hourly \in Nat /\ keep.raw <= keep.hourly * n
  BY RetentionsAssumption DEF TypeOK, Retention
<1>2. H \in Nat /\ n \in Nat \ {0}
  BY Typed, HourRange, Scale
<1>3. DayOf(h) < DayOf(H) - keep.hourly
  BY DEF HourlyGoes
<1>4. /\ DayOf(h) \in Int /\ DayOf(H) \in Int
      /\ h < n * DayOf(h) + n /\ n * DayOf(H) <= H
  BY <1>2, Quotient DEF DayOf
<1> DEFINE a == DayOf(h)
           b == DayOf(H)
           k == keep.hourly
<1>5. a + 1 <= b - k /\ a \in Int /\ b \in Int /\ k \in Nat
  BY <1>1, <1>3, <1>4
<1>6. h < n * a + n /\ n * b <= H /\ keep.raw <= k * n
  BY <1>1, <1>4
<1> HIDE DEF H, n, a, b, k
<1>7. n * (a + 1) <= n * (b - k)
  BY <1>2, <1>5
<1>8. n * (a + 1) = n * a + n /\ n * (b - k) = n * b - k * n
  BY <1>2, <1>5
<1>9. h < H - keep.raw
  <2>1. n * a \in Int /\ n * b \in Int /\ k * n \in Int
    BY <1>2, <1>5
  <2>2. QED
    BY <1>1, <1>2, <1>6, <1>7, <1>8, <2>1
<1>10. QED
  BY <1>9 DEF H

\* Pruning goes by age.
LEMMA PruneExact == ASSUME Whole, Exact, Prune PROVE Exact'
<1>0. /\ TypeOK /\ stage = "prune" /\ stage' = "idle"
      /\ raw' = {s \in raw : ~RawGoes(HourOf(s[2]))}
      /\ hourly' = [d \in Devices |-> [h \in Hours |->
                      IF HourlyGoes(h) THEN {} ELSE hourly[d][h]]]
      /\ daily' = [d \in Devices |-> [y \in Hours |->
                      IF DailyGoes(y) THEN {} ELSE daily[d][y]]]
      /\ accepted' = {s \in accepted : ~DailyGoes(DayOf(HourOf(s[2])))}
      /\ UNCHANGED <<measured, taken>>
  BY DEF Whole, Prune
<1>1. /\ \A d \in Devices : \A b \in Hours : hourly'[d][b] \in {{}, hourly[d][b]}
      /\ \A d \in Devices : \A b \in Hours : daily'[d][b] \in {{}, daily[d][b]}
  BY <1>0
<1>2. Contents' /\ Fresh'
  BY <1>0, <1>1 DEF Exact, Contents, Fresh
<1>3. /\ HourOf(now) \in Int /\ keep.raw \in Int /\ keep.hourly \in Int
      /\ CoveredUntil(hourly) \in Int /\ CoveredUntil(daily) \in Int
      /\ DayOf(HourOf(now)) \in Int /\ now \in Ticks
  <2>1. HourOf(now) \in Int /\ DayOf(HourOf(now)) \in Int /\ now \in Ticks
    BY <1>0, Typed, HourFacts, DayFacts, Scale DEF Ticks
  <2>2. keep.raw \in Int /\ keep.hourly \in Int
    BY <1>0, RetentionsAssumption DEF TypeOK, Retention
  <2>3. \A tier \in Rows : CoveredUntil(tier) \in Int
    <3>1. SUFFICES ASSUME NEW tier \in Rows PROVE CoveredUntil(tier) \in Int
      OBVIOUS
    <3>2. CASE Rolled(tier) = {}
      BY <3>2 DEF CoveredUntil
    <3>3. CASE Rolled(tier) # {}
      <4>1. PICK b \in Hours : \E d \in Devices : tier[d][b] # {}
        BY <3>3 DEF Rolled
      <4>2. QED
        BY <4>1, RowIsCovered
    <3>4. QED
      BY <3>2, <3>3
  <2>4. QED
    BY <2>1, <2>2, <2>3, <1>0, Typed
<1>4. ASSUME NEW s \in accepted'
      PROVE  /\ s \in accepted /\ s \in Sample /\ s[1] \in Devices
             /\ Hr(s) \in Hours /\ Hr(s) \in Nat /\ Dy(s) \in Hours /\ Dy(s) \in Nat
             /\ Dy(s) = DayOf(Hr(s))
             /\ s \in raw' <=> s \in raw /\ ~RawGoes(Hr(s))
             /\ InHour(s)' <=> InHour(s) /\ ~HourlyGoes(Hr(s))
             /\ InDay(s)' <=> InDay(s)
  <2>1. s \in accepted /\ s \in Sample /\ ~DailyGoes(Dy(s))
    BY <1>0, <1>4, Typed DEF Dy
  <2>2. s[1] \in Devices /\ Hr(s) \in Hours /\ Dy(s) \in Hours
    BY <2>1, SampleFacts
  <2>3. s \in raw' <=> s \in raw /\ ~RawGoes(Hr(s))
    BY <1>0 DEF Hr
  <2>4. InHour(s)' <=> InHour(s) /\ ~HourlyGoes(Hr(s))
    BY <1>0, <2>2 DEF InHour, Hr
  <2>5. InDay(s)' <=> InDay(s)
    BY <1>0, <2>1, <2>2 DEF InDay, Dy
  <2>6. QED
    BY <2>1, <2>2, <2>3, <2>4, <2>5, SampleFacts
<1>5. ASSUME NEW s \in accepted', InHour(s), HourlyGoes(Hr(s)) PROVE RawGoes(Hr(s))
  <2>1. Hr(s) < HourOf(now) - keep.raw
    BY <1>0, <1>4, <1>5, RetentionNests
  <2>2. Hr(s) < CoveredUntil(hourly)
    BY <1>0, <1>4, <1>5, Typed, RowIsCovered DEF InHour, Hr
  <2>3. QED
    BY <2>1, <2>2 DEF RawGoes
<1>6. ASSUME NEW s \in accepted' PROVE Layered(s)'
  BY <1>0, <1>4, <1>5, <1>6 DEF Exact, Layered
<1>7. ASSUME NEW s \in accepted', NEW r \in accepted' PROVE Aged(s, r)'
  <2>0. Aged(s, r) /\ Layered(r)
    BY <1>4, <1>7 DEF Exact
  <2>1. ASSUME r \in raw', s \notin raw' PROVE Hr(s) < Hr(r)
    <3>1. CASE s \notin raw
      BY <3>1, <2>0, <2>1, <1>4 DEF Aged
    <3>2. CASE RawGoes(Hr(s))
      <4>1. ~RawGoes(Hr(r))
        BY <2>1, <1>4
      <4>2. QED
        BY <3>2, <4>1, <1>3, <1>4 DEF RawGoes
    <3>3. QED
      BY <3>1, <3>2, <2>1, <1>4
  <2>2. ASSUME InDay(s)', ~InHour(s)', r \in raw' \/ InHour(r)' PROVE Dy(s) < Dy(r)
    <3>1. CASE ~InHour(s)
      BY <3>1, <2>0, <2>2, <1>4 DEF Aged
    <3>2. CASE InHour(s) /\ HourlyGoes(Hr(s))
      <4>1. SUFFICES ASSUME Dy(r) <= Dy(s) PROVE FALSE
        BY <1>4
      <4>2. HourlyGoes(Hr(r))
        BY <4>1, <3>2, <1>3, <1>4 DEF HourlyGoes
      <4>3. r \in raw /\ ~RawGoes(Hr(r))
        BY <4>2, <2>2, <1>4
      <4>4. Folded(r)
        <5>1. Dy(s) < EndDay(now)
          BY <2>2, <1>0, <1>4 DEF Whole, Complete, InDay, Dy, Asof
        <5>2. EndDay(now) \in Int
          BY <1>3, EndFacts
        <5>3. Dy(r) < EndDay(now)
          BY <4>1, <5>1, <5>2, <1>4
        <5>4. Hr(r) < EndHour(now)
          BY <5>3, <1>3, <1>4, EndFacts
        <5>5. QED
          BY <5>4, <1>0, <1>4 DEF Whole, Sound, HoursFolded
      <4>5. InHour(r)
        BY <4>3, <4>4, <2>0 DEF Folded, Layered
      <4>6. QED
        BY <4>2, <4>3, <4>5, <1>5
    <3>3. QED
      BY <3>1, <3>2, <2>2, <1>4
  <2>3. QED
    BY <2>1, <2>2 DEF Aged, Hr, Dy
<1>8. QED
  BY <1>2, <1>6, <1>7 DEF Exact

\* What the hours gain was staged, or is raw: a row added keeps the measurements whose
\* copies are coarser ones.
LEMMA HoursGrow ==
  ASSUME Whole, Exact, stage = "hours", stage' \in {"hours", "days"},
         UNCHANGED <<measured, taken, raw, daily, accepted>>,
         \A d \in Devices : \A b \in Hours : hourly[d][b] # {} => hourly'[d][b] = hourly[d][b],
         \A d \in Devices : \A b \in Hours : \A t \in hourly'[d][b] \cup staged'[d][b] :
           t \in hourly[d][b] \/ t \in staged[d][b] \/ t \in HourRow(d, b),
         \A d \in Devices : \A b \in Hours : \A t \in staged'[d][b] :
           stage' = "hours" /\ (t \in staged[d][b] \/ t \in HourRow(d, b))
  PROVE  Exact'
<1>1. \A d \in Devices : \A b \in Hours : \A t \in HourRow(d, b) : HourOf(t) = b /\ <<d, t>> \in raw
  BY DEF HourRow
<1>2. Contents' /\ Fresh'
  BY <1>1 DEF Exact, Contents, Fresh
<1>3. ASSUME NEW s \in accepted
      PROVE  /\ (InDay(s)' <=> InDay(s)) /\ (InHour(s) => InHour(s)')
             /\ InHour(s)' \/ Staged(s, Hr(s))' => InHour(s) \/ s \in raw
             /\ Staged(s, Hr(s))' => stage' = "hours" /\ s \in raw
             /\ ~(stage' = "days" /\ Staged(s, Dy(s))')
  <2>1. s \in Sample /\ s[1] \in Devices /\ Hr(s) \in Hours /\ Dy(s) \in Hours /\ s = <<s[1], s[2]>>
    BY Typed, SampleFacts DEF Whole
  <2>2. Staged(s, Hr(s)) => s \in raw
    BY DEF Exact, Layered
  <2>3. s[2] \in HourRow(s[1], Hr(s)) => s \in raw
    BY <2>1, <1>1
  <2>4. InDay(s)' <=> InDay(s)
    BY DEF InDay
  <2>5. InHour(s) => InHour(s)'
    BY <2>1 DEF InHour, Hr
  <2>6. InHour(s)' \/ Staged(s, Hr(s))' => InHour(s) \/ s \in raw
    <3>1. s[2] \in hourly'[s[1]][Hr(s)] \/ s[2] \in staged'[s[1]][Hr(s)]
            => \/ s[2] \in hourly[s[1]][Hr(s)] \/ s[2] \in staged[s[1]][Hr(s)]
               \/ s[2] \in HourRow(s[1], Hr(s))
      BY <2>1
    <3>2. QED
      BY <3>1, <2>2, <2>3 DEF InHour, Staged, Hr
  <2>7. Staged(s, Hr(s))' => stage' = "hours" /\ s \in raw
    BY <2>1, <2>2, <2>3 DEF Staged, Hr
  <2>8. ~(stage' = "days" /\ Staged(s, Dy(s))')
    BY <2>1 DEF Staged, Dy
  <2>9. QED
    BY <2>4, <2>5, <2>6, <2>7, <2>8
<1>4. \A s \in accepted' : Layered(s)'
  BY <1>3 DEF Exact, Layered
<1>5. \A s \in accepted' : \A r \in accepted' : Aged(s, r)'
  BY <1>3 DEF Exact, Aged, Hr, Dy
<1>6. QED
  BY <1>2, <1>4, <1>5 DEF Exact

LEMMA FoldHourExact == ASSUME Whole, Exact, FoldHour PROVE Exact'
<1> DEFINE row == [d \in Devices |-> HourRow(d, cursor)]
           rows == WithBucket(row)
<1>0. /\ TypeOK /\ stage = "hours" /\ stage' = "hours" /\ cursor \in Nat /\ cursor < EndHour(now)
      /\ UNCHANGED <<measured, taken, raw, daily, accepted>>
  BY DEF Whole, FoldHour, TypeOK
<1>1. CASE ~\E d \in Devices : HourRow(d, cursor) # {}
  <2>1. UNCHANGED <<hourly, staged>>
    BY <1>1 DEF FoldHour, FoldBucket
  <2>2. QED
    BY <1>0, <2>1, HoursGrow
<1>2. CASE \E d \in Devices : HourRow(d, cursor) # {}
  <2>1. Outcome(hourly, rows, hourly', staged')
    BY <1>2 DEF FoldHour, FoldBucket, WithBucket, Outcome
  <2>2. cursor \in Hours /\ \A d \in Devices : HourRow(d, cursor) \in SUBSET Ticks
    BY <1>0, Typed, EndFacts, RowFacts
  <2>3. /\ rows \in Rows
        /\ \A d \in Devices : rows[d][cursor] = HourRow(d, cursor)
        /\ \A d \in Devices : \A b \in Hours : b # cursor => rows[d][b] = staged[d][b]
    BY <1>0, <2>2, BucketFacts
  <2> HIDE DEF rows
  <2>4. \A d \in Devices : \A b \in Hours : rows[d][b] # {} => hourly[d][b] = {}
    <3>1. \A d \in Devices : hourly[d][cursor] = {}
      BY <1>0, <2>2 DEF Whole, RunInv, Behind, None
    <3>2. QED
      BY <1>0, <2>3, <3>1 DEF Whole, AddsNothingTwice
  <2>5. \A d \in Devices : \A b \in Hours : \A t \in rows[d][b] :
          t \in staged[d][b] \/ t \in HourRow(d, b)
    BY <2>3
  <2>6. \/ staged' = NoRows /\ hourly' = Flushed(hourly, rows)
        \/ staged' = rows /\ hourly' = hourly
    BY <2>1 DEF Outcome
  <2>7. \A d \in Devices : \A b \in Hours :
          /\ hourly[d][b] # {} => hourly'[d][b] = hourly[d][b]
          /\ hourly'[d][b] \in {hourly[d][b], rows[d][b]}
          /\ staged'[d][b] \in {{}, rows[d][b]}
    BY <2>3, <2>4, <2>6, <1>0, Typed, FlushFacts, NoRowsFacts
  <2>8. QED
    BY <1>0, <2>5, <2>7, HoursGrow
<1>3. QED
  BY <1>1, <1>2

LEMMA HoursDoneExact == ASSUME Whole, Exact, HoursDone PROVE Exact'
<1>0. /\ TypeOK /\ stage = "hours" /\ stage' = "days" /\ hourly' = Flushed(hourly, staged)
      /\ staged' = NoRows /\ UNCHANGED <<measured, taken, raw, daily, accepted>>
  BY DEF Whole, HoursDone
<1>1. \A d \in Devices : \A b \in Hours : staged[d][b] # {} => hourly[d][b] = {}
  BY <1>0 DEF Whole, AddsNothingTwice
<1>2. \A d \in Devices : \A b \in Hours :
        /\ hourly[d][b] # {} => hourly'[d][b] = hourly[d][b]
        /\ hourly'[d][b] \in {hourly[d][b], staged[d][b]}
        /\ staged'[d][b] = {}
  BY <1>0, <1>1, Typed, FlushFacts, NoRowsFacts
<1>3. QED
  BY <1>0, <1>2, HoursGrow

\* What the days gain was staged, or is in the hours.
LEMMA DaysGrow ==
  ASSUME Whole, Exact, stage = "days", stage' \in {"days", "prune"},
         UNCHANGED <<measured, taken, raw, hourly, accepted>>,
         \A d \in Devices : \A b \in Hours : daily[d][b] # {} => daily'[d][b] = daily[d][b],
         \A d \in Devices : \A b \in Hours : \A t \in daily'[d][b] \cup staged'[d][b] :
           t \in daily[d][b] \/ t \in staged[d][b] \/ t \in DayRow(d, b),
         \A d \in Devices : \A b \in Hours : \A t \in staged'[d][b] :
           stage' = "days" /\ (t \in staged[d][b] \/ t \in DayRow(d, b))
  PROVE  Exact'
<1>1. \A d \in Devices : \A b \in Hours : \A t \in DayRow(d, b) :
        DayOf(HourOf(t)) = b /\ t \in hourly[d][HourOf(t)]
  BY DEF DayRow, Exact, Contents
<1>2. Contents' /\ Fresh'
  BY <1>1 DEF Exact, Contents, Fresh
<1>3. ASSUME NEW s \in accepted
      PROVE  /\ (InHour(s)' <=> InHour(s)) /\ (InDay(s) => InDay(s)')
             /\ InDay(s)' \/ Staged(s, Dy(s))' => InDay(s) \/ InHour(s)
             /\ Staged(s, Dy(s))' => stage' = "days" /\ InHour(s)
  <2>1. s \in Sample /\ s[1] \in Devices /\ Dy(s) \in Hours
    BY Typed, SampleFacts DEF Whole
  <2>2. Staged(s, Dy(s)) => InHour(s)
    BY DEF Exact, Layered
  <2>3. s[2] \in DayRow(s[1], Dy(s)) => InHour(s)
    BY <2>1, <1>1 DEF InHour
  <2>4. InHour(s)' <=> InHour(s)
    BY DEF InHour
  <2>5. InDay(s) => InDay(s)'
    BY <2>1 DEF InDay, Dy
  <2>6. InDay(s)' \/ Staged(s, Dy(s))' => InDay(s) \/ InHour(s)
    <3>1. s[2] \in daily'[s[1]][Dy(s)] \/ s[2] \in staged'[s[1]][Dy(s)]
            => \/ s[2] \in daily[s[1]][Dy(s)] \/ s[2] \in staged[s[1]][Dy(s)]
               \/ s[2] \in DayRow(s[1], Dy(s))
      BY <2>1
    <3>2. QED
      BY <3>1, <2>2, <2>3 DEF InDay, Staged, Dy
  <2>7. Staged(s, Dy(s))' => stage' = "days" /\ InHour(s)
    BY <2>1, <2>2, <2>3 DEF Staged, Dy
  <2>8. QED
    BY <2>4, <2>5, <2>6, <2>7
<1>4. \A s \in accepted' : Layered(s)'
  BY <1>3 DEF Exact, Layered
<1>5. \A s \in accepted' : \A r \in accepted' : Aged(s, r)'
  BY <1>3 DEF Exact, Aged, Hr, Dy
<1>6. QED
  BY <1>2, <1>4, <1>5 DEF Exact

LEMMA FoldDayExact == ASSUME Whole, Exact, FoldDay PROVE Exact'
<1> DEFINE row == [d \in Devices |-> DayRow(d, cursor)]
           rows == WithBucket(row)
<1>0. /\ TypeOK /\ stage = "days" /\ stage' = "days" /\ cursor \in Nat /\ cursor < EndDay(now)
      /\ UNCHANGED <<measured, taken, raw, hourly, accepted>>
  BY DEF Whole, FoldDay, TypeOK
<1>1. CASE ~\E d \in Devices : DayRow(d, cursor) # {}
  <2>1. UNCHANGED <<daily, staged>>
    BY <1>1 DEF FoldDay, FoldBucket
  <2>2. QED
    BY <1>0, <2>1, DaysGrow
<1>2. CASE \E d \in Devices : DayRow(d, cursor) # {}
  <2>1. Outcome(daily, rows, daily', staged')
    BY <1>2 DEF FoldDay, FoldBucket, WithBucket, Outcome
  <2>2. cursor \in Hours /\ \A d \in Devices : DayRow(d, cursor) \in SUBSET Ticks
    BY <1>0, Typed, EndFacts, RowFacts
  <2>3. /\ rows \in Rows
        /\ \A d \in Devices : rows[d][cursor] = DayRow(d, cursor)
        /\ \A d \in Devices : \A b \in Hours : b # cursor => rows[d][b] = staged[d][b]
    BY <1>0, <2>2, BucketFacts
  <2> HIDE DEF rows
  <2>4. \A d \in Devices : \A b \in Hours : rows[d][b] # {} => daily[d][b] = {}
    <3>1. \A d \in Devices : daily[d][cursor] = {}
      BY <1>0, <2>2 DEF Whole, RunInv, Behind, None
    <3>2. QED
      BY <1>0, <2>3, <3>1 DEF Whole, AddsNothingTwice
  <2>5. \A d \in Devices : \A b \in Hours : \A t \in rows[d][b] :
          t \in staged[d][b] \/ t \in DayRow(d, b)
    BY <2>3
  <2>6. \/ staged' = NoRows /\ daily' = Flushed(daily, rows)
        \/ staged' = rows /\ daily' = daily
    BY <2>1 DEF Outcome
  <2>7. \A d \in Devices : \A b \in Hours :
          /\ daily[d][b] # {} => daily'[d][b] = daily[d][b]
          /\ daily'[d][b] \in {daily[d][b], rows[d][b]}
          /\ staged'[d][b] \in {{}, rows[d][b]}
    BY <2>3, <2>4, <2>6, <1>0, Typed, FlushFacts, NoRowsFacts
  <2>8. QED
    BY <1>0, <2>5, <2>7, DaysGrow
<1>3. QED
  BY <1>1, <1>2

LEMMA DaysDoneExact == ASSUME Whole, Exact, DaysDone PROVE Exact'
<1>0. /\ TypeOK /\ stage = "days" /\ stage' = "prune" /\ daily' = Flushed(daily, staged)
      /\ staged' = NoRows /\ UNCHANGED <<measured, taken, raw, hourly, accepted>>
  BY DEF Whole, DaysDone
<1>1. \A d \in Devices : \A b \in Hours : staged[d][b] # {} => daily[d][b] = {}
  BY <1>0 DEF Whole, AddsNothingTwice
<1>2. \A d \in Devices : \A b \in Hours :
        /\ daily[d][b] # {} => daily'[d][b] = daily[d][b]
        /\ daily'[d][b] \in {daily[d][b], staged[d][b]}
        /\ staged'[d][b] = {}
  BY <1>0, <1>1, Typed, FlushFacts, NoRowsFacts
<1>3. QED
  BY <1>0, <1>2, DaysGrow

LEMMA ExactNext == Whole /\ Exact /\ [Next]_vars => Exact'
<1> SUFFICES ASSUME Whole, Exact, [Next]_vars PROVE Exact'
  OBVIOUS
<1>1. QED
  BY QuietExact, StoreExact, StartFailExact, FoldHourExact, HoursDoneExact, FoldDayExact,
    DaysDoneExact, PruneExact, PurgesExact DEF Next

LEMMA ExactAlways == Spec => [](Whole /\ Exact)
<1>1. Init => Whole /\ Exact
  BY WholeInit, ExactInit
<1>2. Whole /\ Exact /\ [Next]_vars => (Whole /\ Exact)'
  BY WholeNext, ExactNext
<1>3. QED
  BY <1>1, <1>2, PTL DEF Spec

-----------------------------------------------------------------------------
(* Boundaries.                                                               *)

LEMMA MaxPair == \A a \in Int : \A b \in Int : Max({a, b}) = IF a >= b THEN a ELSE b
<1> SUFFICES ASSUME NEW a \in Int, NEW b \in Int PROVE Max({a, b}) = IF a >= b THEN a ELSE b
  OBVIOUS
<1>1. \E x \in {a, b} : \A y \in {a, b} : x >= y
  <2>1. CASE a >= b
    BY <2>1
  <2>2. CASE b >= a
    BY <2>2
  <2>3. QED
    BY <2>1, <2>2
<1>2. Max({a, b}) \in {a, b} /\ \A y \in {a, b} : Max({a, b}) >= y
  BY <1>1 DEF Max
<1>3. QED
  BY <1>2

LEMMA MinPair == \A a \in Int : \A b \in Int : Min({a, b}) = IF a <= b THEN a ELSE b
<1> SUFFICES ASSUME NEW a \in Int, NEW b \in Int PROVE Min({a, b}) = IF a <= b THEN a ELSE b
  OBVIOUS
<1>1. \E x \in {a, b} : \A y \in {a, b} : x <= y
  <2>1. CASE a <= b
    BY <2>1
  <2>2. CASE b <= a
    BY <2>2
  <2>3. QED
    BY <2>1, <2>2
<1>2. Min({a, b}) \in {a, b} /\ \A y \in {a, b} : Min({a, b}) <= y
  BY <1>1 DEF Min
<1>3. QED
  BY <1>2

Rollup == {"hour", "day"}

LEMMA TicksFacts ==
  /\ TicksIn("hour") = TicksPerHour /\ TicksIn("day") = TicksPerHour * HoursPerDay
  /\ \A tier \in Rollup : TicksIn(tier) \in Nat \ {0}
<1>1. TicksPerHour * HoursPerDay \in Nat \ {0}
  <2>1. TicksPerHour >= 1 /\ HoursPerDay >= 1 /\ TicksPerHour \in Nat /\ HoursPerDay \in Nat
    BY Scale
  <2>2. TicksPerHour * HoursPerDay >= TicksPerHour
    BY <2>1
  <2>3. QED
    BY <2>1, <2>2
<1>2. QED
  BY <1>1, Scale DEF TicksIn, Rollup

\* A bucket of k ticks is determined by a tick in it.
LEMMA SameBucket ==
  ASSUME NEW k \in Nat \ {0}, NEW a \in Int, NEW b \in Int, NEW t \in Int, NEW u \in Int,
         k * a <= t, t <= u, u < k * b + k
  PROVE  a <= b
<1>1. SUFFICES ASSUME b + 1 <= a PROVE FALSE
  OBVIOUS
<1>2. k * (b + 1) <= k * a /\ k * (b + 1) = k * b + k
  BY <1>1
<1>3. k * a \in Int /\ k * b \in Int
  OBVIOUS
<1>4. QED
  BY <1>2, <1>3

\* The start of the bucket a tick is in.
LEMMA FloorIs ==
  ASSUME NEW tier \in Rollup, NEW t \in Nat
  PROVE  /\ FloorTo(t, tier) = TicksIn(tier) * (t \div TicksIn(tier))
         /\ FloorTo(t, tier) \in Nat /\ FloorTo(t, tier) <= t
         /\ t < FloorTo(t, tier) + TicksIn(tier)
<1> DEFINE k == TicksIn(tier)
           q == t \div k
<1>1. k \in Nat \ {0}
  BY TicksFacts
<1> HIDE DEF k
<1>2. t % k = t - k * (t \div k)
  BY <1>1
<1>3. q \in Nat /\ k * q <= t /\ t < k * q + k
  BY <1>1, Quotient, QuotientOfNat
<1>4. FloorTo(t, tier) = k * q
  <2>1. FloorTo(t, tier) = t - (t % k)
    BY DEF FloorTo, k
  <2>2. k * q \in Int
    BY <1>1, <1>3
  <2>3. QED
    BY <2>1, <2>2, <1>2
<1>5. k * q \in Nat
  BY <1>1, <1>3
<1>6. QED
  BY <1>3, <1>4, <1>5 DEF k

\* It is the only multiple of the bucket's length within a bucket of the tick.
LEMMA FloorIsOnly ==
  ASSUME NEW tier \in Rollup, NEW t \in Nat, NEW a \in Int,
         TicksIn(tier) * a <= t, t < TicksIn(tier) * a + TicksIn(tier)
  PROVE  FloorTo(t, tier) = TicksIn(tier) * a
<1> DEFINE k == TicksIn(tier)
           q == t \div k
<1>1. k \in Nat \ {0}
  BY TicksFacts
<1>3. FloorTo(t, tier) = k * q
  BY FloorIs
<1>4. k * a <= t /\ t < k * a + k
  OBVIOUS
<1> HIDE DEF k
<1>2. q \in Int /\ k * q <= t /\ t < k * q + k
  BY <1>1, Quotient
<1> HIDE DEF q
<1>5. a <= q
  BY <1>1, <1>2, <1>4, SameBucket
<1>6. q <= a
  BY <1>1, <1>2, <1>4, SameBucket
<1>7. a = q
  BY <1>2, <1>5, <1>6
<1>8. QED
  BY <1>3, <1>7 DEF k

LEMMA FloorOfMultiple ==
  ASSUME NEW tier \in Rollup, NEW a \in Nat
  PROVE  TicksIn(tier) * a \in Nat /\ FloorTo(TicksIn(tier) * a, tier) = TicksIn(tier) * a
<1> DEFINE k == TicksIn(tier)
<1>1. k \in Nat \ {0}
  BY TicksFacts
<1>2. k * a \in Nat /\ k * a <= k * a /\ k * a < k * a + k
  BY <1>1
<1>3. QED
  BY <1>2, FloorIsOnly

\* Starts of buckets come in order.
LEMMA FloorGrows ==
  ASSUME NEW tier \in Rollup, NEW t \in Nat, NEW u \in Nat, t <= u
  PROVE  FloorTo(t, tier) <= FloorTo(u, tier)
<1> DEFINE k == TicksIn(tier)
           a == t \div k
           b == u \div k
<1>1. k \in Nat \ {0}
  BY TicksFacts
<1>2. a \in Int /\ b \in Int /\ a <= b
  BY <1>1, Quotient, QuotientGrows
<1>3. FloorTo(t, tier) = k * a /\ FloorTo(u, tier) = k * b
  BY FloorIs
<1> HIDE DEF k, a, b
<1>4. k * a <= k * b
  BY <1>1, <1>2
<1>5. QED
  BY <1>3, <1>4

LEMMA FloorStays ==
  ASSUME NEW tier \in Rollup, NEW t \in Nat
  PROVE  FloorTo(FloorTo(t, tier), tier) = FloorTo(t, tier)
<1>1. t \div TicksIn(tier) \in Nat
  BY TicksFacts, QuotientOfNat
<1>2. QED
  BY <1>1, FloorIs, FloorOfMultiple

\* What is a bucket's end is not passed by rounding up.
LEMMA CeilFacts ==
  ASSUME NEW tier \in Rollup, NEW t \in Nat
  PROVE  /\ CeilTo(t, tier) \in Nat /\ t <= CeilTo(t, tier)
         /\ FloorTo(CeilTo(t, tier), tier) = CeilTo(t, tier)
         /\ \A x \in Nat : FloorTo(x, tier) = x /\ t <= x => CeilTo(t, tier) <= x
<1> DEFINE k == TicksIn(tier)
           q == t \div k
<1>0. k \in Nat \ {0}
  BY TicksFacts
<1>1. q \in Nat /\ FloorTo(t, tier) = k * q /\ k * q \in Nat /\ k * q <= t /\ t < k * q + k
  BY <1>0, FloorIs, QuotientOfNat
<1>2. CASE FloorTo(t, tier) = t
  BY <1>2 DEF CeilTo
<1>3. CASE FloorTo(t, tier) # t
  <2>1. CeilTo(t, tier) = k * q + k
    BY <1>1, <1>3 DEF CeilTo
  <2>2. k * q + k = k * (q + 1) /\ q + 1 \in Nat
    BY <1>0, <1>1
  <2>3. FloorTo(CeilTo(t, tier), tier) = CeilTo(t, tier) /\ CeilTo(t, tier) \in Nat
    BY <2>1, <2>2, FloorOfMultiple
  <2>4. ASSUME NEW x \in Nat, FloorTo(x, tier) = x, t <= x PROVE k * q + k <= x
    <3> DEFINE b == x \div k
    <3>1. b \in Nat /\ x = k * b
      BY <1>0, <2>4, FloorIs, QuotientOfNat
    <3>2. t < k * b
      <4>1. x # t
        BY <2>4, <1>3
      <4>2. QED
        BY <3>1, <4>1, <2>4
    <3> HIDE DEF b, q, k
    <3>3. ~(b <= q)
      <4>1. SUFFICES ASSUME b <= q PROVE FALSE
        OBVIOUS
      <4>2. k * b <= k * q
        BY <4>1, <3>1, <1>0, <1>1
      <4>3. k * b \in Nat
        BY <3>1, <1>0
      <4>4. QED
        BY <4>2, <4>3, <3>2, <1>1
    <3>4. q + 1 <= b
      BY <3>1, <3>3, <1>1
    <3>5. k * (q + 1) <= k * b
      BY <3>1, <3>4, <1>0, <1>1
    <3>6. QED
      BY <2>2, <3>1, <3>5
  <2>5. QED
    BY <2>1, <2>3, <2>4, <1>0, <1>1
<1>4. QED
  BY <1>2, <1>3

\* A day begins with an hour.
LEMMA DayBeginsHour ==
  ASSUME NEW t \in Nat
  PROVE  /\ FloorTo(t, "day") = t => FloorTo(t, "hour") = t
         /\ FloorTo(t, "day") <= FloorTo(t, "hour")
         /\ FloorTo(FloorTo(t, "hour"), "day") = FloorTo(t, "day")
<1>0. "hour" \in Rollup /\ "day" \in Rollup
  BY DEF Rollup
<1>1. \A x \in Nat : FloorTo(x, "day") = x => FloorTo(x, "hour") = x
  <2>1. SUFFICES ASSUME NEW x \in Nat, FloorTo(x, "day") = x PROVE FloorTo(x, "hour") = x
    OBVIOUS
  <2> DEFINE q == x \div TicksIn("day")
  <2>2. q \in Nat /\ x = TicksIn("day") * q
    BY <2>1, <1>0, FloorIs, TicksFacts, QuotientOfNat
  <2> HIDE DEF q
  <2>3. x = TicksPerHour * (HoursPerDay * q) /\ HoursPerDay * q \in Nat
    BY <2>2, Scale, TicksFacts
  <2>4. QED
    BY <2>3, <1>0, FloorOfMultiple, TicksFacts
<1>2. FloorTo(t, "day") \in Nat /\ FloorTo(t, "day") <= t /\ FloorTo(t, "hour") \in Nat /\ FloorTo(t, "hour") <= t
  BY <1>0, FloorIs
<1>3. FloorTo(FloorTo(t, "day"), "hour") = FloorTo(t, "day")
  BY <1>0, <1>1, <1>2, FloorStays
<1>4. FloorTo(t, "day") <= FloorTo(t, "hour")
  BY <1>0, <1>2, <1>3, FloorGrows
<1>5. FloorTo(FloorTo(t, "hour"), "day") <= FloorTo(t, "day")
  BY <1>0, <1>2, FloorGrows
<1>6. FloorTo(FloorTo(t, "day"), "day") <= FloorTo(FloorTo(t, "hour"), "day")
  BY <1>0, <1>2, <1>4, FloorGrows
<1>7. FloorTo(FloorTo(t, "hour"), "day") \in Nat
  BY <1>0, <1>2, FloorIs
<1>8. QED
  BY <1>0, <1>1, <1>2, <1>4, <1>5, <1>6, <1>7, FloorStays

\* The starts of a measurement's hour and day.
LEMMA StartsAre ==
  ASSUME NEW t \in Nat
  PROVE  /\ FloorTo(t, "hour") = HourOf(t) * TicksPerHour
         /\ FloorTo(t, "day") = DayOf(HourOf(t)) * (TicksPerHour * HoursPerDay)
<1>0. "hour" \in Rollup /\ "day" \in Rollup
  BY DEF Rollup
<1> DEFINE p == TicksPerHour
           n == HoursPerDay
           h == HourOf(t)
           y == DayOf(h)
<1>1. p \in Nat \ {0} /\ n \in Nat \ {0}
  BY Scale
<1>2. h \in Nat /\ p * h <= t /\ t < p * h + p
  BY <1>1, Quotient, QuotientOfNat DEF HourOf
<1> HIDE DEF h
<1>3. y \in Nat /\ n * y <= h /\ h < n * y + n
  BY <1>1, <1>2, Quotient, QuotientOfNat DEF DayOf
<1> HIDE DEF p, n, y
<1>4. p * (n * y) <= p * h
  BY <1>1, <1>2, <1>3
<1>5. p * (h + 1) <= p * (n * y + n)
  <2>1. h + 1 <= n * y + n /\ n * y + n \in Int /\ h + 1 \in Int
    BY <1>1, <1>2, <1>3
  <2>2. QED
    BY <2>1, <1>1
<1>6. /\ p * (n * y) = (p * n) * y /\ p * (n * y + n) = (p * n) * y + p * n
      /\ p * (h + 1) = p * h + p
  BY <1>1, <1>2, <1>3
<1>7. (p * n) * y <= t /\ t < (p * n) * y + p * n
  <2>1. p * h \in Int /\ (p * n) * y \in Int /\ p * n \in Int
    BY <1>1, <1>2, <1>3
  <2>2. QED
    BY <2>1, <1>1, <1>2, <1>4, <1>5, <1>6
<1>8. FloorTo(t, "hour") = p * h
  BY <1>0, <1>2, FloorIsOnly, TicksFacts DEF p
<1>9. FloorTo(t, "day") = (p * n) * y
  BY <1>0, <1>3, <1>7, FloorIsOnly, TicksFacts DEF p, n
<1>10. p * h = h * p /\ (p * n) * y = y * (p * n)
  BY <1>1, <1>2, <1>3
<1>11. QED
  BY <1>8, <1>9, <1>10 DEF p, n, h, y

-----------------------------------------------------------------------------
(* What the tiers cover.                                                     *)

RawFrom == Coverages.raw.from
HourFrom == Coverages.hour.from
HourTo == Coverages.hour.to
DayFrom == Coverages.day.from
DayTo == Coverages.day.to

\* Beyond every tick, and every bucket.
LEMMA ForeverFacts ==
  /\ Forever \in Nat
  /\ \A t \in Ticks : \A tier \in Rollup : t < FloorTo(Forever, tier)
<1> DEFINE K == TicksIn("day")
<1>1. K \in Nat \ {0} /\ MaxClock \in Nat /\ Forever = MaxClock + 2 * K
  BY TicksFacts, Scale DEF Forever, Rollup
<1> HIDE DEF K
<1>2. Forever \in Nat
  BY <1>1
<1>3. /\ FloorTo(Forever, "day") \in Nat /\ Forever < FloorTo(Forever, "day") + K
      /\ FloorTo(Forever, "hour") \in Nat
      /\ FloorTo(Forever, "day") <= FloorTo(Forever, "hour")
  BY <1>2, FloorIs, DayBeginsHour DEF Rollup, K
<1>4. \A t \in Ticks : t \in Nat /\ t <= MaxClock
  BY <1>1 DEF Ticks
<1>5. \A t \in Ticks : t < FloorTo(Forever, "day") /\ t < FloorTo(Forever, "hour")
  BY <1>1, <1>3, <1>4
<1>6. QED
  BY <1>2, <1>5 DEF Rollup

\* From the start of a tier's first bucket to the end of its last.
LEMMA CoverageFacts ==
  ASSUME NEW tier \in Rollup, NEW B, B \subseteq Hours,
         NEW c, c = Coverage(tier, {b * TicksIn(tier) : b \in B})
  PROVE  /\ c.from \in Nat /\ c.to \in Nat /\ FloorTo(c.to, tier) = c.to
         /\ B = {} => c.from = Forever /\ c.to = 0
         /\ B # {} => /\ c.from < c.to
                      /\ \E b \in B : c.from = b * TicksIn(tier)
                      /\ \E b \in B : c.to = b * TicksIn(tier) + TicksIn(tier)
                      /\ \A b \in B : c.from <= b * TicksIn(tier) /\ b * TicksIn(tier) + TicksIn(tier) <= c.to
<1> DEFINE k == TicksIn(tier)
           S == {b * k : b \in B}
           N == HourOf(MaxClock) * k
<1>0. k \in Nat \ {0} /\ tier # "raw"
  BY TicksFacts DEF Rollup
<1>1. Hours = 0 .. HourOf(MaxClock) /\ HourOf(MaxClock) \in Nat
  BY HourRange DEF Hours
<1>2. c = Coverage(tier, S)
  OBVIOUS
<1> HIDE DEF k
<1>3. N \in Nat
  BY <1>0, <1>1
<1>4. \A b \in B : b \in Nat /\ b <= HourOf(MaxClock) /\ b * k \in Nat /\ b * k <= N
  <2>1. SUFFICES ASSUME NEW b \in B
                 PROVE  b \in Nat /\ b <= HourOf(MaxClock) /\ b * k \in Nat /\ b * k <= N
    OBVIOUS
  <2>2. b \in Nat /\ b <= HourOf(MaxClock)
    BY <1>1
  <2>3. QED
    BY <2>2, <1>0, <1>1
<1> HIDE DEF N
<1>5. S \subseteq 0 .. N /\ S \subseteq Nat
  BY <1>3, <1>4
<1>6. CASE B = {}
  <2>1. S = {}
    BY <1>6
  <2>2. c.from = Forever /\ c.to = 0
    BY <1>2, <2>1 DEF Coverage
  <2>3. FloorTo(0, tier) = 0
    BY FloorIs
  <2>4. QED
    BY <1>6, <2>2, <2>3, ForeverFacts
<1>7. CASE B # {}
  <2>1. S # {}
    BY <1>7
  <2>2. c.from = Min(S) /\ c.to = Max(S) + k
    BY <1>0, <1>2, <2>1 DEF Coverage, k
  <2>3. Min(S) \in S /\ \A y \in S : Min(S) <= y
    BY <1>5, <2>1, MinFacts
  <2>4. Max(S) \in S /\ \A y \in S : y <= Max(S)
    BY <1>3, <1>5, <2>1, MaxFacts
  <2>5. PICK b0 \in B : Min(S) = b0 * k
    BY <2>3
  <2>6. PICK b1 \in B : Max(S) = b1 * k
    BY <2>4
  <2>7. b1 + 1 \in Nat /\ b1 * k + k = k * (b1 + 1)
    BY <1>0, <1>4
  <2>8. FloorTo(b1 * k + k, tier) = b1 * k + k
    BY <2>7, FloorOfMultiple DEF k
  <2>9. \A b \in B : Min(S) <= b * k /\ b * k <= Max(S)
    BY <2>3, <2>4
  <2>10. \A b \in B : c.from <= b * k /\ b * k + k <= c.to
    BY <1>0, <1>4, <2>2, <2>5, <2>6, <2>9
  <2>11. c.from \in Nat /\ c.to \in Nat /\ c.from < c.to
    BY <1>0, <1>4, <2>2, <2>5, <2>6, <2>9
  <2>12. QED
    BY <1>7, <2>2, <2>5, <2>6, <2>8, <2>10, <2>11 DEF k
<1>8. QED
  BY <1>6, <1>7

LEMMA HourCoverage ==
  /\ HourFrom \in Nat /\ HourTo \in Nat /\ FloorTo(HourTo, "hour") = HourTo
  /\ Rolled(hourly) = {} => HourFrom = Forever /\ HourTo = 0
  /\ Rolled(hourly) # {} =>
       /\ HourFrom < HourTo
       /\ \E h \in Rolled(hourly) : HourFrom = h * TicksIn("hour")
       /\ \E h \in Rolled(hourly) : HourTo = h * TicksIn("hour") + TicksIn("hour")
  /\ \A h \in Rolled(hourly) : HourFrom <= h * TicksIn("hour") /\ h * TicksIn("hour") + TicksIn("hour") <= HourTo
<1> DEFINE c == Coverage("hour", {h * TicksIn("hour") : h \in Rolled(hourly)})
<1>1. HourFrom = c.from /\ HourTo = c.to
  BY DEF HourFrom, HourTo, Coverages
<1>2. Rolled(hourly) \subseteq Hours /\ "hour" \in Rollup
  BY DEF Rolled, Rollup
<1> HIDE DEF c
<1>3. QED
  BY <1>1, <1>2, CoverageFacts DEF c

LEMMA DayCoverage ==
  /\ DayFrom \in Nat /\ DayTo \in Nat /\ FloorTo(DayTo, "day") = DayTo
  /\ Rolled(daily) = {} => DayFrom = Forever /\ DayTo = 0
  /\ Rolled(daily) # {} =>
       /\ DayFrom < DayTo
       /\ \E y \in Rolled(daily) : DayTo = y * TicksIn("day") + TicksIn("day")
  /\ \A y \in Rolled(daily) : DayFrom <= y * TicksIn("day") /\ y * TicksIn("day") + TicksIn("day") <= DayTo
<1> DEFINE c == Coverage("day", {y * TicksIn("day") : y \in Rolled(daily)})
<1>1. DayFrom = c.from /\ DayTo = c.to
  BY DEF DayFrom, DayTo, Coverages
<1>2. Rolled(daily) \subseteq Hours /\ "day" \in Rollup
  BY DEF Rolled, Rollup
<1> HIDE DEF c
<1>3. QED
  BY <1>1, <1>2, CoverageFacts DEF c

LEMMA RawCoverage ==
  ASSUME TypeOK
  PROVE  /\ RawFrom \in Nat
         /\ raw = {} => RawFrom = Forever
         /\ raw # {} => \E r \in raw : RawFrom = r[2]
         /\ \A r \in raw : RawFrom <= r[2]
<1> DEFINE S == {s[2] : s \in raw}
<1>1. RawFrom = IF S = {} THEN Forever ELSE Min(S)
  BY DEF RawFrom, Coverages, Coverage
<1>2. S \subseteq Nat
  BY Typed, SampleFacts
<1>3. S # {} => Min(S) \in S /\ \A y \in S : Min(S) <= y
  BY <1>2, MinFacts
<1>4. CASE raw = {}
  BY <1>1, <1>4, ForeverFacts
<1>5. CASE raw # {}
  <2>1. S # {} /\ \A r \in raw : r[2] \in S
    BY <1>5
  <2>2. QED
    BY <1>1, <1>2, <1>3, <1>5, <2>1
<1>6. QED
  BY <1>4, <1>5

\* The starts of a measurement's hour and day.
Hour0(s) == FloorTo(s[2], "hour")
Day0(s) == FloorTo(s[2], "day")

LEMMA StartsOf ==
  ASSUME NEW s \in Sample
  PROVE  /\ s[2] \in Nat /\ s[2] \in Ticks
         /\ Hour0(s) \in Nat /\ Hour0(s) <= s[2] /\ s[2] < Hour0(s) + TicksIn("hour")
         /\ Day0(s) \in Nat /\ Day0(s) <= Hour0(s) /\ s[2] < Day0(s) + TicksIn("day")
         /\ Hour0(s) = Hr(s) * TicksIn("hour") /\ Day0(s) = Dy(s) * TicksIn("day")
         /\ FloorTo(Hour0(s), "day") = Day0(s)
<1>1. s[2] \in Ticks /\ s[2] \in Nat
  BY SampleFacts, Scale DEF Ticks
<1>2. QED
  BY <1>1, FloorIs, DayBeginsHour, StartsAre, TicksFacts DEF Hour0, Day0, Hr, Dy, Rollup

\* The later the bucket, the later its start.
LEMMA LaterBucket ==
  ASSUME NEW s \in Sample, NEW r \in Sample
  PROVE  /\ Hr(s) < Hr(r) => s[2] < Hour0(r)
         /\ Dy(s) < Dy(r) => s[2] < Day0(r)
         /\ Hr(s) <= Hr(r) <=> Hour0(s) <= Hour0(r)
<1> DEFINE p == TicksIn("hour")
           k == TicksIn("day")
           a == Hr(s)
           b == Hr(r)
           x == Dy(s)
           y == Dy(r)
<1>1. p \in Nat \ {0} /\ k \in Nat \ {0}
  BY TicksFacts DEF Rollup
<1>2. a \in Nat /\ b \in Nat /\ x \in Nat /\ y \in Nat
  BY SampleFacts
<1>3. /\ s[2] < a * p + p /\ Hour0(r) = b * p /\ Hour0(s) = a * p
      /\ s[2] < x * k + k /\ Day0(r) = y * k /\ s[2] \in Nat
  BY StartsOf
<1> HIDE DEF p, k, a, b, x, y
<1>4. a < b => s[2] < Hour0(r)
  <2>1. SUFFICES ASSUME a + 1 <= b PROVE s[2] < b * p
    BY <1>2, <1>3
  <2>2. (a + 1) * p <= b * p /\ (a + 1) * p = a * p + p
    BY <1>1, <1>2, <2>1
  <2>3. a * p \in Nat /\ b * p \in Nat
    BY <1>1, <1>2
  <2>4. QED
    BY <1>1, <1>3, <2>2, <2>3
<1>5. x < y => s[2] < Day0(r)
  <2>1. SUFFICES ASSUME x + 1 <= y PROVE s[2] < y * k
    BY <1>2, <1>3
  <2>2. (x + 1) * k <= y * k /\ (x + 1) * k = x * k + k
    BY <1>1, <1>2, <2>1
  <2>3. x * k \in Nat /\ y * k \in Nat
    BY <1>1, <1>2
  <2>4. QED
    BY <1>1, <1>3, <2>2, <2>3
<1>6. a <= b => Hour0(s) <= Hour0(r)
  BY <1>1, <1>2, <1>3
<1>7. b < a => Hour0(r) < Hour0(s)
  <2>1. SUFFICES ASSUME b + 1 <= a PROVE b * p < a * p
    BY <1>2, <1>3
  <2>2. (b + 1) * p <= a * p /\ (b + 1) * p = b * p + p
    BY <1>1, <1>2, <2>1
  <2>3. a * p \in Nat /\ b * p \in Nat
    BY <1>1, <1>2
  <2>4. QED
    BY <1>1, <2>2, <2>3
<1>8. a * p \in Nat /\ b * p \in Nat
  BY <1>1, <1>2
<1>9. a <= b <=> Hour0(s) <= Hour0(r)
  BY <1>2, <1>3, <1>6, <1>7, <1>8
<1>10. QED
  BY <1>4, <1>5, <1>9 DEF a, b, x, y

\* A measurement is within what the tiers that have it cover.
LEMMA WithinCoverage ==
  ASSUME TypeOK, NEW s \in Sample
  PROVE  /\ InHour(s) => HourFrom <= Hour0(s) /\ s[2] < HourTo
         /\ InDay(s) => DayFrom <= Day0(s) /\ s[2] < DayTo
         /\ s \in raw => RawFrom <= s[2]
<1>1. s[1] \in Devices /\ Hr(s) \in Hours /\ Dy(s) \in Hours
  BY SampleFacts
<1>2. ASSUME InHour(s) PROVE HourFrom <= Hour0(s) /\ s[2] < HourTo
  <2>1. Hr(s) \in Rolled(hourly)
    BY <1>1, <1>2 DEF Rolled, InHour, Hr
  <2>2. HourFrom <= Hour0(s) /\ Hour0(s) + TicksIn("hour") <= HourTo
    BY <2>1, HourCoverage, StartsOf
  <2>3. QED
    BY <2>2, StartsOf, HourCoverage, TicksFacts DEF Rollup
<1>3. ASSUME InDay(s) PROVE DayFrom <= Day0(s) /\ s[2] < DayTo
  <2>1. Dy(s) \in Rolled(daily)
    BY <1>1, <1>3 DEF Rolled, InDay, Dy
  <2>2. DayFrom <= Day0(s) /\ Day0(s) + TicksIn("day") <= DayTo
    BY <2>1, DayCoverage, StartsOf
  <2>3. QED
    BY <2>2, StartsOf, DayCoverage, TicksFacts DEF Rollup
<1>4. QED
  BY <1>2, <1>3, RawCoverage

\* Up to its last bucket a tier has every measurement, or a coarser one does.
LEMMA CoveredIsFolded ==
  ASSUME Whole, NEW s \in accepted
  PROVE  /\ s[2] < HourTo => Folded(s)
         /\ s[2] < DayTo => InDay(s)
<1>1. s \in Sample /\ Sound(s)
  BY Typed DEF Whole
<1>2. s[2] \in Nat /\ Hr(s) \in Nat /\ Dy(s) \in Nat
  BY <1>1, SampleFacts, StartsOf
<1>3. TicksIn("hour") \in Nat \ {0} /\ TicksIn("day") \in Nat \ {0}
  BY TicksFacts DEF Rollup
<1>4. ASSUME s[2] < HourTo PROVE Folded(s)
  <2>1. Rolled(hourly) # {}
    BY <1>2, <1>4, HourCoverage
  <2>2. PICK h \in Rolled(hourly) : HourTo = h * TicksIn("hour") + TicksIn("hour")
    BY <2>1, HourCoverage
  <2>3. h \in Hours /\ \E d \in Devices : hourly[d][h] # {}
    BY DEF Rolled
  <2>4. h \in Nat
    BY <2>3, HourRange
  <2>5. TicksIn("hour") * Hr(s) <= s[2]
    BY <1>1, <1>2, <1>3, StartsOf
  <2>6. s[2] < TicksIn("hour") * h + TicksIn("hour")
    BY <1>3, <1>4, <2>2, <2>4
  <2>7. Hr(s) <= h
    BY <1>2, <1>3, <2>4, <2>5, <2>6, SameBucket
  <2>8. QED
    BY <2>3, <2>7, <1>1 DEF Sound, HourFrontier
<1>5. ASSUME s[2] < DayTo PROVE InDay(s)
  <2>1. Rolled(daily) # {}
    BY <1>2, <1>5, DayCoverage
  <2>2. PICK y \in Rolled(daily) : DayTo = y * TicksIn("day") + TicksIn("day")
    BY <2>1, DayCoverage
  <2>3. y \in Hours /\ \E d \in Devices : daily[d][y] # {}
    BY DEF Rolled
  <2>4. y \in Nat
    BY <2>3, HourRange
  <2>5. TicksIn("day") * Dy(s) <= s[2]
    BY <1>1, <1>2, <1>3, StartsOf
  <2>6. s[2] < TicksIn("day") * y + TicksIn("day")
    BY <1>3, <1>5, <2>2, <2>4
  <2>7. Dy(s) <= y
    BY <1>2, <1>3, <2>4, <2>5, <2>6, SameBucket
  <2>8. QED
    BY <2>3, <2>7, <1>1 DEF Sound, DayFrontier
<1>6. QED
  BY <1>4, <1>5

\* What a tier has lost is older than everything it still has.
LEMMA GoneIsOlder ==
  ASSUME Whole, Exact, AllInTime, NEW s \in accepted
  PROVE  /\ s \notin raw => s[2] < FloorTo(RawFrom, "hour")
         /\ InDay(s) /\ ~InHour(s) =>
              s[2] < FloorTo(HourFrom, "day") /\ s[2] < FloorTo(RawFrom, "day")
<1>0. TypeOK /\ s \in Sample /\ s[2] \in Ticks
  BY Typed, SampleFacts DEF Whole
<1>1. \A r \in raw : r \in accepted /\ r \in Sample
  BY <1>0, Typed DEF AllInTime
<1>2. ASSUME s \notin raw PROVE s[2] < FloorTo(RawFrom, "hour")
  <2>1. CASE raw = {}
    BY <2>1, <1>0, RawCoverage, ForeverFacts DEF Rollup
  <2>2. CASE raw # {}
    <3>1. PICK r \in raw : RawFrom = r[2]
      BY <2>2, <1>0, RawCoverage
    <3>2. Hr(s) < Hr(r)
      BY <1>1, <1>2 DEF Exact, Aged
    <3>3. QED
      BY <3>1, <3>2, <1>0, <1>1, LaterBucket DEF Hour0
  <2>3. QED
    BY <2>1, <2>2
<1>3. ASSUME InDay(s), ~InHour(s) PROVE s[2] < FloorTo(RawFrom, "day")
  <2>1. CASE raw = {}
    BY <2>1, <1>0, RawCoverage, ForeverFacts DEF Rollup
  <2>2. CASE raw # {}
    <3>1. PICK r \in raw : RawFrom = r[2]
      BY <2>2, <1>0, RawCoverage
    <3>2. Dy(s) < Dy(r)
      BY <1>1, <1>3 DEF Exact, Aged
    <3>3. QED
      BY <3>1, <3>2, <1>0, <1>1, LaterBucket DEF Day0
  <2>3. QED
    BY <2>1, <2>2
<1>4. ASSUME InDay(s), ~InHour(s) PROVE s[2] < FloorTo(HourFrom, "day")
  <2>1. CASE Rolled(hourly) = {}
    BY <2>1, <1>0, HourCoverage, ForeverFacts DEF Rollup
  <2>2. CASE Rolled(hourly) # {}
    <3>1. PICK h \in Rolled(hourly) : HourFrom = h * TicksIn("hour")
      BY <2>2, HourCoverage
    <3>2. PICK d \in Devices, t \in Ticks : h \in Hours /\ t \in hourly[d][h]
      BY <1>0, Typed DEF Rolled, Rows
    <3> DEFINE r == <<d, t>>
    <3>3. r \in accepted /\ r \in Sample
      BY <3>2, <1>0, Typed DEF AllInTime
    <3>4. Hr(r) = h /\ InHour(r)
      BY <3>2 DEF Exact, Contents, Hr, InHour
    <3>5. Dy(s) < Dy(r)
      BY <1>4, <3>3, <3>4 DEF Exact, Aged
    <3>6. s[2] < Day0(r)
      BY <1>0, <3>3, <3>5, LaterBucket
    <3>7. HourFrom = Hour0(r)
      BY <3>1, <3>3, <3>4, StartsOf
    <3>8. QED
      BY <3>3, <3>6, <3>7, StartsOf
  <2>3. QED
    BY <2>1, <2>2
<1>5. QED
  BY <1>2, <1>3, <1>4

-----------------------------------------------------------------------------
(* The segments of a query.                                                  *)

LEMMA OldestIs ==
  ASSUME NEW all, NEW h \in all, h.from \in Int,
         \A r \in all : r # h => r.from \in Int /\ h.from < r.from
  PROVE  (CHOOSE s \in all : \A r \in all : s.from <= r.from) = h
<1>1. \A r \in all : h.from <= r.from
  OBVIOUS
<1>2. \A s \in all : (\A r \in all : s.from <= r.from) => s = h
  OBVIOUS
<1>3. QED
  BY <1>1, <1>2

\* The preferred tier, the finer ones after it, and the raw rows to the end.
LEMMA FineShape ==
  ASSUME NEW w \in Nat, TypeOK
  PROVE  LET fine == Fine(w, Coverages)
             after == Segment("raw", HourTo, Forever)
         IN  \/ /\ w < DayTo /\ fine.head = Segment("day", w, DayTo)
                /\ \/ DayTo < HourTo /\ fine.rest = {Segment("hour", DayTo, HourTo), after}
                   \/ HourTo <= DayTo /\ fine.rest = {Segment("raw", DayTo, Forever)}
             \/ /\ Preferred(w) # "raw" /\ w < HourTo
                /\ fine.head = Segment("hour", w, HourTo) /\ fine.rest = {after}
                /\ fine.earliest = Max({w, HourFrom})
             \/ /\ Preferred(w) = "raw" \/ HourTo <= w
                /\ fine.head = Segment("raw", w, Forever) /\ fine.rest = {}
                /\ fine.earliest = Max({w, RawFrom})
<1> DEFINE cov == Coverages
           preferred == Preferred(w)
           days == IF preferred = "day" THEN Max({w, DayTo}) ELSE w
           hours == IF preferred = "raw" THEN w ELSE Max({days, HourTo})
           d == Segment("day", w, days)
           h == Segment("hour", days, hours)
           r == Segment("raw", hours, Forever)
           all == {s \in {d, h} : s.from < s.to} \cup {r}
           head == CHOOSE s \in all : \A x \in all : s.from <= x.from
           fine == Fine(w, Coverages)
<1>1. /\ fine.head = head /\ fine.rest = all \ {head}
      /\ fine.earliest = Max({w, cov[head.tier].from})
  BY DEF Fine, Plan, DayTo, HourTo
<1>2. /\ d.tier = "day" /\ d.from = w /\ d.to = days
      /\ h.tier = "hour" /\ h.from = days /\ h.to = hours
      /\ r.tier = "raw" /\ r.from = hours
  BY DEF Segment
<1>3. d # h /\ d # r /\ h # r
  BY <1>2
<1>4. /\ cov["raw"].from = RawFrom /\ cov["hour"].from = HourFrom /\ cov["day"].from = DayFrom
  BY DEF Coverages, RawFrom, HourFrom, DayFrom
<1>5. /\ DayTo \in Nat /\ HourTo \in Nat
  BY DayCoverage, HourCoverage
<1>6. /\ days \in Nat /\ hours \in Nat /\ w <= days /\ days <= hours
      /\ preferred # "day" => days = w
      /\ preferred = "day" => days = IF w >= DayTo THEN w ELSE DayTo
      /\ preferred = "raw" => hours = w
      /\ preferred # "raw" => hours = IF days >= HourTo THEN days ELSE HourTo
  <2>1. Max({w, DayTo}) = IF w >= DayTo THEN w ELSE DayTo
    BY <1>5, MaxPair
  <2>2. /\ days \in Nat /\ w <= days
        /\ preferred # "day" => days = w
        /\ preferred = "day" => days = IF w >= DayTo THEN w ELSE DayTo
    BY <2>1, <1>5
  <2> HIDE DEF days
  <2>3. Max({days, HourTo}) = IF days >= HourTo THEN days ELSE HourTo
    BY <2>2, <1>5, MaxPair
  <2>4. preferred = "raw" => days = w
    BY <2>2
  <2>5. QED
    BY <2>2, <2>3, <2>4, <1>5
<1> HIDE DEF d, h, r, fine, days, hours, cov, preferred
<1>7. CASE w < days
  <2>1. d \in all /\ \A x \in all : x # d => x.from \in Int /\ d.from < x.from
    BY <1>2, <1>6, <1>7
  <2>2. head = d
    BY <2>1, <1>2, OldestIs
  <2>3. all \ {head} = IF days < hours THEN {h, r} ELSE {r}
    BY <2>2, <1>2, <1>3, <1>7
  <2>4. preferred = "day" /\ days = DayTo /\ w < DayTo
    BY <1>5, <1>6, <1>7
  <2>5. /\ days < hours <=> DayTo < HourTo
        /\ days < hours => hours = HourTo
        /\ ~(days < hours) => hours = DayTo /\ HourTo <= DayTo
    BY <2>4, <1>5, <1>6
  <2> HIDE DEF all, head
  <2>6. fine.head = Segment("day", w, DayTo)
    BY <1>1, <2>2, <2>4 DEF d
  <2>7. CASE days < hours
    <3>1. fine.rest = {Segment("hour", DayTo, HourTo), Segment("raw", HourTo, Forever)}
      BY <1>1, <2>3, <2>4, <2>5, <2>7 DEF h, r
    <3>2. QED
      BY <2>4, <2>5, <2>6, <2>7, <3>1 DEF fine
  <2>8. CASE ~(days < hours)
    <3>1. fine.rest = {Segment("raw", DayTo, Forever)}
      BY <1>1, <2>3, <2>4, <2>5, <2>8 DEF r
    <3>2. QED
      BY <2>4, <2>5, <2>6, <2>8, <3>1 DEF fine
  <2>9. QED
    BY <2>7, <2>8
<1>8. CASE days = w /\ w < hours
  <2>1. h \in all /\ \A x \in all : x # h => x.from \in Int /\ h.from < x.from
    BY <1>2, <1>6, <1>8
  <2>2. head = h
    BY <2>1, <1>2, <1>6, OldestIs
  <2>3. all \ {head} = {r}
    BY <2>2, <1>2, <1>3, <1>6, <1>8
  <2>4. preferred # "raw" /\ hours = HourTo /\ w < HourTo
    BY <1>5, <1>6, <1>8
  <2> HIDE DEF all, head
  <2>5. fine.head = Segment("hour", w, HourTo) /\ fine.rest = {Segment("raw", HourTo, Forever)}
    BY <1>1, <1>8, <2>2, <2>3, <2>4 DEF h, r
  <2>6. fine.earliest = Max({w, HourFrom})
    BY <1>1, <1>2, <1>4, <2>2
  <2>7. QED
    BY <2>4, <2>5, <2>6 DEF fine, preferred
<1>9. CASE days = w /\ hours = w
  <2>1. all = {r}
    BY <1>2, <1>6, <1>9
  <2>2. head = r
    BY <2>1
  <2>3. all \ {head} = {}
    BY <2>1, <2>2
  <2>4. preferred = "raw" \/ HourTo <= w
    BY <1>5, <1>6, <1>9
  <2> HIDE DEF all, head
  <2>5. fine.head = Segment("raw", w, Forever) /\ fine.rest = {}
    BY <1>1, <1>9, <2>2, <2>3 DEF r
  <2>6. fine.earliest = Max({w, RawFrom})
    BY <1>1, <1>2, <1>4, <2>2
  <2>7. QED
    BY <2>4, <2>5, <2>6 DEF fine, preferred
<1>10. QED
  BY <1>6, <1>7, <1>8, <1>9

\* A tier from `from' to `to' adds nothing to what begins at e ...
Stays(w, e, tier, from, to) ==
  \A x \in Nat : w <= x /\ x < FloorTo(e, tier) /\ x < to => x < from

\* ... or it serves the window up to `end', and what begins at e from m on.
Fills(w, e, tier, from, to, end, m) ==
  /\ end \in Nat /\ m \in {w, end} /\ w <= m /\ end <= m
  /\ FloorTo(end, tier) = end /\ end <= to /\ (e <= end \/ to <= end)
  /\ w < e /\ from < FloorTo(e, tier) /\ from < to

\* What the filling of a plan comes to.
FillsOrStays(w, tier, c, e, plan, ht, hto, rest) ==
  \/ Filled(plan, tier, w, c) = plan /\ Stays(w, e, tier, c.from, c.to)
  \/ \E end \in Nat, m \in Nat :
       /\ Fills(w, e, tier, c.from, c.to, end, m)
       /\ Filled(plan, tier, w, c) =
            Plan(Segment(tier, w, end), rest \cup {Segment(ht, m, hto)}, Max({w, c.from}))

LEMMA FillShape ==
  ASSUME NEW w \in Nat, NEW tier \in Rollup, NEW c, c.from \in Nat, c.to \in Nat,
         FloorTo(c.to, tier) = c.to, NEW e \in Nat, NEW ht, NEW hto, NEW rest, NEW plan,
         plan = Plan(Segment(ht, w, hto), rest, Max({w, e}))
  PROVE  FillsOrStays(w, tier, c, e, plan, ht, hto, rest)
<1> DEFINE begins == plan.earliest
           until == c.to
           edge == Min({begins, until})
           end == CeilTo(edge, tier)
           m == Max({w, end})
<1>1. /\ plan.head = Segment(ht, w, hto) /\ plan.rest = rest
      /\ begins = IF w >= e THEN w ELSE e
  BY MaxPair DEF Plan
<1>2. Segment(ht, m, hto) = [plan.head EXCEPT !.from = Max({@, end})]
  BY <1>1 DEF Segment
<1>3. Filled(plan, tier, w, c) =
        IF begins <= w \/ c.from >= FloorTo(edge, tier) THEN plan
        ELSE Plan(Segment(tier, w, end), rest \cup {Segment(ht, m, hto)}, Max({w, c.from}))
  BY <1>1, <1>2 DEF Filled
<1>4. begins \in Nat /\ until \in Nat /\ FloorTo(until, tier) = until /\ until = c.to
  BY <1>1
<1> HIDE DEF begins, until
<1>5. edge = IF begins <= until THEN begins ELSE until
  BY <1>4, MinPair
<1> HIDE DEF edge
<1>6. edge \in Nat /\ FloorTo(edge, tier) \in Nat /\ FloorTo(edge, tier) <= edge
  BY <1>4, <1>5, FloorIs
<1>7. CASE begins <= w
  <2>1. e <= w /\ FloorTo(e, tier) <= e /\ FloorTo(e, tier) \in Nat
    BY <1>1, <1>7, FloorIs
  <2>2. Stays(w, e, tier, c.from, c.to)
    BY <2>1 DEF Stays
  <2>3. QED
    BY <1>3, <1>7, <2>2 DEF FillsOrStays
<1>8. CASE ~(begins <= w) /\ c.from >= FloorTo(edge, tier)
  <2>1. begins = e /\ (edge = e \/ FloorTo(edge, tier) = c.to)
    BY <1>1, <1>4, <1>5, <1>8
  <2>2. ASSUME NEW x \in Nat, x < FloorTo(e, tier), x < c.to PROVE x < c.from
    BY <2>1, <2>2, <1>6, <1>8
  <2>3. Stays(w, e, tier, c.from, c.to)
    BY <2>2 DEF Stays
  <2>4. QED
    BY <1>3, <1>8, <2>3 DEF FillsOrStays
<1>9. CASE ~(begins <= w) /\ ~(c.from >= FloorTo(edge, tier))
  <2>1. w < e /\ begins = e /\ edge <= e /\ edge <= c.to /\ edge \in {e, c.to}
    BY <1>1, <1>4, <1>5, <1>9
  <2>2. /\ end \in Nat /\ edge <= end /\ FloorTo(end, tier) = end /\ end <= c.to
    BY <1>4, <1>6, <2>1, CeilFacts
  <2>3. c.from < FloorTo(edge, tier) /\ FloorTo(edge, tier) <= FloorTo(e, tier)
    BY <1>6, <1>9, <2>1, FloorGrows
  <2>4. FloorTo(e, tier) \in Nat
    BY FloorIs
  <2> HIDE DEF end
  <2>5. m = IF w >= end THEN w ELSE end
    BY <2>2, MaxPair
  <2> HIDE DEF m
  <2>6. m \in Nat /\ m \in {w, end} /\ w <= m /\ end <= m
    BY <2>2, <2>5
  <2>7. c.from < FloorTo(e, tier) /\ c.from < c.to /\ (e <= end \/ c.to <= end)
    BY <1>6, <2>1, <2>2, <2>3, <2>4
  <2>8. Fills(w, e, tier, c.from, c.to, end, m)
    BY <2>1, <2>2, <2>6, <2>7 DEF Fills
  <2>9. QED
    BY <1>3, <1>9, <2>2, <2>6, <2>8 DEF FillsOrStays
<1>10. QED
  BY <1>7, <1>8, <1>9

\* What the segments of a window may be.
ByDays(w, segs) ==
  /\ w < DayTo
  /\ \/ /\ DayTo < HourTo
        /\ segs = {Segment("day", w, DayTo), Segment("hour", DayTo, HourTo),
                   Segment("raw", HourTo, Forever)}
     \/ /\ HourTo <= DayTo
        /\ segs = {Segment("day", w, DayTo), Segment("raw", DayTo, Forever)}
ByHours(w, segs) ==
  /\ w < HourTo
  /\ \/ /\ Stays(w, HourFrom, "day", DayFrom, DayTo)
        /\ segs = {Segment("hour", w, HourTo), Segment("raw", HourTo, Forever)}
     \/ \E end \in Nat, m \in Nat :
          /\ Fills(w, HourFrom, "day", DayFrom, DayTo, end, m)
          /\ segs = {Segment("day", w, end), Segment("hour", m, HourTo),
                     Segment("raw", HourTo, Forever)}
ByRaw(w, segs) ==
  /\ Stays(w, RawFrom, "hour", HourFrom, HourTo)
  /\ \/ /\ Stays(w, RawFrom, "day", DayFrom, DayTo)
        /\ segs = {Segment("raw", w, Forever)}
     \/ \E end \in Nat, m \in Nat :
          /\ Fills(w, RawFrom, "day", DayFrom, DayTo, end, m)
          /\ segs = {Segment("day", w, end), Segment("raw", m, Forever)}
ByRawAndHours(w, segs) ==
  \E until \in Nat, after \in Nat :
    /\ Fills(w, RawFrom, "hour", HourFrom, HourTo, until, after)
    /\ \/ /\ Stays(w, HourFrom, "day", DayFrom, DayTo)
          /\ segs = {Segment("hour", w, until), Segment("raw", after, Forever)}
       \/ \E end \in Nat, m \in Nat :
            /\ Fills(w, HourFrom, "day", DayFrom, DayTo, end, m) /\ Preferred(w) = "raw"
            /\ segs = {Segment("day", w, end), Segment("hour", m, until),
                       Segment("raw", after, Forever)}

LEMMA Shapes ==
  ASSUME NEW w \in Nat, TypeOK, NEW segs, segs = Segments(w, Coverages)
  PROVE  ByDays(w, segs) \/ ByHours(w, segs) \/ ByRaw(w, segs) \/ ByRawAndHours(w, segs)
<1> DEFINE fine == Fine(w, Coverages)
           hours == IF fine.head.tier = "raw" THEN Filled(fine, "hour", w, Coverages.hour) ELSE fine
           days == IF fine.head.tier \in {"raw", "hour"} THEN Filled(hours, "day", w, Coverages.day)
                   ELSE hours
<1>1. segs = days.rest \cup {days.head}
  BY DEF Segments
<1>2. /\ Coverages.hour.from = HourFrom /\ Coverages.hour.to = HourTo
      /\ Coverages.day.from = DayFrom /\ Coverages.day.to = DayTo
  BY DEF HourFrom, HourTo, DayFrom, DayTo
<1>3. /\ HourFrom \in Nat /\ HourTo \in Nat /\ FloorTo(HourTo, "hour") = HourTo
      /\ DayFrom \in Nat /\ DayTo \in Nat /\ FloorTo(DayTo, "day") = DayTo
      /\ RawFrom \in Nat /\ "hour" \in Rollup /\ "day" \in Rollup
  BY HourCoverage, DayCoverage, RawCoverage DEF Rollup
<1>11. /\ Coverages.hour.from \in Nat /\ Coverages.hour.to \in Nat
       /\ FloorTo(Coverages.hour.to, "hour") = Coverages.hour.to
       /\ Coverages.day.from \in Nat /\ Coverages.day.to \in Nat
       /\ FloorTo(Coverages.day.to, "day") = Coverages.day.to
  BY <1>2, <1>3
<1>4. fine = Plan(fine.head, fine.rest, fine.earliest)
  BY DEF Fine, Plan
<1>5. \A tier, from, to : Segment(tier, from, to).tier = tier
  BY DEF Segment
<1>6. \A h, r, e : Plan(h, r, e).head = h /\ Plan(h, r, e).rest = r
  BY DEF Plan
<1> HIDE DEF fine
<1>7. CASE w < DayTo /\ fine.head = Segment("day", w, DayTo)
           /\ \/ DayTo < HourTo /\ fine.rest = {Segment("hour", DayTo, HourTo), Segment("raw", HourTo, Forever)}
              \/ HourTo <= DayTo /\ fine.rest = {Segment("raw", DayTo, Forever)}
  <2>1. fine.head.tier = "day"
    BY <1>5, <1>7
  <2>2. days = fine
    BY <2>1
  <2>3. ByDays(w, segs)
    BY <1>1, <1>7, <2>2 DEF ByDays
  <2>4. QED
    BY <2>3
<1>8. CASE /\ w < HourTo
           /\ fine.head = Segment("hour", w, HourTo) /\ fine.rest = {Segment("raw", HourTo, Forever)}
           /\ fine.earliest = Max({w, HourFrom})
  <2>1. fine.head.tier = "hour"
    BY <1>5, <1>8
  <2>2. days = Filled(fine, "day", w, Coverages.day)
    BY <2>1
  <2>3. fine = Plan(Segment("hour", w, HourTo), {Segment("raw", HourTo, Forever)}, Max({w, HourFrom}))
    BY <1>4, <1>8
  <2> HIDE DEF days
  <2>10. FillsOrStays(w, "day", Coverages.day, HourFrom, fine, "hour", HourTo,
                      {Segment("raw", HourTo, Forever)})
    BY <1>3, <1>11, <2>3, FillShape
  <2>4. \/ days = fine /\ Stays(w, HourFrom, "day", DayFrom, DayTo)
        \/ \E end \in Nat, m \in Nat :
             /\ Fills(w, HourFrom, "day", DayFrom, DayTo, end, m)
             /\ days = Plan(Segment("day", w, end),
                            {Segment("raw", HourTo, Forever)} \cup {Segment("hour", m, HourTo)},
                            Max({w, DayFrom}))
    BY <1>2, <2>2, <2>10 DEF FillsOrStays
  <2>5. ByHours(w, segs)
    <3>1. CASE days = fine /\ Stays(w, HourFrom, "day", DayFrom, DayTo)
      <4>1. segs = {Segment("hour", w, HourTo), Segment("raw", HourTo, Forever)}
        BY <1>1, <1>8, <3>1
      <4>2. QED
        BY <1>8, <3>1, <4>1 DEF ByHours
    <3>2. ASSUME NEW end \in Nat, NEW m \in Nat,
                 Fills(w, HourFrom, "day", DayFrom, DayTo, end, m),
                 days = Plan(Segment("day", w, end),
                             {Segment("raw", HourTo, Forever)} \cup {Segment("hour", m, HourTo)},
                             Max({w, DayFrom}))
          PROVE  ByHours(w, segs)
      <4>1. segs = {Segment("day", w, end), Segment("hour", m, HourTo), Segment("raw", HourTo, Forever)}
        BY <1>1, <1>6, <3>2
      <4>2. QED
        BY <1>8, <3>2, <4>1 DEF ByHours
    <3>3. QED
      BY <2>4, <3>1, <3>2
  <2>6. QED
    BY <2>5
<1>9. CASE /\ Preferred(w) = "raw" \/ HourTo <= w
           /\ fine.head = Segment("raw", w, Forever) /\ fine.rest = {}
           /\ fine.earliest = Max({w, RawFrom})
  <2>1. fine.head.tier = "raw"
    BY <1>5, <1>9
  <2>2. hours = Filled(fine, "hour", w, Coverages.hour) /\ days = Filled(hours, "day", w, Coverages.day)
    BY <2>1
  <2>3. fine = Plan(Segment("raw", w, Forever), {}, Max({w, RawFrom}))
    BY <1>4, <1>9
  <2> HIDE DEF hours, days
  <2>10. FillsOrStays(w, "hour", Coverages.hour, RawFrom, fine, "raw", Forever, {})
    BY <1>3, <1>11, <2>3, FillShape
  <2>4. \/ hours = fine /\ Stays(w, RawFrom, "hour", HourFrom, HourTo)
        \/ \E until \in Nat, after \in Nat :
             /\ Fills(w, RawFrom, "hour", HourFrom, HourTo, until, after)
             /\ hours = Plan(Segment("hour", w, until), {} \cup {Segment("raw", after, Forever)},
                             Max({w, HourFrom}))
    BY <1>2, <2>2, <2>10 DEF FillsOrStays
  <2>5. CASE hours = fine /\ Stays(w, RawFrom, "hour", HourFrom, HourTo)
    <3>10. FillsOrStays(w, "day", Coverages.day, RawFrom, fine, "raw", Forever, {})
      BY <1>3, <1>11, <2>3, FillShape
    <3>1. \/ days = fine /\ Stays(w, RawFrom, "day", DayFrom, DayTo)
          \/ \E end \in Nat, m \in Nat :
               /\ Fills(w, RawFrom, "day", DayFrom, DayTo, end, m)
               /\ days = Plan(Segment("day", w, end), {} \cup {Segment("raw", m, Forever)},
                              Max({w, DayFrom}))
      BY <1>2, <2>2, <2>5, <3>10 DEF FillsOrStays
    <3>2. CASE days = fine /\ Stays(w, RawFrom, "day", DayFrom, DayTo)
      <4>1. segs = {Segment("raw", w, Forever)}
        BY <1>1, <1>9, <3>2
      <4>2. QED
        BY <2>5, <3>2, <4>1 DEF ByRaw
    <3>3. ASSUME NEW end \in Nat, NEW m \in Nat,
                 Fills(w, RawFrom, "day", DayFrom, DayTo, end, m),
                 days = Plan(Segment("day", w, end), {} \cup {Segment("raw", m, Forever)},
                             Max({w, DayFrom}))
          PROVE  ByRaw(w, segs)
      <4>1. segs = {Segment("day", w, end), Segment("raw", m, Forever)}
        BY <1>1, <1>6, <3>3
      <4>2. QED
        BY <2>5, <3>3, <4>1 DEF ByRaw
    <3>4. QED
      BY <3>1, <3>2, <3>3
  <2>6. ASSUME NEW until \in Nat, NEW after \in Nat,
               Fills(w, RawFrom, "hour", HourFrom, HourTo, until, after),
               hours = Plan(Segment("hour", w, until), {} \cup {Segment("raw", after, Forever)},
                            Max({w, HourFrom}))
        PROVE  ByRawAndHours(w, segs)
    <3>10. FillsOrStays(w, "day", Coverages.day, HourFrom, hours, "hour", until,
                        {} \cup {Segment("raw", after, Forever)})
      BY <1>3, <1>11, <2>6, FillShape
    <3>1. \/ days = hours /\ Stays(w, HourFrom, "day", DayFrom, DayTo)
          \/ \E end \in Nat, m \in Nat :
               /\ Fills(w, HourFrom, "day", DayFrom, DayTo, end, m)
               /\ days = Plan(Segment("day", w, end),
                              ({} \cup {Segment("raw", after, Forever)}) \cup {Segment("hour", m, until)},
                              Max({w, DayFrom}))
      BY <1>2, <2>2, <3>10 DEF FillsOrStays
    <3>2. CASE days = hours /\ Stays(w, HourFrom, "day", DayFrom, DayTo)
      <4>1. segs = {Segment("hour", w, until), Segment("raw", after, Forever)}
        BY <1>1, <1>6, <2>6, <3>2
      <4>2. QED
        BY <2>6, <3>2, <4>1 DEF ByRawAndHours
    <3>3. ASSUME NEW end \in Nat, NEW m \in Nat,
                 Fills(w, HourFrom, "day", DayFrom, DayTo, end, m),
                 days = Plan(Segment("day", w, end),
                             ({} \cup {Segment("raw", after, Forever)}) \cup {Segment("hour", m, until)},
                             Max({w, DayFrom}))
          PROVE  ByRawAndHours(w, segs)
      <4>1. segs = {Segment("day", w, end), Segment("hour", m, until), Segment("raw", after, Forever)}
        BY <1>1, <1>6, <3>3
      <4>2. Preferred(w) = "raw"
        <5>1. w < HourFrom /\ HourFrom < HourTo
          BY <2>6, <3>3 DEF Fills
        <5>2. QED
          BY <5>1, <1>3, <1>9
      <4>3. QED
        BY <2>6, <3>3, <4>1, <4>2 DEF ByRawAndHours
    <3>4. QED
      BY <3>1, <3>2, <3>3
  <2>7. QED
    BY <2>4, <2>5, <2>6
<1>10. QED
  BY <1>7, <1>8, <1>9, FineShape DEF fine

-----------------------------------------------------------------------------
(* What the segments serve.                                                  *)

\* A segment serves a measurement whose bucket starts in it.
Serves(seg, s) ==
  \/ seg.tier = "raw" /\ s \in raw /\ Within(seg, s[2])
  \/ seg.tier = "hour" /\ InHour(s) /\ Within(seg, Hour0(s))
  \/ seg.tier = "day" /\ InDay(s) /\ Within(seg, Day0(s))

LEMMA SegmentServes ==
  ASSUME NEW s \in Sample, NEW x, NEW y
  PROVE  /\ s \in raw /\ x <= s[2] => Serves(Segment("raw", x, Forever), s)
         /\ InHour(s) /\ x <= Hour0(s) /\ Hour0(s) < y => Serves(Segment("hour", x, y), s)
         /\ InDay(s) /\ x <= Day0(s) /\ Day0(s) < y => Serves(Segment("day", x, y), s)
<1>1. s[2] < Forever
  <2>1. s[2] < FloorTo(Forever, "hour") /\ FloorTo(Forever, "hour") <= Forever
        /\ s[2] \in Nat /\ Forever \in Nat /\ FloorTo(Forever, "hour") \in Nat
    BY StartsOf, ForeverFacts, FloorIs DEF Rollup
  <2>2. QED
    BY <2>1
<1>2. QED
  BY <1>1 DEF Serves, Segment, Within

LEMMA TiersOfSegments ==
  ASSUME NEW w \in Nat, TypeOK, NEW seg \in Segments(w, Coverages)
  PROVE  seg.tier \in {"raw", "hour", "day"}
<1>1. \A tier, x, y : Segment(tier, x, y).tier = tier
  BY DEF Segment
<1>2. PICK segs : segs = Segments(w, Coverages)
  OBVIOUS
<1>3. ByDays(w, segs) \/ ByHours(w, segs) \/ ByRaw(w, segs) \/ ByRawAndHours(w, segs)
  BY <1>2, Shapes
<1>4. ByDays(w, segs) => \A x \in segs : x.tier \in {"raw", "hour", "day"}
  BY <1>1 DEF ByDays
<1>5. ByHours(w, segs) => \A x \in segs : x.tier \in {"raw", "hour", "day"}
  BY <1>1 DEF ByHours
<1>6. ByRaw(w, segs) => \A x \in segs : x.tier \in {"raw", "hour", "day"}
  BY <1>1 DEF ByRaw
<1>7. ByRawAndHours(w, segs) => \A x \in segs : x.tier \in {"raw", "hour", "day"}
  BY <1>1 DEF ByRawAndHours
<1>8. QED
  BY <1>2, <1>3, <1>4, <1>5, <1>6, <1>7

\* What a segment serves is behind a point.
LEMMA ServedHasPoint ==
  ASSUME NEW w, NEW seg \in Segments(w, Coverages), NEW s \in Sample, Serves(seg, s)
  PROVE  \E p \in Points(w, Coverages) : p.of = s[1] /\ s[2] \in p.rows
<1>1. SUFFICES \E p \in PointsOf(seg) : p.of = s[1] /\ s[2] \in p.rows
  BY DEF Points
<1>2. s[1] \in Devices /\ Hr(s) \in Hours /\ Dy(s) \in Hours
  BY SampleFacts
<1>3. CASE seg.tier = "raw"
  <2>1. s \in raw /\ Within(seg, s[2])
    BY <1>3 DEF Serves
  <2> DEFINE p == [of |-> s[1], tier |-> "raw", at |-> s[2], rows |-> {s[2]}]
  <2>2. p \in RawRows(seg)
    BY <2>1 DEF RawRows
  <2>3. PointsOf(seg) = RawRows(seg)
    BY <1>3 DEF PointsOf
  <2>4. QED
    BY <2>2, <2>3
<1>4. CASE seg.tier = "hour"
  <2>1. s[2] \in hourly[s[1]][Hr(s)] /\ Within(seg, Hr(s) * TicksIn(seg.tier))
    BY <1>4, StartsOf DEF Serves, InHour, Hr
  <2> DEFINE x == <<s[1], Hr(s)>>
             p == [of |-> x[1], tier |-> seg.tier, at |-> x[2], rows |-> hourly[x[1]][x[2]]]
  <2>2. x \in Devices \X Hours /\ hourly[x[1]][x[2]] # {} /\ Within(seg, x[2] * TicksIn(seg.tier))
    BY <1>2, <2>1
  <2>3. p \in Buckets(hourly, seg)
    BY <2>2 DEF Buckets
  <2>4. PointsOf(seg) = Buckets(hourly, seg)
    BY <1>4 DEF PointsOf
  <2>5. p.of = s[1] /\ s[2] \in p.rows
    BY <2>1
  <2>6. QED
    BY <2>3, <2>4, <2>5
<1>5. CASE seg.tier = "day"
  <2>1. s[2] \in daily[s[1]][Dy(s)] /\ Within(seg, Dy(s) * TicksIn(seg.tier))
    BY <1>5, StartsOf DEF Serves, InDay, Dy
  <2> DEFINE x == <<s[1], Dy(s)>>
             p == [of |-> x[1], tier |-> seg.tier, at |-> x[2], rows |-> daily[x[1]][x[2]]]
  <2>2. x \in Devices \X Hours /\ daily[x[1]][x[2]] # {} /\ Within(seg, x[2] * TicksIn(seg.tier))
    BY <1>2, <2>1
  <2>3. p \in Buckets(daily, seg)
    BY <2>2 DEF Buckets
  <2>4. PointsOf(seg) = Buckets(daily, seg)
    BY <1>5 DEF PointsOf
  <2>5. p.of = s[1] /\ s[2] \in p.rows
    BY <2>1
  <2>6. QED
    BY <2>3, <2>4, <2>5
<1>6. QED
  BY <1>3, <1>4, <1>5 DEF Serves

\* What is behind a point is served by a segment, and the point by its bucket.
BucketOf(tier, t) ==
  CASE tier = "raw" -> t [] tier = "hour" -> HourOf(t) [] tier = "day" -> DayOf(HourOf(t))
RowsAt(of, tier, at) ==
  CASE tier = "raw" -> {at} [] tier = "hour" -> hourly[of][at] [] tier = "day" -> daily[of][at]

LEMMA PointIsServed ==
  ASSUME NEW w \in Nat, TypeOK, Exact, NEW p \in Points(w, Coverages), NEW t \in p.rows
  PROVE  /\ p = [of |-> p.of, tier |-> p.tier, at |-> p.at, rows |-> p.rows]
         /\ p.tier \in {"raw", "hour", "day"}
         /\ p.at = BucketOf(p.tier, t) /\ p.rows = RowsAt(p.of, p.tier, p.at)
         /\ <<p.of, t>> \in Sample
         /\ \E seg \in Segments(w, Coverages) : seg.tier = p.tier /\ Serves(seg, <<p.of, t>>)
<1> DEFINE s == <<p.of, t>>
<1>1. PICK seg \in Segments(w, Coverages) : p \in PointsOf(seg)
  BY DEF Points
<1>2. seg.tier \in {"raw", "hour", "day"}
  BY TiersOfSegments
<1>3. CASE seg.tier = "raw"
  <2>1. PointsOf(seg) = RawRows(seg)
    BY <1>3 DEF PointsOf
  <2>2. PICK r \in raw : Within(seg, r[2])
                         /\ p = [of |-> r[1], tier |-> "raw", at |-> r[2], rows |-> {r[2]}]
    BY <1>1, <2>1 DEF RawRows
  <2>3. r \in Sample /\ r = <<r[1], r[2]>>
    BY Typed, SampleFacts
  <2>4. p.of = r[1] /\ p.tier = "raw" /\ p.at = r[2] /\ p.rows = {r[2]} /\ t = r[2] /\ s = r
    BY <2>2, <2>3
  <2>5. Serves(seg, s)
    BY <1>3, <2>2, <2>4 DEF Serves
  <2>6. QED
    BY <1>3, <2>2, <2>3, <2>4, <2>5 DEF BucketOf, RowsAt
<1>4. CASE seg.tier = "hour"
  <2>1. PointsOf(seg) = Buckets(hourly, seg)
    BY <1>4 DEF PointsOf
  <2>2. PICK x \in Devices \X Hours :
          /\ Within(seg, x[2] * TicksIn("hour"))
          /\ p = [of |-> x[1], tier |-> "hour", at |-> x[2], rows |-> hourly[x[1]][x[2]]]
    BY <1>1, <1>4, <2>1 DEF Buckets
  <2>3. /\ p.of = x[1] /\ p.tier = "hour" /\ p.at = x[2] /\ p.rows = hourly[x[1]][x[2]]
        /\ x[1] \in Devices /\ x[2] \in Hours
    BY <2>2
  <2>4. t \in Ticks /\ HourOf(t) = x[2] /\ s \in Sample
    BY <2>3, Typed DEF Rows, Exact, Contents, Sample
  <2>5. Hr(s) = x[2] /\ InHour(s)
    BY <2>3, <2>4 DEF Hr, InHour
  <2>6. Serves(seg, s)
    BY <1>4, <2>2, <2>4, <2>5, StartsOf DEF Serves
  <2>7. QED
    BY <1>4, <2>2, <2>3, <2>4, <2>6 DEF BucketOf, RowsAt
<1>5. CASE seg.tier = "day"
  <2>1. PointsOf(seg) = Buckets(daily, seg)
    BY <1>5 DEF PointsOf
  <2>2. PICK x \in Devices \X Hours :
          /\ Within(seg, x[2] * TicksIn("day"))
          /\ p = [of |-> x[1], tier |-> "day", at |-> x[2], rows |-> daily[x[1]][x[2]]]
    BY <1>1, <1>5, <2>1 DEF Buckets
  <2>3. /\ p.of = x[1] /\ p.tier = "day" /\ p.at = x[2] /\ p.rows = daily[x[1]][x[2]]
        /\ x[1] \in Devices /\ x[2] \in Hours
    BY <2>2
  <2>4. t \in Ticks /\ DayOf(HourOf(t)) = x[2] /\ s \in Sample
    BY <2>3, Typed DEF Rows, Exact, Contents, Sample
  <2>5. Dy(s) = x[2] /\ InDay(s)
    BY <2>3, <2>4 DEF Dy, InDay
  <2>6. Serves(seg, s)
    BY <1>5, <2>2, <2>4, <2>5, StartsOf DEF Serves
  <2>7. QED
    BY <1>5, <2>2, <2>3, <2>4, <2>6 DEF BucketOf, RowsAt
<1>6. QED
  BY <1>2, <1>3, <1>4, <1>5

-----------------------------------------------------------------------------
(* Nothing is missed.                                                        *)

\* From a boundary on, buckets start at the boundary or later.
LEMMA FromBoundary ==
  ASSUME NEW tier \in Rollup, NEW x \in Nat, FloorTo(x, tier) = x, NEW t \in Nat, x <= t
  PROVE  x <= FloorTo(t, tier)
BY FloorGrows

\* One measurement of a window's whole days, and the tiers.
Served(w, s) ==
  /\ s[2] \in Nat /\ Hour0(s) \in Nat /\ Day0(s) \in Nat
  /\ w <= Day0(s) /\ Day0(s) <= Hour0(s) /\ Hour0(s) <= s[2]
  /\ s \in raw \/ InHour(s) \/ InDay(s)
  /\ InHour(s) => HourFrom <= Hour0(s) /\ s[2] < HourTo
  /\ s[2] < HourTo => InHour(s) \/ InDay(s)
  /\ InDay(s) => DayFrom <= Day0(s)
  /\ InDay(s) <=> s[2] < DayTo
  /\ s \notin raw => s[2] < FloorTo(RawFrom, "hour")
  /\ InDay(s) /\ ~InHour(s) => s[2] < FloorTo(HourFrom, "day") /\ s[2] < FloorTo(RawFrom, "day")

LEMMA ServedFacts ==
  ASSUME Whole, Exact, AllInTime, NEW w \in Nat, NEW s \in accepted, CeilTo(w, "day") <= s[2]
  PROVE  Served(w, s) /\ s \in Sample
<1>0. TypeOK /\ s \in Sample /\ Held(s) /\ "day" \in Rollup
  BY Typed DEF Whole, Sound, Rollup
<1>1. /\ s[2] \in Nat /\ Hour0(s) \in Nat /\ Day0(s) \in Nat
      /\ Day0(s) <= Hour0(s) /\ Hour0(s) <= s[2]
  BY <1>0, StartsOf
<1>2. w <= Day0(s)
  <2>1. /\ CeilTo(w, "day") \in Nat /\ w <= CeilTo(w, "day")
        /\ FloorTo(CeilTo(w, "day"), "day") = CeilTo(w, "day")
    BY <1>0, CeilFacts
  <2>2. CeilTo(w, "day") <= FloorTo(s[2], "day")
    BY <1>0, <1>1, <2>1, FromBoundary
  <2>3. QED
    BY <1>1, <2>1, <2>2 DEF Day0
<1>3. /\ InHour(s) => HourFrom <= Hour0(s) /\ s[2] < HourTo
      /\ InDay(s) => DayFrom <= Day0(s) /\ s[2] < DayTo
  BY <1>0, WithinCoverage
<1>4. /\ s[2] < HourTo => InHour(s) \/ InDay(s)
      /\ s[2] < DayTo => InDay(s)
  BY CoveredIsFolded DEF Folded
<1>5. /\ s \notin raw => s[2] < FloorTo(RawFrom, "hour")
      /\ InDay(s) /\ ~InHour(s) => s[2] < FloorTo(HourFrom, "day") /\ s[2] < FloorTo(RawFrom, "day")
  BY GoneIsOlder
<1>6. QED
  BY <1>0, <1>1, <1>2, <1>3, <1>4, <1>5 DEF Served, Held

\* The numbers, and what rounding them down does.
LEMMA Boundaries ==
  ASSUME TypeOK
  PROVE  /\ HourFrom \in Nat /\ HourTo \in Nat /\ DayFrom \in Nat /\ DayTo \in Nat /\ RawFrom \in Nat
         /\ FloorTo(HourTo, "hour") = HourTo /\ FloorTo(DayTo, "day") = DayTo
         /\ FloorTo(DayTo, "hour") = DayTo
         /\ FloorTo(HourFrom, "day") \in Nat /\ FloorTo(HourFrom, "day") <= HourFrom
         /\ FloorTo(RawFrom, "day") \in Nat /\ FloorTo(RawFrom, "day") <= RawFrom
         /\ FloorTo(RawFrom, "hour") \in Nat /\ FloorTo(RawFrom, "hour") <= RawFrom
         /\ HourTo > 0 => HourFrom < HourTo
BY HourCoverage, DayCoverage, RawCoverage, FloorIs, DayBeginsHour DEF Rollup

LEMMA DaysServe ==
  ASSUME TypeOK, NEW w \in Nat, NEW segs, ByDays(w, segs), NEW s \in Sample, Served(w, s)
  PROVE  \E seg \in segs : Serves(seg, s)
<1>1. w < DayTo
  BY DEF ByDays
<1>2. CASE s[2] < DayTo
  <2>1. Serves(Segment("day", w, DayTo), s)
    BY <1>2, Boundaries, SegmentServes DEF Served
  <2>2. QED
    BY <2>1 DEF ByDays
<1>3. CASE DayTo <= s[2] /\ s[2] < HourTo
  <2>1. InHour(s) /\ Hour0(s) < HourTo /\ DayTo < HourTo
    BY <1>3, Boundaries DEF Served
  <2>2. DayTo <= Hour0(s)
    BY <1>3, Boundaries, FromBoundary DEF Served, Hour0, Rollup
  <2>3. Serves(Segment("hour", DayTo, HourTo), s)
    BY <2>1, <2>2, SegmentServes
  <2>4. QED
    BY <2>1, <2>3, Boundaries DEF ByDays
<1>4. CASE DayTo <= s[2] /\ HourTo <= s[2]
  <2>1. s \in raw
    BY <1>4, Boundaries DEF Served
  <2>2. Serves(Segment("raw", HourTo, Forever), s) /\ Serves(Segment("raw", DayTo, Forever), s)
    BY <1>4, <2>1, SegmentServes
  <2>3. QED
    BY <2>2 DEF ByDays
<1>5. QED
  BY <1>2, <1>3, <1>4, Boundaries DEF Served

\* What the hours have lost is in the days, and older.
LEMMA LostByHours ==
  ASSUME TypeOK, NEW w \in Nat, NEW s \in Sample, Served(w, s), ~InHour(s), s[2] < HourTo
  PROVE  /\ InDay(s) /\ s[2] < HourFrom /\ s[2] < DayTo
         /\ ~Stays(w, HourFrom, "day", DayFrom, DayTo)
<1>1. InDay(s) /\ s[2] < FloorTo(HourFrom, "day") /\ s[2] < DayTo /\ DayFrom <= s[2] /\ w <= s[2]
  BY Boundaries DEF Served
<1>2. s[2] < HourFrom /\ ~(s[2] < DayFrom) /\ s[2] \in Nat
  BY <1>1, Boundaries DEF Served
<1>3. ~Stays(w, HourFrom, "day", DayFrom, DayTo)
  BY <1>1, <1>2 DEF Stays
<1>4. QED
  BY <1>1, <1>2, <1>3

\* The newest rows are raw.
LEMMA NewestIsRaw ==
  ASSUME TypeOK, NEW w \in Nat, NEW s \in Sample, Served(w, s), HourTo > 0, HourTo <= s[2]
  PROVE  s \in raw
BY Boundaries DEF Served

LEMMA HoursServe ==
  ASSUME TypeOK, NEW w \in Nat, NEW segs, ByHours(w, segs), NEW s \in Sample, Served(w, s)
  PROVE  \E seg \in segs : Serves(seg, s)
<1>0. /\ HourTo > 0
      /\ s[2] \in Nat /\ Hour0(s) \in Nat /\ Day0(s) \in Nat
      /\ w <= Day0(s) /\ Day0(s) <= Hour0(s) /\ Hour0(s) <= s[2]
      /\ HourTo \in Nat /\ HourFrom \in Nat /\ DayTo \in Nat
  BY Boundaries DEF ByHours, Served
<1>1. CASE HourTo <= s[2]
  <2>1. Serves(Segment("raw", HourTo, Forever), s)
    BY <1>0, <1>1, NewestIsRaw, SegmentServes
  <2>2. QED
    BY <2>1 DEF ByHours
<1>2. CASE s[2] < HourTo /\ Stays(w, HourFrom, "day", DayFrom, DayTo)
           /\ segs = {Segment("hour", w, HourTo), Segment("raw", HourTo, Forever)}
  <2>1. InHour(s)
    BY <1>2, LostByHours
  <2>2. Serves(Segment("hour", w, HourTo), s)
    BY <1>0, <1>2, <2>1, SegmentServes
  <2>3. QED
    BY <1>2, <2>2
<1>3. ASSUME NEW end \in Nat, NEW m \in Nat, s[2] < HourTo,
             Fills(w, HourFrom, "day", DayFrom, DayTo, end, m),
             segs = {Segment("day", w, end), Segment("hour", m, HourTo), Segment("raw", HourTo, Forever)}
      PROVE  \E seg \in segs : Serves(seg, s)
  <2>0. /\ FloorTo(end, "day") = end /\ FloorTo(end, "hour") = end /\ end <= DayTo
        /\ HourFrom <= end \/ DayTo <= end
        /\ m \in {w, end}
    BY <1>3, DayBeginsHour DEF Fills
  <2>1. CASE s[2] < end
    <3>1. InDay(s) /\ Day0(s) < end
      BY <1>0, <2>0, <2>1 DEF Served
    <3>2. Serves(Segment("day", w, end), s)
      BY <1>0, <3>1, SegmentServes
    <3>3. QED
      BY <1>3, <3>2
  <2>2. CASE end <= s[2]
    <3>1. InHour(s)
      BY <1>0, <1>3, <2>0, <2>2, LostByHours
    <3>2. end <= Hour0(s)
      BY <1>0, <2>0, <2>2, FromBoundary DEF Hour0, Rollup
    <3>3. Serves(Segment("hour", m, HourTo), s)
      BY <1>0, <1>3, <2>0, <3>1, <3>2, SegmentServes
    <3>4. QED
      BY <1>3, <3>3
  <2>3. QED
    BY <1>0, <2>1, <2>2
<1>4. QED
  BY <1>0, <1>1, <1>2, <1>3 DEF ByHours

\* What the raw tier has lost and the hours do not give is in the days, and older.
LEMMA LostByRaw ==
  ASSUME TypeOK, NEW w \in Nat, NEW s \in Sample, Served(w, s), s \notin raw,
         Stays(w, RawFrom, "hour", HourFrom, HourTo)
  PROVE  /\ InDay(s) /\ s[2] < RawFrom /\ s[2] < DayTo
         /\ ~Stays(w, RawFrom, "day", DayFrom, DayTo)
<1>0. /\ s[2] \in Nat /\ Hour0(s) \in Nat /\ Day0(s) \in Nat
      /\ w <= Day0(s) /\ Day0(s) <= Hour0(s) /\ Hour0(s) <= s[2]
  BY DEF Served
<1>1. s[2] < FloorTo(RawFrom, "hour")
  BY DEF Served
<1>2. ~InHour(s)
  <2>1. SUFFICES ASSUME InHour(s) PROVE FALSE
    OBVIOUS
  <2>2. HourFrom <= Hour0(s) /\ s[2] < HourTo
    BY <2>1 DEF Served
  <2>3. s[2] < HourFrom
    BY <1>0, <1>1, <2>2 DEF Stays
  <2>4. QED
    BY <1>0, <2>2, <2>3, Boundaries
<1>3. InDay(s) /\ s[2] < FloorTo(RawFrom, "day") /\ s[2] < DayTo /\ DayFrom <= Day0(s)
  BY <1>2 DEF Served
<1>4. s[2] < RawFrom /\ ~(s[2] < DayFrom) /\ w <= s[2]
  BY <1>0, <1>3, Boundaries
<1>5. ~Stays(w, RawFrom, "day", DayFrom, DayTo)
  BY <1>0, <1>3, <1>4 DEF Stays
<1>6. QED
  BY <1>3, <1>4, <1>5

LEMMA RawServes ==
  ASSUME TypeOK, NEW w \in Nat, NEW segs, ByRaw(w, segs), NEW s \in Sample, Served(w, s)
  PROVE  \E seg \in segs : Serves(seg, s)
<1>0. /\ s[2] \in Nat /\ Hour0(s) \in Nat /\ Day0(s) \in Nat
      /\ w <= Day0(s) /\ Day0(s) <= Hour0(s) /\ Hour0(s) <= s[2]
      /\ RawFrom \in Nat /\ DayTo \in Nat /\ Stays(w, RawFrom, "hour", HourFrom, HourTo)
  BY Boundaries DEF ByRaw, Served
<1>1. CASE Stays(w, RawFrom, "day", DayFrom, DayTo) /\ segs = {Segment("raw", w, Forever)}
  <2>1. s \in raw /\ w <= s[2]
    BY <1>0, <1>1, LostByRaw
  <2>2. QED
    BY <1>1, <2>1, SegmentServes
<1>2. ASSUME NEW end \in Nat, NEW m \in Nat, Fills(w, RawFrom, "day", DayFrom, DayTo, end, m),
             segs = {Segment("day", w, end), Segment("raw", m, Forever)}
      PROVE  \E seg \in segs : Serves(seg, s)
  <2>0. /\ end <= DayTo /\ m \in {w, end}
        /\ RawFrom <= end \/ DayTo <= end
    BY <1>2 DEF Fills
  <2>1. CASE s[2] < end
    <3>1. InDay(s) /\ Day0(s) < end
      BY <1>0, <2>0, <2>1 DEF Served
    <3>2. Serves(Segment("day", w, end), s)
      BY <1>0, <3>1, SegmentServes
    <3>3. QED
      BY <1>2, <3>2
  <2>2. CASE end <= s[2]
    <3>1. s \in raw
      BY <1>0, <2>0, <2>2, LostByRaw
    <3>2. Serves(Segment("raw", m, Forever), s)
      BY <1>0, <2>0, <2>2, <3>1, SegmentServes
    <3>3. QED
      BY <1>2, <3>2
  <2>3. QED
    BY <1>0, <2>1, <2>2
<1>3. QED
  BY <1>1, <1>2 DEF ByRaw

LEMMA RawAndHoursServe ==
  ASSUME TypeOK, NEW w \in Nat, NEW segs, ByRawAndHours(w, segs), NEW s \in Sample, Served(w, s)
  PROVE  \E seg \in segs : Serves(seg, s)
<1>0. /\ s[2] \in Nat /\ Hour0(s) \in Nat /\ Day0(s) \in Nat
      /\ w <= Day0(s) /\ Day0(s) <= Hour0(s) /\ Hour0(s) <= s[2]
      /\ RawFrom \in Nat /\ DayTo \in Nat /\ HourTo \in Nat /\ HourFrom \in Nat
  BY Boundaries DEF Served
<1>1. PICK until \in Nat, after \in Nat :
        /\ Fills(w, RawFrom, "hour", HourFrom, HourTo, until, after)
        /\ \/ /\ Stays(w, HourFrom, "day", DayFrom, DayTo)
              /\ segs = {Segment("hour", w, until), Segment("raw", after, Forever)}
           \/ \E end \in Nat, m \in Nat :
                /\ Fills(w, HourFrom, "day", DayFrom, DayTo, end, m) /\ Preferred(w) = "raw"
                /\ segs = {Segment("day", w, end), Segment("hour", m, until),
                           Segment("raw", after, Forever)}
  BY DEF ByRawAndHours
<1>2. /\ until <= HourTo /\ after \in {w, until} /\ HourFrom < HourTo
      /\ RawFrom <= until \/ HourTo <= until
  BY <1>1 DEF Fills
<1>3. Segment("raw", after, Forever) \in segs
  BY <1>1
<1>4. CASE until <= s[2]
  <2>1. s \in raw
    <3>1. HourTo <= s[2] => s \in raw
      BY <1>0, <1>2, NewestIsRaw
    <3>2. RawFrom <= s[2] => s \in raw
      BY <1>0, Boundaries DEF Served
    <3>3. QED
      BY <1>0, <1>2, <1>4, <3>1, <3>2
  <2>2. Serves(Segment("raw", after, Forever), s)
    BY <1>0, <1>2, <1>4, <2>1, SegmentServes
  <2>3. QED
    BY <1>3, <2>2
<1>5. CASE s[2] < until /\ Stays(w, HourFrom, "day", DayFrom, DayTo)
           /\ segs = {Segment("hour", w, until), Segment("raw", after, Forever)}
  <2>1. InHour(s) /\ Hour0(s) < until
    BY <1>0, <1>2, <1>5, LostByHours
  <2>2. Serves(Segment("hour", w, until), s)
    BY <1>0, <2>1, SegmentServes
  <2>3. QED
    BY <1>5, <2>2
<1>6. ASSUME s[2] < until, NEW end \in Nat, NEW m \in Nat,
             Fills(w, HourFrom, "day", DayFrom, DayTo, end, m),
             segs = {Segment("day", w, end), Segment("hour", m, until), Segment("raw", after, Forever)}
      PROVE  \E seg \in segs : Serves(seg, s)
  <2>0. /\ FloorTo(end, "day") = end /\ FloorTo(end, "hour") = end /\ end <= DayTo
        /\ HourFrom <= end \/ DayTo <= end
        /\ m \in {w, end}
    BY <1>6, DayBeginsHour DEF Fills
  <2>1. CASE s[2] < end
    <3>1. InDay(s) /\ Day0(s) < end
      BY <1>0, <2>0, <2>1 DEF Served
    <3>2. Serves(Segment("day", w, end), s)
      BY <1>0, <3>1, SegmentServes
    <3>3. QED
      BY <1>6, <3>2
  <2>2. CASE end <= s[2]
    <3>1. InHour(s) /\ Hour0(s) < until
      BY <1>0, <1>2, <1>6, <2>0, <2>2, LostByHours
    <3>2. end <= Hour0(s)
      BY <1>0, <2>0, <2>2, FromBoundary DEF Hour0, Rollup
    <3>3. Serves(Segment("hour", m, until), s)
      BY <1>0, <2>0, <3>1, <3>2, SegmentServes
    <3>4. QED
      BY <1>6, <3>3
  <2>3. QED
    BY <1>0, <2>1, <2>2
<1>7. QED
  BY <1>0, <1>1, <1>4, <1>5, <1>6

\* Where a window begins.
LEMMA WindowFacts ==
  ASSUME TypeOK, NEW w \in Windows
  PROVE  w \in Nat /\ \E length \in WindowLengths : w >= clock - length
<1>1. PICK length \in WindowLengths : w = Max({0, clock - length})
  BY DEF Windows
<1>2. length \in Nat /\ clock \in Int /\ clock - length \in Int
  BY TimeAssumption, Typed DEF Ticks
<1>3. w = IF 0 >= clock - length THEN 0 ELSE clock - length
  BY <1>1, <1>2, MaxPair
<1>4. QED
  BY <1>2, <1>3

LEMMA NothingIsMissed ==
  ASSUME Whole, Exact, AllInTime, NEW w \in Windows
  PROVE  MissesNothing(w)
<1>0. TypeOK /\ w \in Nat
  BY WindowFacts DEF Whole
<1>1. ASSUME NEW s \in accepted, CeilTo(w, "day") <= s[2]
      PROVE  \E p \in Points(w, Coverages) : p.of = s[1] /\ s[2] \in p.rows
  <2>1. Served(w, s) /\ s \in Sample
    BY <1>0, <1>1, ServedFacts
  <2>2. PICK segs : segs = Segments(w, Coverages)
    OBVIOUS
  <2>3. \E seg \in segs : Serves(seg, s)
    BY <1>0, <2>1, <2>2, Shapes, DaysServe, HoursServe, RawServes, RawAndHoursServe
  <2>4. QED
    BY <2>1, <2>2, <2>3, ServedHasPoint
<1>2. \A s \in accepted : CeilTo(w, "day") \in Nat /\ s[2] \in Nat
  BY <1>0, Typed, CeilFacts, SampleFacts DEF Rollup
<1>3. QED
  BY <1>1, <1>2 DEF MissesNothing

-----------------------------------------------------------------------------
(* Nothing is counted twice.                                                 *)

\* The coarser segment ends on a boundary where the finer one begins, or, of the days and
\* the raw rows, where the hours end.
Tiled(a, b) ==
  /\ a.to \in Nat /\ b.from \in Nat /\ FloorTo(a.to, a.tier) = a.to
  /\ a.to <= b.from \/ (a.tier = "day" /\ b.tier = "raw" /\ HourTo <= b.from)

AllTiled(segs) ==
  \A a \in segs : \A b \in segs :
    \/ a.tier = "day" /\ b.tier \in {"hour", "raw"}
    \/ a.tier = "hour" /\ b.tier = "raw"
    => Tiled(a, b)

\* The hours and the raw rows do not both give way to coarser rows where the raw tier
\* reaches back.
LEMMA NotBothFilled ==
  ASSUME TypeOK, RawReachesBack, NEW w \in Windows, Preferred(w) = "raw", w < HourFrom,
         HourFrom < HourTo, HourFrom < FloorTo(RawFrom, "hour")
  PROVE  FALSE
<1> DEFINE p == TicksPerHour
           k == retention.raw
           m == Min({k, 2 * HoursPerDay})
           H == HourOf(clock)
<1>1. p \in Nat \ {0} /\ HoursPerDay \in Nat /\ "hour" \in Rollup /\ TicksIn("hour") = p
  BY Scale, TicksFacts DEF Rollup
<1>2. k \in Nat
  BY RetentionsAssumption DEF TypeOK, Retention
<1>3. w \in Nat /\ clock \in Nat
  BY WindowFacts, Typed
<1>4. clock - w <= p * m
  BY DEF Preferred
<1>5. PICK h \in Rolled(hourly) : HourFrom = h * p
  BY <1>1, HourCoverage, Boundaries
<1>6. h \in Nat
  BY HourRange DEF Rolled
<1>7. H \in Nat /\ p * H <= clock
  BY <1>1, <1>3, Quotient, QuotientOfNat DEF HourOf
<1> HIDE DEF p, k, H
<1>8. m \in Nat /\ m <= k
  <2>1. 2 * HoursPerDay \in Int
    BY <1>1
  <2> DEFINE n == 2 * HoursPerDay
  <2>2. n \in Nat /\ m = Min({k, n})
    BY <1>1
  <2> HIDE DEF n
  <2>3. m = IF k <= n THEN k ELSE n
    BY <1>2, <2>2, MinPair
  <2>4. QED
    BY <1>2, <2>2, <2>3
<1> HIDE DEF m
<1>9. p * m <= p * k
  BY <1>1, <1>2, <1>8
<1>10. p * m \in Nat /\ p * k \in Nat /\ h * p \in Nat /\ p * H \in Nat
  BY <1>1, <1>2, <1>6, <1>7, <1>8
<1>11. p * H < h * p + p * k
  BY <1>3, <1>4, <1>5, <1>7, <1>9, <1>10
<1>12. h >= H - k
  <2>1. SUFFICES ASSUME h + k <= H PROVE FALSE
    BY <1>2, <1>6, <1>7
  <2>2. p * (h + k) <= p * H /\ p * (h + k) = h * p + p * k
    BY <1>1, <1>2, <1>6, <1>7, <2>1
  <2>3. QED
    BY <2>2, <1>10, <1>11
<1>13. h \in RawHours
  BY <1>12 DEF RawReachesBack, H, k
<1>14. PICK s \in raw : HourOf(s[2]) = h
  BY <1>13 DEF RawHours
<1>15. s \in Sample /\ RawFrom <= s[2] /\ RawFrom \in Nat /\ s[2] \in Nat
  BY Typed, RawCoverage, StartsOf
<1>16. FloorTo(s[2], "hour") = HourFrom
  BY <1>1, <1>5, <1>14, <1>15, StartsOf DEF Hour0, Hr
<1>17. FloorTo(RawFrom, "hour") <= HourFrom
  BY <1>1, <1>15, <1>16, FloorGrows
<1>18. QED
  BY <1>17, Boundaries

LEMMA SegmentsAreTiled ==
  ASSUME TypeOK, RawReachesBack, NEW w \in Windows, NEW segs, segs = Segments(w, Coverages)
  PROVE  AllTiled(segs)
<1>0. /\ w \in Nat /\ HourTo \in Nat /\ DayTo \in Nat
      /\ FloorTo(HourTo, "hour") = HourTo /\ FloorTo(DayTo, "day") = DayTo
  BY WindowFacts, Boundaries
<1>1. \A tier, x, y : /\ Segment(tier, x, y).tier = tier
                      /\ Segment(tier, x, y).from = x /\ Segment(tier, x, y).to = y
  BY DEF Segment
<1>2. CASE ByDays(w, segs)
  <2>1. CASE DayTo < HourTo /\ segs = {Segment("day", w, DayTo), Segment("hour", DayTo, HourTo),
                                       Segment("raw", HourTo, Forever)}
    BY <1>0, <1>1, <2>1 DEF AllTiled, Tiled
  <2>2. CASE segs = {Segment("day", w, DayTo), Segment("raw", DayTo, Forever)}
    BY <1>0, <1>1, <2>2 DEF AllTiled, Tiled
  <2>3. QED
    BY <1>2, <2>1, <2>2 DEF ByDays
<1>3. CASE ByHours(w, segs)
  <2>1. CASE segs = {Segment("hour", w, HourTo), Segment("raw", HourTo, Forever)}
    BY <1>0, <1>1, <2>1 DEF AllTiled, Tiled
  <2>2. ASSUME NEW end \in Nat, NEW m \in Nat, Fills(w, HourFrom, "day", DayFrom, DayTo, end, m),
               segs = {Segment("day", w, end), Segment("hour", m, HourTo), Segment("raw", HourTo, Forever)}
        PROVE  AllTiled(segs)
    <3>1. end <= m /\ FloorTo(end, "day") = end
      BY <2>2 DEF Fills
    <3>2. QED
      BY <1>0, <1>1, <2>2, <3>1 DEF AllTiled, Tiled
  <2>3. QED
    BY <1>3, <2>1, <2>2 DEF ByHours
<1>4. CASE ByRaw(w, segs)
  <2>1. CASE segs = {Segment("raw", w, Forever)}
    BY <1>1, <2>1 DEF AllTiled
  <2>2. ASSUME NEW end \in Nat, NEW m \in Nat, Fills(w, RawFrom, "day", DayFrom, DayTo, end, m),
               segs = {Segment("day", w, end), Segment("raw", m, Forever)}
        PROVE  AllTiled(segs)
    <3>1. end <= m /\ FloorTo(end, "day") = end
      BY <2>2 DEF Fills
    <3>2. QED
      BY <1>0, <1>1, <2>2, <3>1 DEF AllTiled, Tiled
  <2>3. QED
    BY <1>4, <2>1, <2>2 DEF ByRaw
<1>5. CASE ByRawAndHours(w, segs)
  <2>1. PICK until \in Nat, after \in Nat :
          /\ Fills(w, RawFrom, "hour", HourFrom, HourTo, until, after)
          /\ \/ segs = {Segment("hour", w, until), Segment("raw", after, Forever)}
             \/ \E end \in Nat, m \in Nat :
                  /\ Fills(w, HourFrom, "day", DayFrom, DayTo, end, m) /\ Preferred(w) = "raw"
                  /\ segs = {Segment("day", w, end), Segment("hour", m, until),
                             Segment("raw", after, Forever)}
    BY <1>5 DEF ByRawAndHours
  <2>2. /\ until <= after /\ FloorTo(until, "hour") = until
        /\ HourFrom < HourTo /\ HourFrom < FloorTo(RawFrom, "hour")
    BY <2>1 DEF Fills
  <2>3. CASE segs = {Segment("hour", w, until), Segment("raw", after, Forever)}
    BY <1>0, <1>1, <2>2, <2>3 DEF AllTiled, Tiled
  <2>4. ASSUME NEW end \in Nat, NEW m \in Nat,
               Fills(w, HourFrom, "day", DayFrom, DayTo, end, m), Preferred(w) = "raw"
        PROVE  FALSE
    <3>1. w < HourFrom
      BY <2>4 DEF Fills
    <3>2. QED
      BY <2>2, <2>4, <3>1, NotBothFilled
  <2>5. QED
    BY <2>1, <2>3, <2>4
<1>6. QED
  BY <1>0, <1>2, <1>3, <1>4, <1>5, Shapes

\* So no two of them serve one measurement.
LEMMA ServedByOne ==
  ASSUME TypeOK, ~DayCameBack, NEW s \in Sample, NEW a, NEW b, Tiled(a, b),
         Serves(a, s), Serves(b, s),
         \/ a.tier = "day" /\ b.tier \in {"hour", "raw"}
         \/ a.tier = "hour" /\ b.tier = "raw"
  PROVE  FALSE
<1>0. s[2] \in Nat /\ Hour0(s) \in Nat /\ Day0(s) \in Nat /\ Hour0(s) <= s[2] /\ Day0(s) <= s[2]
  BY StartsOf
<1>1. b.from <= s[2] /\ b.from \in Nat /\ a.to \in Nat
  <2>1. b.from \in Nat /\ a.to \in Nat
    BY DEF Tiled
  <2>2. b.from <= s[2] \/ b.from <= Hour0(s)
    BY DEF Serves, Within
  <2>3. QED
    BY <2>1, <2>2, <1>0
<1>2. s[2] < a.to
  <2>1. a.tier \in Rollup /\ FloorTo(s[2], a.tier) < a.to /\ FloorTo(s[2], a.tier) \in Nat
    BY <1>0 DEF Serves, Within, Hour0, Day0, Rollup
  <2>2. a.to <= s[2] => a.to <= FloorTo(s[2], a.tier)
    BY <1>0, <1>1, <2>1, FromBoundary DEF Tiled
  <2>3. QED
    BY <1>0, <1>1, <2>1, <2>2
<1>3. a.tier = "day" /\ b.tier = "raw" /\ HourTo <= b.from
  BY <1>0, <1>1, <1>2 DEF Tiled
<1>4. InDay(s) /\ s \in raw
  BY <1>3 DEF Serves
<1>5. InHour(s)
  BY <1>4 DEF DayCameBack
<1>6. s[2] < HourTo /\ HourTo \in Nat
  BY <1>5, WithinCoverage, Boundaries
<1>7. QED
  BY <1>0, <1>1, <1>3, <1>6

LEMMA NothingCountsTwice ==
  ASSUME Whole, Exact, RawReachesBack, ~DayCameBack, NEW w \in Windows
  PROVE  CountsOnce(w)
<1>0. TypeOK /\ w \in Nat
  BY WindowFacts DEF Whole
<1>1. PICK segs : segs = Segments(w, Coverages)
  OBVIOUS
<1>2. AllTiled(segs)
  BY <1>0, <1>1, SegmentsAreTiled
<1>3. ASSUME NEW p \in Points(w, Coverages), NEW q \in Points(w, Coverages), p.of = q.of,
             NEW t, t \in p.rows, t \in q.rows
      PROVE  p = q
  <2> DEFINE s == <<p.of, t>>
  <2>1. /\ p = [of |-> p.of, tier |-> p.tier, at |-> p.at, rows |-> p.rows]
        /\ p.tier \in {"raw", "hour", "day"}
        /\ p.at = BucketOf(p.tier, t) /\ p.rows = RowsAt(p.of, p.tier, p.at)
        /\ s \in Sample
    BY <1>0, <1>3, PointIsServed
  <2>2. PICK a \in segs : a.tier = p.tier /\ Serves(a, s)
    BY <1>0, <1>1, <1>3, PointIsServed
  <2>3. /\ q = [of |-> q.of, tier |-> q.tier, at |-> q.at, rows |-> q.rows]
        /\ q.tier \in {"raw", "hour", "day"}
        /\ q.at = BucketOf(q.tier, t) /\ q.rows = RowsAt(q.of, q.tier, q.at)
    BY <1>0, <1>3, PointIsServed
  <2>4. PICK b \in segs : b.tier = q.tier /\ Serves(b, <<q.of, t>>)
    BY <1>0, <1>1, <1>3, PointIsServed
  <2>5. Serves(b, s)
    BY <1>3, <2>4
  <2> HIDE DEF s
  <2>6. p.tier = q.tier
    <3>1. ~(p.tier = "day" /\ q.tier \in {"hour", "raw"}) /\ ~(p.tier = "hour" /\ q.tier = "raw")
      BY <1>0, <1>2, <2>1, <2>2, <2>4, <2>5, ServedByOne DEF AllTiled
    <3>2. ~(q.tier = "day" /\ p.tier \in {"hour", "raw"}) /\ ~(q.tier = "hour" /\ p.tier = "raw")
      BY <1>0, <1>2, <2>1, <2>2, <2>4, <2>5, ServedByOne DEF AllTiled
    <3>3. QED
      BY <2>1, <2>3, <3>1, <3>2
  <2>7. p.at = q.at /\ p.rows = q.rows
    BY <1>3, <2>1, <2>3, <2>6
  <2>8. QED
    BY <1>3, <2>1, <2>3, <2>6, <2>7
<1>4. QED
  BY <1>3 DEF CountsOnce

\* A query misses no measurement of its whole days unless a row came too late for its
\* rollup or a purge cut a day in two, and counts none twice unless the raw retention was
\* raised or a purge met a run: whatever tier plan_segments prefers, wherever the tiers
\* begin and end, and at whatever point of a maintenance run it is answered.
THEOREM QueriesAlwaysExact == Spec => []QueriesAreExact
<1>1. Whole /\ Exact => QueriesAreExact
  BY NothingIsMissed, NothingCountsTwice DEF QueriesAreExact, CountedOnce
<1>2. QED
  BY <1>1, ExactAlways, PTL
=============================================================================
