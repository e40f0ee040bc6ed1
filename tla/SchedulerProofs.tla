--------------------------- MODULE SchedulerProofs ---------------------------
(***************************************************************************)
(* Proofs about what the scheduler runs: the passes that decide who is     *)
(* online (Presence), for any set of devices, any set of concurrent passes *)
(* of any kind and any bounds; its loops over the life of the process      *)
(* (Process), for any tables and any number of failures and crashes; and   *)
(* the scans and what the browsers are told of them (Scans), for any       *)
(* subnets and browsers.                                                   *)
(***************************************************************************)
EXTENDS Presence, Process, Scans, TLAPS

-----------------------------------------------------------------------------
(* Presence.                                                                 *)

USE DevicesAssumption, KindAssumption, BoundsAssumption

\* The verdict a judged copy carries, and the copy with it.
Verdict(p, d, answered) ==
  CASE answered -> "seen"
    [] ~answered /\ CountsMiss(p, d) -> "missed"
    [] OTHER -> "skipped"

\* Counting stays within the bound and never goes down.
LEMMA BumpFacts ==
  ASSUME NEW n \in 0 .. MaxMissed
  PROVE  /\ Bump(n) \in 0 .. MaxMissed
         /\ Bump(n) >= n
         /\ \A m \in 0 .. MaxMissed : m <= n => Bump(m) <= Bump(n)
         /\ \A m \in 1 .. MaxMissed : m - 1 <= n => m <= Bump(n)
BY DEF Bump

\* What a pass makes of a well-typed copy is a well-typed row.
LEMMA RaisedType ==
  ASSUME NEW c \in Copy
  PROVE  Raised(c) \in 0 .. MaxMissed
BY DEF Raised, Copy

\* A miss keeps the device online exactly while the counter is below the limit.
LEMMA MissedOnline ==
  ASSUME NEW c \in Copy
  PROVE  /\ Missed(c).online <=> c.online /\ Bump(Raised(c)) < c.limit
         /\ c.online => Missed(c).missed = Bump(Raised(c))
BY DEF Missed

\* What a commit wants to write is a row, if its copy is well typed.
LEMMA ResultType ==
  ASSUME NEW c \in Copy
  PROVE  Result(c) \in Row
<1>1. Missed(c) \in Row
  BY RaisedType, BumpFacts DEF Missed, Row
<1>2. Seen(c) \in Row
  BY DEF Seen, Row
<1>3. /\ [online |-> c.online, missed |-> c.missed] \in Row
      /\ [online |-> FALSE, missed |-> c.missed] \in Row
  BY DEF Copy, Row
<1> QED
  BY <1>1, <1>2, <1>3 DEF Result

\* The row after a commit's UPDATE is well typed.
LEMMA MergeType ==
  ASSUME NEW r \in Row, NEW c \in Copy
  PROVE  Merge(r, c) \in Row
BY ResultType DEF Merge, Row

\* Showing a row online or offline keeps its type.
LEMMA WokenType ==
  ASSUME NEW r \in Row, NEW o \in BOOLEAN
  PROVE  [r EXCEPT !.online = o] \in Row
BY DEF Row

\* New rows of the right type leave everything that is told of them in its type.
LEMMA ShowsType ==
  ASSUME TypeOK, NEW new \in [Devices -> Row], NEW P, NEW told, NEW quiet,
         Shows(new, P, told, quiet)
  PROVE  /\ row' \in [Devices -> Row]
         /\ recorded' \in [Devices -> BOOLEAN]
         /\ alarmed' \in [Devices -> BOOLEAN]
         /\ silent' \in [Devices -> BOOLEAN]
<1>1. row' = new
  BY DEF Shows
<1>2. \A d \in Devices : new[d].online \in BOOLEAN
  BY DEF Row
<1> QED
  BY <1>1, <1>2 DEF Shows, InFlight, TypeOK

\* The empty copy is a copy.
LEMMA NoCopyType == NoCopy \in Copy
BY DEF NoCopy, Copy, Marks

\* Marking a copy changes its mark and nothing else.
LEMMA MarkType ==
  ASSUME NEW c \in Copy, NEW m \in Marks
  PROVE  [c EXCEPT !.mark = m] \in Copy
BY DEF Copy

\* Every action keeps the variables in their types.
THEOREM TypeCorrect == Spec => []TypeOK
<1>1. Init => TypeOK
  BY NoCopyType DEF Init, TypeOK, Row
<1>2. TypeOK /\ [Next]_vars => TypeOK'
  <2> SUFFICES ASSUME TypeOK, [Next]_vars PROVE TypeOK'
    OBVIOUS
  <2>1. ASSUME NEW p \in Passes, NEW S \in SUBSET Devices, Load(p, S) PROVE TypeOK'
    <3>0. /\ (IF Kind[p] \in {"sync", "report"} THEN 0 ELSE threshold) \in 0 .. MaxMissed
          /\ \A d \in Devices : row[d] \in Row
      BY DEF TypeOK
    <3>1. \A d \in Devices :
            [mark |-> "todo", online |-> row[d].online, missed |-> row[d].missed,
             limit |-> IF Kind[p] \in {"sync", "report"} THEN 0 ELSE threshold,
             stale |-> Kind[p] = "probe" /\ d \in Agents /\ ~fresh[d],
             parked |-> Kind[p] = "sync" /\ parked[d]] \in Copy
      BY <3>0 DEF TypeOK, Copy, Row, Marks
    <3>2. copy' \in [Passes -> [Devices -> Copy]]
      BY <2>1, <3>1, NoCopyType DEF Load, TypeOK
    <3>3. trusted' \in [Devices -> BOOLEAN]
      BY <2>1 DEF Load, TypeOK
    <3> QED
      BY <2>1, <3>2, <3>3 DEF Load, TypeOK
  <2>2. ASSUME NEW p \in Passes, NEW d \in Devices, NEW a \in BOOLEAN, Judge(p, d, a)
        PROVE  TypeOK'
    <3>1. Verdict(p, d, a) \in Marks
      BY DEF Verdict, Marks
    <3>2. [copy[p][d] EXCEPT !.mark = Verdict(p, d, a)] \in Copy
      <4>1. copy[p][d] \in Copy
        BY DEF TypeOK
      <4> QED
        BY <3>1, <4>1, MarkType
    <3>3. copy' = [copy EXCEPT ![p][d] = [copy[p][d] EXCEPT !.mark = Verdict(p, d, a)]]
      BY <2>2 DEF Judge, Verdict
    <3>4. copy' \in [Passes -> [Devices -> Copy]]
      BY <3>2, <3>3 DEF TypeOK
    <3>5. alarmed' \in [Devices -> BOOLEAN]
      BY <2>2 DEF Judge, TypeOK
    <3>6. streak' \in [Devices -> 0 .. MaxMissed]
      BY <2>2, BumpFacts DEF Judge, TypeOK
    <3> QED
      BY <2>2, <3>4, <3>5, <3>6 DEF Judge, TypeOK
  <2>3. ASSUME NEW p \in Passes, Commit(p) PROVE TypeOK'
    <3>1. [d \in Devices |-> CommittedRow(p, d)] \in [Devices -> Row]
      BY MergeType DEF CommittedRow, TypeOK
    <3>2. /\ row' \in [Devices -> Row] /\ recorded' \in [Devices -> BOOLEAN]
          /\ alarmed' \in [Devices -> BOOLEAN] /\ silent' \in [Devices -> BOOLEAN]
      BY <2>3, <3>1, ShowsType DEF Commit
    <3>3. copy' \in [Passes -> [Devices -> Copy]]
      BY <2>3, NoCopyType DEF Commit, TypeOK
    <3>4. parked' \in [Devices -> BOOLEAN] /\ fresh' \in [Devices -> BOOLEAN]
      BY <2>3 DEF Commit, MergeParked, TypeOK
    <3>5. trusted' \in [Devices -> BOOLEAN]
      BY <2>3 DEF Commit, TypeOK
    <3> QED
      BY <2>3, <3>2, <3>3, <3>4, <3>5 DEF Commit, TypeOK
  <2>4. ASSUME NEW P \in SUBSET Passes, Discard(P)
        PROVE  /\ copy' \in [Passes -> [Devices -> Copy]]
               /\ disturbances' \in 0 .. MaxDisturbances
               /\ UNCHANGED <<threshold, fresh, streak>>
    BY <2>4, NoCopyType DEF Discard, Disturb, TypeOK
  <2>5. ASSUME NEW p \in Passes, CommitFails(p) PROVE TypeOK'
    <3>1. /\ row' \in [Devices -> Row] /\ recorded' \in [Devices -> BOOLEAN]
          /\ alarmed' \in [Devices -> BOOLEAN] /\ silent' \in [Devices -> BOOLEAN]
      <4>1. row \in [Devices -> Row]
        BY DEF TypeOK
      <4> QED
        BY <2>5, <4>1, ShowsType DEF CommitFails
    <3>2. trusted' \in [Devices -> BOOLEAN] /\ parked' \in [Devices -> BOOLEAN]
      BY <2>5 DEF CommitFails, TypeOK
    <3>3. Discard({p})
      BY <2>5 DEF CommitFails
    <3> QED
      BY <2>4, <3>1, <3>2, <3>3 DEF TypeOK
  <2>6. ASSUME NEW home \in SUBSET Devices, Restart(home) PROVE TypeOK'
    <3> DEFINE new == [d \in Devices |-> IF parked[d] THEN [row[d] EXCEPT !.online = d \in home]
                                                     ELSE row[d]]
    <3>1. new \in [Devices -> Row]
      <4> SUFFICES ASSUME NEW d \in Devices PROVE new[d] \in Row
        OBVIOUS
      <4>1. row[d] \in Row
        BY DEF TypeOK
      <4>2. (d \in home) \in BOOLEAN
        OBVIOUS
      <4>3. [row[d] EXCEPT !.online = d \in home] \in Row
        BY <4>1, <4>2, WokenType
      <4> QED
        BY <4>1, <4>3
    <3>2. Shows(new, {}, {}, {d \in Devices : parked[d]})
      BY <2>6 DEF Restart
    <3> HIDE DEF new
    <3>3. /\ row' \in [Devices -> Row] /\ recorded' \in [Devices -> BOOLEAN]
          /\ alarmed' \in [Devices -> BOOLEAN] /\ silent' \in [Devices -> BOOLEAN]
      BY <3>1, <3>2, ShowsType
    <3>4. trusted' \in [Devices -> BOOLEAN] /\ parked' \in [Devices -> BOOLEAN]
      BY <2>6 DEF Restart, TypeOK
    <3>5. Discard(Passes)
      BY <2>6 DEF Restart
    <3> QED
      BY <2>4, <3>3, <3>4, <3>5 DEF TypeOK
  <2>7. ASSUME NEW d \in Devices, RelayWake(d) PROVE TypeOK'
    <3>1. [row EXCEPT ![d].online = TRUE] \in [Devices -> Row]
      <4>1. row[d] \in Row
        BY DEF TypeOK
      <4> QED
        BY <4>1, WokenType DEF TypeOK
    <3>2. /\ row' \in [Devices -> Row] /\ recorded' \in [Devices -> BOOLEAN]
          /\ alarmed' \in [Devices -> BOOLEAN] /\ silent' \in [Devices -> BOOLEAN]
      BY <2>7, <3>1, ShowsType DEF RelayWake
    <3>3. /\ streak' \in [Devices -> 0 .. MaxMissed] /\ trusted' \in [Devices -> BOOLEAN]
          /\ disturbances' \in 0 .. MaxDisturbances
      BY <2>7 DEF RelayWake, Disturb, TypeOK
    <3>4. UNCHANGED <<parked, threshold, fresh, copy>>
      BY <2>7 DEF RelayWake
    <3> QED
      BY <3>2, <3>3, <3>4 DEF TypeOK
  <2>8. ASSUME NEW p \in Passes, NEW d \in Devices, Displace(p, d) PROVE TypeOK'
    <3>1. [copy[p][d] EXCEPT !.mark = "displaced"] \in Copy
      <4>1. copy[p][d] \in Copy
        BY DEF TypeOK
      <4>2. "displaced" \in Marks
        BY DEF Marks
      <4> QED
        BY <4>1, <4>2, MarkType
    <3>2. copy' \in [Passes -> [Devices -> Copy]]
      BY <2>8, <3>1 DEF Displace, TypeOK
    <3> QED
      BY <2>8, <3>2 DEF Displace, TypeOK
  <2>9. ASSUME NEW d \in Devices, AgentFallsSilent(d) PROVE TypeOK'
    BY <2>9 DEF AgentFallsSilent, TypeOK
  <2>10. ASSUME NEW t \in Thresholds, ChangeThreshold(t) PROVE TypeOK'
    BY <2>10 DEF ChangeThreshold, TypeOK
  <2>11. CASE UNCHANGED vars
    BY <2>11 DEF vars, TypeOK
  <2> QED
    BY <2>1, <2>2, <2>3, <2>5, <2>6, <2>7, <2>8, <2>9, <2>10, <2>11 DEF Next
<1> QED
  BY <1>1, <1>2, PTL DEF Spec

-----------------------------------------------------------------------------
(* The outage report.                                                       *)

\* A copy that takes an alerting device offline has triggered its webhook already.
AlarmFirst ==
  \A p \in Passes, d \in Devices :
    GoesOffline(copy[p][d]) /\ d \in Alerting => alarmed[d]

ReportInv == OutageIsReported /\ AlarmFirst

\* A commit that takes a row offline has a copy that counted the last miss, or one the
\* sync displaced.
LEMMA OfflineWrite ==
  ASSUME NEW r \in Row, NEW c \in Copy, r.online, ~Merge(r, c).online
  PROVE  GoesOffline(c) \/ c.mark = "displaced"
<1> SUFFICES ASSUME c.mark # "displaced" PROVE GoesOffline(c)
  OBVIOUS
<1>1. Result(c).online # c.online /\ ~Result(c).online
  BY DEF Merge
<1> c.online \in BOOLEAN
  BY DEF Copy
<1>2. c.mark # "seen"
  BY <1>1 DEF Result, Seen
<1>3. c.mark = "missed"
  BY <1>1, <1>2 DEF Result
<1>4. Result(c) = Missed(c)
  BY <1>3 DEF Result
<1>5. c.online
  <2>1. Result(c).online \in BOOLEAN
    BY ResultType DEF Row
  <2> QED
    BY <1>1, <2>1
<1>6. ~Missed(c).online
  BY <1>1, <1>4
<1> QED
  BY <1>3, <1>5, <1>6 DEF GoesOffline

\* The empty copy takes nothing offline.
LEMMA NoCopyStays == ~GoesOffline(NoCopy)
BY DEF GoesOffline, NoCopy

\* What a step that writes rows has to show: a verdict still open afterwards is one of
\* the passes it leaves in flight, and a device it takes offline is told or quiet.
LEMMA ShowsReports ==
  ASSUME TypeOK, ReportInv, NEW new \in [Devices -> Row], NEW P \in SUBSET Passes,
         NEW told, NEW quiet, Shows(new, P, told, quiet),
         \A q \in Passes, d \in Devices :
           copy'[q][d] = NoCopy \/ (q \in P /\ copy'[q][d] = copy[q][d]),
         \A d \in Devices : row[d].online /\ ~new[d].online =>
           \/ d \in quiet
           \/ \E q \in Passes : d \in told /\ GoesOffline(copy[q][d])
  PROVE  ReportInv'
<1>1. AlarmFirst'
  BY NoCopyStays DEF AlarmFirst, Shows, InFlight
<1>2. ASSUME NEW d \in Devices, ~new[d].online, d \in Alerting, ~silent'[d]
      PROVE  recorded'[d] /\ alarmed'[d]
  <2>1. /\ recorded'[d] = (recorded[d] \/ d \in told)
        /\ alarmed'[d] = (alarmed[d] \/ InFlight(d, P))
        /\ ~silent[d] /\ ~(row[d].online /\ d \in quiet)
    BY <1>2 DEF Shows, TypeOK
  <2>2. CASE ~row[d].online
    BY <1>2, <2>1, <2>2 DEF ReportInv, OutageIsReported
  <2>3. CASE row[d].online
    BY <1>2, <2>1, <2>3 DEF ReportInv, AlarmFirst
  <2> QED
    BY <2>2, <2>3
<1>3. row' = new
  BY DEF Shows
<1> QED
  BY <1>1, <1>2, <1>3 DEF ReportInv, OutageIsReported

\* An alerting device shown offline after failed checks is in the history and was
\* announced in this outage.
THEOREM OutageReported == Spec => []OutageIsReported
<1>1. Init => ReportInv
  <2> SUFFICES ASSUME Init PROVE ReportInv
    OBVIOUS
  <2>1. \A d \in Devices : row[d].online
    BY DEF Init
  <2>2. \A p \in Passes, d \in Devices : copy[p][d] = NoCopy
    BY DEF Init
  <2> QED
    BY <2>1, <2>2, NoCopyStays DEF ReportInv, OutageIsReported, AlarmFirst
<1>2. TypeOK /\ ReportInv /\ [Next]_vars => ReportInv'
  <2> SUFFICES ASSUME TypeOK, ReportInv, [Next]_vars PROVE ReportInv'
    OBVIOUS
  <2>1. ASSUME NEW p \in Passes, NEW S \in SUBSET Devices, Load(p, S) PROVE ReportInv'
    <3>1. OutageIsReported'
      BY <2>1 DEF Load, OutageIsReported, ReportInv
    <3>2. \A d \in Devices : ~GoesOffline(copy'[p][d])
      BY <2>1, NoCopyStays DEF Load, TypeOK, GoesOffline
    <3>3. \A q \in Passes \ {p} : copy'[q] = copy[q]
      BY <2>1 DEF Load, TypeOK
    <3>4. alarmed' = alarmed
      BY <2>1 DEF Load
    <3> QED
      BY <3>1, <3>2, <3>3, <3>4 DEF AlarmFirst, ReportInv
  <2>2. ASSUME NEW p \in Passes, NEW d \in Devices, NEW a \in BOOLEAN, Judge(p, d, a)
        PROVE  ReportInv'
    <3>1. OutageIsReported'
      BY <2>2 DEF Judge, OutageIsReported, TypeOK, ReportInv
    <3> DEFINE c == [copy[p][d] EXCEPT !.mark = Verdict(p, d, a)]
    <3>2. /\ copy' = [copy EXCEPT ![p][d] = c]
          /\ alarmed' = [alarmed EXCEPT ![d] = @ \/ (GoesOffline(c) /\ d \in Alerting)]
      BY <2>2 DEF Judge, Verdict
    <3> HIDE DEF c
    <3>3. ASSUME NEW q \in Passes, NEW e \in Devices,
                 GoesOffline(copy'[q][e]), e \in Alerting
          PROVE  alarmed'[e]
      <4>1. CASE q = p /\ e = d
        <5>1. copy'[q][e] = c
          BY <3>2, <4>1 DEF TypeOK
        <5> QED
          BY <3>2, <3>3, <4>1, <5>1 DEF TypeOK
      <4>2. CASE ~(q = p /\ e = d)
        <5>1. copy'[q][e] = copy[q][e]
          BY <3>2, <4>2 DEF TypeOK
        <5>2. alarmed[e]
          BY <3>3, <5>1 DEF AlarmFirst, ReportInv
        <5> QED
          BY <3>2, <5>2 DEF TypeOK
      <4> QED
        BY <4>1, <4>2
    <3> QED
      BY <3>1, <3>3 DEF AlarmFirst, ReportInv
  <2>3. ASSUME NEW p \in Passes, Commit(p) PROVE ReportInv'
    <3> DEFINE new == [d \in Devices |-> CommittedRow(p, d)]
               told == {d \in Judged(p) \cap Alerting : GoesOffline(copy[p][d])}
               quiet == {d \in Devices : copy[p][d].mark = "displaced"}
    <3>1. new \in [Devices -> Row]
      BY MergeType DEF CommittedRow, TypeOK
    <3>2. Shows(new, Passes \ {p}, told, quiet)
      BY <2>3 DEF Commit
    <3>3. ASSUME NEW q \in Passes, NEW d \in Devices
          PROVE  copy'[q][d] = NoCopy \/ (q \in Passes \ {p} /\ copy'[q][d] = copy[q][d])
                 \/ (q = p /\ d \notin Judged(p) /\ copy'[q][d] = copy[q][d])
      BY <2>3 DEF Commit, TypeOK
    <3>4. \A d \in Devices \ Judged(p) : ~GoesOffline(copy[p][d])
      BY DEF Judged, GoesOffline
    <3>5. ASSUME NEW d \in Devices, row[d].online, ~new[d].online
          PROVE  d \in quiet \/ (d \in Judged(p) /\ GoesOffline(copy[p][d]))
      <4>1. d \in Judged(p) /\ ~Merge(row[d], copy[p][d]).online
        BY <3>5 DEF CommittedRow
      <4>2. copy[p][d] \in Copy /\ row[d] \in Row
        BY DEF TypeOK
      <4> QED
        BY <3>5, <4>1, <4>2, OfflineWrite
    <3> HIDE DEF new
    <3>6. AlarmFirst'
      <4> SUFFICES ASSUME NEW q \in Passes, NEW d \in Devices,
                          GoesOffline(copy'[q][d]), d \in Alerting
                   PROVE  alarmed'[d]
        BY DEF AlarmFirst
      <4>1. q \in Passes \ {p} /\ copy'[q][d] = copy[q][d]
        BY <3>3, <3>4, NoCopyStays
      <4> QED
        BY <3>2, <4>1 DEF Shows, InFlight
    <3>7. ASSUME NEW d \in Devices, ~new[d].online, d \in Alerting, ~silent'[d]
          PROVE  recorded'[d] /\ alarmed'[d]
      <4>1. /\ recorded'[d] = (recorded[d] \/ d \in told)
            /\ alarmed'[d] = (alarmed[d] \/ InFlight(d, Passes \ {p}))
            /\ ~silent[d] /\ ~(row[d].online /\ d \in quiet)
        BY <3>2, <3>7 DEF Shows, TypeOK
      <4>2. CASE ~row[d].online
        BY <3>7, <4>1, <4>2 DEF ReportInv, OutageIsReported
      <4>3. CASE row[d].online
        BY <3>5, <3>7, <4>1, <4>3 DEF ReportInv, AlarmFirst
      <4> QED
        BY <4>2, <4>3
    <3>8. row' = new
      BY <3>2 DEF Shows
    <3> QED
      BY <3>6, <3>7, <3>8 DEF ReportInv, OutageIsReported
  <2>4. ASSUME NEW p \in Passes, CommitFails(p) PROVE ReportInv'
    <3>1. row \in [Devices -> Row]
      BY DEF TypeOK
    <3>2. \A q \in Passes, d \in Devices :
            copy'[q][d] = NoCopy \/ (q \in Passes \ {p} /\ copy'[q][d] = copy[q][d])
      BY <2>4 DEF CommitFails, Discard, TypeOK
    <3> QED
      BY <2>4, <3>1, <3>2, ShowsReports DEF CommitFails
  <2>5. ASSUME NEW home \in SUBSET Devices, Restart(home) PROVE ReportInv'
    <3> DEFINE new == [d \in Devices |-> IF parked[d] THEN [row[d] EXCEPT !.online = d \in home]
                                                     ELSE row[d]]
    <3>1. new \in [Devices -> Row]
      <4> SUFFICES ASSUME NEW d \in Devices PROVE new[d] \in Row
        OBVIOUS
      <4>1. row[d] \in Row
        BY DEF TypeOK
      <4>2. (d \in home) \in BOOLEAN
        OBVIOUS
      <4>3. [row[d] EXCEPT !.online = d \in home] \in Row
        BY <4>1, <4>2, WokenType
      <4> QED
        BY <4>1, <4>3
    <3>2. Shows(new, {}, {}, {d \in Devices : parked[d]})
      BY <2>5 DEF Restart
    <3>3. \A q \in Passes, d \in Devices : copy'[q][d] = NoCopy
      BY <2>5 DEF Restart, Discard, TypeOK
    <3>4. \A d \in Devices : row[d].online /\ ~new[d].online => parked[d]
      OBVIOUS
    <3> HIDE DEF new
    <3> QED
      BY <3>1, <3>2, <3>3, <3>4, ShowsReports
  <2>6. ASSUME NEW d \in Devices, RelayWake(d) PROVE ReportInv'
    <3> DEFINE new == [row EXCEPT ![d].online = TRUE]
    <3>1. new \in [Devices -> Row]
      <4>1. row[d] \in Row
        BY DEF TypeOK
      <4> QED
        BY <4>1, WokenType DEF TypeOK
    <3>2. \A e \in Devices : row[e].online => new[e].online
      BY DEF TypeOK, Row
    <3>3. copy' = copy /\ Shows(new, Passes, {}, {})
      BY <2>6 DEF RelayWake
    <3> HIDE DEF new
    <3> QED
      BY <3>1, <3>2, <3>3, ShowsReports
  <2>7. ASSUME NEW p \in Passes, NEW d \in Devices, Displace(p, d) PROVE ReportInv'
    <3>1. \A q \in Passes, e \in Devices :
            copy'[q][e] = copy[q][e] \/ copy'[q][e].mark = "displaced"
      BY <2>7 DEF Displace, TypeOK, Copy
    <3> QED
      BY <2>7, <3>1 DEF Displace, ReportInv, OutageIsReported, AlarmFirst, GoesOffline
  <2>8. ASSUME NEW d \in Devices, AgentFallsSilent(d) PROVE ReportInv'
    BY <2>8 DEF AgentFallsSilent, OutageIsReported, AlarmFirst, ReportInv
  <2>9. ASSUME NEW t \in Thresholds, ChangeThreshold(t) PROVE ReportInv'
    BY <2>9 DEF ChangeThreshold, OutageIsReported, AlarmFirst, ReportInv
  <2>10. CASE UNCHANGED vars
    BY <2>10 DEF vars, OutageIsReported, AlarmFirst, ReportInv
  <2> QED
    BY <2>1, <2>2, <2>3, <2>4, <2>5, <2>6, <2>7, <2>8, <2>9, <2>10 DEF Next
<1>3. ReportInv => OutageIsReported
  BY DEF ReportInv
<1> QED
  BY <1>1, <1>2, <1>3, TypeCorrect, PTL DEF Spec

-----------------------------------------------------------------------------
(* The hysteresis.                                                          *)

\* While d is trusted, at most one session holds it, with the row as it is.
Undisturbed(d) ==
  /\ \A p, q \in Passes : copy[p][d].mark # "none" /\ copy[q][d].mark # "none" => p = q
  /\ \A p \in Passes : copy[p][d].mark # "none" =>
       copy[p][d].online = row[d].online /\ copy[p][d].missed = row[d].missed

\* The counter of an online row never runs ahead of the failed checks in a row: a
\* success not yet committed has a reset to come, a failure not yet committed has
\* been counted in the streak already.
CounterBacked(d) ==
  row[d].online =>
    /\ (\A p \in Passes : copy[p][d].mark # "seen") => row[d].missed <= streak[d]
    /\ \A p \in Passes : copy[p][d].mark = "missed" => Bump(row[d].missed) <= streak[d]

TrustInv == \A d \in Devices : trusted[d] => Undisturbed(d) /\ CounterBacked(d)

\* Initially every device is online, undisturbed and at zero.
LEMMA TrustInit == Init => TrustInv
<1> SUFFICES ASSUME Init, NEW d \in Devices PROVE Undisturbed(d) /\ CounterBacked(d)
  BY DEF TrustInv
<1>1. \A p \in Passes : copy[p][d].mark = "none"
  BY DEF Init, NoCopy
<1>2. row[d].missed = 0 /\ streak[d] = 0
  BY DEF Init
<1> QED
  BY <1>1, <1>2 DEF Undisturbed, CounterBacked

\* A pass takes a fresh copy: it holds the device alone, or the device is contested.
LEMMA TrustLoad ==
  ASSUME TypeOK, TrustInv, NEW p \in Passes, NEW S \in SUBSET Devices, Load(p, S)
  PROVE  TrustInv'
<1> SUFFICES ASSUME NEW d \in Devices, trusted'[d]
             PROVE  Undisturbed(d)' /\ CounterBacked(d)'
  BY DEF TrustInv
<1>1. trusted[d] /\ ~(d \in S /\ OthersHold(p, d))
  BY DEF Load
<1>2. Undisturbed(d) /\ CounterBacked(d)
  BY <1>1 DEF TrustInv
<1>3. row' = row /\ streak' = streak
  BY DEF Load
<1>4. \A q \in Passes \ {p} : copy'[q][d] = copy[q][d]
  BY DEF Load, TypeOK
<1>5. copy[p][d].mark = "none"
  BY DEF Load, Idle
<1>6. CASE d \in S
  <2>1. /\ copy'[p][d].mark = "todo"
        /\ copy'[p][d].online = row[d].online /\ copy'[p][d].missed = row[d].missed
    BY <1>6 DEF Load, TypeOK
  <2>2. \A q \in Passes \ {p} : copy[q][d].mark = "none"
    BY <1>1, <1>6 DEF OthersHold
  <2> QED
    BY <1>2, <1>3, <1>4, <1>5, <2>1, <2>2 DEF Undisturbed, CounterBacked
<1>7. CASE d \notin S
  <2>1. copy'[p][d].mark = "none"
    BY <1>7 DEF Load, TypeOK, NoCopy
  <2> QED
    BY <1>2, <1>3, <1>4, <1>5, <2>1 DEF Undisturbed, CounterBacked
<1> QED
  BY <1>6, <1>7

\* A verdict: a success starts a new streak, a failure lengthens it.
LEMMA TrustJudge ==
  ASSUME TypeOK, TrustInv, NEW p \in Passes, NEW e \in Devices, NEW a \in BOOLEAN,
         Judge(p, e, a)
  PROVE  TrustInv'
<1> SUFFICES ASSUME NEW d \in Devices, trusted'[d]
             PROVE  Undisturbed(d)' /\ CounterBacked(d)'
  BY DEF TrustInv
<1>1. trusted' = trusted /\ row' = row
  BY DEF Judge
<1>2. Undisturbed(d) /\ CounterBacked(d)
  BY <1>1 DEF TrustInv
<1> DEFINE v == Verdict(p, e, a)
<1>3. copy' = [copy EXCEPT ![p][e] = [copy[p][e] EXCEPT !.mark = v]]
  BY DEF Judge, Verdict
<1>4. streak' = [streak EXCEPT ![e] = IF a THEN 0 ELSE Bump(@)]
  BY DEF Judge
<1>5. v \in {"seen", "missed", "skipped"} /\ (v = "seen" <=> a)
  BY DEF Verdict
<1> HIDE DEF v
<1>6. CASE d # e
  <2>1. (\A q \in Passes : copy'[q][d] = copy[q][d]) /\ streak'[d] = streak[d]
    BY <1>3, <1>4, <1>6 DEF TypeOK
  <2> QED
    BY <1>1, <1>2, <2>1 DEF Undisturbed, CounterBacked
<1>7. CASE d = e
  <2>1. copy[p][d] \in Copy /\ row[d].missed \in 0 .. MaxMissed /\ streak[d] \in 0 .. MaxMissed
    BY DEF TypeOK, Row
  <2>2. /\ copy'[p][d].mark = v
        /\ copy'[p][d].online = copy[p][d].online /\ copy'[p][d].missed = copy[p][d].missed
    BY <1>3, <1>7, <2>1 DEF TypeOK, Copy
  <2>3. \A q \in Passes \ {p} : copy'[q][d] = copy[q][d]
    BY <1>3 DEF TypeOK
  <2>4. copy[p][d].mark = "todo"
    BY <1>7 DEF Judge
  <2>5. \A q \in Passes \ {p} : copy[q][d].mark = "none"
    BY <1>2, <2>4 DEF Undisturbed
  <2>6. Undisturbed(d)'
    BY <1>1, <1>2, <2>2, <2>3, <2>4, <2>5 DEF Undisturbed
  <2>7. row[d].online => row[d].missed <= streak[d]
    BY <1>2, <2>4, <2>5 DEF CounterBacked
  <2>8. ASSUME a PROVE CounterBacked(d)'
    BY <1>1, <1>5, <2>2, <2>3, <2>5, <2>8 DEF CounterBacked
  <2>9. ASSUME ~a PROVE CounterBacked(d)'
    <3>1. streak'[d] = Bump(streak[d])
      BY <1>4, <1>7, <2>9 DEF TypeOK
    <3>2. row[d].online => row[d].missed <= streak'[d] /\ Bump(row[d].missed) <= streak'[d]
      BY <2>1, <2>7, <3>1 DEF Bump
    <3> QED
      BY <1>1, <3>2 DEF CounterBacked
  <2> QED
    BY <2>6, <2>8, <2>9
<1> QED
  BY <1>6, <1>7

\* The sole holder's commit leaves a row that is offline or backed by the streak.
LEMMA CommitBacked ==
  ASSUME TypeOK, NEW p \in Passes, NEW d \in Devices, d \in Judged(p),
         Undisturbed(d), CounterBacked(d)
  PROVE  LET r == Merge(row[d], copy[p][d])
         IN  /\ r = Result(copy[p][d])
             /\ r.online => r.missed <= streak[d]
<1> DEFINE c == copy[p][d]
<1> DEFINE r == Merge(row[d], c)
<1>1. c \in Copy /\ row[d] \in Row /\ streak[d] \in 0 .. MaxMissed
  BY DEF TypeOK
<1>2. c.mark \in {"seen", "missed", "skipped", "displaced"}
  BY <1>1 DEF Judged, Copy, Marks
<1>3. c.online = row[d].online /\ c.missed = row[d].missed
  BY <1>2 DEF Undisturbed
<1>4. Result(c) \in Row /\ r \in Row
  BY <1>1, ResultType, MergeType
<1>5. r.online = Result(c).online /\ r.missed = Result(c).missed
  BY <1>3 DEF Merge
<1>6. r = Result(c)
  BY <1>4, <1>5 DEF Row
<1>7. ASSUME Result(c).online PROVE Result(c).missed <= streak[d]
  <2>1. CASE c.mark = "seen"
    BY <1>1, <2>1 DEF Result, Seen
  <2>2. CASE c.mark = "missed"
    <3>1. Result(c) = Missed(c)
      BY <2>2 DEF Result
    <3>2. c.online /\ Bump(Raised(c)) < c.limit
      BY <1>1, <1>7, <3>1, MissedOnline
    <3>3. Raised(c) = c.missed
      BY <1>1, <3>2 DEF Raised, Bump, Copy
    <3>4. Result(c).missed = Bump(row[d].missed)
      BY <1>1, <1>3, <3>1, <3>2, <3>3, MissedOnline
    <3> QED
      BY <1>3, <2>2, <3>2, <3>4 DEF CounterBacked
  <2>3. CASE c.mark = "skipped"
    <3>1. Result(c) = [online |-> c.online, missed |-> c.missed]
      BY <2>3 DEF Result
    <3>2. \A q \in Passes : copy[q][d].mark # "seen"
      BY <2>3 DEF Undisturbed
    <3> QED
      BY <1>3, <1>7, <3>1, <3>2 DEF CounterBacked
  <2>4. c.mark # "displaced"
    BY <1>7 DEF Result
  <2> QED
    BY <1>2, <2>1, <2>2, <2>3, <2>4
<1> QED
  BY <1>5, <1>6, <1>7

\* A commit: the sole holder's row stays backed; a clean reset starts trust anew.
LEMMA TrustCommit ==
  ASSUME TypeOK, TrustInv, NEW p \in Passes, Commit(p)
  PROVE  TrustInv'
<1> SUFFICES ASSUME NEW d \in Devices, trusted'[d]
             PROVE  Undisturbed(d)' /\ CounterBacked(d)'
  BY DEF TrustInv
<1>1. /\ row'[d] = CommittedRow(p, d) /\ streak' = streak
      /\ \A q \in Passes \ {p} : copy'[q][d] = copy[q][d]
      /\ copy'[p][d] = IF d \in Judged(p) THEN NoCopy ELSE copy[p][d]
  BY DEF Commit, Shows, TypeOK
<1>2. \/ trusted[d]
      \/ /\ copy[p][d].mark = "seen" /\ ~OthersHold(p, d)
         /\ CommittedRow(p, d) = [online |-> TRUE, missed |-> 0]
  BY DEF Commit
<1>3. CASE d \notin Judged(p)
  <2>1. row'[d] = row[d]
    BY <1>1, <1>3 DEF CommittedRow
  <2>2. \A q \in Passes : copy'[q][d] = copy[q][d]
    BY <1>1, <1>3
  <2>3. trusted[d]
    BY <1>2, <1>3 DEF Judged
  <2>4. Undisturbed(d) /\ CounterBacked(d)
    BY <2>3 DEF TrustInv
  <2> QED
    BY <1>1, <2>1, <2>2, <2>4 DEF Undisturbed, CounterBacked
<1>4. CASE d \in Judged(p)
  <2>1. copy'[p][d].mark = "none"
    BY <1>1, <1>4 DEF NoCopy
  <2>2. \A q \in Passes : copy'[q][d].mark = "none"
    <3>1. CASE trusted[d]
      <4>1. Undisturbed(d)
        BY <3>1 DEF TrustInv
      <4>2. copy[p][d].mark # "none"
        BY <1>4 DEF Judged
      <4>3. \A q \in Passes \ {p} : copy[q][d].mark = "none"
        BY <4>1, <4>2 DEF Undisturbed
      <4> QED
        BY <1>1, <2>1, <4>3
    <3>2. CASE ~OthersHold(p, d)
      BY <1>1, <2>1, <3>2 DEF OthersHold
    <3> QED
      BY <1>2, <3>1, <3>2
  <2>3. row'[d].online => row'[d].missed <= streak[d]
    <3>1. CASE trusted[d]
      <4>1. Undisturbed(d) /\ CounterBacked(d)
        BY <3>1 DEF TrustInv
      <4> QED
        BY <1>1, <1>4, <4>1, CommitBacked DEF CommittedRow
    <3>2. CASE CommittedRow(p, d) = [online |-> TRUE, missed |-> 0]
      BY <1>1, <3>2 DEF TypeOK
    <3> QED
      BY <1>2, <3>1, <3>2
  <2> QED
    BY <1>1, <2>2, <2>3 DEF Undisturbed, CounterBacked
<1> QED
  BY <1>3, <1>4

\* Lost sessions: their failures stay in the streak, their successes end the trust.  A
\* row stays as it is or is repaired to offline.
LEMMA TrustDiscard ==
  ASSUME TypeOK, TrustInv, NEW P \in SUBSET Passes, Discard(P), NEW d \in Devices,
         trusted[d], LosesNoSuccess(P, d),
         row'[d] = row[d] \/ (P = Passes /\ ~row'[d].online)
  PROVE  Undisturbed(d)' /\ CounterBacked(d)'
<1>1. \A p \in P : copy[p][d].mark # "seen"
  BY DEF LosesNoSuccess
<1>2. Undisturbed(d) /\ CounterBacked(d)
  BY DEF TrustInv
<1>3. streak' = streak
  BY DEF Discard
<1>4. \A p \in Passes : copy'[p][d] = IF p \in P THEN NoCopy ELSE copy[p][d]
  BY DEF Discard
<1>5. Undisturbed(d)'
  BY <1>2, <1>3, <1>4 DEF Undisturbed, NoCopy
<1>6. ASSUME \A p \in Passes : copy'[p][d].mark # "seen"
      PROVE  \A p \in Passes : copy[p][d].mark # "seen"
  BY <1>1, <1>4, <1>6
<1>7. ASSUME NEW p \in Passes, copy'[p][d].mark = "missed"
      PROVE  copy[p][d].mark = "missed"
  BY <1>4, <1>7 DEF NoCopy
<1> QED
  BY <1>2, <1>3, <1>5, <1>6, <1>7 DEF CounterBacked

\* A device is taken offline after enough failed checks in a row, or by the probe and
\* the silent agent together, unless its checks overlapped, were lost, it was woken or
\* its address went to another device.
THEOREM HysteresisHolds == Spec => OfflineAfterConsecutiveMisses
<1>1. TypeOK /\ TrustInv /\ [Next]_vars => TrustInv'
  <2> SUFFICES ASSUME TypeOK, TrustInv, [Next]_vars PROVE TrustInv'
    OBVIOUS
  <2>1. ASSUME NEW d \in Devices, RelayWake(d) PROVE TrustInv'
    <3>1. /\ ~trusted'[d] /\ copy' = copy
          /\ \A e \in Devices \ {d} : /\ row'[e] = row[e] /\ streak'[e] = streak[e]
                                       /\ trusted'[e] = trusted[e]
      BY <2>1 DEF RelayWake, Shows, TypeOK
    <3> QED
      BY <3>1 DEF TrustInv, Undisturbed, CounterBacked
  <2>2. ASSUME NEW d \in Devices, AgentFallsSilent(d) PROVE TrustInv'
    BY <2>2 DEF AgentFallsSilent, TrustInv, Undisturbed, CounterBacked
  <2>3. ASSUME NEW t \in Thresholds, ChangeThreshold(t) PROVE TrustInv'
    BY <2>3 DEF ChangeThreshold, TrustInv, Undisturbed, CounterBacked
  <2>4. CASE UNCHANGED vars
    BY <2>4 DEF vars, TrustInv, Undisturbed, CounterBacked
  <2>5. ASSUME NEW p \in Passes, CommitFails(p) PROVE TrustInv'
    <3> SUFFICES ASSUME NEW d \in Devices, trusted'[d] PROVE Undisturbed(d)' /\ CounterBacked(d)'
      BY DEF TrustInv
    <3>1. /\ Discard({p}) /\ row' = row
          /\ trusted[d] /\ LosesNoSuccess({p}, d)
      BY <2>5 DEF CommitFails, Shows
    <3> QED
      BY <3>1, TrustDiscard
  <2>6. ASSUME NEW home \in SUBSET Devices, Restart(home) PROVE TrustInv'
    <3> SUFFICES ASSUME NEW d \in Devices, trusted'[d] PROVE Undisturbed(d)' /\ CounterBacked(d)'
      BY DEF TrustInv
    <3>0. trusted' = [e \in Devices |-> trusted[e] /\ LosesNoSuccess(Passes, e) /\ e \notin home]
      BY <2>6 DEF Restart
    <3>1. Discard(Passes) /\ trusted[d] /\ LosesNoSuccess(Passes, d) /\ d \notin home
      <4>1. trusted[d] /\ LosesNoSuccess(Passes, d) /\ d \notin home
        BY <3>0, Zenon
      <4> QED
        BY <2>6, <4>1 DEF Restart
    <3>2. row'[d] = row[d] \/ ~row'[d].online
      BY <2>6, <3>1 DEF Restart, Shows, TypeOK, Row
    <3> QED
      BY <3>1, <3>2, TrustDiscard
  <2>7. ASSUME NEW p \in Passes, NEW e \in Devices, Displace(p, e) PROVE TrustInv'
    <3> SUFFICES ASSUME NEW d \in Devices, trusted[d] PROVE Undisturbed(d)' /\ CounterBacked(d)'
      BY <2>7 DEF TrustInv, Displace
    <3>1. Undisturbed(d) /\ CounterBacked(d)
      BY DEF TrustInv
    <3>2. row' = row /\ streak' = streak
      BY <2>7 DEF Displace
    <3>3. copy[p][e] \in Copy /\ copy[p][e].mark = "todo"
      BY <2>7 DEF Displace, TypeOK
    <3>4. \A q \in Passes :
            \/ copy'[q][d] = copy[q][d]
            \/ /\ q = p /\ d = e /\ copy'[q][d].mark = "displaced"
               /\ copy'[q][d].online = copy[q][d].online /\ copy'[q][d].missed = copy[q][d].missed
      BY <2>7, <3>3 DEF Displace, TypeOK, Copy
    <3> QED
      BY <3>1, <3>2, <3>3, <3>4 DEF Undisturbed, CounterBacked
  <2> QED
    BY <2>1, <2>2, <2>3, <2>4, <2>5, <2>6, <2>7, TrustLoad, TrustJudge, TrustCommit DEF Next
<1>2. TypeOK /\ TrustInv /\ [Next]_vars
        => \A d \in Devices : TakenOffline(d) /\ trusted[d] => EnoughMisses(d) \/ silent'[d]
  <2> SUFFICES ASSUME TypeOK, TrustInv, [Next]_vars, NEW d \in Devices,
                      TakenOffline(d), trusted[d], ~silent'[d]
               PROVE  EnoughMisses(d)
    OBVIOUS
  <2>1. PICK p \in Passes : Commit(p)
    <3>1. ~ \E e \in Devices : RelayWake(e)
      BY DEF RelayWake, Shows, TakenOffline, TypeOK, Row
    <3>2. row' # row
      BY DEF TakenOffline
    <3>3. ASSUME NEW home \in SUBSET Devices, Restart(home) PROVE FALSE
      <4>1. row'[d] = IF parked[d] THEN [row[d] EXCEPT !.online = d \in home] ELSE row[d]
        BY <3>3 DEF Restart, Shows
      <4>2. silent'[d] = (~row'[d].online /\ (silent[d] \/ (row[d].online /\ parked[d])))
        BY <3>3 DEF Restart, Shows
      <4> QED
        BY <4>1, <4>2 DEF TakenOffline
    <3> QED
      BY <3>1, <3>2, <3>3 DEF Next, Load, Judge, Displace, CommitFails, Shows, AgentFallsSilent,
                        ChangeThreshold, vars
  <2> DEFINE c == copy[p][d]
  <2>2. d \in Judged(p) /\ row[d].online /\ ~Merge(row[d], c).online /\ c.mark # "displaced"
    BY <2>1 DEF Commit, Shows, CommittedRow, TakenOffline
  <2>3. c \in Copy /\ row[d] \in Row /\ streak[d] \in 0 .. MaxMissed
    BY DEF TypeOK
  <2>4. c.mark = "missed" /\ c.online /\ ~Missed(c).online
    BY <2>2, <2>3, OfflineWrite DEF GoesOffline
  <2>5. c.missed = row[d].missed /\ Bump(row[d].missed) <= streak[d]
    BY <2>2, <2>4 DEF TrustInv, Undisturbed, CounterBacked
  <2>6. ASSUME ~c.stale PROVE streak[d] >= c.limit
    <3>1. ~(Bump(c.missed) < c.limit)
      <4>1. Raised(c) = c.missed
        BY <2>6 DEF Raised
      <4> QED
        BY <2>3, <2>4, <4>1, MissedOnline
    <3>2. Bump(c.missed) \in 0 .. MaxMissed /\ c.limit \in 0 .. MaxMissed
      BY <2>3, BumpFacts DEF Copy
    <3> QED
      BY <2>3, <2>4, <2>5, <3>1, <3>2
  <2> QED
    BY <2>4, <2>6 DEF EnoughMisses
<1> QED
  BY <1>1, <1>2, TrustInit, TypeCorrect, PTL DEF Spec, OfflineAfterConsecutiveMisses

-----------------------------------------------------------------------------
(* Process.                                                                  *)

\* The loops and a reset: from the wipe to the start of the scheduler nothing runs, and
\* a reset is answered before the process stops.
LoopInv ==
  /\ loop \in [Loops -> {"off", "gate", "work", "rest", "closing"}]
  /\ ~setup => \A l \in Loops : Gated(l) => loop[l] # "work"
  /\ reset \in {"wiping", "dropping", "starting"} => ~running /\ \A l \in Loops : loop[l] = "off"
  /\ reset # "none" => ~running /\ proc = "up"

\* The starts: a start that has its copy has all duplicates in it, and the setting a
\* deleted subnet could come back from is gone before anybody can delete it.
StartInv ==
  /\ removed \subseteq copies
  /\ copied /\ proc \in {"unique", "services"} => dups \subseteq copies
  /\ proc \in {"serve", "up", "stopping"} => ~setting
  /\ dropped => ~setting /\ ~subnet

\* What a step of a loop leaves alone.
LEMMA LoopStepFacts ==
  ASSUME NEW l \in Loops, LoopInv, LoopSteps(l)
  PROVE  LoopInv'
<1> USE DEF Stays, Turn, LoopInv
<1>1. CASE Look(l)
  BY <1>1 DEF Look, Gated
<1>2. CASE Turned(l)
  BY <1>2 DEF Turned
<1>3. CASE Rested(l)
  BY <1>3 DEF Rested
<1>4. CASE Cancelled(l)
  BY <1>4 DEF Cancelled
<1>5. CASE Closed(l)
  BY <1>5 DEF Closed
<1>6. CASE l = "retention" /\ Clean
  BY <1>6 DEF Clean
<1>7. QED
  BY <1>1, <1>2, <1>3, <1>4, <1>5, <1>6 DEF LoopSteps

\* Every step of the program keeps the invariant of the loops: a reset waits for them, and
\* only the start of the scheduler starts them.
LEMMA LoopInvNext == LoopInv /\ [ProcessNext]_processVars => LoopInv'
<1> SUFFICES ASSUME LoopInv, [ProcessNext]_processVars PROVE LoopInv'
  OBVIOUS
<1> USE DEF LoopInv, database, watched
<1>1. CASE Starting
  <2>1. CASE Start
    BY <2>1 DEF Start
  <2>2. CASE \E t \in Tables : AddUniqueIndex(t)
    BY <2>2 DEF AddUniqueIndex
  <2>3. CASE UniqueDone
    BY <2>3 DEF UniqueDone
  <2>4. CASE DeduplicateServices
    BY <2>4 DEF DeduplicateServices
  <2>5. CASE MoveSubnets
    BY <2>5 DEF MoveSubnets
  <2>6. CASE Serve
    BY <2>6 DEF Serve, StartsLoops
  <2>7. QED
    BY <1>1, <2>1, <2>2, <2>3, <2>4, <2>5, <2>6 DEF Starting
<1>2. CASE ServicesFail
  BY <1>2 DEF ServicesFail
<1>3. CASE \E l \in Loops : LoopSteps(l)
  BY <1>3, LoopStepFacts
<1>4. CASE CompleteSetup \/ DropSubnet \/ HistoryExpires \/ \E t \in Tables : DuplicatesArise(t)
  BY <1>4 DEF CompleteSetup, DropSubnet, HistoryExpires, DuplicatesArise
<1>5. CASE ResetRequested \/ Resetting \/ ResetFails
  <2>1. CASE ResetRequested \/ ResetFails
    BY <2>1 DEF ResetRequested, ResetFails
  <2>2. CASE TimesOut
    BY <2>2 DEF TimesOut
  <2>3. CASE Stopped
    BY <2>3 DEF Stopped, Ended
  <2>4. CASE Wipe
    BY <2>4 DEF Wipe
  <2>5. CASE Drop
    BY <2>5 DEF Drop
  <2>6. CASE StartAgain
    BY <2>6 DEF StartAgain, StartsLoops
  <2>7. QED
    BY <1>5, <2>1, <2>2, <2>3, <2>4, <2>5, <2>6 DEF Resetting
<1>6. CASE Shutdown \/ Exit \/ Crash
  BY <1>6 DEF Shutdown, Exit, Crash, NoLoops
<1>7. CASE UNCHANGED processVars
  BY <1>7 DEF processVars
<1>8. QED
  BY <1>1, <1>2, <1>3, <1>4, <1>5, <1>6, <1>7 DEF ProcessNext

\* Deleting the duplicates of a table keeps every deleted one in a copy.
LEMMA RemovesFacts ==
  ASSUME StartInv, NEW t, Removes(t), proc \in {"unique", "services"}
  PROVE  removed' \subseteq copies' /\ (copied' => dups' \subseteq copies')
BY DEF StartInv, Removes, TakeCopy

\* Every step keeps the invariant of the starts, whichever step of a start fails or crashes.
LEMMA StartInvNext == LoopInv /\ StartInv /\ [ProcessNext]_processVars => StartInv'
<1> SUFFICES ASSUME LoopInv, StartInv, [ProcessNext]_processVars PROVE StartInv'
  OBVIOUS
<1> USE DEF StartInv, database, watched, Goes, Following
<1>1. CASE Starting
  <2>1. CASE Start
    BY <2>1 DEF Start
  <2>2. CASE \E t \in Tables : AddUniqueIndex(t)
    BY <2>2, RemovesFacts DEF AddUniqueIndex
  <2>3. CASE UniqueDone
    BY <2>3 DEF UniqueDone
  <2>4. CASE DeduplicateServices
    BY <2>4, RemovesFacts DEF DeduplicateServices
  <2>5. CASE MoveSubnets
    BY <2>5 DEF MoveSubnets
  <2>6. CASE Serve
    BY <2>6 DEF Serve
  <2>7. QED
    BY <1>1, <2>1, <2>2, <2>3, <2>4, <2>5, <2>6 DEF Starting
<1>2. CASE ServicesFail
  BY <1>2 DEF ServicesFail
<1>3. CASE \E l \in Loops : LoopSteps(l)
  BY <1>3 DEF LoopSteps, Look, Turned, Rested, Cancelled, Closed, Clean, Stays
<1>4. CASE CompleteSetup \/ DropSubnet \/ HistoryExpires
  BY <1>4 DEF CompleteSetup, DropSubnet, HistoryExpires
<1>5. CASE \E t \in Tables : DuplicatesArise(t)
  BY <1>5 DEF DuplicatesArise
<1>6. CASE ResetRequested \/ Resetting \/ ResetFails
  BY <1>6 DEF ResetRequested, Resetting, TimesOut, Stopped, Wipe, Drop, StartAgain, ResetFails, LoopInv
<1>7. CASE Shutdown \/ Exit \/ Crash
  BY <1>7 DEF Shutdown, Exit, Crash
<1>8. CASE UNCHANGED processVars
  BY <1>8 DEF processVars
<1>9. QED
  BY <1>1, <1>2, <1>3, <1>4, <1>5, <1>6, <1>7, <1>8 DEF ProcessNext

\* Both are invariants of the program's life.
LEMMA ProcessAlways == ProcessSpec => [](LoopInv /\ StartInv)
<1>1. ProcessInit => LoopInv /\ StartInv
  BY DEF ProcessInit, LoopInv, StartInv
<1>2. LoopInv /\ StartInv /\ [ProcessNext]_processVars => (LoopInv /\ StartInv)'
  BY LoopInvNext, StartInvNext
<1>3. QED
  BY <1>1, <1>2, PTL DEF ProcessSpec

\* No loop that waits for the setup works before it is complete, and a reset is alone from its
\* wipe to its end, whatever fails, crashes or is slow to end.
THEOREM LoopsAlwaysFollow == ProcessSpec => []LoopsFollowSetup
<1>1. LoopInv => LoopsFollowSetup
  BY DEF LoopInv, LoopsFollowSetup, AloneInReset, NoWorkBeforeSetup
<1>2. QED
  BY <1>1, ProcessAlways, PTL

\* A start that is repeated after a failure or a crash deletes no duplicate that is not in a
\* copy beside the database, and brings back no subnet the administrator has deleted.
THEOREM StartsAlwaysRepeat == ProcessSpec => []StartsRepeatSafely
<1>1. StartInv => StartsRepeatSafely
  BY DEF StartInv, StartsRepeatSafely, DeletedIsCopied, SubnetStaysDeleted
<1>2. QED
  BY <1>1, ProcessAlways, PTL

-----------------------------------------------------------------------------
(* Scans.                                                                    *)

Broadcasters == {"api", "relay"}
ScanRec == [at : {"off", "sweep", "batch", "commit", "end"}, covers : SUBSET Subnets, left : SUBSET Subnets,
            found : SUBSET Subnets, gone : SUBSET Subnets, saw : BOOLEAN]
CastRec == [status : Status, todo : SUBSET Clients]
BatchRec == [hosts : SUBSET Subnets, new : SUBSET Subnets, stale : SUBSET Subnets]

\* Types, as far as the broadcasts go.
CastTypes ==
  /\ active \in BOOLEAN
  /\ client \in [Clients -> Status \cup {"off"}]
  /\ cast \in [Broadcasters -> CastRec]
  /\ scan \in [Scanners -> ScanRec]

\* Between scans, and once a scan has sent its last status, nothing says "running" any
\* more but to browsers that the end is still on its way to.  The relay only says "ended".
ShownInv ==
  /\ CastTypes
  /\ active <=> scan["api"].at # "off"
  /\ cast["relay"].status # "running"
  /\ scan["api"].at \in {"off", "end"} =>
       /\ last # "running" /\ cast["api"].status # "running"
       /\ \A c \in Clients : client[c] = "running" => \E b \in Broadcasters : c \in cast[b].todo

\* A broadcast under way, or over when nobody is left to send it to.
LEMMA CastingFacts ==
  ASSUME NEW status \in Status, NEW C \in SUBSET Clients
  PROVE  /\ Casting(status, C) \in CastRec
         /\ Casting(status, C).status \in {status, "idle"} /\ Casting(status, C).todo = C
BY DEF Casting, Quiet, Status, CastRec

\* Steps that send nothing and leave the scan of the request where it is.
LEMMA ShownStays ==
  ASSUME ShownInv, UNCHANGED <<active, client, cast, last>>, CastTypes',
         scan'["api"].at = scan["api"].at
  PROVE  ShownInv'
BY DEF ShownInv

\* No scan is a scan record.
LEMMA NoScanType == NoScan \in ScanRec
BY DEF NoScan, ScanRec

\* Storing a batch moves no scan.
LEMMA StoresFacts ==
  ASSUME NEW w \in Writers, NEW scans \in [Scanners -> ScanRec], Stores(w, scans)
  PROVE  scan' \in [Scanners -> ScanRec] /\ \A t \in Scanners : scan'[t].at = scans[t].at
<1>1. PICK same : scan' = [t \in Scanners |-> [scans[t] EXCEPT !.gone = @ \ (batch[w].new \ same)]]
  BY DEF Stores
<1>2. ASSUME NEW t \in Scanners
      PROVE  /\ [scans[t] EXCEPT !.gone = @ \ (batch[w].new \ same)] \in ScanRec
             /\ [scans[t] EXCEPT !.gone = @ \ (batch[w].new \ same)].at = scans[t].at
  BY DEF ScanRec
<1>3. QED
  BY <1>1, <1>2

\* What a scan of a request broadcasts goes to every browser there is.
LEMMA BroadcastFacts ==
  ASSUME CastTypes, NEW b \in Broadcasters, NEW status \in Status, Broadcast(b, status)
  PROVE  /\ cast' \in [Broadcasters -> CastRec]
         /\ last' = status
         /\ cast'[b].status \in {status, "idle"} /\ cast'[b].todo = Attached
         /\ \A x \in Broadcasters \ {b} : cast'[x] = cast[x]
<1>1. Attached \in SUBSET Clients
  BY DEF Attached
<1>2. QED
  BY <1>1, CastingFacts DEF Broadcast, CastTypes

\* Only the scan of a request broadcasts its progress.
LEMMA ReportsFacts ==
  ASSUME CastTypes, NEW t \in Scanners, NEW status \in Status, Reports(t, status)
  PROVE  /\ cast' \in [Broadcasters -> CastRec]
         /\ UNCHANGED <<active, client>>
         /\ t # "api" => UNCHANGED <<cast, last>>
         /\ t = "api" => Broadcast("api", status)
BY BroadcastFacts DEF Reports, CastTypes, Broadcasters

\* A scan that goes on to the next subnet runs.
LEMMA PassedOn ==
  ASSUME CastTypes, NEW t \in Scanners, NEW s
  PROVE  /\ [scan EXCEPT ![t].left = LeftAfter(t, s)] \in [Scanners -> ScanRec]
         /\ \A x \in Scanners : [scan EXCEPT ![t].left = LeftAfter(t, s)][x].at = scan[x].at
         /\ [scan EXCEPT ![t].at = "batch"] \in [Scanners -> ScanRec]
         /\ [scan EXCEPT ![t].at = "batch"][t].at = "batch"
         /\ \A x \in Scanners \ {t} : [scan EXCEPT ![t].at = "batch"][x].at = scan[x].at
BY DEF LeftAfter, CastTypes, ScanRec

\* Storing or losing a batch, a scan goes on.
LEMMA SweptFacts ==
  ASSUME CastTypes, batch \in [Writers -> BatchRec], NEW t \in Scanners, NEW s
  PROVE  /\ Swept(t, s) \in [Scanners -> ScanRec]
         /\ Swept(t, s)[t].at = "sweep"
         /\ \A x \in Scanners \ {t} : Swept(t, s)[x].at = scan[x].at
<1> DEFINE after == LeftAfter(t, s)
           found == FoundWith(batch[t].hosts, scan[t].found) \cap scan[t].covers
<1>1. scan \in [Scanners -> ScanRec]
  BY DEF CastTypes
<1>2. after \in SUBSET Subnets /\ found \in SUBSET Subnets
  BY <1>1 DEF LeftAfter, ScanRec
<1>3. Swept(t, s) = [scan EXCEPT ![t] = [scan[t] EXCEPT !.at = "sweep", !.left = after, !.found = found]]
  BY <1>1 DEF Swept
<1> HIDE DEF after, found
<1>4. /\ [scan[t] EXCEPT !.at = "sweep", !.left = after, !.found = found] \in ScanRec
      /\ [scan[t] EXCEPT !.at = "sweep", !.left = after, !.found = found].at = "sweep"
  BY <1>1, <1>2 DEF ScanRec
<1>5. QED
  BY <1>1, <1>3, <1>4

\* While a scan of a request runs, any status may be shown.
LEMMA RunsShown ==
  ASSUME ShownInv, CastTypes', active' = active, cast'["relay"] = cast["relay"],
         scan["api"].at \notin {"off", "end"}, scan'["api"].at \notin {"off", "end"}
  PROVE  ShownInv'
BY DEF ShownInv

\* A sweep keeps the invariant.
LEMMA SweepShown ==
  ASSUME ShownInv, NEW t \in Scanners, NEW s \in Subnets, Sweep(t, s) \/ SweepFails(t, s)
  PROVE  ShownInv'
<1>1. Reports(t, "running") /\ scan[t].at = "sweep"
  BY DEF Sweep, SweepFails, Sweeps
<1>2. CastTypes /\ "running" \in Status
  BY DEF ShownInv, Status
<1>3. /\ cast' \in [Broadcasters -> CastRec]
      /\ UNCHANGED <<active, client>>
      /\ t # "api" => UNCHANGED <<cast, last>>
      /\ t = "api" => Broadcast("api", "running")
  BY <1>1, <1>2, ReportsFacts
<1> DEFINE passed == [scan EXCEPT ![t].left = LeftAfter(t, s)]
           read == [scan EXCEPT ![t].at = "batch"]
<1>4. scan' = passed \/ scan' = read
  BY DEF Sweep, SweepFails, PassesBy
<1>a. /\ passed \in [Scanners -> ScanRec] /\ read \in [Scanners -> ScanRec]
      /\ passed[t].at = scan[t].at /\ read[t].at = "batch"
      /\ \A x \in Scanners \ {t} : passed[x].at = scan[x].at /\ read[x].at = scan[x].at
  BY <1>2, PassedOn
<1> HIDE DEF passed, read
<1>5. scan' \in [Scanners -> ScanRec]
  BY <1>4, <1>a
<1>6. CastTypes'
  BY <1>2, <1>3, <1>5 DEF CastTypes
<1>7. CASE t = "api"
  <2>1. scan'["api"].at \in {"sweep", "batch"}
    BY <1>1, <1>4, <1>7, <1>a
  <2>2. cast'["relay"] = cast["relay"]
    BY <1>2, <1>3, <1>7, BroadcastFacts DEF Broadcasters
  <2>3. QED
    BY <1>1, <1>3, <1>6, <1>7, <2>1, <2>2, RunsShown
<1>8. CASE t # "api"
  <2>1. scan'["api"].at = scan["api"].at
    BY <1>4, <1>8, <1>a DEF Scanners
  <2>2. QED
    BY <1>3, <1>6, <1>8, <2>1, ShownStays
<1>9. QED
  BY <1>7, <1>8

\* The batch of a subnet is told to nobody.
LEMMA SyncShown ==
  ASSUME ShownInv, batch \in [Writers -> BatchRec],
         NEW t \in Scanners, NEW s \in Subnets, SyncSubnet(t, s)
  PROVE  ShownInv'
<1>1. CastTypes /\ UNCHANGED memory /\ scan[t].at = "batch"
  BY DEF SyncSubnet, ShownInv
<1>2. /\ Swept(t, s) \in [Scanners -> ScanRec] /\ Swept(t, s)[t].at = "sweep"
      /\ \A x \in Scanners \ {t} : Swept(t, s)[x].at = scan[x].at
  BY <1>1, SweptFacts
<1>3. Stores(t, Swept(t, s)) \/ scan' = Swept(t, s)
  BY DEF SyncSubnet
<1>4. scan' \in [Scanners -> ScanRec] /\ \A x \in Scanners : scan'[x].at = Swept(t, s)[x].at
  BY <1>2, <1>3, StoresFacts DEF Writers
<1>5. CastTypes'
  BY <1>1, <1>4 DEF CastTypes, memory
<1>6. CASE t = "api"
  BY <1>1, <1>2, <1>4, <1>5, <1>6, RunsShown DEF memory, Scanners
<1>7. CASE t # "api"
  BY <1>1, <1>2, <1>4, <1>5, <1>7, ShownStays DEF memory, Scanners
<1>8. QED
  BY <1>6, <1>7

\* So does the clean-up before the commit.
LEMMA TidyShown ==
  ASSUME ShownInv, NEW t \in Scanners, Tidy(t), first \in BOOLEAN, listed \subseteq Subnets
  PROVE  ShownInv'
<1> DEFINE next == [NoScan EXCEPT !.at = "commit", !.gone = NotFound(t), !.saw = first]
<1>1. next \in ScanRec
      /\ next.at = "commit"
  BY DEF NotFound, NoScan, ScanRec
<1>2. scan' = [scan EXCEPT ![t] = next] /\ UNCHANGED memory /\ scan[t].at = "sweep"
  BY DEF Tidy
<1> HIDE DEF next
<1>3. QED
  BY <1>1, <1>2 DEF ShownInv, CastTypes, memory, Scanners

\* The end of a scan is told to every browser.
LEMMA EndShown ==
  ASSUME ShownInv, NEW t \in Scanners, Reports(t, "ended"), Ends(t),
         scan[t].at \in {"sweep", "batch", "commit"}
  PROVE  ShownInv'
<1>1. CastTypes /\ "ended" \in Status
  BY DEF ShownInv, Status
<1>2. /\ cast' \in [Broadcasters -> CastRec]
      /\ UNCHANGED <<active, client>>
      /\ t # "api" => UNCHANGED <<cast, last>>
      /\ t = "api" => Broadcast("api", "ended")
  BY <1>1, ReportsFacts
<1>3. CASE t = "api"
  <2>1. /\ last' = "ended" /\ cast'["api"].status \in {"ended", "idle"} /\ cast'["api"].todo = Attached
        /\ cast'["relay"] = cast["relay"]
    BY <1>1, <1>2, <1>3, BroadcastFacts DEF Broadcasters
  <2>2. scan' = [scan EXCEPT !["api"] = [NoScan EXCEPT !.at = "end"]]
    BY <1>3 DEF Ends
  <2>3. [NoScan EXCEPT !.at = "end"] \in
             ScanRec
        /\ [NoScan EXCEPT !.at = "end"].at = "end"
    BY DEF NoScan, ScanRec
  <2>4. CastTypes' /\ scan'["api"].at = "end"
    BY <1>1, <1>2, <2>2, <2>3 DEF CastTypes, Scanners
  <2>5. \A c \in Clients : client'[c] = "running" => c \in cast'["api"].todo
    BY <2>1, <1>2 DEF Attached
  <2>6. QED
    BY <1>2, <1>3, <2>1, <2>4, <2>5 DEF ShownInv, Broadcasters
<1>4. CASE t # "api"
  <2>1. scan' = [scan EXCEPT ![t] = NoScan]
    BY <1>4 DEF Ends, Off
  <2>2. QED
    BY <2>1, <1>1, <1>2, <1>4, NoScanType, ShownStays DEF CastTypes, Scanners
<1>5. QED
  BY <1>3, <1>4

\* The start of a scan of a request tells every browser that it runs.
LEMMA StartShown ==
  ASSUME ShownInv, NEW r \in Requests, StartScan(r)
  PROVE  ShownInv'
<1> DEFINE next == [NoScan EXCEPT !.at = "sweep", !.covers = IF r.planner THEN r.subnets ELSE {}, !.left = r.subnets]
<1>0. r \in [planner : BOOLEAN, subnets : SUBSET Subnets]
  BY RequestsAssumption
<1>1. next \in ScanRec /\ next.at = "sweep"
  BY <1>0 DEF NoScan, ScanRec
<1>2. CastTypes /\ "running" \in Status /\ "api" \in Broadcasters
  BY DEF ShownInv, Status, Broadcasters
<1>3. scan' = [scan EXCEPT !["api"] = next] /\ active' = TRUE /\ client' = client /\ Broadcast("api", "running")
  BY DEF StartScan
<1> HIDE DEF next
<1>4. CastTypes' /\ scan'["api"].at = "sweep"
  BY <1>1, <1>2, <1>3, BroadcastFacts DEF CastTypes, Scanners
<1>5. cast'["relay"].status # "running"
  BY <1>2, <1>3, BroadcastFacts DEF ShownInv, Broadcasters
<1>6. QED
  BY <1>3, <1>4, <1>5 DEF ShownInv

\* A scan of the scheduler's timers is told to nobody.
LEMMA WakeShown == ASSUME ShownInv, NEW t \in Timers, Wake(t) PROVE ShownInv'
<1> DEFINE next == [NoScan EXCEPT !.at = "sweep", !.covers = IF t = "quick" THEN Subnets ELSE {}, !.left = Subnets]
<1>1. next \in ScanRec
      /\ next.at = "sweep"
  BY DEF NoScan, ScanRec
<1>2. scan' = [scan EXCEPT ![t] = next] /\ UNCHANGED memory
  BY DEF Wake
<1>3. t # "api"
  BY TimersAssumption
<1> HIDE DEF next
<1>4. QED
  BY <1>1, <1>2, <1>3, ShownStays DEF ShownInv, CastTypes, memory, Scanners

\* A status delivered after the end is one of the relay or the end itself.
LEMMA DeliverShown ==
  ASSUME ShownInv, NEW b \in Broadcasters, NEW c \in Clients, Deliver(b, c)
  PROVE  ShownInv'
<1>1. CastTypes
  BY DEF ShownInv
<1> DEFINE status == cast[b].status
           todo == cast[b].todo \ {c}
<1>2. status \in Status /\ todo \in SUBSET Clients
  BY <1>1 DEF CastTypes, CastRec, ScanRec
<1>3. client' = [client EXCEPT ![c] = status] /\ cast' = [cast EXCEPT ![b] = Casting(status, todo)]
      /\ UNCHANGED <<active, last, scan>>
  BY DEF Deliver
<1> HIDE DEF status, todo
<1>4. /\ cast' \in [Broadcasters -> CastRec]
      /\ cast'[b].status \in {status, "idle"} /\ cast'[b].todo = todo
      /\ \A x \in Broadcasters \ {b} : cast'[x] = cast[x]
  BY <1>1, <1>2, <1>3, CastingFacts DEF CastTypes
<1>5. CastTypes'
  BY <1>1, <1>2, <1>3, <1>4 DEF CastTypes
<1>6. cast'["relay"].status # "running"
  BY <1>4 DEF status, ShownInv, Broadcasters
<1>7. ASSUME scan'["api"].at \in {"off", "end"}
      PROVE  /\ last' # "running" /\ cast'["api"].status # "running"
             /\ \A k \in Clients : client'[k] = "running" => \E x \in Broadcasters : k \in cast'[x].todo
  <2>1. status # "running"
    BY <1>3, <1>7 DEF status, ShownInv, Broadcasters
  <2>2. cast'["api"].status # "running"
    BY <1>3, <1>4, <1>7, <2>1 DEF ShownInv, Broadcasters
  <2>3. ASSUME NEW k \in Clients, client'[k] = "running"
        PROVE  \E x \in Broadcasters : k \in cast'[x].todo
    <3>1. k # c /\ client[k] = "running"
      BY <1>1, <1>3, <2>1, <2>3 DEF CastTypes
    <3>2. PICK x \in Broadcasters : k \in cast[x].todo
      BY <1>3, <1>7, <3>1 DEF ShownInv
    <3>3. QED
      BY <1>4, <3>1, <3>2 DEF todo
  <2>4. QED
    BY <1>3, <1>7, <2>2, <2>3 DEF ShownInv
<1>8. QED
  BY <1>3, <1>5, <1>6, <1>7 DEF ShownInv

\* A browser that leaves is told nothing any more, and nothing is left to tell it.
LEMMA LeaveShown ==
  ASSUME ShownInv, NEW C \in SUBSET Clients, Leave(C)
  PROVE  ShownInv'
<1>1. CastTypes
  BY DEF ShownInv
<1>2. /\ client' = [c \in Clients |-> IF c \in C THEN "off" ELSE client[c]]
      /\ cast' = [b \in Broadcasters |-> Casting(cast[b].status, cast[b].todo \ C)]
      /\ UNCHANGED <<active, last, scan>>
  BY <1>1 DEF Leave, CastTypes
<1>3. /\ cast' \in [Broadcasters -> CastRec]
      /\ \A b \in Broadcasters : cast'[b].status \in {cast[b].status, "idle"} /\ cast'[b].todo = cast[b].todo \ C
  BY <1>1, <1>2, CastingFacts DEF CastTypes, CastRec, ScanRec
<1>4. CastTypes'
  BY <1>1, <1>2, <1>3 DEF CastTypes
<1>5. ASSUME NEW c \in Clients, client'[c] = "running"
      PROVE  client[c] = "running" /\ c \notin C
  BY <1>2, <1>5
<1>6. QED
  BY <1>2, <1>3, <1>4, <1>5 DEF ShownInv, Broadcasters

\* Also the rows and what is read of them are those of subnets, for the scans and the relay.
RowTypes ==
  /\ alive \subseteq Subnets /\ listed \subseteq Subnets /\ first \in BOOLEAN
  /\ batch \in [Writers -> BatchRec]

\* A batch that is read, dropped or stored and a row that is deleted keep the types of the rows.
LEMMA BatchFacts ==
  ASSUME RowTypes, NEW w \in Writers, NEW S \in SUBSET Subnets
  PROVE  /\ Reads(w, S) => batch' \in [Writers -> BatchRec]
         /\ Drops(w) => batch' \in [Writers -> BatchRec] /\ listed' = listed
         /\ Deletes(S) => batch' \in [Writers -> BatchRec] /\ listed' \subseteq Subnets
         /\ \A scans : Stores(w, scans) => batch' \in [Writers -> BatchRec] /\ listed' \subseteq Subnets
<1>1. NoBatch \in BatchRec
  BY DEF NoBatch, BatchRec
<1>2. batch \in [Writers -> BatchRec] /\ listed \subseteq Subnets
  BY DEF RowTypes
<1>3. ASSUME Reads(w, S) PROVE batch' \in [Writers -> BatchRec]
  <2>1. [hosts |-> S, new |-> S \ listed, stale |-> {}] \in BatchRec
    BY DEF BatchRec
  <2>2. QED
    BY <1>2, <1>3, <2>1 DEF Reads
<1>4. ASSUME Drops(w) PROVE batch' \in [Writers -> BatchRec] /\ listed' = listed
  BY <1>1, <1>2, <1>4 DEF Drops
<1>5. ASSUME Deletes(S) PROVE batch' \in [Writers -> BatchRec] /\ listed' \subseteq Subnets
  <2>1. ASSUME NEW v \in Writers
        PROVE  [batch[v] EXCEPT !.stale = @ \cup ((S \cap listed \cap batch[v].hosts) \ batch[v].new)] \in BatchRec
    BY <1>2 DEF BatchRec
  <2>2. QED
    BY <1>2, <1>5, <2>1 DEF Deletes
<1>6. ASSUME NEW scans, Stores(w, scans)
      PROVE  batch' \in [Writers -> BatchRec] /\ listed' \subseteq Subnets
  <2>1. PICK same \in SUBSET batch[w].new :
          batch' = [v \in Writers |-> IF v = w THEN NoBatch ELSE [batch[v] EXCEPT !.stale = @ \ same]]
    BY <1>6, Zenon DEF Stores
  <2>2. batch[w] \in BatchRec /\ same \subseteq Subnets
    BY <1>2, <2>1 DEF BatchRec
  <2>3. ASSUME NEW v \in Writers PROVE [batch[v] EXCEPT !.stale = @ \ same] \in BatchRec
    BY <1>2, <2>2 DEF BatchRec
  <2>4. listed' = listed \cup batch[w].hosts
    BY <1>6 DEF Stores
  <2>5. QED
    BY <1>1, <1>2, <2>1, <2>2, <2>3, <2>4 DEF BatchRec
<1>7. QED
  BY <1>3, <1>4, <1>5, <1>6

\* Every step keeps the types of the rows.
LEMMA RowTypesNext == ShownInv /\ RowTypes /\ [ScansNext]_scansVars => RowTypes'
<1> SUFFICES ASSUME ShownInv, RowTypes, [ScansNext]_scansVars PROVE RowTypes'
  OBVIOUS
<1>0. /\ alive \subseteq Subnets /\ listed \subseteq Subnets /\ first \in BOOLEAN
      /\ batch \in [Writers -> BatchRec] /\ scan \in [Scanners -> ScanRec]
  BY DEF RowTypes, ShownInv, CastTypes
<1>1. CASE \E t \in Scanners : Steps(t)
  <2>1. PICK t \in Scanners : Steps(t)
    BY <1>1
  <2>2. t \in Writers
    BY DEF Writers
  <2>3. CASE \E s \in Subnets : Sweep(t, s)
    <3>1. PICK s \in Subnets : Sweep(t, s)
      BY <2>3
    <3>2. (Reads(t, Answers(s)) \/ UNCHANGED batch) /\ UNCHANGED <<alive, listed, first>>
      BY <3>1 DEF Sweep, PassesBy
    <3>3. Answers(s) \in SUBSET Subnets
      BY DEF Answers
    <3>4. QED
      BY <1>0, <2>2, <3>2, <3>3, BatchFacts DEF RowTypes
  <2>4. CASE \E s \in Subnets : SyncSubnet(t, s)
    <3>1. PICK s \in Subnets : SyncSubnet(t, s)
      BY <2>4
    <3>2. (Stores(t, Swept(t, s)) \/ Drops(t)) /\ UNCHANGED <<alive, first>>
      BY <3>1 DEF SyncSubnet
    <3>3. QED
      BY <1>0, <2>2, <3>2, BatchFacts DEF RowTypes
  <2>5. CASE Tidy(t)
    BY <1>0, <2>5 DEF Tidy, RowTypes, tables
  <2>6. CASE CommitScan(t)
    <3>1. Deletes(scan[t].gone) /\ first' = TRUE /\ UNCHANGED alive
      BY <2>6 DEF CommitScan
    <3>2. scan[t].gone \in SUBSET Subnets
      BY <1>0 DEF ScanRec
    <3>3. QED
      BY <1>0, <2>2, <3>1, <3>2, BatchFacts DEF RowTypes
  <2>7. CASE Fail(t)
    BY <1>0, <2>2, <2>7, BatchFacts DEF Fail, RowTypes
  <2>8. QED
    BY <2>1, <2>3, <2>4, <2>5, <2>6, <2>7 DEF Steps
<1>2. CASE \E t \in Scanners, s \in Subnets : SweepFails(t, s)
  BY <1>0, <1>2 DEF SweepFails, PassesBy, RowTypes
<1>3. CASE \E r \in Requests : StartScan(r)
  BY <1>0, <1>3 DEF StartScan, RowTypes, tables
<1>4. CASE \/ \E t \in Timers : Wake(t)
           \/ Finish
           \/ \E b \in DOMAIN cast, c \in Clients : Deliver(b, c)
           \/ \E c \in Clients : Connect(c)
           \/ \E C \in SUBSET Clients : Leave(C)
  <2>1. UNCHANGED tables
    BY <1>4, Zenon DEF Wake, Finish, Deliver, Connect, Leave
  <2>2. QED
    BY <1>0, <2>1 DEF RowTypes, tables
<1>5. CASE ServerRestarts
  <2>1. NoBatch \in BatchRec
    BY DEF NoBatch, BatchRec
  <2>2. batch' = [w \in Writers |-> NoBatch] /\ UNCHANGED <<alive, listed, first>>
    BY <1>5 DEF ServerRestarts
  <2>3. QED
    BY <1>0, <2>1, <2>2 DEF RowTypes
<1>6. CASE \E w \in Hearers, s \in Subnets : Hear(w, s)
  <2>1. PICK w \in Hearers, s \in Subnets : Hear(w, s)
    BY <1>6
  <2>2. Reads(w, {s}) /\ w \in Writers /\ UNCHANGED <<alive, listed, first>>
    BY <2>1 DEF Hear, Writers
  <2>3. QED
    BY <1>0, <2>2, BatchFacts DEF RowTypes
<1>7. CASE \E w \in Hearers : Heard(w)
  <2>1. PICK w \in Hearers : Heard(w)
    BY <1>7
  <2>2. (Stores(w, scan) \/ Drops(w)) /\ w \in Writers /\ UNCHANGED <<alive, first>>
    BY <2>1 DEF Heard, Writers
  <2>3. QED
    BY <1>0, <2>2, BatchFacts DEF RowTypes
<1>8. CASE \E s \in Subnets : DeleteHost(s)
  <2>1. PICK s \in Subnets : DeleteHost(s)
    BY <1>8
  <2>2. Deletes({s}) /\ UNCHANGED <<alive, first>> /\ "api" \in Writers
    BY <2>1 DEF DeleteHost, Writers, Scanners
  <2>3. QED
    BY <1>0, <2>1, <2>2, BatchFacts DEF RowTypes
<1>9. CASE \E s \in Subnets : HostChanges(s)
  BY <1>0, <1>9 DEF HostChanges, RowTypes
<1>10. CASE UNCHANGED scansVars
  BY <1>0, <1>10 DEF scansVars, RowTypes
<1>11. QED
  BY <1>1, <1>2, <1>3, <1>4, <1>5, <1>6, <1>7, <1>8, <1>9, <1>10 DEF ScansNext

\* Every step keeps what the browsers are shown of a scan.
LEMMA ShownNext == ShownInv /\ RowTypes /\ [ScansNext]_scansVars => ShownInv'
<1> SUFFICES ASSUME ShownInv, RowTypes, [ScansNext]_scansVars PROVE ShownInv'
  OBVIOUS
<1>0. CastTypes
  BY DEF ShownInv
<1>1. CASE \E t \in Scanners : Steps(t)
  <2>1. PICK t \in Scanners : Steps(t)
    BY <1>1
  <2>2. CASE \E s \in Subnets : Sweep(t, s)
    BY <2>2, SweepShown
  <2>3. CASE \E s \in Subnets : SyncSubnet(t, s)
    BY <2>3, SyncShown DEF RowTypes
  <2>4. CASE Tidy(t)
    BY <2>4, TidyShown DEF RowTypes
  <2>5. CASE CommitScan(t)
    BY <2>5, EndShown DEF CommitScan
  <2>6. CASE Fail(t)
    BY <2>6, EndShown DEF Fail, Breaks
  <2>7. QED
    BY <2>1, <2>2, <2>3, <2>4, <2>5, <2>6 DEF Steps
<1>2. CASE \E t \in Scanners, s \in Subnets : SweepFails(t, s)
  BY <1>2, SweepShown
<1>3. CASE \E r \in Requests : StartScan(r)
  BY <1>3, StartShown
<1>4. CASE \E t \in Timers : Wake(t)
  BY <1>4, WakeShown
<1>5. CASE Finish
  <2>1. scan' = [scan EXCEPT !["api"] = NoScan] /\ active' = FALSE /\ UNCHANGED <<client, cast, last>>
        /\ scan["api"].at = "end"
    BY <1>5 DEF Finish, Off
  <2>2. NoScan.at = "off"
    BY DEF NoScan
  <2>3. QED
    BY <2>1, <2>2, NoScanType DEF ShownInv, CastTypes, Scanners
<1>6. CASE ServerRestarts
  <2>1. /\ scan' = [t \in Scanners |-> NoScan] /\ active' = FALSE /\ last' = "idle"
        /\ client' = [c \in Clients |-> "off"] /\ cast' = [b \in Broadcasters |-> Quiet]
    BY <1>0, <1>6 DEF ServerRestarts, CastTypes
  <2>2. NoScan.at = "off" /\ Quiet \in CastRec /\ Quiet.status = "idle"
    BY DEF NoScan, Quiet, Status, CastRec, ScanRec
  <2>3. QED
    BY <2>1, <2>2, NoScanType DEF ShownInv, CastTypes, Scanners, Broadcasters
<1>7. CASE \E b \in DOMAIN cast, c \in Clients : Deliver(b, c)
  BY <1>0, <1>7, DeliverShown DEF CastTypes
<1>8. CASE \E c \in Clients : Connect(c)
  BY <1>8 DEF Connect, ShownInv, CastTypes, Status
<1>9. CASE \E C \in SUBSET Clients : Leave(C)
  BY <1>9, LeaveShown
<1>10. CASE \E w \in Hearers, s \in Subnets : Hear(w, s)
  BY <1>0, <1>10, ShownStays DEF Hear, memory, CastTypes
<1>11. CASE \E w \in Hearers : Heard(w)
  <2>1. PICK w \in Hearers : Heard(w)
    BY <1>11
  <2>2. UNCHANGED <<active, client>> /\ (Stores(w, scan) \/ UNCHANGED scan)
    BY <2>1 DEF Heard
  <2>3. UNCHANGED <<cast, last>> \/ Broadcast("relay", "ended")
    BY <2>1 DEF Heard
  <2>4. scan' \in [Scanners -> ScanRec] /\ \A t \in Scanners : scan'[t].at = scan[t].at
    BY <1>0, <2>1, <2>2, StoresFacts DEF CastTypes, Writers
  <2>5. scan'["api"].at = scan["api"].at
    BY <2>4 DEF Scanners
  <2>6. CASE UNCHANGED <<cast, last>>
    <3>1. CastTypes'
      BY <1>0, <2>2, <2>4, <2>6 DEF CastTypes
    <3>2. QED
      BY <2>2, <2>5, <2>6, <3>1, ShownStays
  <2>7. CASE Broadcast("relay", "ended")
    <3>1. "relay" \in Broadcasters /\ "ended" \in Status
      BY DEF Broadcasters, Status
    <3>2. /\ cast' \in [Broadcasters -> CastRec]
          /\ last' = "ended" /\ cast'["relay"].status \in {"ended", "idle"} /\ cast'["relay"].todo = Attached
          /\ cast'["api"] = cast["api"]
      BY <1>0, <2>7, <3>1, BroadcastFacts DEF Broadcasters
    <3>3. CastTypes'
      BY <1>0, <2>2, <2>4, <3>2 DEF CastTypes
    <3>4. \A c \in Clients : client'[c] = "running" => c \in cast'["relay"].todo
      BY <2>2, <3>2 DEF Attached
    <3>5. QED
      BY <2>2, <2>5, <3>1, <3>2, <3>3, <3>4 DEF ShownInv
  <2>8. QED
    BY <2>3, <2>6, <2>7
<1>12. CASE \E s \in Subnets : DeleteHost(s) \/ HostChanges(s)
  BY <1>0, <1>12, ShownStays DEF DeleteHost, HostChanges, memory, CastTypes
<1>13. CASE UNCHANGED scansVars
  BY <1>0, <1>13, ShownStays DEF scansVars, CastTypes
<1>14. QED
  BY <1>1, <1>2, <1>3, <1>4, <1>5, <1>6, <1>7, <1>8, <1>9, <1>10, <1>11, <1>12, <1>13 DEF ScansNext

\* Nothing runs and nothing is shown at first.
LEMMA ShownInit == ScansInit => ShownInv /\ RowTypes
<1> SUFFICES ASSUME ScansInit PROVE ShownInv /\ RowTypes
  OBVIOUS
<1>1. NoScan.at = "off" /\ Quiet \in CastRec /\ Quiet.status = "idle"
  BY DEF NoScan, Quiet, Status, CastRec, ScanRec
<1>2. NoBatch \in BatchRec
  BY DEF NoBatch, BatchRec
<1>3. QED
  BY <1>1, <1>2, NoScanType DEF ScansInit, ShownInv, CastTypes, RowTypes, Scanners, Broadcasters

\* The flag is set exactly while a request's scan runs, and once everything is delivered no
\* browser, and no browser that connects, is told that a scan runs that is over.
THEOREM ScanAlwaysShown == ScansSpec => []ScanIsShown
<1>1. ShownInv /\ RowTypes /\ [ScansNext]_scansVars => (ShownInv /\ RowTypes)'
  BY ShownNext, RowTypesNext
<1>2. ShownInv => ScanIsShown
  <2> SUFFICES ASSUME ShownInv PROVE ScanIsShown
    OBVIOUS
  <2>1. ASSUME ~active, \A b \in DOMAIN cast : cast[b] = Quiet
        PROVE  last # "running" /\ \A c \in Clients : client[c] # "running"
    <3>1. \A b \in Broadcasters : cast[b].todo = {}
      BY <2>1 DEF ShownInv, CastTypes, Quiet
    <3>2. QED
      BY <2>1, <3>1 DEF ShownInv
  <2>2. QED
    BY <2>1 DEF ScanIsShown, FlagIsScan, NobodyLeftWaiting, ShownInv
<1>3. QED
  BY <1>1, <1>2, ShownInit, PTL DEF ScansSpec

=============================================================================
