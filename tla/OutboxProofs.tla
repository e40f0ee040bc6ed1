---------------------------- MODULE OutboxProofs ----------------------------
(***************************************************************************)
(* Proofs about Outbox for any number of events, subscriptions, attempts,  *)
(* retries and crashes.  Safe carries nearly all of them: who holds the    *)
(* lock, what the holder has loaded, and where an entry is whose receiver  *)
(* has taken it.  Counting bounds the posts of one entry; the last part    *)
(* shows that Outbox implements Delivery.                                  *)
(***************************************************************************)
EXTENDS Outbox, TLAPS

\* A worker that delivers is at the head of the line.
LockInv == \A w \in Workers : pc[w] \in Working => Holds(w)

\* What a delivering worker has loaded: stored entries, each with an attempt left; the
\* entry it attempts is one of them.
PassInv ==
  \A w \in Workers :
    pc[w] \in Working =>
      /\ \A e \in todo[w] : box[e].status # "none" /\ loaded[w][e] < MaxAttempts
      /\ pc[w] # "busy" => cur[w] \in todo[w]

\* An event that is not stored yet has no rows.
EventInv ==
  \A v \in Events : pc[v] \in {"idle", "selected"} =>
    \A s \in Subs : box[<<v, s>>].status = "none"

\* The pass that got the answer for e has yet to commit it.
Unrecorded(w, e) == pc[w] = "answered" /\ cur[w] = e /\ answer[w] = "ok"

\* A received entry is settled in the table, or its pass is about to settle it; in the
\* holder's pass it is not waiting for another POST.
ReceivedInv ==
  /\ \A e \in Entries : received[e] =>
       \/ box[e].status \in {"delivered", "failed", "purged"}
       \/ box[e].status = "pending" /\ \E w \in Workers : Unrecorded(w, e)
  /\ \A w \in Workers : pc[w] \in Working =>
       \A e \in todo[w] : received[e] => Unrecorded(w, e)

Safe == TypeOK /\ LockInv /\ PassInv /\ EventInv /\ ReceivedInv

-----------------------------------------------------------------------------
\* The rows a commit writes are well typed and never become pending.
LEMMA SettledFacts ==
  ASSUME NEW r \in RowType, NEW n \in Nat, n < MaxAttempts, NEW a \in Answers
  PROVE  /\ Settled(r, n, a) \in RowType
         /\ Settled(r, n, a).status = "pending" => r.status = "pending"
         /\ r.status # "none" => Settled(r, n, a).status # "none"
         /\ a = "ok" => Settled(r, n, a).status = "delivered"
         /\ r.status \in {"delivered", "failed", "purged"} =>
              Settled(r, n, a).status \in {"delivered", "failed", "purged"}
<1>0. /\ n + 1 \in 0 .. MaxAttempts /\ MaxAttempts \in Nat
      /\ r = [status |-> r.status, attempts |-> r.attempts, due |-> r.due]
      /\ r.status \in Statuses /\ r.attempts \in 0 .. MaxAttempts /\ r.due \in BOOLEAN
  BY BoundsAssumption DEF RowType
<1>1. CASE a = "removed"
  <2>1. Settled(r, n, a) = [r EXCEPT !.status = "failed"]
    BY <1>1 DEF Settled
  <2>2. QED
    BY <1>0, <1>1, <2>1 DEF RowType, Statuses
<1>2. CASE a = "ok"
  <2>1. Settled(r, n, a) = [r EXCEPT !.status = "delivered", !.attempts = n + 1]
    BY <1>2 DEF Settled
  <2>2. QED
    BY <1>0, <1>2, <2>1 DEF RowType, Statuses
<1>3. CASE a = "error" /\ n + 1 < MaxAttempts
  <2>1. Settled(r, n, a) = [r EXCEPT !.attempts = n + 1, !.due = FALSE]
    BY <1>3 DEF Settled
  <2>2. QED
    BY <1>0, <1>3, <2>1 DEF RowType, Statuses
<1>4. CASE a \notin {"removed", "ok"} /\ ~(a = "error" /\ n + 1 < MaxAttempts)
  <2>1. Settled(r, n, a) = [r EXCEPT !.status = "failed", !.attempts = n + 1]
    BY <1>4 DEF Settled
  <2>2. QED
    BY <1>0, <1>4, <2>1 DEF RowType, Statuses
<1>5. QED
  BY <1>1, <1>2, <1>3, <1>4

\* The rows the outbox starts from are rows.
LEMMA RowFacts ==
  NoRow \in RowType /\ NewRow \in RowType /\ PurgedRow \in RowType
BY BoundsAssumption, 0 \in 0 .. MaxAttempts DEF NoRow, NewRow, PurgedRow, RowType, Statuses

\* Becoming due changes nothing else of a row.
LEMMA DueFacts ==
  ASSUME NEW r \in RowType
  PROVE  [r EXCEPT !.due = TRUE] \in RowType /\ [r EXCEPT !.due = TRUE].status = r.status
BY DEF RowType

\* Only one worker can be delivering.
LEMMA OneHolder ==
  ASSUME LockInv, NEW w \in Workers, NEW u \in Workers,
         pc[w] \in Working, Holds(u)
  PROVE  w = u
BY DEF LockInv, Holds

\* Getting in line moves nobody from its head.
LEMMA Queues ==
  ASSUME line \in Seq(Workers), NEW w \in Workers, line' = Append(line, w)
  PROVE  /\ line' \in Seq(Workers)
         /\ \A u \in Workers : Holds(u) => Holds(u)'
BY DEF Holds

\* When the holder leaves, nobody is delivering.
LEMMA LeaveFacts ==
  ASSUME TypeOK, LockInv, NEW w \in Workers, Holds(w), Leave(w)
  PROVE  /\ pc' \in [Workers -> Steps]
         /\ line' \in Seq(Workers)
         /\ cache' \in [Workers -> SUBSET Subs]
         /\ todo' \in [Workers -> SUBSET Entries]
         /\ loaded' \in [Workers -> [Entries -> 0 .. MaxAttempts]]
         /\ cur' \in [Workers -> Entries \cup {None}]
         /\ answer' \in [Workers -> Answers]
         /\ \A u \in Workers : pc'[u] \notin Working
         /\ \A v \in Events : pc'[v] \in {"idle", "selected"} => pc'[v] = pc[v]
<1>1. pc' \in [Workers -> Steps]
  BY DEF TypeOK, Leave, Steps
<1>2. line' \in Seq(Workers)
  BY DEF TypeOK, Leave, Holds
<1>3. cache' \in [Workers -> SUBSET Subs] /\ todo' \in [Workers -> SUBSET Entries]
  BY DEF TypeOK, Leave
<1>4. loaded' \in [Workers -> [Entries -> 0 .. MaxAttempts]]
  BY BoundsAssumption DEF TypeOK, Leave
<1>5. cur' \in [Workers -> Entries \cup {None}] /\ answer' \in [Workers -> Answers]
  BY DEF TypeOK, Leave, Answers
<1>6. \A u \in Workers : pc'[u] \notin Working
  BY OneHolder DEF TypeOK, Leave, Working
<1>7. \A v \in Events : pc'[v] \in {"idle", "selected"} => pc'[v] = pc[v]
  BY DEF TypeOK, Leave, Workers
<1>8. QED
  BY <1>1, <1>2, <1>3, <1>4, <1>5, <1>6, <1>7

\* Initially nothing is stored and nobody works.
LEMMA SafeInit == Init => Safe
<1> SUFFICES ASSUME Init PROVE Safe
  OBVIOUS
<1>1. TypeOK
  <2>1. box \in [Entries -> RowType]
    BY RowFacts DEF Init
  <2>2. loaded \in [Workers -> [Entries -> 0 .. MaxAttempts]]
    BY BoundsAssumption DEF Init
  <2>3. QED
    BY <2>1, <2>2, BoundsAssumption DEF Init, TypeOK, Steps, Answers
<1>2. \A w \in Workers : pc[w] \notin Working
  BY DEF Init, Working
<1>3. EventInv
  BY DEF Init, EventInv, Entries, NoRow
<1>4. ReceivedInv
  BY <1>2 DEF Init, ReceivedInv
<1>5. QED
  BY <1>1, <1>2, <1>3, <1>4 DEF Safe, LockInv, PassInv

-----------------------------------------------------------------------------
\* Selecting stores nothing and delivers nothing.
LEMMA SelectSafe == ASSUME Safe, NEW v \in Events, Select(v) PROVE Safe'
<1>1. TypeOK'
  BY DEF Safe, TypeOK, Select, Steps, Workers
<1>2. pc \in [Workers -> Steps] /\ v \in Workers /\ pc[v] = "idle"
  BY DEF Safe, TypeOK, Select, Workers
<1>3. \A w \in Workers : pc'[w] \in Working => w # v /\ pc'[w] = pc[w]
  BY <1>2 DEF Select, Working
<1>4. LockInv' /\ PassInv'
  BY <1>3 DEF Safe, LockInv, PassInv, Holds, Select
<1>5. EventInv'
  BY <1>2 DEF Safe, EventInv, Select, Workers
<1>6. \A w \in Workers, e \in Entries : Unrecorded(w, e) => Unrecorded(w, e)'
  BY <1>2 DEF Unrecorded, Select
<1>7. ReceivedInv'
  BY <1>3, <1>6 DEF Safe, TypeOK, ReceivedInv, Select
<1>8. QED
  BY <1>1, <1>4, <1>5, <1>7 DEF Safe

\* The rows an event stores are new ones.
LEMMA StoreSafe == ASSUME Safe, NEW v \in Events, Store(v) PROVE Safe'
<1>1. /\ pc \in [Workers -> Steps] /\ v \in Workers /\ pc[v] = "selected"
      /\ box \in [Entries -> RowType] /\ line \in Seq(Workers)
      /\ line' = Append(line, v) /\ pc' = [pc EXCEPT ![v] = "waiting"]
      /\ box' = [e \in Entries |-> IF e \in Targets(v) THEN NewRow ELSE box[e]]
  BY DEF Safe, TypeOK, Store, Workers
<1>2. \A e \in Targets(v) : e \in Entries => box[e].status = "none"
  BY <1>1 DEF Safe, EventInv, Targets, Entries
<1>3. TypeOK'
  <2>1. box' \in [Entries -> RowType]
    BY <1>1, RowFacts
  <2>2. line' \in Seq(Workers)
    BY <1>1
  <2>3. QED
    BY <2>1, <2>2, <1>1 DEF Safe, TypeOK, Store, Steps
<1>4. \A w \in Workers : pc'[w] \in Working => w # v /\ pc'[w] = pc[w]
  BY <1>1 DEF Working
<1>5. LockInv'
  BY <1>1, <1>4, Queues DEF Safe, LockInv
<1>6. PassInv'
  <2>1. \A e \in Entries : box[e].status # "none" => box'[e].status # "none"
    BY <1>1, <1>2
  <2>2. \A w \in Workers : todo[w] \subseteq Entries
    BY DEF Safe, TypeOK
  <2>3. UNCHANGED <<todo, loaded, cur>>
    BY DEF Store
  <2>4. QED
    BY <1>4, <2>1, <2>2, <2>3 DEF Safe, PassInv
<1>7. EventInv'
  <2>1. SUFFICES ASSUME NEW u \in Events, pc'[u] \in {"idle", "selected"}, NEW s \in Subs
                 PROVE  box'[<<u, s>>].status = "none"
    BY DEF EventInv
  <2>2. u # v /\ pc[u] \in {"idle", "selected"}
    BY <1>1, <2>1 DEF Workers
  <2>3. <<u, s>> \in Entries /\ <<u, s>> \notin Targets(v)
    BY <2>2 DEF Entries, Targets
  <2>4. QED
    BY <1>1, <2>2, <2>3 DEF Safe, EventInv
<1>8. ReceivedInv'
  <2>1. \A w \in Workers, e \in Entries : Unrecorded(w, e) => Unrecorded(w, e)'
    BY <1>1 DEF Unrecorded, Store
  <2>2. \A e \in Entries : received[e] => box'[e] = box[e]
    BY <1>1, <1>2 DEF Safe, ReceivedInv
  <2>3. UNCHANGED <<received, todo>>
    BY DEF Store
  <2>4. \A w \in Workers : todo[w] \subseteq Entries
    BY DEF Safe, TypeOK
  <2>5. QED
    BY <1>4, <2>1, <2>2, <2>3, <2>4 DEF Safe, ReceivedInv
<1>9. QED
  BY <1>3, <1>5, <1>6, <1>7, <1>8 DEF Safe

\* A failed insert stores nothing.
LEMMA StoreFailsSafe == ASSUME Safe, NEW v \in Events, StoreFails(v) PROVE Safe'
<1>1. TypeOK'
  BY DEF Safe, TypeOK, StoreFails, Steps, Workers
<1>2. pc \in [Workers -> Steps] /\ v \in Workers /\ pc[v] = "selected"
  BY DEF Safe, TypeOK, StoreFails, Workers
<1>3. \A w \in Workers : pc'[w] \in Working => w # v /\ pc'[w] = pc[w]
  BY <1>2 DEF StoreFails, Working
<1>4. LockInv' /\ PassInv'
  BY <1>3 DEF Safe, LockInv, PassInv, Holds, StoreFails
<1>5. EventInv'
  BY <1>2 DEF Safe, EventInv, StoreFails, Workers
<1>6. \A w \in Workers, e \in Entries : Unrecorded(w, e) => Unrecorded(w, e)'
  BY <1>2 DEF Unrecorded, StoreFails
<1>7. ReceivedInv'
  BY <1>3, <1>6 DEF Safe, TypeOK, ReceivedInv, StoreFails
<1>8. QED
  BY <1>1, <1>4, <1>5, <1>7 DEF Safe

\* The loop gets in line.
LEMMA LoopSafe == ASSUME Safe, LoopWakes PROVE Safe'
<1>1. /\ pc \in [Workers -> Steps] /\ Loop \in Workers /\ pc[Loop] = "idle"
      /\ line \in Seq(Workers) /\ line' = Append(line, Loop)
      /\ pc' = [pc EXCEPT ![Loop] = "waiting"]
  BY DEF Safe, TypeOK, LoopWakes, Workers
<1>2. TypeOK'
  BY <1>1 DEF Safe, TypeOK, LoopWakes, Steps
<1>3. \A w \in Workers : pc'[w] \in Working => w # Loop /\ pc'[w] = pc[w]
  BY <1>1 DEF Working
<1>4. LockInv'
  BY <1>1, <1>3, Queues DEF Safe, LockInv
<1>5. PassInv'
  BY <1>3 DEF Safe, PassInv, LoopWakes
<1>6. EventInv'
  BY <1>1, WorkersAssumption DEF Safe, EventInv, LoopWakes, Workers
<1>7. \A w \in Workers, e \in Entries : Unrecorded(w, e) => Unrecorded(w, e)'
  BY <1>1 DEF Unrecorded, LoopWakes
<1>8. ReceivedInv'
  BY <1>3, <1>7 DEF Safe, TypeOK, ReceivedInv, LoopWakes
<1>9. QED
  BY <1>2, <1>4, <1>5, <1>6, <1>8 DEF Safe

\* A reset row is pending, not received any more, and on its way to the admin's pass.
LEMMA RetrySafe == ASSUME Safe, NEW e \in Entries, Retry(e) PROVE Safe'
<1>1. /\ pc \in [Workers -> Steps] /\ Admin \in Workers /\ pc[Admin] = "idle"
      /\ box \in [Entries -> RowType] /\ box[e].status # "none"
      /\ cur \in [Workers -> Entries \cup {None}]
      /\ received \in [Entries -> BOOLEAN] /\ posts \in [Entries -> Nat]
      /\ line \in Seq(Workers) /\ line' = Append(line, Admin)
      /\ pc' = [pc EXCEPT ![Admin] = "waiting"]
      /\ cur' = [cur EXCEPT ![Admin] = e]
      /\ box' = [box EXCEPT ![e] = NewRow]
      /\ received' = [received EXCEPT ![e] = FALSE]
  BY DEF Safe, TypeOK, Retry, Workers
<1>2. TypeOK'
  <2>1. box' \in [Entries -> RowType] /\ line' \in Seq(Workers) /\ retries' \in 0 .. MaxRetries
    BY <1>1, RowFacts, BoundsAssumption DEF Safe, TypeOK, Retry
  <2>2. cur' \in [Workers -> Entries \cup {None}]
    BY <1>1
  <2>3. QED
    BY <2>1, <2>2, <1>1 DEF Safe, TypeOK, Retry, Steps
<1>3. \A w \in Workers : pc'[w] \in Working => w # Admin /\ pc'[w] = pc[w] /\ cur'[w] = cur[w]
  BY <1>1 DEF Working
<1>4. LockInv'
  BY <1>1, <1>3, Queues DEF Safe, LockInv
<1>5. PassInv'
  <2>1. \A f \in Entries : box[f].status # "none" => box'[f].status # "none"
    BY <1>1 DEF NewRow
  <2>2. (\A w \in Workers : todo[w] \subseteq Entries) /\ UNCHANGED <<todo, loaded>>
    BY DEF Safe, TypeOK, Retry
  <2>3. QED
    BY <1>3, <2>1, <2>2 DEF Safe, PassInv
<1>6. EventInv'
  BY <1>1, WorkersAssumption DEF Safe, EventInv, Workers, Entries
<1>7. ReceivedInv'
  <2>1. \A w \in Workers, f \in Entries : Unrecorded(w, f) => Unrecorded(w, f)'
    BY <1>1 DEF Unrecorded, Retry
  <2>2. \A f \in Entries : received'[f] => received[f] /\ box'[f] = box[f]
    BY <1>1
  <2>3. (\A w \in Workers : todo[w] \subseteq Entries) /\ todo' = todo
    BY DEF Safe, TypeOK, Retry
  <2>4. QED
    BY <1>3, <2>1, <2>2, <2>3 DEF Safe, ReceivedInv
<1>8. QED
  BY <1>2, <1>4, <1>5, <1>6, <1>7 DEF Safe

\* A pass starts with rows that are pending, and nobody else has an answer for them.
LEMMA AcquireSafe == ASSUME Safe, NEW w \in Workers, Acquire(w) PROVE Safe'
<1>0. /\ pc \in [Workers -> Steps] /\ pc[w] = "waiting" /\ Holds(w)
      /\ box \in [Entries -> RowType] /\ TypeOK /\ LockInv
      /\ UNCHANGED <<subs, box, retries, disturbances, received, posts>>
  BY DEF Safe, TypeOK, Acquire
<1>1. \A u \in Workers : pc[u] \notin Working
  BY <1>0, OneHolder DEF Working
<1>2. \A e \in Entries : received[e] => box[e].status \in {"delivered", "failed", "purged"}
  BY <1>1 DEF Safe, ReceivedInv, Unrecorded, Working
<1>3. CASE Due = {}
  <2>1. Leave(w)
    BY <1>3 DEF Acquire
  <2>2. TypeOK' /\ \A u \in Workers : pc'[u] \notin Working
    BY <2>1, <1>0, LeaveFacts DEF TypeOK
  <2>3. EventInv'
    BY <2>1, <1>0, LeaveFacts DEF Safe, EventInv
  <2>4. ReceivedInv'
    BY <1>0, <1>2, <2>2 DEF ReceivedInv
  <2>5. QED
    BY <2>2, <2>3, <2>4 DEF Safe, LockInv, PassInv
<1>4. CASE Due # {}
  <2>0. /\ pc' = [pc EXCEPT ![w] = "busy"]
        /\ todo' = [todo EXCEPT ![w] = Due]
        /\ loaded' = [loaded EXCEPT ![w] =
             [e \in Entries |-> IF e \in Due THEN Attempts(w, e) ELSE 0]]
        /\ cache' = [cache EXCEPT ![w] = @ \cap subs]
        /\ cur' = [cur EXCEPT ![w] = None]
        /\ UNCHANGED <<line, answer>>
    BY <1>4 DEF Acquire
  <2>1. \A e \in Entries : Attempts(w, e) \in 0 .. MaxAttempts
    BY <1>0, BoundsAssumption DEF Attempts, RowType
  <2>2. \A e \in Due : /\ e \in Entries /\ box[e].status = "pending"
                       /\ Attempts(w, e) < MaxAttempts
    BY BoundsAssumption DEF Due, Attempts
  <2>3. TypeOK'
    <3>1. loaded' \in [Workers -> [Entries -> 0 .. MaxAttempts]]
      BY <2>0, <2>1, BoundsAssumption DEF Safe, TypeOK
    <3>2. todo' \in [Workers -> SUBSET Entries]
      BY <2>0, <2>2 DEF Safe, TypeOK
    <3>3. QED
      BY <3>1, <3>2, <2>0, <1>0 DEF TypeOK, Steps
  <2>4. \A u \in Workers : pc'[u] \in Working => u = w /\ pc'[u] = "busy"
    BY <1>0, <1>1, <2>0
  <2>5. LockInv'
    BY <1>0, <2>0, <2>4 DEF LockInv, Holds
  <2>6. PassInv'
    <3>1. \A e \in todo'[w] : e \in Due /\ loaded'[w][e] = Attempts(w, e)
      BY <2>0, <2>2 DEF Safe, TypeOK
    <3>2. QED
      BY <3>1, <2>2, <2>4, <1>0 DEF PassInv
  <2>7. EventInv'
    BY <1>0, <2>0 DEF Safe, EventInv, Workers
  <2>8. ReceivedInv'
    <3>1. todo'[w] = Due
      BY <2>0 DEF Safe, TypeOK
    <3>2. QED
      BY <3>1, <1>0, <1>2, <2>2, <2>4 DEF ReceivedInv
  <2>9. QED
    BY <2>3, <2>5, <2>6, <2>7, <2>8 DEF Safe
<1>5. QED
  BY <1>3, <1>4

\* Refusing or starting to post changes nothing but the worker's own step.
LEMMA AttemptSafe ==
  ASSUME Safe, NEW w \in Workers, NEW e \in Entries, Refuse(w, e) \/ Post(w, e)
  PROVE  Safe'
<1>0. /\ pc \in [Workers -> Steps] /\ pc[w] = "busy" /\ e \in todo[w]
      /\ cur' = [cur EXCEPT ![w] = e] /\ cur \in [Workers -> Entries \cup {None}]
      /\ pc' = [pc EXCEPT ![w] = pc'[w]] /\ pc'[w] \in {"answered", "posting"}
      /\ UNCHANGED <<subs, box, line, cache, todo, loaded, retries, disturbances, received>>
  BY DEF Safe, TypeOK, Refuse, Post
<1>1. TypeOK'
  <2>1. posts' \in [Entries -> Nat] /\ answer' \in [Workers -> Answers]
    <3>1. posts \in [Entries -> Nat] /\ answer \in [Workers -> Answers]
      BY DEF Safe, TypeOK
    <3>2. CASE Refuse(w, e)
      BY <3>1, <3>2 DEF Refuse, Answers
    <3>3. CASE Post(w, e)
      BY <3>1, <3>3 DEF Post
    <3>4. QED
      BY <3>2, <3>3
  <2>2. QED
    BY <1>0, <2>1 DEF Safe, TypeOK, Steps
<1>2. \A u \in Workers : pc'[u] \in Working => pc[u] \in Working
  BY <1>0 DEF Working
<1>3. LockInv'
  BY <1>0, <1>2 DEF Safe, LockInv, Holds
<1>4. PassInv'
  BY <1>0, <1>2 DEF Safe, PassInv, Working
<1>5. EventInv'
  BY <1>0 DEF Safe, EventInv, Workers
<1>6. ReceivedInv'
  <2>1. \A u \in Workers, f \in Entries : Unrecorded(u, f) => Unrecorded(u, f)'
    <3>1. \A u \in Workers : pc[u] = "answered" =>
            pc'[u] = "answered" /\ cur'[u] = cur[u] /\ answer'[u] = answer[u]
      BY <1>0 DEF Refuse, Post, Safe, TypeOK
    <3>2. QED
      BY <3>1 DEF Unrecorded
  <2>2. QED
    BY <1>0, <1>2, <2>1 DEF Safe, TypeOK, ReceivedInv
<1>7. QED
  BY <1>1, <1>3, <1>4, <1>5, <1>6 DEF Safe

\* An answer: the entry was not received before, and is now if the answer was "ok".
LEMMA AnswerSafe ==
  ASSUME Safe, NEW w \in Workers, NEW a \in {"ok", "error", "blocked"}, Answer(w, a)
  PROVE  Safe'
<1>0. /\ pc \in [Workers -> Steps] /\ pc[w] = "posting"
      /\ cur[w] \in todo[w] /\ cur[w] \in Entries /\ todo[w] \subseteq Entries
      /\ pc' = [pc EXCEPT ![w] = "answered"] /\ cur' = cur
      /\ answer' = [answer EXCEPT ![w] = a] /\ answer \in [Workers -> Answers]
      /\ received' = [received EXCEPT ![cur[w]] = @ \/ a = "ok"]
      /\ received \in [Entries -> BOOLEAN]
      /\ UNCHANGED <<subs, box, line, cache, todo, loaded, cur, retries, disturbances, posts>>
  BY DEF Safe, TypeOK, PassInv, Answer, Working
<1>1. TypeOK'
  <2>1. answer' \in [Workers -> Answers]
    BY <1>0 DEF Answers
  <2>2. received' \in [Entries -> BOOLEAN]
    <3>1. (received[cur[w]] \/ a = "ok") \in BOOLEAN
      OBVIOUS
    <3>2. QED
      BY <1>0, <3>1, Zenon
  <2>3. QED
    BY <1>0, <2>1, <2>2 DEF Safe, TypeOK, Steps
<1>2. \A u \in Workers : pc'[u] \in Working => pc[u] \in Working
  BY <1>0 DEF Working
<1>3. LockInv'
  BY <1>0, <1>2 DEF Safe, LockInv, Holds
<1>4. PassInv'
  BY <1>0, <1>2 DEF Safe, PassInv
<1>5. EventInv'
  BY <1>0 DEF Safe, EventInv, Workers
<1>6. ReceivedInv'
  <2>1. \A u \in Workers : pc'[u] \in Working => u = w
    BY <1>0, <1>2, OneHolder DEF Safe, LockInv, Working
  <2>2. ~received[cur[w]]
    BY <1>0 DEF Safe, ReceivedInv, Unrecorded, Working
  <2>3. \A e \in Entries : e # cur[w] =>
          received'[e] = received[e] /\ (e \in todo[w] => ~received[e])
    BY <1>0 DEF Safe, ReceivedInv, Unrecorded, Working
  <2>4. received'[cur[w]] => Unrecorded(w, cur[w])'
    BY <1>0, <2>2, Zenon DEF Unrecorded
  <2>5. box[cur[w]].status # "none" /\ box[cur[w]] \in RowType
    BY <1>0 DEF Safe, TypeOK, PassInv, Working
  <2>6. \A u \in Workers, e \in Entries : ~Unrecorded(u, e)
    BY <1>0, OneHolder DEF Safe, LockInv, Unrecorded, Working
  <2>7. \A e \in Entries : received'[e] =>
          \/ box[e].status \in {"delivered", "failed", "purged"}
          \/ box[e].status = "pending" /\ \E u \in Workers : Unrecorded(u, e)'
    <3>1. SUFFICES ASSUME NEW e \in Entries, received'[e]
                   PROVE  \/ box[e].status \in {"delivered", "failed", "purged"}
                          \/ box[e].status = "pending" /\ \E u \in Workers : Unrecorded(u, e)'
      OBVIOUS
    <3>2. CASE e = cur[w]
      <4>1. box[e].status \in {"pending", "delivered", "failed", "purged"}
        BY <3>2, <2>5 DEF RowType, Statuses
      <4>2. \E u \in Workers : Unrecorded(u, e)'
        <5>1. received'[cur[w]]
          BY <3>1, <3>2
        <5>2. Unrecorded(w, cur[w])'
          BY <5>1, <2>4
        <5>3. Unrecorded(w, e)'
          BY <5>2, <3>2, <1>0 DEF Unrecorded
        <5>4. QED
          BY <5>3
      <4>3. QED
        BY <4>1, <4>2
    <3>3. CASE e # cur[w]
      BY <3>1, <3>3, <2>3, <2>6 DEF Safe, ReceivedInv
    <3>4. QED
      BY <3>2, <3>3
  <2>8. QED
    BY <1>0, <2>1, <2>3, <2>4, <2>7 DEF ReceivedInv
<1>7. QED
  BY <1>1, <1>3, <1>4, <1>5, <1>6 DEF Safe

\* An answered worker holds the lock; no other entry has an answer to record.
LEMMA AnsweredFacts ==
  ASSUME Safe, NEW w \in Workers, pc[w] = "answered"
  PROVE  /\ Holds(w) /\ cur[w] \in todo[w] /\ cur[w] \in Entries
         /\ loaded[w][cur[w]] \in Nat /\ loaded[w][cur[w]] < MaxAttempts
         /\ box[cur[w]] \in RowType /\ box[cur[w]].status # "none" /\ answer[w] \in Answers
         /\ received[cur[w]] => answer[w] = "ok"
         /\ \A e \in Entries : received[e] /\ e # cur[w] =>
              box[e].status \in {"delivered", "failed", "purged"}
<1>1. Holds(w) /\ cur[w] \in todo[w] /\ todo[w] \subseteq Entries
  BY DEF Safe, TypeOK, LockInv, PassInv, Working
<1>2. loaded[w][cur[w]] \in 0 .. MaxAttempts /\ box[cur[w]] \in RowType /\ answer[w] \in Answers
  BY <1>1 DEF Safe, TypeOK
<1>3. box[cur[w]].status # "none" /\ loaded[w][cur[w]] < MaxAttempts
  BY <1>1 DEF Safe, PassInv, Working
<1>4. received[cur[w]] => answer[w] = "ok"
  BY <1>1 DEF Safe, ReceivedInv, Unrecorded, Working
<1>5. ASSUME NEW u \in Workers, NEW e \in Entries, Unrecorded(u, e) PROVE e = cur[w]
  BY <1>5, <1>1, OneHolder DEF Safe, Unrecorded, Working
<1>6. \A e \in Entries : received[e] /\ e # cur[w] =>
        box[e].status \in {"delivered", "failed", "purged"}
  BY <1>5 DEF Safe, ReceivedInv
<1>7. QED
  BY <1>1, <1>2, <1>3, <1>4, <1>6, BoundsAssumption

\* A commit settles the received entry; whatever else is received was settled before.
LEMMA SettleSafe == ASSUME Safe, NEW w \in Workers, Settle(w) PROVE Safe'
<1> DEFINE c == cur[w]
           r == Settled(box[c], loaded[w][c], answer[w])
<1>0. /\ pc \in [Workers -> Steps] /\ pc[w] = "answered" /\ box \in [Entries -> RowType]
      /\ box[c].status # "purged" /\ box' = [box EXCEPT ![c] = r]
      /\ UNCHANGED <<subs, retries, disturbances, received, posts>> /\ TypeOK /\ LockInv
  BY DEF Safe, TypeOK, Settle
<1>1. /\ Holds(w) /\ c \in todo[w] /\ c \in Entries
      /\ received[c] => answer[w] = "ok"
      /\ \A e \in Entries : received[e] /\ e # c =>
           box[e].status \in {"delivered", "failed", "purged"}
      /\ box[c].status # "none"
  BY <1>0, AnsweredFacts
<1>2. /\ r \in RowType /\ r.status # "none"
      /\ received[c] => r.status = "delivered"
  BY <1>0, AnsweredFacts, SettledFacts
<1> HIDE DEF r
<1>3. box' \in [Entries -> RowType] /\ \A e \in Entries : e # c => box'[e] = box[e]
  BY <1>0, <1>2
<1>4. \A e \in Entries : received'[e] => box'[e].status \in {"delivered", "failed", "purged"}
  BY <1>0, <1>1, <1>2
<1>5. \A e \in Entries : box[e].status # "none" <=> box'[e].status # "none"
  BY <1>0, <1>1, <1>2
<1>6. CASE todo[w] = {c}
  <2>1. Leave(w)
    BY <1>6 DEF Settle
  <2>2. TypeOK' /\ \A u \in Workers : pc'[u] \notin Working
    BY <2>1, <1>0, <1>1, <1>3, LeaveFacts DEF TypeOK
  <2>3. EventInv'
    BY <2>1, <1>0, <1>1, <1>5, LeaveFacts DEF Safe, EventInv, Entries
  <2>4. QED
    BY <2>2, <2>3, <1>4 DEF Safe, LockInv, PassInv, ReceivedInv
<1>7. CASE todo[w] # {c}
  <2>0. /\ pc' = [pc EXCEPT ![w] = "busy"]
        /\ todo' = [todo EXCEPT ![w] = @ \ {c}]
        /\ cur' = [cur EXCEPT ![w] = None]
        /\ answer' = [answer EXCEPT ![w] = "none"]
        /\ UNCHANGED <<line, cache, loaded>>
    BY <1>7 DEF Settle
  <2>1. TypeOK'
    BY <2>0, <1>0, <1>3 DEF TypeOK, Steps, Answers
  <2>2. \A u \in Workers : pc'[u] \in Working => u = w /\ pc'[u] = "busy"
    BY <2>0, <1>0, <1>1, OneHolder DEF Working
  <2>3. LockInv'
    BY <2>0, <2>2, <1>1 DEF LockInv, Holds
  <2>4. PassInv'
    <3>1. \A e \in todo'[w] : e \in todo[w] /\ e \in Entries
      BY <2>0, <1>0 DEF TypeOK
    <3>2. \A e \in todo[w] : box[e].status # "none" /\ loaded[w][e] < MaxAttempts
      BY <1>0 DEF Safe, PassInv, Working
    <3>3. QED
      BY <2>0, <2>2, <3>1, <3>2, <1>5 DEF PassInv
  <2>5. EventInv'
    BY <2>0, <1>0, <1>5 DEF Safe, EventInv, Workers, Entries
  <2>6. \A e \in todo'[w] : ~received[e]
    <3>1. todo'[w] = todo[w] \ {c} /\ todo[w] \subseteq Entries
      BY <2>0, <1>0 DEF TypeOK
    <3>2. QED
      BY <3>1, <1>0 DEF Safe, ReceivedInv, Unrecorded, Working
  <2>7. ReceivedInv'
    BY <2>2, <2>6, <1>0, <1>4 DEF ReceivedInv
  <2>8. QED
    BY <2>1, <2>3, <2>4, <2>5, <2>7 DEF Safe
<1>8. QED
  BY <1>6, <1>7

\* A pass that ends without recording leaves nothing received behind but settled rows.
LEMMA AbortSafe ==
  ASSUME Safe, NEW w \in Workers, RowGone(w) \/ CommitFails(w)
  PROVE  Safe'
<1>0. /\ pc[w] = "answered" /\ Leave(w) /\ TypeOK /\ LockInv
      /\ UNCHANGED <<subs, box, retries, posts>>
  BY DEF Safe, RowGone, CommitFails
<1>1. /\ Holds(w) /\ cur[w] \in Entries
      /\ \A e \in Entries : received[e] /\ e # cur[w] =>
           box[e].status \in {"delivered", "failed", "purged"}
  BY <1>0, AnsweredFacts
<1>2. /\ received' \in [Entries -> BOOLEAN] /\ disturbances' \in 0 .. MaxDisturbances
      /\ \A e \in Entries : received'[e] => box[e].status \in {"delivered", "failed", "purged"}
  <2>1. CASE RowGone(w)
    BY <2>1, <1>0, <1>1 DEF RowGone, TypeOK
  <2>2. CASE CommitFails(w)
    BY <2>2, <1>0, <1>1, BoundsAssumption DEF CommitFails, Disturb, TypeOK
  <2>3. QED
    BY <2>1, <2>2
<1>3. TypeOK' /\ \A u \in Workers : pc'[u] \notin Working
  BY <1>0, <1>1, <1>2, LeaveFacts DEF TypeOK
<1>4. EventInv'
  BY <1>0, <1>1, LeaveFacts DEF Safe, EventInv
<1>5. QED
  BY <1>0, <1>2, <1>3, <1>4 DEF Safe, LockInv, PassInv, ReceivedInv

\* A crash forgets every answer that was not recorded.
LEMMA CrashSafe == ASSUME Safe, Crash PROVE Safe'
<1>0. TypeOK /\ UNCHANGED <<subs, box, retries, posts>>
  BY DEF Safe, Crash
<1>1. /\ pc' \in [Workers -> Steps]
      /\ \A u \in Workers : pc'[u] \notin Working
      /\ \A v \in Events : pc'[v] \in {"idle", "selected"} => pc[v] = "idle"
  BY DEF Crash, Steps, Working, Workers
<1>2. TypeOK'
  <2>1. loaded' \in [Workers -> [Entries -> 0 .. MaxAttempts]]
    BY BoundsAssumption DEF Crash
  <2>2. disturbances' \in 0 .. MaxDisturbances
    BY BoundsAssumption DEF Safe, TypeOK, Crash, Disturb
  <2>3. line' \in Seq(Workers)
    BY DEF Crash
  <2>4. received' \in [Entries -> BOOLEAN]
    BY DEF Crash
  <2>5. QED
    BY <2>1, <2>2, <2>3, <2>4, <1>0, <1>1 DEF TypeOK, Crash, Answers
<1>3. EventInv'
  BY <1>0, <1>1 DEF Safe, EventInv
<1>4. \A e \in Entries : received'[e] => box[e].status \in {"delivered", "failed", "purged"}
  <2>1. \A e \in Entries : received'[e] =>
          received[e] /\ \A w \in Workers : pc[w] = "answered" => cur[w] # e
    BY Zenon DEF Crash
  <2>2. QED
    BY <2>1 DEF Safe, ReceivedInv, Unrecorded
<1>5. QED
  BY <1>0, <1>1, <1>2, <1>3, <1>4 DEF Safe, LockInv, PassInv, ReceivedInv

\* What happens around the passes moves rows only towards being settled.
LEMMA AroundSafe ==
  ASSUME Safe,
         \/ \E s \in Subs : DeleteSub(s)
         \/ \E e \in Entries : Purge(e) \/ BackoffEnds(e)
  PROVE  Safe'
<1>0. /\ UNCHANGED <<pc, line, cache, todo, loaded, cur, answer, retries, disturbances,
                     received, posts>>
      /\ subs' \subseteq Subs /\ box \in [Entries -> RowType] /\ TypeOK
  BY DEF Safe, TypeOK, DeleteSub, Purge, BackoffEnds
<1>1. /\ box' \in [Entries -> RowType]
      /\ \A e \in Entries :
           /\ box[e].status = "none" <=> box'[e].status = "none"
           /\ box[e].status \in {"delivered", "failed", "purged"} =>
                box'[e].status \in {"delivered", "failed", "purged"}
  <2>1. ASSUME NEW s \in Subs, DeleteSub(s) PROVE <1>1!1 /\ <1>1!2
    BY <2>1, <1>0 DEF DeleteSub, RowType, Statuses
  <2>2. ASSUME NEW e \in Entries, Purge(e) PROVE <1>1!1 /\ <1>1!2
    BY <2>2, <1>0, RowFacts DEF Purge, PurgedRow
  <2>3. ASSUME NEW e \in Entries, BackoffEnds(e) PROVE <1>1!1 /\ <1>1!2
    <3>1. box[e] \in RowType /\ box' = [box EXCEPT ![e] = [box[e] EXCEPT !.due = TRUE]]
      BY <2>3, <1>0 DEF BackoffEnds
    <3>2. /\ [box[e] EXCEPT !.due = TRUE] \in RowType
          /\ [box[e] EXCEPT !.due = TRUE].status = box[e].status
      BY <3>1, DueFacts
    <3>3. QED
      BY <3>1, <3>2, <1>0
  <2>4. QED
    BY <2>1, <2>2, <2>3
<1>2. TypeOK'
  BY <1>0, <1>1 DEF TypeOK
<1>3. LockInv' /\ PassInv' /\ EventInv'
  BY <1>0, <1>1 DEF Safe, TypeOK, LockInv, PassInv, EventInv, Holds, Entries
<1>4. ReceivedInv'
  <2>1. \A e \in Entries : box'[e].status \in Statuses
    BY <1>1 DEF RowType
  <2>2. \A u \in Workers, e \in Entries : Unrecorded(u, e)' <=> Unrecorded(u, e)
    BY <1>0 DEF Unrecorded
  <2>3. QED
    BY <1>0, <1>1, <2>1, <2>2 DEF Safe, TypeOK, ReceivedInv, Statuses
<1>5. QED
  BY <1>2, <1>3, <1>4 DEF Safe

-----------------------------------------------------------------------------
\* Every step keeps the invariant.
LEMMA SafeNext == Safe /\ [Next]_vars => Safe'
<1> SUFFICES ASSUME Safe, [Next]_vars PROVE Safe'
  OBVIOUS
<1>1. ASSUME NEW v \in Events, Select(v) \/ Store(v) \/ StoreFails(v) PROVE Safe'
  BY <1>1, SelectSafe, StoreSafe, StoreFailsSafe
<1>2. ASSUME NEW w \in Workers, Pass(w) PROVE Safe'
  BY <1>2, AcquireSafe, AttemptSafe, AnswerSafe, SettleSafe, AbortSafe DEF Pass
<1>3. CASE UNCHANGED vars
  BY <1>3 DEF vars, Safe, TypeOK, LockInv, PassInv, EventInv, ReceivedInv, Unrecorded, Holds
<1>4. QED
  BY <1>1, <1>2, <1>3, LoopSafe, RetrySafe, AbortSafe, CrashSafe, AroundSafe DEF Next

\* The invariant holds of every reachable state.
LEMMA SafeAlways == Spec => []Safe
<1>1. QED
  BY SafeInit, SafeNext, PTL DEF Spec

\* The types of the outbox, the lock's line and every pass, for any instance.
THEOREM TypeCorrect == Spec => []TypeOK
<1>1. Safe => TypeOK
  BY DEF Safe
<1>2. QED
  BY <1>1, SafeAlways, PTL

\* No entry is posted again once its receiver took it and the pass lived to record it:
\* the lock of webhook_service.py keeps the event passes, the loop and the retry endpoint
\* from sending it twice.
THEOREM SentOnce == Spec => []NeverSentTwice
<1>1. Safe => NeverSentTwice
  BY DEF Safe, PassInv, ReceivedInv, Unrecorded, NeverSentTwice, Working
<1>2. QED
  BY <1>1, SafeAlways, PTL

\* A step other than the retry endpoint's never makes a settled row pending again.
LEMMA ReopenStep ==
  ASSUME Safe, [Next]_vars, NEW e \in Entries,
         box[e].status \in {"delivered", "failed", "purged"}, box'[e].status = "pending"
  PROVE  Retry(e)
<1>0. box \in [Entries -> RowType]
  BY DEF Safe, TypeOK
<1>1. ASSUME NEW v \in Events, Store(v) PROVE FALSE
  <2>1. e \in Targets(v)
    BY <1>1 DEF Store
  <2>2. QED
    BY <1>1, <2>1 DEF Safe, EventInv, Store, Targets, Entries
<1>2. ASSUME NEW f \in Entries, Retry(f) PROVE f = e
  BY <1>2, <1>0 DEF Retry
<1>3. ASSUME NEW w \in Workers, Settle(w) PROVE FALSE
  <2> DEFINE r == Settled(box[cur[w]], loaded[w][cur[w]], answer[w])
  <2>1. cur[w] \in Entries /\ (r.status = "pending" => box[cur[w]].status = "pending")
    BY <1>3, AnsweredFacts, SettledFacts DEF Settle
  <2>2. box' = [box EXCEPT ![cur[w]] = r]
    BY <1>3 DEF Settle
  <2> HIDE DEF r
  <2>3. QED
    BY <2>1, <2>2, <1>0
<1>4. ASSUME NEW s \in Subs, DeleteSub(s) PROVE FALSE
  BY <1>4, <1>0 DEF DeleteSub, RowType
<1>5. ASSUME NEW f \in Entries, Purge(f) PROVE FALSE
  BY <1>5, <1>0 DEF Purge, PurgedRow
<1>6. ASSUME NEW f \in Entries, BackoffEnds(f) PROVE FALSE
  BY <1>6, <1>0, DueFacts DEF BackoffEnds
<1>7. ASSUME box' = box PROVE FALSE
  BY <1>7
<1>8. ASSUME NEW w \in Workers, Pass(w), ~Settle(w) PROVE box' = box
  BY <1>8 DEF Pass, Acquire, Refuse, Post, Answer, RowGone
<1>9. ASSUME NEW w \in Workers, CommitFails(w) PROVE box' = box
  BY <1>9 DEF CommitFails
<1>10. ASSUME NEW v \in Events, Select(v) \/ StoreFails(v) PROVE box' = box
  BY <1>10 DEF Select, StoreFails
<1>11. (LoopWakes \/ Crash \/ UNCHANGED vars) => box' = box
  BY DEF LoopWakes, Crash, vars
<1>12. QED
  BY <1>1, <1>2, <1>3, <1>4, <1>5, <1>6, <1>7, <1>8, <1>9, <1>10, <1>11 DEF Next

\* Commits of passes whose rows changed under them never reopen a settled entry: only
\* the retry endpoint does.
THEOREM RetryAloneReopens == Spec => OnlyRetryReopens
<1> DEFINE Reopens ==
      \A e \in Entries :
        box[e].status \in {"delivered", "failed", "purged"} /\ box'[e].status = "pending"
          => Retry(e)
<1>1. Safe /\ [Next]_vars => [Reopens]_vars
  BY ReopenStep
<1>2. QED
  BY <1>1, SafeAlways, PTL DEF Spec, OnlyRetryReopens

-----------------------------------------------------------------------------
(* The number of POSTs of an entry, while the admin has reset nothing.       *)

\* A POST of e is on its way, or its outcome is not recorded yet.
Flight(w, e) ==
  cur[w] = e /\ (pc[w] = "posting" \/ (pc[w] = "answered" /\ answer[w] # "removed"))

\* A worker that does not deliver has no entry: nothing in its session hides a row.
Blank == \A w \in Workers : pc[w] \notin Working => cur[w] = None

\* Every POST of e is in its row's attempts, lost in a crash, or on its way; the pass that
\* waits to attempt e knows as many attempts as the table.
Total(e) == posts[e] <= MaxAttempts + disturbances
Fresh(e) == box[e].status = "none" => posts[e] = 0
Stored(e) ==
  box[e].status # "purged" /\ (\A w \in Workers : ~Flight(w, e)) =>
    posts[e] <= box[e].attempts + disturbances
Known(w, e) ==
  pc[w] \in Working /\ e \in todo[w] =>
    /\ posts[e] <= loaded[w][e] + disturbances + 1
    /\ ~Flight(w, e) => posts[e] <= loaded[w][e] + disturbances
    /\ box[e].status # "purged" => box[e].attempts = loaded[w][e]

Counts ==
  /\ Blank
  /\ \A e \in Entries : Total(e)
  /\ \A e \in Entries : Fresh(e)
  /\ \A e \in Entries : Stored(e)
  /\ \A w \in Workers : \A e \in Entries : Known(w, e)

Counting == retries = 0 => Counts

\* The numbers the counting compares.
LEMMA Numbers ==
  ASSUME Safe
  PROVE  /\ MaxAttempts \in Nat /\ disturbances \in Nat
         /\ posts \in [Entries -> Nat]
         /\ \A e \in Entries : posts[e] \in Nat
         /\ \A e \in Entries : box[e].attempts \in Nat
         /\ \A e \in Entries : box[e].attempts <= MaxAttempts
         /\ \A w \in Workers : \A e \in Entries : loaded[w][e] \in Nat
<1>1. \A e \in Entries : box[e].attempts \in 0 .. MaxAttempts
  BY DEF Safe, TypeOK, RowType
<1>2. \A w \in Workers : \A e \in Entries : loaded[w][e] \in 0 .. MaxAttempts
  BY DEF Safe, TypeOK
<1>3. QED
  BY <1>1, <1>2, BoundsAssumption DEF Safe, TypeOK

\* Once a session ended, only the rows and the POSTs so far matter.
LEMMA CountsAtRest ==
  ASSUME \A w \in Workers : pc'[w] \notin Working,
         \A w \in Workers : cur'[w] = None,
         \A e \in Entries : Total(e)' /\ Fresh(e)',
         \A e \in Entries :
           box'[e].status # "purged" => posts'[e] <= box'[e].attempts + disturbances'
  PROVE  Counts'
BY DEF Counts, Blank, Stored, Known

\* After Leave nobody has an entry.
LEMMA LeaveBlank ==
  ASSUME Safe, Blank, NEW w \in Workers, Holds(w), Leave(w)
  PROVE  /\ \A u \in Workers : pc'[u] \notin Working
         /\ \A u \in Workers : cur'[u] = None
<1>1. \A u \in Workers : pc'[u] \notin Working
  BY LeaveFacts DEF Safe
<1>2. \A u \in Workers : u # w => pc[u] \notin Working
  BY OneHolder DEF Safe
<1>3. cur' = [cur EXCEPT ![w] = None] /\ cur \in [Workers -> Entries \cup {None}]
  BY DEF Leave, Safe, TypeOK
<1>4. QED
  BY <1>1, <1>2, <1>3 DEF Blank

\* Steps outside the pass that delivers: no POST, the same attempts in every row, or a row
\* that is new or purged.
LEMMA CountsBeside ==
  ASSUME Counts, posts' = posts, disturbances' = disturbances,
         \A w \in Workers : pc[w] \in Working \/ pc'[w] \in Working => pc'[w] = pc[w],
         \A w \in Workers : pc[w] \in Working => cur'[w] = cur[w],
         \A w \in Workers : pc'[w] \notin Working => cur'[w] = None,
         UNCHANGED <<todo, loaded, answer>>,
         \A e \in Entries : box'[e].status = "none" => box[e].status = "none",
         \A e \in Entries : box'[e].status # "purged" => box[e].status # "purged",
         \A e \in Entries : box'[e].status # "purged" => box'[e].attempts = box[e].attempts
  PROVE  Counts'
<1>1. \A w \in Workers : \A e \in Entries : pc[w] \in Working => (Flight(w, e)' <=> Flight(w, e))
  BY DEF Flight, Working
<1>2. \A w \in Workers : \A e \in Entries : pc[w] \notin Working => ~Flight(w, e)
  BY DEF Flight, Working
<1>3. Blank'
  BY DEF Blank
<1>4. \A e \in Entries : Total(e)' /\ Fresh(e)'
  BY DEF Counts, Total, Fresh
<1>5. \A e \in Entries : Stored(e)'
  BY <1>1, <1>2 DEF Counts, Stored
<1>6. \A w \in Workers : \A e \in Entries : Known(w, e)'
  BY <1>1 DEF Counts, Known
<1>7. QED
  BY <1>3, <1>4, <1>5, <1>6 DEF Counts

\* Initially nothing was posted.
LEMMA CountsInit == Init => Counts
<1> SUFFICES ASSUME Init PROVE Counts
  OBVIOUS
<1>1. /\ \A w \in Workers : pc[w] \notin Working
      /\ \A w \in Workers : cur[w] = None
  BY DEF Init, Working
<1>2. \A e \in Entries : posts[e] = 0 /\ box[e] = NoRow
  BY DEF Init
<1>3. \A e \in Entries : Total(e) /\ Fresh(e)
  BY <1>2, BoundsAssumption DEF Init, Total, Fresh
<1>4. \A e \in Entries : posts[e] <= box[e].attempts + disturbances
  BY <1>2 DEF Init, NoRow
<1>5. QED
  BY <1>1, <1>3, <1>4 DEF Counts, Blank, Stored, Known

\* Events and the loop get in line; an event's rows are new, with no attempt made.
LEMMA ArrivalsCount ==
  ASSUME Safe, Counts,
         LoopWakes \/ \E v \in Events : Select(v) \/ Store(v) \/ StoreFails(v)
  PROVE  Counts'
<1>0. /\ pc \in [Workers -> Steps] /\ box \in [Entries -> RowType]
      /\ UNCHANGED <<todo, loaded, cur, answer, posts, disturbances>>
  BY DEF Safe, TypeOK, Select, Store, StoreFails, LoopWakes
<1>1. PICK u \in Workers, p \in Steps :
        pc[u] \notin Working /\ p \notin Working /\ pc' = [pc EXCEPT ![u] = p]
  BY DEF Select, Store, StoreFails, LoopWakes, Workers, Working, Steps
<1>2. \A w \in Workers : pc[w] \in Working \/ pc'[w] \in Working => pc'[w] = pc[w]
  BY <1>0, <1>1
<1>3. \A w \in Workers : pc'[w] \notin Working => cur'[w] = None
  BY <1>0, <1>1 DEF Counts, Blank
<1>4. CASE \E v \in Events : Store(v)
  <2>1. PICK v \in Events : Store(v)
    BY <1>4
  <2>2. \A e \in Entries : e \in Targets(v) => box[e].status = "none"
    BY <2>1 DEF Safe, EventInv, Store, Targets, Entries
  <2>3. \A e \in Entries : box'[e] = IF e \in Targets(v) THEN NewRow ELSE box[e]
    BY <2>1 DEF Store
  <2>4. \A e \in Entries : e \in Targets(v) => posts[e] = 0
    BY <2>2 DEF Counts, Fresh
  <2>5. Blank' /\ \A e \in Entries : Total(e)' /\ Fresh(e)'
    BY <1>0, <1>3, <2>3 DEF Counts, Blank, Total, Fresh, NewRow
  <2>6. \A w \in Workers : \A e \in Entries : Flight(w, e)' <=> Flight(w, e)
    BY <1>0, <1>2 DEF Flight, Working
  <2>7. \A e \in Entries : Stored(e)'
    <3>1. SUFFICES ASSUME NEW e \in Entries PROVE Stored(e)'
      OBVIOUS
    <3>2. CASE e \in Targets(v)
      BY <3>2, <2>3, <2>4, <1>0, Numbers DEF Stored, NewRow
    <3>3. CASE e \notin Targets(v)
      BY <3>3, <2>3, <2>6, <1>0 DEF Counts, Stored
    <3>4. QED
      BY <3>2, <3>3
  <2>8. \A w \in Workers : \A e \in Entries :
          pc[w] \in Working /\ e \in todo[w] => e \notin Targets(v)
    BY <2>2 DEF Safe, PassInv
  <2>9. \A w \in Workers : \A e \in Entries : Known(w, e)'
    BY <1>0, <1>2, <2>3, <2>6, <2>8 DEF Counts, Known
  <2>10. QED
    BY <2>5, <2>7, <2>9 DEF Counts
<1>5. CASE ~\E v \in Events : Store(v)
  <2>1. box' = box
    BY <1>5 DEF Select, StoreFails, LoopWakes
  <2>2. QED
    BY <1>0, <1>2, <1>3, <2>1, CountsBeside
<1>6. QED
  BY <1>4, <1>5

\* A pass learns the attempts of what is due from the table.
LEMMA AcquireCounts == ASSUME Safe, Counts, NEW w \in Workers, Acquire(w) PROVE Counts'
<1>0. /\ pc \in [Workers -> Steps] /\ pc[w] = "waiting" /\ Holds(w)
      /\ cur \in [Workers -> Entries \cup {None}]
      /\ UNCHANGED <<subs, box, retries, disturbances, received, posts>>
      /\ Blank /\ LockInv
  BY DEF Safe, TypeOK, Acquire, Counts
<1>1. \A u \in Workers : pc[u] \notin Working
  BY <1>0, OneHolder DEF Working
<1>2. \A e \in Entries : box[e].status # "purged" => posts[e] <= box[e].attempts + disturbances
  BY <1>1 DEF Counts, Stored, Flight, Working
<1>3. \A e \in Entries : Total(e)' /\ Fresh(e)'
  BY <1>0 DEF Counts, Total, Fresh
<1>4. CASE Due = {}
  <2>1. Leave(w)
    BY <1>4 DEF Acquire
  <2>2. (\A u \in Workers : pc'[u] \notin Working) /\ (\A u \in Workers : cur'[u] = None)
    BY <2>1, <1>0, LeaveBlank
  <2>3. QED
    BY <2>2, <1>0, <1>2, <1>3, CountsAtRest
<1>5. CASE Due # {}
  <2>0. /\ pc' = [pc EXCEPT ![w] = "busy"]
        /\ todo' = [todo EXCEPT ![w] = Due]
        /\ loaded' = [loaded EXCEPT ![w] =
             [e \in Entries |-> IF e \in Due THEN Attempts(w, e) ELSE 0]]
        /\ cur' = [cur EXCEPT ![w] = None]
    BY <1>5 DEF Acquire
  <2>1. \A u \in Workers : pc'[u] \in Working => u = w /\ pc'[u] = "busy"
    BY <1>0, <1>1, <2>0
  <2>2. \A u \in Workers : cur'[u] = None
    BY <1>0, <1>1, <2>0 DEF Blank
  <2>3. \A u \in Workers : \A e \in Entries : ~Flight(u, e)'
    BY <2>2, NoneAssumption DEF Flight
  <2>4. \A e \in Entries : e \in todo'[w] =>
          loaded'[w][e] = box[e].attempts /\ box[e].status = "pending"
    <3>1. cur[w] = None /\ todo'[w] = Due
      BY <1>0, <2>0 DEF Blank, Working, Safe, TypeOK
    <3>2. \A e \in Entries : e \in Due => loaded'[w][e] = Attempts(w, e)
      BY <2>0 DEF Safe, TypeOK
    <3>3. \A e \in Entries : Attempts(w, e) = box[e].attempts
      BY <3>1, NoneAssumption DEF Attempts
    <3>4. QED
      BY <3>1, <3>2, <3>3 DEF Due
  <2>5. \A e \in Entries : e \in todo'[w] => posts[e] <= loaded'[w][e] + disturbances
    BY <1>2, <2>4
  <2>6. \A e \in Entries : e \in todo'[w] => posts[e] <= loaded'[w][e] + disturbances + 1
    BY <2>4, <2>5, Numbers
  <2>7. \A u \in Workers : \A e \in Entries : Known(u, e)'
    BY <1>0, <2>1, <2>4, <2>5, <2>6 DEF Known
  <2>8. \A e \in Entries : Stored(e)'
    BY <1>0, <1>2 DEF Stored
  <2>9. QED
    BY <2>2, <2>7, <2>8, <1>3 DEF Counts, Blank
<1>6. QED
  BY <1>4, <1>5

\* What the pass that delivers knows of the entry it attempts.
LEMMA HolderCounts ==
  ASSUME Safe, Counts, NEW w \in Workers, pc[w] \in {"posting", "answered"}
  PROVE  /\ cur[w] \in Entries /\ cur[w] \in todo[w]
         /\ Holds(w)
         /\ posts[cur[w]] <= loaded[w][cur[w]] + disturbances + 1
         /\ ~Flight(w, cur[w]) => posts[cur[w]] <= loaded[w][cur[w]] + disturbances
         /\ loaded[w][cur[w]] < MaxAttempts
         /\ \A e \in Entries : e # cur[w] /\ box[e].status # "purged" =>
              posts[e] <= box[e].attempts + disturbances
<1>1. cur[w] \in todo[w] /\ todo[w] \subseteq Entries /\ loaded[w][cur[w]] < MaxAttempts
  BY DEF Safe, TypeOK, PassInv, Working
<1>2. \A u \in Workers : u # w => pc[u] \notin Working
  BY OneHolder DEF Safe, LockInv, Working
<1>3. \A u \in Workers : \A e \in Entries : e # cur[w] => ~Flight(u, e)
  BY <1>2 DEF Flight, Working
<1>4. \A e \in Entries : e # cur[w] /\ box[e].status # "purged" =>
        posts[e] <= box[e].attempts + disturbances
  BY <1>3 DEF Counts, Stored
<1>5. Known(w, cur[w])
  BY <1>1 DEF Counts
<1>6. QED
  BY <1>1, <1>4, <1>5 DEF Known, Working, Safe, LockInv

\* A POST is counted before it is known how it ends.
LEMMA PostCounts ==
  ASSUME Safe, Counts, NEW w \in Workers, NEW e \in Entries, Post(w, e)
  PROVE  Counts'
<1>0. /\ pc \in [Workers -> Steps] /\ pc[w] = "busy" /\ e \in todo[w]
      /\ cur \in [Workers -> Entries \cup {None}]
      /\ pc' = [pc EXCEPT ![w] = "posting"] /\ cur' = [cur EXCEPT ![w] = e]
      /\ posts' = [posts EXCEPT ![e] = @ + 1]
      /\ UNCHANGED <<subs, box, line, cache, todo, loaded, answer, retries, disturbances>>
      /\ posts \in [Entries -> Nat]
  BY DEF Safe, TypeOK, Post
<1>1. \A u \in Workers : pc[u] \in Working => u = w
  BY <1>0, OneHolder DEF Safe, LockInv, Working
<1>2. \A u \in Workers : \A f \in Entries : ~Flight(u, f)
  BY <1>0, <1>1 DEF Flight, Working
<1>3. /\ \A u \in Workers : pc'[u] \in Working => u = w
      /\ Flight(w, e)'
      /\ Blank'
  BY <1>0, <1>1 DEF Flight, Working, Counts, Blank
<1>4. /\ loaded[w][e] < MaxAttempts /\ box[e].status # "none"
      /\ posts[e] <= loaded[w][e] + disturbances
  BY <1>0, <1>2 DEF Safe, PassInv, Counts, Known, Working
<1>5. posts'[e] = posts[e] + 1 /\ \A f \in Entries : f # e => posts'[f] = posts[f]
  BY <1>0
<1>6. posts'[e] <= loaded[w][e] + disturbances + 1 /\ posts'[e] <= MaxAttempts + disturbances
  BY <1>4, <1>5, Numbers
<1>7. \A f \in Entries : Total(f)' /\ Fresh(f)'
  BY <1>0, <1>4, <1>5, <1>6 DEF Counts, Total, Fresh
<1>8. \A f \in Entries : Stored(f)'
  BY <1>0, <1>2, <1>3, <1>5 DEF Counts, Stored
<1>9. \A u \in Workers : \A f \in Entries : Known(u, f)'
  <2>1. \A f \in Entries : f # e => Known(w, f)'
    BY <1>0, <1>2, <1>5 DEF Counts, Known, Working
  <2>2. Known(w, e)'
    BY <1>0, <1>3, <1>6 DEF Counts, Known, Working
  <2>3. QED
    BY <1>3, <2>1, <2>2 DEF Known
<1>10. QED
  BY <1>3, <1>7, <1>8, <1>9 DEF Counts

\* Refusing is no POST.
LEMMA RefuseCounts ==
  ASSUME Safe, Counts, NEW w \in Workers, NEW e \in Entries, Refuse(w, e)
  PROVE  Counts'
<1>0. /\ pc \in [Workers -> Steps] /\ pc[w] = "busy" /\ e \in todo[w]
      /\ cur \in [Workers -> Entries \cup {None}] /\ answer \in [Workers -> Answers]
      /\ pc' = [pc EXCEPT ![w] = "answered"] /\ cur' = [cur EXCEPT ![w] = e]
      /\ answer' = [answer EXCEPT ![w] = "removed"]
      /\ UNCHANGED <<subs, box, line, cache, todo, loaded, retries, disturbances, posts>>
  BY DEF Safe, TypeOK, Refuse
<1>1. \A u \in Workers : pc[u] \in Working => u = w
  BY <1>0, OneHolder DEF Safe, LockInv, Working
<1>2. \A u \in Workers : \A f \in Entries : ~Flight(u, f) /\ ~Flight(u, f)'
  BY <1>0, <1>1 DEF Flight, Working
<1>3. Blank' /\ \A u \in Workers : pc'[u] \in Working => u = w
  BY <1>0, <1>1 DEF Working, Counts, Blank
<1>4. \A f \in Entries : Total(f)' /\ Fresh(f)'
  BY <1>0 DEF Counts, Total, Fresh
<1>5. \A f \in Entries : Stored(f)'
  BY <1>0, <1>2 DEF Counts, Stored
<1>6. \A u \in Workers : \A f \in Entries : Known(u, f)'
  BY <1>0, <1>2, <1>3 DEF Counts, Known, Working
<1>7. QED
  BY <1>3, <1>4, <1>5, <1>6 DEF Counts

\* The answer leaves the POST to be recorded.
LEMMA AnswerCounts ==
  ASSUME Safe, Counts, NEW w \in Workers, NEW a \in {"ok", "error", "blocked"}, Answer(w, a)
  PROVE  Counts'
<1>0. /\ pc \in [Workers -> Steps] /\ pc[w] = "posting"
      /\ cur \in [Workers -> Entries \cup {None}] /\ answer \in [Workers -> Answers]
      /\ pc' = [pc EXCEPT ![w] = "answered"]
      /\ answer' = [answer EXCEPT ![w] = a]
      /\ UNCHANGED <<subs, box, line, cache, todo, loaded, cur, retries, disturbances, posts>>
  BY DEF Safe, TypeOK, Answer
<1>1. \A u \in Workers : \A f \in Entries : Flight(u, f)' <=> Flight(u, f)
  BY <1>0 DEF Flight
<1>2. \A u \in Workers : pc'[u] \in Working <=> pc[u] \in Working
  BY <1>0 DEF Working
<1>3. Blank'
  BY <1>0, <1>2 DEF Counts, Blank
<1>4. \A f \in Entries : Total(f)' /\ Fresh(f)'
  BY <1>0 DEF Counts, Total, Fresh
<1>5. \A f \in Entries : Stored(f)'
  BY <1>0, <1>1 DEF Counts, Stored
<1>6. \A u \in Workers : \A f \in Entries : Known(u, f)'
  BY <1>0, <1>1, <1>2 DEF Counts, Known
<1>7. QED
  BY <1>3, <1>4, <1>5, <1>6 DEF Counts

\* What a commit writes: one attempt more, except for an entry that was refused.
LEMMA SettledAttempts ==
  ASSUME NEW r \in RowType, NEW n \in Nat, NEW a \in Answers
  PROVE  /\ a = "removed" => Settled(r, n, a).attempts = r.attempts
         /\ a # "removed" => Settled(r, n, a).attempts = n + 1
         /\ r.status # "purged" => Settled(r, n, a).status # "purged"
<1>1. CASE a = "removed"
  BY <1>1 DEF Settled, RowType
<1>2. CASE a = "ok"
  BY <1>2 DEF Settled, RowType
<1>3. CASE a = "error" /\ n + 1 < MaxAttempts
  BY <1>3 DEF Settled, RowType
<1>4. CASE a \notin {"removed", "ok"} /\ ~(a = "error" /\ n + 1 < MaxAttempts)
  BY <1>4 DEF Settled, RowType
<1>5. QED
  BY <1>1, <1>2, <1>3, <1>4

\* A commit moves the POST from its way into the row.
LEMMA SettleCounts == ASSUME Safe, Counts, NEW w \in Workers, Settle(w) PROVE Counts'
<1> DEFINE c == cur[w]
           r == Settled(box[c], loaded[w][c], answer[w])
<1>0. /\ pc \in [Workers -> Steps] /\ pc[w] = "answered" /\ box \in [Entries -> RowType]
      /\ box[c].status # "purged" /\ box' = [box EXCEPT ![c] = r]
      /\ UNCHANGED <<subs, retries, disturbances, received, posts>>
      /\ cur \in [Workers -> Entries \cup {None}] /\ answer \in [Workers -> Answers]
  BY DEF Safe, TypeOK, Settle
<1>1. /\ c \in Entries /\ c \in todo[w] /\ Holds(w)
      /\ posts[c] <= loaded[w][c] + disturbances + 1
      /\ ~Flight(w, c) => posts[c] <= loaded[w][c] + disturbances
      /\ \A e \in Entries : e # c /\ box[e].status # "purged" =>
           posts[e] <= box[e].attempts + disturbances
  BY <1>0, HolderCounts
<1>2. box[c] \in RowType /\ loaded[w][c] \in Nat /\ answer[w] \in Answers
  BY <1>0, <1>1, Numbers
<1>3. /\ answer[w] = "removed" => r.attempts = box[c].attempts
      /\ answer[w] # "removed" => r.attempts = loaded[w][c] + 1
      /\ r.status # "purged" /\ r.status # "none"
  BY <1>0, <1>1, <1>2, SettledAttempts, SettledFacts, AnsweredFacts
<1> HIDE DEF r
<1>4. box[c].attempts = loaded[w][c]
  BY <1>0, <1>1 DEF Counts, Known, Working
<1>5. posts[c] <= r.attempts + disturbances
  <2>1. CASE answer[w] = "removed"
    BY <2>1, <1>0, <1>1, <1>3, <1>4 DEF Flight
  <2>2. CASE answer[w] # "removed"
    BY <2>2, <1>1, <1>2, <1>3, Numbers
  <2>3. QED
    BY <2>1, <2>2
<1>6. box'[c] = r /\ \A e \in Entries : e # c => box'[e] = box[e]
  BY <1>0, <1>1
<1>7. \A e \in Entries : box'[e].status # "purged" => posts[e] <= box'[e].attempts + disturbances
  BY <1>1, <1>5, <1>6
<1>8. \A e \in Entries : Total(e)' /\ Fresh(e)'
  BY <1>0, <1>3, <1>6 DEF Counts, Total, Fresh
<1>9. CASE todo[w] = {c}
  <2>1. Leave(w)
    BY <1>9 DEF Settle
  <2>2. (\A u \in Workers : pc'[u] \notin Working) /\ (\A u \in Workers : cur'[u] = None)
    BY <2>1, <1>1, LeaveBlank DEF Counts
  <2>3. QED
    BY <2>2, <1>0, <1>7, <1>8, CountsAtRest
<1>10. CASE todo[w] # {c}
  <2>0. /\ pc' = [pc EXCEPT ![w] = "busy"]
        /\ todo' = [todo EXCEPT ![w] = @ \ {c}]
        /\ cur' = [cur EXCEPT ![w] = None]
        /\ UNCHANGED <<line, cache, loaded>>
    BY <1>10 DEF Settle
  <2>1. \A u \in Workers : pc'[u] \in Working => u = w
    BY <2>0, <1>0, <1>1, OneHolder DEF Safe, Working
  <2>2. \A u \in Workers : cur'[u] = None
    <3>1. \A u \in Workers : u # w => pc[u] \notin Working
      BY <2>0, <1>1, OneHolder DEF Safe
    <3>2. QED
      BY <3>1, <2>0, <1>0 DEF Counts, Blank
  <2>3. \A u \in Workers : \A e \in Entries : e # c => ~Flight(u, e)
    BY <2>1, <2>0, <1>0, <1>1, OneHolder DEF Safe, Flight, Working
  <2>4. \A e \in Entries : e \in todo'[w] => e # c /\ e \in todo[w]
    BY <2>0 DEF Safe, TypeOK
  <2>5. \A e \in Entries : e \in todo'[w] =>
          /\ posts[e] <= loaded[w][e] + disturbances + 1
          /\ posts[e] <= loaded[w][e] + disturbances
          /\ box[e].status # "purged" => box[e].attempts = loaded[w][e]
    BY <2>3, <2>4, <1>0 DEF Counts, Known, Working
  <2>6. \A u \in Workers : \A e \in Entries : Known(u, e)'
    BY <2>0, <2>1, <2>4, <2>5, <1>0, <1>6 DEF Known
  <2>7. \A e \in Entries : Stored(e)'
    BY <1>0, <1>7 DEF Stored
  <2>8. QED
    BY <2>2, <2>6, <2>7, <1>8 DEF Counts, Blank
<1>11. QED
  BY <1>9, <1>10

\* A pass whose row is gone has nothing to record; one whose commit fails has lost a POST.
LEMMA AbortCounts ==
  ASSUME Safe, Counts, NEW w \in Workers, RowGone(w) \/ CommitFails(w)
  PROVE  Counts'
<1>0. /\ pc[w] = "answered" /\ Leave(w)
      /\ UNCHANGED <<subs, box, retries, posts>>
  BY DEF RowGone, CommitFails
<1>1. /\ cur[w] \in Entries /\ Holds(w) /\ cur[w] \in todo[w]
      /\ posts[cur[w]] <= loaded[w][cur[w]] + disturbances + 1
      /\ \A e \in Entries : e # cur[w] /\ box[e].status # "purged" =>
           posts[e] <= box[e].attempts + disturbances
  BY <1>0, HolderCounts
<1>2. (\A u \in Workers : pc'[u] \notin Working) /\ (\A u \in Workers : cur'[u] = None)
  BY <1>0, <1>1, LeaveBlank DEF Counts
<1>3. CASE RowGone(w)
  <2>1. box[cur[w]].status = "purged" /\ disturbances' = disturbances
    BY <1>3 DEF RowGone
  <2>2. \A e \in Entries : box[e].status # "purged" => posts[e] <= box[e].attempts + disturbances
    BY <2>1, <1>1
  <2>3. \A e \in Entries : Total(e)' /\ Fresh(e)'
    BY <2>1, <1>0 DEF Counts, Total, Fresh
  <2>4. QED
    BY <2>1, <2>2, <2>3, <1>0, <1>2, CountsAtRest
<1>4. CASE CommitFails(w)
  <2>1. disturbances' = disturbances + 1
    BY <1>4 DEF CommitFails, Disturb
  <2>2. box[cur[w]].status # "purged" => box[cur[w]].attempts = loaded[w][cur[w]]
    BY <1>0, <1>1 DEF Counts, Known, Working
  <2>3. \A e \in Entries : box[e].status # "purged" =>
          posts[e] <= box[e].attempts + disturbances + 1
    BY <2>2, <1>1, Numbers
  <2>4. \A e \in Entries : box[e].status # "purged" => posts[e] <= box[e].attempts + disturbances'
    BY <2>1, <2>3, Numbers
  <2>5. \A e \in Entries : Total(e)' /\ Fresh(e)'
    BY <2>1, <1>0, Numbers DEF Counts, Total, Fresh
  <2>6. QED
    BY <2>4, <2>5, <1>0, <1>2, CountsAtRest
<1>5. QED
  BY <1>0, <1>3, <1>4

\* A crash loses at most the one POST that was on its way.
LEMMA CrashCounts == ASSUME Safe, Counts, Crash PROVE Counts'
<1>0. /\ disturbances' = disturbances + 1 /\ UNCHANGED <<subs, box, retries, posts>>
      /\ \A w \in Workers : pc'[w] \notin Working
      /\ \A w \in Workers : cur'[w] = None
  BY DEF Crash, Disturb, Working
<1>1. \A e \in Entries : Total(e)' /\ Fresh(e)'
  BY <1>0, Numbers DEF Counts, Total, Fresh
<1>2. \A e \in Entries : box[e].status # "purged" =>
        posts[e] <= box[e].attempts + disturbances + 1
  <2>1. SUFFICES ASSUME NEW e \in Entries, box[e].status # "purged"
                 PROVE  posts[e] <= box[e].attempts + disturbances + 1
    OBVIOUS
  <2>2. CASE \E w \in Workers : Flight(w, e)
    <3>1. PICK w \in Workers : Flight(w, e)
      BY <2>2
    <3>2. pc[w] \in {"posting", "answered"} /\ cur[w] = e
      BY <3>1 DEF Flight
    <3>3. posts[e] <= loaded[w][e] + disturbances + 1 /\ e \in todo[w]
      BY <3>2, HolderCounts
    <3>4. box[e].attempts = loaded[w][e]
      BY <3>2, <3>3, <2>1 DEF Counts, Known, Working
    <3>5. QED
      BY <3>3, <3>4
  <2>3. CASE ~\E w \in Workers : Flight(w, e)
    <3>1. posts[e] <= box[e].attempts + disturbances
      BY <2>1, <2>3 DEF Counts, Stored
    <3>2. QED
      BY <3>1, Numbers
  <2>4. QED
    BY <2>2, <2>3
<1>3. \A e \in Entries : box[e].status # "purged" => posts[e] <= box[e].attempts + disturbances'
  BY <1>0, <1>2, Numbers
<1>4. QED
  BY <1>0, <1>1, <1>3, CountsAtRest

\* Nothing around the passes touches the attempts of a row that stays.
LEMMA AroundCounts ==
  ASSUME Safe, Counts,
         \/ \E s \in Subs : DeleteSub(s)
         \/ \E e \in Entries : Purge(e) \/ BackoffEnds(e)
  PROVE  Counts'
<1>0. /\ UNCHANGED <<pc, todo, loaded, cur, answer, disturbances, posts>>
      /\ box \in [Entries -> RowType]
  BY DEF Safe, TypeOK, DeleteSub, Purge, BackoffEnds
<1> DEFINE Kept(e) ==
      /\ box'[e].status = "none" => box[e].status = "none"
      /\ box'[e].status # "purged" => box[e].status # "purged"
      /\ box'[e].status # "purged" => box'[e].attempts = box[e].attempts
<1>1. \A e \in Entries : Kept(e)
  <2>1. ASSUME NEW s \in Subs, DeleteSub(s) PROVE \A e \in Entries : Kept(e)
    BY <2>1, <1>0 DEF DeleteSub, RowType
  <2>2. ASSUME NEW f \in Entries, Purge(f) PROVE \A e \in Entries : Kept(e)
    BY <2>2, <1>0 DEF Purge, PurgedRow
  <2>3. ASSUME NEW f \in Entries, BackoffEnds(f) PROVE \A e \in Entries : Kept(e)
    BY <2>3, <1>0 DEF BackoffEnds, RowType
  <2>4. QED
    BY <2>1, <2>2, <2>3
<1>2. \A w \in Workers : pc'[w] \notin Working => cur'[w] = None
  BY <1>0 DEF Counts, Blank
<1>3. QED
  BY <1>0, <1>1, <1>2, CountsBeside

\* Without a reset every step keeps the count.
LEMMA CountingNext == Safe /\ Counting /\ [Next]_vars => Counting'
<1> SUFFICES ASSUME Safe, Counting, [Next]_vars, retries' = 0 PROVE Counts'
  BY DEF Counting
<1>0. retries \in Nat
  BY BoundsAssumption DEF Safe, TypeOK
<1>1. ASSUME NEW e \in Entries, Retry(e) PROVE FALSE
  BY <1>0, <1>1 DEF Retry
<1>2. retries = 0
  <2>1. CASE \E w \in Workers : Pass(w)
    BY <2>1 DEF Pass, Acquire, Refuse, Post, Answer, Settle, RowGone
  <2>2. QED
    BY <2>1, <1>1 DEF Next, Select, Store, StoreFails, LoopWakes, CommitFails, Crash,
      DeleteSub, Purge, BackoffEnds, vars
<1>3. Counts
  BY <1>2 DEF Counting
<1>4. ASSUME NEW w \in Workers, Pass(w) PROVE Counts'
  BY <1>3, <1>4, AcquireCounts, RefuseCounts, PostCounts, AnswerCounts, SettleCounts,
    AbortCounts DEF Pass
<1>5. CASE UNCHANGED vars
  BY <1>3, <1>5 DEF vars, Counts, Blank, Total, Fresh, Stored, Known, Flight
<1>6. QED
  BY <1>1, <1>3, <1>4, <1>5, ArrivalsCount, AbortCounts, CrashCounts, AroundCounts DEF Next

\* Up to max_attempts POSTs of an entry, and one more for each outcome a crash or a failed
\* commit lost, as long as the admin asked for no retry: the passes of webhook_service.py
\* never start from attempts older than those in the table.
THEOREM PostsAreBounded == Spec => []PostsBounded
<1>1. Init => Counting
  BY CountsInit DEF Counting
<1>2. Counting => PostsBounded
  BY DEF Counting, Counts, Total, PostsBounded
<1>3. QED
  BY <1>1, <1>2, SafeAlways, CountingNext, PTL DEF Spec

\* A step makes a row pending only when its event stores it or the admin resets it.
LEMMA PendingStep ==
  ASSUME Safe, [Next]_vars, NEW e \in Entries,
         box'[e].status = "pending", ~Retry(e), box[e].status # "pending"
  PROVE  SubOf(e) \in subs /\ subs' = subs
<1>1. box[e].status = "none"
  <2>1. box[e].status \notin {"delivered", "failed", "purged"}
    BY ReopenStep
  <2>2. box[e].status \in Statuses
    BY DEF Safe, TypeOK, RowType
  <2>3. QED
    BY <2>1, <2>2 DEF Statuses
<1>2. \E v \in Events : Store(v)
  <2>0. box \in [Entries -> RowType]
    BY DEF Safe, TypeOK
  <2>1. ASSUME NEW f \in Entries, Retry(f) PROVE FALSE
    BY <2>0, <2>1, <1>1 DEF Retry
  <2>2. ASSUME NEW w \in Workers, Settle(w) PROVE FALSE
    <3>1. cur[w] \in Entries /\ box[cur[w]].status # "none"
      BY <2>2, AnsweredFacts DEF Settle
    <3>2. box'[e] = box[e]
      BY <2>0, <2>2, <3>1, <1>1 DEF Settle
    <3>3. QED
      BY <3>2
  <2>3. ASSUME NEW s \in Subs, DeleteSub(s) PROVE FALSE
    BY <2>0, <2>3, <1>1 DEF DeleteSub
  <2>4. ASSUME NEW f \in Entries, Purge(f) PROVE FALSE
    BY <2>0, <2>4, <1>1 DEF Purge
  <2>5. ASSUME NEW f \in Entries, BackoffEnds(f) PROVE FALSE
    BY <2>0, <2>5, <1>1 DEF BackoffEnds
  <2>6. ASSUME NEW w \in Workers, Pass(w), ~Settle(w) PROVE box' = box
    BY <2>6 DEF Pass, Acquire, Refuse, Post, Answer, RowGone
  <2>7. ASSUME NEW w \in Workers, CommitFails(w) PROVE box' = box
    BY <2>7 DEF CommitFails
  <2>8. ASSUME NEW v \in Events, Select(v) \/ StoreFails(v) PROVE box' = box
    BY <2>8 DEF Select, StoreFails
  <2>9. (LoopWakes \/ Crash \/ UNCHANGED vars) => box' = box
    BY DEF LoopWakes, Crash, vars
  <2>10. QED
    BY <2>1, <2>2, <2>3, <2>4, <2>5, <2>6, <2>7, <2>8, <2>9 DEF Next
<1>3. PICK v \in Events : Store(v)
  BY <1>2
<1>4. e \in Targets(v)
  BY <1>1, <1>3 DEF Store
<1>5. QED
  BY <1>3, <1>4 DEF Store

\* A step that removes a subscription leaves none of its rows pending.
LEMMA RemovalStep ==
  ASSUME Safe, [Next]_vars, NEW e \in Entries,
         SubOf(e) \in subs, SubOf(e) \notin subs', box'[e].status = "pending"
  PROVE  FALSE
<1>1. ASSUME NEW s \in Subs, DeleteSub(s) PROVE FALSE
  <2>1. e \in EntriesOf(s) /\ box[e] \in RowType
    BY <1>1 DEF DeleteSub, EntriesOf, Safe, TypeOK
  <2>2. QED
    BY <1>1, <2>1 DEF DeleteSub, RowType
<1>2. ASSUME NEW w \in Workers, Pass(w) PROVE subs' = subs
  BY <1>2 DEF Pass, Acquire, Refuse, Post, Answer, Settle, RowGone
<1>3. ASSUME ~\E s \in Subs : DeleteSub(s), ~\E w \in Workers : Pass(w) PROVE subs' = subs
  BY <1>3 DEF Next, Select, Store, StoreFails, LoopWakes, Retry, CommitFails, Crash, Purge,
    BackoffEnds, vars
<1>4. QED
  BY <1>1, <1>2, <1>3

\* Deleting a webhook leaves nothing of it waiting, and nothing is stored for it
\* afterwards, though passes and events that selected it before go on.
THEOREM NothingForTheRemoved == Spec => RemovedHasNothingNew
<1> DEFINE Keeps ==
      \A e \in Entries :
        SubOf(e) \notin subs' /\ box'[e].status = "pending" /\ ~Retry(e)
          => box[e].status = "pending" /\ SubOf(e) \notin subs
<1>1. Safe /\ [Next]_vars => [Keeps]_vars
  BY PendingStep, RemovalStep
<1>2. QED
  BY <1>1, SafeAlways, PTL DEF Spec, RemovedHasNothingNew

-----------------------------------------------------------------------------
(* Outbox implements Delivery: every step of the outbox is a step of the delivery, or      *)
(* changes nothing of it.  The lock makes the attempt of the pass that holds it the only    *)
(* one; what Safe says of that pass tells which step it takes.                              *)

\* The state of the delivery, as the refinement reads it off the outbox.
StatusOf == [e \in Entries |-> box[e].status]
AttemptOf ==
  {<<cur[w], IF pc[w] = "posting" THEN "sending" ELSE answer[w]>> :
     w \in {u \in Workers : pc[u] \in {"posting", "answered"}}}

DeliveryStep == [Promise!Next]_(Promise!vars)

\* A step that changes nothing of it is a stutter.
LEMMA Stutters ==
  ASSUME StatusOf' = StatusOf, AttemptOf' = AttemptOf, received' = received
  PROVE  DeliveryStep
BY DEF DeliveryStep, StatusOf, AttemptOf, Promise!vars

\* While nobody delivers there is no attempt.
LEMMA NoAttempt ==
  ASSUME \A w \in Workers : pc[w] \notin {"posting", "answered"}
  PROVE  AttemptOf = {}
BY DEF AttemptOf

\* The attempt of the worker that holds the lock is the only one.
LEMMA OneAttempt ==
  ASSUME LockInv, NEW w \in Workers, pc[w] \in {"posting", "answered"}
  PROVE  AttemptOf = {<<cur[w], IF pc[w] = "posting" THEN "sending" ELSE answer[w]>>}
<1>1. \A u \in Workers : pc[u] \in {"posting", "answered"} => u = w
  BY OneHolder DEF LockInv, Working
<1>2. QED
  BY <1>1 DEF AttemptOf

\* Nor is there one while the holder looks for the next entry, or before it begins.
LEMMA BusyAlone ==
  ASSUME LockInv, NEW w \in Workers, Holds(w), pc[w] \notin {"posting", "answered"}
  PROVE  AttemptOf = {}
<1>1. \A u \in Workers : pc[u] \notin {"posting", "answered"}
  BY OneHolder DEF Working
<1>2. QED
  BY <1>1, NoAttempt

-----------------------------------------------------------------------------
\* Initially nothing is published, attempted or received.
LEMMA DeliveryInit == Init => Promise!Init
<1> SUFFICES ASSUME Init PROVE Promise!Init
  OBVIOUS
<1>1. StatusOf = [e \in Entries |-> "none"]
  BY DEF Init, StatusOf, NoRow
<1>2. AttemptOf = {}
  BY NoAttempt DEF Init
<1>3. QED
  BY <1>1, <1>2 DEF Init, Promise!Init, StatusOf, AttemptOf

\* Getting in line, selecting and waiting touch no entry.
LEMMA QuietSteps ==
  ASSUME Safe,
         \/ \E v \in Events : Select(v) \/ StoreFails(v)
         \/ LoopWakes
         \/ UNCHANGED vars
  PROVE  DeliveryStep
<1>1. UNCHANGED <<box, answer, received, cur>>
  BY DEF Select, StoreFails, LoopWakes, vars
<1>2. \A w \in Workers :
        /\ pc'[w] \in {"posting", "answered"} <=> pc[w] \in {"posting", "answered"}
        /\ pc[w] \in {"posting", "answered"} => pc'[w] = pc[w]
  BY DEF Safe, TypeOK, Select, StoreFails, LoopWakes, Workers, vars
<1>3. AttemptOf' = AttemptOf
  BY <1>1, <1>2 DEF AttemptOf
<1>4. QED
  BY <1>1, <1>3, Stutters DEF StatusOf

\* An event publishes its rows.
LEMMA StorePublishes == ASSUME Safe, NEW v \in Events, Store(v) PROVE DeliveryStep
<1>1. /\ box' = [e \in Entries |-> IF e \in Targets(v) THEN NewRow ELSE box[e]]
      /\ UNCHANGED <<cur, answer, received>>
  BY DEF Store
<1>2. \A e \in Targets(v) \cap Entries : box[e].status = "none"
  BY DEF Safe, EventInv, Store, Targets, Entries
<1>3. \A w \in Workers :
        /\ pc'[w] \in {"posting", "answered"} <=> pc[w] \in {"posting", "answered"}
        /\ pc[w] \in {"posting", "answered"} => pc'[w] = pc[w]
  BY DEF Safe, TypeOK, Store, Workers
<1>4. AttemptOf' = AttemptOf
  BY <1>1, <1>3 DEF AttemptOf
<1>5. PICK es \in SUBSET Entries : es = Targets(v) \cap Entries
  OBVIOUS
<1>6. /\ \A e \in es : StatusOf[e] = "none"
      /\ StatusOf' = [e \in Entries |-> IF e \in es THEN "pending" ELSE StatusOf[e]]
  BY <1>1, <1>2, <1>5 DEF StatusOf, NewRow
<1>7. Promise!Publish(es)
  BY <1>1, <1>4, <1>6 DEF Promise!Publish, StatusOf, AttemptOf
<1>8. QED
  BY <1>7 DEF DeliveryStep, Promise!Next

\* A reset reopens the entry.
LEMMA RetryReopens == ASSUME Safe, NEW e \in Entries, Retry(e) PROVE DeliveryStep
<1>1. /\ box' = [box EXCEPT ![e] = NewRow] /\ box \in [Entries -> RowType]
      /\ box[e].status \in {"pending", "delivered", "failed"}
      /\ received' = [received EXCEPT ![e] = FALSE]
      /\ answer' = answer
  BY DEF Safe, TypeOK, Retry
<1>2. \A w \in Workers :
        /\ pc'[w] \in {"posting", "answered"} <=> pc[w] \in {"posting", "answered"}
        /\ pc[w] \in {"posting", "answered"} => pc'[w] = pc[w] /\ cur'[w] = cur[w]
  BY DEF Safe, TypeOK, Retry, Workers
<1>3. AttemptOf' = AttemptOf
  BY <1>1, <1>2 DEF AttemptOf
<1>4. StatusOf' = [StatusOf EXCEPT ![e] = "pending"] /\ StatusOf[e] = box[e].status
  BY <1>1 DEF StatusOf, NewRow
<1>5. Promise!Reopen(e)
  BY <1>1, <1>3, <1>4 DEF Promise!Reopen, StatusOf, AttemptOf
<1>6. QED
  BY <1>5 DEF DeliveryStep, Promise!Next

\* Starting a pass attempts nothing yet.
LEMMA AcquireQuiet == ASSUME Safe, NEW w \in Workers, Acquire(w) PROVE DeliveryStep
<1>1. /\ UNCHANGED <<box, received>> /\ Holds(w) /\ pc[w] = "waiting" /\ LockInv
  BY DEF Safe, Acquire
<1>2. AttemptOf = {}
  BY <1>1, BusyAlone
<1>3. \A u \in Workers : pc'[u] \notin {"posting", "answered"}
  <2>1. \A u \in Workers : pc[u] \notin Working
    BY <1>1, OneHolder DEF Working
  <2>2. CASE Due = {}
    BY <2>1, <2>2 DEF Acquire, Leave, Safe, TypeOK, Working
  <2>3. CASE Due # {}
    BY <2>1, <2>3 DEF Acquire, Safe, TypeOK, Working
  <2>4. QED
    BY <2>2, <2>3
<1>4. AttemptOf' = {}
  BY <1>3 DEF AttemptOf
<1>5. QED
  BY <1>1, <1>2, <1>4, Stutters DEF StatusOf

-----------------------------------------------------------------------------
\* The holder refuses or posts one of its entries: the attempt begins.
LEMMA AttemptBegins ==
  ASSUME Safe, NEW w \in Workers, NEW e \in Entries, Refuse(w, e) \/ Post(w, e)
  PROVE  DeliveryStep
<1>0. /\ pc \in [Workers -> Steps] /\ cur \in [Workers -> Entries \cup {None}]
      /\ answer \in [Workers -> Answers] /\ LockInv /\ Holds(w) /\ pc[w] = "busy"
      /\ e \in todo[w] /\ UNCHANGED <<box, received>> /\ cur' = [cur EXCEPT ![w] = e]
  BY DEF Safe, TypeOK, LockInv, Refuse, Post, Working
<1>1. box[e].status # "none" /\ ~received[e]
  BY <1>0 DEF Safe, PassInv, ReceivedInv, Unrecorded, Working
<1>2. AttemptOf = {} /\ \A u \in Workers : pc[u] \notin {"posting", "answered"}
  BY <1>0, BusyAlone, OneHolder DEF Working
<1>3. StatusOf' = StatusOf /\ StatusOf[e] = box[e].status
  BY <1>0 DEF StatusOf
<1>4. CASE Refuse(w, e)
  <2>1. pc' = [pc EXCEPT ![w] = "answered"] /\ answer' = [answer EXCEPT ![w] = "removed"]
    BY <1>4 DEF Refuse
  <2>2. \A u \in Workers : pc'[u] \in {"posting", "answered"} <=> u = w
    BY <1>0, <1>2, <2>1
  <2>3. pc'[w] = "answered" /\ answer'[w] = "removed" /\ cur'[w] = e
    BY <1>0, <2>1
  <2>4. AttemptOf' = {<<e, "removed">>}
    BY <2>2, <2>3 DEF AttemptOf
  <2>5. Promise!Refuse(e)
    BY <1>0, <1>1, <1>2, <1>3, <2>4 DEF Promise!Refuse, StatusOf, AttemptOf
  <2>6. QED
    BY <2>5 DEF DeliveryStep, Promise!Next
<1>5. CASE Post(w, e)
  <2>1. pc' = [pc EXCEPT ![w] = "posting"]
    BY <1>5 DEF Post
  <2>2. \A u \in Workers : pc'[u] \in {"posting", "answered"} <=> u = w
    BY <1>0, <1>2, <2>1
  <2>3. pc'[w] = "posting" /\ cur'[w] = e
    BY <1>0, <2>1
  <2>4. AttemptOf' = {<<e, "sending">>}
    BY <2>2, <2>3 DEF AttemptOf
  <2>5. Promise!Begin(e)
    BY <1>0, <1>1, <1>2, <1>3, <2>4 DEF Promise!Begin, StatusOf, AttemptOf
  <2>6. QED
    BY <2>5 DEF DeliveryStep, Promise!Next
<1>6. QED
  BY <1>4, <1>5

\* The answer is the answer of the attempt under way.
LEMMA AnswerReplies ==
  ASSUME Safe, NEW w \in Workers, NEW a \in {"ok", "error", "blocked"}, Answer(w, a)
  PROVE  DeliveryStep
<1>0. /\ pc \in [Workers -> Steps] /\ answer \in [Workers -> Answers]
      /\ LockInv /\ pc[w] = "posting" /\ pc' = [pc EXCEPT ![w] = "answered"]
      /\ answer' = [answer EXCEPT ![w] = a]
      /\ received' = [received EXCEPT ![cur[w]] = @ \/ a = "ok"]
      /\ UNCHANGED <<box, cur>>
  BY DEF Safe, TypeOK, Answer
<1>1. cur[w] \in Entries
  BY <1>0 DEF Safe, TypeOK, PassInv, Working
<1>2. AttemptOf = {<<cur[w], "sending">>}
  BY <1>0, OneAttempt
<1>3. \A u \in Workers : pc'[u] \in {"posting", "answered"} <=> u = w
  BY <1>0, OneHolder DEF LockInv, Working
<1>4. AttemptOf' = {<<cur[w], a>>}
  BY <1>0, <1>3 DEF AttemptOf
<1>5. Promise!Reply(cur[w], a)
  BY <1>0, <1>2, <1>4 DEF Promise!Reply, StatusOf, AttemptOf
<1>6. QED
  BY <1>1, <1>5 DEF DeliveryStep, Promise!Next, Promise!Answers

\* What a commit makes of a row is an outcome of its answer.
LEMMA SettledOutcomes ==
  ASSUME NEW r \in RowType, NEW n, NEW a \in {"removed", "ok", "error", "blocked"}
  PROVE  /\ a = "ok" => Settled(r, n, a).status = "delivered"
         /\ a = "error" => Settled(r, n, a).status \in {r.status, "failed"}
         /\ a \in {"removed", "blocked"} => Settled(r, n, a).status = "failed"
<1>1. CASE a = "removed"
  BY <1>1 DEF Settled, RowType
<1>2. CASE a = "ok"
  BY <1>2 DEF Settled, RowType
<1>3. CASE a = "error" /\ n + 1 < MaxAttempts
  BY <1>3 DEF Settled, RowType
<1>4. CASE a \notin {"removed", "ok"} /\ ~(a = "error" /\ n + 1 < MaxAttempts)
  BY <1>4 DEF Settled, RowType
<1>5. QED
  BY <1>1, <1>2, <1>3, <1>4

-----------------------------------------------------------------------------
\* An answered attempt has its answer.
AnswerInv ==
  \A w \in Workers : pc[w] = "answered" => answer[w] \in {"ok", "error", "blocked", "removed"}

LEMMA AnswerInit == Init => AnswerInv
BY DEF Init, AnswerInv

LEMMA AnswerNext == Safe /\ AnswerInv /\ [Next]_vars => AnswerInv'
<1> SUFFICES ASSUME Safe, AnswerInv, [Next]_vars,
                    NEW w \in Workers, pc'[w] = "answered"
             PROVE  answer'[w] \in {"ok", "error", "blocked", "removed"}
  BY DEF AnswerInv
<1>0. /\ pc \in [Workers -> Steps] /\ answer \in [Workers -> Answers]
      /\ pc[w] = "answered" => answer[w] \in {"ok", "error", "blocked", "removed"}
  BY DEF Safe, TypeOK, AnswerInv
<1>1. ASSUME NEW u \in Workers, Leave(u) PROVE pc[w] = "answered" /\ answer'[w] = answer[w]
  BY <1>0, <1>1 DEF Leave
<1>2. ASSUME NEW u \in Workers, Acquire(u)
      PROVE  pc[w] = "answered" /\ answer'[w] = answer[w]
  <2>1. CASE Due = {}
    BY <1>1, <1>2, <2>1 DEF Acquire
  <2>2. CASE Due # {}
    BY <1>0, <1>2, <2>2 DEF Acquire
  <2>3. QED
    BY <2>1, <2>2
<1>3. ASSUME NEW u \in Workers, NEW e \in Entries, Refuse(u, e) \/ Post(u, e)
      PROVE  answer'[w] = "removed" \/ (pc[w] = "answered" /\ answer'[w] = answer[w])
  BY <1>0, <1>3 DEF Refuse, Post
<1>4. ASSUME NEW u \in Workers, NEW a \in {"ok", "error", "blocked"}, Answer(u, a)
      PROVE  answer'[w] = a \/ (pc[w] = "answered" /\ answer'[w] = answer[w])
  BY <1>0, <1>4 DEF Answer
<1>5. ASSUME NEW u \in Workers, Settle(u)
      PROVE  pc[w] = "answered" /\ answer'[w] = answer[w]
  <2>1. CASE todo[u] = {cur[u]}
    BY <1>1, <1>5, <2>1 DEF Settle
  <2>2. CASE todo[u] # {cur[u]}
    BY <1>0, <1>5, <2>2 DEF Settle
  <2>3. QED
    BY <2>1, <2>2
<1>6. ASSUME NEW u \in Workers, Pass(u)
      PROVE  answer'[w] \in {"ok", "error", "blocked", "removed"}
  BY <1>0, <1>1, <1>2, <1>3, <1>4, <1>5, <1>6 DEF Pass, RowGone
<1>7. ASSUME NEW u \in Workers, CommitFails(u)
      PROVE  pc[w] = "answered" /\ answer'[w] = answer[w]
  BY <1>1, <1>7 DEF CommitFails
<1>8. ~Crash
  BY DEF Crash
<1>9. ASSUME \/ \E v \in Events : Select(v) \/ Store(v) \/ StoreFails(v)
             \/ LoopWakes
             \/ \E e \in Entries : Retry(e)
             \/ \E s \in Subs : DeleteSub(s)
             \/ \E e \in Entries : Purge(e) \/ BackoffEnds(e)
             \/ UNCHANGED vars
      PROVE  pc[w] = "answered" /\ answer'[w] = answer[w]
  BY <1>0, <1>9 DEF Select, Store, StoreFails, LoopWakes, Retry, DeleteSub, Purge,
                    BackoffEnds, vars
<1>10. QED
  BY <1>0, <1>6, <1>7, <1>8, <1>9 DEF Next

-----------------------------------------------------------------------------
\* The commit of an attempt records its outcome.
LEMMA SettleRecords ==
  ASSUME Safe, AnswerInv, NEW w \in Workers, Settle(w) PROVE DeliveryStep
<1>1. PICK e \in Entries : e = cur[w]
  BY AnsweredFacts DEF Settle
<1>2. PICK a \in {"ok", "error", "blocked", "removed"} : a = answer[w]
  BY DEF Settle, AnswerInv
<1>3. PICK r \in RowType : r = box[e]
  BY <1>1 DEF Safe, TypeOK
<1>4. /\ pc[w] = "answered" /\ Holds(w) /\ LockInv /\ TypeOK /\ received' = received
      /\ r.status \notin {"none", "purged"}
  BY <1>1, <1>3, AnsweredFacts DEF Settle, Safe
<1>5. AttemptOf = {<<e, a>>}
  BY <1>1, <1>2, <1>4, OneAttempt
<1>6. \A u \in Workers : pc'[u] \notin {"posting", "answered"}
  <2>1. CASE todo[w] = {cur[w]}
    <3>1. Leave(w)
      BY <2>1 DEF Settle
    <3>2. QED
      BY <1>4, <3>1, LeaveFacts DEF Working
  <2>2. CASE todo[w] # {cur[w]}
    <3>1. pc' = [pc EXCEPT ![w] = "busy"]
      BY <2>2 DEF Settle
    <3>2. QED
      BY <1>4, <3>1, OneHolder DEF TypeOK, Working
  <2>3. QED
    BY <2>1, <2>2
<1>7. AttemptOf' = {}
  BY <1>6 DEF AttemptOf
<1>8. PICK n : n = loaded[w][e]
  OBVIOUS
<1>9. PICK outcome : outcome = Settled(r, n, a).status
  OBVIOUS
<1>10. StatusOf' = [StatusOf EXCEPT ![e] = outcome]
  <2>1. box' = [box EXCEPT ![e] = Settled(r, n, a)] /\ box \in [Entries -> RowType]
    BY <1>1, <1>2, <1>3, <1>4, <1>8 DEF Settle, TypeOK
  <2>2. QED
    BY <1>9, <2>1 DEF StatusOf
<1>11. outcome \in Promise!Outcomes(e, a) /\ StatusOf[e] = r.status
  <2>1. StatusOf[e] = r.status
    BY <1>3 DEF StatusOf
  <2>2. /\ a = "ok" => outcome = "delivered"
        /\ a = "error" => outcome \in {r.status, "failed"}
        /\ a \in {"removed", "blocked"} => outcome = "failed"
    BY <1>9, SettledOutcomes
  <2>3. CASE a = "ok"
    BY <2>1, <2>2, <2>3 DEF Promise!Outcomes
  <2>4. CASE a = "error"
    BY <2>1, <2>2, <2>4 DEF Promise!Outcomes, StatusOf
  <2>5. CASE a \in {"removed", "blocked"}
    BY <2>1, <2>2, <2>5 DEF Promise!Outcomes
  <2>6. QED
    BY <2>1, <2>3, <2>4, <2>5
<1>12. \E o \in Promise!Outcomes(e, a) : StatusOf' = [StatusOf EXCEPT ![e] = o]
  BY <1>10, <1>11
<1>13. a # "sending" /\ StatusOf[e] \notin {"none", "purged"}
  BY <1>4, <1>11
<1>14. Promise!Record(e, a)
  BY <1>4, <1>5, <1>7, <1>12, <1>13 DEF Promise!Record, StatusOf, AttemptOf
<1>15. QED
  BY <1>14 DEF DeliveryStep, Promise!Next, Promise!Answers

\* A pass that finds its row purged, or cannot commit, loses the outcome.
LEMMA PassLoses ==
  ASSUME Safe, AnswerInv, NEW w \in Workers, RowGone(w) \/ CommitFails(w) PROVE DeliveryStep
<1>1. PICK e \in Entries : e = cur[w]
  BY AnsweredFacts DEF RowGone, CommitFails
<1>2. PICK a \in {"ok", "error", "blocked", "removed"} : a = answer[w]
  BY DEF RowGone, CommitFails, AnswerInv
<1>3. /\ pc[w] = "answered" /\ Holds(w) /\ LockInv /\ TypeOK /\ Leave(w) /\ box' = box
      /\ received \in [Entries -> BOOLEAN]
  BY AnsweredFacts DEF RowGone, CommitFails, Safe, TypeOK
<1>4. AttemptOf = {<<e, a>>}
  BY <1>1, <1>2, <1>3, OneAttempt
<1>5. AttemptOf' = {}
  BY <1>3, LeaveFacts DEF AttemptOf, Working
<1>6. StatusOf' = StatusOf /\ StatusOf[e] = box[e].status
  BY <1>3 DEF StatusOf
<1>7. \/ received' = [received EXCEPT ![e] = FALSE]
      \/ StatusOf[e] = "purged" /\ received' = received
  BY <1>1, <1>6 DEF RowGone, CommitFails
<1>8. Promise!Lose(e, a)
  BY <1>4, <1>5, <1>6, <1>7 DEF Promise!Lose, StatusOf, AttemptOf
<1>9. QED
  BY <1>8 DEF DeliveryStep, Promise!Next, Promise!Answers

\* A crash loses the outcome of the attempt under way, if there is one.
LEMMA CrashLoses == ASSUME Safe, AnswerInv, Crash PROVE DeliveryStep
<1>0. /\ LockInv /\ box' = box
      /\ received' = [e \in Entries |->
           received[e] /\ \A w \in Workers : pc[w] = "answered" => cur[w] # e]
      /\ received \in [Entries -> BOOLEAN]
  BY DEF Safe, TypeOK, Crash
<1>1. StatusOf' = StatusOf
  BY <1>0 DEF StatusOf
<1>2. \A u \in Workers : pc'[u] \in {"idle", "done"}
  BY Zenon DEF Crash
<1>3. AttemptOf' = {}
  BY <1>2 DEF AttemptOf
<1>4. CASE \A w \in Workers : pc[w] \notin {"posting", "answered"}
  <2>1. AttemptOf = {}
    BY <1>4, NoAttempt
  <2>2. received' = received
    BY <1>0, <1>4
  <2>3. QED
    BY <1>1, <1>3, <2>1, <2>2, Stutters
<1>5. ASSUME NEW w \in Workers, pc[w] = "posting" PROVE DeliveryStep
  <2>1. PICK e \in Entries : e = cur[w]
    BY <1>5 DEF Safe, TypeOK, PassInv, Working
  <2>2. AttemptOf = {<<e, "sending">>}
    BY <1>0, <1>5, <2>1, OneAttempt
  <2>3. ~received[e]
    BY <1>5, <2>1 DEF Safe, PassInv, ReceivedInv, Unrecorded, Working
  <2>4. \A u \in Workers : pc[u] # "answered"
    BY <1>0, <1>5, OneHolder DEF LockInv, Working
  <2>5. received' = [received EXCEPT ![e] = FALSE]
    BY <1>0, <2>3, <2>4
  <2>6. Promise!Lose(e, "sending")
    BY <1>1, <1>3, <2>2, <2>5 DEF Promise!Lose, StatusOf, AttemptOf
  <2>7. QED
    BY <2>6 DEF DeliveryStep, Promise!Next
<1>6. ASSUME NEW w \in Workers, pc[w] = "answered" PROVE DeliveryStep
  <2>1. PICK e \in Entries : e = cur[w]
    BY <1>6, AnsweredFacts
  <2>2. PICK a \in {"ok", "error", "blocked", "removed"} : a = answer[w]
    BY <1>6 DEF AnswerInv
  <2>3. AttemptOf = {<<e, a>>}
    BY <1>0, <1>6, <2>1, <2>2, OneAttempt
  <2>4. \A u \in Workers : pc[u] = "answered" => u = w
    BY <1>0, <1>6, OneHolder DEF LockInv, Working
  <2>5. received' = [received EXCEPT ![e] = FALSE]
    BY <1>0, <1>6, <2>1, <2>4
  <2>6. Promise!Lose(e, a)
    BY <1>1, <1>3, <2>3, <2>5 DEF Promise!Lose, StatusOf, AttemptOf
  <2>7. QED
    BY <2>6 DEF DeliveryStep, Promise!Next, Promise!Answers
<1>7. QED
  BY <1>4, <1>5, <1>6

\* What happens around the passes cancels, purges or changes nothing.
LEMMA AroundSteps ==
  ASSUME Safe,
         \/ \E s \in Subs : DeleteSub(s)
         \/ \E e \in Entries : Purge(e) \/ BackoffEnds(e)
  PROVE  DeliveryStep
<1>0. box \in [Entries -> RowType] /\ UNCHANGED <<pc, cur, answer, received>>
  BY DEF Safe, TypeOK, DeleteSub, Purge, BackoffEnds
<1>1. AttemptOf' = AttemptOf
  BY <1>0 DEF AttemptOf
<1>2. ASSUME NEW s \in Subs, DeleteSub(s) PROVE DeliveryStep
  <2>1. PICK es \in SUBSET Entries : es = EntriesOf(s)
    BY DEF EntriesOf
  <2>2. ASSUME NEW e \in Entries
        PROVE  box'[e].status =
                 IF e \in es /\ box[e].status = "pending" THEN "failed" ELSE box[e].status
    BY <1>0, <1>2, <2>1 DEF DeleteSub, RowType
  <2>3. StatusOf' = [e \in Entries |->
          IF e \in es /\ StatusOf[e] = "pending" THEN "failed" ELSE StatusOf[e]]
    BY <2>2 DEF StatusOf
  <2>4. Promise!Cancel(es)
    BY <1>0, <1>1, <2>3 DEF Promise!Cancel, StatusOf, AttemptOf
  <2>5. QED
    BY <2>4 DEF DeliveryStep, Promise!Next
<1>3. ASSUME NEW e \in Entries, Purge(e) PROVE DeliveryStep
  <2>1. StatusOf' = [StatusOf EXCEPT ![e] = "purged"]
    BY <1>0, <1>3 DEF Purge, PurgedRow, StatusOf
  <2>2. StatusOf[e] \in {"delivered", "failed"}
    BY <1>3 DEF Purge, StatusOf
  <2>3. Promise!Purge(e)
    BY <1>0, <1>1, <2>1, <2>2 DEF Promise!Purge, StatusOf, AttemptOf
  <2>4. QED
    BY <2>3 DEF DeliveryStep, Promise!Next
<1>4. ASSUME NEW e \in Entries, BackoffEnds(e) PROVE DeliveryStep
  <2>1. \A f \in Entries : box'[f].status = box[f].status
    BY <1>0, <1>4, DueFacts DEF BackoffEnds
  <2>2. StatusOf' = StatusOf
    BY <2>1 DEF StatusOf
  <2>3. QED
    BY <1>0, <1>1, <2>2, Stutters
<1>5. QED
  BY <1>2, <1>3, <1>4

-----------------------------------------------------------------------------
\* Every step of the outbox is a step of the delivery.
LEMMA StepDelivers == Safe /\ AnswerInv /\ [Next]_vars => DeliveryStep
<1> SUFFICES ASSUME Safe, AnswerInv, [Next]_vars PROVE DeliveryStep
  OBVIOUS
<1>1. CASE \/ \E v \in Events : Select(v) \/ StoreFails(v)
           \/ LoopWakes
           \/ UNCHANGED vars
  BY <1>1, QuietSteps
<1>2. CASE \E v \in Events : Store(v)
  BY <1>2, StorePublishes
<1>3. CASE \E e \in Entries : Retry(e)
  BY <1>3, RetryReopens
<1>4. ASSUME NEW w \in Workers, Pass(w) PROVE DeliveryStep
  BY <1>4, AcquireQuiet, AttemptBegins, AnswerReplies, SettleRecords, PassLoses DEF Pass
<1>5. CASE \E w \in Workers : CommitFails(w)
  BY <1>5, PassLoses
<1>6. CASE Crash
  BY <1>6, CrashLoses
<1>7. CASE \/ \E s \in Subs : DeleteSub(s)
           \/ \E e \in Entries : Purge(e) \/ BackoffEnds(e)
  BY <1>7, AroundSteps
<1>8. QED
  BY <1>1, <1>2, <1>3, <1>4, <1>5, <1>6, <1>7 DEF Next

\* The outbox of webhook_service.py keeps the promise of Delivery, for any instance: no
\* interleaving of event passes, loop, retries, deletions, purges and crashes records an
\* outcome for an attempt that is not its own, or sends what was received.
THEOREM Implements == Spec => ImplementsDelivery
<1>1. Spec => [](Safe /\ AnswerInv)
  <2>1. Init => AnswerInv
    BY AnswerInit
  <2>2. QED
    BY <2>1, AnswerNext, SafeAlways, PTL DEF Spec
<1>2. QED
  BY <1>1, DeliveryInit, StepDelivers, PTL DEF Spec, ImplementsDelivery, Promise!Spec, DeliveryStep
=============================================================================
