-------------------------------- MODULE Outbox --------------------------------
(***************************************************************************)
(* The notification outbox (src/backend/app/services/webhook_service.py):  *)
(* an event becomes one row per webhook subscription, stored before the    *)
(* first attempt; delivery passes POST the pending rows, one pass at a     *)
(* time under _delivery_lock.  A pass is run by                            *)
(*                                                                         *)
(*   an event   _enqueue_and_dispatch, a task of its own per event         *)
(*   Loop       the scheduler's _outbox_loop, every 15 seconds             *)
(*   Admin      POST /webhooks/outbox/{id}/retry                           *)
(*                                                                         *)
(* Each runs in its own session, which keeps the rows it loaded (no expiry *)
(* on commit) and writes at commit only the columns it changed.  The lock  *)
(* orders the passes; it does not cover deletions of a subscription,       *)
(* resets by the admin, the retention's purge, or a crash.                 *)
(* Abstracted: the order of the entries within a pass, the limit of 50     *)
(* entries per pass, payloads, and the kind of service.                    *)
(***************************************************************************)
EXTENDS Integers, Sequences

CONSTANTS
  Events,           \* events that occur, each handled by a task of its own
  Subs,             \* webhook subscriptions, all active at the start
  Loop, Admin,      \* the retry loop and the retry endpoint
  None,             \* no entry
  Wants,            \* Wants[v]: subscriptions whose event list names v
  MaxAttempts,      \* max_attempts of a row (3 in the code)
  MaxRetries,       \* bound: retries the admin asks for
  MaxDisturbances   \* bound: failed commits and crashes

Workers == Events \cup {Loop, Admin}
Entries == Events \X Subs

ASSUME WorkersAssumption == Loop \notin Events /\ Admin \notin Events /\ Loop # Admin
ASSUME NoneAssumption == None \notin Entries
ASSUME WantsAssumption == Wants \in [Events -> SUBSET Subs]
ASSUME BoundsAssumption ==
  MaxAttempts \in Nat \ {0} /\ MaxRetries \in Nat /\ MaxDisturbances \in Nat

VARIABLES
  subs,          \* subscriptions that exist
  box,           \* the notification_outbox rows
  pc,            \* where each worker is
  line,          \* _delivery_lock, first come first served: its holder, then the waiters
  cache,         \* cache[w]: subscriptions w's session still holds from its own select
  todo,          \* todo[w]: entries of w's pass not settled yet
  loaded,        \* loaded[w][e]: the attempts of row e as w's session loaded it
  cur,           \* cur[w]: the entry being attempted, or None
  answer,        \* how that attempt ended
  retries, disturbances,
  \* auxiliary: not in the program, they only watch it
  received,      \* POST answered below 400, not undone by a crash or asked for again
  posts          \* POSTs of the entry since it was stored or last reset

vars == <<subs, box, pc, line, cache, todo, loaded, cur, answer, retries, disturbances,
          received, posts>>

Statuses == {"none", "pending", "delivered", "failed", "purged"}
Steps == {"idle", "selected", "waiting", "busy", "posting", "answered", "done"}
Working == {"busy", "posting", "answered"}
Answers == {"none", "ok", "error", "blocked", "removed"}
NoRow == [status |-> "none", attempts |-> 0, due |-> FALSE]
NewRow == [status |-> "pending", attempts |-> 0, due |-> TRUE]
PurgedRow == [status |-> "purged", attempts |-> 0, due |-> FALSE]

SubOf(e) == e[2]
EntriesOf(s) == {e \in Entries : SubOf(e) = s}
Targets(v) == {<<v, s>> : s \in cache[v] \cap Wants[v]}
Due == {e \in Entries : box[e].status = "pending" /\ box[e].due /\ box[e].attempts < MaxAttempts}

\* Mutant: the lock is gone, whoever is in line starts its pass.
HoldsAny(w) == \E i \in DOMAIN line : line[i] = w

Holds(w) == line # <<>> /\ Head(line) = w

\* Mutants: the commit writes the whole row, status included; a failed attempt is not
\* counted; the last one settles the row as delivered, or leaves it pending.
SettledWhole(r, n, a) ==
  CASE a = "removed" -> [r EXCEPT !.status = "failed"]
    [] a = "ok"      -> [r EXCEPT !.status = "delivered", !.attempts = n + 1]
    [] a = "error" /\ n + 1 < MaxAttempts ->
         [status |-> "pending", attempts |-> n + 1, due |-> FALSE]
    [] OTHER         -> [r EXCEPT !.status = "failed", !.attempts = n + 1]
SettledUncounted(r, n, a) ==
  CASE a = "removed" -> [r EXCEPT !.status = "failed"]
    [] a = "ok"      -> [r EXCEPT !.status = "delivered", !.attempts = n + 1]
    [] a = "error"   -> [r EXCEPT !.due = FALSE]
    [] OTHER         -> [r EXCEPT !.status = "failed", !.attempts = n + 1]
SettledOptimistic(r, n, a) ==
  CASE a = "removed" -> [r EXCEPT !.status = "failed"]
    [] a = "ok"      -> [r EXCEPT !.status = "delivered", !.attempts = n + 1]
    [] a = "error" /\ n + 1 < MaxAttempts -> [r EXCEPT !.attempts = n + 1, !.due = FALSE]
    [] OTHER         -> [r EXCEPT !.status = "delivered", !.attempts = n + 1]
SettledNeverFails(r, n, a) ==
  CASE a = "removed" -> [r EXCEPT !.status = "failed"]
    [] a = "ok"      -> [r EXCEPT !.status = "delivered", !.attempts = n + 1]
    [] a = "error"   -> [r EXCEPT !.attempts = n + 1, !.due = FALSE]
    [] OTHER         -> [r EXCEPT !.status = "failed", !.attempts = n + 1]

\* The UPDATE of an attempt's outcome: row r, attempts n as loaded.  An error leaves the
\* status column alone (it was loaded as "pending" and stays so in the session).
Settled(r, n, a) ==
  CASE a = "removed" -> [r EXCEPT !.status = "failed"]
    [] a = "ok"      -> [r EXCEPT !.status = "delivered", !.attempts = n + 1]
    [] a = "error" /\ n + 1 < MaxAttempts -> [r EXCEPT !.attempts = n + 1, !.due = FALSE]
    [] OTHER         -> [r EXCEPT !.status = "failed", !.attempts = n + 1]

-----------------------------------------------------------------------------
Init ==
  /\ subs = Subs
  /\ box = [e \in Entries |-> NoRow]
  /\ pc = [w \in Workers |-> "idle"]
  /\ line = <<>>
  /\ cache = [w \in Workers |-> {}]
  /\ todo = [w \in Workers |-> {}]
  /\ loaded = [w \in Workers |-> [e \in Entries |-> 0]]
  /\ cur = [w \in Workers |-> None]
  /\ answer = [w \in Workers |-> "none"]
  /\ retries = 0 /\ disturbances = 0
  /\ received = [e \in Entries |-> FALSE]
  /\ posts = [e \in Entries |-> 0]

-----------------------------------------------------------------------------
(* A worker gets in line.                                                    *)

\* The event's task selects the active subscriptions; it keeps them to its end.
Select(v) ==
  /\ v \in Events /\ pc[v] = "idle"
  /\ cache' = [cache EXCEPT ![v] = subs]
  /\ pc' = [pc EXCEPT ![v] = IF subs \cap Wants[v] = {} THEN "done" ELSE "selected"]
  /\ UNCHANGED <<subs, box, line, todo, loaded, cur, answer, retries, disturbances,
                 received, posts>>

\* One commit stores a pending row per target, then the task waits for its own pass.
Store(v) ==
  /\ pc[v] = "selected"
  /\ \A e \in Targets(v) : SubOf(e) \in subs
  /\ box' = [e \in Entries |-> IF e \in Targets(v) THEN NewRow ELSE box[e]]
  /\ pc' = [pc EXCEPT ![v] = "waiting"]
  /\ line' = Append(line, v)
  /\ UNCHANGED <<subs, cache, todo, loaded, cur, answer, retries, disturbances,
                 received, posts>>

\* A target deleted since the select breaks the foreign key: no row at all is stored.
StoreFails(v) ==
  /\ pc[v] = "selected"
  /\ \E e \in Targets(v) : SubOf(e) \notin subs
  /\ pc' = [pc EXCEPT ![v] = "done"]
  /\ cache' = [cache EXCEPT ![v] = {}]
  /\ UNCHANGED <<subs, box, line, todo, loaded, cur, answer, retries, disturbances,
                 received, posts>>

LoopWakes ==
  /\ pc[Loop] = "idle"
  /\ pc' = [pc EXCEPT ![Loop] = "waiting"]
  /\ line' = Append(line, Loop)
  /\ UNCHANGED <<subs, box, cache, todo, loaded, cur, answer, retries, disturbances,
                 received, posts>>

\* The reset row stays in the session of the request, attempts 0 included.
Retry(e) ==
  /\ retries < MaxRetries
  /\ pc[Admin] = "idle"
  /\ box[e].status \in {"pending", "delivered", "failed"}
  /\ retries' = retries + 1
  /\ box' = [box EXCEPT ![e] = NewRow]
  /\ cur' = [cur EXCEPT ![Admin] = e]
  /\ pc' = [pc EXCEPT ![Admin] = "waiting"]
  /\ line' = Append(line, Admin)
  /\ received' = [received EXCEPT ![e] = FALSE]
  /\ posts' = [posts EXCEPT ![e] = 0]
  /\ UNCHANGED <<subs, cache, todo, loaded, answer, disturbances>>

-----------------------------------------------------------------------------
(* A delivery pass.                                                          *)

\* The worker's session ends; the lock goes to the next in line.
Leave(w) ==
  /\ pc' = [pc EXCEPT ![w] = IF w \in Events THEN "done" ELSE "idle"]
  /\ line' = Tail(line)
  /\ cache' = [cache EXCEPT ![w] = {}]
  /\ todo' = [todo EXCEPT ![w] = {}]
  /\ loaded' = [loaded EXCEPT ![w] = [e \in Entries |-> 0]]
  /\ cur' = [cur EXCEPT ![w] = None]
  /\ answer' = [answer EXCEPT ![w] = "none"]

\* Attempts as the query returns them: a row the session still holds is not reloaded.
Attempts(w, e) == IF cur[w] = e THEN 0 ELSE box[e].attempts

\* The lock is free: load what is due, or leave at once.  A row loaded after its
\* subscription was deleted has lost its reference (ON DELETE SET NULL), so only
\* cached subscriptions that still exist here can be found through a row.
Acquire(w) ==
  /\ pc[w] = "waiting"
  /\ Holds(w)
  /\ IF Due = {}
     THEN Leave(w)
     ELSE /\ pc' = [pc EXCEPT ![w] = "busy"]
          /\ todo' = [todo EXCEPT ![w] = Due]
          /\ loaded' = [loaded EXCEPT ![w] =
               [e \in Entries |-> IF e \in Due THEN Attempts(w, e) ELSE 0]]
          /\ cache' = [cache EXCEPT ![w] = @ \cap subs]
          /\ cur' = [cur EXCEPT ![w] = None]
          /\ UNCHANGED <<line, answer>>
  /\ UNCHANGED <<subs, box, retries, disturbances, received, posts>>

\* db.get: the session's own copy of the subscription if it has one, else the table.
Reachable(w, s) == s \in cache[w] \/ s \in subs

Refuse(w, e) ==
  /\ pc[w] = "busy" /\ e \in todo[w]
  /\ ~Reachable(w, SubOf(e))
  /\ pc' = [pc EXCEPT ![w] = "answered"]
  /\ cur' = [cur EXCEPT ![w] = e]
  /\ answer' = [answer EXCEPT ![w] = "removed"]
  /\ UNCHANGED <<subs, box, line, cache, todo, loaded, retries, disturbances, received, posts>>

Post(w, e) ==
  /\ pc[w] = "busy" /\ e \in todo[w]
  /\ Reachable(w, SubOf(e))
  /\ pc' = [pc EXCEPT ![w] = "posting"]
  /\ cur' = [cur EXCEPT ![w] = e]
  /\ posts' = [posts EXCEPT ![e] = @ + 1]
  /\ UNCHANGED <<subs, box, line, cache, todo, loaded, answer, retries, disturbances, received>>

\* "error" is an HTTP status from 400 up, no answer, or one that came too late.
Answer(w, a) ==
  /\ pc[w] = "posting"
  /\ a \in {"ok", "error", "blocked"}
  /\ pc' = [pc EXCEPT ![w] = "answered"]
  /\ answer' = [answer EXCEPT ![w] = a]
  /\ received' = [received EXCEPT ![cur[w]] = @ \/ a = "ok"]
  /\ UNCHANGED <<subs, box, line, cache, todo, loaded, cur, retries, disturbances, posts>>

\* The commit after each entry.
Settle(w) ==
  /\ pc[w] = "answered"
  /\ box[cur[w]].status # "purged"
  /\ box' = [box EXCEPT ![cur[w]] = Settled(@, loaded[w][cur[w]], answer[w])]
  /\ IF todo[w] = {cur[w]}
     THEN Leave(w)
     ELSE /\ pc' = [pc EXCEPT ![w] = "busy"]
          /\ todo' = [todo EXCEPT ![w] = @ \ {cur[w]}]
          /\ cur' = [cur EXCEPT ![w] = None]
          /\ answer' = [answer EXCEPT ![w] = "none"]
          /\ UNCHANGED <<line, cache, loaded>>
  /\ UNCHANGED <<subs, retries, disturbances, received, posts>>

\* The row was purged under the pass: its UPDATE matches nothing, the pass ends.
RowGone(w) ==
  /\ pc[w] = "answered"
  /\ box[cur[w]].status = "purged"
  /\ Leave(w)
  /\ UNCHANGED <<subs, box, retries, disturbances, received, posts>>

Disturb == disturbances < MaxDisturbances /\ disturbances' = disturbances + 1

\* The database stays locked beyond its timeout: the pass ends, the outcome is lost.
CommitFails(w) ==
  /\ Disturb
  /\ pc[w] = "answered"
  /\ Leave(w)
  /\ received' = [received EXCEPT ![cur[w]] = FALSE]
  /\ UNCHANGED <<subs, box, retries, posts>>

\* The process stops; tasks, sessions and the lock go with it, the rows stay.
Crash ==
  /\ Disturb
  /\ \E w \in Workers : pc[w] \notin {"idle", "done"}
  /\ pc' = [w \in Workers |->
       CASE w \notin Events -> "idle" [] pc[w] = "idle" -> "idle" [] OTHER -> "done"]
  /\ line' = <<>>
  /\ cache' = [w \in Workers |-> {}]
  /\ todo' = [w \in Workers |-> {}]
  /\ loaded' = [w \in Workers |-> [e \in Entries |-> 0]]
  /\ cur' = [w \in Workers |-> None]
  /\ answer' = [w \in Workers |-> "none"]
  /\ received' = [e \in Entries |->
       received[e] /\ \A w \in Workers : pc[w] = "answered" => cur[w] # e]
  /\ UNCHANGED <<subs, box, retries, posts>>

-----------------------------------------------------------------------------
(* What happens around the passes.                                           *)

\* Mutant: the rows of a deleted subscription keep waiting.
DeleteSubOnly(s) ==
  /\ s \in subs
  /\ subs' = subs \ {s}
  /\ UNCHANGED <<box, pc, line, cache, todo, loaded, cur, answer, retries, disturbances,
                 received, posts>>

\* DELETE /webhooks/{id}: its pending rows fail in the same transaction.
DeleteSub(s) ==
  /\ s \in subs
  /\ subs' = subs \ {s}
  /\ box' = [e \in Entries |->
       IF e \in EntriesOf(s) /\ box[e].status = "pending"
       THEN [box[e] EXCEPT !.status = "failed"] ELSE box[e]]
  /\ UNCHANGED <<pc, line, cache, todo, loaded, cur, answer, retries, disturbances,
                 received, posts>>

\* The retention job deletes settled rows older than the retention period.
Purge(e) ==
  /\ box[e].status \in {"delivered", "failed"}
  /\ box' = [box EXCEPT ![e] = PurgedRow]
  /\ UNCHANGED <<subs, pc, line, cache, todo, loaded, cur, answer, retries, disturbances,
                 received, posts>>

\* next_attempt_at (10 s, 20 s, ... after a failed attempt) arrives.
BackoffEnds(e) ==
  /\ box[e].status = "pending" /\ ~box[e].due
  /\ box' = [box EXCEPT ![e].due = TRUE]
  /\ UNCHANGED <<subs, pc, line, cache, todo, loaded, cur, answer, retries, disturbances,
                 received, posts>>

-----------------------------------------------------------------------------
Pass(w) ==
  \/ Acquire(w)
  \/ \E e \in Entries : Refuse(w, e) \/ Post(w, e)
  \/ \E a \in {"ok", "error", "blocked"} : Answer(w, a)
  \/ Settle(w)
  \/ RowGone(w)

Next ==
  \/ \E v \in Events : Select(v) \/ Store(v) \/ StoreFails(v)
  \/ LoopWakes
  \/ \E e \in Entries : Retry(e)
  \/ \E w \in Workers : Pass(w)
  \/ \E w \in Workers : CommitFails(w)
  \/ Crash
  \/ \E s \in Subs : DeleteSub(s)
  \/ \E e \in Entries : Purge(e) \/ BackoffEnds(e)

Spec == Init /\ [][Next]_vars

\* The retry loop wakes up for ever, a pass in the lock runs on (a POST ends within
\* its five seconds) and time passes.  Nothing says an event occurs, a row is purged or
\* anyone retries or deletes anything.
Fairness ==
  /\ WF_vars(LoopWakes)
  /\ \A w \in Workers : WF_vars(Pass(w))
  /\ \A e \in Entries : WF_vars(BackoffEnds(e))

FairSpec == Spec /\ Fairness

-----------------------------------------------------------------------------
RowType == [status : Statuses, attempts : 0 .. MaxAttempts, due : BOOLEAN]

TypeOK ==
  /\ subs \subseteq Subs
  /\ box \in [Entries -> RowType]
  /\ pc \in [Workers -> Steps]
  /\ line \in Seq(Workers)
  /\ cache \in [Workers -> SUBSET Subs]
  /\ todo \in [Workers -> SUBSET Entries]
  /\ loaded \in [Workers -> [Entries -> 0 .. MaxAttempts]]
  /\ cur \in [Workers -> Entries \cup {None}]
  /\ answer \in [Workers -> Answers]
  /\ retries \in 0 .. MaxRetries
  /\ disturbances \in 0 .. MaxDisturbances
  /\ received \in [Entries -> BOOLEAN]
  /\ posts \in [Entries -> Nat]

\* _delivery_lock: "an event's own pass and the retry loop must not send the same entry
\* twice".  No POST is under way for an entry whose receiver took it already, unless
\* the record of that was lost in a crash or the admin asked for it again.
NeverSentTwice ==
  \A w \in Workers : pc[w] = "posting" => ~received[cur[w]]

\* Rows a pass holds change under it (deletions, resets), and its commits must not
\* bring a settled row back: only the retry endpoint makes one pending again.
OnlyRetryReopens ==
  [][\A e \in Entries :
       box[e].status \in {"delivered", "failed", "purged"} /\ box'[e].status = "pending"
         => Retry(e)]_vars

\* A removed subscription has nothing waiting except what the admin reset afterwards
\* (api/webhooks.py: "not even the retries still waiting").
RemovedHasNothingNew ==
  [][\A e \in Entries :
       SubOf(e) \notin subs' /\ box'[e].status = "pending" /\ ~Retry(e)
         => box[e].status = "pending" /\ SubOf(e) \notin subs]_vars

\* Up to three attempts (docs/ROADMAP.md): without a reset by the admin, an entry is
\* posted at most max_attempts times, plus once for each outcome lost in a crash.
PostsBounded ==
  retries = 0 => \A e \in Entries : posts[e] <= MaxAttempts + disturbances

\* The rows, the attempt of the pass that holds the lock and what was received are a
\* Delivery: the lock, the identity maps and the column-wise commits of the passes keep
\* every outcome with the attempt it belongs to.
Promise == INSTANCE Delivery WITH
  status <- [e \in Entries |-> box[e].status],
  attempt <- {<<cur[w], IF pc[w] = "posting" THEN "sending" ELSE answer[w]>> :
                w \in {u \in Workers : pc[u] \in {"posting", "answered"}}}

ImplementsDelivery == Promise!Spec

\* Every stored entry is settled in the end, whatever crashes or is reset meanwhile.
EverythingSettles ==
  \A e \in Entries : box[e].status = "pending" ~> box[e].status # "pending"
=============================================================================
