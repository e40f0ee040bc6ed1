------------------------------- MODULE Delivery -------------------------------
(***************************************************************************)
(* What the notification outbox promises (src/backend/app/services/        *)
(* webhook_service.py), without its tasks, sessions and lock: entries are  *)
(* published, attempted one at a time, and settled by the answer of their  *)
(* own attempt; none is attempted again that was received.  An outcome may *)
(* be lost, a deleted subscription cancels what waits, the administrator   *)
(* may reopen an entry.  Outbox implements it.                             *)
(***************************************************************************)
CONSTANT Entries

VARIABLES
  status,      \* status[e] of an entry; "none" before it is published
  attempt,     \* {<<e, how it stands>>}, or {}: there is one attempt at a time
  received     \* the receiver has e, and nobody lost track of it

vars == <<status, attempt, received>>

Answers == {"ok", "error", "blocked"}

Init ==
  /\ status = [e \in Entries |-> "none"]
  /\ attempt = {}
  /\ received = [e \in Entries |-> FALSE]

\* An event's entries are published together.
Publish(es) ==
  /\ \A e \in es : status[e] = "none"
  /\ status' = [e \in Entries |-> IF e \in es THEN "pending" ELSE status[e]]
  /\ UNCHANGED <<attempt, received>>

Begin(e) ==
  /\ attempt = {} /\ status[e] # "none" /\ ~received[e]
  /\ attempt' = {<<e, "sending">>}
  /\ UNCHANGED <<status, received>>

\* The subscription is gone: there is nowhere to send it to.
Refuse(e) ==
  /\ attempt = {} /\ status[e] # "none"
  /\ attempt' = {<<e, "removed">>}
  /\ UNCHANGED <<status, received>>

Reply(e, a) ==
  /\ attempt = {<<e, "sending">>}
  /\ attempt' = {<<e, a>>}
  /\ received' = [received EXCEPT ![e] = @ \/ a = "ok"]
  /\ UNCHANGED status

\* An entry is delivered by a good answer and nothing else; after an error it is left as
\* it is, to be attempted again, or has failed.
Outcomes(e, a) ==
  CASE a = "ok" -> {"delivered"}
    [] a = "error" -> {status[e], "failed"}
    [] OTHER -> {"failed"}

Record(e, a) ==
  /\ attempt = {<<e, a>>} /\ a # "sending"
  /\ status[e] \notin {"none", "purged"}
  /\ \E outcome \in Outcomes(e, a) : status' = [status EXCEPT ![e] = outcome]
  /\ attempt' = {}
  /\ UNCHANGED received

\* A crash or a failed commit loses the outcome; that of a purged entry has no row to go to.
Lose(e, a) ==
  /\ attempt = {<<e, a>>}
  /\ attempt' = {}
  /\ \/ received' = [received EXCEPT ![e] = FALSE]
     \/ status[e] = "purged" /\ UNCHANGED received
  /\ UNCHANGED status

Reopen(e) ==
  /\ status[e] \in {"pending", "delivered", "failed"}
  /\ status' = [status EXCEPT ![e] = "pending"]
  /\ received' = [received EXCEPT ![e] = FALSE]
  /\ UNCHANGED attempt

\* The entries that wait for a deleted subscription fail together.
Cancel(es) ==
  /\ status' = [e \in Entries |->
       IF e \in es /\ status[e] = "pending" THEN "failed" ELSE status[e]]
  /\ UNCHANGED <<attempt, received>>

Purge(e) ==
  /\ status[e] \in {"delivered", "failed"}
  /\ status' = [status EXCEPT ![e] = "purged"]
  /\ UNCHANGED <<attempt, received>>

Next ==
  \/ \E es \in SUBSET Entries : Publish(es) \/ Cancel(es)
  \/ \E e \in Entries :
       \/ Begin(e) \/ Refuse(e) \/ Reopen(e) \/ Purge(e)
       \/ \E a \in Answers : Reply(e, a)
       \/ \E a \in Answers \cup {"sending", "removed"} : Record(e, a) \/ Lose(e, a)

Spec == Init /\ [][Next]_vars
=============================================================================
