------------------------------- MODULE Terminal -------------------------------
(***************************************************************************)
(* Work on a remote host over SSH (api/ssh.py, api/agent_patches.py,       *)
(* api/agent.py, services/ssh_terminal.py, ssh_utils.py, patch_service.py, *)
(* api/settings.py).                                                       *)
(*                                                                         *)
(* Terminals, package updates, queries for them and deployments to one     *)
(* host and port run at the same time.  Each looks at the stored host key  *)
(* once, connects, and may store the key it met; the administrator deletes *)
(* the stored key, the host may present another key at each connection,    *)
(* and a reset of the database ends everything.                            *)
(* A terminal and an update are prepared by one request (which leaves a    *)
(* one-shot ticket) and started by another.                                *)
(*                                                                         *)
(* Abstracted: credentials, profiles and the commands sent; one browser;   *)
(* time: a ticket, a prompt and the grant may expire at any moment.        *)
(***************************************************************************)
EXTENDS Integers, FiniteSets

CONSTANTS
  Jobs,        \* slots for terminals, updates, queries and deployments
  Keys, NoKey, \* host keys of the host
  MaxActive,   \* ssh_max_sessions
  MaxResets    \* bound: resets of the database

ASSUME JobsAssumption == IsFiniteSet(Jobs)
ASSUME KeysAssumption == NoKey \notin Keys
ASSUME BoundsAssumption == MaxActive \in Nat \ {0} /\ MaxResets \in Nat

VARIABLES
  browser,   \* the one browser: "none", "live" (logged in), "confirmed" (may act remotely)
  known,     \* the row of ssh_known_hosts for the host, or NoKey
  job,       \* job[j]: what job j is, has looked at and has reached
  resetting, \* a reset has wiped the database and not yet dropped what is in memory
  \* auxiliary: not in the program
  resets

vars == <<browser, known, job, resetting, resets>>

Requests == {"query", "deploy"}   \* over with their answer: no ticket
Kinds == {"idle", "terminal", "patch"} \cup Requests
Steps == {"", "prepare", "ticket", "admitted", "connecting", "check", "asked", "learned",
          "store", "trusted", "shell", "open"}

(* pinned: the stored key a job has looked at; seen: the key the host presented to it;
   own: its ticket came from a browser session; fresh (auxiliary): the stored key did not
   change since the job looked at it; doomed (auxiliary): a terminal whose transport was
   there when a reset forgot what is in memory. *)
JobStates == [kind : Kinds, step : Steps, pinned : Keys \cup {NoKey}, seen : Keys \cup {NoKey},
              own : BOOLEAN, fresh : BOOLEAN, closed : BOOLEAN, doomed : BOOLEAN]
Free == [kind |-> "idle", step |-> "", pinned |-> NoKey, seen |-> NoKey,
         own |-> FALSE, fresh |-> FALSE, closed |-> FALSE, doomed |-> FALSE]

At(j, kind, step) == job[j].kind = kind /\ job[j].step = step
Frees(j) == job' = [job EXCEPT ![j] = Free]
Moves(j, step) == job' = [job EXCEPT ![j].step = step]

\* A terminal is in _active_sessions from run_terminal's start to its end.
Active == {j \in Jobs : job[j].kind = "terminal"
                        /\ job[j].step \in {"connecting", "check", "asked", "store", "trusted", "shell", "open"}}
\* What close_all_sessions can close: a terminal whose handshake is over.
HasTransport(j) == j \in Active /\ job[j].step # "connecting"

TypeOK ==
  /\ browser \in {"none", "live", "confirmed"} /\ known \in Keys \cup {NoKey}
  /\ job \in [Jobs -> JobStates]
  /\ \A j \in Jobs :
       job[j].closed \/ job[j].doomed =>
         job[j].kind = "terminal" /\ job[j].step \in {"check", "asked", "store", "trusted", "shell", "open"}
  /\ resetting \in BOOLEAN /\ resets \in 0 .. MaxResets

Init ==
  /\ browser = "none" /\ known \in Keys \cup {NoKey}
  /\ job = [j \in Jobs |-> Free]
  /\ resetting = FALSE /\ resets = 0

-----------------------------------------------------------------------------
(* The browser and the known host *)

\* Login, confirmation of the password for remote access, the end of either.
LoginOrConfirm ==
  /\ \/ browser = "none" /\ browser' = "live"
     \/ browser = "live" /\ browser' = "confirmed"
  /\ UNCHANGED <<known, job, resetting, resets>>

LogoutOrExpire ==
  /\ \/ browser = "confirmed" /\ browser' = "live"
     \/ browser # "none" /\ browser' = "none"
  /\ UNCHANGED <<known, job, resetting, resets>>

\* Other jobs' look at the stored key is outdated from now on.
Outdated(s) == [j \in Jobs |-> [s[j] EXCEPT !.fresh = FALSE]]
Stored(j, k, s) ==
  /\ known' = k
  /\ job' = IF k = known THEN s ELSE [Outdated(s) EXCEPT ![j] = s[j]]

\* Known hosts are deleted with a confirmed password, or with an API token of the administrator.
DeleteKnownHost ==
  /\ known # NoKey /\ known' = NoKey /\ job' = Outdated(job)
  /\ UNCHANGED <<browser, resetting, resets>>

-----------------------------------------------------------------------------
(* Jobs of every kind: the request that prepares, the ticket, the look at the stored key *)

Prepare(j, kind) ==
  /\ job[j] = Free /\ browser = "confirmed" /\ kind \in Kinds \ {"idle"}
  /\ job' = [job EXCEPT ![j] = [Free EXCEPT !.kind = kind, !.step = "prepare"]]
  /\ UNCHANGED <<browser, known, resetting, resets>>

\* A ticket for a terminal remembers whether the session still lives after the awaits.
PreparedTerminal(j) ==
  /\ At(j, "terminal", "prepare")
  /\ Frees(j) \/ job' = [job EXCEPT ![j].step = "ticket", ![j].own = (browser # "none")]
  /\ UNCHANGED <<browser, known, resetting, resets>>

\* The stored key is read with the login.
Looked(j, step) == job' = [job EXCEPT ![j].step = step, ![j].pinned = known, ![j].fresh = TRUE]

PreparedUpdate(j) ==
  /\ At(j, "patch", "prepare")
  /\ Frees(j) \/ Looked(j, "ticket")
  /\ UNCHANGED <<browser, known, resetting, resets>>

\* _ssh_login, and _resolve_patch_credentials of a query.
PreparedRequest(j) ==
  /\ job[j].kind \in Requests /\ job[j].step = "prepare"
  /\ Frees(j) \/ Looked(j, "connecting")
  /\ UNCHANGED <<browser, known, resetting, resets>>

TicketExpires(j) ==
  /\ job[j].step = "ticket" /\ Frees(j)
  /\ UNCHANGED <<browser, known, resetting, resets>>

\* The ticket is taken in one step; without a cookie it has to be a session's.
RedeemTerminal(j) ==
  /\ At(j, "terminal", "ticket") /\ (browser # "none" \/ job[j].own)
  /\ job' = [job EXCEPT ![j].own = FALSE, ![j].step = "admitted"]
  /\ UNCHANGED <<browser, known, resetting, resets>>

RedeemUpdate(j) ==
  /\ At(j, "patch", "ticket") /\ browser # "none" /\ Moves(j, "connecting")
  /\ UNCHANGED <<browser, known, resetting, resets>>

-----------------------------------------------------------------------------
(* Terminals *)

HasRoom == Cardinality(Active) < MaxActive

\* Check of the limit and entry into _active_sessions, with no await between.
Enter(j) ==
  /\ At(j, "terminal", "admitted")
  /\ IF HasRoom THEN Moves(j, "connecting") ELSE Frees(j)
  /\ UNCHANGED <<browser, known, resetting, resets>>

\* The handshake tells the host's key before any credential is sent.
Connect(j) ==
  /\ At(j, "terminal", "connecting")
  /\ Frees(j) \/ \E k \in Keys : job' = [job EXCEPT ![j].step = "check", ![j].seen = k]
  /\ UNCHANGED <<browser, known, resetting, resets>>

Verdict(k) == IF known = NoKey THEN "unknown" ELSE IF known = k THEN "known" ELSE "changed"

CheckKey(j) ==
  /\ At(j, "terminal", "check")
  /\ \/ Verdict(job[j].seen) = "changed" /\ Frees(j)
     \/ /\ Verdict(job[j].seen) # "changed"
        /\ job' = [job EXCEPT ![j].fresh = TRUE,
                              ![j].step = IF Verdict(job[j].seen) = "known" THEN "trusted" ELSE "asked"]
  /\ UNCHANGED <<browser, known, resetting, resets>>

\* The user accepts the key, and remember() looks for a row once more.
Accept(j) ==
  /\ At(j, "terminal", "asked") /\ job' = [job EXCEPT ![j].step = "store", ![j].pinned = known]
  /\ UNCHANGED <<browser, known, resetting, resets>>

RejectOrLeave(j) ==
  /\ At(j, "terminal", "asked") /\ Frees(j)
  /\ UNCHANGED <<browser, known, resetting, resets>>

\* Mutant: the prompt waits for ever.
PromptNeverEnds(j) == FALSE /\ UNCHANGED vars

\* HOSTKEY_PROMPT_TIMEOUT.
PromptEnds(j) ==
  /\ At(j, "terminal", "asked") /\ Frees(j)
  /\ UNCHANGED <<browser, known, resetting, resets>>

\* The commit inserts a row (an error when one exists by then) or updates the one it
\* found, the columns that differ (an error when it is gone).
Remember(j) ==
  /\ At(j, "terminal", "store")
  /\ \/ (job[j].pinned = NoKey) # (known = NoKey) /\ Frees(j) /\ UNCHANGED known
     \/ /\ (job[j].pinned = NoKey) = (known = NoKey)
        /\ Stored(j, IF job[j].pinned = job[j].seen THEN known ELSE job[j].seen,
                  [job EXCEPT ![j].step = "trusted", ![j].pinned = NoKey])
  /\ UNCHANGED <<browser, resetting, resets>>

\* Authentication and the channel, which time out; a transport closed by a reset fails.
Authenticate(j) ==
  /\ At(j, "terminal", "trusted")
  /\ Frees(j) \/ (~job[j].closed /\ Moves(j, "shell"))
  /\ UNCHANGED <<browser, known, resetting, resets>>

\* The requests for a pty and a shell wait for the host's answer without a timeout, but not
\* on a closed transport.
OpenShell(j) ==
  /\ At(j, "terminal", "shell")
  /\ Frees(j) \/ (~job[j].closed /\ Moves(j, "open"))
  /\ UNCHANGED <<browser, known, resetting, resets>>

\* An end of either side, the idle timeout, or the end of the closed transport's reader.
TerminalEnds(j) ==
  /\ At(j, "terminal", "open") /\ Frees(j)
  /\ UNCHANGED <<browser, known, resetting, resets>>

-----------------------------------------------------------------------------
(* Updates, queries and deployments: the stored key is pinned, or the first key met is learned *)

\* Mutant: a host without the pinned key is talked to all the same.
TrustsAny(j, k) == TRUE

Trusts(j, k) == job[j].pinned \in {NoKey, k}

\* Logged in to a host that presents k.
Meets(j, k) ==
  /\ Trusts(j, k)
  /\ job' = [job EXCEPT ![j].seen = k,
                        ![j].step = IF job[j].pinned = NoKey THEN "learned" ELSE "trusted"]

\* Asking for the package manager comes before an update.
Probe(j) ==
  /\ At(j, "patch", "connecting")
  /\ Frees(j) \/ \E k \in Keys : Meets(j, k)
  /\ UNCHANGED <<browser, known, resetting, resets>>

\* A key that was met is kept only with a list of updates to answer.
Query(j) ==
  /\ At(j, "query", "connecting")
  /\ Frees(j) \/ \E k \in Keys : Meets(j, k)
  /\ UNCHANGED <<browser, known, resetting, resets>>

\* A deployment or a removal; a key that was met is kept although the login or a command failed.
Deploy(j) ==
  /\ At(j, "deploy", "connecting")
  /\ Frees(j) \/ \E k \in Keys : Meets(j, k)
  /\ UNCHANGED <<browser, known, resetting, resets>>

\* _persist_captured_host_key looks for a row; without one it will insert its own.
LookAgain(j) ==
  /\ job[j].step = "learned"
  /\ job' = IF known # NoKey THEN [job EXCEPT ![j].step = "trusted", ![j].pinned = job[j].seen]
                             ELSE [job EXCEPT ![j].step = "store"]
  /\ UNCHANGED <<browser, known, resetting, resets>>

\* Mutant: the row is written whether or not one exists by then.
PersistsOver(j) == TRUE

\* The unique constraint on host and port: a row inserted meanwhile makes the commit fail.
Persists(j) == known = NoKey

Persist(j) ==
  /\ job[j].kind # "terminal" /\ job[j].step = "store"
  /\ \/ ~Persists(j) /\ Frees(j) /\ UNCHANGED known
     \/ /\ Persists(j)
        /\ Stored(j, job[j].seen, [job EXCEPT ![j].step = "trusted", ![j].pinned = job[j].seen])
  /\ UNCHANGED <<browser, resetting, resets>>

\* The update itself connects once more, to the key pinned by now, and runs to its end
\* even when the browser goes away.
RunUpdate(j) ==
  /\ At(j, "patch", "trusted")
  /\ \/ Frees(j)
     \/ \E k \in Keys : Trusts(j, k) /\ job' = [job EXCEPT ![j].step = "open", ![j].seen = k]
  /\ UNCHANGED <<browser, known, resetting, resets>>

UpdateEnds(j) ==
  /\ At(j, "patch", "open") /\ Frees(j)
  /\ UNCHANGED <<browser, known, resetting, resets>>

RequestEnds(j) ==
  /\ job[j].kind \in Requests /\ job[j].step = "trusted" /\ Frees(j)
  /\ UNCHANGED <<browser, known, resetting, resets>>

-----------------------------------------------------------------------------
(* The reset *)

ResetWipe ==
  /\ browser = "confirmed" /\ ~resetting /\ resets < MaxResets
  /\ known' = NoKey /\ resetting' = TRUE /\ resets' = resets + 1
  /\ job' = Outdated(job)
  /\ UNCHANGED browser

\* Mutant: terminals are not closed.
KeepsTerminals(j) == IF job[j].step = "ticket" THEN Free ELSE job[j]

\* _drop_runtime_credentials: tickets are forgotten, terminals with a transport closed.
Dropped(j) ==
  IF job[j].step = "ticket" THEN Free
  ELSE IF HasTransport(j) THEN [job[j] EXCEPT !.closed = TRUE] ELSE job[j]

ResetDrop ==
  /\ resetting /\ resetting' = FALSE /\ browser' = "none"
  /\ job' = [j \in Jobs |-> IF HasTransport(j) THEN [Dropped(j) EXCEPT !.doomed = TRUE] ELSE Dropped(j)]
  /\ UNCHANGED <<known, resets>>

-----------------------------------------------------------------------------
\* What the program does by itself, in bounded time.
Proceeds(j) ==
  \/ PreparedTerminal(j) \/ PreparedUpdate(j) \/ PreparedRequest(j)
  \/ Enter(j) \/ Connect(j) \/ CheckKey(j) \/ PromptEnds(j) \/ Remember(j) \/ Authenticate(j)
  \/ Probe(j) \/ Query(j) \/ Deploy(j) \/ LookAgain(j) \/ Persist(j) \/ RunUpdate(j)
  \/ job[j].closed /\ (OpenShell(j) \/ TerminalEnds(j))

Next ==
  \/ LoginOrConfirm \/ LogoutOrExpire \/ DeleteKnownHost \/ ResetWipe \/ ResetDrop
  \/ \E j \in Jobs :
       \/ \E kind \in Kinds : Prepare(j, kind)
       \/ PreparedTerminal(j) \/ PreparedUpdate(j) \/ PreparedRequest(j)
       \/ Enter(j) \/ Connect(j) \/ CheckKey(j) \/ PromptEnds(j) \/ Remember(j) \/ Authenticate(j)
       \/ Probe(j) \/ Query(j) \/ Deploy(j) \/ LookAgain(j) \/ Persist(j) \/ RunUpdate(j)
       \/ TicketExpires(j) \/ RedeemTerminal(j) \/ RedeemUpdate(j) \/ Accept(j) \/ RejectOrLeave(j)
       \/ OpenShell(j) \/ TerminalEnds(j) \/ UpdateEnds(j) \/ RequestEnds(j)

Spec == Init /\ [][Next]_vars
\* Connecting, the prompt and authentication have timeouts; the program's own steps follow.
\* A host may leave the request for a shell unanswered for ever, unless its transport is closed.
FairSpec == Spec /\ \A j \in Jobs : WF_vars(Proceeds(j))

-----------------------------------------------------------------------------
(* What must hold *)

(* run_terminal: no more terminals than ssh_max_sessions, whatever number of tickets is
   redeemed at once. *)
TerminalsBounded == Cardinality(Active) <= MaxActive

(* A job that has logged in talks to the host with the stored key, unless the stored key
   changed after the job looked at it (DbKnownHostStore.check, PinnedHostKeyPolicy). *)
StoredKeyHonoured ==
  \A j \in Jobs : job[j].step = "open" /\ job[j].fresh => known \in {NoKey, job[j].seen}

(* The types, the number of terminals and the key each of them talks to. *)
SessionsHold == TypeOK /\ TerminalsBounded /\ StoredKeyHonoured

(* A stored key is replaced by another only when a user confirms that key in a terminal
   whose check had found no key at all: never by a key learned on first contact
   (_persist_captured_host_key), nor by one the check knew to be changed. *)
OnlyConfirmedReplaces ==
  [][known # NoKey /\ known' \notin {known, NoKey} =>
       \E j \in Jobs : At(j, "terminal", "store") /\ job[j].seen = known' /\ ~job[j].fresh]_vars

(* A terminal whose transport was there when a reset forgot what is in memory ends, wherever
   it stands: at the prompt, before its shell or in it (close_all_sessions, #48). *)
ResetEndsTerminals == \A j \in Jobs : job[j].doomed ~> ~job[j].doomed

(* A slot taken by a terminal comes back or gets as far as the request for a shell: a host that
   does not answer the handshake or the login and a user who never answers the prompt cannot
   use up ssh_max_sessions. *)
SlotsComeBack ==
  \A j \in Jobs : j \in Active ~> (job[j].step \in {"shell", "open"} \/ j \notin Active)
=============================================================================
