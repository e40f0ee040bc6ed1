--------------------------------- MODULE Auth ---------------------------------
(***************************************************************************)
(* Who may do what (src/backend/app/api/auth.py, api/setup.py,             *)
(* api/settings.py, services/session_service.py, services/stepup.py).      *)
(*                                                                         *)
(* The wizard's answer, the password and the API tokens are rows of the    *)
(* database; browser sessions, confirmations (grants) and counted attempts *)
(* live in the memory of the one process.  A request reads the password    *)
(* row, judges what it was given, and writes after further awaits:         *)
(* requests interleave with each other, with a reset of the database and   *)
(* with a restart of the process.                                          *)
(*                                                                         *)
(* A session reads the rows when its request starts, keeps them, and its   *)
(* commit updates a row it read (an error when the row is gone) or inserts *)
(* one (an error when the unique key exists by then).                      *)
(* Abstracted: hashing, cookies and headers, and time: a session, a grant  *)
(* and a counted attempt may expire at any moment.                         *)
(***************************************************************************)
EXTENDS Integers, FiniteSets

CONSTANTS
  Requests,      \* slots for requests that take several steps
  Clients,       \* client addresses, for the limit of attempts
  Sessions,      \* session ids; one that nothing refers to stands for a new one
  Words,         \* passwords
  Master,        \* the master token, the password until one is set
  Classes,       \* classes of actions that need the password again
  Credentials, Instance,  \* the classes of API tokens and of the reset
  ApiTokens,     \* ids of API tokens
  Nobody,
  MaxFailures,   \* LOGIN_MAX_FAILURES (5 in the code)
  MaxResets      \* bound: resets of the database

ASSUME RequestsAssumption == IsFiniteSet(Requests)
ASSUME NobodyAssumption == Nobody \notin Clients \cup Sessions \cup Words \cup Classes \cup ApiTokens
ASSUME MasterAssumption == Master \notin Words \cup Sessions /\ Master # Nobody
ASSUME ClassesAssumption == {Credentials, Instance} \subseteq Classes
ASSUME BoundsAssumption == MaxFailures \in Nat \ {0} /\ MaxResets \in Nat

VARIABLES
  setup,       \* the row setup.complete is "true"
  secret,      \* the password as the database has it
  tokens,      \* tokens[t]: the tag of the API token t (see Tags)
  sess,        \* sess[s]: the password session s was made with, and its tag
  grants,      \* <<session, class>> confirmed and not expired
  attempts,    \* attempts[c]: attempts of client c counted within the window
  req,         \* req[r]: what request r read, was given and has reached
  \* auxiliary: not in the program, they only watch it
  resets,      \* resets of the database so far
  guesses,     \* guesses[c]: wrong passwords judged among the counted attempts
  keeper,      \* the session that last changed the password
  spared       \* the last reset failed to delete the API tokens

vars == <<setup, secret, tokens, sess, grants, attempts, req, resets, guesses, keeper, spared>>

(* The password in one of its forms; "master" is no row of its own, the master token
   counts; a row beside a missing master token is of no use until the next setup. *)
Forms == {"none", "master", "plain", "hash"}
Secrets == [form : Forms, word : Words \cup {Master, Nobody}]
NoSecret == [form |-> "none", word |-> Nobody]
Hash(w) == [form |-> "hash", word |-> w]
IsRow(p) == p.form \in {"plain", "hash"}

(* Whether something that gives access belongs to the instance there is: "old" was made
   before the last reset, "late" by a request that was on its way while a reset, or a
   change of the password, took away what it was made from, or by a session that is. *)
Tags == {"none", "current", "old", "late"}
Origins == [word : Words \cup {Master, Nobody}, tag : Tags]
Ended == [word |-> Nobody, tag |-> "none"]
Aged(tag) == IF tag = "current" THEN "old" ELSE tag

(* A request keeps the row it has read; "right": it was given the password in it. *)
Kinds == {"idle", "login", "change", "stepup", "setup", "token", "reset"}
Steps == {"", "judge", "write", "finish"}
RequestStates ==
  [kind : Kinds, step : Steps, client : Clients \cup {Nobody}, by : Sessions \cup {Nobody},
   seen : Secrets, right : BOOLEAN, what : Words \cup Classes \cup ApiTokens \cup {Nobody},
   counted : BOOLEAN, tag : Tags]
Idle == [kind |-> "idle", step |-> "", client |-> Nobody, by |-> Nobody, seen |-> NoSecret,
         right |-> FALSE, what |-> Nobody, counted |-> FALSE, tag |-> "none"]

Callers == Sessions \cup {Master}
Live == {s \in Sessions : sess[s] # Ended}
At(r, kind, step) == req[r].kind = kind /\ req[r].step = step
\* What an update of the row, or its insertion, meets at the commit.
Conflict(r) == IsRow(req[r].seen) # IsRow(secret)
IsNew(s) ==
  /\ s \notin Live /\ s # keeper /\ \A cl \in Classes : <<s, cl>> \notin grants
  /\ \A r \in Requests : req[r].by # s

TypeOK ==
  /\ setup \in BOOLEAN /\ secret \in Secrets
  /\ tokens \in [ApiTokens -> Tags] /\ sess \in [Sessions -> Origins]
  /\ grants \subseteq Sessions \X Classes
  /\ attempts \in [Clients -> 0 .. MaxFailures] /\ guesses \in [Clients -> Nat]
  /\ req \in [Requests -> RequestStates]
  /\ resets \in Nat /\ keeper \in Sessions \cup {Nobody} /\ spared \in BOOLEAN

(* A fresh install, or one of an older version with its password in plain text. *)
Init ==
  /\ \/ setup = FALSE /\ secret = NoSecret
     \/ setup = TRUE /\ secret \in {[form |-> "plain", word |-> w] : w \in Words}
  /\ tokens = [t \in ApiTokens |-> "none"] /\ sess = [s \in Sessions |-> Ended]
  /\ grants = {}
  /\ attempts = [c \in Clients |-> 0] /\ guesses = [c \in Clients |-> 0]
  /\ req = [r \in Requests |-> Idle] /\ resets = 0 /\ keeper = Nobody /\ spared = FALSE

-----------------------------------------------------------------------------
(* Requests of the wizard and of a browser *)

\* The row read together with the master token: there is no password before the setup.
Starts(kind, step, right) ==
  [Idle EXCEPT !.kind = kind, !.step = step, !.tag = "current", !.right = right,
               !.seen = IF right THEN secret ELSE NoSecret]
Moves(r, step) == req' = [req EXCEPT ![r].step = step]
Ends(r) == req' = [req EXCEPT ![r] = Idle]

\* Mutant: attempts are compared with the limit before they are counted.
ReserveUncounted(c) == attempts[c] < MaxFailures /\ UNCHANGED attempts

\* An attempt is counted before the password is looked at, with no await between.
Reserve(c) == attempts[c] < MaxFailures /\ attempts' = [attempts EXCEPT ![c] = @ + 1]

\* A right password: the client's attempts are forgotten, also those still being judged.
Forget(c, q) ==
  /\ attempts' = [attempts EXCEPT ![c] = 0] /\ guesses' = [guesses EXCEPT ![c] = 0]
  /\ req' = [r \in Requests |-> IF q[r].client = c THEN [q[r] EXCEPT !.counted = FALSE] ELSE q[r]]

Wrong(r) ==
  /\ guesses' = IF req[r].counted THEN [guesses EXCEPT ![req[r].client] = @ + 1] ELSE guesses
  /\ Ends(r)

LoginStart(r, c, right) ==
  /\ req[r] = Idle /\ Reserve(c) /\ (right => setup)
  /\ req' = [req EXCEPT ![r] = [Starts("login", "judge", right) EXCEPT !.client = c, !.counted = TRUE]]
  /\ UNCHANGED <<setup, secret, tokens, sess, grants, resets, guesses, keeper, spared>>

\* A hashed password: the session is made with no further await.  A password in plain
\* text, or the master token, is first stored as a hash.
Made(r) ==
  [word |-> IF req[r].kind = "setup" THEN req[r].what ELSE req[r].seen.word, tag |-> req[r].tag]

LoginJudge(r, s) ==
  /\ At(r, "login", "judge") /\ UNCHANGED <<setup, secret, tokens, grants, resets, keeper, spared>>
  /\ \/ ~req[r].right /\ Wrong(r) /\ UNCHANGED <<sess, attempts>>
     \/ /\ req[r].right /\ req[r].seen.form = "hash" /\ IsNew(s)
        /\ sess' = [sess EXCEPT ![s] = Made(r)]
        /\ Forget(req[r].client, [req EXCEPT ![r] = Idle])
     \/ /\ req[r].right /\ req[r].seen.form # "hash"
        /\ Forget(req[r].client, [req EXCEPT ![r].step = "write"]) /\ UNCHANGED sess

\* The session's copy of the row decides, not what the row holds by now.
LoginMigrate(r) ==
  /\ At(r, "login", "write")
  /\ \/ Conflict(r) /\ Ends(r) /\ UNCHANGED <<secret, keeper>>
     \/ /\ ~Conflict(r) /\ secret' = Hash(req[r].seen.word) /\ keeper' = Nobody
        /\ Moves(r, "finish")
  /\ UNCHANGED <<setup, tokens, sess, grants, attempts, resets, guesses, spared>>

\* The session of a migrated login and the one the wizard ends with.
IssueSession(r, s) ==
  /\ req[r].kind \in {"login", "setup"} /\ req[r].step = "finish" /\ IsNew(s)
  /\ sess' = [sess EXCEPT ![s] = Made(r)] /\ Ends(r)
  /\ UNCHANGED <<setup, secret, tokens, grants, attempts, resets, guesses, keeper, spared>>

Logout(s) ==
  /\ s \in Live /\ sess' = [sess EXCEPT ![s] = Ended]
  /\ UNCHANGED <<setup, secret, tokens, grants, attempts, req, resets, guesses, keeper, spared>>

\* The present password is asked for, and judged at once; a wrong one is not counted.
ChangeStart(r, s, new) ==
  /\ req[r] = Idle /\ setup /\ s \in Live
  /\ \/ /\ new # secret.word
        /\ req' = [req EXCEPT ![r] = [Starts("change", "write", TRUE) EXCEPT !.by = s, !.what = new]]
     \/ req' = [req EXCEPT ![r] = Starts("change", "judge", FALSE)]
  /\ UNCHANGED <<setup, secret, tokens, sess, grants, attempts, resets, guesses, keeper, spared>>

\* The refusal is put into the audit log, and answered.
ChangeRefused(r) ==
  /\ At(r, "change", "judge") /\ Ends(r)
  /\ UNCHANGED <<setup, secret, tokens, sess, grants, attempts, resets, guesses, keeper, spared>>

ChangeCommit(r) ==
  /\ At(r, "change", "write")
  /\ \/ Conflict(r) /\ Ends(r) /\ UNCHANGED <<secret, keeper>>
     \/ /\ ~Conflict(r)
        /\ secret' = Hash(req[r].what) /\ keeper' = req[r].by /\ Moves(r, "finish")
  /\ UNCHANGED <<setup, tokens, sess, grants, attempts, resets, guesses, spared>>

\* Logins that have judged the former password and wait for something are overtaken.
OvertakenBy(r) ==
  [q \in Requests |-> IF req[q].kind = "idle" \/ q = r THEN Idle ELSE [req[q] EXCEPT !.tag = "late"]]

\* Mutant: expired sessions are dropped instead of the other ones.
EndExpired(keep) == sess

EndOthers(keep) == [s \in Sessions |-> IF s = keep THEN sess[s] ELSE Ended]

ChangeEnd(r) ==
  /\ At(r, "change", "finish")
  /\ sess' = EndOthers(req[r].by) /\ req' = OvertakenBy(r)
  /\ UNCHANGED <<setup, secret, tokens, grants, attempts, resets, guesses, keeper, spared>>

\* The password again, for one class of actions: counted like a login.
StepUpStart(r, s, c, right, cl) ==
  /\ req[r] = Idle /\ setup /\ s \in Live /\ Reserve(c)
  /\ req' = [req EXCEPT ![r] = [Starts("stepup", "judge", right) EXCEPT
               !.client = c, !.by = s, !.what = cl, !.counted = TRUE]]
  /\ UNCHANGED <<setup, secret, tokens, sess, grants, resets, guesses, keeper, spared>>

StepUpJudge(r) ==
  /\ At(r, "stepup", "judge")
  /\ \/ ~req[r].right /\ Wrong(r) /\ UNCHANGED attempts
     \/ req[r].right /\ Forget(req[r].client, [req EXCEPT ![r].step = "finish"])
  /\ UNCHANGED <<setup, secret, tokens, sess, grants, resets, keeper, spared>>

\* The length of the grant is read first; whether the session still lives is not asked.
Grant(r) ==
  /\ At(r, "stepup", "finish")
  /\ grants' = grants \cup {<<req[r].by, req[r].what>>} /\ Ends(r)
  /\ UNCHANGED <<setup, secret, tokens, sess, attempts, resets, guesses, keeper, spared>>

\* The routes of class cl ask a live session for a grant; the bearer of the master token
\* needs none.
Confirmed(by, cl) == setup /\ (by = Master \/ (by \in Live /\ <<by, cl>> \in grants))
\* What a caller makes is no more of this instance than the caller is.
TagOf(by) == IF by = Master \/ sess[by].tag = "current" THEN "current" ELSE "late"

SetupStart(r, w) ==
  /\ req[r] = Idle /\ ~setup
  /\ req' = [req EXCEPT ![r] = [Starts("setup", "write", FALSE) EXCEPT !.what = w]]
  /\ UNCHANGED <<setup, secret, tokens, sess, grants, attempts, resets, guesses, keeper, spared>>

\* Mutant: the row is updated when it exists by then.
UpdatedWhenFinished == FALSE

\* The row setup.complete is inserted: its key is unique, the second wizard fails.
AlreadyFinished == setup

SetupSave(r) ==
  /\ At(r, "setup", "write") /\ UNCHANGED <<tokens, sess, grants, attempts, resets, guesses, spared>>
  /\ \/ AlreadyFinished /\ Ends(r) /\ UNCHANGED <<setup, secret, keeper>>
     \/ /\ ~AlreadyFinished /\ setup' = TRUE /\ keeper' = Nobody
        /\ \/ req[r].what # Nobody /\ secret' = Hash(req[r].what) /\ Moves(r, "finish")
           \/ /\ req[r].what = Nobody /\ Ends(r)
              /\ secret' = IF IsRow(secret) THEN secret ELSE [form |-> "master", word |-> Master]

\* API tokens themselves may not manage tokens.
CreateTokenStart(r, by, t) ==
  /\ req[r] = Idle /\ Confirmed(by, Credentials) /\ tokens[t] = "none"
  /\ \A q \in Requests : req[q].what # t
  /\ req' = [req EXCEPT ![r] = [Starts("token", "write", FALSE) EXCEPT !.what = t, !.tag = TagOf(by)]]
  /\ UNCHANGED <<setup, secret, tokens, sess, grants, attempts, resets, guesses, keeper, spared>>

CreateTokenCommit(r) ==
  /\ At(r, "token", "write") /\ tokens' = [tokens EXCEPT ![req[r].what] = req[r].tag] /\ Ends(r)
  /\ UNCHANGED <<setup, secret, sess, grants, attempts, resets, guesses, keeper, spared>>

DeleteToken(by, t) ==
  /\ Confirmed(by, Credentials) /\ tokens[t] # "none" /\ tokens' = [tokens EXCEPT ![t] = "none"]
  /\ UNCHANGED <<setup, secret, sess, grants, attempts, req, resets, guesses, keeper, spared>>

-----------------------------------------------------------------------------
(* The reset: everything in the database, then what is in memory *)

ResetStart(r, by) ==
  /\ req[r] = Idle /\ Confirmed(by, Instance) /\ resets < MaxResets
  /\ \A q \in Requests : req[q].kind # "reset"
  /\ req' = [req EXCEPT ![r] = Starts("reset", "write", FALSE)]
  /\ UNCHANGED <<setup, secret, tokens, sess, grants, attempts, resets, guesses, keeper, spared>>

\* The wipe, or the deletion of setup.complete, raises: it is rolled back, nothing is dropped.
ResetFails(r) ==
  /\ At(r, "reset", "write") /\ Ends(r)
  /\ UNCHANGED <<setup, secret, tokens, sess, grants, attempts, resets, guesses, keeper, spared>>

\* Mutant: api_tokens is not among the tables.
TokensForgotten(fails) == [t \in ApiTokens |-> Aged(tokens[t])]

\* The first of the tables is api_tokens: when its DELETE fails (the database is locked too
\* long), that is skipped and the rest is wiped all the same.
TokensAfter(fails) == [t \in ApiTokens |-> IF fails THEN Aged(tokens[t]) ELSE "none"]

ResetWipe(r, fails) ==
  /\ At(r, "reset", "write")
  /\ setup' = FALSE /\ secret' = NoSecret /\ tokens' = TokensAfter(fails) /\ spared' = fails
  /\ resets' = resets + 1 /\ keeper' = Nobody
  /\ req' = [OvertakenBy(r) EXCEPT ![r] = [req[r] EXCEPT !.step = "finish"]]
  /\ sess' = [s \in Sessions |-> [sess[s] EXCEPT !.tag = Aged(@)]]
  /\ UNCHANGED <<grants, attempts, guesses>>

\* After the commit; requests that wait for something are not reached.
ResetDrop(r) ==
  /\ At(r, "reset", "finish")
  /\ sess' = [s \in Sessions |-> Ended] /\ grants' = {}
  /\ req' = OvertakenBy(r)
  /\ UNCHANGED <<setup, secret, tokens, attempts, resets, guesses, keeper, spared>>

-----------------------------------------------------------------------------
(* Time and the process *)

\* The oldest counted attempt of a client leaves the window: one judged wrong, or one
\* still being judged.
AttemptExpires(c) ==
  /\ attempts[c] > 0 /\ attempts' = [attempts EXCEPT ![c] = @ - 1]
  /\ \/ guesses[c] > 0 /\ guesses' = [guesses EXCEPT ![c] = @ - 1] /\ UNCHANGED req
     \/ \E r \in Requests : /\ req[r].client = c /\ req[r].counted
                            /\ req' = [req EXCEPT ![r].counted = FALSE] /\ UNCHANGED guesses
  /\ UNCHANGED <<setup, secret, tokens, sess, grants, resets, keeper, spared>>

GrantExpires(g) ==
  /\ g \in grants /\ grants' = grants \ {g}
  /\ UNCHANGED <<setup, secret, tokens, sess, attempts, req, resets, guesses, keeper, spared>>

\* Everything in memory is gone, requests on their way included.
Restart ==
  /\ sess' = [s \in Sessions |-> Ended] /\ grants' = {} /\ keeper' = Nobody
  /\ req' = [r \in Requests |-> Idle]
  /\ attempts' = [c \in Clients |-> 0] /\ guesses' = [c \in Clients |-> 0]
  /\ UNCHANGED <<setup, secret, tokens, resets, spared>>

Next ==
  \/ \E r \in Requests :
       \/ \E c \in Clients, right \in BOOLEAN : LoginStart(r, c, right)
       \/ \E s \in Sessions : LoginJudge(r, s) \/ IssueSession(r, s)
       \/ LoginMigrate(r) \/ ChangeRefused(r) \/ ChangeCommit(r) \/ ChangeEnd(r)
       \/ StepUpJudge(r) \/ Grant(r) \/ SetupSave(r) \/ CreateTokenCommit(r)
       \/ \E by \in Callers : ResetStart(r, by)
       \/ ResetFails(r) \/ ResetDrop(r)
       \/ \E fails \in BOOLEAN : ResetWipe(r, fails)
       \/ \E s \in Sessions, new \in Words : ChangeStart(r, s, new)
       \/ \E s \in Sessions, c \in Clients, right \in BOOLEAN, cl \in Classes :
            StepUpStart(r, s, c, right, cl)
       \/ \E w \in Words \cup {Nobody} : SetupStart(r, w)
       \/ \E by \in Callers, t \in ApiTokens : CreateTokenStart(r, by, t)
  \/ \E s \in Sessions : Logout(s)
  \/ \E by \in Callers, t \in ApiTokens : DeleteToken(by, t)
  \/ \E c \in Clients : AttemptExpires(c)
  \/ \E g \in grants : GrantExpires(g)
  \/ Restart

Spec == Init /\ [][Next]_vars

-----------------------------------------------------------------------------
(* What must hold *)

(* The types and the limit: however many logins and confirmations of one address are being
   judged at once, no more than the limit of wrong passwords counts within a window
   (_reserve_login_attempt reserves first). *)
GuessesBounded == TypeOK /\ \A c \in Clients : guesses[c] <= MaxFailures

(* "logs out every other browser session" (change_password): once a change is through,
   every session but the changer's was made with the new password, except one whose
   login had read the former password and was still on its way. *)
PasswordChangeEndsOthers ==
  (\A r \in Requests : ~At(r, "change", "finish")) =>
    \A s \in Live : keeper # Nobody /\ s # keeper /\ sess[s].tag # "late" => sess[s].word = secret.word

(* After a reset nothing of the former instance gives access (settings.py:305-306): no
   session, and no API token unless the DELETE of the tokens failed and was skipped.  What
   was being made while the reset ran is "late", and so is what a late session makes. *)
ResetEndsAll ==
  (\A r \in Requests : ~At(r, "reset", "finish")) =>
    /\ \A s \in Sessions : sess[s].tag # "old"
    /\ \A t \in ApiTokens : tokens[t] = "old" => spared

(* Once the setup is complete, the password is replaced only by a request that gave the
   password it had read: the wizard's second call never replaces it. *)
OnlyKnownReplaces ==
  [][setup /\ setup' /\ secret' # secret =>
       \E r \in Requests : req[r].kind \in {"login", "change"} /\ req[r].right /\ req'[r] # req[r]]_vars
=============================================================================
