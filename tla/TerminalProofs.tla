--------------------------- MODULE TerminalProofs ---------------------------
(***************************************************************************)
(* Proofs about Terminal for any number of jobs, keys, slots and resets.   *)
(* Nearly every step changes one job and leaves the stored key alone, so   *)
(* the invariant speaks of one job and the stored key: Sound.              *)
(***************************************************************************)
EXTENDS Terminal, FiniteSetTheorems, TLAPS

USE KeysAssumption, BoundsAssumption

\* A job is of its type; only a terminal with a transport is closed, or doomed by a reset.
Typed(s) ==
  /\ s \in JobStates
  /\ s.closed \/ s.doomed =>
       s.kind = "terminal" /\ s.step \in {"check", "asked", "store", "trusted", "shell", "open"}

\* A slot without a job is at no step.
IdleFree(s) == s.kind = "idle" => s.step = ""

\* What a job knows of the host's key: a job that learns a key had none pinned, one that
\* goes on is pinned to what it met.
Keyed(s) ==
  /\ s.step \in {"check", "asked", "learned", "store", "trusted", "shell", "open"} => s.seen \in Keys
  /\ s.step = "learned" => s.kind # "terminal"
  /\ s.step = "shell" => s.kind = "terminal"
  /\ s.kind # "terminal" =>
       /\ s.step \in {"learned", "store"} => s.pinned = NoKey
       /\ s.step \in {"trusted", "open"} => s.pinned = s.seen

\* While the stored key k stays what it was at a job's look, the job agrees with it: it
\* asks and stores only where there is none.
Agrees(s, k) ==
  s.fresh =>
    /\ s.step \in {"asked", "learned", "store"} => k = NoKey
    /\ s.step = "store" => s.pinned = NoKey
    /\ s.kind # "terminal" /\ s.step \in {"ticket", "connecting"} => s.pinned = k
    /\ s.step \in {"trusted", "shell", "open"} => k \in {NoKey, s.seen}

Sound(s, k) == Typed(s) /\ IdleFree(s) /\ Keyed(s) /\ Agrees(s, k)

Globals ==
  /\ browser \in {"none", "live", "confirmed"} /\ known \in Keys \cup {NoKey}
  /\ resetting \in BOOLEAN /\ resets \in 0 .. MaxResets
  /\ job \in [Jobs -> JobStates]

JobsInv == \A j \in Jobs : Sound(job[j], known)

Inv == Globals /\ JobsInv

-----------------------------------------------------------------------------
(* Lemmas about a job *)

LEMMA FreeSound == ASSUME NEW k PROVE Sound(Free, k)
BY DEF Sound, Typed, IdleFree, Keyed, Agrees, Free, JobStates, Kinds, Steps

\* A job whose look is outdated agrees with any key.
LEMMA OutdatedSound ==
  ASSUME NEW s, NEW k, NEW l, Sound(s, k)
  PROVE  Sound([s EXCEPT !.fresh = FALSE], l)
<1> DEFINE t == [s EXCEPT !.fresh = FALSE]
<1>0. s \in JobStates
  BY DEF Sound, Typed
<1>1. t \in JobStates
  BY <1>0 DEF JobStates
<1>2. /\ t.kind = s.kind /\ t.step = s.step /\ t.pinned = s.pinned /\ t.seen = s.seen
      /\ t.closed = s.closed /\ t.doomed = s.doomed /\ ~t.fresh
  BY <1>0 DEF JobStates
<1> HIDE DEF t
<1>4. Sound(t, l)
  BY <1>1, <1>2 DEF Sound, Typed, IdleFree, Keyed, Agrees
<1> QED
  BY <1>4 DEF t

\* A step that changes the job j alone keeps the invariant if what it makes of j is sound.
LEMMA OneJob ==
  ASSUME Inv, NEW j \in Jobs, NEW s, job' = [job EXCEPT ![j] = s], Sound(s, known),
         UNCHANGED <<browser, known, resetting, resets>>
  PROVE  Inv'
<1>1. s \in JobStates
  BY DEF Sound, Typed
<1>2. job' \in [Jobs -> JobStates]
  BY <1>1 DEF Inv, Globals
<1>3. \A i \in Jobs : Sound(job[i], known)
  BY DEF Inv, JobsInv
<1>4. \A i \in Jobs : job'[i] = IF i = j THEN s ELSE job[i]
  BY DEF Inv, Globals
<1>5. \A i \in Jobs : Sound(job'[i], known)
  BY <1>3, <1>4
<1> QED
  BY <1>2, <1>5 DEF Inv, Globals, JobsInv

\* One that ends a job keeps it.
LEMMA JobEnds ==
  ASSUME Inv, NEW j \in Jobs, Frees(j), UNCHANGED <<browser, known, resetting, resets>>
  PROVE  Inv'
BY FreeSound, OneJob DEF Frees

-----------------------------------------------------------------------------
(* One lemma for each step of a job that does not end it *)

\* What the invariant says of a job that takes a step.
LEMMA JobFacts ==
  ASSUME Inv, NEW j \in Jobs
  PROVE  Sound(job[j], known) /\ job[j] \in JobStates /\ known \in Keys \cup {NoKey}
BY DEF Inv, JobsInv, Globals

LEMMA PrepareInv ==
  ASSUME Inv, NEW j \in Jobs, NEW kind \in Kinds, Prepare(j, kind)
  PROVE  Inv'
<1> DEFINE s == [Free EXCEPT !.kind = kind, !.step = "prepare"]
<1>1. Sound(s, known)
  BY DEF Prepare, Free, Kinds, Steps, Sound, Typed, IdleFree, Keyed, Agrees, JobStates
<1> QED
  BY <1>1, OneJob DEF Prepare

\* A job moves on to a step that its guard allows.
LEMMA TerminalMoves ==
  ASSUME Inv, NEW j \in Jobs, NEW own \in BOOLEAN, NEW step \in {"ticket", "admitted", "connecting"},
         job[j].kind = "terminal", job[j].step \in {"prepare", "ticket", "admitted"},
         job' = [job EXCEPT ![j] = [job[j] EXCEPT !.step = step, !.own = own]],
         UNCHANGED <<browser, known, resetting, resets>>
  PROVE  Inv'
<1>1. Sound([job[j] EXCEPT !.step = step, !.own = own], known)
  BY JobFacts DEF Steps, Sound, Typed, IdleFree, Keyed, Agrees, JobStates
<1> QED
  BY <1>1, OneJob

LEMMA PreparedTerminalInv ==
  ASSUME Inv, NEW j \in Jobs, PreparedTerminal(j)
  PROVE  Inv'
<1>1. CASE Frees(j)
  BY <1>1, JobEnds DEF PreparedTerminal
<1>2. CASE ~Frees(j)
  BY <1>2, TerminalMoves, JobFacts DEF PreparedTerminal, At
<1> QED
  BY <1>1, <1>2

LEMMA RedeemTerminalInv ==
  ASSUME Inv, NEW j \in Jobs, RedeemTerminal(j)
  PROVE  Inv'
BY TerminalMoves, JobFacts DEF RedeemTerminal, At

\* The look at the stored key.
LEMMA LookedInv ==
  ASSUME Inv, NEW j \in Jobs, NEW step \in {"ticket", "connecting"}, Looked(j, step),
         job[j].kind \in {"patch", "query", "deploy"}, job[j].step = "prepare",
         UNCHANGED <<browser, known, resetting, resets>>
  PROVE  Inv'
<1> DEFINE s == [job[j] EXCEPT !.step = step, !.pinned = known, !.fresh = TRUE]
<1>1. Sound(s, known)
  BY JobFacts DEF Steps, Sound, Typed, IdleFree, Keyed, Agrees, JobStates
<1> QED
  BY <1>1, OneJob DEF Looked

LEMMA PreparedInv ==
  ASSUME Inv, NEW j \in Jobs, PreparedUpdate(j) \/ PreparedRequest(j)
  PROVE  Inv'
<1>1. CASE Frees(j)
  BY <1>1, JobEnds DEF PreparedUpdate, PreparedRequest
<1>2. CASE ~Frees(j)
  BY <1>2, LookedInv DEF PreparedUpdate, PreparedRequest, At, Requests
<1> QED
  BY <1>1, <1>2

LEMMA RedeemUpdateInv ==
  ASSUME Inv, NEW j \in Jobs, RedeemUpdate(j)
  PROVE  Inv'
<1>1. Sound([job[j] EXCEPT !.step = "connecting"], known)
  BY JobFacts DEF RedeemUpdate, At, Steps, Sound, Typed, IdleFree, Keyed, Agrees, JobStates
<1> QED
  BY <1>1, OneJob DEF RedeemUpdate, Moves

LEMMA EnterInv ==
  ASSUME Inv, NEW j \in Jobs, Enter(j)
  PROVE  Inv'
<1>1. CASE Frees(j)
  BY <1>1, JobEnds DEF Enter
<1>2. CASE ~Frees(j)
  <2>1. Sound([job[j] EXCEPT !.step = "connecting"], known)
    BY JobFacts DEF Enter, At, Steps, Sound, Typed, IdleFree, Keyed, Agrees, JobStates
  <2> QED
    BY <1>2, <2>1, OneJob DEF Enter, Moves
<1> QED
  BY <1>1, <1>2

LEMMA ConnectInv ==
  ASSUME Inv, NEW j \in Jobs, Connect(j)
  PROVE  Inv'
<1>1. CASE Frees(j)
  BY <1>1, JobEnds DEF Connect
<1>2. CASE ~Frees(j)
  <2>1. PICK k \in Keys : job' = [job EXCEPT ![j] = [job[j] EXCEPT !.step = "check", !.seen = k]]
    BY <1>2 DEF Connect
  <2>2. Sound([job[j] EXCEPT !.step = "check", !.seen = k], known)
    BY JobFacts DEF Connect, At, Steps, Sound, Typed, IdleFree, Keyed, Agrees, JobStates
  <2> QED
    BY <2>1, <2>2, OneJob DEF Connect
<1> QED
  BY <1>1, <1>2

\* A check that finds the key met makes the job agree, one that finds none lets it ask.
LEMMA CheckKeyInv ==
  ASSUME Inv, NEW j \in Jobs, CheckKey(j)
  PROVE  Inv'
<1>1. CASE Verdict(job[j].seen) = "changed"
  BY <1>1, JobEnds DEF CheckKey
<1>2. CASE Verdict(job[j].seen) # "changed"
  <2>1. PICK step \in {"trusted", "asked"} :
          /\ job' = [job EXCEPT ![j] = [job[j] EXCEPT !.fresh = TRUE, !.step = step]]
          /\ known = (IF step = "trusted" THEN job[j].seen ELSE NoKey)
    BY <1>2, JobFacts DEF CheckKey, Verdict
  <2>2. Sound([job[j] EXCEPT !.fresh = TRUE, !.step = step], known)
    <3>1. CASE step = "trusted"
      BY <2>1, <3>1, JobFacts DEF CheckKey, At, Steps, Sound, Typed, IdleFree, Keyed, Agrees, JobStates
    <3>2. CASE step = "asked"
      BY <2>1, <3>2, JobFacts DEF CheckKey, At, Steps, Sound, Typed, IdleFree, Keyed, Agrees, JobStates
    <3> QED
      BY <3>1, <3>2
  <2> QED
    BY <2>1, <2>2, OneJob DEF CheckKey
<1> QED
  BY <1>1, <1>2

LEMMA AcceptInv ==
  ASSUME Inv, NEW j \in Jobs, Accept(j)
  PROVE  Inv'
<1>1. Sound([job[j] EXCEPT !.step = "store", !.pinned = known], known)
  BY JobFacts DEF Accept, At, Steps, Sound, Typed, IdleFree, Keyed, Agrees, JobStates
<1> QED
  BY <1>1, OneJob DEF Accept

LEMMA AuthenticateInv ==
  ASSUME Inv, NEW j \in Jobs, Authenticate(j)
  PROVE  Inv'
<1>1. CASE Frees(j)
  BY <1>1, JobEnds DEF Authenticate
<1>2. CASE ~Frees(j)
  <2>1. Sound([job[j] EXCEPT !.step = "shell"], known)
    BY JobFacts DEF Authenticate, At, Steps, Sound, Typed, IdleFree, Keyed, Agrees, JobStates
  <2> QED
    BY <1>2, <2>1, OneJob DEF Authenticate, Moves
<1> QED
  BY <1>1, <1>2

LEMMA OpenShellInv ==
  ASSUME Inv, NEW j \in Jobs, OpenShell(j)
  PROVE  Inv'
<1>1. CASE Frees(j)
  BY <1>1, JobEnds DEF OpenShell
<1>2. CASE ~Frees(j)
  <2>1. Sound([job[j] EXCEPT !.step = "open"], known)
    BY JobFacts DEF OpenShell, At, Steps, Sound, Typed, IdleFree, Keyed, Agrees, JobStates
  <2> QED
    BY <1>2, <2>1, OneJob DEF OpenShell, Moves
<1> QED
  BY <1>1, <1>2

\* A host is met with the key that is pinned, or a key is learned.
LEMMA MeetsInv ==
  ASSUME Inv, NEW j \in Jobs, Probe(j) \/ Query(j) \/ Deploy(j)
  PROVE  Inv'
<1>1. CASE Frees(j)
  BY <1>1, JobEnds DEF Probe, Query, Deploy
<1>2. CASE ~Frees(j)
  <2>1. PICK k \in Keys : Meets(j, k)
    BY <1>2 DEF Probe, Query, Deploy
  <2>2. job[j].kind # "terminal" /\ job[j].kind # "idle" /\ job[j].step = "connecting"
    BY DEF Probe, Query, Deploy, At
  <2>3. PICK step \in {"learned", "trusted"} :
          /\ job' = [job EXCEPT ![j] = [job[j] EXCEPT !.seen = k, !.step = step]]
          /\ job[j].pinned = (IF step = "learned" THEN NoKey ELSE k)
    BY <2>1 DEF Meets, Trusts
  <2>4. Sound([job[j] EXCEPT !.seen = k, !.step = step], known)
    <3>1. CASE step = "learned"
      BY <2>2, <2>3, <3>1, JobFacts DEF Steps, Sound, Typed, IdleFree, Keyed, Agrees, JobStates
    <3>2. CASE step = "trusted"
      BY <2>2, <2>3, <3>2, JobFacts DEF Steps, Sound, Typed, IdleFree, Keyed, Agrees, JobStates
    <3> QED
      BY <3>1, <3>2
  <2> QED
    BY <2>3, <2>4, OneJob DEF Probe, Query, Deploy
<1> QED
  BY <1>1, <1>2

LEMMA LookAgainInv ==
  ASSUME Inv, NEW j \in Jobs, LookAgain(j)
  PROVE  Inv'
<1>1. CASE known # NoKey
  <2>1. Sound([job[j] EXCEPT !.step = "trusted", !.pinned = job[j].seen], known)
    BY <1>1, JobFacts DEF LookAgain, Steps, Sound, Typed, IdleFree, Keyed, Agrees, JobStates
  <2> QED
    BY <1>1, <2>1, OneJob DEF LookAgain
<1>2. CASE known = NoKey
  <2>1. Sound([job[j] EXCEPT !.step = "store"], known)
    BY <1>2, JobFacts DEF LookAgain, Steps, Sound, Typed, IdleFree, Keyed, Agrees, JobStates
  <2> QED
    BY <1>2, <2>1, OneJob DEF LookAgain
<1> QED
  BY <1>1, <1>2

\* The update connects to the key pinned by now.
LEMMA RunUpdateInv ==
  ASSUME Inv, NEW j \in Jobs, RunUpdate(j)
  PROVE  Inv'
<1>1. CASE Frees(j)
  BY <1>1, JobEnds DEF RunUpdate
<1>2. CASE ~Frees(j)
  <2>1. PICK k \in Keys :
          Trusts(j, k) /\ job' = [job EXCEPT ![j] = [job[j] EXCEPT !.step = "open", !.seen = k]]
    BY <1>2 DEF RunUpdate
  <2>2. job[j].kind = "patch" /\ job[j].step = "trusted" /\ job[j].pinned = k /\ job[j].seen = k
    BY <2>1, JobFacts DEF RunUpdate, Trusts, At, Sound, Keyed
  <2>3. Sound([job[j] EXCEPT !.step = "open", !.seen = k], known)
    BY <2>2, JobFacts DEF Steps, Sound, Typed, IdleFree, Keyed, Agrees, JobStates
  <2> QED
    BY <2>1, <2>3, OneJob DEF RunUpdate
<1> QED
  BY <1>1, <1>2

LEMMA EndsInv ==
  ASSUME Inv, NEW j \in Jobs,
         \/ PromptEnds(j) \/ RejectOrLeave(j) \/ TicketExpires(j)
         \/ TerminalEnds(j) \/ UpdateEnds(j) \/ RequestEnds(j)
  PROVE  Inv'
BY JobEnds DEF PromptEnds, RejectOrLeave, TicketExpires, TerminalEnds, UpdateEnds, RequestEnds

-----------------------------------------------------------------------------
(* Steps that change the stored key, or every job *)

\* Whoever stores a key outdates the look of every other job; a job that stores it is sound
\* with the key it stored.
LEMMA StoredInv ==
  ASSUME Inv, NEW j \in Jobs, NEW k \in Keys, NEW s \in JobStates,
         Sound(s, k), Stored(j, k, [job EXCEPT ![j] = s]),
         UNCHANGED <<browser, resetting, resets>>
  PROVE  Inv'
<1>1. CASE k = known
  BY <1>1, OneJob DEF Stored
<1>2. CASE k # known
  <2>1. \A i \in Jobs : job'[i] = IF i = j THEN s ELSE [job[i] EXCEPT !.fresh = FALSE]
    BY <1>2 DEF Stored, Outdated, Inv, Globals
  <2>2. \A i \in Jobs : Sound([job[i] EXCEPT !.fresh = FALSE], k)
    BY JobFacts, OutdatedSound
  <2>3. \A i \in Jobs : Sound(job'[i], k)
    BY <2>1, <2>2
  <2>4. DOMAIN job' = Jobs /\ job' = [i \in Jobs |-> job'[i]] /\ known' = k
    BY <1>2 DEF Stored, Outdated, Inv, Globals
  <2>5. job' \in [Jobs -> JobStates]
    BY <2>3, <2>4 DEF Sound, Typed
  <2> QED
    BY <2>3, <2>4, <2>5 DEF Inv, Globals, JobsInv
<1> QED
  BY <1>1, <1>2

\* The user's key is stored: over none if the look is fresh.
LEMMA RememberInv ==
  ASSUME Inv, NEW j \in Jobs, Remember(j)
  PROVE  Inv'
<1>1. CASE (job[j].pinned = NoKey) # (known = NoKey)
  BY <1>1, JobEnds DEF Remember
<1>2. CASE (job[j].pinned = NoKey) = (known = NoKey)
  <2> DEFINE k == IF job[j].pinned = job[j].seen THEN known ELSE job[j].seen
             s == [job[j] EXCEPT !.step = "trusted", !.pinned = NoKey]
  <2>0. /\ job[j].kind = "terminal" /\ job[j].step = "store" /\ job[j].seen \in Keys
        /\ job[j].fresh => known = NoKey /\ job[j].pinned = NoKey
    BY JobFacts DEF Remember, At, Sound, Keyed, Agrees
  <2>1. k \in Keys /\ (job[j].fresh => k = job[j].seen)
    BY <1>2, <2>0, JobFacts
  <2> HIDE DEF k
  <2>2. s \in JobStates /\ Sound(s, k)
    BY <2>0, <2>1, JobFacts DEF Steps, Sound, Typed, IdleFree, Keyed, Agrees, JobStates
  <2>3. Stored(j, k, [job EXCEPT ![j] = s])
    BY <1>2 DEF Remember, k
  <2> QED
    BY <2>1, <2>2, <2>3, StoredInv DEF Remember
<1> QED
  BY <1>1, <1>2

LEMMA PersistInv ==
  ASSUME Inv, NEW j \in Jobs, Persist(j)
  PROVE  Inv'
<1>1. CASE ~Persists(j)
  BY <1>1, JobEnds DEF Persist
<1>2. CASE Persists(j)
  <2> DEFINE s == [job[j] EXCEPT !.step = "trusted", !.pinned = job[j].seen]
  <2>1. job[j].seen \in Keys /\ s \in JobStates /\ Sound(s, job[j].seen)
    BY <1>2, JobFacts DEF Persist, Steps, Sound, Typed, IdleFree, Keyed, Agrees, JobStates
  <2>2. Stored(j, job[j].seen, [job EXCEPT ![j] = s])
    BY <1>2 DEF Persist
  <2> QED
    BY <2>1, <2>2, StoredInv DEF Persist
<1> QED
  BY <1>1, <1>2

LEMMA BrowserInv ==
  ASSUME Inv, LoginOrConfirm \/ LogoutOrExpire
  PROVE  Inv'
BY DEF LoginOrConfirm, LogoutOrExpire, Inv, Globals, JobsInv

LEMMA DeleteInv ==
  ASSUME Inv, DeleteKnownHost
  PROVE  Inv'
<1>1. \A i \in Jobs : job'[i] = [job[i] EXCEPT !.fresh = FALSE]
  BY DEF DeleteKnownHost, Outdated
<1>2. ASSUME NEW i \in Jobs PROVE Sound(job'[i], NoKey)
  <2>1. Sound([job[i] EXCEPT !.fresh = FALSE], NoKey)
    BY JobFacts, OutdatedSound
  <2> QED
    BY <1>1, <2>1
<1>3. job' \in [Jobs -> JobStates]
  BY <1>2 DEF DeleteKnownHost, Outdated, Sound, Typed
<1> QED
  BY <1>2, <1>3 DEF DeleteKnownHost, Inv, Globals, JobsInv

\* The stored key is gone, so every look is outdated.
LEMMA WipeInv ==
  ASSUME Inv, ResetWipe
  PROVE  Inv'
<1>1. \A i \in Jobs : job'[i] = [job[i] EXCEPT !.fresh = FALSE]
  BY DEF ResetWipe, Outdated
<1>2. ASSUME NEW i \in Jobs PROVE Sound(job'[i], NoKey)
  <2>1. Sound([job[i] EXCEPT !.fresh = FALSE], NoKey)
    BY JobFacts, OutdatedSound
  <2> QED
    BY <1>1, <2>1
<1>3. job' \in [Jobs -> JobStates]
  BY <1>2 DEF ResetWipe, Outdated, Sound, Typed
<1>4. browser' = browser /\ known' = NoKey /\ resetting' = TRUE /\ resets' \in 0 .. MaxResets
  BY DEF ResetWipe, Inv, Globals
<1> QED
  BY <1>2, <1>3, <1>4 DEF Inv, Globals, JobsInv

\* A reset ends tickets and closes terminals that have a transport; nothing else changes.
LEMMA DropInv ==
  ASSUME Inv, ResetDrop
  PROVE  Inv'
<1>1. ASSUME NEW i \in Jobs PROVE Sound(job'[i], known)
  <2>1. CASE HasTransport(i)
    <3> DEFINE t == [job[i] EXCEPT !.closed = TRUE, !.doomed = TRUE]
    <3>1. job[i].step # "ticket" /\ job[i].kind = "terminal"
          /\ job[i].step \in {"check", "asked", "store", "trusted", "shell", "open"}
      BY <2>1 DEF HasTransport, Active
    <3>2. job'[i] = t
      BY <2>1, <3>1 DEF ResetDrop, Dropped
    <3>3. t \in JobStates
      BY JobFacts DEF JobStates
    <3>4. /\ t.kind = job[i].kind /\ t.step = job[i].step /\ t.pinned = job[i].pinned
          /\ t.seen = job[i].seen /\ t.fresh = job[i].fresh
      BY JobFacts DEF JobStates
    <3> HIDE DEF t
    <3>5. Sound(t, known)
      BY <3>1, <3>3, <3>4, JobFacts DEF Sound, Typed, IdleFree, Keyed, Agrees
    <3> QED
      BY <3>2, <3>5
  <2>2. CASE ~HasTransport(i)
    BY <2>2, JobFacts, FreeSound DEF ResetDrop, Dropped
  <2> QED
    BY <2>1, <2>2
<1>2. \A i \in Jobs : Sound(job'[i], known)
  BY <1>1
<1>3. job' \in [Jobs -> JobStates]
  BY <1>2 DEF ResetDrop, Sound, Typed
<1> QED
  BY <1>2, <1>3 DEF ResetDrop, Inv, Globals, JobsInv

-----------------------------------------------------------------------------
(* The invariant *)

LEMMA InvInit == Init => Inv
<1> SUFFICES ASSUME Init PROVE Inv
  OBVIOUS
<1>1. \A j \in Jobs : Sound(job[j], known)
  <2>1. \A j \in Jobs : job[j] = Free
    BY DEF Init
  <2> QED
    BY <2>1, FreeSound
<1>2. Free \in JobStates
  BY DEF Free, JobStates, Kinds, Steps
<1>3. job \in [Jobs -> JobStates]
  BY <1>2 DEF Init
<1>4. browser \in {"none", "live", "confirmed"} /\ known \in Keys \cup {NoKey}
  BY DEF Init
<1>5. resetting \in BOOLEAN /\ resets \in 0 .. MaxResets
  <2>1. resetting = FALSE /\ resets = 0
    BY DEF Init
  <2>2. 0 \in 0 .. MaxResets
    OBVIOUS
  <2> QED
    BY <2>1, <2>2
<1>6. Globals
  BY <1>3, <1>4, <1>5 DEF Globals
<1> QED
  BY <1>1, <1>6 DEF Inv, JobsInv

LEMMA InvNext == Inv /\ [Next]_vars => Inv'
<1> SUFFICES ASSUME Inv, [Next]_vars PROVE Inv'
  OBVIOUS
<1>1. CASE UNCHANGED vars
  BY <1>1 DEF vars, Inv, Globals, JobsInv
<1>2. CASE LoginOrConfirm \/ LogoutOrExpire \/ DeleteKnownHost \/ ResetWipe \/ ResetDrop
  BY <1>2, BrowserInv, DeleteInv, WipeInv, DropInv
<1>3. ASSUME NEW j \in Jobs, NEW kind \in Kinds, Prepare(j, kind) PROVE Inv'
  BY <1>3, PrepareInv
<1>4. ASSUME NEW j \in Jobs,
             \/ PreparedTerminal(j) \/ PreparedUpdate(j) \/ PreparedRequest(j)
             \/ RedeemTerminal(j) \/ RedeemUpdate(j)
             \/ Enter(j) \/ Connect(j) \/ CheckKey(j) \/ Accept(j) \/ Remember(j) \/ Authenticate(j) \/ OpenShell(j)
      PROVE Inv'
  BY <1>4, PreparedTerminalInv, PreparedInv, RedeemTerminalInv, RedeemUpdateInv, EnterInv, ConnectInv,
     CheckKeyInv, AcceptInv, RememberInv, AuthenticateInv, OpenShellInv
<1>5. ASSUME NEW j \in Jobs,
             Probe(j) \/ Query(j) \/ Deploy(j) \/ LookAgain(j) \/ Persist(j) \/ RunUpdate(j)
      PROVE Inv'
  BY <1>5, MeetsInv, LookAgainInv, PersistInv, RunUpdateInv
<1>6. ASSUME NEW j \in Jobs,
             \/ PromptEnds(j) \/ RejectOrLeave(j) \/ TicketExpires(j)
             \/ TerminalEnds(j) \/ UpdateEnds(j) \/ RequestEnds(j)
      PROVE Inv'
  BY <1>6, EndsInv
<1> QED
  BY <1>1, <1>2, <1>3, <1>4, <1>5, <1>6 DEF Next

LEMMA InvAlways == Spec => []Inv
BY InvInit, InvNext, PTL DEF Spec

-----------------------------------------------------------------------------
(* The limit of terminals *)

Shells == {"connecting", "check", "asked", "store", "trusted", "shell", "open"}

\* A step of the job j makes j active at most; not even that, if it was active before or is
\* no terminal, or comes to no shell.
LEMMA ActiveOfOne ==
  ASSUME Inv, NEW j \in Jobs, NEW s, job' = [job EXCEPT ![j] = s]
  PROVE  /\ Active' \subseteq Active \cup {j}
         /\ j \in Active \/ s.kind # "terminal" \/ s.step \notin Shells => Active' \subseteq Active
BY DEF Active, Shells, Inv, Globals

LEMMA ActiveOfFreed ==
  ASSUME Inv, NEW j \in Jobs, Frees(j)
  PROVE  Active' \subseteq Active
<1>1. Free.kind # "terminal"
  BY DEF Free
<1> QED
  BY <1>1, ActiveOfOne DEF Frees

\* Only a terminal that finds room is added to the active ones.
LEMMA ActiveOfTerminal ==
  ASSUME Inv, NEW j \in Jobs,
         \/ PreparedTerminal(j) \/ RedeemTerminal(j) \/ TicketExpires(j) \/ Connect(j) \/ CheckKey(j)
         \/ Accept(j) \/ RejectOrLeave(j) \/ PromptEnds(j) \/ Remember(j) \/ Authenticate(j) \/ OpenShell(j)
         \/ TerminalEnds(j)
  PROVE  Active' \subseteq Active
<1>0. job \in [Jobs -> JobStates]
  BY DEF Inv, Globals
<1>1. CASE PreparedTerminal(j) \/ RedeemTerminal(j)
  <2>1. CASE Frees(j)
    BY <2>1, ActiveOfFreed
  <2>2. CASE ~Frees(j)
    BY <1>0, <1>1, <2>2 DEF PreparedTerminal, RedeemTerminal, Active, JobStates
  <2> QED
    BY <2>1, <2>2
<1>2. CASE TicketExpires(j) \/ RejectOrLeave(j) \/ PromptEnds(j) \/ TerminalEnds(j)
  BY <1>2, ActiveOfFreed DEF TicketExpires, RejectOrLeave, PromptEnds, TerminalEnds
<1>3. CASE Connect(j) \/ CheckKey(j) \/ Accept(j) \/ Authenticate(j) \/ OpenShell(j)
  <2>1. j \in Active
    BY <1>3 DEF Connect, CheckKey, Accept, Authenticate, OpenShell, At, Active
  <2>2. Frees(j) \/ \E s : job' = [job EXCEPT ![j] = s]
    BY <1>3 DEF Connect, CheckKey, Accept, Authenticate, OpenShell, Moves
  <2> QED
    BY <2>1, <2>2, ActiveOfOne, ActiveOfFreed
<1>4. CASE Remember(j)
  <2>1. j \in Active
    BY <1>4 DEF Remember, At, Active
  <2>2. CASE Frees(j)
    BY <2>2, ActiveOfFreed
  <2>3. CASE ~Frees(j)
    <3>1. ASSUME NEW i \in Jobs, i # j
          PROVE  job'[i].kind = job[i].kind /\ job'[i].step = job[i].step
      <4>1. job'[i] = job[i] \/ job'[i] = [job[i] EXCEPT !.fresh = FALSE]
        BY <1>0, <1>4, <2>3, <3>1 DEF Remember, Stored, Outdated
      <4> QED
        BY <1>0, <4>1 DEF JobStates
    <3> QED
      BY <2>1, <3>1 DEF Active
  <2> QED
    BY <2>2, <2>3
<1> QED
  BY <1>1, <1>2, <1>3, <1>4

\* Nothing else than a step of a terminal touches them.
LEMMA ActiveOfOther ==
  ASSUME Inv, NEW j \in Jobs,
         \/ PreparedUpdate(j) \/ PreparedRequest(j) \/ RedeemUpdate(j) \/ Probe(j) \/ Query(j) \/ Deploy(j)
         \/ LookAgain(j) \/ Persist(j) \/ RunUpdate(j) \/ UpdateEnds(j) \/ RequestEnds(j)
  PROVE  Active' \subseteq Active
<1>0. job \in [Jobs -> JobStates] /\ job[j] \in JobStates
  BY DEF Inv, Globals
<1>1. job[j].kind # "terminal"
  BY JobFacts DEF PreparedUpdate, PreparedRequest, RedeemUpdate, Probe, Query, Deploy, LookAgain, Persist,
                  RunUpdate, UpdateEnds, RequestEnds, At, Requests, Sound, Keyed
<1>2. CASE Frees(j)
  BY <1>2, ActiveOfFreed
<1>3. CASE ~Frees(j)
  <2>1. CASE Persist(j)
    <3>1. ASSUME NEW i \in Jobs, i # j
          PROVE  job'[i].kind = job[i].kind /\ job'[i].step = job[i].step
      <4>1. job'[i] = job[i] \/ job'[i] = [job[i] EXCEPT !.fresh = FALSE]
        BY <1>0, <1>3, <2>1, <3>1 DEF Persist, Stored, Outdated
      <4> QED
        BY <1>0, <4>1 DEF JobStates
    <3>2. job'[j] = [job[j] EXCEPT !.step = "trusted", !.pinned = job[j].seen]
      BY <1>0, <1>3, <2>1 DEF Persist, Stored, Outdated
    <3>3. job'[j].kind # "terminal"
      BY <1>0, <1>1, <3>2 DEF JobStates
    <3> QED
      BY <3>1, <3>3 DEF Active
  <2>2. CASE ~Persist(j)
    <3> DEFINE KeepsKind == job'[j].kind = job[j].kind /\ \A i \in Jobs : i # j => job'[i] = job[i]
    <3>1. CASE PreparedUpdate(j) \/ PreparedRequest(j) \/ RedeemUpdate(j)
      <4>1. Looked(j, "ticket") \/ Looked(j, "connecting") \/ Moves(j, "connecting")
        BY <1>3, <3>1 DEF PreparedUpdate, PreparedRequest, RedeemUpdate
      <4>2. KeepsKind
        BY <1>0, <4>1 DEF Looked, Moves, JobStates
      <4> QED
        BY <1>1, <4>2 DEF Active
    <3>2. CASE Probe(j) \/ Query(j) \/ Deploy(j)
      <4>1. PICK k \in Keys : Meets(j, k)
        BY <1>3, <3>2 DEF Probe, Query, Deploy
      <4>2. KeepsKind
        BY <1>0, <4>1 DEF Meets, JobStates
      <4> QED
        BY <1>1, <4>2 DEF Active
    <3>3. CASE LookAgain(j)
      <4>1. KeepsKind
        BY <1>0, <3>3 DEF LookAgain, JobStates
      <4> QED
        BY <1>1, <4>1 DEF Active
    <3>4. CASE RunUpdate(j)
      <4>1. PICK k \in Keys : job' = [job EXCEPT ![j].step = "open", ![j].seen = k]
        BY <1>3, <3>4 DEF RunUpdate
      <4>2. KeepsKind
        BY <1>0, <4>1 DEF JobStates
      <4> QED
        BY <1>1, <4>2 DEF Active
    <3> QED
      BY <1>3, <2>2, <3>1, <3>2, <3>3, <3>4 DEF UpdateEnds, RequestEnds
  <2> QED
    BY <2>1, <2>2
<1> QED
  BY <1>2, <1>3

\* Neither do the browser, the stored key and a reset; a job that is prepared has no shell.
LEMMA ActiveOfGlobal ==
  ASSUME Inv, LoginOrConfirm \/ LogoutOrExpire \/ DeleteKnownHost \/ ResetWipe \/ ResetDrop
  PROVE  Active' \subseteq Active
<1>0. job \in [Jobs -> JobStates]
  BY DEF Inv, Globals
<1>1. CASE LoginOrConfirm \/ LogoutOrExpire
  BY <1>1 DEF LoginOrConfirm, LogoutOrExpire, Active
<1>2. CASE DeleteKnownHost \/ ResetWipe
  <2>1. ASSUME NEW i \in Jobs PROVE job'[i].kind = job[i].kind /\ job'[i].step = job[i].step
    <3>1. job'[i] = [job[i] EXCEPT !.fresh = FALSE]
      BY <1>2 DEF DeleteKnownHost, Outdated, ResetWipe
    <3> QED
      BY <1>0, <3>1 DEF JobStates
  <2> QED
    BY <2>1 DEF Active
<1>3. CASE ResetDrop
  <2>1. ASSUME NEW i \in Jobs
        PROVE  job'[i] = Free \/ (job'[i].kind = job[i].kind /\ job'[i].step = job[i].step)
    <3>1. CASE HasTransport(i)
      <4>1. job[i].step # "ticket"
        BY <3>1 DEF HasTransport, Active
      <4> QED
        BY <1>0, <1>3, <3>1, <4>1 DEF ResetDrop, Dropped, JobStates
    <3>2. CASE ~HasTransport(i)
      BY <1>3, <3>2 DEF ResetDrop, Dropped
    <3> QED
      BY <3>1, <3>2
  <2>2. Free.kind # "terminal"
    BY DEF Free
  <2> QED
    BY <2>1, <2>2 DEF Active
<1> QED
  BY <1>1, <1>2, <1>3

LEMMA ActiveOfPrepare ==
  ASSUME Inv, NEW j \in Jobs, NEW kind \in Kinds, Prepare(j, kind)
  PROVE  Active' \subseteq Active
<1> DEFINE s == [Free EXCEPT !.kind = kind, !.step = "prepare"]
<1>1. s.step \notin Shells
  BY DEF Free, Shells
<1> QED
  BY <1>1, ActiveOfOne DEF Prepare

-----------------------------------------------------------------------------
(* Theorems *)

\* No step brings the active terminals over the limit: the check and the entry are one step.
LEMMA LimitNext ==
  ASSUME Inv, TerminalsBounded, [Next]_vars
  PROVE  TerminalsBounded'
<1>0. IsFiniteSet(Active) /\ Cardinality(Active) \in Nat /\ Cardinality(Active) <= MaxActive
  BY JobsAssumption, FS_Subset, FS_CardinalityType DEF Active, TerminalsBounded
<1>1. CASE Active' \subseteq Active
  <2>1. Cardinality(Active') <= Cardinality(Active) /\ Cardinality(Active') \in Nat
    BY <1>0, <1>1, FS_Subset, FS_CardinalityType
  <2> QED
    BY <1>0, <2>1 DEF TerminalsBounded
<1>2. ASSUME NEW j \in Jobs, Enter(j) PROVE TerminalsBounded'
  <2>1. CASE HasRoom
    <3>1. Active' \subseteq Active \cup {j}
      BY <1>2, <2>1, ActiveOfOne DEF Enter, Moves
    <3>2. Cardinality(Active \cup {j}) <= Cardinality(Active) + 1 /\ IsFiniteSet(Active \cup {j})
      BY <1>0, FS_AddElement
    <3>3. Cardinality(Active') <= Cardinality(Active \cup {j}) /\ Cardinality(Active') \in Nat
      BY <3>1, <3>2, FS_Subset, FS_CardinalityType
    <3>4. Cardinality(Active \cup {j}) \in Nat
      BY <3>2, FS_CardinalityType
    <3> QED
      BY <1>0, <2>1, <3>2, <3>3, <3>4 DEF HasRoom, TerminalsBounded
  <2>2. CASE ~HasRoom
    BY <1>1, <1>2, <2>2, ActiveOfFreed DEF Enter
  <2> QED
    BY <2>1, <2>2
<1>3. CASE UNCHANGED vars
  BY <1>1, <1>3 DEF vars, Active
<1>4. CASE LoginOrConfirm \/ LogoutOrExpire \/ DeleteKnownHost \/ ResetWipe \/ ResetDrop
  BY <1>1, <1>4, ActiveOfGlobal
<1>5. ASSUME NEW j \in Jobs, NEW kind \in Kinds, Prepare(j, kind) PROVE TerminalsBounded'
  BY <1>1, <1>5, ActiveOfPrepare
<1>6. ASSUME NEW j \in Jobs,
             \/ PreparedTerminal(j) \/ RedeemTerminal(j) \/ TicketExpires(j) \/ Connect(j) \/ CheckKey(j)
             \/ Accept(j) \/ RejectOrLeave(j) \/ PromptEnds(j) \/ Remember(j) \/ Authenticate(j)
             \/ OpenShell(j) \/ TerminalEnds(j)
      PROVE TerminalsBounded'
  BY <1>1, <1>6, ActiveOfTerminal
<1>7. ASSUME NEW j \in Jobs,
             \/ PreparedUpdate(j) \/ PreparedRequest(j) \/ RedeemUpdate(j) \/ Probe(j) \/ Query(j)
             \/ Deploy(j) \/ LookAgain(j) \/ Persist(j) \/ RunUpdate(j) \/ UpdateEnds(j) \/ RequestEnds(j)
      PROVE TerminalsBounded'
  BY <1>1, <1>7, ActiveOfOther
<1> QED
  BY <1>2, <1>3, <1>4, <1>5, <1>6, <1>7 DEF Next

\* No terminal runs at the start.
LEMMA LimitInit == Init => TerminalsBounded
<1> SUFFICES ASSUME Init PROVE TerminalsBounded
  OBVIOUS
<1>1. Active = {}
  BY DEF Init, Active, Free
<1>2. Cardinality({}) = 0
  BY FS_EmptySet
<1> QED
  BY <1>1, <1>2 DEF TerminalsBounded

LEMMA LimitAlways == Spec => []TerminalsBounded
<1>1. Inv /\ TerminalsBounded /\ [Next]_vars => TerminalsBounded'
  BY LimitNext
<1> QED
  BY <1>1, InvAlways, LimitInit, PTL DEF Spec

LEMMA InvHolds == Inv => TypeOK /\ StoredKeyHonoured
<1> SUFFICES ASSUME Inv PROVE TypeOK /\ StoredKeyHonoured
  OBVIOUS
<1>1. TypeOK
  BY JobFacts DEF Inv, Globals, TypeOK, Sound, Typed
<1>2. StoredKeyHonoured
  BY JobFacts DEF StoredKeyHonoured, Sound, Agrees
<1> QED
  BY <1>1, <1>2

\* The types, the limit of terminals and the stored key they honour (run_terminal,
\* DbKnownHostStore.check, PinnedHostKeyPolicy), for any number of jobs, keys and resets.
THEOREM SessionsSafe == Spec => []SessionsHold
<1>1. Inv /\ TerminalsBounded => SessionsHold
  BY InvHolds DEF SessionsHold
<1> QED
  BY <1>1, InvAlways, LimitAlways, PTL

\* A stored key gives way to another only where a user confirmed that one in a terminal
\* (DbKnownHostStore.remember): the insert of a learned key never replaces
\* (_persist_captured_host_key).
THEOREM ConfirmedReplaces == Spec => OnlyConfirmedReplaces
<1> DEFINE Replaced == known # NoKey /\ known' \notin {known, NoKey}
           Confirmed == \E j \in Jobs : At(j, "terminal", "store") /\ job[j].seen = known' /\ ~job[j].fresh
<1>1. ASSUME Inv, Next, Replaced PROVE Confirmed
  <2>1. ASSUME NEW j \in Jobs, Remember(j) PROVE Confirmed
    <3>1. At(j, "terminal", "store") /\ job[j].seen = known'
      BY <1>1, <2>1 DEF Remember, Stored
    <3>2. ~job[j].fresh
      BY <1>1, <3>1, JobFacts DEF At, Sound, Agrees
    <3> QED
      BY <3>1, <3>2
  <2>2. ASSUME NEW j \in Jobs PROVE ~Persist(j)
    BY <1>1 DEF Persist, Persists
  <2>3. ~(LoginOrConfirm \/ LogoutOrExpire \/ DeleteKnownHost \/ ResetWipe \/ ResetDrop)
    BY <1>1 DEF LoginOrConfirm, LogoutOrExpire, DeleteKnownHost, ResetWipe, ResetDrop
  <2>4. ASSUME NEW j \in Jobs, NEW kind \in Kinds PROVE ~Prepare(j, kind)
    BY <1>1 DEF Prepare
  <2>5. ASSUME NEW j \in Jobs
        PROVE  ~ \/ PreparedTerminal(j) \/ PreparedUpdate(j) \/ PreparedRequest(j)
                 \/ Enter(j) \/ Connect(j) \/ CheckKey(j) \/ PromptEnds(j) \/ Authenticate(j) \/ OpenShell(j)
                 \/ Probe(j) \/ Query(j) \/ Deploy(j) \/ LookAgain(j) \/ RunUpdate(j)
                 \/ TicketExpires(j) \/ RedeemTerminal(j) \/ RedeemUpdate(j) \/ Accept(j) \/ RejectOrLeave(j)
                 \/ TerminalEnds(j) \/ UpdateEnds(j) \/ RequestEnds(j)
    BY <1>1 DEF PreparedTerminal, PreparedUpdate, PreparedRequest, Enter, Connect, CheckKey, PromptEnds,
                Authenticate, OpenShell, Probe, Query, Deploy, LookAgain, RunUpdate, TicketExpires, RedeemTerminal,
                RedeemUpdate, Accept, RejectOrLeave, TerminalEnds, UpdateEnds, RequestEnds
  <2> QED
    BY <1>1, <2>1, <2>2, <2>3, <2>4, <2>5 DEF Next
<1>2. Inv /\ [Next]_vars => [Replaced => Confirmed]_vars
  BY <1>1
<1>3. Spec => [][Replaced => Confirmed]_vars
  BY <1>2, InvAlways, PTL DEF Spec
<1> QED
  BY <1>3 DEF OnlyConfirmedReplaces
=============================================================================
