------------------------------ MODULE AuthProofs ------------------------------
(***************************************************************************)
(* Proofs about Auth for any number of requests, clients, sessions and     *)
(* passwords.  The invariant has four parts: the types, with what each     *)
(* kind of request was given (Types); the attempts counted (Balance); what *)
(* a reset leaves (Wiped); who knows which password (Passwords).           *)
(***************************************************************************)
EXTENDS Auth, FiniteSetTheorems, TLAPS

USE BoundsAssumption

\* What a request of each kind was given.
Shape(q) ==
  /\ q \in RequestStates /\ q.tag # "old"
  /\ q.kind = "change" /\ q.step # "judge" => q.what \in Words /\ q.by \in Sessions /\ q.right
  /\ q.kind = "setup" => q.what \in Words \cup {Nobody}
  /\ q.kind = "token" => q.what \in ApiTokens
  /\ q.kind = "stepup" => q.what \in Classes /\ q.by \in Sessions
  /\ q.kind = "login" /\ q.step # "judge" => q.right
  /\ q.counted => q.client \in Clients

Shapes(f) == f \in [Requests -> RequestStates] /\ \A r \in Requests : Shape(f[r])

Types == TypeOK /\ Shapes(req) /\ \A t \in ApiTokens : tokens[t] = "old" => spared

\* The attempts of c that are still being judged.
Judged(f, c) == {r \in Requests : f[r].client = c /\ f[r].counted}
\* Every counted attempt is one judged wrong or one being judged.
Balance == \A c \in Clients : guesses[c] + Cardinality(Judged(req, c)) <= attempts[c]

\* A session of the former instance is there only while a reset is about to drop it.
Wiped == \A s \in Sessions : sess[s].tag = "old" => \E r \in Requests : At(r, "reset", "finish")

Changed == {r \in Requests : At(r, "change", "finish")}

\* Who knows the password that keeper has set, once no change is under way: every session,
\* and every login and wizard that will make one, except what a change has overtaken.
Known ==
  keeper # Nobody /\ Changed = {} =>
    /\ \A s \in Live : s # keeper /\ sess[s].tag # "late" => sess[s].word = secret.word
    /\ \A r \in Requests : req[r].kind = "login" /\ req[r].right /\ req[r].tag # "late" =>
         req[r].seen.word = secret.word
    /\ \A r \in Requests : At(r, "setup", "finish") /\ req[r].tag # "late" => req[r].what = secret.word

\* A change that has yet to end the other sessions spares the keeper's, or none, or another
\* change will end the one it spares.
Spares ==
  \A r \in Changed :
    \/ keeper \in {Nobody, req[r].by} \/ req[r].by \notin Live
    \/ \E q \in Changed \ {r} : req[q].by = keeper

Passwords == Known /\ Spares

Inv == Types /\ Balance /\ Wiped /\ Passwords

-----------------------------------------------------------------------------
(* Lemmas about requests *)

LEMMA IdleShape == Shape(Idle)
BY DEF Shape, Idle, RequestStates, Kinds, Steps, Secrets, NoSecret, Forms, Tags

\* What a request starts with.
Begun(p, kind, step) ==
  /\ p \in RequestStates /\ p.kind = kind /\ p.step = step /\ p.tag = "current" /\ ~p.counted
  /\ p.right => p.seen = secret

LEMMA StartsShape ==
  ASSUME secret \in Secrets, NEW kind \in Kinds, NEW step \in Steps, NEW right \in BOOLEAN
  PROVE  Begun(Starts(kind, step, right), kind, step)
<1>1. Idle \in RequestStates
  BY IdleShape DEF Shape
<1>2. NoSecret \in Secrets /\ "current" \in Tags
  BY DEF NoSecret, Secrets, Forms, Tags
<1>3. Idle.counted = FALSE
  BY DEF Idle
<1> QED
  BY <1>1, <1>2, <1>3 DEF Begun, Starts, RequestStates

\* A request that moves on keeps what it was given.
LEMMA MovesShape ==
  ASSUME NEW q, Shape(q), NEW step \in Steps, q.kind = "login" => q.right, q.kind = "change" => q.step # "judge"
  PROVE  Shape([q EXCEPT !.step = step])
BY DEF Shape, RequestStates

LEMMA OneShape ==
  ASSUME NEW f, Shapes(f), NEW r \in Requests, NEW q, Shape(q)
  PROVE  Shapes([f EXCEPT ![r] = q])
<1> DEFINE g == [f EXCEPT ![r] = q]
<1>1. q \in RequestStates
  BY DEF Shape
<1>2. g \in [Requests -> RequestStates]
  BY <1>1 DEF Shapes
<1>3. \A i \in Requests : g[i] = IF i = r THEN q ELSE f[i]
  BY DEF Shapes
<1>4. \A i \in Requests : Shape(g[i])
  BY <1>3 DEF Shapes
<1> QED
  BY <1>2, <1>4 DEF Shapes

\* What is overtaken is as it was, but late.
LEMMA OvertakenFacts ==
  ASSUME Shapes(req), NEW r \in Requests
  PROVE  /\ Shapes(OvertakenBy(r))
         /\ \A q \in Requests : OvertakenBy(r)[q] \in {Idle, [req[q] EXCEPT !.tag = "late"]}
<1>1. \A q \in Requests :
        OvertakenBy(r)[q] = IF req[q].kind = "idle" \/ q = r THEN Idle ELSE [req[q] EXCEPT !.tag = "late"]
  BY DEF OvertakenBy
<1>2. \A q \in Requests : Shape([req[q] EXCEPT !.tag = "late"])
  BY DEF Shapes, Shape, RequestStates, Tags
<1>3. \A q \in Requests : Shape(OvertakenBy(r)[q])
  BY <1>1, <1>2, IdleShape
<1>4. OvertakenBy(r) \in [Requests -> RequestStates]
  BY <1>1, <1>2, IdleShape DEF OvertakenBy, Shape
<1> QED
  BY <1>1, <1>3, <1>4 DEF Shapes

\* The requests of which the counted attempt is forgotten.
Uncounted(q, c) == [r \in Requests |-> IF q[r].client = c THEN [q[r] EXCEPT !.counted = FALSE] ELSE q[r]]

LEMMA UncountedFacts ==
  ASSUME NEW f, Shapes(f), NEW c
  PROVE  /\ Shapes(Uncounted(f, c))
         /\ \A r \in Requests :
              Uncounted(f, c)[r] = IF f[r].client = c THEN [f[r] EXCEPT !.counted = FALSE] ELSE f[r]
<1>1. \A r \in Requests :
        Uncounted(f, c)[r] = IF f[r].client = c THEN [f[r] EXCEPT !.counted = FALSE] ELSE f[r]
  BY DEF Uncounted
<1>2. \A r \in Requests : Shape([f[r] EXCEPT !.counted = FALSE])
  BY DEF Shapes, Shape, RequestStates
<1>3. \A r \in Requests : Shape(Uncounted(f, c)[r])
  BY <1>1, <1>2 DEF Shapes
<1>4. Uncounted(f, c) \in [Requests -> RequestStates]
  BY <1>1, <1>2 DEF Uncounted, Shapes, Shape
<1> QED
  BY <1>1, <1>3, <1>4 DEF Shapes

-----------------------------------------------------------------------------
(* What most steps keep of a request: p before the step, q after it *)

\* It ends no change and begins no end of one, learns no password but the present one, and
\* brings no wizard to its end.
Tame(p, q) ==
  /\ (q.kind = "change" /\ q.step = "finish") <=> (p.kind = "change" /\ p.step = "finish")
  /\ q.kind = "change" /\ q.step = "finish" => q.by = p.by
  /\ q.kind = "login" /\ q.right /\ q.tag # "late" =>
       \/ q.seen.word = secret.word
       \/ p.kind = "login" /\ p.right /\ p.tag # "late" /\ q.seen = p.seen
  /\ q.kind = "setup" /\ q.step = "finish" /\ q.tag # "late" =>
       p.kind = "setup" /\ p.step = "finish" /\ p.tag # "late" /\ q.what = p.what

\* It is not counted anew.
Less(p, q) == q.counted => p.counted /\ p.client = q.client

\* It does not leave the end of a reset.
Stays(p, q) == p.kind = "reset" /\ p.step = "finish" => q.kind = "reset" /\ q.step = "finish"

AllTame(f) == \A i \in Requests : Tame(req[i], f[i])
AllLess(f) == \A i \in Requests : Less(req[i], f[i])
AllStay(f) == \A i \in Requests : Stays(req[i], f[i])

\* One request changes.
LEMMA OneFacts ==
  ASSUME Shapes(req), NEW r \in Requests, NEW q, Shape(q)
  PROVE  /\ Shapes([req EXCEPT ![r] = q])
         /\ Tame(req[r], q) => AllTame([req EXCEPT ![r] = q])
         /\ Less(req[r], q) => AllLess([req EXCEPT ![r] = q])
         /\ Stays(req[r], q) => AllStay([req EXCEPT ![r] = q])
<1> DEFINE f == [req EXCEPT ![r] = q]
<1>1. Shapes(f)
  BY OneShape
<1>2. \A i \in Requests : f[i] = IF i = r THEN q ELSE req[i]
  BY DEF Shapes
<1>3. \A i \in Requests : Tame(req[i], req[i]) /\ Less(req[i], req[i]) /\ Stays(req[i], req[i])
  BY DEF Tame, Less, Stays
<1> HIDE DEF f
<1>4. Tame(req[r], q) => AllTame(f)
  BY <1>2, <1>3 DEF AllTame
<1>5. Less(req[r], q) => AllLess(f)
  BY <1>2, <1>3 DEF AllLess
<1>6. Stays(req[r], q) => AllStay(f)
  BY <1>2, <1>3 DEF AllStay
<1> QED
  BY <1>1, <1>4, <1>5, <1>6 DEF f

\* One ends, no change and no reset that has yet to end the rest.
LEMMA EndsFacts ==
  ASSUME Shapes(req), NEW r \in Requests, ~(At(r, "change", "finish") \/ At(r, "reset", "finish"))
  PROVE  LET f == [req EXCEPT ![r] = Idle] IN Shapes(f) /\ AllTame(f) /\ AllLess(f) /\ AllStay(f)
<1>1. Tame(req[r], Idle) /\ Less(req[r], Idle) /\ Stays(req[r], Idle)
  BY DEF Tame, Less, Stays, At, Idle
<1> QED
  BY <1>1, IdleShape, OneFacts

\* One moves on.
LEMMA MovesFacts ==
  ASSUME Shapes(req), NEW r \in Requests, NEW step \in Steps, req[r].kind = "login" => req[r].right,
         req[r].kind = "change" => req[r].step # "judge", ~(At(r, "change", "finish") \/ At(r, "reset", "finish"))
  PROVE  LET f == [req EXCEPT ![r].step = step]
         IN  /\ Shapes(f) /\ AllLess(f) /\ AllStay(f)
             /\ (req[r].kind \in {"change", "setup"} => step # "finish") => AllTame(f)
<1> DEFINE q == [req[r] EXCEPT !.step = step]
<1>0. Shape(req[r]) /\ req[r] \in RequestStates
  BY DEF Shapes
<1>1. Shape(q)
  BY <1>0, MovesShape
<1>2. Less(req[r], q) /\ Stays(req[r], q)
  BY <1>0 DEF Less, Stays, At, RequestStates
<1>3. (req[r].kind \in {"change", "setup"} => step # "finish") => Tame(req[r], q)
  BY <1>0 DEF Tame, At, RequestStates
<1> QED
  BY <1>1, <1>2, <1>3, OneFacts

\* The counted attempts of a client are forgotten.
LEMMA ForgetFacts ==
  ASSUME NEW f, NEW c, Shapes(f), AllTame(f), AllLess(f), AllStay(f)
  PROVE  LET g == Uncounted(f, c) IN Shapes(g) /\ AllTame(g) /\ AllLess(g) /\ AllStay(g)
<1> DEFINE g == Uncounted(f, c)
<1>1. Shapes(g)
  BY UncountedFacts
<1>2. ASSUME NEW i \in Requests
      PROVE  Tame(req[i], g[i]) /\ Less(req[i], g[i]) /\ Stays(req[i], g[i])
  <2>1. f[i] \in RequestStates /\ Tame(req[i], f[i]) /\ Less(req[i], f[i]) /\ Stays(req[i], f[i])
    BY DEF Shapes, AllTame, AllLess, AllStay
  <2>2. g[i] = f[i] \/ g[i] = [f[i] EXCEPT !.counted = FALSE]
    BY UncountedFacts
  <2>3. CASE g[i] = [f[i] EXCEPT !.counted = FALSE]
    BY <2>1, <2>3 DEF Tame, Less, Stays, RequestStates
  <2> QED
    BY <2>1, <2>2, <2>3
<1> HIDE DEF g
<1>3. AllTame(g) /\ AllLess(g) /\ AllStay(g)
  BY <1>2 DEF AllTame, AllLess, AllStay
<1> QED
  BY <1>1, <1>3 DEF g

\* Requests are overtaken by a reset or the end of a change.
LEMMA OvertakenKeeps ==
  ASSUME Shapes(req), NEW r \in Requests
  PROVE  /\ Shapes(OvertakenBy(r)) /\ AllLess(OvertakenBy(r))
         /\ ~At(r, "change", "finish") => AllTame(OvertakenBy(r))
         /\ ~At(r, "reset", "finish") => AllStay(OvertakenBy(r))
<1> DEFINE f == OvertakenBy(r)
<1>1. Shapes(f)
  BY OvertakenFacts
<1>2. \A i \in Requests :
        f[i] = IF req[i].kind = "idle" \/ i = r THEN Idle ELSE [req[i] EXCEPT !.tag = "late"]
  BY DEF OvertakenBy
<1> HIDE DEF f
<1>3. ASSUME NEW i \in Requests
      PROVE  /\ Less(req[i], f[i])
             /\ ~At(r, "change", "finish") => Tame(req[i], f[i])
             /\ ~At(r, "reset", "finish") => Stays(req[i], f[i])
  <2>1. CASE req[i].kind = "idle" \/ i = r
    <3>1. f[i] = Idle /\ Idle.kind = "idle" /\ ~Idle.counted
      BY <1>2, <2>1 DEF Idle
    <3>2. CASE i = r
      BY <3>1, <3>2 DEF Less, Tame, Stays, At
    <3>3. CASE req[i].kind = "idle"
      BY <3>1, <3>3 DEF Less, Tame, Stays
    <3> QED
      BY <2>1, <3>2, <3>3
  <2>2. CASE ~(req[i].kind = "idle" \/ i = r)
    <3>1. req[i] \in RequestStates /\ f[i] = [req[i] EXCEPT !.tag = "late"]
      BY <1>2, <2>2 DEF Shapes
    <3> QED
      BY <3>1 DEF Less, Tame, Stays, RequestStates
  <2> QED
    BY <2>1, <2>2
<1>4. AllLess(f)
  BY <1>3 DEF AllLess
<1>5. ~At(r, "change", "finish") => AllTame(f)
  BY <1>3 DEF AllTame
<1>6. ~At(r, "reset", "finish") => AllStay(f)
  BY <1>3 DEF AllStay
<1> QED
  BY <1>1, <1>4, <1>5, <1>6 DEF f

-----------------------------------------------------------------------------
(* The attempts *)

LEMMA JudgedFinite ==
  ASSUME NEW f, NEW c
  PROVE  IsFiniteSet(Judged(f, c)) /\ Cardinality(Judged(f, c)) \in Nat
BY RequestsAssumption, FS_Subset, FS_CardinalityType DEF Judged

\* Nobody is counted anew: what is being judged does not grow.
LEMMA LessJudged ==
  ASSUME AllLess(req'), NEW c
  PROVE  Judged(req', c) \subseteq Judged(req, c)
BY DEF AllLess, Less, Judged

LEMMA FewerJudged ==
  ASSUME NEW f, NEW g, NEW c, Judged(g, c) \subseteq Judged(f, c)
  PROVE  Cardinality(Judged(g, c)) <= Cardinality(Judged(f, c))
BY JudgedFinite, FS_Subset

LEMMA BalanceQuiet ==
  ASSUME Types, Types', Balance, AllLess(req'), UNCHANGED <<attempts, guesses>>
  PROVE  Balance'
<1> SUFFICES ASSUME NEW c \in Clients
             PROVE  guesses[c] + Cardinality(Judged(req', c)) <= attempts[c]
  BY DEF Balance
<1>1. Cardinality(Judged(req', c)) <= Cardinality(Judged(req, c))
  BY LessJudged, FewerJudged
<1>2. Cardinality(Judged(req', c)) \in Nat /\ Cardinality(Judged(req, c)) \in Nat
  BY JudgedFinite
<1>3. guesses[c] \in Nat /\ attempts[c] \in Nat
  BY DEF Types, TypeOK
<1> QED
  BY <1>1, <1>2, <1>3 DEF Balance

\* A reservation counts the attempt that starts to be judged.
LEMMA BalanceReserve ==
  ASSUME Types, Balance, NEW r \in Requests, NEW c \in Clients, NEW q, Reserve(c), UNCHANGED guesses,
         req' = [req EXCEPT ![r] = q], req[r] = Idle, q.client = c
  PROVE  Balance'
<1> SUFFICES ASSUME NEW d \in Clients
             PROVE  guesses[d] + Cardinality(Judged(req', d)) <= attempts'[d]
  BY DEF Balance
<1>0. /\ guesses[d] \in Nat /\ attempts[d] \in Nat
      /\ Cardinality(Judged(req', d)) \in Nat /\ Cardinality(Judged(req, d)) \in Nat
      /\ guesses[d] + Cardinality(Judged(req, d)) <= attempts[d]
  BY JudgedFinite DEF Types, TypeOK, Balance
<1>1. \A i \in Requests : req'[i] = IF i = r THEN q ELSE req[i]
  BY DEF Types, TypeOK
<1>2. CASE d = c
  <2>1. Judged(req', d) \subseteq Judged(req, d) \cup {r}
    BY <1>1 DEF Judged
  <2>2. IsFiniteSet(Judged(req, d) \cup {r})
        /\ Cardinality(Judged(req, d) \cup {r}) <= Cardinality(Judged(req, d)) + 1
    <3>1. IsFiniteSet(Judged(req, d))
      BY JudgedFinite
    <3>2. /\ IsFiniteSet(Judged(req, d) \cup {r})
          /\ Cardinality(Judged(req, d) \cup {r}) =
               IF r \in Judged(req, d) THEN Cardinality(Judged(req, d)) ELSE Cardinality(Judged(req, d)) + 1
      BY <3>1, FS_AddElement
    <3> QED
      BY <1>0, <3>2
  <2>3. Cardinality(Judged(req', d)) <= Cardinality(Judged(req, d) \cup {r})
        /\ Cardinality(Judged(req, d) \cup {r}) \in Nat
    BY <2>1, <2>2, FS_Subset, FS_CardinalityType
  <2>4. attempts'[d] = attempts[d] + 1
    BY <1>2 DEF Reserve, Types, TypeOK
  <2> QED
    BY <1>0, <2>2, <2>3, <2>4
<1>3. CASE d # c
  <2>1. Judged(req', d) \subseteq Judged(req, d)
    BY <1>1, <1>3 DEF Judged
  <2>2. attempts'[d] = attempts[d]
    BY <1>3 DEF Reserve, Types, TypeOK
  <2>3. Cardinality(Judged(req', d)) <= Cardinality(Judged(req, d))
    BY <2>1, FewerJudged
  <2> QED
    BY <1>0, <2>2, <2>3
<1> QED
  BY <1>2, <1>3

\* A wrong password is no longer judged but counts.
LEMMA BalanceWrong ==
  ASSUME Types, Balance, NEW r \in Requests, Wrong(r), UNCHANGED attempts
  PROVE  Balance'
<1> SUFFICES ASSUME NEW d \in Clients
             PROVE  guesses'[d] + Cardinality(Judged(req', d)) <= attempts[d]
  BY DEF Balance
<1>0. /\ guesses[d] \in Nat /\ attempts[d] \in Nat
      /\ Cardinality(Judged(req', d)) \in Nat /\ Cardinality(Judged(req, d)) \in Nat
      /\ guesses[d] + Cardinality(Judged(req, d)) <= attempts[d]
  BY JudgedFinite DEF Types, TypeOK, Balance
<1>1. \A i \in Requests : req'[i] = IF i = r THEN Idle ELSE req[i]
  BY DEF Wrong, Ends, Types, TypeOK
<1>2. ~Idle.counted
  BY DEF Idle
<1>3. CASE r \in Judged(req, d)
  <2>1. Judged(req', d) = Judged(req, d) \ {r}
    BY <1>1, <1>2, <1>3 DEF Judged
  <2>2. Cardinality(Judged(req', d)) = Cardinality(Judged(req, d)) - 1
    BY <1>3, <2>1, JudgedFinite, FS_RemoveElement
  <2>3. guesses'[d] = guesses[d] + 1
    BY <1>3 DEF Wrong, Judged, Types, TypeOK
  <2> QED
    BY <1>0, <2>2, <2>3
<1>4. CASE r \notin Judged(req, d)
  <2>1. Judged(req', d) \subseteq Judged(req, d)
    BY <1>1, <1>2 DEF Judged
  <2>2. guesses'[d] = guesses[d]
    BY <1>4 DEF Wrong, Judged, Types, TypeOK
  <2> QED
    BY <1>0, <2>1, <2>2, FewerJudged
<1> QED
  BY <1>3, <1>4

\* A right one makes everything of its client forgotten.
LEMMA BalanceForget ==
  ASSUME Types, Balance, NEW c, NEW q, Shapes(q), AllLess(q), Forget(c, q)
  PROVE  Balance'
<1> SUFFICES ASSUME NEW d \in Clients
             PROVE  guesses'[d] + Cardinality(Judged(req', d)) <= attempts'[d]
  BY DEF Balance
<1>0. /\ guesses[d] \in Nat /\ attempts[d] \in Nat
      /\ Cardinality(Judged(req', d)) \in Nat /\ Cardinality(Judged(req, d)) \in Nat
      /\ guesses[d] + Cardinality(Judged(req, d)) <= attempts[d]
  BY JudgedFinite DEF Types, TypeOK, Balance
<1>1. req' = Uncounted(q, c)
  BY DEF Forget, Uncounted
<1>2. \A i \in Requests : req'[i] = IF q[i].client = c THEN [q[i] EXCEPT !.counted = FALSE] ELSE q[i]
  BY <1>1, UncountedFacts
<1>3. \A i \in Requests :
        req'[i].client = q[i].client /\ (req'[i].counted <=> q[i].counted /\ q[i].client # c)
  BY <1>2 DEF Shapes, RequestStates
<1>4. CASE d = c
  <2>1. Judged(req', d) = {}
    BY <1>3, <1>4 DEF Judged
  <2>2. Cardinality(Judged(req', d)) = 0
    BY <2>1, FS_EmptySet
  <2>3. guesses'[d] = 0 /\ attempts'[d] = 0
    BY <1>4 DEF Forget, Types, TypeOK
  <2> QED
    BY <2>2, <2>3
<1>5. CASE d # c
  <2>1. Judged(req', d) \subseteq Judged(req, d)
    BY <1>3 DEF Judged, AllLess, Less
  <2>2. guesses'[d] = guesses[d] /\ attempts'[d] = attempts[d]
    BY <1>5 DEF Forget, Types, TypeOK
  <2> QED
    BY <1>0, <2>1, <2>2, FewerJudged
<1> QED
  BY <1>4, <1>5

-----------------------------------------------------------------------------
(* Sessions and the password *)

\* A session that is made where nothing refers to its id.
Fits(s, o) ==
  /\ IsNew(s) /\ o.tag # "old"
  /\ keeper # Nobody /\ Changed = {} /\ o.tag # "late" => o.word = secret.word

\* Sessions stay, end, or are made.
CalmSessions == \A s \in Sessions : sess'[s] \in {sess[s], Ended} \/ Fits(s, sess'[s])

\* As long as no request leaves the end of a reset, what it is about to drop may be there.
LEMMA WipedStays ==
  ASSUME Wiped, AllStay(req'), CalmSessions
  PROVE  Wiped'
<1> SUFFICES ASSUME NEW s \in Sessions, sess'[s].tag = "old"
             PROVE  \E r \in Requests : At(r, "reset", "finish")'
  BY DEF Wiped
<1>1. Ended.tag # "old"
  BY DEF Ended
<1>2. sess[s].tag = "old"
  BY <1>1 DEF CalmSessions, Fits
<1>3. PICK r \in Requests : At(r, "reset", "finish")
  BY <1>2 DEF Wiped
<1> QED
  BY <1>3 DEF AllStay, Stays, At

LEMMA PasswordsStay ==
  ASSUME Passwords, AllTame(req'), UNCHANGED <<secret, keeper>>, CalmSessions
  PROVE  Passwords'
<1>1. Changed' = Changed /\ \A r \in Changed : req'[r].by = req[r].by
  BY DEF Changed, At, AllTame, Tame
<1>2. \A s \in Sessions : s \in Live' => s \in Live \/ Fits(s, sess'[s])
  BY DEF Live, CalmSessions
<1>3. Known'
  <2> SUFFICES ASSUME keeper # Nobody, Changed = {}
               PROVE  /\ \A s \in Live' : s # keeper /\ sess'[s].tag # "late" => sess'[s].word = secret.word
                      /\ \A r \in Requests :
                           req'[r].kind = "login" /\ req'[r].right /\ req'[r].tag # "late" =>
                             req'[r].seen.word = secret.word
                      /\ \A r \in Requests :
                           At(r, "setup", "finish")' /\ req'[r].tag # "late" => req'[r].what = secret.word
    BY <1>1 DEF Known
  <2>1. \A s \in Live' : s # keeper /\ sess'[s].tag # "late" => sess'[s].word = secret.word
    BY DEF Passwords, Known, Live, CalmSessions, Fits
  <2>2. \A r \in Requests : req'[r].kind = "login" /\ req'[r].right /\ req'[r].tag # "late" =>
          req'[r].seen.word = secret.word
    BY DEF Passwords, Known, AllTame, Tame
  <2>3. \A r \in Requests : At(r, "setup", "finish")' /\ req'[r].tag # "late" => req'[r].what = secret.word
    BY DEF Passwords, Known, AllTame, Tame, At
  <2> QED
    BY <2>1, <2>2, <2>3
<1>4. Spares'
  <2> SUFFICES ASSUME NEW r \in Changed
               PROVE  \/ keeper \in {Nobody, req'[r].by} \/ req'[r].by \notin Live'
                      \/ \E q \in Changed \ {r} : req'[q].by = keeper
    BY <1>1 DEF Spares
  <2>1. \/ keeper \in {Nobody, req[r].by} \/ req[r].by \notin Live
        \/ \E q \in Changed \ {r} : req[q].by = keeper
    BY DEF Passwords, Spares
  <2>2. req[r].by \notin Live => req[r].by \notin Live'
    BY <1>2 DEF Fits, IsNew, Changed, Live
  <2> QED
    BY <1>1, <2>1, <2>2
<1> QED
  BY <1>3, <1>4 DEF Passwords

\* Nothing is known of a password that no session has set.
LEMMA NoKeeper == ASSUME keeper' = Nobody PROVE Passwords'
BY DEF Passwords, Known, Spares

LEMMA NoOld == ASSUME \A s \in Sessions : sess'[s] = Ended PROVE Wiped'
BY DEF Wiped, Ended

\* A step that leaves the password alone and no request out of turn.
LEMMA Calmly ==
  ASSUME Inv, Types', AllTame(req'), AllStay(req'), UNCHANGED <<secret, keeper>>, CalmSessions, Balance'
  PROVE  Inv'
BY WipedStays, PasswordsStay DEF Inv

\* One that ends the keeper's part in it.
LEMMA Unkept ==
  ASSUME Inv, Types', AllStay(req'), keeper' = Nobody, CalmSessions, Balance'
  PROVE  Inv'
BY WipedStays, NoKeeper DEF Inv

LEMMA SameSessions == ASSUME UNCHANGED sess PROVE CalmSessions
BY DEF CalmSessions

-----------------------------------------------------------------------------
(* One lemma for each action *)

\* A request of any kind starts.
LEMMA Started ==
  ASSUME Types, NEW r \in Requests, req[r] = Idle, NEW q, Shape(q), q.step # "finish",
         q.kind = "login" /\ q.right => q.seen = secret, req' = [req EXCEPT ![r] = q]
  PROVE  Shapes(req') /\ AllTame(req') /\ AllStay(req') /\ (~q.counted => AllLess(req'))
<1>1. Tame(Idle, q) /\ Stays(Idle, q) /\ (~q.counted => Less(Idle, q))
  BY DEF Tame, Stays, Less, Idle
<1> QED
  BY <1>1, OneFacts DEF Types

LEMMA LoginStartInv ==
  ASSUME Inv, NEW r \in Requests, NEW c \in Clients, NEW right \in BOOLEAN, LoginStart(r, c, right)
  PROVE  Inv'
<1> DEFINE q == [Starts("login", "judge", right) EXCEPT !.client = c, !.counted = TRUE]
<1>1. /\ Shape(q) /\ q.kind = "login" /\ q.step = "judge" /\ q.client = c
      /\ q.right => q.seen = secret
  <2> DEFINE p == Starts("login", "judge", right)
  <2>1. Begun(p, "login", "judge")
    <3>1. secret \in Secrets /\ "login" \in Kinds /\ "judge" \in Steps
      BY DEF Inv, Types, TypeOK, Kinds, Steps
    <3> QED
      BY <3>1, StartsShape, Zenon
  <2> HIDE DEF p
  <2>2. q = [p EXCEPT !.client = c, !.counted = TRUE]
    BY DEF p
  <2> HIDE DEF q
  <2> QED
    BY <2>1, <2>2 DEF Begun, Shape, RequestStates
<1>2. req[r] = Idle /\ Reserve(c) /\ req' = [req EXCEPT ![r] = q]
      /\ UNCHANGED <<setup, secret, tokens, sess, grants, resets, guesses, keeper, spared>>
  BY DEF LoginStart
<1> HIDE DEF q
<1>3. Shapes(req') /\ AllTame(req') /\ AllStay(req')
  BY <1>1, <1>2, Started DEF Inv
<1>4. attempts' \in [Clients -> 0 .. MaxFailures]
  BY <1>2 DEF Reserve, Inv, Types, TypeOK
<1>5. Types'
  BY <1>2, <1>3, <1>4 DEF Inv, Types, TypeOK, Shapes
<1>6. Balance'
  BY <1>1, <1>2, BalanceReserve DEF Inv
<1> QED
  BY <1>2, <1>3, <1>5, <1>6, SameSessions, Calmly

LEMMA StepUpStartInv ==
  ASSUME Inv, NEW r \in Requests, NEW s \in Sessions, NEW c \in Clients, NEW right \in BOOLEAN,
         NEW cl \in Classes, StepUpStart(r, s, c, right, cl)
  PROVE  Inv'
<1> DEFINE q == [Starts("stepup", "judge", right) EXCEPT
                   !.client = c, !.by = s, !.what = cl, !.counted = TRUE]
<1>1. Shape(q) /\ q.kind = "stepup" /\ q.step = "judge" /\ q.client = c
  <2> DEFINE p == Starts("stepup", "judge", right)
  <2>1. Begun(p, "stepup", "judge")
    <3>1. secret \in Secrets /\ "stepup" \in Kinds /\ "judge" \in Steps
      BY DEF Inv, Types, TypeOK, Kinds, Steps
    <3> QED
      BY <3>1, StartsShape, Zenon
  <2> HIDE DEF p
  <2>2. q = [p EXCEPT !.client = c, !.by = s, !.what = cl, !.counted = TRUE]
    BY DEF p
  <2> HIDE DEF q
  <2> QED
    BY <2>1, <2>2 DEF Begun, Shape, RequestStates
<1>2. req[r] = Idle /\ Reserve(c) /\ req' = [req EXCEPT ![r] = q]
      /\ UNCHANGED <<setup, secret, tokens, sess, grants, resets, guesses, keeper, spared>>
  BY DEF StepUpStart
<1> HIDE DEF q
<1>3. Shapes(req') /\ AllTame(req') /\ AllStay(req')
  BY <1>1, <1>2, Started DEF Inv
<1>4. attempts' \in [Clients -> 0 .. MaxFailures]
  BY <1>2 DEF Reserve, Inv, Types, TypeOK
<1>5. Types'
  BY <1>2, <1>3, <1>4 DEF Inv, Types, TypeOK, Shapes
<1>6. Balance'
  BY <1>1, <1>2, BalanceReserve DEF Inv
<1> QED
  BY <1>2, <1>3, <1>5, <1>6, SameSessions, Calmly

\* A request that is not counted starts.
LEMMA StartsInv ==
  ASSUME Inv, NEW r \in Requests, req[r] = Idle, NEW q, Shape(q), q.kind # "login", q.step # "finish",
         ~q.counted, req' = [req EXCEPT ![r] = q],
         UNCHANGED <<setup, secret, tokens, sess, grants, attempts, resets, guesses, keeper, spared>>
  PROVE  Inv'
<1>1. Shapes(req') /\ AllTame(req') /\ AllStay(req') /\ AllLess(req')
  BY Started DEF Inv
<1>2. Types'
  BY <1>1 DEF Inv, Types, TypeOK, Shapes
<1>3. Balance'
  BY <1>1, <1>2, BalanceQuiet DEF Inv
<1> QED
  BY <1>1, <1>2, <1>3, SameSessions, Calmly

LEMMA OtherStartsInv ==
  ASSUME Inv, NEW r \in Requests,
         \/ \E s \in Sessions, new \in Words : ChangeStart(r, s, new)
         \/ \E w \in Words \cup {Nobody} : SetupStart(r, w)
         \/ \E by \in Callers, t \in ApiTokens : CreateTokenStart(r, by, t)
         \/ \E by \in Callers : ResetStart(r, by)
  PROVE  Inv'
<1>0. secret \in Secrets
  BY DEF Inv, Types, TypeOK
<1>1. ASSUME NEW s \in Sessions, NEW new \in Words, ChangeStart(r, s, new) PROVE Inv'
  <2> DEFINE p == Starts("change", "write", TRUE)
             q == [p EXCEPT !.by = s, !.what = new]
             u == Starts("change", "judge", FALSE)
  <2>1. Shape(q) /\ q.kind # "login" /\ q.step # "finish" /\ ~q.counted
    <3>1. Begun(p, "change", "write")
      <4>1. "change" \in Kinds /\ "write" \in Steps /\ TRUE \in BOOLEAN
        BY DEF Kinds, Steps
      <4> QED
        BY <1>0, <4>1, StartsShape, Zenon
    <3>2. p.right
      BY DEF Starts, Idle
    <3> HIDE DEF p
    <3> QED
      BY <3>1, <3>2 DEF Begun, Shape, RequestStates
  <2>2. Shape(u) /\ u.kind # "login" /\ u.step # "finish" /\ ~u.counted
    <3>1. Begun(u, "change", "judge")
      <4>1. "change" \in Kinds /\ "judge" \in Steps /\ FALSE \in BOOLEAN
        BY DEF Kinds, Steps
      <4> QED
        BY <1>0, <4>1, StartsShape, Zenon
    <3> HIDE DEF u
    <3> QED
      BY <3>1 DEF Begun, Shape, RequestStates
  <2>3. /\ req[r] = Idle /\ (req' = [req EXCEPT ![r] = q] \/ req' = [req EXCEPT ![r] = u])
        /\ UNCHANGED <<setup, secret, tokens, sess, grants, attempts, resets, guesses, keeper, spared>>
    BY <1>1 DEF ChangeStart
  <2> HIDE DEF q, u
  <2> QED
    BY <2>1, <2>2, <2>3, StartsInv
<1>2. ASSUME NEW w \in Words \cup {Nobody}, SetupStart(r, w) PROVE Inv'
  <2> DEFINE p == Starts("setup", "write", FALSE)
             q == [p EXCEPT !.what = w]
  <2>1. Shape(q) /\ q.kind # "login" /\ q.step # "finish" /\ ~q.counted
    <3>1. Begun(p, "setup", "write")
      <4>1. "setup" \in Kinds /\ "write" \in Steps /\ FALSE \in BOOLEAN
        BY DEF Kinds, Steps
      <4> QED
        BY <1>0, <4>1, StartsShape, Zenon
    <3> HIDE DEF p
    <3> QED
      BY <3>1 DEF Begun, Shape, RequestStates
  <2> QED
    BY <1>2, <2>1, StartsInv DEF SetupStart
<1>3. ASSUME NEW by \in Callers, NEW t \in ApiTokens, CreateTokenStart(r, by, t) PROVE Inv'
  <2> DEFINE p == Starts("token", "write", FALSE)
             q == [p EXCEPT !.what = t, !.tag = TagOf(by)]
  <2>1. Shape(q) /\ q.kind # "login" /\ q.step # "finish" /\ ~q.counted
    <3>1. Begun(p, "token", "write")
      <4>1. "token" \in Kinds /\ "write" \in Steps /\ FALSE \in BOOLEAN
        BY DEF Kinds, Steps
      <4> QED
        BY <1>0, <4>1, StartsShape, Zenon
    <3>2. TagOf(by) \in {"current", "late"}
      BY DEF TagOf
    <3> HIDE DEF p
    <3> QED
      BY <3>1, <3>2 DEF Begun, Shape, RequestStates, Tags
  <2> QED
    BY <1>3, <2>1, StartsInv DEF CreateTokenStart
<1>4. ASSUME NEW by \in Callers, ResetStart(r, by) PROVE Inv'
  <2> DEFINE q == Starts("reset", "write", FALSE)
  <2>1. Shape(q) /\ q.kind # "login" /\ q.step # "finish" /\ ~q.counted
    <3>1. Begun(q, "reset", "write")
      <4>1. "reset" \in Kinds /\ "write" \in Steps /\ FALSE \in BOOLEAN
        BY DEF Kinds, Steps
      <4> QED
        BY <1>0, <4>1, StartsShape, Zenon
    <3> HIDE DEF q
    <3> QED
      BY <3>1 DEF Begun, Shape, RequestStates
  <2> QED
    BY <1>4, <2>1, StartsInv DEF ResetStart
<1> QED
  BY <1>1, <1>2, <1>3, <1>4

\* A request ends, and nothing else changes but a token or a confirmation.
LEMMA EndsInv ==
  ASSUME Inv, NEW r \in Requests, Ends(r), ~(At(r, "change", "finish") \/ At(r, "reset", "finish")),
         tokens' \in [ApiTokens -> Tags], \A t \in ApiTokens : tokens'[t] = "old" => spared',
         grants' \subseteq Sessions \X Classes,
         UNCHANGED <<setup, secret, sess, attempts, resets, guesses, keeper, spared>>
  PROVE  Inv'
<1>1. Shapes(req') /\ AllTame(req') /\ AllLess(req') /\ AllStay(req')
  BY EndsFacts DEF Ends, Inv, Types
<1>2. Types'
  BY <1>1 DEF Inv, Types, TypeOK, Shapes
<1>3. Balance'
  BY <1>1, <1>2, BalanceQuiet DEF Inv
<1> QED
  BY <1>1, <1>2, <1>3, SameSessions, Calmly

\* A change is refused, or a reset fails: nothing is written.
LEMMA RefusedInv ==
  ASSUME Inv, NEW r \in Requests, ChangeRefused(r) \/ ResetFails(r)
  PROVE  Inv'
<1>1. /\ tokens' \in [ApiTokens -> Tags] /\ \A t \in ApiTokens : tokens'[t] = "old" => spared'
      /\ grants' \subseteq Sessions \X Classes
  BY DEF ChangeRefused, ResetFails, Inv, Types, TypeOK
<1> QED
  BY <1>1, EndsInv DEF ChangeRefused, ResetFails, At

\* What the invariant says of one request.
LEMMA RequestFacts ==
  ASSUME Inv, NEW r \in Requests
  PROVE  Shape(req[r]) /\ req[r] \in RequestStates /\ secret \in Secrets
BY DEF Inv, Types, TypeOK, Shapes

LEMMA GrantInv ==
  ASSUME Inv, NEW r \in Requests, Grant(r)
  PROVE  Inv'
<1>1. grants' \subseteq Sessions \X Classes
  BY RequestFacts DEF Grant, At, Shape, Inv, Types, TypeOK
<1>2. tokens' \in [ApiTokens -> Tags] /\ \A t \in ApiTokens : tokens'[t] = "old" => spared'
  BY DEF Grant, Inv, Types, TypeOK
<1> QED
  BY <1>1, <1>2, EndsInv DEF Grant, At

LEMMA CreateTokenCommitInv ==
  ASSUME Inv, NEW r \in Requests, CreateTokenCommit(r)
  PROVE  Inv'
<1>1. tokens' \in [ApiTokens -> Tags] /\ \A t \in ApiTokens : tokens'[t] = "old" => spared'
  BY RequestFacts DEF CreateTokenCommit, Shape, RequestStates, Inv, Types, TypeOK
<1>2. grants' \subseteq Sessions \X Classes
  BY DEF CreateTokenCommit, Inv, Types, TypeOK
<1> QED
  BY <1>1, <1>2, EndsInv DEF CreateTokenCommit, At

\* A wrong password.
LEMMA WrongInv ==
  ASSUME Inv, NEW r \in Requests, Wrong(r), ~(At(r, "change", "finish") \/ At(r, "reset", "finish")),
         UNCHANGED <<setup, secret, tokens, sess, grants, attempts, resets, keeper, spared>>
  PROVE  Inv'
<1>1. Shapes(req') /\ AllTame(req') /\ AllStay(req')
  BY EndsFacts DEF Wrong, Ends, Inv, Types
<1>2. guesses' \in [Clients -> Nat]
  <2>1. guesses \in [Clients -> Nat]
    BY DEF Inv, Types, TypeOK
  <2>2. \/ guesses' = guesses
        \/ /\ guesses' = [guesses EXCEPT ![req[r].client] = guesses[req[r].client] + 1]
           /\ req[r].client \in Clients
    BY RequestFacts DEF Wrong, Shape
  <2> QED
    BY <2>1, <2>2
<1>3. Types'
  BY <1>1, <1>2 DEF Inv, Types, TypeOK, Shapes
<1>4. Balance'
  BY BalanceWrong DEF Inv
<1> QED
  BY <1>1, <1>3, <1>4, SameSessions, Calmly

\* A right one: f is what the step makes of the requests before the attempts are forgotten.
LEMMA RightInv ==
  ASSUME Inv, NEW c, NEW f, Shapes(f), AllTame(f), AllLess(f), AllStay(f), Forget(c, f),
         CalmSessions, sess' \in [Sessions -> Origins],
         UNCHANGED <<setup, secret, tokens, grants, resets, keeper, spared>>
  PROVE  Inv'
<1>1. req' = Uncounted(f, c)
  BY DEF Forget, Uncounted
<1>2. Shapes(req') /\ AllTame(req') /\ AllStay(req')
  BY <1>1, ForgetFacts
<1>3. attempts' \in [Clients -> 0 .. MaxFailures] /\ guesses' \in [Clients -> Nat]
  BY 0 \in 0 .. MaxFailures DEF Forget, Inv, Types, TypeOK
<1>4. Types'
  BY <1>2, <1>3 DEF Inv, Types, TypeOK, Shapes
<1>5. Balance'
  BY BalanceForget DEF Inv
<1> QED
  BY <1>2, <1>4, <1>5, Calmly

\* A session made by a login or a wizard was made with the password it knows.
LEMMA MadeFits ==
  ASSUME Inv, NEW r \in Requests, NEW s \in Sessions, IsNew(s), sess' = [sess EXCEPT ![s] = Made(r)],
         (req[r].kind = "login" /\ req[r].right) \/ At(r, "setup", "finish")
  PROVE  CalmSessions /\ sess' \in [Sessions -> Origins]
<1>1. Made(r) \in Origins /\ Made(r).tag # "old"
  <2>1. Shape(req[r]) /\ req[r] \in RequestStates
    BY RequestFacts
  <2>2. req[r].tag \in Tags /\ req[r].tag # "old" /\ req[r].seen.word \in Words \cup {Master, Nobody}
    BY <2>1 DEF Shape, RequestStates, Secrets
  <2>3. req[r].kind = "setup" => req[r].what \in Words \cup {Master, Nobody}
    BY <2>1 DEF Shape
  <2> QED
    BY <2>2, <2>3 DEF Made, Origins
<1>2. keeper # Nobody /\ Changed = {} /\ Made(r).tag # "late" => Made(r).word = secret.word
  BY DEF Inv, Passwords, Known, Made, At
<1>3. sess \in [Sessions -> Origins]
  BY DEF Inv, Types, TypeOK
<1> QED
  BY <1>1, <1>2, <1>3 DEF CalmSessions, Fits

LEMMA LoginJudgeInv ==
  ASSUME Inv, NEW r \in Requests, NEW s \in Sessions, LoginJudge(r, s)
  PROVE  Inv'
<1>0. ~(At(r, "change", "finish") \/ At(r, "reset", "finish")) /\ Shapes(req) /\ req[r].kind = "login"
  BY DEF LoginJudge, At, Inv, Types
<1>1. CASE ~req[r].right
  BY <1>0, <1>1, WrongInv DEF LoginJudge
<1>2. CASE req[r].right /\ req[r].seen.form = "hash"
  <2> DEFINE f == [req EXCEPT ![r] = Idle]
  <2>1. Shapes(f) /\ AllTame(f) /\ AllLess(f) /\ AllStay(f)
    BY <1>0, EndsFacts
  <2>2. CalmSessions /\ sess' \in [Sessions -> Origins]
    BY <1>2, MadeFits DEF LoginJudge, At
  <2> QED
    BY <1>2, <2>1, <2>2, RightInv DEF LoginJudge
<1>3. CASE req[r].right /\ req[r].seen.form # "hash"
  <2> DEFINE f == [req EXCEPT ![r].step = "write"]
  <2>1. Shapes(f) /\ AllTame(f) /\ AllLess(f) /\ AllStay(f)
    BY <1>0, <1>3, MovesFacts DEF Steps
  <2>2. CalmSessions /\ sess' \in [Sessions -> Origins]
    BY <1>3, SameSessions DEF LoginJudge, Inv, Types, TypeOK
  <2> QED
    BY <1>3, <2>1, <2>2, RightInv DEF LoginJudge
<1> QED
  BY <1>1, <1>2, <1>3

LEMMA StepUpJudgeInv ==
  ASSUME Inv, NEW r \in Requests, StepUpJudge(r)
  PROVE  Inv'
<1>0. ~(At(r, "change", "finish") \/ At(r, "reset", "finish")) /\ req[r].kind = "stepup" /\ Shapes(req)
  BY DEF StepUpJudge, At, Inv, Types
<1>1. CASE ~req[r].right
  BY <1>0, <1>1, WrongInv DEF StepUpJudge
<1>2. CASE req[r].right
  <2> DEFINE f == [req EXCEPT ![r].step = "finish"]
  <2>1. Shapes(f) /\ AllTame(f) /\ AllLess(f) /\ AllStay(f)
    BY <1>0, MovesFacts DEF Steps
  <2>2. CalmSessions /\ sess' \in [Sessions -> Origins]
    BY SameSessions DEF StepUpJudge, Inv, Types, TypeOK
  <2> QED
    BY <1>2, <2>1, <2>2, RightInv DEF StepUpJudge
<1> QED
  BY <1>1, <1>2

LEMMA IssueSessionInv ==
  ASSUME Inv, NEW r \in Requests, NEW s \in Sessions, IssueSession(r, s)
  PROVE  Inv'
<1>1. CalmSessions /\ sess' \in [Sessions -> Origins]
  BY RequestFacts, MadeFits DEF IssueSession, At, Shape
<1>2. Shapes(req') /\ AllTame(req') /\ AllLess(req') /\ AllStay(req')
  BY EndsFacts DEF IssueSession, Ends, At, Inv, Types
<1>3. Types'
  BY <1>1, <1>2 DEF IssueSession, Inv, Types, TypeOK, Shapes
<1>4. Balance'
  BY <1>2, <1>3, BalanceQuiet DEF IssueSession, Inv
<1> QED
  BY <1>1, <1>2, <1>3, <1>4, Calmly DEF IssueSession

LEMMA LoginMigrateInv ==
  ASSUME Inv, NEW r \in Requests, LoginMigrate(r)
  PROVE  Inv'
<1>0. /\ ~(At(r, "change", "finish") \/ At(r, "reset", "finish")) /\ Shapes(req)
      /\ tokens' = tokens /\ grants' = grants /\ spared' = spared
  BY DEF LoginMigrate, At, Inv, Types
<1>1. CASE Ends(r) /\ UNCHANGED <<secret, keeper>>
  <2>1. tokens' \in [ApiTokens -> Tags] /\ (\A t \in ApiTokens : tokens'[t] = "old" => spared')
        /\ grants' \subseteq Sessions \X Classes
    BY <1>0 DEF Inv, Types, TypeOK
  <2> QED
    BY <1>0, <1>1, <2>1, EndsInv DEF LoginMigrate
<1>2. CASE secret' = Hash(req[r].seen.word) /\ keeper' = Nobody /\ Moves(r, "finish")
  <2>1. req[r].kind = "login" /\ req[r].right
    BY RequestFacts DEF LoginMigrate, At, Shape
  <2>2. Shapes(req') /\ AllLess(req') /\ AllStay(req')
    BY <1>0, <1>2, <2>1, MovesFacts DEF Moves, Steps
  <2>3. secret' \in Secrets
    BY <1>2, RequestFacts DEF Hash, Secrets, Forms, RequestStates
  <2>4. Types'
    BY <1>2, <2>2, <2>3 DEF LoginMigrate, Inv, Types, TypeOK, Shapes
  <2>5. Balance'
    BY <2>2, <2>4, BalanceQuiet DEF LoginMigrate, Inv
  <2> QED
    BY <1>2, <2>2, <2>4, <2>5, SameSessions, Unkept DEF LoginMigrate
<1> QED
  BY <1>1, <1>2 DEF LoginMigrate

LEMMA SetupSaveInv ==
  ASSUME Inv, NEW r \in Requests, SetupSave(r)
  PROVE  Inv'
<1>0. /\ ~(At(r, "change", "finish") \/ At(r, "reset", "finish")) /\ Shapes(req)
      /\ tokens' = tokens /\ grants' = grants /\ spared' = spared
  BY DEF SetupSave, At, Inv, Types
<1>1. CASE Ends(r) /\ UNCHANGED <<setup, secret, keeper>>
  <2>1. tokens' \in [ApiTokens -> Tags] /\ (\A t \in ApiTokens : tokens'[t] = "old" => spared')
        /\ grants' \subseteq Sessions \X Classes
    BY <1>0 DEF Inv, Types, TypeOK
  <2> QED
    BY <1>0, <1>1, <2>1, EndsInv DEF SetupSave
<1>2. CASE setup' = TRUE /\ keeper' = Nobody
  <2>1. Shapes(req') /\ AllLess(req') /\ AllStay(req') /\ secret' \in Secrets
    <3>1. CASE req[r].what # Nobody /\ secret' = Hash(req[r].what) /\ Moves(r, "finish")
      <4>1. Shapes(req') /\ AllLess(req') /\ AllStay(req')
        BY <1>0, <3>1, MovesFacts DEF SetupSave, At, Moves, Steps
      <4>2. req[r].what \in Words \cup {Master, Nobody}
        BY RequestFacts DEF SetupSave, At, Shape
      <4> QED
        BY <3>1, <4>1, <4>2 DEF Hash, Secrets, Forms
    <3>2. CASE Ends(r) /\ secret' = IF IsRow(secret) THEN secret ELSE [form |-> "master", word |-> Master]
      <4>1. Shapes(req') /\ AllLess(req') /\ AllStay(req')
        BY <1>0, <3>2, EndsFacts DEF Ends
      <4>2. [form |-> "master", word |-> Master] \in Secrets
        BY DEF Secrets, Forms
      <4> QED
        BY <3>2, <4>1, <4>2, RequestFacts
    <3>3. CASE AlreadyFinished /\ Ends(r) /\ UNCHANGED <<setup, secret, keeper>>
      BY <1>0, <3>3, EndsFacts, RequestFacts DEF Ends
    <3> QED
      BY <3>1, <3>2, <3>3 DEF SetupSave
  <2>2. Types'
    BY <1>2, <2>1 DEF SetupSave, Inv, Types, TypeOK, Shapes
  <2>3. Balance'
    BY <2>1, <2>2, BalanceQuiet DEF SetupSave, Inv
  <2> QED
    BY <1>2, <2>1, <2>2, <2>3, SameSessions, Unkept DEF SetupSave
<1> QED
  BY <1>1, <1>2 DEF SetupSave

\* From its commit on, a change is one of the changes that will end the others' sessions.
LEMMA ChangeCommitInv ==
  ASSUME Inv, NEW r \in Requests, ChangeCommit(r)
  PROVE  Inv'
<1>0. /\ ~(At(r, "change", "finish") \/ At(r, "reset", "finish")) /\ Shapes(req)
      /\ tokens' = tokens /\ grants' = grants /\ spared' = spared
  BY DEF ChangeCommit, At, Inv, Types
<1>1. CASE Ends(r) /\ UNCHANGED <<secret, keeper>>
  <2>1. tokens' \in [ApiTokens -> Tags] /\ (\A t \in ApiTokens : tokens'[t] = "old" => spared')
        /\ grants' \subseteq Sessions \X Classes
    BY <1>0 DEF Inv, Types, TypeOK
  <2> QED
    BY <1>0, <1>1, <2>1, EndsInv DEF ChangeCommit
<1>2. CASE secret' = Hash(req[r].what) /\ keeper' = req[r].by /\ Moves(r, "finish")
  <2>1. req[r].kind = "change" /\ req[r].step # "judge" /\ req[r].what \in Words /\ req[r].by \in Sessions
    BY RequestFacts DEF ChangeCommit, At, Shape
  <2>2. Shapes(req') /\ AllLess(req') /\ AllStay(req')
    BY <1>0, <1>2, <2>1, MovesFacts DEF Moves, Steps
  <2>3. secret' \in Secrets
    BY <1>2, <2>1 DEF Hash, Secrets, Forms
  <2>4. Types'
    BY <1>2, <2>1, <2>2, <2>3 DEF ChangeCommit, Inv, Types, TypeOK, Shapes
  <2>5. Balance'
    BY <2>2, <2>4, BalanceQuiet DEF ChangeCommit, Inv
  <2>6. Wiped'
    BY <2>2, SameSessions, WipedStays DEF ChangeCommit, Inv
  <2>7. /\ req'[r].by = req[r].by /\ req'[r].kind = "change" /\ req'[r].step = "finish"
        /\ \A q \in Requests : q # r => req'[q] = req[q]
    BY <1>2, <2>1, RequestFacts DEF Moves, Inv, Types, TypeOK, RequestStates
  <2>8. r \in Changed'
    BY <2>7 DEF Changed, At
  <2>9. Known'
    BY <2>8 DEF Known
  <2>10. Spares'
    BY <1>2, <2>7, <2>8 DEF Spares
  <2> QED
    BY <2>4, <2>5, <2>6, <2>9, <2>10 DEF Inv, Passwords
<1> QED
  BY <1>1, <1>2 DEF ChangeCommit

\* The last change to end leaves at most the session of the keeper, and overtakes the rest.
LEMMA ChangeEndInv ==
  ASSUME Inv, NEW r \in Requests, ChangeEnd(r)
  PROVE  Inv'
<1>0. /\ ~At(r, "reset", "finish") /\ At(r, "change", "finish") /\ Shapes(req) /\ req' = OvertakenBy(r)
      /\ sess' = [s \in Sessions |-> IF s = req[r].by THEN sess[s] ELSE Ended]
      /\ UNCHANGED <<setup, secret, tokens, grants, attempts, resets, guesses, keeper, spared>>
  BY DEF ChangeEnd, EndOthers, At, Inv, Types
<1>1. Shapes(req') /\ AllLess(req') /\ AllStay(req')
  BY <1>0, OvertakenKeeps
<1>2. CalmSessions
  BY <1>0 DEF CalmSessions
<1>3. sess' \in [Sessions -> Origins]
  <2>1. Ended \in Origins
    BY DEF Ended, Origins, Tags
  <2> QED
    BY <1>0, <2>1 DEF Inv, Types, TypeOK
<1>4. Types'
  BY <1>0, <1>1, <1>3 DEF Inv, Types, TypeOK, Shapes
<1>5. Balance'
  BY <1>0, <1>1, <1>4, BalanceQuiet DEF Inv
<1>6. Wiped'
  BY <1>1, <1>2, WipedStays DEF Inv
<1>7. Live' \subseteq Live \cap {req[r].by}
  BY <1>0 DEF Live
<1>8. \A q \in Requests : \/ req'[q] = Idle
                          \/ /\ q # r /\ req'[q].kind = req[q].kind /\ req'[q].step = req[q].step
                             /\ req'[q].by = req[q].by /\ req'[q].tag = "late"
  <2>1. \A q \in Requests : req[q] \in RequestStates
    BY <1>0 DEF Shapes
  <2>2. \A q \in Requests :
          req'[q] = IF req[q].kind = "idle" \/ q = r THEN Idle ELSE [req[q] EXCEPT !.tag = "late"]
    BY <1>0 DEF OvertakenBy
  <2> QED
    BY <2>1, <2>2 DEF RequestStates
<1>9. Changed' = Changed \ {r} /\ \A q \in Changed' : req'[q].by = req[q].by
  <2>1. Idle.kind # "change"
    BY DEF Idle
  <2>2. req'[r] = Idle
    BY <1>0 DEF OvertakenBy
  <2>3. \A q \in Requests : q # r /\ req[q].kind = "change" =>
          req'[q].kind = req[q].kind /\ req'[q].step = req[q].step /\ req'[q].by = req[q].by
    <3>1. \A q \in Requests : q # r /\ req[q].kind = "change" => req'[q] = [req[q] EXCEPT !.tag = "late"]
      BY <1>0 DEF OvertakenBy
    <3>2. \A q \in Requests : req[q] \in RequestStates
      BY <1>0 DEF Shapes
    <3> QED
      BY <3>1, <3>2 DEF RequestStates
  <2> QED
    BY <1>8, <2>1, <2>2, <2>3 DEF Changed, At
<1>10. \/ keeper \in {Nobody, req[r].by} \/ req[r].by \notin Live
       \/ \E q \in Changed \ {r} : req[q].by = keeper
  BY <1>0 DEF Inv, Passwords, Spares, Changed
<1>11. Known'
  <2>1. Idle.kind = "idle"
    BY DEF Idle
  <2> QED
    BY <1>0, <1>7, <1>8, <1>9, <1>10, <2>1 DEF Known, At
<1>12. Spares'
  <2> SUFFICES ASSUME NEW q \in Changed \ {r}
               PROVE  \/ keeper \in {Nobody, req[q].by} \/ req[q].by \notin Live'
                      \/ \E p \in Changed \ {r, q} : req[p].by = keeper
    BY <1>0, <1>9 DEF Spares
  <2>1. \/ keeper \in {Nobody, req[q].by} \/ req[q].by \notin Live
        \/ \E p \in Changed \ {q} : req[p].by = keeper
    BY DEF Inv, Passwords, Spares
  <2> QED
    BY <1>7, <2>1
<1> QED
  BY <1>4, <1>5, <1>6, <1>11, <1>12 DEF Inv, Passwords

LEMMA ResetWipeInv ==
  ASSUME Inv, NEW r \in Requests, NEW fails \in BOOLEAN, ResetWipe(r, fails)
  PROVE  Inv'
<1> DEFINE q == [req[r] EXCEPT !.step = "finish"]
           f == OvertakenBy(r)
<1>0. /\ At(r, "reset", "write") /\ Shapes(req) /\ req' = [f EXCEPT ![r] = q]
      /\ keeper' = Nobody /\ UNCHANGED <<grants, attempts, guesses>>
  BY DEF ResetWipe, Inv, Types
<1>1. Shapes(f) /\ AllLess(f) /\ AllStay(f)
  BY <1>0, OvertakenKeeps DEF At
<1>2. Shape(q) /\ q.kind = "reset" /\ q.step = "finish" /\ Less(req[r], q)
  <2>1. req[r] \in RequestStates /\ Shape(req[r])
    BY RequestFacts
  <2> QED
    BY <1>0, <2>1, MovesShape DEF At, Less, RequestStates, Steps
<1> HIDE DEF f, q
<1>3. Shapes(req')
  BY <1>0, <1>1, <1>2, OneShape
<1>4. \A i \in Requests : req'[i] = IF i = r THEN q ELSE f[i]
  BY <1>0, <1>1 DEF Shapes
<1>5. AllLess(req')
  BY <1>1, <1>2, <1>4 DEF AllLess
<1>6. sess' \in [Sessions -> Origins]
  BY DEF ResetWipe, Aged, Origins, Tags, Inv, Types, TypeOK
<1>7. resets' \in Nat /\ spared' \in BOOLEAN
  BY DEF ResetWipe, Inv, Types, TypeOK
<1>8. /\ setup' = FALSE /\ secret' \in Secrets
      /\ tokens' \in [ApiTokens -> Tags] /\ \A t \in ApiTokens : tokens'[t] = "old" => spared'
  BY DEF ResetWipe, TokensAfter, Aged, NoSecret, Secrets, Forms, Tags, Inv, Types, TypeOK
<1>9. Types'
  BY <1>0, <1>3, <1>6, <1>7, <1>8 DEF Inv, Types, TypeOK, Shapes
<1>10. Balance'
  BY <1>0, <1>5, <1>9, BalanceQuiet DEF Inv
<1>11. Wiped'
  BY <1>2, <1>4 DEF Wiped, At
<1> QED
  BY <1>0, <1>9, <1>10, <1>11, NoKeeper DEF Inv

\* What ends all sessions.
LEMMA ResetDropInv ==
  ASSUME Inv, NEW r \in Requests, ResetDrop(r)
  PROVE  Inv'
<1>0. /\ ~At(r, "change", "finish") /\ Shapes(req) /\ req' = OvertakenBy(r) /\ grants' = {}
      /\ UNCHANGED <<setup, secret, tokens, attempts, resets, guesses, keeper, spared>>
  BY DEF ResetDrop, At, Inv, Types
<1>1. Shapes(req') /\ AllLess(req') /\ AllTame(req')
  BY <1>0, OvertakenKeeps
<1>2. (\A s \in Sessions : sess'[s] = Ended) /\ sess' \in [Sessions -> Origins]
  BY DEF ResetDrop, Ended, Origins, Tags
<1>3. Types'
  BY <1>0, <1>1, <1>2 DEF Inv, Types, TypeOK, Shapes
<1>4. Balance'
  BY <1>0, <1>1, <1>3, BalanceQuiet DEF Inv
<1>5. Passwords'
  BY <1>0, <1>1, <1>2, PasswordsStay DEF CalmSessions, Inv
<1> QED
  BY <1>2, <1>3, <1>4, <1>5, NoOld DEF Inv

LEMMA RestartInv ==
  ASSUME Inv, Restart
  PROVE  Inv'
<1>1. req' = [q \in Requests |-> Idle] /\ keeper' = Nobody /\ UNCHANGED <<setup, secret, tokens, resets, spared>>
  BY DEF Restart
<1>2. (\A s \in Sessions : sess'[s] = Ended) /\ sess' \in [Sessions -> Origins]
  BY DEF Restart, Ended, Origins, Tags
<1>3. Idle \in RequestStates
  BY IdleShape DEF Shape
<1>4. Shapes(req')
  BY <1>1, <1>3, IdleShape DEF Shapes
<1>5. attempts' \in [Clients -> 0 .. MaxFailures] /\ guesses' \in [Clients -> Nat] /\ grants' = {}
  BY 0 \in 0 .. MaxFailures DEF Restart
<1>6. Types'
  BY <1>1, <1>2, <1>4, <1>5 DEF Inv, Types, TypeOK, Shapes
<1>7. Balance'
  <2> SUFFICES ASSUME NEW c \in Clients PROVE guesses'[c] + Cardinality(Judged(req', c)) <= attempts'[c]
    BY DEF Balance
  <2>1. ~Idle.counted
    BY DEF Idle
  <2>2. Judged(req', c) = {}
    BY <1>1, <2>1 DEF Judged
  <2>3. Cardinality(Judged(req', c)) = 0
    BY <2>2, FS_EmptySet
  <2> QED
    BY <2>3 DEF Restart
<1> QED
  BY <1>1, <1>2, <1>6, <1>7, NoOld, NoKeeper DEF Inv

LEMMA AttemptExpiresInv ==
  ASSUME Inv, NEW c \in Clients, AttemptExpires(c)
  PROVE  Inv'
<1>0. /\ attempts[c] > 0 /\ attempts' = [attempts EXCEPT ![c] = attempts[c] - 1]
      /\ attempts \in [Clients -> 0 .. MaxFailures] /\ guesses \in [Clients -> Nat] /\ Shapes(req)
      /\ UNCHANGED <<setup, secret, tokens, sess, grants, resets, keeper, spared>>
  BY DEF AttemptExpires, Inv, Types, TypeOK
<1>1. attempts' \in [Clients -> 0 .. MaxFailures]
  BY <1>0
<1>2. ASSUME NEW d \in Clients
      PROVE  /\ guesses[d] \in Nat /\ attempts[d] \in Nat /\ Cardinality(Judged(req, d)) \in Nat
             /\ guesses[d] + Cardinality(Judged(req, d)) <= attempts[d]
             /\ Cardinality(Judged(req', d)) \in Nat
  BY <1>0, JudgedFinite DEF Inv, Balance
<1>3. CASE guesses[c] > 0 /\ guesses' = [guesses EXCEPT ![c] = guesses[c] - 1] /\ UNCHANGED req
  <2>1. AllTame(req') /\ AllStay(req')
    BY <1>3 DEF AllTame, AllStay, Tame, Stays
  <2>2. guesses' \in [Clients -> Nat]
    BY <1>0, <1>3
  <2>3. Types'
    BY <1>0, <1>1, <1>3, <2>2 DEF Inv, Types, TypeOK, Shapes
  <2>4. Balance'
    <3> SUFFICES ASSUME NEW d \in Clients PROVE guesses'[d] + Cardinality(Judged(req, d)) <= attempts'[d]
      BY <1>3 DEF Balance
    <3>1. d = c => guesses'[d] = guesses[d] - 1 /\ attempts'[d] = attempts[d] - 1
      BY <1>0, <1>3
    <3>2. d # c => guesses'[d] = guesses[d] /\ attempts'[d] = attempts[d]
      BY <1>0, <1>3
    <3> QED
      BY <1>2, <3>1, <3>2
  <2> QED
    BY <1>0, <2>1, <2>3, <2>4, SameSessions, Calmly
<1>4. CASE UNCHANGED guesses /\ \E r \in Requests : /\ req[r].client = c /\ req[r].counted
                                                    /\ req' = [req EXCEPT ![r].counted = FALSE]
  <2>1. PICK r \in Requests : req[r].client = c /\ req[r].counted /\ req' = [req EXCEPT ![r].counted = FALSE]
    BY <1>4
  <2> DEFINE q == [req[r] EXCEPT !.counted = FALSE]
  <2>2. Shape(q) /\ Tame(req[r], q) /\ Stays(req[r], q) /\ q.client = req[r].client /\ ~q.counted
    BY RequestFacts DEF Shape, Tame, Stays, RequestStates
  <2>3. req' = [req EXCEPT ![r] = q]
    BY <2>1
  <2> HIDE DEF q
  <2>4. Shapes(req') /\ AllTame(req') /\ AllStay(req')
    BY <1>0, <2>2, <2>3, OneFacts
  <2>5. Types'
    BY <1>0, <1>1, <1>4, <2>4 DEF Inv, Types, TypeOK, Shapes
  <2>6. \A d \in Clients : Judged(req', d) = Judged(req, d) \ {r} /\ (r \in Judged(req, d) <=> d = c)
    BY <1>0, <2>1, <2>2, <2>3 DEF Judged, Shapes
  <2>7. Balance'
    <3> SUFFICES ASSUME NEW d \in Clients PROVE guesses[d] + Cardinality(Judged(req', d)) <= attempts'[d]
      BY <1>4 DEF Balance
    <3>1. CASE d = c
      <4>1. attempts'[d] = attempts[d] - 1
        BY <1>0, <3>1
      <4>2. IsFiniteSet(Judged(req, d)) /\ r \in Judged(req, d)
        BY <2>6, <3>1, JudgedFinite
      <4>3. Cardinality(Judged(req, d) \ {r}) = Cardinality(Judged(req, d)) - 1
        BY <4>2, FS_RemoveElement
      <4>4. Judged(req', d) = Judged(req, d) \ {r}
        BY <2>6
      <4>5. Cardinality(Judged(req', d)) = Cardinality(Judged(req, d)) - 1
        BY <4>3, <4>4
      <4> QED
        BY <1>2, <4>1, <4>5
    <3>2. CASE d # c
      <4>1. attempts'[d] = attempts[d]
        BY <1>0, <3>2
      <4>2. Judged(req', d) = Judged(req, d)
        BY <2>6, <3>2
      <4> QED
        BY <1>2, <4>1, <4>2
    <3> QED
      BY <3>1, <3>2
  <2> QED
    BY <1>0, <2>4, <2>5, <2>7, SameSessions, Calmly
<1> QED
  BY <1>3, <1>4 DEF AttemptExpires

\* The rest touches no request.
LEMMA AroundInv ==
  ASSUME Inv,
         \/ \E s \in Sessions : Logout(s)
         \/ \E by \in Callers, t \in ApiTokens : DeleteToken(by, t)
         \/ \E g \in grants : GrantExpires(g)
         \/ UNCHANGED vars
  PROVE  Inv'
<1>0. /\ UNCHANGED <<setup, secret, attempts, req, resets, guesses, keeper, spared>>
      /\ sess' = sess \/ \E s \in Sessions : sess' = [sess EXCEPT ![s] = Ended]
  BY DEF Logout, DeleteToken, GrantExpires, vars
<1>1. CalmSessions /\ sess' \in [Sessions -> Origins]
  BY <1>0 DEF CalmSessions, Ended, Origins, Tags, Inv, Types, TypeOK
<1>2. tokens' \in [ApiTokens -> Tags] /\ \A t \in ApiTokens : tokens'[t] = "old" => spared'
  <2>1. tokens' = tokens \/ \E t \in ApiTokens : tokens' = [tokens EXCEPT ![t] = "none"]
    BY DEF Logout, DeleteToken, GrantExpires, vars
  <2> QED
    BY <1>0, <2>1 DEF Tags, Inv, Types, TypeOK
<1>3. grants' \subseteq grants
  BY DEF Logout, DeleteToken, GrantExpires, vars
<1>4. Types'
  BY <1>0, <1>1, <1>2, <1>3 DEF Inv, Types, TypeOK, Shapes
<1>5. AllTame(req') /\ AllStay(req') /\ AllLess(req')
  BY <1>0 DEF AllTame, AllStay, AllLess, Tame, Stays, Less
<1>6. Balance'
  BY <1>0, <1>4, <1>5, BalanceQuiet DEF Inv
<1> QED
  BY <1>0, <1>1, <1>4, <1>5, <1>6, Calmly

-----------------------------------------------------------------------------
(* The invariant and the theorems *)

LEMMA InvInit == Init => Inv
<1> SUFFICES ASSUME Init PROVE Inv
  OBVIOUS
<1>1. \A r \in Requests : req[r] = Idle
  BY DEF Init
<1>2. Idle \in RequestStates /\ Ended \in Origins /\ Ended.tag # "old"
  BY IdleShape DEF Shape, Ended, Origins, Tags
<1>3. Shapes(req)
  BY <1>1, <1>2, IdleShape DEF Shapes, Init
<1>4. secret \in Secrets /\ setup \in BOOLEAN
  <2>1. CASE setup = FALSE /\ secret = NoSecret
    BY <2>1 DEF NoSecret, Secrets, Forms
  <2>2. CASE setup = TRUE /\ secret \in {[form |-> "plain", word |-> w] : w \in Words}
    BY <2>2 DEF Secrets, Forms
  <2> QED
    BY <2>1, <2>2 DEF Init
<1>5. attempts \in [Clients -> 0 .. MaxFailures] /\ guesses \in [Clients -> Nat]
  BY 0 \in 0 .. MaxFailures DEF Init
<1>6. /\ tokens \in [ApiTokens -> Tags] /\ \A t \in ApiTokens : tokens[t] = "old" => spared
      /\ sess \in [Sessions -> Origins] /\ \A s \in Sessions : sess[s] = Ended
  BY <1>2 DEF Init, Tags
<1>7. grants = {} /\ resets = 0 /\ keeper = Nobody /\ spared = FALSE
  BY DEF Init
<1>8. Types
  BY <1>3, <1>4, <1>5, <1>6, <1>7 DEF Types, TypeOK, Shapes
<1>9. Balance
  <2> SUFFICES ASSUME NEW c \in Clients PROVE guesses[c] + Cardinality(Judged(req, c)) <= attempts[c]
    BY DEF Balance
  <2>1. ~Idle.counted
    BY DEF Idle
  <2>2. Judged(req, c) = {}
    BY <1>1, <2>1 DEF Judged
  <2>3. Cardinality(Judged(req, c)) = 0
    BY <2>2, FS_EmptySet
  <2>4. guesses[c] = 0 /\ attempts[c] = 0
    BY DEF Init
  <2> QED
    BY <2>3, <2>4
<1>10. Wiped
  BY <1>2, <1>6 DEF Wiped
<1>11. Passwords
  BY <1>7 DEF Passwords, Known, Spares
<1> QED
  BY <1>8, <1>9, <1>10, <1>11 DEF Inv

LEMMA InvNext == Inv /\ [Next]_vars => Inv'
<1> SUFFICES ASSUME Inv, [Next]_vars PROVE Inv'
  OBVIOUS
<1>1. ASSUME NEW r \in Requests, NEW c \in Clients, NEW right \in BOOLEAN, LoginStart(r, c, right)
      PROVE Inv'
  BY <1>1, LoginStartInv
<1>2. ASSUME NEW r \in Requests, NEW s \in Sessions, LoginJudge(r, s) \/ IssueSession(r, s)
      PROVE Inv'
  BY <1>2, LoginJudgeInv, IssueSessionInv
<1>3. ASSUME NEW r \in Requests,
             \/ LoginMigrate(r) \/ ChangeRefused(r) \/ ChangeCommit(r) \/ ChangeEnd(r)
             \/ StepUpJudge(r) \/ Grant(r) \/ SetupSave(r) \/ CreateTokenCommit(r)
             \/ ResetFails(r) \/ ResetDrop(r) \/ \E fails \in BOOLEAN : ResetWipe(r, fails)
      PROVE Inv'
  BY <1>3, LoginMigrateInv, ChangeCommitInv, ChangeEndInv, StepUpJudgeInv, GrantInv, SetupSaveInv,
     CreateTokenCommitInv, RefusedInv, ResetWipeInv, ResetDropInv
<1>4. ASSUME NEW r \in Requests, NEW s \in Sessions, NEW c \in Clients, NEW right \in BOOLEAN,
             NEW cl \in Classes, StepUpStart(r, s, c, right, cl)
      PROVE Inv'
  BY <1>4, StepUpStartInv
<1>5. ASSUME NEW r \in Requests,
             \/ \E s \in Sessions, new \in Words : ChangeStart(r, s, new)
             \/ \E w \in Words \cup {Nobody} : SetupStart(r, w)
             \/ \E by \in Callers, t \in ApiTokens : CreateTokenStart(r, by, t)
             \/ \E by \in Callers : ResetStart(r, by)
      PROVE Inv'
  BY <1>5, OtherStartsInv
<1>6. ASSUME NEW c \in Clients, AttemptExpires(c) PROVE Inv'
  BY <1>6, AttemptExpiresInv
<1>7. CASE Restart
  BY <1>7, RestartInv
<1>8. CASE \/ \E s \in Sessions : Logout(s)
           \/ \E by \in Callers, t \in ApiTokens : DeleteToken(by, t)
           \/ \E g \in grants : GrantExpires(g)
           \/ UNCHANGED vars
  BY <1>8, AroundInv
<1> QED
  BY <1>1, <1>2, <1>3, <1>4, <1>5, <1>6, <1>7, <1>8 DEF Next

LEMMA InvAlways == Spec => []Inv
BY InvInit, InvNext, PTL DEF Spec

LEMMA InvHolds == Inv => GuessesBounded /\ PasswordChangeEndsOthers /\ ResetEndsAll
<1> SUFFICES ASSUME Inv PROVE GuessesBounded /\ PasswordChangeEndsOthers /\ ResetEndsAll
  OBVIOUS
<1>1. GuessesBounded
  <2>1. ASSUME NEW c \in Clients PROVE guesses[c] <= MaxFailures
    <3>1. /\ guesses[c] \in Nat /\ attempts[c] \in 0 .. MaxFailures /\ Cardinality(Judged(req, c)) \in Nat
          /\ guesses[c] + Cardinality(Judged(req, c)) <= attempts[c]
      BY JudgedFinite DEF Inv, Types, TypeOK, Balance
    <3> QED
      BY <3>1
  <2> QED
    BY <2>1 DEF GuessesBounded, Inv, Types
<1>2. PasswordChangeEndsOthers
  BY DEF PasswordChangeEndsOthers, Inv, Passwords, Known, Changed
<1>3. ResetEndsAll
  BY DEF ResetEndsAll, Inv, Wiped, Types
<1> QED
  BY <1>1, <1>2, <1>3

\* The types, and the limit of wrong passwords within a window, for any number of requests
\* of one client at once (_reserve_login_attempt).
THEOREM GuessesLimited == Spec => []GuessesBounded
<1>1. Inv => GuessesBounded
  BY InvHolds
<1> QED
  BY <1>1, InvAlways, PTL

\* Once every change of the password is through, only the changer's session and logins it
\* overtook were made with another password (change_password).
THEOREM ChangeEndsOthers == Spec => []PasswordChangeEndsOthers
<1>1. Inv => PasswordChangeEndsOthers
  BY InvHolds
<1> QED
  BY <1>1, InvAlways, PTL

\* A reset leaves no session of the former instance, and none of its API tokens unless their
\* DELETE failed and was skipped (reset_database).
THEOREM ResetEnds == Spec => []ResetEndsAll
<1>1. Inv => ResetEndsAll
  BY InvHolds
<1> QED
  BY <1>1, InvAlways, PTL

\* After the setup the password is replaced only by a request that was given the one it had
\* read (change_password, login, setup).
THEOREM KnownReplaces == Spec => OnlyKnownReplaces
<1> DEFINE Replaced == setup /\ setup' /\ secret' # secret
           ByKnowing == \E r \in Requests :
                          req[r].kind \in {"login", "change"} /\ req[r].right /\ req'[r] # req[r]
<1>1. ASSUME Inv, Next, Replaced PROVE ByKnowing
  <2>1. PICK r \in Requests : LoginMigrate(r) \/ ChangeCommit(r)
    <3>1. ASSUME NEW r \in Requests PROVE ~SetupSave(r) /\ \A fails \in BOOLEAN : ~ResetWipe(r, fails)
      BY <1>1 DEF SetupSave, AlreadyFinished, ResetWipe
    <3>2. ASSUME NEW r \in Requests,
                 \/ \E c \in Clients, right \in BOOLEAN : LoginStart(r, c, right)
                 \/ \E s \in Sessions : LoginJudge(r, s) \/ IssueSession(r, s)
                 \/ \E by \in Callers : ResetStart(r, by)
                 \/ ChangeRefused(r) \/ ResetFails(r)
                 \/ ChangeEnd(r) \/ StepUpJudge(r) \/ Grant(r) \/ CreateTokenCommit(r) \/ ResetDrop(r)
                 \/ \E s \in Sessions, new \in Words : ChangeStart(r, s, new)
                 \/ \E s \in Sessions, c \in Clients, right \in BOOLEAN, cl \in Classes :
                      StepUpStart(r, s, c, right, cl)
                 \/ \E w \in Words \cup {Nobody} : SetupStart(r, w)
                 \/ \E by \in Callers, t \in ApiTokens : CreateTokenStart(r, by, t)
          PROVE FALSE
      BY <1>1, <3>2 DEF LoginStart, LoginJudge, IssueSession, ResetStart, ChangeEnd, StepUpJudge, Grant,
                        CreateTokenCommit, ResetDrop, ResetFails, ChangeRefused, ChangeStart, StepUpStart, SetupStart, CreateTokenStart
    <3>3. ~ \/ \E s \in Sessions : Logout(s)
            \/ \E by \in Callers, t \in ApiTokens : DeleteToken(by, t)
            \/ \E c \in Clients : AttemptExpires(c)
            \/ \E g \in grants : GrantExpires(g)
            \/ Restart
      BY <1>1 DEF Logout, DeleteToken, AttemptExpires, GrantExpires, Restart
    <3> QED
      BY <1>1, <3>1, <3>2, <3>3 DEF Next
  <2>2. req[r].kind \in {"login", "change"} /\ req[r].step = "write" /\ req[r] \in RequestStates
    BY <1>1, <2>1, RequestFacts DEF LoginMigrate, ChangeCommit, At
  <2>3. req[r].right
    BY <1>1, <2>2, RequestFacts DEF Shape
  <2>4. req' = [req EXCEPT ![r].step = "finish"] /\ req \in [Requests -> RequestStates]
    BY <1>1, <2>1 DEF LoginMigrate, ChangeCommit, Moves, Inv, Types, TypeOK
  <2>5. req'[r].step = "finish"
    BY <2>2, <2>4 DEF RequestStates
  <2> QED
    BY <2>2, <2>3, <2>5
<1>2. Inv /\ [Next]_vars => [Replaced => ByKnowing]_vars
  BY <1>1
<1>3. Spec => [][Replaced => ByKnowing]_vars
  BY <1>2, InvAlways, PTL DEF Spec
<1> QED
  BY <1>3 DEF OnlyKnownReplaces
===============================================================================
