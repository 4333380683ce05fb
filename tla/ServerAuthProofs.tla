---------------------------- MODULE ServerAuthProofs ---------------------------
(***************************************************************************)
(* Proofs about ServerAuth, for any number of contexts, attempts, requests *)
(* and restarts.                                                           *)
(***************************************************************************)
EXTENDS ServerAuth, TLAPS

-----------------------------------------------------------------------------
(* The records of requests: what each helper returns.                      *)

LEMMA SetContext ==
    ASSUME NEW k \in Cookies, NEW v \in Contexts \cup {NoHandle}
    PROVE  /\ [k EXCEPT !["context"] = v] \in Cookies
           /\ [k EXCEPT !["context"] = v].context = v
BY SMT DEF Cookies

LEMMA SetBinding ==
    ASSUME NEW k \in Cookies, NEW v \in MaybeAttempt
    PROVE  /\ [k EXCEPT !["binding"] = v] \in Cookies
           /\ [k EXCEPT !["binding"] = v].context = k.context
BY SMT DEF Cookies

LEMMA SetTombstone ==
    ASSUME NEW k \in Cookies, NEW v \in BOOLEAN
    PROVE  /\ [k EXCEPT !["tombstone"] = v] \in Cookies
           /\ [k EXCEPT !["tombstone"] = v].context = k.context
BY SMT DEF Cookies

LEMMA SetSession ==
    ASSUME NEW k \in Cookies, NEW v \in BOOLEAN
    PROVE  /\ [k EXCEPT !["session"] = v] \in Cookies
           /\ [k EXCEPT !["session"] = v].context = k.context
BY SMT DEF Cookies

\* What the invariants see of a request, but for its place: of its cookies only
\* the context.
Alike(p, q) == /\ p.op = q.op
               /\ p.attempt = q.attempt
               /\ p.plan = q.plan
               /\ p.generation = q.generation
               /\ p.answer = q.answer
               /\ p.cookies.context = q.cookies.context

LEMMA PutChanges ==
    ASSUME NEW q \in RequestRecords, NEW n \in CookieNames, NEW v,
           [q.cookies EXCEPT ![n] = v] \in Cookies
    PROVE  /\ Put(q, n, v) \in RequestRecords
           /\ Put(q, n, v).cookies = [q.cookies EXCEPT ![n] = v]
           /\ Put(q, n, v).op = q.op
           /\ Put(q, n, v).at = q.at
           /\ Put(q, n, v).attempt = q.attempt
           /\ Put(q, n, v).plan = q.plan
           /\ Put(q, n, v).generation = q.generation
           /\ Put(q, n, v).answer = q.answer
           /\ Put(q, n, v).previous = q.previous
<1> DEFINE k == [q.cookies EXCEPT ![n] = v]
<1>1. Put(q, n, v) = [q EXCEPT !.cookies = k, !.changed = @ \cup {n}]
  BY Zenon DEF Put
<1>2. q.changed \cup {n} \in SUBSET CookieNames
  BY SMT DEF RequestRecords
<1>3. k \in Cookies
  OBVIOUS
<1> HIDE DEF k
<1>4. [q EXCEPT !.cookies = k, !.changed = @ \cup {n}] \in RequestRecords
  BY <1>2, <1>3, Zenon DEF RequestRecords
<1>5. /\ [q EXCEPT !.cookies = k, !.changed = @ \cup {n}].cookies = k
      /\ [q EXCEPT !.cookies = k, !.changed = @ \cup {n}].op = q.op
      /\ [q EXCEPT !.cookies = k, !.changed = @ \cup {n}].at = q.at
      /\ [q EXCEPT !.cookies = k, !.changed = @ \cup {n}].attempt = q.attempt
      /\ [q EXCEPT !.cookies = k, !.changed = @ \cup {n}].plan = q.plan
      /\ [q EXCEPT !.cookies = k, !.changed = @ \cup {n}].generation = q.generation
      /\ [q EXCEPT !.cookies = k, !.changed = @ \cup {n}].answer = q.answer
      /\ [q EXCEPT !.cookies = k, !.changed = @ \cup {n}].previous = q.previous
  BY SMT DEF RequestRecords
<1>6. QED
  BY <1>1, <1>4, <1>5 DEF k

LEMMA PutContext ==
    ASSUME NEW q \in RequestRecords, NEW v \in Contexts \cup {NoHandle}
    PROVE  /\ Put(q, "context", v) \in RequestRecords
           /\ Put(q, "context", v).cookies.context = v
           /\ Put(q, "context", v).op = q.op
           /\ Put(q, "context", v).cookies.tombstone = q.cookies.tombstone
<1>1. q.cookies \in Cookies
  BY SMT DEF RequestRecords
<1>2. /\ [q.cookies EXCEPT !["context"] = v] \in Cookies
      /\ [q.cookies EXCEPT !["context"] = v].context = v
  BY <1>1, SetContext
<1>3. [q.cookies EXCEPT !["context"] = v].tombstone = q.cookies.tombstone
  BY <1>1, SMT DEF Cookies
<1>4. "context" \in CookieNames
  BY DEF CookieNames
<1>5. /\ Put(q, "context", v) \in RequestRecords
      /\ Put(q, "context", v).cookies = [q.cookies EXCEPT !["context"] = v]
      /\ Put(q, "context", v).op = q.op
  BY <1>2, <1>4, PutChanges
<1>6. QED
  BY <1>2, <1>3, <1>5

LEMMA PutOther ==
    ASSUME NEW q \in RequestRecords, NEW n \in CookieNames, NEW v,
           \/ n = "binding" /\ v \in MaybeAttempt
           \/ n \in {"tombstone", "session"} /\ v \in BOOLEAN
    PROVE  /\ Put(q, n, v) \in RequestRecords
           /\ Alike(Put(q, n, v), q)
           /\ Put(q, n, v).at = q.at
<1>1. q.cookies \in Cookies
  BY SMT DEF RequestRecords
<1>2. /\ [q.cookies EXCEPT ![n] = v] \in Cookies
      /\ [q.cookies EXCEPT ![n] = v].context = q.cookies.context
  <2>1. CASE n = "binding" /\ v \in MaybeAttempt
    BY <1>1, <2>1, SetBinding
  <2>2. CASE n = "tombstone" /\ v \in BOOLEAN
    BY <1>1, <2>2, SetTombstone
  <2>3. CASE n = "session" /\ v \in BOOLEAN
    BY <1>1, <2>3, SetSession
  <2>4. QED
    BY <2>1, <2>2, <2>3
<1>3. /\ Put(q, n, v) \in RequestRecords
      /\ Put(q, n, v).cookies = [q.cookies EXCEPT ![n] = v]
      /\ Put(q, n, v).op = q.op
      /\ Put(q, n, v).at = q.at
      /\ Put(q, n, v).attempt = q.attempt
      /\ Put(q, n, v).plan = q.plan
      /\ Put(q, n, v).generation = q.generation
      /\ Put(q, n, v).answer = q.answer
  BY <1>2, PutChanges
<1>4. QED
  BY <1>2, <1>3 DEF Alike

LEMMA CleanedAlike ==
    ASSUME NEW q \in RequestRecords
    PROVE  Cleaned(q) \in RequestRecords /\ Alike(Cleaned(q), q) /\ Cleaned(q).at = q.at
BY PutOther DEF Cleaned, CookieNames, MaybeAttempt

LEMMA IdleType == Idle \in RequestRecords
<1>1. NoCookies \in Cookies /\ NoHandle \in MaybeAttempt /\ 0 \in 0..MaxGeneration
  BY FenceAssumption, SMT DEF FenceAssumption, NoCookies, Cookies, MaybeAttempt
<1>2. QED
  BY <1>1, Zenon DEF Idle, RequestRecords, Operations, Plans, Answers, CookieNames

LEMMA AnswerFields ==
    ASSUME NEW q \in RequestRecords, NEW n \in {"ok", "failed"}
    PROVE  /\ Answer(q, n) \in RequestRecords
           /\ Answer(q, n).op = q.op
           /\ Answer(q, n).at = "answered"
           /\ Answer(q, n).answer = n
           /\ Answer(q, n).attempt = IF q.op = "prepare" /\ n = "ok" THEN q.attempt ELSE NoHandle
<1> DEFINE k == [m \in CookieNames |-> IF m \in q.changed THEN q.cookies[m] ELSE NoCookies[m]]
           a == IF q.op = "prepare" /\ n = "ok" THEN q.attempt ELSE NoHandle
<1>1. k \in Cookies
  <2>1. NoCookies \in Cookies /\ q.cookies \in Cookies
    BY SMT DEF NoCookies, Cookies, MaybeAttempt, RequestRecords
  <2>2. QED
    BY <2>1, SMT DEF Cookies, CookieNames
<1>2. a \in MaybeAttempt /\ q.changed \in SUBSET CookieNames /\ q.op \in Operations \cup {"none"}
  BY SMT DEF RequestRecords, MaybeAttempt
<1>3. 0 \in 0..MaxGeneration /\ n \in Answers /\ NoCookies \in Cookies
  <2>1. 0 \in 0..MaxGeneration
    BY FenceAssumption DEF FenceAssumption
  <2>2. NoCookies \in Cookies
    BY SMT DEF NoCookies, Cookies, MaybeAttempt
  <2>3. QED
    BY <2>1, <2>2 DEF Answers
<1>4. Answer(q, n) = [Idle EXCEPT !.op = q.op, !.at = "answered", !.answer = n,
                                  !.changed = q.changed, !.attempt = a, !.cookies = k]
  BY Zenon DEF Answer
<1> HIDE DEF k, a
<1>5. Answer(q, n) \in RequestRecords
  BY <1>1, <1>2, <1>3, <1>4, IdleType, Zenon DEF RequestRecords
<1>6. /\ Answer(q, n).op = q.op
      /\ Answer(q, n).at = "answered"
      /\ Answer(q, n).answer = n
      /\ Answer(q, n).attempt = a
  BY <1>4, IdleType, SMT DEF RequestRecords
<1>7. QED
  BY <1>5, <1>6 DEF a

LEMMA MoveAlike ==
    ASSUME NEW q \in RequestRecords,
           NEW p \in {"exchanging", "completing", "establishing", "committing", "confirming",
                      "revalidating", "failing", "associating"}
    PROVE  /\ Goto(q, p) \in RequestRecords
           /\ Alike(Goto(q, p), q) /\ Goto(q, p).at = p
           /\ Awaits(q, p) \in RequestRecords
           /\ Alike(Awaits(q, p), q) /\ Awaits(q, p).at = p
<1>1. Goto(q, p) \in RequestRecords /\ Awaits(q, p) \in RequestRecords
  BY Zenon DEF Goto, Awaits, RequestRecords
<1>2. Alike(Goto(q, p), q) /\ Goto(q, p).at = p
  BY SMT DEF Goto, Alike, RequestRecords
<1>3. Alike(Awaits(q, p), q) /\ Awaits(q, p).at = p
  BY SMT DEF Awaits, Alike, RequestRecords
<1>4. QED
  BY <1>1, <1>2, <1>3

LEMMA FailsFields ==
    ASSUME NEW q \in RequestRecords
    PROVE  /\ Fails(q) \in RequestRecords
           /\ Fails(q).op = q.op
           /\ Fails(q).at = "failing"
           /\ Fails(q).attempt = NoHandle
<1>1. Awaits(q, "failing") \in RequestRecords
  BY MoveAlike
<1>2. Awaits(q, "failing").op = q.op /\ Awaits(q, "failing").at = "failing"
  BY SMT DEF Awaits, RequestRecords
<1>3. Fails(q) \in RequestRecords
  BY <1>1, Zenon DEF Fails, RequestRecords, MaybeAttempt
<1>4. QED
  BY <1>1, <1>2, <1>3, SMT DEF Fails, RequestRecords

-----------------------------------------------------------------------------
(* The authority: what its operations leave of an attempt.                 *)

\* An attempt may be lost and its binding removed, and nothing else.
Weakens(after) ==
    /\ after \in [Attempts -> AttemptRecords]
    /\ \A a \in Attempts :
           /\ after[a].context = attempts[a].context
           /\ after[a].generation = attempts[a].generation
           /\ after[a].associated = attempts[a].associated
           /\ \/ after[a].status = attempts[a].status
              \/ attempts[a].status # "unused" /\ after[a].status = "lost"
           /\ after[a].bound => attempts[a].bound

LEMMA NothingWeakens ==
    ASSUME FenceTypeOK
    PROVE  Weakens(attempts)
BY DEF Weakens, FenceTypeOK

LEMMA UnboundWeakens ==
    ASSUME FenceTypeOK, NEW b
    PROVE  /\ Weakens(Unbound(b))
           /\ \A a \in Attempts : Unbound(b)[a].status = attempts[a].status
           /\ b \in Attempts => ~Unbound(b)[b].bound
<1>1. \A a \in Attempts : attempts[a] \in AttemptRecords
  BY DEF FenceTypeOK
<1>2. \A a \in Attempts : [attempts[a] EXCEPT !.bound = FALSE] \in AttemptRecords
  BY <1>1, Zenon DEF AttemptRecords
<1>3. \A a \in Attempts : Unbound(b)[a] = IF a = b THEN [attempts[a] EXCEPT !.bound = FALSE]
                                                  ELSE attempts[a]
  BY DEF Unbound
<1>4. QED
  BY <1>1, <1>2, <1>3, SMT DEF Unbound, Weakens, AttemptRecords

LEMMA RolledBackWeakens ==
    ASSUME FenceTypeOK, NEW c, NEW a \in Attempts
    PROVE  /\ Weakens(RolledBack(c, a))
           /\ \A b \in Attempts : RolledBack(c, a)[b].status = attempts[b].status
           /\ Known(c) /\ attempts[a].context = c => ~RolledBack(c, a)[a].bound
BY UnboundWeakens, NothingWeakens DEF RolledBack

LEMMA AbandonedWeakens ==
    ASSUME FenceTypeOK, NEW c, NEW a \in Attempts, attempts[a].status # "unused"
    PROVE  /\ Weakens(Abandoned(c, a))
           /\ \A b \in Attempts \ {a} : Abandoned(c, a)[b] = attempts[b]
<1>1. [attempts[a] EXCEPT !.status = "lost"] \in AttemptRecords
  <2>1. attempts[a] \in AttemptRecords
    BY DEF FenceTypeOK
  <2>2. QED
    BY <2>1, Zenon DEF AttemptRecords, Statuses
<1>2. [attempts EXCEPT ![a].status = "lost"] \in [Attempts -> AttemptRecords]
  BY <1>1, Zenon DEF FenceTypeOK
<1>3. \A b \in Attempts : [attempts EXCEPT ![a].status = "lost"][b] =
           IF b = a THEN [attempts[a] EXCEPT !.status = "lost"] ELSE attempts[b]
  BY DEF FenceTypeOK
<1>4. Weakens([attempts EXCEPT ![a].status = "lost"])
  BY <1>2, <1>3, SMT DEF Weakens, FenceTypeOK, AttemptRecords
<1>5. QED
  BY <1>3, <1>4, NothingWeakens DEF Abandoned

LEMMA CallbackAbandonedWeakens ==
    ASSUME FenceTypeOK, NEW c, NEW a \in Attempts, attempts[a].status # "unused"
    PROVE  /\ Weakens(CallbackAbandoned(c, a))
           /\ \A b \in Attempts : attempts[b].bound => CallbackAbandoned(c, a)[b] = attempts[b]
BY AbandonedWeakens, NothingWeakens DEF CallbackAbandoned

\* Associating and binding set one flag of one attempt.
LEMMA AssociatedSets ==
    ASSUME FenceTypeOK, NEW a \in Attempts
    PROVE  /\ Associated(a) \in [Attempts -> AttemptRecords]
           /\ \A b \in Attempts \ {a} : Associated(a)[b] = attempts[b]
           /\ Associated(a)[a].context = attempts[a].context
           /\ Associated(a)[a].generation = attempts[a].generation
           /\ Associated(a)[a].status = attempts[a].status
           /\ Associated(a)[a].bound = attempts[a].bound
<1>1. [attempts[a] EXCEPT !.associated = TRUE] \in AttemptRecords
  <2>1. attempts[a] \in AttemptRecords
    BY DEF FenceTypeOK
  <2>2. QED
    BY <2>1, Zenon DEF AttemptRecords
<1>2. Associated(a) \in [Attempts -> AttemptRecords]
  BY <1>1, Zenon DEF FenceTypeOK, Associated
<1>3. \A b \in Attempts : Associated(a)[b] =
           IF b = a THEN [attempts[a] EXCEPT !.associated = TRUE] ELSE attempts[b]
  BY DEF FenceTypeOK, Associated
<1>4. QED
  BY <1>2, <1>3, SMT DEF FenceTypeOK, AttemptRecords

LEMMA BoundSets ==
    ASSUME FenceTypeOK, NEW a \in Attempts
    PROVE  /\ Bound(a) \in [Attempts -> AttemptRecords]
           /\ \A b \in Attempts \ {a} : Bound(a)[b] = attempts[b]
           /\ Bound(a)[a].context = attempts[a].context
           /\ Bound(a)[a].generation = attempts[a].generation
           /\ Bound(a)[a].status = attempts[a].status
           /\ Bound(a)[a].associated = attempts[a].associated
<1>1. [attempts[a] EXCEPT !.bound = TRUE] \in AttemptRecords
  <2>1. attempts[a] \in AttemptRecords
    BY DEF FenceTypeOK
  <2>2. QED
    BY <2>1, Zenon DEF AttemptRecords
<1>2. Bound(a) \in [Attempts -> AttemptRecords]
  BY <1>1, Zenon DEF FenceTypeOK, Bound
<1>3. \A b \in Attempts : Bound(a)[b] =
           IF b = a THEN [attempts[a] EXCEPT !.bound = TRUE] ELSE attempts[b]
  BY DEF FenceTypeOK, Bound
<1>4. QED
  BY <1>2, <1>3, SMT DEF FenceTypeOK, AttemptRecords

-----------------------------------------------------------------------------
(* Type correctness, with the attempts the requests name.                  *)

\* The attempt a request works on has been prepared.
NamedIn(q, atts) ==
    /\ q.attempt \in Attempts => atts[q.attempt].status # "unused"
    /\ q.op = "callback" /\ q.at \notin {"failing", "answered"} => q.attempt \in Attempts
    /\ q.op = "prepare" /\ q.at \in {"reconciling", "associating"} => q.attempt \in Attempts
    /\ q.op = "prepare" /\ q.at = "answered" /\ q.answer = "ok" => q.attempt \in Attempts

TypeInv == /\ TypeOK
           /\ \A r \in Requests : NamedIn(requests[r], attempts)
           /\ \A a \in Attempts : codes[a] # "none" => attempts[a].status # "unused"

\* An attempt that was prepared is never fresh again.
Remembers(after) == \A a \in Attempts : attempts[a].status # "unused" => after[a].status # "unused"

LEMMA WeakeningRemembers ==
    ASSUME NEW after, Weakens(after)
    PROVE  Remembers(after)
BY SMT DEF Weakens, Remembers

LEMMA NoHandleIsNone == NoHandle \notin Attempts /\ NoHandle \notin Contexts
BY FenceAssumption DEF FenceAssumption

LEMMA RequestType ==
    ASSUME TypeOK, NEW r \in Requests
    PROVE  /\ requests[r] \in RequestRecords
           /\ requests[r].cookies \in Cookies
           /\ requests[r].cookies.context \in Contexts \cup {NoHandle}
           /\ requests[r].cookies.binding \in MaybeAttempt
           /\ requests[r].attempt \in MaybeAttempt
<1>1. requests[r] \in RequestRecords
  BY DEF TypeOK
<1>2. QED
  BY <1>1, SMT DEF RequestRecords, Cookies

LEMMA BecomesSets ==
    ASSUME TypeOK, NEW r \in Requests, NEW q \in RequestRecords, Becomes(r, q)
    PROVE  /\ requests' \in [Requests -> RequestRecords]
           /\ requests'[r] = q
           /\ \A s \in Requests \ {r} : requests'[s] = requests[s]
BY DEF TypeOK, Becomes

LEMMA NamedSurvives ==
    ASSUME NEW q, NEW after, Remembers(after), NamedIn(q, attempts)
    PROVE  NamedIn(q, after)
BY DEF NamedIn, Remembers

LEMMA AlikeNamed ==
    ASSUME NEW p, NEW q, NEW atts, Alike(p, q), p.at = q.at, NamedIn(q, atts)
    PROVE  NamedIn(p, atts)
BY DEF NamedIn, Alike

LEMMA MovesOn ==
    ASSUME TypeInv, NEW r \in Requests, NEW q \in RequestRecords, Becomes(r, q),
           Remembers(attempts'), NamedIn(q, attempts')
    PROVE  /\ requests' \in [Requests -> RequestRecords]
           /\ \A s \in Requests : NamedIn(requests'[s], attempts')
<1>1. /\ requests' \in [Requests -> RequestRecords]
      /\ requests'[r] = q
      /\ \A s \in Requests \ {r} : requests'[s] = requests[s]
  BY BecomesSets DEF TypeInv
<1>2. \A s \in Requests : NamedIn(requests[s], attempts')
  BY NamedSurvives DEF TypeInv
<1>3. QED
  BY <1>1, <1>2

\* What an action that moves one request on has to show.
LEMMA TypeStep ==
    ASSUME TypeInv, NEW r \in Requests, NEW q \in RequestRecords, Becomes(r, q),
           NamedIn(q, attempts'), Remembers(attempts'),
           contexts' \in [Contexts -> ContextRecords],
           attempts' \in [Attempts -> AttemptRecords],
           correlation' \in [Attempts -> {"none", "pending", "completed"}],
           codes' \in [Attempts -> {"none", "issued", "used"}],
           \A a \in Attempts : codes'[a] # "none" => attempts'[a].status # "unused",
           jar' \in Cookies, restarts' \in 0..MaxRestarts,
           ended' \subseteq Attempts, established' \subseteq Attempts
    PROVE  TypeInv'
<1>1. /\ requests' \in [Requests -> RequestRecords]
      /\ \A s \in Requests : NamedIn(requests'[s], attempts')
  BY MovesOn
<1>2. QED
  BY <1>1 DEF TypeInv, TypeOK, FenceTypeOK

LEMMA CodesKept ==
    ASSUME TypeInv, UNCHANGED codes, Remembers(attempts')
    PROVE  \A a \in Attempts : codes'[a] # "none" => attempts'[a].status # "unused"
BY DEF TypeInv, Remembers

LEMMA JarType ==
    ASSUME TypeOK, NEW b \in MaybeAttempt, NEW v \in BOOLEAN
    PROVE  /\ [jar EXCEPT !.session = v] \in Cookies
           /\ [jar EXCEPT !.binding = b, !.session = v] \in Cookies
           /\ [jar EXCEPT !.tombstone = v] \in Cookies
<1>1. jar \in Cookies
  BY DEF TypeOK
<1>2. QED
  BY <1>1, Zenon DEF Cookies

LEMMA SendsTypes ==
    ASSUME TypeInv, NEW r \in Requests, NEW op \in Operations, NEW a \in MaybeAttempt,
           NEW k \in Cookies, Sends(r, op, a, k),
           op = "callback" => a \in Attempts,
           a \in Attempts => attempts[a].status # "unused",
           UNCHANGED <<authority, correlation, codes, restarts, history>>, jar' \in Cookies
    PROVE  TypeInv'
<1> DEFINE q == [Idle EXCEPT !.op = op, !.at = "received", !.cookies = k, !.attempt = a]
<1>1. q \in RequestRecords
  BY IdleType, Zenon DEF RequestRecords
<1>2. q.op = op /\ q.at = "received" /\ q.attempt = a
  BY IdleType, SMT DEF RequestRecords
<1>3. Becomes(r, q)
  BY DEF Sends, Becomes
<1> HIDE DEF q
<1>4. NamedIn(q, attempts')
  BY <1>2 DEF NamedIn, authority
<1>5. Remembers(attempts')
  BY DEF Remembers, authority
<1>6. QED
  BY <1>1, <1>3, <1>4, <1>5, TypeStep, CodesKept DEF TypeInv, TypeOK, FenceTypeOK, authority, history

LEMMA BeginSignInTypes ==
    ASSUME TypeInv, NEW r \in Requests, BeginSignIn(r)
    PROVE  TypeInv'
<1> DEFINE k == [jar EXCEPT !.binding = NoHandle, !.session = FALSE]
<1>1. k \in Cookies
  BY JarType DEF TypeInv, MaybeAttempt
<1>2. jar' \in Cookies
  BY DEF BeginSignIn, TypeInv, TypeOK
<1>3. Sends(r, "prepare", NoHandle, k) /\ UNCHANGED <<authority, correlation, codes, restarts, history>>
  BY DEF BeginSignIn
<1> HIDE DEF k
<1>4. QED
  BY <1>1, <1>2, <1>3, SendsTypes, NoHandleIsNone DEF Operations, MaybeAttempt

LEMMA ResolveSessionTypes ==
    ASSUME TypeInv, NEW r \in Requests, ResolveSession(r)
    PROVE  TypeInv'
<1>1. jar \in Cookies /\ jar' \in Cookies
  BY DEF ResolveSession, TypeInv, TypeOK
<1>2. QED
  BY <1>1, SendsTypes, NoHandleIsNone DEF Operations, MaybeAttempt, ResolveSession

LEMMA OpenCallbackTypes ==
    ASSUME TypeInv, NEW r \in Requests, NEW a \in Attempts, OpenCallback(r, a)
    PROVE  TypeInv'
<1>1. jar \in Cookies /\ jar' \in Cookies
  BY DEF OpenCallback, TypeInv, TypeOK
<1>2. attempts[a].status # "unused"
  BY DEF OpenCallback, TypeInv
<1>3. QED
  BY <1>1, <1>2, SendsTypes DEF Operations, MaybeAttempt, OpenCallback

LEMMA SignOutTypes ==
    ASSUME TypeInv, NEW r \in Requests, SignOut(r)
    PROVE  TypeInv'
<1> DEFINE k == [jar' EXCEPT !.session = FALSE]
<1>1. jar' \in Cookies
  BY JarType, Zenon DEF SignOut, TypeInv, MaybeAttempt
<1>2. k \in Cookies
  BY <1>1, Zenon DEF Cookies
<1>3. Sends(r, "publish", NoHandle, k) /\ UNCHANGED <<authority, correlation, codes, restarts, history>>
  BY DEF SignOut, history
<1> HIDE DEF k
<1>4. QED
  BY <1>1, <1>2, <1>3, SendsTypes, NoHandleIsNone DEF Operations, MaybeAttempt

LEMMA SignOutLocalTypes ==
    ASSUME TypeInv, SignOutLocal
    PROVE  TypeInv'
<1>1. jar' \in Cookies
  BY JarType, Zenon DEF SignOutLocal, TypeInv, MaybeAttempt
<1>2. QED
  BY <1>1 DEF SignOutLocal, TypeInv, TypeOK, FenceTypeOK, authority, history

LEMMA IdleNamed ==
    ASSUME NEW atts
    PROVE  NamedIn(Idle, atts)
BY NoHandleIsNone DEF NamedIn, Idle

LEMMA DeliverTypes ==
    ASSUME TypeInv, NEW r \in Requests, Deliver(r)
    PROVE  TypeInv'
<1> DEFINE q == requests[r]
<1>1. jar' \in Cookies
  <2>1. jar \in Cookies /\ q.cookies \in Cookies
    BY RequestType DEF TypeInv, TypeOK
  <2>2. jar' = [n \in CookieNames |-> IF n \in q.changed THEN q.cookies[n] ELSE jar[n]]
    BY DEF Deliver
  <2> HIDE DEF q
  <2>3. QED
    BY <2>1, <2>2, SMT DEF Cookies, CookieNames
<1>2. q.op = "prepare" /\ q.answer = "ok" => q.attempt \in Attempts /\ attempts[q.attempt].status # "unused"
  BY DEF Deliver, TypeInv, NamedIn
<1>3. /\ codes' \in [Attempts -> {"none", "issued", "used"}]
      /\ \A a \in Attempts : codes'[a] # "none" => attempts'[a].status # "unused"
  BY <1>2 DEF Deliver, TypeInv, TypeOK, authority
<1>4. Becomes(r, Idle) /\ UNCHANGED <<authority, correlation, restarts, history>>
  BY DEF Deliver, Becomes
<1>5. QED
  BY <1>1, <1>3, <1>4, TypeStep, IdleType, IdleNamed DEF TypeInv, TypeOK, FenceTypeOK, authority, history, Remembers

LEMMA LoseTypes ==
    ASSUME TypeInv, NEW r \in Requests, Lose(r)
    PROVE  TypeInv'
<1>1. Becomes(r, Idle) /\ UNCHANGED <<authority, correlation, codes, jar, restarts, history>>
  BY DEF Lose, Becomes
<1>2. QED
  BY <1>1, TypeStep, IdleType, IdleNamed DEF TypeInv, TypeOK, FenceTypeOK, authority, history, Remembers

-----------------------------------------------------------------------------
(* What the server's actions do to their request.  Each lemma names the    *)
(* record the request becomes by the fields the invariants look at.        *)

\* Request r becomes a record that passes q, and the others stay as they are.
Turns(r, op, at, attempt) ==
    /\ requests' \in [Requests -> RequestRecords]
    /\ \A s \in Requests \ {r} : requests'[s] = requests[s]
    /\ requests'[r].op = op
    /\ requests'[r].at = at
    /\ requests'[r].attempt = attempt

LEMMA AnswerNamed ==
    ASSUME TypeInv, NEW r \in Requests, NEW q \in RequestRecords, NEW n \in {"ok", "failed"},
           NEW atts, Remembers(atts), q.op = "prepare" /\ n = "ok" => NamedIn(q, atts) /\ q.attempt \in Attempts
    PROVE  NamedIn(Answer(q, n), atts)
<1>1. /\ Answer(q, n).op = q.op
      /\ Answer(q, n).at = "answered"
      /\ Answer(q, n).answer = n
      /\ Answer(q, n).attempt = IF q.op = "prepare" /\ n = "ok" THEN q.attempt ELSE NoHandle
  BY AnswerFields
<1>2. QED
  BY <1>1, NoHandleIsNone DEF NamedIn

LEMMA PreparedType ==
    ASSUME TypeInv, NEW handle, NEW t, NEW c \in Contexts, NEW a \in Attempts, Prepares(handle, t, c, a)
    PROVE  /\ contexts' \in [Contexts -> ContextRecords]
           /\ attempts' \in [Attempts -> AttemptRecords]
           /\ Remembers(attempts')
           /\ \A b \in Attempts \ {a} : attempts'[b] = attempts[b]
           /\ attempts'[a].status = "live" /\ attempts'[a].context = c
           /\ attempts'[a].generation = contexts[c].generation
           /\ ~attempts'[a].associated /\ ~attempts'[a].bound
           /\ attempts[a].status = "unused"
           /\ \A d \in Contexts : d # c => contexts'[d] = contexts[d]
           /\ Known(handle) => c = handle /\ contexts'[c] = contexts[c]
           /\ ~Known(handle) => /\ contexts[c].status = "unused"
                               /\ contexts'[c].status = "live"
                               /\ contexts'[c].generation = 0
                               /\ contexts'[c].published = 0
                               /\ contexts'[c].reconciled = 0
<1> USE DEF TypeInv, TypeOK, FenceTypeOK
<1> DEFINE new == [NoAttempt EXCEPT !.status = "live", !.context = c,
                                    !.generation = contexts[c].generation]
           room == [NoContext EXCEPT !.status = "live", !.resetPending = Lost(handle)]
<1>1. contexts[c] \in ContextRecords /\ contexts[c].generation \in 0..MaxGeneration
  BY SMT DEF ContextRecords
<1>2. 0 \in 0..MaxGeneration
  BY FenceAssumption DEF FenceAssumption
<1>3. new \in AttemptRecords
  <2>1. NoAttempt \in AttemptRecords
    BY <1>2, Zenon DEF NoAttempt, AttemptRecords, Statuses
  <2>2. QED
    BY <2>1, <1>1, Zenon DEF AttemptRecords, Statuses
<1>4. /\ new.status = "live" /\ new.context = c /\ new.generation = contexts[c].generation
      /\ ~new.associated /\ ~new.bound
  BY SMT DEF NoAttempt
<1>5. room \in ContextRecords
  <2>1. NoContext \in ContextRecords
    BY <1>2, Zenon DEF NoContext, ContextRecords, Statuses
  <2>2. Lost(handle) \in BOOLEAN
    BY DEF Lost
  <2>3. QED
    BY <2>1, <2>2, Zenon DEF ContextRecords, Statuses
<1>6. room.status = "live" /\ room.generation = 0 /\ room.published = 0 /\ room.reconciled = 0
  BY SMT DEF NoContext
<1>7. attempts' = [attempts EXCEPT ![a] = new]
  BY DEF Prepares
<1>8. attempts[a].status = "unused"
  BY DEF Prepares
<1>9. IF Known(handle) THEN c = handle /\ contexts' = contexts
      ELSE contexts[c].status = "unused" /\ contexts' = [contexts EXCEPT ![c] = room]
  BY DEF Prepares
<1> HIDE DEF new, room
<1>10. /\ contexts' \in [Contexts -> ContextRecords]
       /\ \A d \in Contexts : d # c => contexts'[d] = contexts[d]
       /\ Known(handle) => c = handle /\ contexts'[c] = contexts[c]
       /\ ~Known(handle) => contexts[c].status = "unused" /\ contexts'[c] = room
  BY <1>5, <1>9
<1>11. /\ attempts' \in [Attempts -> AttemptRecords]
       /\ \A b \in Attempts \ {a} : attempts'[b] = attempts[b]
       /\ attempts'[a] = new
  BY <1>3, <1>7
<1>12. Remembers(attempts')
  BY <1>8, <1>11 DEF Remembers
<1>13. QED
  BY <1>4, <1>6, <1>8, <1>10, <1>11, <1>12

LEMMA PrepareSignInEffect ==
    ASSUME TypeInv, NEW r \in Requests, NEW c \in Contexts, NEW a \in Attempts,
           PrepareSignIn(r, c, a)
    PROVE  /\ TypeInv'
           /\ At(r, "prepare", "received")
           /\ Turns(r, "prepare", "reconciling", a)
           /\ requests'[r].plan = PlanFor(requests[r].cookies.context, requests[r].cookies.tombstone)
           /\ requests'[r].generation = attempts'[a].generation
           /\ requests'[r].cookies.context = c
<1> DEFINE q == requests[r]
           handle == q.cookies.context
           plan == PlanFor(handle, q.cookies.tombstone)
           made == IF Known(handle) THEN q ELSE Put(q, "context", c)
           cleared == IF plan = "reset" THEN Put(made, "binding", NoHandle) ELSE made
           planned == [cleared EXCEPT !.at = "reconciling", !.attempt = a, !.plan = plan,
                                      !.generation = attempts'[a].generation]
           end == IF plan = "reconcile" \/ (plan = "reset" /\ q.cookies.tombstone)
                  THEN Put(planned, "tombstone", FALSE) ELSE planned
<1>1. /\ At(r, "prepare", "received")
      /\ Prepares(handle, q.cookies.tombstone, c, a)
      /\ Becomes(r, end)
      /\ UNCHANGED <<correlation, codes, jar, restarts, history>>
  BY DEF PrepareSignIn
<1>2. q \in RequestRecords
  BY RequestType DEF TypeInv
<1>3. q.op = "prepare" /\ q.at = "received"
  BY <1>1 DEF At
<1>5. /\ contexts' \in [Contexts -> ContextRecords]
      /\ attempts' \in [Attempts -> AttemptRecords]
      /\ Remembers(attempts')
      /\ attempts'[a].status = "live"
  BY <1>1, PreparedType
<1>5a. Known(handle) => c = handle
  BY <1>1 DEF Prepares
<1>6. plan \in Plans
  BY DEF PlanFor, Plans
<1> HIDE DEF plan, q
<1>7. made \in RequestRecords /\ made.op = "prepare" /\ made.cookies.context = c
  <2>1. CASE Known(handle)
    BY <2>1, <1>2, <1>3, <1>5a
  <2>2. CASE ~Known(handle)
    BY <2>2, <1>2, <1>3, PutContext
  <2>3. QED
    BY <2>1, <2>2
<1> HIDE DEF made
<1>8. cleared \in RequestRecords /\ cleared.op = "prepare" /\ cleared.cookies.context = c
  <2>1. /\ Put(made, "binding", NoHandle) \in RequestRecords
        /\ Alike(Put(made, "binding", NoHandle), made)
    BY <1>7, PutOther DEF CookieNames, MaybeAttempt
  <2>2. QED
    BY <2>1, <1>7 DEF Alike
<1> HIDE DEF cleared
<1>9. attempts'[a].generation \in 0..MaxGeneration
  BY <1>5, SMT DEF AttemptRecords
<1>10. planned \in RequestRecords
  BY <1>6, <1>8, <1>9, Zenon DEF RequestRecords, MaybeAttempt
<1>11. /\ planned.op = "prepare" /\ planned.at = "reconciling" /\ planned.attempt = a
       /\ planned.plan = plan /\ planned.generation = attempts'[a].generation
       /\ planned.cookies.context = c
  BY <1>8, SMT DEF RequestRecords
<1> HIDE DEF planned
<1>12. end \in RequestRecords /\ Alike(end, planned) /\ end.at = "reconciling"
  <2>1. /\ Put(planned, "tombstone", FALSE) \in RequestRecords
        /\ Alike(Put(planned, "tombstone", FALSE), planned)
        /\ Put(planned, "tombstone", FALSE).at = planned.at
    BY <1>10, PutOther DEF CookieNames
  <2>2. QED
    BY <2>1, <1>10, <1>11 DEF Alike
<1> HIDE DEF end
<1>13. NamedIn(end, attempts')
  BY <1>5, <1>11, <1>12 DEF NamedIn, Alike
<1>14. TypeInv'
  BY <1>1, <1>5, <1>12, <1>13, TypeStep, CodesKept DEF TypeInv, TypeOK, FenceTypeOK, history
<1>15. /\ requests' \in [Requests -> RequestRecords]
       /\ requests'[r] = end
       /\ \A s \in Requests \ {r} : requests'[s] = requests[s]
  BY <1>1, <1>12, BecomesSets DEF TypeInv
<1>16. /\ requests'[r].op = "prepare" /\ requests'[r].at = "reconciling" /\ requests'[r].attempt = a
       /\ requests'[r].plan = plan /\ requests'[r].generation = attempts'[a].generation
       /\ requests'[r].cookies.context = c
  BY <1>11, <1>12, <1>15 DEF Alike
<1>17. Turns(r, "prepare", "reconciling", a)
  BY <1>15, <1>16 DEF Turns
<1>18. QED
  BY <1>1, <1>14, <1>16, <1>17 DEF plan, q

LEMMA TurnsBy ==
    ASSUME TypeInv, NEW r \in Requests, NEW q \in RequestRecords, Becomes(r, q)
    PROVE  Turns(r, q.op, q.at, q.attempt) /\ requests'[r] = q
BY BecomesSets DEF Turns, TypeInv

\* A refusal names no attempt.
LEMMA FailedAnswer ==
    ASSUME TypeInv, NEW r \in Requests, NEW q \in RequestRecords, Becomes(r, Answer(q, "failed"))
    PROVE  /\ Answer(q, "failed") \in RequestRecords
           /\ \A atts : NamedIn(Answer(q, "failed"), atts)
           /\ Turns(r, q.op, "answered", NoHandle)
           /\ requests'[r].answer = "failed"
<1> DEFINE p == Answer(q, "failed")
<1>1. p \in RequestRecords /\ p.op = q.op /\ p.at = "answered" /\ p.answer = "failed" /\ p.attempt = NoHandle
  BY AnswerFields
<1>2. Becomes(r, p)
  OBVIOUS
<1> HIDE DEF p
<1>3. \A atts : NamedIn(p, atts)
  BY <1>1, NoHandleIsNone DEF NamedIn
<1>4. Turns(r, p.op, p.at, p.attempt) /\ requests'[r] = p
  BY <1>1, <1>2, TurnsBy
<1>5. Turns(r, q.op, "answered", NoHandle) /\ requests'[r].answer = "failed"
  BY <1>1, <1>4
<1>6. QED
  BY <1>1, <1>3, <1>5 DEF p

LEMMA FailsNamed ==
    ASSUME NEW q \in RequestRecords, q.op = "callback"
    PROVE  \A atts : NamedIn(Fails(q), atts)
BY FailsFields, NoHandleIsNone DEF NamedIn

LEMMA RefuseSignInEffect ==
    ASSUME TypeInv, NEW r \in Requests, RefuseSignIn(r)
    PROVE  /\ TypeInv'
           /\ Turns(r, "prepare", "answered", NoHandle)
           /\ requests'[r].answer = "failed"
<1>1. /\ Becomes(r, Answer(requests[r], "failed"))
      /\ UNCHANGED <<authority, correlation, codes, jar, restarts, history>>
      /\ requests[r].op = "prepare"
  BY DEF RefuseSignIn, At
<1>2. requests[r] \in RequestRecords
  BY RequestType DEF TypeInv
<1>3. /\ Answer(requests[r], "failed") \in RequestRecords
      /\ NamedIn(Answer(requests[r], "failed"), attempts')
      /\ Turns(r, requests[r].op, "answered", NoHandle)
      /\ requests'[r].answer = "failed"
  BY <1>1, <1>2, FailedAnswer
<1>4. Remembers(attempts')
  BY <1>1 DEF authority, Remembers
<1>5. TypeInv'
  BY <1>1, <1>3, <1>4, TypeStep, CodesKept DEF TypeInv, TypeOK, FenceTypeOK, history, authority
<1>6. QED
  BY <1>1, <1>3, <1>5

LEMMA ReconciledType ==
    ASSUME TypeOK, NEW c \in Contexts, NEW g \in 0..MaxGeneration
    PROVE  /\ Reconciled(c, g) \in [Contexts -> ContextRecords]
           /\ ResetCompleted(c) \in [Contexts -> ContextRecords]
           /\ \A d \in Contexts : /\ Reconciled(c, g)[d].status = contexts[d].status
                                 /\ Reconciled(c, g)[d].generation = contexts[d].generation
                                 /\ Reconciled(c, g)[d].published = contexts[d].published
                                 /\ Reconciled(c, g)[d].reconciled =
                                        IF d = c THEN g ELSE contexts[d].reconciled
           /\ \A d \in Contexts : /\ ResetCompleted(c)[d].status = contexts[d].status
                                 /\ ResetCompleted(c)[d].generation = contexts[d].generation
                                 /\ ResetCompleted(c)[d].published = contexts[d].published
                                 /\ ResetCompleted(c)[d].reconciled = contexts[d].reconciled
<1>1. contexts \in [Contexts -> ContextRecords] /\ contexts[c] \in ContextRecords
  BY DEF TypeOK, FenceTypeOK
<1>2. /\ Reconciled(c, g) = [contexts EXCEPT ![c] =
                                 [contexts[c] EXCEPT !.reconciled = g, !.resetPending = FALSE]]
      /\ ResetCompleted(c) = [contexts EXCEPT ![c] = [contexts[c] EXCEPT !.resetPending = FALSE]]
  BY Zenon DEF Reconciled, ResetCompleted
<1>3. /\ [contexts[c] EXCEPT !.reconciled = g, !.resetPending = FALSE] \in ContextRecords
      /\ [contexts[c] EXCEPT !.resetPending = FALSE] \in ContextRecords
  BY <1>1, Zenon DEF ContextRecords
<1>4. QED
  BY <1>1, <1>2, <1>3, SMT DEF ContextRecords

LEMMA ContextsKnown ==
    ASSUME NEW c, Known(c)
    PROVE  c \in Contexts /\ contexts[c].status = "live"
BY DEF Known

LEMMA CompletePreparationEffect ==
    ASSUME TypeInv, NEW r \in Requests, CompletePreparation(r)
    PROVE  /\ TypeInv'
           /\ At(r, "prepare", "reconciling")
           /\ requests[r].attempt \in Attempts
           /\ \/ /\ Turns(r, "prepare", "associating", requests[r].attempt)
                 /\ requests'[r].cookies.context = requests[r].cookies.context
                 /\ UNCHANGED attempts
                 /\ \/ requests[r].plan = "none" /\ UNCHANGED contexts
                    \/ /\ requests[r].plan = "reconcile"
                       /\ CanReconcile(requests[r].cookies.context, requests[r].generation)
                       /\ contexts' = Reconciled(requests[r].cookies.context, requests[r].generation)
                    \/ /\ requests[r].plan = "reset"
                       /\ CanCompleteReset(requests[r].cookies.context)
                       /\ contexts' = ResetCompleted(requests[r].cookies.context)
              \/ /\ Turns(r, "prepare", "answered", NoHandle)
                 /\ requests'[r].answer = "failed"
                 /\ UNCHANGED contexts
                 /\ Weakens(attempts')
                 /\ \A b \in Attempts \ {requests[r].attempt} : attempts'[b] = attempts[b]
<1> DEFINE q == requests[r]
           c == q.cookies.context
           completes == CASE q.plan = "none" -> TRUE
                          [] q.plan = "reconcile" -> CanReconcile(c, q.generation)
                          [] q.plan = "reset" -> CanCompleteReset(c)
           next == [q EXCEPT !.at = "associating", !.plan = "none", !.generation = 0]
           kept == IF "tombstone" \in q.changed THEN Put(q, "tombstone", TRUE) ELSE q
<1>1. /\ At(r, "prepare", "reconciling")
      /\ UNCHANGED <<correlation, codes, jar, restarts, history>>
      /\ \/ /\ completes
            /\ contexts' = CASE q.plan = "none" -> contexts
                             [] q.plan = "reconcile" -> Reconciled(c, q.generation)
                             [] q.plan = "reset" -> ResetCompleted(c)
            /\ Becomes(r, next)
            /\ UNCHANGED attempts
         \/ /\ attempts' = Abandoned(c, q.attempt)
            /\ Becomes(r, Answer(kept, "failed"))
            /\ UNCHANGED contexts
  BY DEF CompletePreparation
<1>2. q \in RequestRecords /\ q.op = "prepare" /\ q.at = "reconciling"
  BY <1>1, RequestType DEF TypeInv, At
<1>3. q.attempt \in Attempts /\ attempts[q.attempt].status # "unused"
  BY <1>2 DEF TypeInv, NamedIn
<1>4. q.plan \in {"none", "reconcile", "reset"} /\ q.generation \in 0..MaxGeneration
  BY <1>2, SMT DEF RequestRecords, Plans
<1> HIDE DEF q
<1>5. CASE /\ completes
           /\ contexts' = CASE q.plan = "none" -> contexts
                            [] q.plan = "reconcile" -> Reconciled(c, q.generation)
                            [] q.plan = "reset" -> ResetCompleted(c)
           /\ Becomes(r, next)
           /\ UNCHANGED attempts
  <2>1. next \in RequestRecords
    <3>1. 0 \in 0..MaxGeneration
      BY FenceAssumption DEF FenceAssumption
    <3>2. QED
      BY <1>2, <3>1, Zenon DEF RequestRecords, Plans
  <2>2. /\ next.op = "prepare" /\ next.at = "associating" /\ next.attempt = q.attempt
        /\ next.cookies.context = c
    BY <1>2, SMT DEF RequestRecords
  <2>3. Becomes(r, next)
    BY <1>5
  <2> HIDE DEF next
  <2>4. Turns(r, "prepare", "associating", q.attempt) /\ requests'[r] = next
    BY <2>1, <2>2, <2>3, TurnsBy
  <2>5. \/ q.plan = "none" /\ UNCHANGED contexts
        \/ q.plan = "reconcile" /\ CanReconcile(c, q.generation) /\ contexts' = Reconciled(c, q.generation)
        \/ q.plan = "reset" /\ CanCompleteReset(c) /\ contexts' = ResetCompleted(c)
    BY <1>4, <1>5
  <2>6. contexts' \in [Contexts -> ContextRecords]
    <3>1. CASE q.plan = "none" /\ UNCHANGED contexts
      BY <3>1 DEF TypeInv, TypeOK, FenceTypeOK
    <3>2. CASE CanReconcile(c, q.generation) /\ contexts' = Reconciled(c, q.generation)
      BY <1>4, <3>2, ReconciledType, ContextsKnown DEF TypeInv, CanReconcile
    <3>3. CASE CanCompleteReset(c) /\ contexts' = ResetCompleted(c)
      <4>1. 0 \in 0..MaxGeneration
        BY FenceAssumption DEF FenceAssumption
      <4>2. QED
        BY <3>3, <4>1, ReconciledType, ContextsKnown DEF TypeInv, CanCompleteReset, ResetPending
    <3>4. QED
      BY <2>5, <3>1, <3>2, <3>3
  <2>7. NamedIn(next, attempts') /\ Remembers(attempts')
    BY <1>3, <1>5, <2>2 DEF NamedIn, Remembers
  <2>8. TypeInv'
    BY <1>1, <1>5, <2>1, <2>3, <2>6, <2>7, TypeStep, CodesKept DEF TypeInv, TypeOK, FenceTypeOK, history
  <2>9. QED
    BY <1>1, <1>3, <1>5, <2>2, <2>4, <2>5, <2>8 DEF q
<1>6. CASE /\ attempts' = Abandoned(c, q.attempt)
           /\ Becomes(r, Answer(kept, "failed"))
           /\ UNCHANGED contexts
  <2>1. kept \in RequestRecords /\ kept.op = "prepare"
    <3>1. Put(q, "tombstone", TRUE) \in RequestRecords /\ Alike(Put(q, "tombstone", TRUE), q)
      BY <1>2, PutOther DEF CookieNames
    <3>2. QED
      BY <1>2, <3>1 DEF Alike
  <2>2. Becomes(r, Answer(kept, "failed"))
    BY <1>6
  <2> HIDE DEF kept
  <2>3. /\ Answer(kept, "failed") \in RequestRecords
        /\ NamedIn(Answer(kept, "failed"), attempts')
        /\ Turns(r, "prepare", "answered", NoHandle)
        /\ requests'[r].answer = "failed"
    BY <2>1, <2>2, FailedAnswer
  <2>4. /\ Weakens(attempts')
        /\ \A b \in Attempts \ {q.attempt} : attempts'[b] = attempts[b]
    BY <1>3, <1>6, AbandonedWeakens DEF TypeInv, TypeOK
  <2>5. Remembers(attempts') /\ attempts' \in [Attempts -> AttemptRecords]
    BY <2>4, WeakeningRemembers DEF Weakens
  <2>6. TypeInv'
    BY <1>1, <1>6, <2>2, <2>3, <2>5, TypeStep, CodesKept DEF TypeInv, TypeOK, FenceTypeOK, history
  <2>7. QED
    BY <1>1, <1>3, <1>6, <2>3, <2>4, <2>6 DEF q
<1>7. QED
  BY <1>1, <1>5, <1>6

LEMMA AssociateEffect ==
    ASSUME TypeInv, NEW r \in Requests, Associate(r)
    PROVE  /\ TypeInv'
           /\ At(r, "prepare", "associating")
           /\ requests[r].attempt \in Attempts
           /\ UNCHANGED contexts
           /\ \/ /\ Current(requests[r].cookies.context, requests[r].attempt)
                 /\ Turns(r, "prepare", "answered", requests[r].attempt)
                 /\ requests'[r].answer = "ok"
                 /\ attempts' = Associated(requests[r].attempt)
                 /\ correlation' = [correlation EXCEPT ![requests[r].attempt] = "pending"]
              \/ /\ Turns(r, "prepare", "answered", NoHandle)
                 /\ requests'[r].answer = "failed"
                 /\ UNCHANGED correlation
                 /\ Weakens(attempts')
                 /\ \A b \in Attempts \ {requests[r].attempt} : attempts'[b] = attempts[b]
<1> DEFINE q == requests[r]
           c == q.cookies.context
<1>1. /\ At(r, "prepare", "associating")
      /\ UNCHANGED <<contexts, codes, jar, restarts, history>>
      /\ \/ /\ Current(c, q.attempt)
            /\ correlation' = [correlation EXCEPT ![q.attempt] = "pending"]
            /\ attempts' = Associated(q.attempt)
            /\ Becomes(r, Answer(q, "ok"))
         \/ /\ attempts' = Abandoned(c, q.attempt)
            /\ Becomes(r, Answer(q, "failed"))
            /\ UNCHANGED correlation
  BY DEF Associate
<1>2. q \in RequestRecords /\ q.op = "prepare" /\ q.at = "associating"
  BY <1>1, RequestType DEF TypeInv, At
<1>3. q.attempt \in Attempts /\ attempts[q.attempt].status # "unused"
  BY <1>2 DEF TypeInv, NamedIn
<1> HIDE DEF q
<1>4. CASE /\ Current(c, q.attempt)
           /\ correlation' = [correlation EXCEPT ![q.attempt] = "pending"]
           /\ attempts' = Associated(q.attempt)
           /\ Becomes(r, Answer(q, "ok"))
  <2>1. /\ Answer(q, "ok") \in RequestRecords
        /\ Answer(q, "ok").op = "prepare" /\ Answer(q, "ok").at = "answered"
        /\ Answer(q, "ok").answer = "ok" /\ Answer(q, "ok").attempt = q.attempt
    BY <1>2, AnswerFields
  <2>2. Turns(r, "prepare", "answered", q.attempt) /\ requests'[r] = Answer(q, "ok")
    BY <1>4, <2>1, TurnsBy
  <2>3. /\ attempts' \in [Attempts -> AttemptRecords]
        /\ \A b \in Attempts : attempts'[b].status = attempts[b].status
    BY <1>3, <1>4, AssociatedSets DEF TypeInv, TypeOK
  <2>4. Remembers(attempts') /\ NamedIn(Answer(q, "ok"), attempts')
    BY <1>3, <2>1, <2>3 DEF Remembers, NamedIn
  <2>5. correlation' \in [Attempts -> {"none", "pending", "completed"}]
    BY <1>4 DEF TypeInv, TypeOK
  <2>6. TypeInv'
    BY <1>1, <1>4, <2>1, <2>3, <2>4, <2>5, TypeStep, CodesKept DEF TypeInv, TypeOK, FenceTypeOK, history
  <2>7. QED
    BY <1>1, <1>3, <1>4, <2>1, <2>2, <2>6 DEF q
<1>5. CASE /\ attempts' = Abandoned(c, q.attempt)
           /\ Becomes(r, Answer(q, "failed"))
           /\ UNCHANGED correlation
  <2>1. /\ Answer(q, "failed") \in RequestRecords
        /\ NamedIn(Answer(q, "failed"), attempts')
        /\ Turns(r, "prepare", "answered", NoHandle)
        /\ requests'[r].answer = "failed"
    BY <1>2, <1>5, FailedAnswer
  <2>2. /\ Weakens(attempts')
        /\ \A b \in Attempts \ {q.attempt} : attempts'[b] = attempts[b]
    BY <1>3, <1>5, AbandonedWeakens DEF TypeInv, TypeOK
  <2>3. Remembers(attempts') /\ attempts' \in [Attempts -> AttemptRecords]
    BY <2>2, WeakeningRemembers DEF Weakens
  <2>4. TypeInv'
    BY <1>1, <1>5, <2>1, <2>3, TypeStep, CodesKept DEF TypeInv, TypeOK, FenceTypeOK, history
  <2>5. QED
    BY <1>1, <1>3, <1>5, <2>1, <2>2, <2>4 DEF q
<1>6. QED
  BY <1>1, <1>4, <1>5

LEMMA AdvancedType ==
    ASSUME TypeOK, NEW c \in Contexts, contexts[c].generation < MaxGeneration
    PROVE  /\ Advanced(c) \in [Contexts -> ContextRecords]
           /\ \A d \in Contexts \ {c} : Advanced(c)[d] = contexts[d]
           /\ Advanced(c)[c].status = contexts[c].status
           /\ Advanced(c)[c].generation = contexts[c].generation + 1
           /\ Advanced(c)[c].published = contexts[c].generation + 1
           /\ Advanced(c)[c].reconciled = contexts[c].reconciled
<1> DEFINE next == contexts[c].generation + 1
           room == [contexts[c] EXCEPT !.generation = next, !.published = next]
<1>1. contexts[c] \in ContextRecords /\ contexts \in [Contexts -> ContextRecords]
  BY DEF TypeOK, FenceTypeOK
<1>2. next \in 0..MaxGeneration
  <2>1. contexts[c].generation \in 0..MaxGeneration
    BY <1>1, SMT DEF ContextRecords
  <2>2. QED
    BY <2>1, FenceAssumption DEF FenceAssumption
<1>3. Advanced(c) = [contexts EXCEPT ![c] = room]
  BY Zenon DEF Advanced
<1> HIDE DEF next
<1>4. room \in ContextRecords
  BY <1>1, <1>2, Zenon DEF ContextRecords
<1>5. /\ room.status = contexts[c].status /\ room.generation = next /\ room.published = next
      /\ room.reconciled = contexts[c].reconciled
  BY <1>1, SMT DEF ContextRecords
<1> HIDE DEF room
<1>6. QED
  BY <1>1, <1>3, <1>4, <1>5 DEF next

LEMMA FencedAlike ==
    ASSUME TypeOK, NEW c
    PROVE  /\ Fenced(c) \in [Requests -> RequestRecords]
           /\ \A s \in Requests : /\ Alike(Fenced(c)[s], requests[s])
                                  /\ Fenced(c)[s].at = requests[s].at
<1>1. \A s \in Requests : Fenced(c)[s] = requests[s] \/ Fenced(c)[s] = [requests[s] EXCEPT !.fenced = TRUE]
  BY DEF Fenced
<1>2. ASSUME NEW s \in Requests
      PROVE  /\ [requests[s] EXCEPT !.fenced = TRUE] \in RequestRecords
             /\ Alike([requests[s] EXCEPT !.fenced = TRUE], requests[s])
             /\ [requests[s] EXCEPT !.fenced = TRUE].at = requests[s].at
             /\ requests[s] \in RequestRecords /\ Alike(requests[s], requests[s])
  <2>1. requests[s] \in RequestRecords
    BY DEF TypeOK
  <2>2. [requests[s] EXCEPT !.fenced = TRUE] \in RequestRecords
    BY <2>1, Zenon DEF RequestRecords
  <2>3. /\ Alike([requests[s] EXCEPT !.fenced = TRUE], requests[s])
        /\ [requests[s] EXCEPT !.fenced = TRUE].at = requests[s].at
    BY <2>1, SMT DEF Alike, RequestRecords
  <2>4. QED
    BY <2>1, <2>2, <2>3 DEF Alike
<1>3. \A s \in Requests : /\ Fenced(c)[s] \in RequestRecords
                          /\ Alike(Fenced(c)[s], requests[s])
                          /\ Fenced(c)[s].at = requests[s].at
  BY <1>1, <1>2
<1>4. QED
  BY <1>3 DEF Fenced

LEMMA PublishSignOutEffect ==
    ASSUME TypeInv, NEW r \in Requests, PublishSignOut(r)
    PROVE  /\ TypeInv'
           /\ requests' \in [Requests -> RequestRecords]
           /\ \A s \in Requests \ {r} : /\ Alike(requests'[s], requests[s])
                                        /\ requests'[s].at = requests[s].at
           /\ requests'[r].op = "publish" /\ requests'[r].at = "answered"
           /\ requests'[r].attempt = NoHandle
           /\ Weakens(attempts')
           /\ \A a \in Attempts : attempts'[a].status = attempts[a].status
           /\ LET c == requests[r].cookies.context IN
              \/ /\ c \in Contexts /\ contexts[c].generation < MaxGeneration
                 /\ contexts' = Advanced(c)
                 /\ ended' = ended \cup {a \in Prepared : attempts[a].context = c}
              \/ UNCHANGED <<contexts, ended>>
<1> DEFINE q == Put(requests[r], "tombstone", TRUE)
           c == q.cookies.context
<1>1. /\ At(r, "publish", "received")
      /\ \/ /\ Known(c)
            /\ contexts[c].generation < MaxGeneration - restarts
            /\ contexts' = Advanced(c)
            /\ attempts' = Unbound(q.cookies.binding)
            /\ requests' = [Fenced(c) EXCEPT ![r] = Answer(Cleaned(q), "ok")]
            /\ ended' = ended \cup {a \in Prepared : attempts[a].context = c}
         \/ /\ Becomes(r, Answer(q, "failed"))
            /\ UNCHANGED <<authority, ended>>
      /\ UNCHANGED <<correlation, codes, jar, restarts, established>>
  BY DEF PublishSignOut
<1>2. requests[r] \in RequestRecords /\ requests[r].op = "publish"
  BY <1>1, RequestType DEF TypeInv, At
<1>3. q \in RequestRecords /\ q.op = "publish" /\ c = requests[r].cookies.context
  BY <1>2, PutOther DEF CookieNames, Alike
<1> HIDE DEF q
<1>4. CASE /\ Known(c)
           /\ contexts[c].generation < MaxGeneration - restarts
           /\ contexts' = Advanced(c)
           /\ attempts' = Unbound(q.cookies.binding)
           /\ requests' = [Fenced(c) EXCEPT ![r] = Answer(Cleaned(q), "ok")]
           /\ ended' = ended \cup {a \in Prepared : attempts[a].context = c}
  <2> DEFINE p == Answer(Cleaned(q), "ok")
  <2>1. Cleaned(q) \in RequestRecords /\ Cleaned(q).op = "publish"
    BY <1>3, CleanedAlike DEF Alike
  <2>2. p \in RequestRecords /\ p.op = "publish" /\ p.at = "answered" /\ p.attempt = NoHandle
    BY <2>1, AnswerFields
  <2>3. requests' = [Fenced(c) EXCEPT ![r] = p]
    BY <1>4
  <2> HIDE DEF p
  <2>4. /\ requests' \in [Requests -> RequestRecords]
        /\ requests'[r] = p
        /\ \A s \in Requests \ {r} : /\ Alike(requests'[s], requests[s])
                                     /\ requests'[s].at = requests[s].at
    BY <2>2, <2>3, FencedAlike DEF TypeInv
  <2>5. Weakens(attempts') /\ \A a \in Attempts : attempts'[a].status = attempts[a].status
    BY <1>4, UnboundWeakens DEF TypeInv, TypeOK
  <2>6. Remembers(attempts') /\ attempts' \in [Attempts -> AttemptRecords]
    BY <2>5, WeakeningRemembers DEF Weakens
  <2>7. c \in Contexts /\ contexts[c].generation < MaxGeneration
    <3>1. c \in Contexts
      BY <1>4, ContextsKnown
    <3>2. contexts[c].generation \in 0..MaxGeneration /\ restarts \in 0..MaxRestarts
      BY <3>1, SMT DEF TypeInv, TypeOK, FenceTypeOK, ContextRecords
    <3>3. QED
      BY <1>4, <3>1, <3>2, FenceAssumption, ServerAssumption DEF FenceAssumption, ServerAssumption
  <2>8. contexts' \in [Contexts -> ContextRecords]
    BY <1>4, <2>7, AdvancedType DEF TypeInv
  <2>9. \A s \in Requests : NamedIn(requests'[s], attempts')
    <3>1. NamedIn(p, attempts')
      BY <2>2, NoHandleIsNone DEF NamedIn
    <3>2. ASSUME NEW s \in Requests \ {r}
          PROVE  NamedIn(requests'[s], attempts')
      <4>1. NamedIn(requests[s], attempts')
        BY <2>6, NamedSurvives DEF TypeInv
      <4>2. QED
        BY <2>4, <4>1, AlikeNamed
    <3>3. QED
      BY <2>4, <3>1, <3>2
  <2>10. TypeInv'
    BY <1>1, <1>4, <2>4, <2>6, <2>8, <2>9, CodesKept DEF TypeInv, TypeOK, FenceTypeOK, Prepared
  <2>11. QED
    BY <1>3, <1>4, <2>2, <2>4, <2>5, <2>7, <2>10
<1>5. CASE Becomes(r, Answer(q, "failed")) /\ UNCHANGED <<authority, ended>>
  <2>1. /\ Answer(q, "failed") \in RequestRecords
        /\ NamedIn(Answer(q, "failed"), attempts')
        /\ Turns(r, "publish", "answered", NoHandle)
    BY <1>3, <1>5, FailedAnswer
  <2>2. Remembers(attempts')
    BY <1>5 DEF authority, Remembers
  <2>3. TypeInv'
    BY <1>1, <1>5, <2>1, <2>2, TypeStep, CodesKept DEF TypeInv, TypeOK, FenceTypeOK, authority
  <2>4. Weakens(attempts') /\ UNCHANGED contexts /\ UNCHANGED attempts
    BY <1>5, NothingWeakens DEF authority, TypeInv, TypeOK
  <2>5. QED
    BY <1>5, <2>1, <2>3, <2>4 DEF Turns, Alike
<1>6. QED
  BY <1>1, <1>4, <1>5

LEMMA ResolveEffect ==
    ASSUME TypeInv, NEW r \in Requests, NEW valid \in BOOLEAN, NEW signedOut \in BOOLEAN,
           Resolve(r, valid, signedOut)
    PROVE  /\ TypeInv'
           /\ Turns(r, "resolve", "answered", NoHandle)
           /\ Weakens(attempts')
           /\ \A a \in Attempts : attempts'[a].status = attempts[a].status
<1> DEFINE q == requests[r]
           left == IF signedOut THEN Put(q, "session", FALSE) ELSE q
           swept == Cleaned(left)
<1>1. /\ At(r, "resolve", "received")
      /\ UNCHANGED <<contexts, correlation, codes, jar, restarts, history>>
      /\ \/ Becomes(r, Answer(q, "ok")) /\ UNCHANGED attempts
         \/ Becomes(r, Answer(swept, "failed")) /\ attempts' = Unbound(q.cookies.binding)
  BY DEF Resolve
<1>2. q \in RequestRecords /\ q.op = "resolve"
  BY <1>1, RequestType DEF TypeInv, At
<1> HIDE DEF q
<1>3. CASE Becomes(r, Answer(q, "ok")) /\ UNCHANGED attempts
  <2>1. /\ Answer(q, "ok") \in RequestRecords
        /\ Answer(q, "ok").op = "resolve" /\ Answer(q, "ok").at = "answered"
        /\ Answer(q, "ok").attempt = NoHandle
    BY <1>2, AnswerFields
  <2>2. Turns(r, "resolve", "answered", NoHandle)
    BY <1>3, <2>1, TurnsBy
  <2>3. NamedIn(Answer(q, "ok"), attempts') /\ Remembers(attempts')
    BY <1>3, <2>1, NoHandleIsNone DEF NamedIn, Remembers
  <2>4. TypeInv'
    BY <1>1, <1>3, <2>1, <2>3, TypeStep, CodesKept DEF TypeInv, TypeOK, FenceTypeOK, history
  <2>5. QED
    BY <1>3, <2>2, <2>4, NothingWeakens DEF TypeInv, TypeOK
<1>4. CASE Becomes(r, Answer(swept, "failed")) /\ attempts' = Unbound(q.cookies.binding)
  <2>1. left \in RequestRecords /\ left.op = "resolve"
    <3>1. Put(q, "session", FALSE) \in RequestRecords /\ Alike(Put(q, "session", FALSE), q)
      BY <1>2, PutOther DEF CookieNames
    <3>2. QED
      BY <1>2, <3>1 DEF Alike
  <2> HIDE DEF left
  <2>2. swept \in RequestRecords /\ swept.op = "resolve"
    BY <2>1, CleanedAlike DEF Alike
  <2>3. Becomes(r, Answer(swept, "failed"))
    BY <1>4
  <2> HIDE DEF swept
  <2>4. /\ Answer(swept, "failed") \in RequestRecords
        /\ NamedIn(Answer(swept, "failed"), attempts')
        /\ Turns(r, "resolve", "answered", NoHandle)
    BY <2>2, <2>3, FailedAnswer
  <2>5. Weakens(attempts') /\ \A a \in Attempts : attempts'[a].status = attempts[a].status
    BY <1>4, UnboundWeakens DEF TypeInv, TypeOK
  <2>6. Remembers(attempts') /\ attempts' \in [Attempts -> AttemptRecords]
    BY <2>5, WeakeningRemembers DEF Weakens
  <2>7. TypeInv'
    BY <1>1, <2>3, <2>4, <2>6, TypeStep, CodesKept DEF TypeInv, TypeOK, FenceTypeOK, history
  <2>8. QED
    BY <2>4, <2>5, <2>7
<1>5. QED
  BY <1>1, <1>3, <1>4

-----------------------------------------------------------------------------
(* What the callback's actions do.                                         *)

\* The callback goes on with its attempt and its context.
GoesOn(r, place) == /\ Turns(r, "callback", place, requests[r].attempt)
                    /\ requests'[r].cookies.context = requests[r].cookies.context

GivesUp(r) == Turns(r, "callback", "failing", NoHandle)

\* A correlation record may be removed, and nothing else.
Forgets == \A a \in Attempts : correlation'[a] \in {correlation[a], "none"}

\* What #discardAttempt does: an attempt with a binding is left alone.
Discarded == /\ Forgets
             /\ Weakens(attempts')
             /\ \A a \in Attempts : attempts[a].bound => attempts'[a] = attempts[a]

\* What #rollbackRejectedEstablishment does.
RolledBackBy(r) ==
    /\ Forgets
    /\ correlation'[requests[r].attempt] = "none"
    /\ Weakens(attempts')
    /\ \A a \in Attempts : attempts'[a].status = attempts[a].status
    /\ Known(requests[r].cookies.context)
          /\ attempts[requests[r].attempt].context = requests[r].cookies.context
       => ~attempts'[requests[r].attempt].bound

LEMMA CallbackNamed ==
    ASSUME TypeInv, NEW r \in Requests, requests[r].op = "callback",
           requests[r].at \notin {"failing", "answered"}
    PROVE  /\ requests[r] \in RequestRecords
           /\ requests[r].attempt \in Attempts
           /\ attempts[requests[r].attempt].status # "unused"
BY RequestType DEF TypeInv, NamedIn

LEMMA DiscardsEffect ==
    ASSUME TypeInv, NEW q, q.attempt \in Attempts, attempts[q.attempt].status # "unused", Discards(q)
    PROVE  /\ Discarded
           /\ correlation' \in [Attempts -> {"none", "pending", "completed"}]
<1>1. correlation' = [correlation EXCEPT ![q.attempt] = "none"]
  BY DEF Discards
<1>2. attempts' = CallbackAbandoned(q.cookies.context, q.attempt)
  BY DEF Discards
<1>3. /\ Weakens(attempts')
      /\ \A b \in Attempts : attempts[b].bound => attempts'[b] = attempts[b]
  BY <1>2, CallbackAbandonedWeakens DEF TypeInv, TypeOK
<1>4. correlation \in [Attempts -> {"none", "pending", "completed"}]
  BY DEF TypeInv, TypeOK
<1>5. QED
  BY <1>1, <1>3, <1>4 DEF Discarded, Forgets

LEMMA RollsBackEffect ==
    ASSUME TypeInv, NEW r \in Requests, requests[r].attempt \in Attempts, RollsBack(requests[r])
    PROVE  /\ RolledBackBy(r)
           /\ correlation' \in [Attempts -> {"none", "pending", "completed"}]
<1> DEFINE q == requests[r]
<1>1. correlation' = [correlation EXCEPT ![q.attempt] = "none"]
  BY DEF RollsBack
<1>2. attempts' = RolledBack(q.cookies.context, q.attempt)
  BY DEF RollsBack
<1>3. /\ Weakens(attempts')
      /\ \A b \in Attempts : attempts'[b].status = attempts[b].status
      /\ Known(q.cookies.context) /\ attempts[q.attempt].context = q.cookies.context
           => ~attempts'[q.attempt].bound
  BY <1>2, RolledBackWeakens DEF TypeInv, TypeOK
<1>4. correlation \in [Attempts -> {"none", "pending", "completed"}]
  BY DEF TypeInv, TypeOK
<1>5. QED
  BY <1>1, <1>3, <1>4 DEF RolledBackBy, Forgets

LEMMA GoesOnBy ==
    ASSUME TypeInv, NEW r \in Requests, NEW q \in RequestRecords, Becomes(r, q),
           requests[r].op = "callback", requests[r].at \notin {"failing", "answered"},
           Alike(q, requests[r]), Remembers(attempts')
    PROVE  GoesOn(r, q.at) /\ NamedIn(q, attempts')
<1>1. Turns(r, q.op, q.at, q.attempt) /\ requests'[r] = q
  BY TurnsBy
<1>2. GoesOn(r, q.at)
  BY <1>1 DEF GoesOn, Alike
<1>3. NamedIn(q, attempts')
  BY CallbackNamed DEF NamedIn, Alike, Remembers
<1>4. QED
  BY <1>2, <1>3

LEMMA GivesUpBy ==
    ASSUME TypeInv, NEW r \in Requests, NEW q \in RequestRecords, Becomes(r, Fails(q)),
           q.op = "callback"
    PROVE  /\ GivesUp(r)
           /\ Fails(q) \in RequestRecords
           /\ \A atts : NamedIn(Fails(q), atts)
<1> DEFINE p == Fails(q)
<1>1. p \in RequestRecords /\ p.op = "callback" /\ p.at = "failing" /\ p.attempt = NoHandle
  BY FailsFields
<1>2. \A atts : NamedIn(p, atts)
  BY FailsNamed
<1>3. Becomes(r, p)
  OBVIOUS
<1> HIDE DEF p
<1>4. Turns(r, p.op, p.at, p.attempt)
  BY <1>1, <1>3, TurnsBy
<1>5. GivesUp(r)
  BY <1>1, <1>4 DEF GivesUp
<1>6. QED
  BY <1>1, <1>2, <1>5 DEF p

LEMMA PreviousSet ==
    ASSUME NEW q \in RequestRecords, NEW b \in BOOLEAN
    PROVE  /\ [q EXCEPT !.previous = b] \in RequestRecords
           /\ Alike([q EXCEPT !.previous = b], q)
           /\ [q EXCEPT !.previous = b].at = q.at
<1>1. [q EXCEPT !.previous = b] \in RequestRecords
  BY Zenon DEF RequestRecords
<1>2. QED
  BY <1>1, SMT DEF RequestRecords, Alike

LEMMA BeginCallbackEffect ==
    ASSUME TypeInv, NEW r \in Requests, NEW denied \in BOOLEAN, NEW expired \in BOOLEAN,
           BeginCallback(r, denied, expired)
    PROVE  /\ TypeInv'
           /\ At(r, "callback", "received")
           /\ UNCHANGED contexts
           /\ \/ /\ GoesOn(r, "exchanging") \/ GoesOn(r, "revalidating")
                 /\ UNCHANGED <<attempts, correlation>>
              \/ GivesUp(r) /\ Discarded
<1> DEFINE o == requests[r]
           q == [o EXCEPT !.previous = o.cookies.session]
           record == IF expired THEN "none" ELSE correlation[q.attempt]
           place == IF record = "pending" THEN "exchanging" ELSE "revalidating"
<1>1. /\ At(r, "callback", "received")
      /\ \/ /\ Becomes(r, Awaits(q, place))
            /\ UNCHANGED <<attempts, correlation>>
         \/ /\ Becomes(r, Fails(q))
            /\ IF record = "pending" THEN Discards(q)
               ELSE /\ correlation' = [correlation EXCEPT ![q.attempt] = record]
                    /\ UNCHANGED attempts
      /\ UNCHANGED <<contexts, codes, jar, restarts, history>>
  BY DEF BeginCallback
<1>2. /\ o \in RequestRecords /\ o.op = "callback" /\ o.at = "received"
      /\ o.attempt \in Attempts /\ attempts[o.attempt].status # "unused"
  BY <1>1, CallbackNamed DEF At
<1>3. o.cookies.session \in BOOLEAN
  BY <1>2, SMT DEF RequestRecords, Cookies
<1>4. q \in RequestRecords /\ Alike(q, o) /\ q.at = o.at
  BY <1>2, <1>3, PreviousSet
<1>5. q.op = "callback" /\ q.attempt = o.attempt
  BY <1>2, <1>4 DEF Alike
<1> HIDE DEF q
<1>6. CASE Becomes(r, Awaits(q, place)) /\ UNCHANGED <<attempts, correlation>>
  <2>1. place \in {"exchanging", "revalidating"}
    OBVIOUS
  <2> HIDE DEF place
  <2>2. Awaits(q, place) \in RequestRecords /\ Alike(Awaits(q, place), q) /\ Awaits(q, place).at = place
    BY <1>4, <2>1, MoveAlike
  <2>3. Alike(Awaits(q, place), o)
    BY <1>4, <2>2 DEF Alike
  <2>4. Remembers(attempts')
    BY <1>6 DEF Remembers
  <2>5. GoesOn(r, place) /\ NamedIn(Awaits(q, place), attempts')
    BY <1>2, <1>6, <2>2, <2>3, <2>4, GoesOnBy
  <2>6. TypeInv'
    BY <1>1, <1>6, <2>2, <2>4, <2>5, TypeStep, CodesKept DEF TypeInv, TypeOK, FenceTypeOK, history
  <2>7. QED
    BY <1>1, <1>6, <2>1, <2>5, <2>6
<1>7. CASE /\ Becomes(r, Fails(q))
           /\ IF record = "pending" THEN Discards(q)
              ELSE /\ correlation' = [correlation EXCEPT ![q.attempt] = record]
                   /\ UNCHANGED attempts
  <2>1. GivesUp(r) /\ Fails(q) \in RequestRecords /\ NamedIn(Fails(q), attempts')
    BY <1>4, <1>5, <1>7, GivesUpBy
  <2>2. /\ Discarded
        /\ correlation' \in [Attempts -> {"none", "pending", "completed"}]
    <3>1. CASE Discards(q)
      BY <1>2, <1>5, <3>1, DiscardsEffect
    <3>2. CASE /\ correlation' = [correlation EXCEPT ![q.attempt] = record]
               /\ UNCHANGED attempts
      <4>1. correlation \in [Attempts -> {"none", "pending", "completed"}]
        BY DEF TypeInv, TypeOK
      <4>2. record \in {"none", correlation[o.attempt]}
        BY <1>5
      <4> HIDE DEF record
      <4>3. /\ Forgets
            /\ correlation' \in [Attempts -> {"none", "pending", "completed"}]
        BY <1>2, <1>5, <3>2, <4>1, <4>2 DEF Forgets
      <4>4. QED
        BY <3>2, <4>3, NothingWeakens DEF Discarded, TypeInv, TypeOK
    <3>3. QED
      BY <1>7, <3>1, <3>2
  <2>3. Remembers(attempts') /\ attempts' \in [Attempts -> AttemptRecords]
    BY <2>2, WeakeningRemembers DEF Discarded, Weakens
  <2>4. TypeInv'
    BY <1>1, <1>7, <2>1, <2>2, <2>3, TypeStep, CodesKept DEF TypeInv, TypeOK, FenceTypeOK, history
  <2>5. QED
    BY <1>1, <2>1, <2>2, <2>4
<1>8. QED
  BY <1>1, <1>6, <1>7

LEMMA ExchangeEffect ==
    ASSUME TypeInv, NEW r \in Requests, Exchange(r)
    PROVE  /\ TypeInv'
           /\ At(r, "callback", "exchanging")
           /\ requests[r].attempt \in Attempts
           /\ GoesOn(r, "completing")
           /\ codes[requests[r].attempt] = "issued"
           /\ codes' = [codes EXCEPT ![requests[r].attempt] = "used"]
<1> DEFINE q == requests[r]
<1>1. /\ At(r, "callback", "exchanging")
      /\ codes[q.attempt] = "issued"
      /\ codes' = [codes EXCEPT ![q.attempt] = "used"]
      /\ Becomes(r, Goto(q, "completing"))
      /\ UNCHANGED <<authority, correlation, jar, restarts, history>>
  BY DEF Exchange
<1>2. /\ q \in RequestRecords /\ q.op = "callback" /\ q.at = "exchanging"
      /\ q.attempt \in Attempts /\ attempts[q.attempt].status # "unused"
  BY <1>1, CallbackNamed DEF At
<1>3. /\ Goto(q, "completing") \in RequestRecords
      /\ Alike(Goto(q, "completing"), q)
      /\ Goto(q, "completing").at = "completing"
  BY <1>2, MoveAlike
<1>4. Remembers(attempts')
  BY <1>1 DEF Remembers, authority
<1>5. GoesOn(r, "completing") /\ NamedIn(Goto(q, "completing"), attempts')
  BY <1>1, <1>2, <1>3, <1>4, GoesOnBy
<1>6. /\ codes' \in [Attempts -> {"none", "issued", "used"}]
      /\ \A a \in Attempts : codes'[a] # "none" => attempts'[a].status # "unused"
  BY <1>1, <1>2 DEF TypeInv, TypeOK, authority
<1>7. TypeInv'
  BY <1>1, <1>3, <1>4, <1>5, <1>6, TypeStep DEF TypeInv, TypeOK, FenceTypeOK, history, authority
<1>8. QED
  BY <1>1, <1>2, <1>5, <1>7

LEMMA ExchangeFailsEffect ==
    ASSUME TypeInv, NEW r \in Requests, ExchangeFails(r)
    PROVE  /\ TypeInv'
           /\ At(r, "callback", "exchanging")
           /\ GivesUp(r)
           /\ Discarded
<1> DEFINE q == requests[r]
<1>1. /\ At(r, "callback", "exchanging")
      /\ Discards(q)
      /\ Becomes(r, Fails(q))
      /\ UNCHANGED <<contexts, codes, jar, restarts, history>>
  BY DEF ExchangeFails
<1>2. /\ q \in RequestRecords /\ q.op = "callback"
      /\ q.attempt \in Attempts /\ attempts[q.attempt].status # "unused"
  BY <1>1, CallbackNamed DEF At
<1>3. GivesUp(r) /\ Fails(q) \in RequestRecords /\ NamedIn(Fails(q), attempts')
  BY <1>1, <1>2, GivesUpBy
<1>4. Discarded /\ correlation' \in [Attempts -> {"none", "pending", "completed"}]
  BY <1>1, <1>2, DiscardsEffect
<1>5. Remembers(attempts') /\ attempts' \in [Attempts -> AttemptRecords]
  BY <1>4, WeakeningRemembers DEF Discarded, Weakens
<1>6. TypeInv'
  BY <1>1, <1>3, <1>4, <1>5, TypeStep, CodesKept DEF TypeInv, TypeOK, FenceTypeOK, history
<1>7. QED
  BY <1>1, <1>3, <1>4, <1>6

LEMMA CompleteCorrelationEffect ==
    ASSUME TypeInv, NEW r \in Requests, NEW expired \in BOOLEAN, CompleteCorrelation(r, expired)
    PROVE  /\ TypeInv'
           /\ At(r, "callback", "completing")
           /\ requests[r].attempt \in Attempts
           /\ \/ /\ Current(requests[r].cookies.context, requests[r].attempt)
                 /\ GoesOn(r, "establishing")
                 /\ correlation' = [correlation EXCEPT ![requests[r].attempt] = "completed"]
                 /\ UNCHANGED attempts
              \/ GivesUp(r) /\ Discarded
<1> DEFINE q == requests[r]
<1>1. /\ At(r, "callback", "completing")
      /\ UNCHANGED <<contexts, codes, jar, restarts, history>>
      /\ \/ /\ Vouched(q)
            /\ correlation' = [correlation EXCEPT ![q.attempt] = "completed"]
            /\ Becomes(r, Goto(q, "establishing"))
            /\ UNCHANGED attempts
         \/ Discards(q) /\ Becomes(r, Fails(q))
  BY DEF CompleteCorrelation
<1>2. /\ q \in RequestRecords /\ q.op = "callback" /\ q.at = "completing"
      /\ q.attempt \in Attempts /\ attempts[q.attempt].status # "unused"
  BY <1>1, CallbackNamed DEF At
<1>3. CASE /\ Vouched(q)
           /\ correlation' = [correlation EXCEPT ![q.attempt] = "completed"]
           /\ Becomes(r, Goto(q, "establishing"))
           /\ UNCHANGED attempts
  <2>1. /\ Goto(q, "establishing") \in RequestRecords
        /\ Alike(Goto(q, "establishing"), q)
        /\ Goto(q, "establishing").at = "establishing"
    BY <1>2, MoveAlike
  <2>2. Remembers(attempts')
    BY <1>3 DEF Remembers
  <2>3. GoesOn(r, "establishing") /\ NamedIn(Goto(q, "establishing"), attempts')
    BY <1>2, <1>3, <2>1, <2>2, GoesOnBy
  <2>4. correlation' \in [Attempts -> {"none", "pending", "completed"}]
    BY <1>3 DEF TypeInv, TypeOK
  <2>5. TypeInv'
    BY <1>1, <1>3, <2>1, <2>2, <2>3, <2>4, TypeStep, CodesKept DEF TypeInv, TypeOK, FenceTypeOK, history
  <2>6. Current(q.cookies.context, q.attempt)
    BY <1>3 DEF Vouched, ValidAttempt
  <2>7. QED
    BY <1>1, <1>2, <1>3, <2>3, <2>5, <2>6
<1>4. CASE Discards(q) /\ Becomes(r, Fails(q))
  <2>1. GivesUp(r) /\ Fails(q) \in RequestRecords /\ NamedIn(Fails(q), attempts')
    BY <1>2, <1>4, GivesUpBy
  <2>2. Discarded /\ correlation' \in [Attempts -> {"none", "pending", "completed"}]
    BY <1>2, <1>4, DiscardsEffect
  <2>3. Remembers(attempts') /\ attempts' \in [Attempts -> AttemptRecords]
    BY <2>2, WeakeningRemembers DEF Discarded, Weakens
  <2>4. TypeInv'
    BY <1>1, <1>4, <2>1, <2>2, <2>3, TypeStep, CodesKept DEF TypeInv, TypeOK, FenceTypeOK, history
  <2>5. QED
    BY <1>1, <1>2, <2>1, <2>2, <2>4
<1>5. QED
  BY <1>1, <1>3, <1>4

\* A callback rejected after its record completed rolls back and cleans up.
LEMMA RejectionEffect ==
    ASSUME TypeInv, NEW r \in Requests, requests[r].op = "callback",
           requests[r].at \notin {"failing", "answered"},
           RollsBack(requests[r]), Becomes(r, Fails(Cleaned(requests[r]))),
           UNCHANGED <<contexts, codes, jar, restarts, history>>
    PROVE  TypeInv' /\ GivesUp(r) /\ RolledBackBy(r)
<1> DEFINE q == requests[r]
           k == Cleaned(q)
<1>1. q \in RequestRecords /\ q.attempt \in Attempts
  BY CallbackNamed
<1>2. k \in RequestRecords /\ k.op = "callback"
  BY <1>1, CleanedAlike DEF Alike
<1>3. Becomes(r, Fails(k))
  OBVIOUS
<1> HIDE DEF k
<1>4. GivesUp(r) /\ Fails(k) \in RequestRecords /\ NamedIn(Fails(k), attempts')
  BY <1>2, <1>3, GivesUpBy
<1>5. RolledBackBy(r) /\ correlation' \in [Attempts -> {"none", "pending", "completed"}]
  BY <1>1, RollsBackEffect
<1>6. Remembers(attempts') /\ attempts' \in [Attempts -> AttemptRecords]
  BY <1>5, WeakeningRemembers DEF RolledBackBy, Weakens
<1>7. TypeInv'
  BY <1>3, <1>4, <1>5, <1>6, TypeStep, CodesKept DEF TypeInv, TypeOK, FenceTypeOK, history
<1>8. QED
  BY <1>4, <1>5, <1>7

LEMMA EstablishSessionEffect ==
    ASSUME TypeInv, NEW r \in Requests, EstablishSession(r)
    PROVE  /\ TypeInv'
           /\ At(r, "callback", "establishing")
           /\ requests[r].attempt \in Attempts
           /\ \/ /\ Current(requests[r].cookies.context, requests[r].attempt)
                 /\ GoesOn(r, "committing")
                 /\ attempts' = Bound(requests[r].attempt)
                 /\ UNCHANGED correlation
              \/ GivesUp(r) /\ RolledBackBy(r)
<1> DEFINE q == requests[r]
           b == Put(q, "binding", q.attempt)
<1>1. /\ At(r, "callback", "establishing")
      /\ UNCHANGED <<contexts, codes, jar, restarts, history>>
      /\ \/ /\ Vouched(q)
            /\ attempts' = Bound(q.attempt)
            /\ Becomes(r, Goto(b, "committing"))
            /\ UNCHANGED correlation
         \/ RollsBack(q) /\ Becomes(r, Fails(Cleaned(q)))
  BY DEF EstablishSession
<1>2. /\ q \in RequestRecords /\ q.op = "callback" /\ q.at = "establishing"
      /\ q.attempt \in Attempts /\ attempts[q.attempt].status # "unused"
  BY <1>1, CallbackNamed DEF At
<1>3. CASE /\ Vouched(q)
           /\ attempts' = Bound(q.attempt)
           /\ Becomes(r, Goto(b, "committing"))
           /\ UNCHANGED correlation
  <2>1. b \in RequestRecords /\ Alike(b, q)
    BY <1>2, PutOther DEF CookieNames, MaybeAttempt
  <2>2. Becomes(r, Goto(b, "committing"))
    BY <1>3
  <2> HIDE DEF b
  <2>3. /\ Goto(b, "committing") \in RequestRecords
        /\ Alike(Goto(b, "committing"), b)
        /\ Goto(b, "committing").at = "committing"
    BY <2>1, MoveAlike
  <2>4. Alike(Goto(b, "committing"), q)
    BY <2>1, <2>3 DEF Alike
  <2>5. /\ attempts' \in [Attempts -> AttemptRecords]
        /\ \A a \in Attempts : attempts'[a].status = attempts[a].status
    BY <1>2, <1>3, BoundSets DEF TypeInv, TypeOK
  <2>6. Remembers(attempts')
    BY <2>5 DEF Remembers
  <2>7. GoesOn(r, "committing") /\ NamedIn(Goto(b, "committing"), attempts')
    BY <1>2, <2>2, <2>3, <2>4, <2>6, GoesOnBy
  <2>8. TypeInv'
    BY <1>1, <1>3, <2>2, <2>3, <2>5, <2>6, <2>7, TypeStep, CodesKept DEF TypeInv, TypeOK, FenceTypeOK, history
  <2>9. Current(q.cookies.context, q.attempt)
    BY <1>3 DEF Vouched, ValidAttempt
  <2>10. QED
    BY <1>1, <1>2, <1>3, <2>7, <2>8, <2>9
<1>4. CASE RollsBack(q) /\ Becomes(r, Fails(Cleaned(q)))
  BY <1>1, <1>2, <1>4, RejectionEffect
<1>5. QED
  BY <1>1, <1>3, <1>4

LEMMA CommitSessionEffect ==
    ASSUME TypeInv, NEW r \in Requests, CommitSession(r)
    PROVE  /\ TypeInv'
           /\ At(r, "callback", "committing")
           /\ requests[r].attempt \in Attempts
           /\ \/ GoesOn(r, "confirming") /\ UNCHANGED <<attempts, correlation>>
              \/ GivesUp(r) /\ RolledBackBy(r)
<1> DEFINE q == requests[r]
           b == Put(q, "session", TRUE)
<1>1. /\ At(r, "callback", "committing")
      /\ UNCHANGED <<contexts, codes, jar, restarts, history>>
      /\ \/ /\ Becomes(r, Goto(b, "confirming"))
            /\ UNCHANGED <<attempts, correlation>>
         \/ RollsBack(q) /\ Becomes(r, Fails(Cleaned(q)))
  BY DEF CommitSession
<1>2. /\ q \in RequestRecords /\ q.op = "callback" /\ q.at = "committing"
      /\ q.attempt \in Attempts
  BY <1>1, CallbackNamed DEF At
<1>3. CASE Becomes(r, Goto(b, "confirming")) /\ UNCHANGED <<attempts, correlation>>
  <2>1. b \in RequestRecords /\ Alike(b, q)
    BY <1>2, PutOther DEF CookieNames
  <2>2. Becomes(r, Goto(b, "confirming"))
    BY <1>3
  <2> HIDE DEF b
  <2>3. /\ Goto(b, "confirming") \in RequestRecords
        /\ Alike(Goto(b, "confirming"), b)
        /\ Goto(b, "confirming").at = "confirming"
    BY <2>1, MoveAlike
  <2>4. Alike(Goto(b, "confirming"), q)
    BY <2>1, <2>3 DEF Alike
  <2>5. Remembers(attempts')
    BY <1>3 DEF Remembers
  <2>6. GoesOn(r, "confirming") /\ NamedIn(Goto(b, "confirming"), attempts')
    BY <1>2, <2>2, <2>3, <2>4, <2>5, GoesOnBy
  <2>7. TypeInv'
    BY <1>1, <1>3, <2>2, <2>3, <2>5, <2>6, TypeStep, CodesKept DEF TypeInv, TypeOK, FenceTypeOK, history
  <2>8. QED
    BY <1>1, <1>2, <1>3, <2>6, <2>7
<1>4. CASE RollsBack(q) /\ Becomes(r, Fails(Cleaned(q)))
  BY <1>1, <1>2, <1>4, RejectionEffect
<1>5. QED
  BY <1>1, <1>3, <1>4

\* A callback's answer names no attempt.
LEMMA AnswersBy ==
    ASSUME TypeInv, NEW r \in Requests, NEW q \in RequestRecords, NEW n \in {"ok", "failed"},
           q.op = "callback", Becomes(r, Answer(q, n))
    PROVE  /\ Turns(r, "callback", "answered", NoHandle)
           /\ Answer(q, n) \in RequestRecords
           /\ \A atts : NamedIn(Answer(q, n), atts)
<1> DEFINE p == Answer(q, n)
<1>1. p \in RequestRecords /\ p.op = "callback" /\ p.at = "answered" /\ p.attempt = NoHandle
  BY AnswerFields
<1>2. Becomes(r, p)
  OBVIOUS
<1> HIDE DEF p
<1>3. Turns(r, p.op, p.at, p.attempt)
  BY <1>1, <1>2, TurnsBy
<1>4. Turns(r, "callback", "answered", NoHandle)
  BY <1>1, <1>3
<1>5. \A atts : NamedIn(p, atts)
  BY <1>1, NoHandleIsNone DEF NamedIn
<1>6. QED
  BY <1>1, <1>4, <1>5 DEF p

LEMMA ConfirmEffect ==
    ASSUME TypeInv, NEW r \in Requests, Confirm(r)
    PROVE  /\ TypeInv'
           /\ At(r, "callback", "confirming")
           /\ requests[r].attempt \in Attempts
           /\ \/ /\ Turns(r, "callback", "answered", NoHandle)
                 /\ established' = established \cup {requests[r].attempt}
                 /\ UNCHANGED <<attempts, correlation>>
              \/ GivesUp(r) /\ RolledBackBy(r) /\ UNCHANGED established
<1> DEFINE q == requests[r]
<1>1. /\ At(r, "callback", "confirming")
      /\ UNCHANGED <<contexts, codes, jar, restarts, ended>>
      /\ \/ /\ Becomes(r, Answer(q, "ok"))
            /\ established' = established \cup {q.attempt}
            /\ UNCHANGED <<attempts, correlation>>
         \/ /\ RollsBack(q)
            /\ Becomes(r, Fails(Cleaned(q)))
            /\ UNCHANGED established
  BY DEF Confirm
<1>2. /\ q \in RequestRecords /\ q.op = "callback" /\ q.at = "confirming"
      /\ q.attempt \in Attempts
  BY <1>1, CallbackNamed DEF At
<1>3. CASE /\ Becomes(r, Answer(q, "ok"))
           /\ established' = established \cup {q.attempt}
           /\ UNCHANGED <<attempts, correlation>>
  <2>1. /\ Turns(r, "callback", "answered", NoHandle)
        /\ Answer(q, "ok") \in RequestRecords
        /\ NamedIn(Answer(q, "ok"), attempts')
    BY <1>2, <1>3, AnswersBy
  <2>2. Remembers(attempts')
    BY <1>3 DEF Remembers
  <2>3. established' \subseteq Attempts
    BY <1>2, <1>3 DEF TypeInv, TypeOK
  <2>4. TypeInv'
    BY <1>1, <1>3, <2>1, <2>2, <2>3, TypeStep, CodesKept DEF TypeInv, TypeOK, FenceTypeOK
  <2>5. QED
    BY <1>1, <1>2, <1>3, <2>1, <2>4
<1>4. CASE RollsBack(q) /\ Becomes(r, Fails(Cleaned(q))) /\ UNCHANGED established
  BY <1>1, <1>2, <1>4, RejectionEffect DEF history
<1>5. QED
  BY <1>1, <1>3, <1>4

LEMMA RevalidateEffect ==
    ASSUME TypeInv, NEW r \in Requests, NEW valid \in BOOLEAN, Revalidate(r, valid)
    PROVE  /\ TypeInv'
           /\ At(r, "callback", "revalidating")
           /\ Turns(r, "callback", "answered", NoHandle) \/ GivesUp(r)
           /\ Weakens(attempts')
           /\ \A a \in Attempts : attempts'[a].status = attempts[a].status
<1> DEFINE q == requests[r]
           k == [Cleaned(q) EXCEPT !.previous = FALSE]
<1>1. /\ At(r, "callback", "revalidating")
      /\ UNCHANGED <<contexts, correlation, codes, jar, restarts, history>>
      /\ \/ Becomes(r, Answer(q, "ok")) /\ UNCHANGED attempts
         \/ Becomes(r, Fails(k)) /\ attempts' = Unbound(q.cookies.binding)
  BY DEF Revalidate
<1>2. q \in RequestRecords /\ q.op = "callback" /\ q.at = "revalidating"
  BY <1>1, CallbackNamed DEF At
<1>3. CASE Becomes(r, Answer(q, "ok")) /\ UNCHANGED attempts
  <2>1. /\ Turns(r, "callback", "answered", NoHandle)
        /\ Answer(q, "ok") \in RequestRecords
        /\ NamedIn(Answer(q, "ok"), attempts')
    BY <1>2, <1>3, AnswersBy
  <2>2. Remembers(attempts')
    BY <1>3 DEF Remembers
  <2>3. TypeInv'
    BY <1>1, <1>3, <2>1, <2>2, TypeStep, CodesKept DEF TypeInv, TypeOK, FenceTypeOK, history
  <2>4. QED
    BY <1>1, <1>3, <2>1, <2>3, NothingWeakens DEF TypeInv, TypeOK
<1>4. CASE Becomes(r, Fails(k)) /\ attempts' = Unbound(q.cookies.binding)
  <2>1. Cleaned(q) \in RequestRecords /\ Alike(Cleaned(q), q)
    BY <1>2, CleanedAlike
  <2>2. k \in RequestRecords /\ k.op = "callback"
    BY <1>2, <2>1, PreviousSet DEF Alike
  <2>3. Becomes(r, Fails(k))
    BY <1>4
  <2> HIDE DEF k
  <2>4. GivesUp(r) /\ Fails(k) \in RequestRecords /\ NamedIn(Fails(k), attempts')
    BY <2>2, <2>3, GivesUpBy
  <2>5. Weakens(attempts') /\ \A a \in Attempts : attempts'[a].status = attempts[a].status
    BY <1>4, UnboundWeakens DEF TypeInv, TypeOK
  <2>6. Remembers(attempts') /\ attempts' \in [Attempts -> AttemptRecords]
    BY <2>5, WeakeningRemembers DEF Weakens
  <2>7. TypeInv'
    BY <1>1, <2>3, <2>4, <2>6, TypeStep, CodesKept DEF TypeInv, TypeOK, FenceTypeOK, history
  <2>8. QED
    BY <1>1, <2>4, <2>5, <2>7
<1>5. QED
  BY <1>1, <1>3, <1>4

LEMMA FailCallbackEffect ==
    ASSUME TypeInv, NEW r \in Requests, NEW known \in BOOLEAN, NEW valid \in BOOLEAN,
           FailCallback(r, known, valid)
    PROVE  /\ TypeInv'
           /\ At(r, "callback", "failing")
           /\ Turns(r, "callback", "answered", NoHandle)
           /\ Weakens(attempts')
           /\ \A a \in Attempts : attempts'[a].status = attempts[a].status
<1> DEFINE q == requests[r]
<1>1. /\ At(r, "callback", "failing")
      /\ UNCHANGED <<contexts, correlation, codes, jar, restarts, history>>
      /\ \/ Becomes(r, Answer(q, "failed")) /\ UNCHANGED attempts
         \/ Becomes(r, Answer(Cleaned(q), "failed")) /\ attempts' = Unbound(q.cookies.binding)
  BY DEF FailCallback
<1>2. q \in RequestRecords /\ q.op = "callback"
  BY <1>1, RequestType DEF TypeInv, At
<1>3. PICK k \in {q, Cleaned(q)} : Becomes(r, Answer(k, "failed"))
  BY <1>1
<1>4. k \in RequestRecords /\ k.op = "callback"
  BY <1>2, <1>3, CleanedAlike DEF Alike
<1>5. /\ Turns(r, "callback", "answered", NoHandle)
      /\ Answer(k, "failed") \in RequestRecords
      /\ NamedIn(Answer(k, "failed"), attempts')
  BY <1>3, <1>4, AnswersBy
<1>6. Weakens(attempts') /\ \A a \in Attempts : attempts'[a].status = attempts[a].status
  BY <1>1, UnboundWeakens, NothingWeakens DEF TypeInv, TypeOK
<1>7. Remembers(attempts') /\ attempts' \in [Attempts -> AttemptRecords]
  BY <1>6, WeakeningRemembers DEF Weakens
<1>8. TypeInv'
  BY <1>1, <1>3, <1>5, <1>7, TypeStep, CodesKept DEF TypeInv, TypeOK, FenceTypeOK, history
<1>9. QED
  BY <1>1, <1>5, <1>6, <1>8

\* A restart loses every live context and attempt.
LEMMA ForgetType ==
    ASSUME TypeOK, Forget
    PROVE  /\ contexts' \in [Contexts -> ContextRecords]
           /\ attempts' \in [Attempts -> AttemptRecords]
           /\ \A c \in Contexts : contexts'[c].status # "live"
           /\ \A c \in Contexts : contexts'[c].published \in {0, contexts[c].published}
           /\ \A c \in Contexts : Known(c) \/ contexts'[c] = contexts[c]
           /\ \A a \in Attempts : /\ attempts'[a].status # "live"
                                  /\ (attempts'[a].status = "unused") <=> (attempts[a].status = "unused")
                                  /\ attempts[a].status # "live" => attempts'[a] = attempts[a]
                                  /\ attempts[a].status = "live" => ~attempts'[a].bound
           /\ \A c \in Contexts : Known(c) => contexts'[c].published = 0 /\ contexts'[c].generation = 0
<1>1. 0 \in 0..MaxGeneration
  BY FenceAssumption DEF FenceAssumption
<1>2. contexts \in [Contexts -> ContextRecords] /\ attempts \in [Attempts -> AttemptRecords]
  BY DEF TypeOK, FenceTypeOK
<1> DEFINE room == [NoContext EXCEPT !.status = "lost"]
           gone == [NoAttempt EXCEPT !.status = "lost"]
<1>3. room \in ContextRecords /\ room.status = "lost" /\ room.published = 0 /\ room.generation = 0
  <2>1. NoContext \in ContextRecords
    BY <1>1, Zenon DEF NoContext, ContextRecords, Statuses
  <2>2. room \in ContextRecords
    BY <2>1, Zenon DEF ContextRecords, Statuses
  <2>3. QED
    BY <2>2, SMT DEF NoContext
<1>4. gone \in AttemptRecords /\ gone.status = "lost" /\ ~gone.bound
  <2>1. NoAttempt \in AttemptRecords
    BY <1>1, Zenon DEF NoAttempt, AttemptRecords, Statuses
  <2>2. gone \in AttemptRecords
    BY <2>1, Zenon DEF AttemptRecords, Statuses
  <2>3. QED
    BY <2>2, SMT DEF NoAttempt
<1>5. /\ contexts' = [c \in Contexts |-> IF Known(c) THEN room ELSE contexts[c]]
      /\ attempts' = [a \in Attempts |-> IF attempts[a].status = "live" THEN gone ELSE attempts[a]]
  BY DEF Forget
<1> HIDE DEF room, gone
<1>6. \A c \in Contexts : Known(c) <=> contexts[c].status = "live"
  BY DEF Known
<1>7. QED
  BY <1>2, <1>3, <1>4, <1>5, <1>6

LEMMA RestartEffect ==
    ASSUME TypeInv, Restart
    PROVE  /\ TypeInv'
           /\ \A r \in Requests : (requests'[r] = requests[r] /\ requests[r].at = "answered")
                                  \/ requests'[r] = Idle
<1>1. /\ requests' \in [Requests -> RequestRecords]
      /\ \A r \in Requests : (requests'[r] = requests[r] /\ requests[r].at = "answered")
                             \/ requests'[r] = Idle
  BY IdleType DEF Restart, TypeInv, TypeOK
<1>2. /\ contexts' \in [Contexts -> ContextRecords]
      /\ attempts' \in [Attempts -> AttemptRecords]
      /\ Remembers(attempts')
  BY ForgetType DEF Restart, TypeInv, Remembers
<1>3. \A r \in Requests : NamedIn(requests'[r], attempts')
  <2>1. \A r \in Requests : NamedIn(requests[r], attempts')
    BY <1>2, NamedSurvives DEF TypeInv
  <2>2. QED
    BY <1>1, <2>1, IdleNamed
<1>4. restarts' \in 0..MaxRestarts
  <2>1. restarts \in 0..MaxRestarts /\ restarts < MaxRestarts /\ restarts' = restarts + 1
    BY DEF Restart, TypeInv, TypeOK
  <2>2. QED
    BY <2>1, ServerAssumption DEF ServerAssumption
<1>5. /\ correlation' \in [Attempts -> {"none", "pending", "completed"}]
      /\ UNCHANGED <<codes, jar, history>>
  BY DEF Restart
<1>6. TypeInv'
  BY <1>1, <1>2, <1>3, <1>4, <1>5, CodesKept DEF TypeInv, TypeOK, FenceTypeOK, history
<1>7. QED
  BY <1>1, <1>6

-----------------------------------------------------------------------------
\* Type correctness, with the attempts the requests name.
LEMMA InitTypes == Init => TypeInv
<1> SUFFICES ASSUME Init PROVE TypeInv
  OBVIOUS
<1>1. 0 \in 0..MaxGeneration /\ 0 \in 0..MaxRestarts
  BY FenceAssumption, ServerAssumption DEF FenceAssumption, ServerAssumption
<1>2. NoContext \in ContextRecords
  BY <1>1, Zenon DEF NoContext, ContextRecords, Statuses
<1>3. NoAttempt \in AttemptRecords
  BY <1>1, Zenon DEF NoAttempt, AttemptRecords, Statuses
<1>4. NoCookies \in Cookies
  BY Zenon DEF NoCookies, Cookies, MaybeAttempt
<1>5. TypeOK
  BY <1>1, <1>2, <1>3, <1>4, IdleType DEF Init, FenceInit, TypeOK, FenceTypeOK
<1>6. \A r \in Requests : NamedIn(requests[r], attempts)
  BY IdleNamed DEF Init
<1>7. QED
  BY <1>5, <1>6 DEF TypeInv, Init

LEMMA StutterTypes ==
    ASSUME TypeInv, UNCHANGED vars
    PROVE  TypeInv'
BY DEF vars, authority, history, TypeInv, TypeOK, FenceTypeOK, NamedIn

LEMMA BrowserTypes ==
    ASSUME TypeInv, NEW r \in Requests, Browser(r)
    PROVE  TypeInv'
BY BeginSignInTypes, ResolveSessionTypes, SignOutTypes, OpenCallbackTypes, DeliverTypes, LoseTypes
   DEF Browser

LEMMA FenceHostTypes ==
    ASSUME TypeInv, NEW r \in Requests, FenceHost(r)
    PROVE  TypeInv'
BY PrepareSignInEffect, RefuseSignInEffect, CompletePreparationEffect, AssociateEffect,
   PublishSignOutEffect, ResolveEffect DEF FenceHost

LEMMA CallbackTypes ==
    ASSUME TypeInv, NEW r \in Requests, Callback(r)
    PROVE  TypeInv'
BY BeginCallbackEffect, ExchangeEffect, ExchangeFailsEffect, CompleteCorrelationEffect,
   EstablishSessionEffect, CommitSessionEffect, ConfirmEffect, RevalidateEffect,
   FailCallbackEffect DEF Callback

LEMMA NextTypes ==
    ASSUME TypeInv, [Next]_vars
    PROVE  TypeInv'
BY BrowserTypes, FenceHostTypes, CallbackTypes, SignOutLocalTypes, RestartEffect, StutterTypes
   DEF Next

\* Every variable keeps its type, and what a request works on was prepared.
THEOREM TypeCorrect == Spec => []TypeInv
<1>1. Init => TypeInv
  BY InitTypes
<1>2. TypeInv /\ [Next]_vars => TypeInv'
  BY NextTypes
<1>3. QED
  BY <1>1, <1>2, PTL DEF Spec

\* TypeOK, as the run checks it.
THEOREM ServerTypes == Spec => []TypeOK
<1>1. TypeInv => TypeOK
  BY DEF TypeInv
<1>2. QED
  BY <1>1, TypeCorrect, PTL

-----------------------------------------------------------------------------
(* Sign-outs: no attempt of an earlier generation is current.              *)

FenceInv ==
    /\ \A a \in Attempts : attempts[a].status = "live" =>
           /\ attempts[a].context \in Contexts
           /\ contexts[attempts[a].context].status = "live"
           /\ attempts[a].generation <= contexts[attempts[a].context].generation
    /\ \A c \in Contexts : /\ contexts[c].published \in {0, contexts[c].generation}
                           /\ contexts[c].status = "unused" => contexts[c].generation = 0
    /\ \A a \in ended :
           /\ attempts[a].status # "unused"
           /\ attempts[a].status = "live" =>
                  attempts[a].generation < contexts[attempts[a].context].generation

Settles(c) == contexts[c].published \in {0, contexts[c].reconciled}

\* PREPARE_SIGN_IN between its first step and its answer.
Preparing(q) == q.op = "prepare" /\ q.at \in {"reconciling", "associating"}

\* An attempt the callback would accept, or whose preparation has nothing left to
\* reconcile, is of a context whose last sign-out is reconciled.
SettledInv ==
    /\ \A c \in Contexts, a \in Attempts : Current(c, a) /\ attempts[a].associated => Settles(c)
    /\ \A r \in Requests, c \in Contexts, a \in Attempts :
           Preparing(requests[r]) /\ requests[r].cookies.context = c /\ requests[r].attempt = a =>
               /\ attempts[a].context = c
               /\ requests[r].at = "reconciling" => requests[r].generation = attempts[a].generation
               /\ requests[r].at = "associating" \/ requests[r].plan = "none" =>
                      (Current(c, a) => Settles(c))

\* What most steps leave of the authority, as far as these invariants see it.
FenceKept ==
    /\ \A c \in Contexts : /\ contexts'[c].status = contexts[c].status
                           /\ contexts'[c].generation = contexts[c].generation
                           /\ contexts'[c].published = contexts[c].published
                           /\ contexts'[c].reconciled = contexts[c].reconciled
    /\ \A a \in Attempts : /\ attempts'[a].context = attempts[a].context
                           /\ attempts'[a].generation = attempts[a].generation
                           /\ attempts'[a].associated = attempts[a].associated
                           /\ \/ attempts'[a].status = attempts[a].status
                              \/ attempts[a].status # "unused" /\ attempts'[a].status = "lost"
    /\ UNCHANGED ended

NothingPrepared ==
    \A s \in Requests : Preparing(requests'[s]) =>
        /\ Preparing(requests[s])
        /\ Alike(requests'[s], requests[s])
        /\ requests'[s].at = requests[s].at

LEMMA KeptCurrent ==
    ASSUME FenceKept, NEW c \in Contexts, NEW a \in Attempts, Current(c, a)'
    PROVE  Current(c, a)
BY DEF FenceKept, Current, Known

LEMMA FenceQuiet ==
    ASSUME TypeInv, FenceInv, FenceKept
    PROVE  FenceInv'
<1>1. \A a \in Attempts : attempts'[a].status = "live" => attempts[a].status = "live"
  BY DEF FenceKept
<1>2. ended \subseteq Attempts
  BY DEF TypeInv, TypeOK
<1>3. QED
  BY <1>1, <1>2 DEF FenceInv, FenceKept

LEMMA SettledQuiet ==
    ASSUME TypeInv, SettledInv, FenceKept, NothingPrepared
    PROVE  SettledInv'
<1>1. \A c \in Contexts : Settles(c) => Settles(c)'
  BY DEF Settles, FenceKept
<1>2. ASSUME NEW c \in Contexts, NEW a \in Attempts, (Current(c, a) /\ attempts[a].associated)'
      PROVE  Settles(c)'
  <2>1. Current(c, a) /\ attempts[a].associated
    BY <1>2, KeptCurrent DEF FenceKept
  <2>2. QED
    BY <1>1, <2>1 DEF SettledInv
<1>3. ASSUME NEW r \in Requests, NEW c \in Contexts, NEW a \in Attempts,
             Preparing(requests'[r]), requests'[r].cookies.context = c, requests'[r].attempt = a
      PROVE  /\ attempts'[a].context = c
             /\ requests'[r].at = "reconciling" => requests'[r].generation = attempts'[a].generation
             /\ requests'[r].at = "associating" \/ requests'[r].plan = "none" =>
                    (Current(c, a)' => Settles(c)')
  <2>1. Preparing(requests[r]) /\ Alike(requests'[r], requests[r]) /\ requests'[r].at = requests[r].at
    BY <1>3 DEF NothingPrepared
  <2>2. /\ requests[r].cookies.context = c
        /\ requests[r].attempt = a
        /\ requests'[r].plan = requests[r].plan
        /\ requests'[r].generation = requests[r].generation
    BY <1>3, <2>1 DEF Alike
  <2>3. /\ attempts[a].context = c
        /\ requests[r].at = "reconciling" => requests[r].generation = attempts[a].generation
        /\ requests[r].at = "associating" \/ requests[r].plan = "none" =>
               (Current(c, a) => Settles(c))
    BY <2>1, <2>2 DEF SettledInv
  <2>4. Current(c, a)' => Current(c, a)
    BY KeptCurrent
  <2>5. Settles(c) => Settles(c)'
    BY <1>1
  <2>6. QED
    BY <2>1, <2>2, <2>3, <2>4, <2>5 DEF FenceKept
<1>4. QED
  BY <1>2, <1>3 DEF SettledInv

LEMMA SendsEffect ==
    ASSUME TypeInv, NEW r \in Requests, NEW op, NEW a, NEW k, Sends(r, op, a, k)
    PROVE  /\ \A s \in Requests \ {r} : requests'[s] = requests[s]
           /\ requests'[r].at = "received"
           /\ requests'[r].op = op
           /\ requests'[r].attempt = a
<1> DEFINE q == [Idle EXCEPT !.op = op, !.at = "received", !.cookies = k, !.attempt = a]
<1>1. q.at = "received" /\ q.op = op /\ q.attempt = a
  BY SMT DEF Idle
<1>2. requests' = [requests EXCEPT ![r] = q]
  BY DEF Sends
<1> HIDE DEF q
<1>3. requests'[r] = q /\ \A s \in Requests \ {r} : requests'[s] = requests[s]
  BY <1>2 DEF TypeInv, TypeOK
<1>4. QED
  BY <1>1, <1>3

\* A step of the browser touches the authority only through what it sends.
LEMMA BrowserEffect ==
    ASSUME TypeInv, NEW r \in Requests, Browser(r)
    PROVE  /\ UNCHANGED <<authority, correlation, restarts, history>>
           /\ \A s \in Requests \ {r} : requests'[s] = requests[s]
           /\ requests'[r].at \in {"received", "idle"}
           /\ requests'[r].attempt \in Attempts => requests'[r].op = "callback"
           /\ \/ UNCHANGED codes
              \/ /\ requests[r].op = "prepare" /\ requests[r].at = "answered"
                 /\ requests[r].attempt \in Attempts
                 /\ requests'[r] = Idle
                 /\ codes' = [codes EXCEPT ![requests[r].attempt] = "issued"]
<1>1. CASE BeginSignIn(r) \/ ResolveSession(r) \/ SignOut(r)
  <2>1. PICK op, k : Sends(r, op, NoHandle, k)
    BY <1>1 DEF BeginSignIn, ResolveSession, SignOut
  <2>2. UNCHANGED <<authority, correlation, codes, restarts, history>>
    BY <1>1 DEF BeginSignIn, ResolveSession, SignOut
  <2>3. QED
    BY <2>1, <2>2, SendsEffect, NoHandleIsNone
<1>2. CASE \E a \in Attempts : OpenCallback(r, a)
  BY <1>2, SendsEffect DEF OpenCallback
<1>3. CASE Deliver(r) \/ Lose(r)
  <2>1. /\ requests' = [requests EXCEPT ![r] = Idle]
        /\ UNCHANGED <<authority, correlation, restarts, history>>
    BY <1>3 DEF Deliver, Lose
  <2>2. requests'[r] = Idle /\ \A s \in Requests \ {r} : requests'[s] = requests[s]
    BY <2>1 DEF TypeInv, TypeOK
  <2>3. Idle.at = "idle" /\ Idle.attempt = NoHandle
    BY SMT DEF Idle
  <2>4. \/ UNCHANGED codes
        \/ /\ requests[r].op = "prepare" /\ requests[r].at = "answered"
           /\ requests[r].attempt \in Attempts
           /\ codes' = [codes EXCEPT ![requests[r].attempt] = "issued"]
    BY <1>3 DEF Deliver, Lose, TypeInv, NamedIn
  <2>5. QED
    BY <2>1, <2>2, <2>3, <2>4, NoHandleIsNone
<1>4. QED
  BY <1>1, <1>2, <1>3 DEF Browser

LEMMA WeakeningKeeps ==
    ASSUME UNCHANGED <<contexts, ended>>, Weakens(attempts')
    PROVE  FenceKept
BY DEF Weakens, FenceKept

LEMMA UnchangedKeeps ==
    ASSUME UNCHANGED <<contexts, attempts, ended>>
    PROVE  FenceKept
BY DEF FenceKept

\* A request that turns to anything but a preparation prepares nothing.
LEMMA TurnPreparesNothing ==
    ASSUME TypeInv, NEW r \in Requests, \A s \in Requests \ {r} : requests'[s] = requests[s],
           ~Preparing(requests'[r])
    PROVE  NothingPrepared
BY DEF NothingPrepared, Alike

LEMMA BrowserFence ==
    ASSUME TypeInv, NEW r \in Requests, Browser(r)
    PROVE  FenceKept /\ NothingPrepared
<1>1. /\ UNCHANGED <<contexts, attempts, ended>>
      /\ \A s \in Requests \ {r} : requests'[s] = requests[s]
      /\ ~Preparing(requests'[r])
  BY BrowserEffect DEF authority, history, Preparing
<1>2. QED
  BY <1>1, UnchangedKeeps, TurnPreparesNothing

LEMMA BoundKeeps ==
    ASSUME TypeInv, NEW a \in Attempts, attempts' = Bound(a), UNCHANGED <<contexts, ended>>
    PROVE  FenceKept
<1>1. /\ \A b \in Attempts \ {a} : attempts'[b] = attempts[b]
      /\ attempts'[a].context = attempts[a].context
      /\ attempts'[a].generation = attempts[a].generation
      /\ attempts'[a].status = attempts[a].status
      /\ attempts'[a].associated = attempts[a].associated
  BY BoundSets DEF TypeInv, TypeOK
<1>2. QED
  BY <1>1 DEF FenceKept

LEMMA CallbackFence ==
    ASSUME TypeInv, NEW r \in Requests, Callback(r)
    PROVE  FenceKept /\ NothingPrepared
<1>1. UNCHANGED <<contexts, ended>>
  BY DEF Callback, BeginCallback, Exchange, ExchangeFails, CompleteCorrelation, EstablishSession,
         CommitSession, Confirm, Revalidate, FailCallback, authority, history
<1>2. Weakens(attempts)
  BY NothingWeakens DEF TypeInv, TypeOK
<1>3. /\ \/ Weakens(attempts')
         \/ requests[r].attempt \in Attempts /\ attempts' = Bound(requests[r].attempt)
      /\ \E place, a : Turns(r, "callback", place, a)
  <2>1. CASE \E denied, expired \in BOOLEAN : BeginCallback(r, denied, expired)
    BY <1>2, <2>1, BeginCallbackEffect DEF GoesOn, GivesUp, Discarded
  <2>2. CASE Exchange(r)
    BY <1>2, <2>2, ExchangeEffect DEF GoesOn, Exchange, authority
  <2>3. CASE ExchangeFails(r)
    BY <2>3, ExchangeFailsEffect DEF GivesUp, Discarded
  <2>4. CASE \E expired \in BOOLEAN : CompleteCorrelation(r, expired)
    BY <1>2, <2>4, CompleteCorrelationEffect DEF GoesOn, GivesUp, Discarded
  <2>5. CASE EstablishSession(r)
    BY <2>5, EstablishSessionEffect DEF GoesOn, GivesUp, RolledBackBy
  <2>6. CASE CommitSession(r)
    BY <1>2, <2>6, CommitSessionEffect DEF GoesOn, GivesUp, RolledBackBy
  <2>7. CASE Confirm(r)
    BY <1>2, <2>7, ConfirmEffect DEF GivesUp, RolledBackBy
  <2>8. CASE \E valid \in BOOLEAN : Revalidate(r, valid)
    BY <2>8, RevalidateEffect DEF GivesUp
  <2>9. CASE \E known, valid \in BOOLEAN : FailCallback(r, known, valid)
    BY <2>9, FailCallbackEffect
  <2>10. QED
    BY <2>1, <2>2, <2>3, <2>4, <2>5, <2>6, <2>7, <2>8, <2>9 DEF Callback
<1>4. FenceKept
  BY <1>1, <1>3, WeakeningKeeps, BoundKeeps
<1>5. NothingPrepared
  BY <1>3, TurnPreparesNothing DEF Turns, Preparing
<1>6. QED
  BY <1>4, <1>5

\* A refusal, by whatever the request fails, and a resolution.
LEMMA RefuseSignInFence ==
    ASSUME TypeInv, NEW r \in Requests, RefuseSignIn(r)
    PROVE  FenceKept /\ NothingPrepared
<1>1. UNCHANGED <<contexts, attempts, ended>>
  BY DEF RefuseSignIn, authority, history
<1>2. Turns(r, "prepare", "answered", NoHandle)
  BY RefuseSignInEffect
<1>3. QED
  BY <1>1, <1>2, UnchangedKeeps, TurnPreparesNothing DEF Turns, Preparing

LEMMA ResolveFence ==
    ASSUME TypeInv, NEW r \in Requests, NEW valid \in BOOLEAN, NEW signedOut \in BOOLEAN,
           Resolve(r, valid, signedOut)
    PROVE  FenceKept /\ NothingPrepared
<1>1. UNCHANGED <<contexts, ended>>
  BY DEF Resolve, history
<1>2. Turns(r, "resolve", "answered", NoHandle) /\ Weakens(attempts')
  BY ResolveEffect
<1>3. QED
  BY <1>1, <1>2, WeakeningKeeps, TurnPreparesNothing DEF Turns, Preparing

\* The attempt prepared is new, and so is the context where the handle is unknown:
\* nothing else is of that context.
LEMMA PrepareSignInFence ==
    ASSUME TypeInv, FenceInv, SettledInv, NEW r \in Requests, NEW c \in Contexts,
           NEW a \in Attempts, PrepareSignIn(r, c, a)
    PROVE  FenceInv' /\ SettledInv'
<1> DEFINE handle == requests[r].cookies.context
           tombstoned == requests[r].cookies.tombstone
<1>1. /\ Prepares(handle, tombstoned, c, a)
      /\ UNCHANGED ended
  BY DEF PrepareSignIn, history
<1>2. /\ Remembers(attempts')
      /\ \A b \in Attempts \ {a} : attempts'[b] = attempts[b]
      /\ attempts'[a].status = "live" /\ attempts'[a].context = c
      /\ attempts'[a].generation = contexts[c].generation
      /\ ~attempts'[a].associated
      /\ attempts[a].status = "unused"
      /\ \A d \in Contexts : d # c => contexts'[d] = contexts[d]
      /\ Known(handle) => c = handle /\ contexts'[c] = contexts[c]
      /\ ~Known(handle) => /\ contexts[c].status = "unused"
                          /\ contexts'[c].status = "live"
                          /\ contexts'[c].generation = 0
                          /\ contexts'[c].published = 0
                          /\ contexts'[c].reconciled = 0
  BY <1>1, PreparedType
<1>3. \A b \in Attempts \ {a} : attempts[b].status = "live" => /\ attempts[b].context \in Contexts
                                                               /\ contexts'[attempts[b].context] = contexts[attempts[b].context]
  BY <1>2 DEF FenceInv
<1>4. ended \subseteq Attempts /\ a \notin ended
  BY <1>2 DEF TypeInv, TypeOK, FenceInv
<1>5. contexts[c].generation \in 0..MaxGeneration
  BY SMT DEF TypeInv, TypeOK, FenceTypeOK, ContextRecords
<1>6. ~Known(handle) => contexts[c].generation = 0
  BY <1>2 DEF FenceInv
<1>7. FenceInv'
  <2>1. ASSUME NEW b \in Attempts, attempts'[b].status = "live"
        PROVE  /\ attempts'[b].context \in Contexts
               /\ contexts'[attempts'[b].context].status = "live"
               /\ attempts'[b].generation <= contexts'[attempts'[b].context].generation
    <3>1. CASE b = a
      <4>1. contexts'[c].status = "live"
        BY <1>2 DEF Known
      <4>2. attempts'[a].generation = contexts'[c].generation
        BY <1>2, <1>6
      <4>3. QED
        BY <1>2, <1>5, <3>1, <4>1, <4>2
    <3>2. CASE b # a
      BY <1>2, <1>3, <2>1, <3>2 DEF FenceInv
    <3>3. QED
      BY <3>1, <3>2
  <2>2. \A d \in Contexts : /\ contexts'[d].published \in {0, contexts'[d].generation}
                            /\ contexts'[d].status = "unused" => contexts'[d].generation = 0
    BY <1>2 DEF FenceInv
  <2>3. ASSUME NEW b \in ended
        PROVE  /\ attempts'[b].status # "unused"
               /\ attempts'[b].status = "live" =>
                      attempts'[b].generation < contexts'[attempts'[b].context].generation
    BY <1>2, <1>3, <1>4 DEF FenceInv
  <2>4. QED
    BY <1>1, <2>1, <2>2, <2>3 DEF FenceInv
<1>8. ASSUME NEW d \in Contexts, NEW b \in Attempts, b # a, Current(d, b)'
      PROVE  Current(d, b) /\ contexts'[d] = contexts[d] /\ attempts'[b] = attempts[b]
  BY <1>2, <1>3, <1>8 DEF Current, Known
<1>9. Current(c, a)' /\ requests'[r].plan = "none" => Settles(c)'
  <2>1. CASE Known(handle)
    <3>1. requests'[r].plan = PlanFor(handle, tombstoned)
      BY PrepareSignInEffect
    <3>2. requests'[r].plan = "none" => ~Outstanding(handle)
      BY <3>1 DEF PlanFor
    <3>3. contexts[c].published \in {0, contexts[c].generation}
      BY DEF FenceInv
    <3>4. QED
      BY <1>2, <2>1, <3>2, <3>3 DEF Outstanding, Settles
  <2>2. CASE ~Known(handle)
    BY <1>2, <2>2 DEF Settles
  <2>3. QED
    BY <2>1, <2>2
<1>10. SettledInv'
  <2>1. ASSUME NEW d \in Contexts, NEW b \in Attempts, (Current(d, b) /\ attempts[b].associated)'
        PROVE  Settles(d)'
    BY <1>2, <1>8, <2>1 DEF SettledInv, Settles
  <2>2. ASSUME NEW s \in Requests, NEW d \in Contexts, NEW b \in Attempts,
               Preparing(requests'[s]), requests'[s].cookies.context = d, requests'[s].attempt = b
        PROVE  /\ attempts'[b].context = d
               /\ requests'[s].at = "reconciling" => requests'[s].generation = attempts'[b].generation
               /\ requests'[s].at = "associating" \/ requests'[s].plan = "none" =>
                      (Current(d, b)' => Settles(d)')
    <3>1. CASE s = r
      <4>1. /\ requests'[r].at = "reconciling" /\ requests'[r].attempt = a
            /\ requests'[r].generation = attempts'[a].generation
            /\ requests'[r].cookies.context = c
        BY PrepareSignInEffect DEF Turns
      <4>2. QED
        BY <1>2, <1>9, <2>2, <3>1, <4>1
    <3>2. CASE s # r
      <4>1. requests'[s] = requests[s]
        BY <3>2, PrepareSignInEffect DEF Turns
      <4>2. attempts[b].status # "unused"
        BY <2>2, <4>1 DEF TypeInv, NamedIn, Preparing
      <4>3. b # a /\ attempts'[b] = attempts[b]
        BY <1>2, <4>2
      <4>4. Settles(d) /\ contexts'[d] = contexts[d] => Settles(d)'
        BY DEF Settles
      <4>5. QED
        BY <1>8, <2>2, <4>1, <4>3, <4>4 DEF SettledInv
    <3>3. QED
      BY <3>1, <3>2
  <2>3. QED
    BY <2>1, <2>2 DEF SettledInv
<1>11. QED
  BY <1>7, <1>10

LEMMA CompletePreparationFence ==
    ASSUME TypeInv, FenceInv, SettledInv, NEW r \in Requests, CompletePreparation(r)
    PROVE  FenceInv' /\ SettledInv'
<1> DEFINE q == requests[r]
           handle == q.cookies.context
<1>1. UNCHANGED ended
  BY DEF CompletePreparation, history
<1>2. q.op = "prepare" /\ q.at = "reconciling" /\ q.attempt \in Attempts
  BY CompletePreparationEffect DEF At
<1>3. CASE /\ Turns(r, "prepare", "answered", NoHandle)
           /\ UNCHANGED contexts
           /\ Weakens(attempts')
  BY <1>1, <1>3, WeakeningKeeps, TurnPreparesNothing, FenceQuiet, SettledQuiet DEF Turns, Preparing
<1>4. CASE /\ Turns(r, "prepare", "associating", q.attempt)
           /\ requests'[r].cookies.context = handle
           /\ UNCHANGED attempts
           /\ \/ q.plan = "none" /\ UNCHANGED contexts
              \/ /\ q.plan = "reconcile"
                 /\ CanReconcile(handle, q.generation)
                 /\ contexts' = Reconciled(handle, q.generation)
              \/ /\ q.plan = "reset"
                 /\ CanCompleteReset(handle)
                 /\ contexts' = ResetCompleted(handle)
  <2>1. q.generation \in 0..MaxGeneration
    <3>1. q \in RequestRecords
      BY RequestType DEF TypeInv
    <3>2. QED
      BY <3>1, SMT DEF RequestRecords
  <2>2. /\ \A d \in Contexts : /\ contexts'[d].status = contexts[d].status
                               /\ contexts'[d].generation = contexts[d].generation
                               /\ contexts'[d].published = contexts[d].published
                               /\ Settles(d) => Settles(d)'
                               /\ d = handle /\ q.plan # "none" => Settles(d)'
    <3>1. CASE q.plan = "none" /\ UNCHANGED contexts
      BY <3>1 DEF Settles
    <3>2. CASE CanReconcile(handle, q.generation) /\ contexts' = Reconciled(handle, q.generation)
      <4>1. handle \in Contexts /\ contexts[handle].published = q.generation
        BY <3>2, ContextsKnown DEF CanReconcile
      <4>2. \A d \in Contexts : /\ contexts'[d].status = contexts[d].status
                                /\ contexts'[d].generation = contexts[d].generation
                                /\ contexts'[d].published = contexts[d].published
                                /\ contexts'[d].reconciled =
                                       IF d = handle THEN q.generation ELSE contexts[d].reconciled
        BY <2>1, <3>2, <4>1, ReconciledType DEF TypeInv
      <4>3. \A d \in Contexts : d = handle => Settles(d)'
        BY <4>1, <4>2 DEF Settles
      <4>4. QED
        BY <4>2, <4>3 DEF Settles
    <3>3. CASE CanCompleteReset(handle) /\ contexts' = ResetCompleted(handle)
      <4>1. handle \in Contexts /\ contexts[handle].published = 0
        BY <3>3, ContextsKnown DEF CanCompleteReset, ResetPending
      <4>2. \A d \in Contexts : /\ contexts'[d].status = contexts[d].status
                                /\ contexts'[d].generation = contexts[d].generation
                                /\ contexts'[d].published = contexts[d].published
                                /\ contexts'[d].reconciled = contexts[d].reconciled
        BY <2>1, <3>3, <4>1, ReconciledType DEF TypeInv
      <4>3. QED
        BY <4>1, <4>2 DEF Settles
    <3>4. QED
      BY <1>4, <3>1, <3>2, <3>3
  <2>3. \A d \in Contexts, a \in Attempts : Current(d, a)' => Current(d, a)
    BY <1>4, <2>2 DEF Current, Known
  <2>4. FenceInv'
    <3>1. ended \subseteq Attempts
      BY DEF TypeInv, TypeOK
    <3>2. QED
      BY <1>1, <1>4, <2>2, <3>1 DEF FenceInv
  <2>5. ASSUME NEW d \in Contexts, NEW a \in Attempts, (Current(d, a) /\ attempts[a].associated)'
        PROVE  Settles(d)'
    BY <1>4, <2>2, <2>3, <2>5 DEF SettledInv
  <2>6. ASSUME NEW s \in Requests, NEW d \in Contexts, NEW b \in Attempts,
               Preparing(requests'[s]), requests'[s].cookies.context = d, requests'[s].attempt = b
        PROVE  /\ attempts'[b].context = d
               /\ requests'[s].at = "reconciling" => requests'[s].generation = attempts'[b].generation
               /\ requests'[s].at = "associating" \/ requests'[s].plan = "none" =>
                      (Current(d, b)' => Settles(d)')
    <3>1. CASE s = r
      <4>1. /\ requests'[r].at = "associating" /\ requests'[r].attempt = q.attempt
            /\ requests'[r].cookies.context = handle
        BY <1>4 DEF Turns
      <4>2. b = q.attempt /\ d = handle
        BY <2>6, <3>1, <4>1
      <4>3. /\ attempts[b].context = d
            /\ q.plan = "none" => (Current(d, b) => Settles(d))
        BY <1>2, <4>2 DEF SettledInv, Preparing
      <4>4. Current(d, b)' => Settles(d)'
        BY <2>2, <2>3, <4>2, <4>3
      <4>5. QED
        BY <1>4, <3>1, <4>1, <4>3, <4>4
    <3>2. CASE s # r
      <4>1. requests'[s] = requests[s]
        BY <1>4, <3>2 DEF Turns
      <4>2. QED
        BY <1>4, <2>2, <2>3, <2>6, <4>1 DEF SettledInv
    <3>3. QED
      BY <3>1, <3>2
  <2>7. QED
    BY <2>4, <2>5, <2>6 DEF SettledInv
<1>5. QED
  BY <1>3, <1>4, CompletePreparationEffect

LEMMA AssociateFence ==
    ASSUME TypeInv, FenceInv, SettledInv, NEW r \in Requests, Associate(r)
    PROVE  FenceInv' /\ SettledInv'
<1> DEFINE q == requests[r]
           c == q.cookies.context
<1>1. UNCHANGED <<contexts, ended>>
  BY DEF Associate, history
<1>2. q.op = "prepare" /\ q.at = "associating" /\ q.attempt \in Attempts
  BY AssociateEffect DEF At
<1>3. CASE Turns(r, "prepare", "answered", NoHandle) /\ Weakens(attempts')
  BY <1>1, <1>3, WeakeningKeeps, TurnPreparesNothing, FenceQuiet, SettledQuiet DEF Turns, Preparing
<1>4. CASE /\ Current(c, q.attempt)
           /\ Turns(r, "prepare", "answered", q.attempt)
           /\ attempts' = Associated(q.attempt)
  <2>1. /\ \A b \in Attempts : /\ attempts'[b].context = attempts[b].context
                               /\ attempts'[b].generation = attempts[b].generation
                               /\ attempts'[b].status = attempts[b].status
        /\ \A b \in Attempts \ {q.attempt} : attempts'[b] = attempts[b]
    BY <1>2, <1>4, AssociatedSets DEF TypeInv, TypeOK
  <2>2. FenceInv'
    <3>1. ended \subseteq Attempts
      BY DEF TypeInv, TypeOK
    <3>2. QED
      BY <1>1, <2>1, <3>1 DEF FenceInv
  <2>3. \A d \in Contexts, a \in Attempts : Current(d, a)' => Current(d, a)
    BY <1>1, <2>1 DEF Current, Known
  <2>4. \A d \in Contexts : Settles(d)' <=> Settles(d)
    BY <1>1 DEF Settles
  <2>5. c \in Contexts /\ Settles(c)
    BY <1>2, <1>4 DEF Current, Known, SettledInv, Preparing
  <2>6. ASSUME NEW d \in Contexts, NEW a \in Attempts, (Current(d, a) /\ attempts[a].associated)'
        PROVE  Settles(d)'
    <3>1. CASE a = q.attempt
      <4>1. d = c
        BY <1>4, <2>3, <2>6, <3>1 DEF Current
      <4>2. QED
        BY <2>4, <2>5, <4>1
    <3>2. CASE a # q.attempt
      BY <2>1, <2>3, <2>4, <2>6, <3>2 DEF SettledInv
    <3>3. QED
      BY <3>1, <3>2
  <2>7. ASSUME NEW s \in Requests, NEW d \in Contexts, NEW b \in Attempts,
               Preparing(requests'[s]), requests'[s].cookies.context = d, requests'[s].attempt = b
        PROVE  /\ attempts'[b].context = d
               /\ requests'[s].at = "reconciling" => requests'[s].generation = attempts'[b].generation
               /\ requests'[s].at = "associating" \/ requests'[s].plan = "none" =>
                      (Current(d, b)' => Settles(d)')
    <3>1. requests'[s] = requests[s]
      BY <1>4, <2>7 DEF Turns, Preparing
    <3>2. QED
      BY <2>1, <2>3, <2>4, <2>7, <3>1 DEF SettledInv
  <2>8. QED
    BY <2>2, <2>6, <2>7 DEF SettledInv
<1>5. QED
  BY <1>3, <1>4, AssociateEffect

\* A published sign-out leaves no attempt of its context current.
LEMMA PublishSignOutFence ==
    ASSUME TypeInv, FenceInv, SettledInv, NEW r \in Requests, PublishSignOut(r)
    PROVE  FenceInv' /\ SettledInv'
<1> DEFINE c == requests[r].cookies.context
<1>1. NothingPrepared
  BY PublishSignOutEffect DEF NothingPrepared, Preparing, Alike
<1>2. Weakens(attempts') /\ \A a \in Attempts : attempts'[a].status = attempts[a].status
  BY PublishSignOutEffect
<1>3. CASE UNCHANGED <<contexts, ended>>
  BY <1>1, <1>2, <1>3, WeakeningKeeps, FenceQuiet, SettledQuiet
<1>4. CASE /\ c \in Contexts /\ contexts[c].generation < MaxGeneration
           /\ contexts' = Advanced(c)
           /\ ended' = ended \cup {a \in Prepared : attempts[a].context = c}
  <2> DEFINE next == contexts[c].generation + 1
  <2>1. /\ \A d \in Contexts \ {c} : contexts'[d] = contexts[d]
        /\ contexts'[c].status = contexts[c].status
        /\ contexts'[c].generation = next
        /\ contexts'[c].published = next
    BY <1>4, AdvancedType DEF TypeInv
  <2>2. /\ \A a \in Attempts : /\ attempts'[a].context = attempts[a].context
                               /\ attempts'[a].generation = attempts[a].generation
                               /\ attempts'[a].associated = attempts[a].associated
                               /\ attempts[a].generation \in Nat
        /\ \A d \in Contexts : contexts[d].generation \in Nat
    <3>1. \A a \in Attempts : attempts[a].generation \in 0..MaxGeneration
      BY SMT DEF TypeInv, TypeOK, FenceTypeOK, AttemptRecords
    <3>2. \A d \in Contexts : contexts[d].generation \in 0..MaxGeneration
      BY SMT DEF TypeInv, TypeOK, FenceTypeOK, ContextRecords
    <3>3. QED
      BY <1>2, <3>1, <3>2, FenceAssumption DEF Weakens, FenceAssumption
  <2>3. PublishSignOut(r) => Known(c)
    <3>1. requests[r] \in RequestRecords
      BY RequestType DEF TypeInv
    <3>2. Put(requests[r], "tombstone", TRUE).cookies.context = c
      BY <3>1, PutOther DEF CookieNames, Alike
    <3>3. contexts' # contexts
      BY <1>4, <2>1, <2>2
    <3>4. QED
      BY <3>2, <3>3 DEF PublishSignOut, authority
  <2>4. FenceInv'
    <3>1. ASSUME NEW a \in Attempts, attempts'[a].status = "live"
          PROVE  /\ attempts'[a].context \in Contexts
                 /\ contexts'[attempts'[a].context].status = "live"
                 /\ attempts'[a].generation <= contexts'[attempts'[a].context].generation
                 /\ attempts'[a].context = c => attempts'[a].generation < contexts'[c].generation
      BY <1>2, <2>1, <2>2, <3>1 DEF FenceInv
    <3>2. ASSUME NEW d \in Contexts
          PROVE  /\ contexts'[d].published \in {0, contexts'[d].generation}
                 /\ contexts'[d].status = "unused" => contexts'[d].generation = 0
      BY <2>1, <2>3 DEF FenceInv, Known
    <3>3. ASSUME NEW a \in ended'
          PROVE  /\ attempts'[a].status # "unused"
                 /\ attempts'[a].status = "live" =>
                        attempts'[a].generation < contexts'[attempts'[a].context].generation
      <4>1. CASE a \in ended
        <5>1. a \in Attempts /\ attempts[a].status # "unused"
          BY <4>1 DEF TypeInv, TypeOK, FenceInv
        <5>2. attempts[a].status = "live" => /\ attempts[a].context \in Contexts
                                             /\ attempts[a].generation < contexts[attempts[a].context].generation
          BY <4>1, <5>1 DEF FenceInv
        <5>3. QED
          BY <1>2, <2>1, <2>2, <5>1, <5>2
      <4>2. CASE a \in {b \in Prepared : attempts[b].context = c}
        <5>1. a \in Attempts /\ attempts[a].status # "unused" /\ attempts[a].context = c
          BY <4>2 DEF Prepared
        <5>2. QED
          BY <1>2, <2>2, <3>1, <5>1
      <4>3. QED
        BY <1>4, <4>1, <4>2
    <3>4. QED
      BY <3>1, <3>2, <3>3 DEF FenceInv
  <2>5. ASSUME NEW d \in Contexts, NEW a \in Attempts, Current(d, a)'
        PROVE  d # c /\ Current(d, a)
    <3>1. /\ attempts'[a].status = "live" /\ attempts'[a].context = d
          /\ attempts'[a].generation = contexts'[d].generation /\ contexts'[d].status = "live"
      BY <2>5 DEF Current, Known
    <3>2. attempts[a].status = "live" /\ attempts[a].context = d
      BY <1>2, <2>2, <3>1
    <3>3. attempts[a].generation <= contexts[d].generation
      BY <3>2 DEF FenceInv
    <3>4. d # c
      BY <2>1, <2>2, <3>1, <3>3
    <3>5. QED
      BY <2>1, <2>2, <3>1, <3>2, <3>4 DEF Current, Known
  <2>6. \A d \in Contexts : d # c => (Settles(d)' <=> Settles(d))
    BY <2>1 DEF Settles
  <2>7. ASSUME NEW d \in Contexts, NEW a \in Attempts, (Current(d, a) /\ attempts[a].associated)'
        PROVE  Settles(d)'
    BY <2>2, <2>5, <2>6, <2>7 DEF SettledInv
  <2>8. ASSUME NEW s \in Requests, NEW d \in Contexts, NEW b \in Attempts,
               Preparing(requests'[s]), requests'[s].cookies.context = d, requests'[s].attempt = b
        PROVE  /\ attempts'[b].context = d
               /\ requests'[s].at = "reconciling" => requests'[s].generation = attempts'[b].generation
               /\ requests'[s].at = "associating" \/ requests'[s].plan = "none" =>
                      (Current(d, b)' => Settles(d)')
    <3>1. Preparing(requests[s]) /\ Alike(requests'[s], requests[s]) /\ requests'[s].at = requests[s].at
      BY <1>1, <2>8 DEF NothingPrepared
    <3>2. /\ attempts[b].context = d
          /\ requests[s].at = "reconciling" => requests[s].generation = attempts[b].generation
          /\ requests[s].at = "associating" \/ requests[s].plan = "none" =>
                 (Current(d, b) => Settles(d))
      BY <2>8, <3>1 DEF SettledInv, Alike
    <3>3. QED
      BY <2>2, <2>5, <2>6, <3>1, <3>2 DEF Alike
  <2>9. QED
    BY <2>4, <2>7, <2>8 DEF SettledInv
<1>5. QED
  BY <1>3, <1>4, PublishSignOutEffect

\* After a restart nothing is live.
LEMMA RestartFence ==
    ASSUME TypeInv, FenceInv, SettledInv, Restart
    PROVE  FenceInv' /\ SettledInv'
<1>1. /\ \A c \in Contexts : /\ contexts'[c].status # "live"
                             /\ Known(c) \/ contexts'[c] = contexts[c]
                             /\ Known(c) => contexts'[c].published = 0 /\ contexts'[c].generation = 0
      /\ \A a \in Attempts : /\ attempts'[a].status # "live"
                             /\ (attempts'[a].status = "unused") <=> (attempts[a].status = "unused")
  BY ForgetType DEF Restart, TypeInv
<1>2. UNCHANGED ended /\ ended \subseteq Attempts
  BY DEF Restart, history, TypeInv, TypeOK
<1>3. FenceInv'
  BY <1>1, <1>2 DEF FenceInv
<1>4. \A c \in Contexts, a \in Attempts : ~Current(c, a)'
  BY <1>1 DEF Current
<1>5. \A r \in Requests : ~Preparing(requests'[r])
  <2>1. Idle.at = "idle"
    BY SMT DEF Idle
  <2>2. QED
    BY <2>1, RestartEffect DEF Preparing
<1>6. QED
  BY <1>3, <1>4, <1>5 DEF SettledInv

LEMMA InitFence ==
    ASSUME Init
    PROVE  FenceInv /\ SettledInv
<1>1. /\ \A a \in Attempts : attempts[a].status = "unused"
      /\ \A c \in Contexts : contexts[c].published = 0 /\ contexts[c].generation = 0
      /\ \A r \in Requests : requests[r].at = "idle"
      /\ ended = {}
  BY SMT DEF Init, FenceInit, NoAttempt, NoContext, Idle
<1>2. QED
  BY <1>1 DEF FenceInv, SettledInv, Current, Preparing

LEMMA FenceStep ==
    ASSUME TypeInv, FenceInv, SettledInv, [Next]_vars
    PROVE  FenceInv' /\ SettledInv'
<1>1. CASE FenceKept /\ NothingPrepared
  BY <1>1, FenceQuiet, SettledQuiet
<1>2. ASSUME NEW r \in Requests, FenceHost(r)
      PROVE  FenceInv' /\ SettledInv'
  BY <1>1, <1>2, PrepareSignInFence, RefuseSignInFence, CompletePreparationFence, AssociateFence,
     PublishSignOutFence, ResolveFence DEF FenceHost
<1>3. ASSUME NEW r \in Requests, Browser(r) \/ Callback(r)
      PROVE  FenceInv' /\ SettledInv'
  BY <1>1, <1>3, BrowserFence, CallbackFence
<1>4. CASE SignOutLocal \/ UNCHANGED vars
  <2>1. UNCHANGED <<contexts, attempts, ended, requests>>
    BY <1>4 DEF SignOutLocal, vars, authority, history
  <2>2. FenceKept /\ NothingPrepared
    BY <2>1, UnchangedKeeps DEF NothingPrepared, Alike
  <2>3. QED
    BY <1>1, <2>2
<1>5. QED
  BY <1>2, <1>3, <1>4, RestartFence DEF Next

LEMMA FenceInvariant == Spec => [](TypeInv /\ FenceInv /\ SettledInv)
<1>1. Init => TypeInv /\ FenceInv /\ SettledInv
  BY InitTypes, InitFence
<1>2. TypeInv /\ FenceInv /\ SettledInv /\ [Next]_vars => (TypeInv /\ FenceInv /\ SettledInv)'
  BY NextTypes, FenceStep
<1>3. QED
  BY <1>1, <1>2, PTL DEF Spec

\* SIGN_OUT_WINS (server.ts, session-fence.ts): whatever order late, lost and
\* concurrent responses take, once a sign-out is published no cookies, neither the
\* browser's nor a request's, are resolved to a session begun before it.
THEOREM SignOutWins == Spec => []EndedSessionsStayEnded
<1>1. TypeInv /\ FenceInv => EndedSessionsStayEnded
  <2> SUFFICES ASSUME TypeInv, FenceInv,
                      NEW cookies \in {jar} \cup {requests[r].cookies : r \in Requests},
                      Eligible(cookies)
               PROVE  cookies.binding \notin ended
    BY DEF EndedSessionsStayEnded
  <2>1. Current(cookies.context, cookies.binding)
    BY DEF Eligible, ValidBinding
  <2>2. /\ cookies.context \in Contexts /\ cookies.binding \in Attempts
        /\ attempts[cookies.binding].status = "live"
        /\ attempts[cookies.binding].context = cookies.context
        /\ attempts[cookies.binding].generation = contexts[cookies.context].generation
    BY <2>1 DEF Current, Known
  <2>3. contexts[cookies.context].generation \in Nat
    <3>1. contexts[cookies.context].generation \in 0..MaxGeneration
      BY <2>2, SMT DEF TypeInv, TypeOK, FenceTypeOK, ContextRecords
    <3>2. QED
      BY <3>1, FenceAssumption DEF FenceAssumption
  <2>4. QED
    BY <2>2, <2>3 DEF FenceInv
<1>2. QED
  BY <1>1, FenceInvariant, PTL

\* CONTRACT-AUTH-001: the provider is only asked, and its callback only accepted,
\* after the sign-out published last in the context was reconciled (session-fence.ts,
\* prepareSignIn, completeReconciliation, advanceSignOut).
THEOREM SignInsReconciled == Spec => []SignInsAreReconciled
<1>1. SettledInv => SignInsAreReconciled
  BY DEF SettledInv, SignInsAreReconciled, ValidAttempt, Settles
<1>2. QED
  BY <1>1, FenceInvariant, PTL

-----------------------------------------------------------------------------
(* Callbacks: an attempt's code is good for once, so at most one callback  *)
(* is past the exchange, and it cleans up what it leaves.                  *)

\* A preparation that names the attempt: its code has not reached the browser.
Offers(r, a) == requests[r].op = "prepare" /\ requests[r].attempt = a

\* The callback that exchanged the attempt's code, and completed its record.
HoldsDone(r, a) == /\ requests[r].op = "callback"
                   /\ requests[r].attempt = a
                   /\ requests[r].at \in {"establishing", "committing", "confirming"}
Holds(r, a) == \/ HoldsDone(r, a)
               \/ /\ requests[r].op = "callback"
                  /\ requests[r].attempt = a
                  /\ requests[r].at = "completing"

CallbackInv ==
    /\ \A r \in Requests, a \in Attempts :
           /\ Offers(r, a) => codes[a] = "none"
           /\ Holds(r, a) => codes[a] = "used"
           /\ HoldsDone(r, a) => attempts[a].context = requests[r].cookies.context
    /\ \A r, s \in Requests, a \in Attempts :
           /\ Offers(r, a) /\ Offers(s, a) => r = s
           /\ Holds(r, a) /\ Holds(s, a) => r = s
    /\ \A a \in Attempts : attempts[a].bound => codes[a] = "used" /\ attempts[a].status = "live"
    /\ \A a \in Attempts : correlation[a] = "completed" \/ attempts[a].bound =>
           a \in established \/ \E r \in Requests : HoldsDone(r, a)

\* What most steps leave of it: what a callback leaves behind, it has undone or
\* reported.
CallbackKept ==
    /\ UNCHANGED codes
    /\ established \subseteq established'
    /\ \A a \in Attempts :
           /\ correlation'[a] = "completed" => correlation[a] = "completed"
           /\ attempts'[a].bound => attempts[a].bound /\ attempts'[a].status = attempts[a].status
    /\ \A r \in Requests, a \in Attempts :
           /\ Offers(r, a)' => Offers(r, a)
           /\ Holds(r, a)' => Holds(r, a)
           /\ HoldsDone(r, a)' =>
                  /\ HoldsDone(r, a)
                  /\ attempts'[a].context = attempts[a].context
                  /\ requests'[r].cookies.context = requests[r].cookies.context
           /\ HoldsDone(r, a) =>
                  \/ HoldsDone(r, a)'
                  \/ a \in established'
                  \/ correlation'[a] # "completed" /\ ~attempts'[a].bound

LEMMA CallbackQuiet ==
    ASSUME CallbackInv, CallbackKept
    PROVE  CallbackInv'
<1>1. ASSUME NEW a \in Attempts, correlation'[a] = "completed" \/ attempts'[a].bound
      PROVE  a \in established' \/ \E r \in Requests : HoldsDone(r, a)'
  <2>1. correlation[a] = "completed" \/ attempts[a].bound
    BY <1>1 DEF CallbackKept
  <2>2. a \in established \/ \E r \in Requests : HoldsDone(r, a)
    BY <2>1 DEF CallbackInv
  <2>3. QED
    BY <1>1, <2>2 DEF CallbackKept
<1>2. \A r \in Requests, a \in Attempts :
           /\ Offers(r, a)' => codes'[a] = "none"
           /\ Holds(r, a)' => codes'[a] = "used"
           /\ HoldsDone(r, a)' => attempts'[a].context = requests'[r].cookies.context
  BY DEF CallbackInv, CallbackKept
<1>3. \A r, s \in Requests, a \in Attempts :
           /\ Offers(r, a)' /\ Offers(s, a)' => r = s
           /\ Holds(r, a)' /\ Holds(s, a)' => r = s
  BY DEF CallbackInv, CallbackKept
<1>4. \A a \in Attempts : attempts'[a].bound => codes'[a] = "used" /\ attempts'[a].status = "live"
  BY DEF CallbackInv, CallbackKept
<1>5. QED
  BY <1>1, <1>2, <1>3, <1>4 DEF CallbackInv

LEMMA AlikeHolds ==
    ASSUME NEW r, NEW a, Alike(requests'[r], requests[r]), requests'[r].at = requests[r].at
    PROVE  /\ Offers(r, a)' <=> Offers(r, a)
           /\ Holds(r, a)' <=> Holds(r, a)
           /\ HoldsDone(r, a)' <=> HoldsDone(r, a)
           /\ requests'[r].cookies.context = requests[r].cookies.context
BY DEF Alike, Offers, Holds, HoldsDone

\* A step of one request that neither names a new attempt nor was past the exchange.
LEMMA IdlesKept ==
    ASSUME TypeInv, CallbackInv, NEW r \in Requests, UNCHANGED codes, established \subseteq established',
           \A s \in Requests \ {r} : requests'[s] = requests[s],
           \A a \in Attempts : /\ Offers(r, a)' => Offers(r, a)
                               /\ ~Holds(r, a)'
                               /\ ~HoldsDone(r, a)
                               /\ correlation'[a] = "completed" => correlation[a] = "completed"
                               /\ attempts'[a].context = attempts[a].context
                               /\ attempts'[a].bound => /\ attempts[a].bound
                                                        /\ attempts'[a].status = attempts[a].status
    PROVE  CallbackInv'
<1>1. ASSUME NEW s \in Requests, NEW a \in Attempts
      PROVE  /\ Offers(s, a)' => Offers(s, a)
             /\ Holds(s, a)' => Holds(s, a)
             /\ HoldsDone(s, a)' =>
                    /\ HoldsDone(s, a)
                    /\ attempts'[a].context = attempts[a].context
                    /\ requests'[s].cookies.context = requests[s].cookies.context
             /\ HoldsDone(s, a) => HoldsDone(s, a)'
  <2>1. CASE s = r
    BY <2>1 DEF Holds
  <2>2. CASE s # r
    <3>1. requests'[s] = requests[s]
      BY <2>2
    <3>2. QED
      BY <3>1 DEF Offers, Holds, HoldsDone
  <2>3. QED
    BY <2>1, <2>2
<1>2. CallbackKept
  BY <1>1 DEF CallbackKept
<1>3. QED
  BY <1>2, CallbackQuiet

LEMMA RefuseSignInCallback ==
    ASSUME TypeInv, CallbackInv, NEW r \in Requests, RefuseSignIn(r)
    PROVE  CallbackInv'
<1>1. UNCHANGED <<attempts, correlation, codes, established>>
  BY DEF RefuseSignIn, authority, history
<1>2. Turns(r, "prepare", "answered", NoHandle) /\ requests[r].op = "prepare"
  BY RefuseSignInEffect DEF RefuseSignIn, At
<1>3. QED
  BY <1>1, <1>2, IdlesKept, NoHandleIsNone DEF Turns, Offers, Holds, HoldsDone

LEMMA ResolveCallback ==
    ASSUME TypeInv, CallbackInv, NEW r \in Requests, NEW valid \in BOOLEAN, NEW signedOut \in BOOLEAN,
           Resolve(r, valid, signedOut)
    PROVE  CallbackInv'
<1>1. UNCHANGED <<correlation, codes, established>> /\ requests[r].op = "resolve"
  BY DEF Resolve, history, At
<1>2. /\ Turns(r, "resolve", "answered", NoHandle)
      /\ Weakens(attempts')
      /\ \A a \in Attempts : attempts'[a].status = attempts[a].status
  BY ResolveEffect
<1>3. QED
  BY <1>1, <1>2, IdlesKept, NoHandleIsNone DEF Turns, Offers, Holds, HoldsDone, Weakens

\* What a preparation abandons was never bound.
LEMMA CompletePreparationCallback ==
    ASSUME TypeInv, CallbackInv, NEW r \in Requests, CompletePreparation(r)
    PROVE  CallbackInv'
<1> DEFINE b == requests[r].attempt
<1>1. UNCHANGED <<correlation, codes, established>>
  BY DEF CompletePreparation, history
<1>2. requests[r].op = "prepare" /\ b \in Attempts
  BY CompletePreparationEffect DEF At
<1>3. ~attempts[b].bound
  BY <1>2 DEF CallbackInv, Offers
<1>4. Turns(r, "prepare", "associating", b) \/ Turns(r, "prepare", "answered", NoHandle)
  BY CompletePreparationEffect
<1>5. \/ UNCHANGED attempts
      \/ Weakens(attempts') /\ \A a \in Attempts \ {b} : attempts'[a] = attempts[a]
  BY CompletePreparationEffect
<1>6. \A a \in Attempts : /\ attempts'[a].context = attempts[a].context
                          /\ attempts'[a].bound => attempts[a].bound /\ attempts'[a].status = attempts[a].status
  BY <1>3, <1>5 DEF Weakens
<1>7. \A a \in Attempts : /\ Offers(r, a)' => Offers(r, a)
                          /\ ~Holds(r, a)'
                          /\ ~HoldsDone(r, a)
  BY <1>2, <1>4, NoHandleIsNone DEF Turns, Offers, Holds, HoldsDone
<1>8. QED
  BY <1>1, <1>4, <1>6, <1>7, IdlesKept DEF Turns

LEMMA AssociateCallback ==
    ASSUME TypeInv, CallbackInv, NEW r \in Requests, Associate(r)
    PROVE  CallbackInv'
<1> DEFINE b == requests[r].attempt
<1>1. UNCHANGED <<codes, established>>
  BY DEF Associate, history
<1>2. requests[r].op = "prepare" /\ b \in Attempts
  BY AssociateEffect DEF At
<1>3. ~attempts[b].bound
  BY <1>2 DEF CallbackInv, Offers
<1>4. Turns(r, "prepare", "answered", b) \/ Turns(r, "prepare", "answered", NoHandle)
  BY AssociateEffect
<1>5. \A a \in Attempts : correlation'[a] = "completed" => correlation[a] = "completed"
  BY AssociateEffect DEF TypeInv, TypeOK
<1>6. \A a \in Attempts : /\ attempts'[a].context = attempts[a].context
                          /\ attempts'[a].bound => attempts[a].bound /\ attempts'[a].status = attempts[a].status
  <2>1. CASE attempts' = Associated(b)
    <3>1. /\ \A a \in Attempts \ {b} : attempts'[a] = attempts[a]
          /\ attempts'[b].context = attempts[b].context
          /\ attempts'[b].bound = attempts[b].bound
          /\ attempts'[b].status = attempts[b].status
      BY <1>2, <2>1, AssociatedSets DEF TypeInv, TypeOK
    <3>2. QED
      BY <3>1
  <2>2. CASE Weakens(attempts') /\ \A a \in Attempts \ {b} : attempts'[a] = attempts[a]
    BY <1>3, <2>2 DEF Weakens
  <2>3. QED
    BY <2>1, <2>2, AssociateEffect
<1>7. \A a \in Attempts : /\ Offers(r, a)' => Offers(r, a)
                          /\ ~Holds(r, a)'
                          /\ ~HoldsDone(r, a)
  BY <1>2, <1>4, NoHandleIsNone DEF Turns, Offers, Holds, HoldsDone
<1>8. QED
  BY <1>1, <1>4, <1>5, <1>6, <1>7, IdlesKept DEF Turns

LEMMA PublishSignOutCallback ==
    ASSUME TypeInv, CallbackInv, NEW r \in Requests, PublishSignOut(r)
    PROVE  CallbackInv'
<1>1. UNCHANGED <<correlation, codes, established>>
  BY DEF PublishSignOut
<1>2. /\ Weakens(attempts')
      /\ \A a \in Attempts : attempts'[a].status = attempts[a].status
      /\ requests'[r].op = "publish"
      /\ \A s \in Requests \ {r} : /\ Alike(requests'[s], requests[s])
                                   /\ requests'[s].at = requests[s].at
  BY PublishSignOutEffect
<1>3. requests[r].op = "publish"
  BY DEF PublishSignOut, At
<1>4. ASSUME NEW s \in Requests, NEW a \in Attempts
      PROVE  /\ Offers(s, a)' => Offers(s, a)
             /\ Holds(s, a)' => Holds(s, a)
             /\ HoldsDone(s, a)' =>
                    /\ HoldsDone(s, a)
                    /\ requests'[s].cookies.context = requests[s].cookies.context
             /\ HoldsDone(s, a) => HoldsDone(s, a)'
  <2>1. CASE s = r
    BY <1>2, <1>3, <2>1 DEF Offers, Holds, HoldsDone
  <2>2. CASE s # r
    BY <1>2, <2>2, AlikeHolds
  <2>3. QED
    BY <2>1, <2>2
<1>5. CallbackKept
  BY <1>1, <1>2, <1>4 DEF CallbackKept, Weakens
<1>6. QED
  BY <1>5, CallbackQuiet

\* The attempt prepared is named by no other request, and has no code.
LEMMA PrepareSignInCallback ==
    ASSUME TypeInv, CallbackInv, NEW r \in Requests, NEW c \in Contexts, NEW a \in Attempts,
           PrepareSignIn(r, c, a)
    PROVE  CallbackInv'
<1>1. UNCHANGED <<correlation, codes, established>>
  BY DEF PrepareSignIn, history
<1>2. /\ \A b \in Attempts \ {a} : attempts'[b] = attempts[b]
      /\ ~attempts'[a].bound /\ attempts[a].status = "unused"
  <2> DEFINE new == [NoAttempt EXCEPT !.status = "live", !.context = c,
                                      !.generation = contexts[c].generation]
  <2>1. attempts' = [attempts EXCEPT ![a] = new] /\ attempts[a].status = "unused"
    BY DEF PrepareSignIn, Prepares
  <2>2. ~new.bound
    BY SMT DEF NoAttempt
  <2> HIDE DEF new
  <2>3. QED
    BY <2>1, <2>2 DEF TypeInv, TypeOK, FenceTypeOK
<1>3. codes[a] = "none" /\ \A s \in Requests : requests[s].attempt # a
  BY <1>2 DEF TypeInv, TypeOK, NamedIn
<1>4. /\ requests[r].op = "prepare"
      /\ requests'[r].op = "prepare" /\ requests'[r].attempt = a
      /\ \A s \in Requests \ {r} : requests'[s] = requests[s]
  BY PrepareSignInEffect DEF Turns, At
<1>5. ASSUME NEW s \in Requests, NEW b \in Attempts
      PROVE  /\ Offers(s, b)' => (Offers(s, b) /\ s # r) \/ (s = r /\ b = a)
             /\ Holds(s, b)' <=> Holds(s, b)
             /\ HoldsDone(s, b)' <=> HoldsDone(s, b)
             /\ HoldsDone(s, b) => b # a /\ requests'[s] = requests[s]
             /\ Offers(s, b) => b # a
  <2>1. CASE s = r
    BY <1>3, <1>4, <2>1 DEF Offers, Holds, HoldsDone
  <2>2. CASE s # r
    <3>1. requests'[s] = requests[s]
      BY <1>4, <2>2
    <3>2. QED
      BY <1>3, <2>2, <3>1 DEF Offers, Holds, HoldsDone
  <2>3. QED
    BY <2>1, <2>2
<1>6. ASSUME NEW b \in Attempts, correlation'[b] = "completed" \/ attempts'[b].bound
      PROVE  b \in established' \/ \E s \in Requests : HoldsDone(s, b)'
  <2>1. correlation[b] = "completed" \/ attempts[b].bound
    BY <1>1, <1>2, <1>6
  <2>2. QED
    BY <1>1, <1>5, <2>1 DEF CallbackInv
<1>7. \A s \in Requests, b \in Attempts :
           /\ Offers(s, b)' => codes'[b] = "none"
           /\ Holds(s, b)' => codes'[b] = "used"
           /\ HoldsDone(s, b)' => attempts'[b].context = requests'[s].cookies.context
  BY <1>1, <1>2, <1>3, <1>5 DEF CallbackInv
<1>8. \A s, t \in Requests, b \in Attempts :
           /\ Offers(s, b)' /\ Offers(t, b)' => s = t
           /\ Holds(s, b)' /\ Holds(t, b)' => s = t
  BY <1>5 DEF CallbackInv
<1>9. \A b \in Attempts : attempts'[b].bound => codes'[b] = "used" /\ attempts'[b].status = "live"
  BY <1>1, <1>2 DEF CallbackInv
<1>10. QED
  BY <1>6, <1>7, <1>8, <1>9 DEF CallbackInv

\* The one response that carries the attempt brings its code to the browser.
LEMMA BrowserCallback ==
    ASSUME TypeInv, CallbackInv, NEW r \in Requests, Browser(r)
    PROVE  CallbackInv'
<1> DEFINE b == requests[r].attempt
<1>1. UNCHANGED <<attempts, correlation, established>>
  BY BrowserEffect DEF authority, history
<1>2. /\ \A s \in Requests \ {r} : requests'[s] = requests[s]
      /\ requests'[r].at \in {"received", "idle"}
      /\ requests'[r].attempt \in Attempts => requests'[r].op = "callback"
  BY BrowserEffect
<1>3. requests[r].at \in {"idle", "received", "answered"}
  BY DEF Browser, BeginSignIn, ResolveSession, SignOut, OpenCallback, Sends, Deliver, Lose
<1>4. \A a \in Attempts : ~Offers(r, a)' /\ ~Holds(r, a)' /\ ~HoldsDone(r, a)
  BY <1>2, <1>3 DEF Offers, Holds, HoldsDone
<1>5. CASE UNCHANGED codes
  BY <1>1, <1>2, <1>4, <1>5, IdlesKept
<1>6. CASE /\ requests[r].op = "prepare" /\ b \in Attempts
           /\ codes' = [codes EXCEPT ![b] = "issued"]
  <2>1. Offers(r, b)
    BY <1>6 DEF Offers
  <2>2. codes[b] = "none" /\ ~attempts[b].bound
    BY <1>6, <2>1 DEF CallbackInv
  <2>3. \A a \in Attempts \ {b} : codes'[a] = codes[a]
    BY <1>6 DEF TypeInv, TypeOK
  <2>4. \A s \in Requests, a \in Attempts : /\ Offers(s, a)' => Offers(s, a) /\ s # r
                                            /\ Holds(s, a)' => Holds(s, a)
                                            /\ HoldsDone(s, a)' <=> HoldsDone(s, a)
                                            /\ HoldsDone(s, a)' => requests'[s] = requests[s]
    BY <1>2, <1>4 DEF Offers, Holds, HoldsDone
  <2>5. \A s \in Requests, a \in Attempts : a = b => ~Offers(s, a)' /\ ~Holds(s, a)
    BY <1>6, <2>1, <2>2, <2>4 DEF CallbackInv
  <2>6. \A s \in Requests, a \in Attempts :
             /\ Offers(s, a)' => codes'[a] = "none"
             /\ Holds(s, a)' => codes'[a] = "used"
             /\ HoldsDone(s, a)' => attempts'[a].context = requests'[s].cookies.context
    BY <1>1, <2>3, <2>4, <2>5 DEF CallbackInv
  <2>7. \A s, t \in Requests, a \in Attempts :
             /\ Offers(s, a)' /\ Offers(t, a)' => s = t
             /\ Holds(s, a)' /\ Holds(t, a)' => s = t
    BY <2>4 DEF CallbackInv
  <2>8. \A a \in Attempts : attempts'[a].bound => codes'[a] = "used" /\ attempts'[a].status = "live"
    BY <1>1, <2>2, <2>3 DEF CallbackInv
  <2>9. \A a \in Attempts : correlation'[a] = "completed" \/ attempts'[a].bound =>
             a \in established' \/ \E s \in Requests : HoldsDone(s, a)'
    BY <1>1, <2>4 DEF CallbackInv
  <2>10. QED
    BY <2>6, <2>7, <2>8, <2>9 DEF CallbackInv
<1>7. QED
  BY <1>5, <1>6, BrowserEffect

LEMMA RestartCallback ==
    ASSUME TypeInv, CallbackInv, Restart
    PROVE  CallbackInv'
<1>1. UNCHANGED <<codes, established>> /\ \A a \in Attempts : correlation'[a] = "none"
  BY DEF Restart, history
<1>2. \A a \in Attempts : ~attempts'[a].bound
  <2>1. \A a \in Attempts : /\ attempts[a].status # "live" => attempts'[a] = attempts[a]
                            /\ attempts[a].status = "live" => ~attempts'[a].bound
    BY ForgetType DEF Restart, TypeInv
  <2>2. QED
    BY <2>1 DEF CallbackInv
<1>3. Idle.attempt = NoHandle
  BY SMT DEF Idle
<1>4. \A r \in Requests, a \in Attempts : /\ Offers(r, a)' => Offers(r, a)
                                          /\ ~Holds(r, a)'
  BY <1>3, RestartEffect, NoHandleIsNone DEF Offers, Holds, HoldsDone
<1>5. CallbackKept
  BY <1>1, <1>2, <1>4 DEF CallbackKept, Holds
<1>6. QED
  BY <1>5, CallbackQuiet

\* A callback that lets its attempt go has undone, or reported, what it holds.
LEMMA LetsGo ==
    ASSUME TypeInv, CallbackInv, NEW r \in Requests,
           GivesUp(r) \/ Turns(r, "callback", "answered", NoHandle),
           UNCHANGED codes, established \subseteq established', Weakens(attempts'),
           \A a \in Attempts :
               /\ correlation'[a] = "completed" => correlation[a] = "completed"
               /\ attempts'[a].bound => attempts'[a].status = attempts[a].status
               /\ HoldsDone(r, a) => \/ a \in established'
                                     \/ correlation'[a] # "completed" /\ ~attempts'[a].bound
    PROVE  CallbackInv'
<1>1. ASSUME NEW s \in Requests, NEW a \in Attempts
      PROVE  /\ Offers(s, a)' => Offers(s, a)
             /\ Holds(s, a)' => Holds(s, a)
             /\ HoldsDone(s, a)' =>
                    /\ HoldsDone(s, a)
                    /\ requests'[s].cookies.context = requests[s].cookies.context
             /\ HoldsDone(s, a) => \/ HoldsDone(s, a)'
                                   \/ a \in established'
                                   \/ correlation'[a] # "completed" /\ ~attempts'[a].bound
  <2>1. CASE s = r
    <3>1. requests'[r].op = "callback" /\ requests'[r].attempt = NoHandle
      BY DEF GivesUp, Turns
    <3>2. QED
      BY <2>1, <3>1, NoHandleIsNone DEF Offers, Holds, HoldsDone
  <2>2. CASE s # r
    <3>1. requests'[s] = requests[s]
      BY <2>2 DEF GivesUp, Turns
    <3>2. QED
      BY <3>1 DEF Offers, Holds, HoldsDone
  <2>3. QED
    BY <2>1, <2>2
<1>2. CallbackKept
  BY <1>1 DEF CallbackKept, Weakens
<1>3. QED
  BY <1>2, CallbackQuiet

\* One that holds nothing yet may discard its attempt.
LEMMA DiscardingLetsGo ==
    ASSUME TypeInv, CallbackInv, NEW r \in Requests, GivesUp(r), Discarded,
           \A a \in Attempts : ~HoldsDone(r, a), UNCHANGED <<codes, established>>
    PROVE  CallbackInv'
<1>1. /\ Weakens(attempts')
      /\ \A a \in Attempts : attempts'[a].bound => attempts'[a].status = attempts[a].status
  BY DEF Discarded, Weakens
<1>2. \A a \in Attempts : correlation'[a] = "completed" => correlation[a] = "completed"
  BY DEF Discarded, Forgets
<1>3. QED
  BY <1>1, <1>2, LetsGo

\* A rejection undoes the completed record and the binding: a binding is live, so
\* its context is known, and it is the one the callback came with.
LEMMA RollingBackLetsGo ==
    ASSUME TypeInv, FenceInv, CallbackInv, NEW r \in Requests, GivesUp(r), RolledBackBy(r),
           requests[r].attempt \in Attempts, HoldsDone(r, requests[r].attempt),
           UNCHANGED <<codes, established>>
    PROVE  CallbackInv'
<1> DEFINE c == requests[r].cookies.context
<1>1. /\ Weakens(attempts')
      /\ \A a \in Attempts : attempts'[a].bound => attempts'[a].status = attempts[a].status
      /\ \A a \in Attempts : correlation'[a] = "completed" => correlation[a] = "completed"
  BY DEF RolledBackBy, Forgets
<1>2. ASSUME NEW a \in Attempts, HoldsDone(r, a)
      PROVE  correlation'[a] # "completed" /\ ~attempts'[a].bound
  <2>1. a = requests[r].attempt
    BY <1>2 DEF HoldsDone
  <2>2. attempts[a].context = c
    BY <1>2 DEF CallbackInv
  <2>3. attempts[a].bound => Known(c)
    BY <2>2 DEF CallbackInv, FenceInv, Known
  <2>4. attempts'[a].bound => attempts[a].bound
    BY <1>1 DEF Weakens
  <2>5. QED
    BY <2>1, <2>2, <2>3, <2>4 DEF RolledBackBy
<1>3. QED
  BY <1>1, <1>2, LetsGo

\* A callback that goes on without a new record, code or binding.
LEMMA GoesOnKept ==
    ASSUME TypeInv, CallbackInv, NEW r \in Requests, NEW place, GoesOn(r, place),
           UNCHANGED <<attempts, correlation, codes, established>>, requests[r].op = "callback",
           \/ place \in {"exchanging", "revalidating"} /\ requests[r].at = "received"
           \/ place = "confirming" /\ requests[r].at = "committing"
    PROVE  CallbackInv'
<1>1. /\ requests'[r].op = "callback" /\ requests'[r].at = place
      /\ requests'[r].attempt = requests[r].attempt
      /\ requests'[r].cookies.context = requests[r].cookies.context
  BY DEF GoesOn, Turns
<1>2. ASSUME NEW s \in Requests, NEW a \in Attempts
      PROVE  /\ Offers(s, a)' => Offers(s, a)
             /\ Holds(s, a)' => Holds(s, a)
             /\ HoldsDone(s, a)' <=> HoldsDone(s, a)
             /\ requests'[s].cookies.context = requests[s].cookies.context
  <2>1. CASE s = r
    BY <1>1, <2>1 DEF Offers, Holds, HoldsDone
  <2>2. CASE s # r
    <3>1. requests'[s] = requests[s]
      BY <2>2 DEF GoesOn, Turns
    <3>2. QED
      BY <3>1 DEF Offers, Holds, HoldsDone
  <2>3. QED
    BY <2>1, <2>2
<1>3. CallbackKept
  BY <1>2 DEF CallbackKept
<1>4. QED
  BY <1>3, CallbackQuiet

LEMMA BeginCallbackCallback ==
    ASSUME TypeInv, CallbackInv, NEW r \in Requests, NEW denied \in BOOLEAN, NEW expired \in BOOLEAN,
           BeginCallback(r, denied, expired)
    PROVE  CallbackInv'
<1>1. UNCHANGED <<codes, established>>
  BY DEF BeginCallback, history
<1>2. requests[r].op = "callback" /\ requests[r].at = "received"
  BY BeginCallbackEffect DEF At
<1>3. \A a \in Attempts : ~HoldsDone(r, a)
  BY <1>2 DEF HoldsDone
<1>4. QED
  BY <1>1, <1>2, <1>3, BeginCallbackEffect, GoesOnKept, DiscardingLetsGo

LEMMA ExchangeFailsCallback ==
    ASSUME TypeInv, CallbackInv, NEW r \in Requests, ExchangeFails(r)
    PROVE  CallbackInv'
<1>1. UNCHANGED <<codes, established>>
  BY DEF ExchangeFails, history
<1>2. \A a \in Attempts : ~HoldsDone(r, a)
  BY ExchangeFailsEffect DEF At, HoldsDone
<1>3. QED
  BY <1>1, <1>2, ExchangeFailsEffect, DiscardingLetsGo

\* The code is still there, so nobody holds the attempt, and no preparation names it.
LEMMA ExchangeCallback ==
    ASSUME TypeInv, CallbackInv, NEW r \in Requests, Exchange(r)
    PROVE  CallbackInv'
<1>1. UNCHANGED <<attempts, correlation, established>>
  BY DEF Exchange, authority, history
<1>2. PICK b \in Attempts : b = requests[r].attempt
  BY ExchangeEffect
<1>3. /\ codes[b] = "issued" /\ codes'[b] = "used"
      /\ \A a \in Attempts \ {b} : codes'[a] = codes[a]
  BY <1>2, ExchangeEffect DEF TypeInv, TypeOK
<1>4. /\ requests[r].op = "callback" /\ requests[r].at = "exchanging"
      /\ requests'[r].op = "callback" /\ requests'[r].at = "completing"
      /\ requests'[r].attempt = b
      /\ \A s \in Requests \ {r} : requests'[s] = requests[s]
  BY <1>2, ExchangeEffect DEF GoesOn, Turns, At
<1>5. \A s \in Requests : ~Offers(s, b) /\ ~Holds(s, b)
  BY <1>3 DEF CallbackInv
<1>6. ASSUME NEW s \in Requests, NEW a \in Attempts
      PROVE  /\ Offers(s, a)' => Offers(s, a) /\ a # b
             /\ Holds(s, a)' => (Holds(s, a) /\ s # r /\ a # b) \/ (s = r /\ a = b)
             /\ HoldsDone(s, a)' <=> HoldsDone(s, a)
             /\ HoldsDone(s, a) => requests'[s] = requests[s]
  <2>1. CASE s = r
    BY <1>2, <1>4, <2>1 DEF Offers, Holds, HoldsDone
  <2>2. CASE s # r
    <3>1. requests'[s] = requests[s]
      BY <1>4, <2>2
    <3>2. QED
      BY <1>5, <2>2, <3>1 DEF Offers, Holds, HoldsDone
  <2>3. QED
    BY <2>1, <2>2
<1>7. \A s \in Requests, a \in Attempts :
           /\ Offers(s, a)' => codes'[a] = "none"
           /\ Holds(s, a)' => codes'[a] = "used"
           /\ HoldsDone(s, a)' => attempts'[a].context = requests'[s].cookies.context
  BY <1>1, <1>3, <1>6 DEF CallbackInv
<1>8. \A s, t \in Requests, a \in Attempts :
           /\ Offers(s, a)' /\ Offers(t, a)' => s = t
           /\ Holds(s, a)' /\ Holds(t, a)' => s = t
  BY <1>6 DEF CallbackInv
<1>9. \A a \in Attempts : attempts'[a].bound => codes'[a] = "used" /\ attempts'[a].status = "live"
  BY <1>1, <1>3 DEF CallbackInv
<1>10. \A a \in Attempts : correlation'[a] = "completed" \/ attempts'[a].bound =>
            a \in established' \/ \E s \in Requests : HoldsDone(s, a)'
  BY <1>1, <1>6 DEF CallbackInv
<1>11. QED
  BY <1>7, <1>8, <1>9, <1>10 DEF CallbackInv

\* The holder goes on with its record completed or its binding made: the attempt is
\* current in the context the callback came with.
LEMMA HolderGoesOn ==
    ASSUME TypeInv, CallbackInv, NEW r \in Requests, NEW b \in Attempts, b = requests[r].attempt,
           Holds(r, b), Current(requests[r].cookies.context, b),
           GoesOn(r, "establishing") \/ GoesOn(r, "committing"),
           UNCHANGED <<codes, established>>,
           \A a \in Attempts \ {b} : correlation'[a] = correlation[a] /\ attempts'[a] = attempts[a],
           attempts'[b].context = attempts[b].context, attempts'[b].status = attempts[b].status
    PROVE  CallbackInv'
<1>1. /\ HoldsDone(r, b)'
      /\ requests'[r].op = "callback" /\ requests'[r].attempt = b
      /\ requests'[r].cookies.context = requests[r].cookies.context
      /\ \A s \in Requests \ {r} : requests'[s] = requests[s]
  BY DEF GoesOn, Turns, HoldsDone
<1>2. requests[r].op = "callback"
  BY DEF Holds, HoldsDone
<1>3. /\ attempts[b].context = requests[r].cookies.context
      /\ attempts[b].status = "live"
      /\ codes[b] = "used"
  BY DEF Current, CallbackInv
<1>4. ASSUME NEW s \in Requests, NEW a \in Attempts
      PROVE  /\ Offers(s, a)' => Offers(s, a)
             /\ Holds(s, a)' => Holds(s, a)
             /\ HoldsDone(s, a)' => HoldsDone(s, a) \/ (s = r /\ a = b)
             /\ HoldsDone(s, a) => HoldsDone(s, a)'
             /\ requests'[s].cookies.context = requests[s].cookies.context
  <2>1. CASE s = r
    <3>1. Holds(r, b)' /\ ~Offers(r, a)'
      BY <1>1 DEF Holds, Offers
    <3>2. HoldsDone(r, a) => a = b
      BY DEF HoldsDone
    <3>3. Holds(r, a)' => a = b
      BY <1>1 DEF Holds, HoldsDone
    <3>4. HoldsDone(r, a)' => a = b
      BY <1>1 DEF HoldsDone
    <3>5. QED
      BY <1>1, <2>1, <3>1, <3>2, <3>3, <3>4
  <2>2. CASE s # r
    <3>1. requests'[s] = requests[s]
      BY <1>1, <2>2
    <3>2. QED
      BY <3>1 DEF Offers, Holds, HoldsDone
  <2>3. QED
    BY <2>1, <2>2
<1>5. ASSUME NEW s \in Requests, NEW a \in Attempts
      PROVE  /\ Offers(s, a)' => codes'[a] = "none"
             /\ Holds(s, a)' => codes'[a] = "used"
             /\ HoldsDone(s, a)' => attempts'[a].context = requests'[s].cookies.context
  BY <1>1, <1>3, <1>4 DEF CallbackInv
<1>6. \A s, t \in Requests, a \in Attempts :
           /\ Offers(s, a)' /\ Offers(t, a)' => s = t
           /\ Holds(s, a)' /\ Holds(t, a)' => s = t
  BY <1>4 DEF CallbackInv
<1>7. \A a \in Attempts : attempts'[a].bound => codes'[a] = "used" /\ attempts'[a].status = "live"
  BY <1>3 DEF CallbackInv
<1>8. ASSUME NEW a \in Attempts, correlation'[a] = "completed" \/ attempts'[a].bound
      PROVE  a \in established' \/ \E s \in Requests : HoldsDone(s, a)'
  <2>1. CASE a = b
    BY <1>1, <2>1
  <2>2. CASE a # b
    <3>1. correlation[a] = "completed" \/ attempts[a].bound
      BY <1>8, <2>2
    <3>2. a \in established \/ \E s \in Requests : HoldsDone(s, a)
      BY <3>1 DEF CallbackInv
    <3>3. QED
      BY <1>4, <3>2
  <2>3. QED
    BY <2>1, <2>2
<1>9. QED
  BY <1>5, <1>6, <1>7, <1>8 DEF CallbackInv

LEMMA CompleteCorrelationCallback ==
    ASSUME TypeInv, CallbackInv, NEW r \in Requests, NEW expired \in BOOLEAN,
           CompleteCorrelation(r, expired)
    PROVE  CallbackInv'
<1>1. UNCHANGED <<codes, established>>
  BY DEF CompleteCorrelation, history
<1>2. /\ requests[r].op = "callback" /\ requests[r].at = "completing"
      /\ requests[r].attempt \in Attempts
  BY CompleteCorrelationEffect DEF At
<1>3. CASE GivesUp(r) /\ Discarded
  BY <1>1, <1>2, <1>3, DiscardingLetsGo DEF HoldsDone
<1>4. CASE /\ Current(requests[r].cookies.context, requests[r].attempt)
           /\ GoesOn(r, "establishing")
           /\ correlation' = [correlation EXCEPT ![requests[r].attempt] = "completed"]
           /\ UNCHANGED attempts
  <2>1. PICK b \in Attempts : b = requests[r].attempt
    BY <1>2
  <2>2. Holds(r, b) /\ Current(requests[r].cookies.context, b)
    BY <1>2, <1>4, <2>1 DEF Holds
  <2>3. \A a \in Attempts \ {b} : correlation'[a] = correlation[a]
    BY <1>4, <2>1 DEF TypeInv, TypeOK
  <2>4. QED
    BY <1>1, <1>4, <2>1, <2>2, <2>3, HolderGoesOn
<1>5. QED
  BY <1>3, <1>4, CompleteCorrelationEffect

LEMMA EstablishSessionCallback ==
    ASSUME TypeInv, FenceInv, CallbackInv, NEW r \in Requests, EstablishSession(r)
    PROVE  CallbackInv'
<1>1. UNCHANGED <<codes, established>>
  BY DEF EstablishSession, history
<1>2. /\ requests[r].op = "callback" /\ requests[r].at = "establishing"
      /\ requests[r].attempt \in Attempts
  BY EstablishSessionEffect DEF At
<1>3. HoldsDone(r, requests[r].attempt) /\ Holds(r, requests[r].attempt)
  BY <1>2 DEF HoldsDone, Holds
<1>4. CASE GivesUp(r) /\ RolledBackBy(r)
  BY <1>1, <1>2, <1>3, <1>4, RollingBackLetsGo
<1>5. CASE /\ Current(requests[r].cookies.context, requests[r].attempt)
           /\ GoesOn(r, "committing")
           /\ attempts' = Bound(requests[r].attempt)
           /\ UNCHANGED correlation
  <2>1. PICK b \in Attempts : b = requests[r].attempt
    BY <1>2
  <2>2. /\ \A a \in Attempts \ {b} : attempts'[a] = attempts[a]
        /\ attempts'[b].context = attempts[b].context
        /\ attempts'[b].status = attempts[b].status
    BY <1>5, <2>1, BoundSets DEF TypeInv, TypeOK
  <2>3. QED
    BY <1>1, <1>3, <1>5, <2>1, <2>2, HolderGoesOn
<1>6. QED
  BY <1>4, <1>5, EstablishSessionEffect

LEMMA CommitSessionCallback ==
    ASSUME TypeInv, FenceInv, CallbackInv, NEW r \in Requests, CommitSession(r)
    PROVE  CallbackInv'
<1>1. UNCHANGED <<codes, established>>
  BY DEF CommitSession, history
<1>2. /\ requests[r].op = "callback" /\ requests[r].at = "committing"
      /\ requests[r].attempt \in Attempts
  BY CommitSessionEffect DEF At
<1>3. HoldsDone(r, requests[r].attempt)
  BY <1>2 DEF HoldsDone
<1>4. CASE GoesOn(r, "confirming") /\ UNCHANGED <<attempts, correlation>>
  BY <1>1, <1>2, <1>4, GoesOnKept
<1>5. CASE GivesUp(r) /\ RolledBackBy(r)
  BY <1>1, <1>2, <1>3, <1>5, RollingBackLetsGo
<1>6. QED
  BY <1>4, <1>5, CommitSessionEffect

LEMMA ConfirmCallback ==
    ASSUME TypeInv, FenceInv, CallbackInv, NEW r \in Requests, Confirm(r)
    PROVE  CallbackInv'
<1>1. UNCHANGED codes
  BY DEF Confirm
<1>2. /\ requests[r].op = "callback" /\ requests[r].at = "confirming"
      /\ requests[r].attempt \in Attempts
  BY ConfirmEffect DEF At
<1>3. HoldsDone(r, requests[r].attempt)
  BY <1>2 DEF HoldsDone
<1>4. CASE GivesUp(r) /\ RolledBackBy(r) /\ UNCHANGED established
  BY <1>1, <1>2, <1>3, <1>4, RollingBackLetsGo
<1>5. CASE /\ Turns(r, "callback", "answered", NoHandle)
           /\ established' = established \cup {requests[r].attempt}
           /\ UNCHANGED <<attempts, correlation>>
  <2>1. \A a \in Attempts : HoldsDone(r, a) => a \in established'
    BY <1>5 DEF HoldsDone
  <2>2. Weakens(attempts')
    BY <1>5, NothingWeakens DEF TypeInv, TypeOK
  <2>3. QED
    BY <1>1, <1>5, <2>1, <2>2, LetsGo
<1>6. QED
  BY <1>4, <1>5, ConfirmEffect

LEMMA AnswerCallback ==
    ASSUME TypeInv, CallbackInv, NEW r \in Requests,
           \/ \E valid \in BOOLEAN : Revalidate(r, valid)
           \/ \E known, valid \in BOOLEAN : FailCallback(r, known, valid)
    PROVE  CallbackInv'
<1>1. UNCHANGED <<codes, correlation, established>>
  BY DEF Revalidate, FailCallback, history
<1>2. requests[r].at \in {"revalidating", "failing"}
  BY DEF Revalidate, FailCallback, At
<1>3. /\ GivesUp(r) \/ Turns(r, "callback", "answered", NoHandle)
      /\ Weakens(attempts')
      /\ \A a \in Attempts : attempts'[a].status = attempts[a].status
  BY RevalidateEffect, FailCallbackEffect
<1>4. \A a \in Attempts : ~HoldsDone(r, a)
  BY <1>2 DEF HoldsDone
<1>5. QED
  BY <1>1, <1>3, <1>4, LetsGo

LEMMA CallbackStep ==
    ASSUME TypeInv, FenceInv, CallbackInv, [Next]_vars
    PROVE  CallbackInv'
<1>1. ASSUME NEW r \in Requests, FenceHost(r)
      PROVE  CallbackInv'
  BY <1>1, PrepareSignInCallback, RefuseSignInCallback, CompletePreparationCallback,
     AssociateCallback, PublishSignOutCallback, ResolveCallback DEF FenceHost
<1>2. ASSUME NEW r \in Requests, Callback(r)
      PROVE  CallbackInv'
  BY <1>2, BeginCallbackCallback, ExchangeCallback, ExchangeFailsCallback,
     CompleteCorrelationCallback, EstablishSessionCallback, CommitSessionCallback,
     ConfirmCallback, AnswerCallback DEF Callback
<1>3. CASE SignOutLocal \/ UNCHANGED vars
  BY <1>3 DEF SignOutLocal, vars, authority, history, CallbackInv, Offers, Holds, HoldsDone
<1>4. QED
  BY <1>1, <1>2, <1>3, BrowserCallback, RestartCallback DEF Next

LEMMA InitCallback ==
    ASSUME Init
    PROVE  CallbackInv
<1>1. /\ \A a \in Attempts : ~attempts[a].bound /\ correlation[a] = "none"
      /\ \A r \in Requests : requests[r].op = "none"
  BY SMT DEF Init, FenceInit, NoAttempt, Idle
<1>2. QED
  BY <1>1 DEF CallbackInv, Offers, Holds, HoldsDone

\* runtime.ts, processCallback: a callback that was rejected or cut short leaves
\* neither a live binding nor a completed record that a duplicate is answered from.
THEOREM RejectionsLeaveNothing == Spec => []RejectedCallbacksLeaveNothing
<1>1. Init => CallbackInv
  BY InitCallback
<1>2. TypeInv /\ FenceInv /\ CallbackInv /\ [Next]_vars => CallbackInv'
  BY CallbackStep
<1>3. CallbackInv => RejectedCallbacksLeaveNothing
  BY DEF CallbackInv, HoldsDone, RejectedCallbacksLeaveNothing
<1>4. QED
  BY <1>1, <1>2, <1>3, FenceInvariant, PTL DEF Spec
=============================================================================
