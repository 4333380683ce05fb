------------------------------- MODULE ServerAuth ------------------------------
(***************************************************************************)
(* The server side of sign-in (apps/web/src/auth and providers/authServer):*)
(* the three operations of POST /auth/session-fence and the callback, each *)
(* in requests of one browser that run concurrently in one process.  A     *)
(* request reads the cookies it was sent with and its own writes; what it  *)
(* writes reaches the browser with its response, which may be overtaken or *)
(* lost.  The authority and the correlation store are shared.  An action   *)
(* is what runs between two awaits that matter; what the provider answers  *)
(* is not constrained, save that an authorization code is good for once.   *)
(***************************************************************************)
EXTENDS SessionFence

CONSTANTS Requests,      \* requests under way at the same time
          MaxRestarts    \* bound on restarts of the server process

ASSUME ServerAssumption == MaxRestarts \in Nat

VARIABLES correlation,  \* LocalCorrelationStore: the record of each attempt
          codes,        \* the provider's authorization code of each attempt
          requests,     \* requests from their sending to their response's arrival
          jar,          \* the browser's cookies
          restarts,     \* counted for the bound
          ended,        \* history: attempts a published sign-out has ended
          established   \* history: attempts whose callback reported success

vars == <<authority, correlation, codes, requests, jar, restarts, ended, established>>
history == <<ended, established>>

\* A session cookie is there or not: the provider vouches for it or does not.
MaybeAttempt == Attempts \cup {NoHandle}
Cookies == [context : Contexts \cup {NoHandle}, binding : MaybeAttempt,
            tombstone : BOOLEAN, session : BOOLEAN]
CookieNames == {"context", "binding", "tombstone", "session"}

NoCookies == [context |-> NoHandle, binding |-> NoHandle, tombstone |-> FALSE,
              session |-> FALSE]

Operations == {"prepare", "publish", "resolve", "callback"}
Plans == {"none", "reconcile", "reset"}
Answers == {"none", "ok", "failed"}   \* what the response says is told apart no further

Idle == [op |-> "none", at |-> "idle", cookies |-> NoCookies, changed |-> {},
         attempt |-> NoHandle, previous |-> FALSE, plan |-> "none", generation |-> 0,
         fenced |-> FALSE, answer |-> "none"]

RequestRecords ==
    [op : Operations \cup {"none"},
     at : {"idle", "received", "reconciling", "associating", "exchanging", "completing",
           "establishing", "committing", "confirming", "revalidating", "failing",
           "answered"},
     cookies : Cookies, changed : SUBSET CookieNames, attempt : MaybeAttempt,
     previous : BOOLEAN, plan : Plans, generation : 0..MaxGeneration, fenced : BOOLEAN,
     answer : Answers]

TypeOK == /\ FenceTypeOK
          /\ correlation \in [Attempts -> {"none", "pending", "completed"}]
          /\ codes \in [Attempts -> {"none", "issued", "used"}]
          /\ requests \in [Requests -> RequestRecords]
          /\ jar \in Cookies
          /\ restarts \in 0..MaxRestarts
          /\ ended \subseteq Attempts
          /\ established \subseteq Attempts

Init == /\ FenceInit
        /\ correlation = [a \in Attempts |-> "none"]
        /\ codes = [a \in Attempts |-> "none"]
        /\ requests = [r \in Requests |-> Idle]
        /\ jar = NoCookies
        /\ restarts = 0
        /\ ended = {}
        /\ established = {}

-----------------------------------------------------------------------------
(* The browser.                                                            *)

At(r, op, place) == requests[r].op = op /\ requests[r].at = place

Prepared == {a \in Attempts : attempts[a].status # "unused"}

Sends(r, op, a, cookies) ==
    /\ requests[r].at = "idle"
    /\ requests' = [requests EXCEPT ![r] =
           [Idle EXCEPT !.op = op, !.at = "received", !.cookies = cookies,
                        !.attempt = a]]

\* Of the cookies, a request carries those its handler reads.
BeginSignIn(r) ==
    /\ Sends(r, "prepare", NoHandle, [jar EXCEPT !.binding = NoHandle, !.session = FALSE])
    /\ UNCHANGED <<authority, correlation, codes, jar, restarts, history>>

ResolveSession(r) == /\ Sends(r, "resolve", NoHandle, jar)
                     /\ UNCHANGED <<authority, correlation, codes, jar, restarts, history>>

\* The page the provider redirects to; it can be opened again.
OpenCallback(r, a) ==
    /\ codes[a] # "none"
    /\ Sends(r, "callback", a, jar)
    /\ UNCHANGED <<authority, correlation, codes, jar, restarts, history>>

\* signOut of the browser's adapter writes its own tombstone before it asks; a
\* tab that has not noticed may sign out a browser that is signed out already.
SignOut(r) ==
    /\ jar' = [jar EXCEPT !.tombstone = TRUE]
    /\ Sends(r, "publish", NoHandle, [jar' EXCEPT !.session = FALSE])
    /\ UNCHANGED <<authority, correlation, codes, restarts, history>>

\* What the adapter does next, and wherever it refuses a provider session.
SignOutLocal ==
    /\ jar.session
    /\ jar' = [jar EXCEPT !.session = FALSE]
    /\ UNCHANGED <<authority, correlation, codes, requests, restarts, history>>

\* The cookies a response sets replace the browser's, whatever came meanwhile.
Deliver(r) ==
    LET q == requests[r] IN
    /\ q.at = "answered"
    /\ jar' = [n \in CookieNames |-> IF n \in q.changed THEN q.cookies[n] ELSE jar[n]]
    /\ codes' = IF q.op = "prepare" /\ q.answer = "ok"
                THEN [codes EXCEPT ![q.attempt] = "issued"] ELSE codes
    /\ requests' = [requests EXCEPT ![r] = Idle]
    /\ UNCHANGED <<authority, correlation, restarts, history>>

\* A request that never arrives, or a response that does not.
Lose(r) ==
    /\ requests[r].at \in {"received", "answered"}
    /\ requests' = [requests EXCEPT ![r] = Idle]
    /\ UNCHANGED <<authority, correlation, codes, jar, restarts, history>>

-----------------------------------------------------------------------------
(* The server.  A request's cookie writes are visible to itself.           *)


Put(q, name, value) == [q EXCEPT !.cookies[name] = value, !.changed = @ \cup {name}]
\* A response carries an answer and the cookies that were set, and nothing else.
Answer(q, answer) ==
    [Idle EXCEPT !.op = q.op, !.at = "answered", !.answer = answer, !.changed = q.changed,
                 !.attempt = IF q.op = "prepare" /\ answer = "ok" THEN q.attempt ELSE NoHandle,
                 !.cookies = [n \in CookieNames |-> IF n \in q.changed THEN q.cookies[n]
                                                                     ELSE NoCookies[n]]]
Goto(q, place) == [q EXCEPT !.at = place]
Becomes(r, q) == requests' = [requests EXCEPT ![r] = q]

Eligible(cookies) == ~cookies.tombstone /\ ValidBinding(cookies.context, cookies.binding)

\* cleanupStaleSessionMaterial; a fence that denies does the same.
Cleaned(q) == Put(q, "binding", NoHandle)

(* PREPARE_SIGN_IN *)

\* Fault: without a tombstone there is nothing to reconcile.
FaultyPlanFor(handle, tombstoned) ==
    CASE Outstanding(handle) /\ tombstoned -> "reconcile"
      [] ~Outstanding(handle) /\ (ResetPending(handle) \/ Lost(handle)) -> "reset"
      [] OTHER -> "none"

\* A published sign-out is reconciled whether or not the browser has a tombstone.
PlanFor(handle, tombstoned) ==
    CASE Outstanding(handle) -> "reconcile"
      [] ~Outstanding(handle) /\ (ResetPending(handle) \/ Lost(handle)) -> "reset"
      [] OTHER -> "none"

PrepareSignIn(r, c, a) ==
    LET q == requests[r]
        handle == q.cookies.context
        plan == PlanFor(handle, q.cookies.tombstone)
        made == IF Known(handle) THEN q ELSE Put(q, "context", c)
        cleared == IF plan = "reset" THEN Put(made, "binding", NoHandle) ELSE made
        planned == [cleared EXCEPT !.at = "reconciling", !.attempt = a, !.plan = plan,
                                   !.generation = attempts'[a].generation]
    IN /\ At(r, "prepare", "received")
       /\ Prepares(handle, q.cookies.tombstone, c, a)
       /\ Becomes(r, IF plan = "reconcile" \/ (plan = "reset" /\ q.cookies.tombstone)
                     THEN Put(planned, "tombstone", FALSE) ELSE planned)
       /\ UNCHANGED <<correlation, codes, jar, restarts, history>>

RefuseSignIn(r) ==
    LET q == requests[r] IN
    /\ At(r, "prepare", "received")
    /\ ~Admits(q.cookies.context, q.cookies.tombstone)
    /\ Becomes(r, Answer(q, "failed"))
    /\ UNCHANGED <<authority, correlation, codes, jar, restarts, history>>

\* The tombstone is already deleted when the authority is asked to complete; it
\* is written again when a sign-out was published meanwhile.
CompletePreparation(r) ==
    LET q == requests[r]
        c == q.cookies.context
        completes == CASE q.plan = "none" -> TRUE
                       [] q.plan = "reconcile" -> CanReconcile(c, q.generation)
                       [] q.plan = "reset" -> CanCompleteReset(c)
    IN /\ At(r, "prepare", "reconciling")
       /\ IF completes
          THEN /\ contexts' = CASE q.plan = "none" -> contexts
                                [] q.plan = "reconcile" -> Reconciled(c, q.generation)
                                [] q.plan = "reset" -> ResetCompleted(c)
               /\ Becomes(r, [q EXCEPT !.at = "associating", !.plan = "none", !.generation = 0])
               /\ UNCHANGED attempts
          ELSE /\ attempts' = Abandoned(c, q.attempt)
               /\ Becomes(r, Answer(IF "tombstone" \in q.changed
                                    THEN Put(q, "tombstone", TRUE) ELSE q, "failed"))
               /\ UNCHANGED contexts
       /\ UNCHANGED <<correlation, codes, jar, restarts, history>>

\* createPending and associateSignInAttempt, or the cleanup after either failed.
Associate(r) ==
    LET q == requests[r] IN
    /\ At(r, "prepare", "associating")
    /\ IF Current(q.cookies.context, q.attempt)
       THEN /\ correlation' = [correlation EXCEPT ![q.attempt] = "pending"]
            /\ attempts' = Associated(q.attempt)
            /\ Becomes(r, Answer(q, "ok"))
       ELSE /\ attempts' = Abandoned(q.cookies.context, q.attempt)
            /\ Becomes(r, Answer(q, "failed"))
            /\ UNCHANGED correlation
    /\ UNCHANGED <<contexts, codes, jar, restarts, history>>

(* PUBLISH_SIGN_OUT *)

\* The listeners of the running callbacks of the context hear of it.
Fenced(c) == [r \in Requests |->
    IF /\ requests[r].op = "callback" /\ requests[r].at # "received"
       /\ requests[r].cookies.context \in {c, NoHandle}
    THEN [requests[r] EXCEPT !.fenced = TRUE] ELSE requests[r]]

PublishSignOut(r) ==
    LET q == Put(requests[r], "tombstone", TRUE)
        c == q.cookies.context
    IN /\ At(r, "publish", "received")
       /\ IF Known(c)
          THEN /\ contexts[c].generation < MaxGeneration - restarts
               /\ contexts' = Advanced(c)
               /\ attempts' = Unbound(q.cookies.binding)
               /\ requests' = [Fenced(c) EXCEPT ![r] = Answer(Cleaned(q), "ok")]
               /\ ended' = ended \cup {a \in Prepared : attempts[a].context = c}
          ELSE /\ Becomes(r, Answer(q, "failed"))
               /\ UNCHANGED <<authority, ended>>
       /\ UNCHANGED <<correlation, codes, jar, restarts, established>>

(* RESOLVE_SESSION *)

\* valid: the provider answers for the session in the cookies.  signedOut: its
\* local sign-out, which deletes the cookie, succeeds.
Resolve(r, valid, signedOut) ==
    LET q == requests[r]
        swept == Cleaned(IF signedOut THEN Put(q, "session", FALSE) ELSE q)
    IN /\ At(r, "resolve", "received")
       /\ IF q.cookies.session /\ valid /\ Eligible(q.cookies)
          THEN Becomes(r, Answer(q, "ok")) /\ UNCHANGED attempts
          ELSE /\ Becomes(r, Answer(swept, "failed"))
               /\ attempts' = Unbound(q.cookies.binding)
       /\ UNCHANGED <<contexts, correlation, codes, jar, restarts, history>>

-----------------------------------------------------------------------------
(* The callback: processCallback of an AuthRuntime made for the request.   *)

\* validateCallback.
Vouched(q) == ~q.cookies.tombstone /\ ValidAttempt(q.cookies.context, q.attempt)

\* #discardAttempt, whatever lifecycle the record has reached meanwhile.
Discards(q) == /\ correlation' = [correlation EXCEPT ![q.attempt] = "none"]
               /\ attempts' = CallbackAbandoned(q.cookies.context, q.attempt)

\* Fault: only the correlation record of a rejected establishment is removed.
FaultyRollsBack(q) == /\ correlation' = [correlation EXCEPT ![q.attempt] = "none"]
                      /\ UNCHANGED attempts

\* #rollbackRejectedEstablishment.
RollsBack(q) == /\ correlation' = [correlation EXCEPT ![q.attempt] = "none"]
                /\ attempts' = RolledBack(q.cookies.context, q.attempt)

\* An AuthRuntime notes the epochs of its sign-outs when it starts to wait.
Awaits(q, place) == [q EXCEPT !.at = place, !.fenced = FALSE]

\* #callbackFailure has no use for the attempt.
Fails(q) == [Awaits(q, "failing") EXCEPT !.attempt = NoHandle]

\* denied: the page was opened without a code.  expired: the store, which deletes
\* what expired when it is asked, finds the record past its time.
BeginCallback(r, denied, expired) ==
    LET q == [requests[r] EXCEPT !.previous = requests[r].cookies.session]
        record == IF expired THEN "none" ELSE correlation[q.attempt]
        correlated == ~denied /\ record # "none" /\ Vouched(q)
    IN /\ At(r, "callback", "received")
       /\ \/ /\ correlated
             /\ Becomes(r, Awaits(q, IF record = "pending" THEN "exchanging"
                                                          ELSE "revalidating"))
             /\ UNCHANGED <<attempts, correlation>>
          \/ /\ ~correlated
             /\ Becomes(r, Fails(q))
             /\ IF record = "pending" THEN Discards(q)
                ELSE /\ correlation' = [correlation EXCEPT ![q.attempt] = record]
                     /\ UNCHANGED attempts
       /\ UNCHANGED <<contexts, codes, jar, restarts, history>>

Exchange(r) ==
    LET q == requests[r] IN
    /\ At(r, "callback", "exchanging")
    /\ codes[q.attempt] = "issued"
    /\ codes' = [codes EXCEPT ![q.attempt] = "used"]
    /\ Becomes(r, Goto(q, "completing"))
    /\ UNCHANGED <<authority, correlation, jar, restarts, history>>

ExchangeFails(r) ==
    LET q == requests[r] IN
    /\ At(r, "callback", "exchanging")
    /\ Discards(q)
    /\ Becomes(r, Fails(q))
    /\ UNCHANGED <<contexts, codes, jar, restarts, history>>

\* The fence is asked again and the record completes once.
CompleteCorrelation(r, expired) ==
    LET q == requests[r] IN
    /\ At(r, "callback", "completing")
    /\ IF Vouched(q) /\ correlation[q.attempt] = "pending" /\ ~expired
       THEN /\ correlation' = [correlation EXCEPT ![q.attempt] = "completed"]
            /\ Becomes(r, Goto(q, "establishing"))
            /\ UNCHANGED attempts
       ELSE Discards(q) /\ Becomes(r, Fails(q))
    /\ UNCHANGED <<contexts, codes, jar, restarts, history>>

EstablishSession(r) ==
    LET q == requests[r] IN
    /\ At(r, "callback", "establishing")
    /\ IF Vouched(q)
       THEN /\ attempts' = Bound(q.attempt)
            /\ Becomes(r, Goto(Put(q, "binding", q.attempt), "committing"))
            /\ UNCHANGED correlation
       ELSE RollsBack(q) /\ Becomes(r, Fails(Cleaned(q)))
    /\ UNCHANGED <<contexts, codes, jar, restarts, history>>

CommitSession(r) ==
    LET q == requests[r] IN
    /\ At(r, "callback", "committing")
    /\ IF Eligible(q.cookies)
       THEN /\ Becomes(r, Goto(Put(q, "session", TRUE), "confirming"))
            /\ UNCHANGED <<attempts, correlation>>
       ELSE RollsBack(q) /\ Becomes(r, Fails(Cleaned(q)))
    /\ UNCHANGED <<contexts, codes, jar, restarts, history>>

\* The provider's cookies are written: its local sign-out cannot unwrite them.
Confirm(r) ==
    LET q == requests[r] IN
    /\ At(r, "callback", "confirming")
    /\ IF Eligible(q.cookies) /\ ~q.fenced
       THEN /\ Becomes(r, Answer(q, "ok"))
            /\ established' = established \cup {q.attempt}
            /\ UNCHANGED <<attempts, correlation>>
       ELSE /\ RollsBack(q)
            /\ Becomes(r, Fails(Cleaned(q)))
            /\ UNCHANGED established
    /\ UNCHANGED <<contexts, codes, jar, restarts, ended>>

\* A duplicate of a completed callback succeeds only for who is signed in; valid:
\* the provider vouches for that session and its user is the record's.
Revalidate(r, valid) ==
    LET q == requests[r] IN
    /\ At(r, "callback", "revalidating")
    /\ IF q.previous /\ valid /\ Eligible(q.cookies) /\ ~q.fenced
       THEN Becomes(r, Answer(q, "ok")) /\ UNCHANGED attempts
       ELSE /\ attempts' = Unbound(q.cookies.binding)
            /\ Becomes(r, Fails([Cleaned(q) EXCEPT !.previous = FALSE]))
    /\ UNCHANGED <<contexts, correlation, codes, jar, restarts, history>>

\* #callbackFailure keeps a session the browser had before (known: getSession had
\* told it of one) if it is still good.
FailCallback(r, known, valid) ==
    LET q == requests[r] IN
    /\ At(r, "callback", "failing")
    /\ IF ~q.previous \/ ~known
       THEN Becomes(r, Answer(q, "failed")) /\ UNCHANGED attempts
       ELSE IF valid /\ Eligible(q.cookies) /\ ~q.fenced
       THEN Becomes(r, Answer(q, "failed")) /\ UNCHANGED attempts
       ELSE /\ Becomes(r, Answer(Cleaned(q), "failed"))
            /\ attempts' = Unbound(q.cookies.binding)
    /\ UNCHANGED <<contexts, correlation, codes, jar, restarts, history>>

-----------------------------------------------------------------------------
\* Requests under way die with the process; responses already sent arrive.  Bound:
\* a process restarts when it has something to forget.
Restart ==
    /\ restarts < MaxRestarts
    /\ \E a \in Attempts : attempts[a].status = "live"
    /\ restarts' = restarts + 1
    /\ Forget
    /\ correlation' = [a \in Attempts |-> "none"]
    /\ requests' = [r \in Requests |-> IF requests[r].at = "answered" THEN requests[r]
                                       ELSE Idle]
    /\ UNCHANGED <<codes, jar, history>>

Browser(r) == \/ BeginSignIn(r) \/ ResolveSession(r) \/ SignOut(r)
              \/ \E a \in Attempts : OpenCallback(r, a)
              \/ Deliver(r) \/ Lose(r)

FenceHost(r) == \/ \E c \in Contexts, a \in Attempts : PrepareSignIn(r, c, a)
                \/ RefuseSignIn(r) \/ CompletePreparation(r) \/ Associate(r)
                \/ PublishSignOut(r)
                \/ \E valid, signedOut \in BOOLEAN : Resolve(r, valid, signedOut)

Callback(r) == \/ \E denied, expired \in BOOLEAN : BeginCallback(r, denied, expired)
               \/ Exchange(r) \/ ExchangeFails(r)
               \/ \E expired \in BOOLEAN : CompleteCorrelation(r, expired)
               \/ EstablishSession(r) \/ CommitSession(r) \/ Confirm(r)
               \/ \E valid \in BOOLEAN : Revalidate(r, valid)
               \/ \E known, valid \in BOOLEAN : FailCallback(r, known, valid)

Next == \/ \E r \in Requests : Browser(r) \/ FenceHost(r) \/ Callback(r)
        \/ SignOutLocal
        \/ Restart

Spec == Init /\ [][Next]_vars

-----------------------------------------------------------------------------
(* Properties.                                                             *)

\* SIGN_OUT_WINS: whatever order late, lost and concurrent responses take, once a
\* sign-out is published no cookies, neither the browser's nor those a request
\* still carries, are resolved to a session that was begun before it.
EndedSessionsStayEnded ==
    \A cookies \in {jar} \cup {requests[r].cookies : r \in Requests} :
        Eligible(cookies) => cookies.binding \notin ended

\* A callback that was rejected, or cut short, leaves neither a live binding nor
\* a completed correlation record that a duplicate could be answered from.
RejectedCallbacksLeaveNothing ==
    \A a \in Attempts :
        correlation[a] = "completed" \/ attempts[a].bound =>
            \/ a \in established
            \/ \E r \in Requests : /\ requests[r].op = "callback"
                                   /\ requests[r].attempt = a
                                   /\ requests[r].at \in {"establishing", "committing",
                                                         "confirming"}

\* CONTRACT-AUTH-001, "New sign-in after sign-out reconciliation": the provider is
\* only asked, and its callback only accepted, after the sign-out that was published
\* last in the context was reconciled, however its publication raced the sign-in.
SignInsAreReconciled ==
    \A c \in Contexts, a \in Attempts :
        ValidAttempt(c, a) => contexts[c].published \in {0, contexts[c].reconciled}

\* CONTRACT-AUTH-001: "If publication fails [...] LOCAL_SIGN_OUT_TOMBSTONE MUST
\* remain active": with no publication under way, a response that deletes the
\* tombstone leaves the browser nothing that is resolved to a session.
TombstoneRemovalGrantsNothing ==
    [][/\ jar.tombstone /\ ~jar'.tombstone
       /\ \A r \in Requests : requests[r].op # "publish"
       => ~Eligible(jar')]_vars

\* CONTRACT-AUTH-001: "A sign-out tombstone MUST NOT permanently prevent future
\* authentication": when nothing is under way and the browser's context had its
\* sign-out published, the next PREPARE_SIGN_IN is not refused.
TombstoneIsReconcilable ==
    /\ jar.tombstone
    /\ \A r \in Requests : requests[r].at = "idle"
    /\ Known(jar.context)
    /\ contexts[jar.context].published # 0
    => Admits(jar.context, jar.tombstone)
=============================================================================
