----------------------------- MODULE BrowserAuth ------------------------------
(***************************************************************************)
(* BrowserAuthAdapter of apps/web/src/auth/browser.ts: one adapter in one  *)
(* page.  JavaScript runs one turn at a time, so an action is all that     *)
(* runs between two awaits on the outside (the provider or the session     *)
(* fence); everything else may happen between two actions.  What the fence *)
(* and the provider answer is not constrained: another tab shares the      *)
(* provider's session and the tombstone.                                   *)
(***************************************************************************)
EXTENDS AuthStateMachine, Naturals

CONSTANTS Signals,          \* provider signals being verified at the same time
          Calls,            \* calls of getAccessTokenForApiRequest
          MaxOperations,    \* bound on calls of signOut
          MaxVerifications  \* bound on what advances the verification epoch

ASSUME BoundsAssumption == MaxOperations \in Nat /\ MaxVerifications \in Nat

VARIABLES machine,    \* #machine
          begin,      \* #beginPromise: what beginSignIn waits for
          refresh,    \* #refreshPromise and the locals of #performRefresh
          signOut,    \* #signOutPromise and the locals of #performSignOut
          signals,    \* the running calls of #resolveProviderSignal
          calls,      \* the calls of getAccessTokenForApiRequest
          opEpoch,    \* #operationEpoch
          verEpoch,   \* #verificationEpoch
          tombstone,  \* #tombstone.isActive(): a cookie, shared with other tabs
          material,   \* what a refresh of this adapter left in the provider's store
          ended       \* history: how the session last ended, if nothing vouched for
                      \* a session since

epochs == <<opEpoch, verEpoch>>
work == <<begin, refresh, signOut, signals, calls>>
shared == <<tombstone, material>>
vars == <<machine, work, epochs, shared, ended>>

Epochs == [op : Nat, ver : Nat]
Now == [op |-> opEpoch, ver |-> verEpoch]

\* A session within a minute of its expiry, or past it, is refreshed.
Lives == {"ample", "short", "spent"}

IdleRefresh == [at |-> "idle", epoch |-> [op |-> 0, ver |-> 0], forced |-> NoMode,
                fence |-> Nobody, renewed |-> Nobody]
IdleSignOut == [at |-> "idle", failed |-> {}]
IdleSignal == [at |-> "idle", epoch |-> [op |-> 0, ver |-> 0],
               claimed |-> Nobody, fence |-> Nobody]
NewCall == [at |-> "new", epoch |-> [op |-> 0, ver |-> 0], fence |-> Nobody]

MaybeUser == Users \cup {Nobody}

Refreshes == [at : {"idle", "resolving", "reading", "exchanging", "confirming",
                    "rereading", "sweeping", "denying", "failing"},
              epoch : Epochs, forced : Modes \cup {NoMode}, fence : MaybeUser,
              renewed : MaybeUser]
SignOuts == [at : {"idle", "publishing", "revoking"},
             failed : SUBSET {"tombstone", "publication"}]
SignalTasks == [at : {"idle", "resolving", "reading", "cleaning"}, epoch : Epochs,
                claimed : MaybeUser, fence : MaybeUser]
TokenCalls == [at : {"new", "resolving", "reading", "joined", "rereading", "denying",
                     "delivered", "refused"},
               epoch : Epochs, fence : MaybeUser]

Init == /\ machine = Start
        /\ begin = "idle"
        /\ refresh = IdleRefresh
        /\ signOut = IdleSignOut
        /\ signals = [s \in Signals |-> IdleSignal]
        /\ calls = [c \in Calls |-> NewCall]
        /\ opEpoch = 0
        /\ verEpoch = 0
        /\ tombstone \in BOOLEAN
        /\ material = "none"
        /\ ended = "no"

----------------------------------------------------------------------------
(* What the steps share *)

Current(task) == task.epoch = Now

\* RESOLVE_SESSION answers with a user, or with none; a refusal by the host also
\* clears the provider's cookies.
FenceAnswers(user) ==
    material' \in IF user = Nobody THEN {material, "none"} ELSE {material}

\* #resolveEligibleSession goes on to read the provider's session.
FenceVouches(task, user) == user # Nobody /\ Current(task)

\* Fault: the tombstone is read only when an operation starts.
FaultyEligible(task, session) ==
    IF session = task.fence /\ Current(task) THEN session ELSE Nobody

\* The session #resolveEligibleSession returns for what the provider answers.
Eligible(task, session) ==
    IF session = task.fence /\ Current(task) /\ ~tombstone THEN session ELSE Nobody

\* provider.signOutLocal() succeeds or fails; most callers ignore which.
ProviderSignsOut(ok) ==
    material' = IF ok THEN "none" ELSE IF material = "kept" THEN "unswept" ELSE material

FailClosed == Move(machine, "TERMINAL_SESSION_ERROR")
Unauthenticated == Move(machine, "UNAUTHENTICATED")

\* Fault: a failed refresh forgets the calls that wait for it.
FaultySettle(ok) ==
    /\ refresh' = IdleRefresh
    /\ calls' = [c \in Calls |->
           IF calls[c].at = "joined" /\ ok THEN [calls[c] EXCEPT !.at = "rereading"]
           ELSE calls[c]]

\* The refresh promise settles, and with it the calls that wait for it.
Settle(ok) ==
    /\ refresh' = IdleRefresh
    /\ calls' = [c \in Calls |->
           IF calls[c].at = "joined"
           THEN [calls[c] EXCEPT !.at = IF ok THEN "rereading" ELSE "refused"]
           ELSE calls[c]]

----------------------------------------------------------------------------
(* beginSignIn *)

BeginSignIn ==
    /\ begin = "idle"
    /\ machine.state \in {"UNAUTHENTICATED", "RECOVERABLE_ERROR", "TERMINAL_SESSION_ERROR"}
    /\ verEpoch < MaxVerifications
    /\ verEpoch' = verEpoch + 1
    /\ machine' = Move(machine, "SIGN_IN_PENDING")
    /\ begin' = "preparing"
    /\ UNCHANGED <<refresh, signOut, signals, calls, opEpoch, shared, ended>>

\* The response of PREPARE_SIGN_IN: an authorised reconciliation carries the cookie
\* that deletes the tombstone, also when a later part of the preparation fails.
PrepareAnswers(ok) ==
    /\ begin = "preparing"
    /\ tombstone' \in {tombstone, FALSE}
    /\ begin' = IF ok THEN "navigating" ELSE "idle"
    /\ machine' = IF ok THEN machine ELSE Move(machine, "RECOVERABLE_ERROR")
    /\ UNCHANGED <<refresh, signOut, signals, calls, epochs, material, ended>>

NavigateAnswers(ok) ==
    /\ begin = "navigating"
    /\ begin' = "idle"
    /\ machine' = IF ok THEN machine ELSE Move(machine, "RECOVERABLE_ERROR")
    /\ UNCHANGED <<refresh, signOut, signals, calls, epochs, shared, ended>>

----------------------------------------------------------------------------
(* refreshSession, and the refresh a token call asks for *)

\* #performRefresh up to its first await.
Started(mode) ==
    [IdleRefresh EXCEPT
        !.at = IF machine.state = "AUTHENTICATED" /\ ~tombstone THEN "resolving" ELSE "denying",
        !.epoch = Now, !.forced = mode]

RefreshSession ==
    /\ refresh.at = "idle"
    /\ refresh' = Started(NoMode)
    /\ UNCHANGED <<machine, begin, signOut, signals, calls, epochs, shared, ended>>

RefreshResolves(user) ==
    /\ refresh.at = "resolving"
    /\ FenceAnswers(user)
    /\ refresh' = IF FenceVouches(refresh, user)
                  THEN [refresh EXCEPT !.at = "reading", !.fence = user]
                  ELSE [refresh EXCEPT !.at = "denying"]
    /\ UNCHANGED <<machine, begin, signOut, signals, calls, epochs, tombstone, ended>>

\* The refresh mode is determined at entry, by the session's expiry unless the
\* caller forces it.
EntryMode(life) ==
    IF refresh.forced # NoMode THEN refresh.forced
    ELSE IF life = "spent" THEN "UNPROVEN_CREDENTIAL" ELSE "PROVEN_CREDENTIAL"

RefreshReads(session, life) ==
    /\ refresh.at = "reading"
    /\ LET current == Eligible(refresh, session)
       IN  IF current = Nobody
           THEN /\ refresh' = [refresh EXCEPT !.at = "denying"]
                /\ UNCHANGED <<machine, calls>>
           ELSE /\ machine' = AwaitRefresh(machine, current, EntryMode(life))
                /\ IF Allowed(machine, "REFRESH_PENDING")
                   THEN /\ refresh' = [refresh EXCEPT !.at = "exchanging"]
                        /\ UNCHANGED calls
                   ELSE Settle(FALSE)
    /\ UNCHANGED <<begin, signOut, signals, epochs, shared, ended>>

\* Fault: a refresh that answers after a sign-out just returns the snapshot.
FaultyExchangeSucceeds(user) ==
    /\ refresh.at = "exchanging"
    /\ material' = "kept"
    /\ IF refresh.epoch.op # opEpoch THEN Settle(TRUE)
       ELSE /\ refresh' = [refresh EXCEPT !.at = "confirming", !.renewed = user]
            /\ UNCHANGED calls
    /\ UNCHANGED <<machine, begin, signOut, signals, epochs, tombstone, ended>>

\* provider.refresh() succeeds; material that arrives after a sign-out is removed.
ExchangeSucceeds(user) ==
    /\ refresh.at = "exchanging"
    /\ material' = "kept"
    /\ refresh' = IF refresh.epoch.op # opEpoch
                  THEN [refresh EXCEPT !.at = "sweeping"]
                  ELSE [refresh EXCEPT !.at = "confirming", !.renewed = user]
    /\ UNCHANGED <<machine, begin, signOut, signals, calls, epochs, tombstone, ended>>

\* Where the catch block ends: a failure is not reported once signed out.
RefreshFails(next) ==
    /\ machine' = IF refresh.epoch.op # opEpoch THEN next
                  ELSE Move(next, "TERMINAL_SESSION_ERROR")
    /\ Settle(refresh.epoch.op # opEpoch)

ExchangeFails ==
    /\ refresh.at = "exchanging"
    /\ RefreshFails(machine)
    /\ UNCHANGED <<begin, signOut, signals, epochs, shared, ended>>

Swept(ok) ==
    /\ refresh.at = "sweeping"
    /\ ProviderSignsOut(ok)
    /\ Settle(TRUE)
    /\ UNCHANGED <<machine, begin, signOut, signals, epochs, tombstone, ended>>

RefreshConfirms(user) ==
    /\ refresh.at = "confirming"
    /\ FenceAnswers(user)
    /\ refresh' = IF FenceVouches(refresh, user)
                  THEN [refresh EXCEPT !.at = "rereading", !.fence = user]
                  ELSE [refresh EXCEPT !.at = "failing"]
    /\ UNCHANGED <<machine, begin, signOut, signals, calls, epochs, tombstone, ended>>

RefreshRereads(session) ==
    /\ refresh.at = "rereading"
    /\ LET eligible == Eligible(refresh, session)
       IN  IF eligible = Nobody \/ eligible # refresh.renewed
           THEN /\ refresh' = [refresh EXCEPT !.at = "failing"]
                /\ UNCHANGED <<machine, calls>>
           ELSE IF Allowed(machine, "AUTHENTICATED")
           THEN machine' = Authenticate(machine, eligible) /\ Settle(TRUE)
           ELSE RefreshFails(Terminal)
    /\ UNCHANGED <<begin, signOut, signals, epochs, shared, ended>>

\* #denyCurrentSession, outside the try block or within it.
RefreshDenied(ok) ==
    /\ refresh.at \in {"denying", "failing"}
    /\ ProviderSignsOut(ok)
    /\ IF refresh.at = "denying" THEN machine' = FailClosed /\ Settle(FALSE)
       ELSE RefreshFails(FailClosed)
    /\ UNCHANGED <<begin, signOut, signals, epochs, tombstone, ended>>

----------------------------------------------------------------------------
(* signOut *)

\* The tombstone and both epochs come first; from UNAUTHENTICATED the transition
\* throws before #performSignOut is called.
SignOut(created) ==
    /\ signOut.at = "idle"
    /\ opEpoch < MaxOperations
    /\ verEpoch < MaxVerifications
    /\ tombstone' = (created \/ tombstone)
    /\ opEpoch' = opEpoch + 1
    /\ verEpoch' = verEpoch + 1
    /\ machine' = Move(machine, "SIGN_OUT_PENDING")
    /\ IF Allowed(machine, "SIGN_OUT_PENDING")
       THEN /\ signOut' = [at |-> "publishing",
                           failed |-> IF created THEN {} ELSE {"tombstone"}]
            /\ ended' = "signed_out"
       ELSE /\ UNCHANGED signOut
            /\ ended' = IF ended = "no" THEN "refused" ELSE ended
    /\ UNCHANGED <<begin, refresh, signals, calls, material>>

\* PUBLISH_SIGN_OUT: the host writes the tombstone cookie before it publishes.
PublishAnswers(ok) ==
    /\ signOut.at = "publishing"
    /\ tombstone' \in IF ok THEN {TRUE} ELSE {tombstone, TRUE}
    /\ signOut' = [at |-> "revoking",
                   failed |-> signOut.failed \cup IF ok THEN {} ELSE {"publication"}]
    /\ UNCHANGED <<machine, begin, refresh, signals, calls, epochs, material, ended>>

SignOutEnds(ok) ==
    /\ signOut.at = "revoking"
    /\ ProviderSignsOut(ok)
    /\ signOut' = IdleSignOut
    /\ machine' = IF ok /\ signOut.failed = {} THEN Unauthenticated ELSE machine
    /\ UNCHANGED <<begin, refresh, signals, calls, epochs, tombstone, ended>>

----------------------------------------------------------------------------
(* onSessionChange *)

\* Fault: the provider's sign-out event does not advance the verification epoch.
FaultyProviderEnds ==
    /\ verEpoch < MaxVerifications
    /\ machine' = IF signOut.at = "idle" THEN Unauthenticated ELSE machine
    /\ ended' = IF ended = "no" THEN "notified" ELSE ended
    /\ UNCHANGED <<work, epochs, shared>>

\* SIGNED_OUT, or an event without a session.
ProviderEnds ==
    /\ verEpoch < MaxVerifications
    /\ verEpoch' = verEpoch + 1
    /\ machine' = IF signOut.at = "idle" THEN Unauthenticated ELSE machine
    /\ ended' = IF ended = "no" THEN "notified" ELSE ended
    /\ UNCHANGED <<work, opEpoch, shared>>

Busy == begin # "idle" \/ refresh.at # "idle" \/ signOut.at # "idle"

\* An event with a session starts a verification of its own, unless other work is
\* under way: then the adapter drops it.
ProviderSignals(s, user) ==
    /\ ~Busy
    /\ signals[s].at = "idle"
    /\ verEpoch < MaxVerifications
    /\ verEpoch' = verEpoch + 1
    /\ machine' = Move(machine, "INITIALIZING")
    /\ IF Allowed(machine, "INITIALIZING")
       THEN /\ signals' = [signals EXCEPT ![s] =
                   [at |-> "resolving", epoch |-> [op |-> opEpoch, ver |-> verEpoch + 1],
                    claimed |-> user, fence |-> Nobody]]
            /\ ended' = "no"
       ELSE UNCHANGED <<signals, ended>>
    /\ UNCHANGED <<begin, refresh, signOut, calls, opEpoch, shared>>

\* What #resolveProviderSignal does with the session it was given.
Verdict(s, session) ==
    IF ~Current(signals[s]) \/ Busy
    THEN /\ signals' = [signals EXCEPT ![s] = IdleSignal]
         /\ UNCHANGED machine
    ELSE IF session = signals[s].claimed
    THEN /\ signals' = [signals EXCEPT ![s] = IdleSignal]
         /\ machine' = Authenticate(machine, session)
    ELSE /\ signals' = [signals EXCEPT ![s].at = "cleaning"]
         /\ UNCHANGED machine

SignalResolves(s, user) ==
    /\ signals[s].at = "resolving"
    /\ FenceAnswers(user)
    /\ IF FenceVouches(signals[s], user)
       THEN /\ signals' = [signals EXCEPT ![s].at = "reading", ![s].fence = user]
            /\ UNCHANGED machine
       ELSE Verdict(s, Nobody)
    /\ UNCHANGED <<begin, refresh, signOut, calls, epochs, tombstone, ended>>

SignalReads(s, session) ==
    /\ signals[s].at = "reading"
    /\ Verdict(s, Eligible(signals[s], session))
    /\ UNCHANGED <<begin, refresh, signOut, calls, epochs, shared, ended>>

\* Fault: a signal nobody vouches for is cleaned up without a transition.
FaultySignalCleaned(s, ok) ==
    /\ signals[s].at = "cleaning"
    /\ ProviderSignsOut(ok)
    /\ signals' = [signals EXCEPT ![s] = IdleSignal]
    /\ UNCHANGED <<machine, begin, refresh, signOut, calls, epochs, tombstone, ended>>

SignalCleaned(s, ok) ==
    /\ signals[s].at = "cleaning"
    /\ ProviderSignsOut(ok)
    /\ signals' = [signals EXCEPT ![s] = IdleSignal]
    /\ machine' = Unauthenticated
    /\ UNCHANGED <<begin, refresh, signOut, calls, epochs, tombstone, ended>>

----------------------------------------------------------------------------
(* getAccessTokenForApiRequest *)

CallMoves(c, at) == calls' = [calls EXCEPT ![c].at = at]

GetAccessToken(c) ==
    /\ calls[c].at = "new"
    /\ calls' = [calls EXCEPT ![c].epoch = Now,
                              ![c].at = IF machine.state = "AUTHENTICATED" /\ ~tombstone
                                        THEN "resolving" ELSE "denying"]
    /\ UNCHANGED <<machine, begin, refresh, signOut, signals, epochs, shared, ended>>

CallResolves(c, user) ==
    /\ calls[c].at = "resolving"
    /\ FenceAnswers(user)
    /\ calls' = IF FenceVouches(calls[c], user)
                THEN [calls EXCEPT ![c].at = "reading", ![c].fence = user]
                ELSE [calls EXCEPT ![c].at = "denying"]
    /\ UNCHANGED <<machine, begin, refresh, signOut, signals, epochs, tombstone, ended>>

\* Fault: the token call does not compare its epochs again.
FaultyDeliverable(c, session) ==
    /\ session # Nobody
    /\ machine.state = "AUTHENTICATED"
    /\ session = machine.user
    /\ ~tombstone

\* The last check before the token leaves the adapter.
Deliverable(c, session) ==
    /\ session # Nobody
    /\ machine.state = "AUTHENTICATED"
    /\ session = machine.user
    /\ ~tombstone
    /\ Current(calls[c])

CallReads(c, session, life) ==
    /\ calls[c].at = "reading"
    /\ IF Eligible(calls[c], session) = Nobody
       THEN CallMoves(c, "denying") /\ UNCHANGED refresh
       ELSE IF life = "ample"
       THEN /\ CallMoves(c, IF Deliverable(c, session) THEN "delivered" ELSE "denying")
            /\ UNCHANGED refresh
       ELSE /\ CallMoves(c, "joined")
            /\ refresh' = IF refresh.at # "idle" THEN refresh
                          ELSE Started(IF life = "short" THEN "PROVEN_CREDENTIAL"
                                       ELSE "UNPROVEN_CREDENTIAL")
    /\ UNCHANGED <<machine, begin, signOut, signals, epochs, shared, ended>>

CallRereads(c, session) ==
    /\ calls[c].at = "rereading"
    /\ CallMoves(c, IF Deliverable(c, session) THEN "delivered" ELSE "denying")
    /\ UNCHANGED <<machine, begin, refresh, signOut, signals, epochs, shared, ended>>

\* The second read of the provider's session is not caught.
CallRereadThrows(c) ==
    /\ calls[c].at = "rereading"
    /\ CallMoves(c, "refused")
    /\ UNCHANGED <<machine, begin, refresh, signOut, signals, epochs, shared, ended>>

CallDenied(c, ok) ==
    /\ calls[c].at = "denying"
    /\ ProviderSignsOut(ok)
    /\ CallMoves(c, "refused")
    /\ machine' = FailClosed
    /\ UNCHANGED <<begin, refresh, signOut, signals, epochs, tombstone, ended>>

----------------------------------------------------------------------------
(* Another tab signs in or out: the cookies change without a call here. *)

OtherTab ==
    /\ tombstone' \in BOOLEAN
    /\ material' \in {material, "none"}
    /\ UNCHANGED <<machine, work, epochs, ended>>

\* The provider and the fence answer a request of the adapter.
BeginAnswered == \E ok \in BOOLEAN : PrepareAnswers(ok) \/ NavigateAnswers(ok)
SignOutAnswered == \E ok \in BOOLEAN : PublishAnswers(ok) \/ SignOutEnds(ok)
RefreshAnswered ==
    \/ \E user \in MaybeUser : \/ RefreshResolves(user) \/ RefreshConfirms(user)
                               \/ RefreshRereads(user)
                               \/ \E life \in Lives : RefreshReads(user, life)
    \/ \E user \in Users : ExchangeSucceeds(user)
    \/ ExchangeFails
    \/ \E ok \in BOOLEAN : Swept(ok) \/ RefreshDenied(ok)
SignalAnswered(s) ==
    \/ \E user \in MaybeUser : SignalResolves(s, user) \/ SignalReads(s, user)
    \/ \E ok \in BOOLEAN : SignalCleaned(s, ok)
CallAnswered(c) ==
    \/ \E user \in MaybeUser : \/ CallResolves(c, user) \/ CallRereads(c, user)
                               \/ \E life \in Lives : CallReads(c, user, life)
    \/ CallRereadThrows(c)
    \/ \E ok \in BOOLEAN : CallDenied(c, ok)

ProviderEvent == \/ ProviderEnds
                 \/ \E s \in Signals, user \in Users : ProviderSignals(s, user)

Next == \/ BeginSignIn \/ BeginAnswered
        \/ RefreshSession \/ RefreshAnswered
        \/ \E created \in BOOLEAN : SignOut(created)
        \/ SignOutAnswered
        \/ ProviderEvent
        \/ \E s \in Signals : SignalAnswered(s)
        \/ \E c \in Calls : GetAccessToken(c) \/ CallAnswered(c)
        \/ OtherTab

Spec == Init /\ [][Next]_vars

----------------------------------------------------------------------------
(* Properties *)

\* Types of the variables; the machine holds a user exactly while it shows content.
TypeOK == /\ machine \in Machines
          /\ machine.user # Nobody <=> Shown(machine)
          /\ begin \in {"idle", "preparing", "navigating"}
          /\ refresh \in Refreshes
          /\ signOut \in SignOuts
          /\ signals \in [Signals -> SignalTasks]
          /\ calls \in [Calls -> TokenCalls]
          /\ opEpoch \in Nat /\ verEpoch \in Nat
          /\ tombstone \in BOOLEAN
          /\ material \in {"none", "kept", "unswept"}
          /\ ended \in {"no", "notified", "refused", "signed_out"}

\* Sign-out wins: once signOut was called or the provider said the session is gone,
\* no refresh, verification or token call begun before shows protected content
\* again; only a provider signal that arrives later can vouch for a session.
EndedSessionStaysEnded == ended # "no" => ~Shown(machine)

Delivers(c) == calls[c].at # "delivered" /\ calls'[c].at = "delivered"

\* The same for tokens, whatever the awaits of the call let in: no token leaves for
\* a request once the session ended or was replaced while the call was waiting.
TokensAreCurrent ==
    [][\A c \in Calls : Delivers(c) => ended = "no" /\ calls[c].epoch = Now]_vars

\* The tombstone denies, whichever tab wrote it and whenever: while it is there the
\* adapter neither becomes authenticated nor hands out a token.
TombstoneDenies ==
    [][tombstone => /\ machine'.state = "AUTHENTICATED" => machine.state = "AUTHENTICATED"
                    /\ \A c \in Calls : ~Delivers(c)]_vars

\* A sign-out that ran to its end leaves no session a refresh of this adapter
\* stored, however late the refresh answered; only a failed provider sign-out can.
SignedOutLeavesNoMaterial ==
    ended = "signed_out" /\ signOut.at = "idle" /\ refresh.at = "idle" => material # "kept"

\* A token call never waits for a refresh that is over.
JoinedCallsHaveARefresh ==
    \A c \in Calls : calls[c].at = "joined" => refresh.at # "idle"

\* With answers from the outside and the provider's first event, the page never
\* stays in the two loading states of a restoration, whatever was superseded.
LoadingEnds ==
    /\ machine.state = "INITIALIZING" ~> machine.state # "INITIALIZING"
    /\ machine.state = "REFRESH_PENDING" ~> machine.state # "REFRESH_PENDING"

\* And every token call is answered.
TokenCallsAreAnswered ==
    \A c \in Calls : calls[c].at # "new" ~> calls[c].at \in {"delivered", "refused"}

\* Requests to the provider and the fence settle; the provider delivers its initial
\* event to a page nothing else is restoring.
FirstEvent == /\ machine.state = "INITIALIZING"
              /\ \A s \in Signals : signals[s].at = "idle"
              /\ ProviderEvent

Fairness == /\ WF_vars(BeginAnswered)
            /\ WF_vars(SignOutAnswered)
            /\ WF_vars(RefreshAnswered)
            /\ WF_vars(FirstEvent)
            /\ \A s \in Signals : WF_vars(SignalAnswered(s))
            /\ \A c \in Calls : WF_vars(CallAnswered(c))

LiveSpec == Spec /\ Fairness
=============================================================================
