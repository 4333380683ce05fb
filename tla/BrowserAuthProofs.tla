-------------------------- MODULE BrowserAuthProofs ---------------------------
(***************************************************************************)
(* Proofs about BrowserAuth for every set of users, provider signals and   *)
(* token calls, and every bound.  Steps are first described by what they   *)
(* do to one piece of work, then the invariant follows from those          *)
(* descriptions alone.                                                     *)
(***************************************************************************)
EXTENDS BrowserAuth, TLAPS

(* The state machine *)

\* The machine holds a user exactly while it shows content.
Good(m) == m \in Machines /\ (m.user # Nobody <=> Shown(m))

\* A transition to any other state than the two that show content shows none.
LEMMA MoveHides ==
    ASSUME NEW m, Good(m), NEW next \in States \ {"AUTHENTICATED", "REFRESH_PENDING"}
    PROVE  Good(Move(m, next)) /\ (Move(m, next) = m \/ ~Shown(Move(m, next)))
           /\ (m.state # next => ~Shown(Move(m, next)))
BY DEF Good, Machines, Move, Terminal, Shown, States

\* An invalid transition fails closed.
LEMMA TerminalHides == Good(Terminal) /\ ~Shown(Terminal)
BY DEF Good, Machines, Terminal, Shown, States

\* transition("AUTHENTICATED") keeps user and content together.
LEMMA AuthenticateGood ==
    ASSUME NEW m, Good(m), NEW user \in Users
    PROVE  Good(Authenticate(m, user))
BY MachineAssumption
DEF Good, Machines, Authenticate, Move, Terminal, Shown, States, Modes, NoMode

\* transition("REFRESH_PENDING") keeps the user only for a proven credential.
LEMMA AwaitRefreshGood ==
    ASSUME NEW m, Good(m), NEW user \in Users, NEW mode \in Modes
    PROVE  Good(AwaitRefresh(m, user, mode))
BY MachineAssumption DEF Good, Machines, AwaitRefresh, Terminal, Shown, States, Modes, NoMode

----------------------------------------------------------------------------
(* What a step does to the work under way *)

\* The steps that touch the refresh, and what waiting for the outside means.
RefreshMoves == \/ RefreshSession \/ RefreshAnswered
                \/ \E c \in Calls, user \in MaybeUser, life \in Lives : CallReads(c, user, life)

\* Which steps touch #refreshPromise.
LEMMA RefreshFrame == [Next]_vars => refresh' = refresh \/ RefreshMoves
<1> SUFFICES ASSUME [Next]_vars, ~RefreshMoves PROVE refresh' = refresh
  OBVIOUS
<1>1. CASE BeginSignIn \/ BeginAnswered
  BY <1>1 DEF BeginSignIn, BeginAnswered, PrepareAnswers, NavigateAnswers
<1>2. CASE (\E created \in BOOLEAN : SignOut(created)) \/ SignOutAnswered
  BY <1>2 DEF SignOut, SignOutAnswered, PublishAnswers, SignOutEnds
<1>3. CASE ProviderEvent
  BY <1>3 DEF ProviderEvent, ProviderEnds, ProviderSignals, work
<1>4. ASSUME NEW s \in Signals, SignalAnswered(s) PROVE refresh' = refresh
  BY <1>4 DEF SignalAnswered, SignalResolves, SignalReads, SignalCleaned
<1>5. ASSUME NEW c \in Calls, GetAccessToken(c) \/ CallAnswered(c) PROVE refresh' = refresh
  BY <1>5
  DEF GetAccessToken, CallAnswered, CallResolves, CallRereads, CallRereadThrows, CallDenied, RefreshMoves
<1>6. CASE OtherTab
  BY <1>6 DEF OtherTab, work
<1>7. CASE UNCHANGED vars
  BY <1>7 DEF vars, work
<1> QED
  BY <1>1, <1>2, <1>3, <1>4, <1>5, <1>6, <1>7 DEF Next, RefreshMoves

Waiting(task) ==
    task.at \in {"resolving", "reading", "exchanging", "confirming", "rereading", "joined"}
NewEpoch == [op |-> 0, ver |-> 0]
\* What a step does with a piece of work: it goes on with the epochs it has,
\* begins with the current ones, or is over.
Continues(task, next) == next.epoch = task.epoch /\ (Waiting(next) => Waiting(task))
Begins(next) == next.epoch = Now /\ (Waiting(next) => machine.state = "AUTHENTICATED")
Over(next) == next.epoch = NewEpoch /\ ~Waiting(next)

\* #performRefresh captures the epochs at once, and waits only when authenticated.
LEMMA StartedBegins == ASSUME NEW mode \in Modes \cup {NoMode} PROVE Begins(Started(mode))
BY DEF Begins, Started, Waiting, IdleRefresh

\* A settled refresh waits for nothing.
LEMMA IdleIsOver == Over(IdleRefresh)
BY DEF Over, Waiting, IdleRefresh, NewEpoch

\* A step continues, begins or ends the refresh.
LEMMA RefreshSteps ==
  ASSUME refresh \in Refreshes, [Next]_vars
  PROVE  Continues(refresh, refresh') \/ Begins(refresh') \/ Over(refresh')
<1>0. CASE refresh' = refresh
  BY <1>0 DEF Continues
<1>1. CASE RefreshSession
  BY <1>1, StartedBegins DEF RefreshSession
<1>2. ASSUME NEW user \in MaybeUser, RefreshResolves(user) PROVE Continues(refresh, refresh')
  BY <1>2 DEF RefreshResolves, Continues, Waiting, Refreshes
<1>3. ASSUME NEW user \in MaybeUser, NEW life \in Lives, RefreshReads(user, life)
      PROVE  Continues(refresh, refresh') \/ Over(refresh')
  BY <1>3, IdleIsOver DEF RefreshReads, Settle, Continues, Waiting, Refreshes
<1>4. ASSUME NEW user \in Users, ExchangeSucceeds(user) PROVE Continues(refresh, refresh')
  BY <1>4 DEF ExchangeSucceeds, Continues, Waiting, Refreshes
<1>5. ASSUME NEW user \in MaybeUser, RefreshConfirms(user) PROVE Continues(refresh, refresh')
  BY <1>5 DEF RefreshConfirms, Continues, Waiting, Refreshes
<1>6. ASSUME NEW user \in MaybeUser, RefreshRereads(user)
      PROVE  Continues(refresh, refresh') \/ Over(refresh')
  BY <1>6, IdleIsOver DEF RefreshRereads, RefreshFails, Settle, Continues, Waiting, Refreshes
<1>7. ASSUME ExchangeFails \/ \E ok \in BOOLEAN : Swept(ok) \/ RefreshDenied(ok)
      PROVE  Over(refresh')
  BY <1>7, IdleIsOver DEF ExchangeFails, Swept, RefreshDenied, RefreshFails, Settle
<1>9. ASSUME NEW c \in Calls, NEW user \in MaybeUser, NEW life \in Lives, CallReads(c, user, life)
      PROVE Continues(refresh, refresh') \/ Begins(refresh')
  BY <1>9, StartedBegins DEF CallReads, Continues, Modes
<1> QED
  BY <1>0, <1>1, <1>2, <1>3, <1>4, <1>5, <1>6, <1>7, <1>9, RefreshFrame
  DEF RefreshMoves, RefreshAnswered

SignalMoves(s) == SignalAnswered(s) \/ \E user \in Users : ProviderSignals(s, user)

\* Which steps touch the verifications of provider signals.
LEMMA SignalFrame ==
    [Next]_vars => signals' = signals \/ \E s \in Signals : SignalMoves(s)
<1> SUFFICES ASSUME [Next]_vars, ~\E s \in Signals : SignalMoves(s) PROVE signals' = signals
  OBVIOUS
<1>1. CASE BeginSignIn \/ BeginAnswered
  BY <1>1 DEF BeginSignIn, BeginAnswered, PrepareAnswers, NavigateAnswers
<1>2. CASE (\E created \in BOOLEAN : SignOut(created)) \/ SignOutAnswered
  BY <1>2 DEF SignOut, SignOutAnswered, PublishAnswers, SignOutEnds
<1>3. CASE ProviderEvent
  BY <1>3 DEF ProviderEvent, ProviderEnds, work, SignalMoves
<1>4. CASE RefreshSession \/ RefreshAnswered
  BY <1>4 DEF RefreshSession, RefreshAnswered, RefreshResolves, RefreshReads, ExchangeSucceeds,
      ExchangeFails, Swept, RefreshConfirms, RefreshRereads, RefreshDenied
<1>5. ASSUME NEW c \in Calls, GetAccessToken(c) \/ CallAnswered(c) PROVE signals' = signals
  BY <1>5 DEF GetAccessToken, CallAnswered, CallResolves, CallReads, CallRereads,
      CallRereadThrows, CallDenied
<1>6. CASE OtherTab
  BY <1>6 DEF OtherTab, work
<1>7. CASE UNCHANGED vars
  BY <1>7 DEF vars, work
<1> QED
  BY <1>1, <1>2, <1>3, <1>4, <1>5, <1>6, <1>7 DEF Next, SignalMoves

\* A verification knows the user its signal named.
ClaimsNamed == \A s \in Signals : signals[s].at # "idle" => signals[s].claimed # Nobody
SignalStep(s) == \/ Continues(signals[s], signals'[s])
                 \/ Over(signals'[s])
                 \/ ended' = "no" /\ signals'[s].epoch = [op |-> opEpoch', ver |-> verEpoch']

\* The verdict on a signal ends its verification or hands it to the cleanup.
LEMMA VerdictStep ==
  ASSUME signals \in [Signals -> SignalTasks], NEW s \in Signals, NEW session, Verdict(s, session)
  PROVE \A t \in Signals : SignalStep(t)
<1> TAKE t \in Signals
<1>1. signals[s] \in SignalTasks /\ signals[t] \in SignalTasks
  OBVIOUS
<1>2. CASE s = t
  BY <1>1, <1>2
  DEF Verdict, SignalStep, Continues, Over, NewEpoch, Waiting, IdleSignal, SignalTasks
<1>3. CASE s # t
  BY <1>3 DEF Verdict, SignalStep, Continues
<1> QED BY <1>2, <1>3

\* A step continues or ends a verification; a new one vouches for a session.
LEMMA SignalSteps ==
  ASSUME signals \in [Signals -> SignalTasks], [Next]_vars
  PROVE  \A t \in Signals : SignalStep(t)
<1>0. CASE signals' = signals
  BY <1>0 DEF SignalStep, Continues
<1>1. ASSUME NEW s \in Signals, NEW user \in Users, ProviderSignals(s, user), NEW t \in Signals
      PROVE  SignalStep(t)
  <2>1. CASE s = t
    BY <1>1, <2>1 DEF ProviderSignals, SignalStep, Continues
  <2>2. CASE s # t
    BY <1>1, <2>2 DEF ProviderSignals, SignalStep, Continues
  <2> QED BY <2>1, <2>2
<1>2. ASSUME NEW s \in Signals, NEW user \in MaybeUser, SignalResolves(s, user), NEW t \in Signals
      PROVE  SignalStep(t)
  <2>1. CASE FenceVouches(signals[s], user)
    <3>1. signals[s] \in SignalTasks
      OBVIOUS
    <3>2. CASE s = t
      BY <1>2, <2>1, <3>1, <3>2 DEF SignalResolves, SignalStep, Continues, Waiting, SignalTasks
    <3>3. CASE s # t
      BY <1>2, <2>1, <3>3 DEF SignalResolves, SignalStep, Continues
    <3> QED BY <3>2, <3>3
  <2>2. CASE ~FenceVouches(signals[s], user)
    BY <1>2, <2>2, VerdictStep DEF SignalResolves
  <2> QED BY <2>1, <2>2
<1>3. ASSUME NEW s \in Signals, NEW user \in MaybeUser, SignalReads(s, user), NEW t \in Signals
      PROVE  SignalStep(t)
  BY <1>3, VerdictStep DEF SignalReads
<1>4. ASSUME NEW s \in Signals, NEW ok \in BOOLEAN, SignalCleaned(s, ok), NEW t \in Signals
      PROVE  SignalStep(t)
  BY <1>4 DEF SignalCleaned, SignalStep, Continues, Over, NewEpoch, Waiting, IdleSignal
<1> QED
  BY <1>0, <1>1, <1>2, <1>3, <1>4, SignalFrame DEF SignalMoves, SignalAnswered

CallMovesOn(c) == GetAccessToken(c) \/ CallAnswered(c)
CallStep(c) == Continues(calls[c], calls'[c]) \/ Begins(calls'[c])

\* Which steps touch the token calls.
LEMMA CallFrame ==
    [Next]_vars => calls' = calls \/ RefreshAnswered \/ \E c \in Calls : CallMovesOn(c)
<1> SUFFICES ASSUME [Next]_vars, ~RefreshAnswered, ~\E c \in Calls : CallMovesOn(c) PROVE calls' = calls
  OBVIOUS
<1>1. CASE BeginSignIn \/ BeginAnswered
  BY <1>1 DEF BeginSignIn, BeginAnswered, PrepareAnswers, NavigateAnswers
<1>2. CASE (\E created \in BOOLEAN : SignOut(created)) \/ SignOutAnswered
  BY <1>2 DEF SignOut, SignOutAnswered, PublishAnswers, SignOutEnds
<1>3. CASE ProviderEvent
  BY <1>3 DEF ProviderEvent, ProviderEnds, ProviderSignals, work
<1>4. CASE RefreshSession
  BY <1>4 DEF RefreshSession
<1>5. ASSUME NEW s \in Signals, SignalAnswered(s) PROVE calls' = calls
  BY <1>5 DEF SignalAnswered, SignalResolves, SignalReads, SignalCleaned
<1>6. CASE OtherTab
  BY <1>6 DEF OtherTab, work
<1>7. CASE UNCHANGED vars
  BY <1>7 DEF vars, work
<1> QED
  BY <1>1, <1>2, <1>3, <1>4, <1>5, <1>6, <1>7 DEF Next, CallMovesOn

\* A settling refresh wakes every call that waits for it.
LEMMA SettleCalls ==
  ASSUME calls \in [Calls -> TokenCalls], NEW ok \in BOOLEAN, Settle(ok), NEW c \in Calls
  PROVE Continues(calls[c], calls'[c]) /\ calls'[c].at # "joined"
<1>1. calls[c] \in TokenCalls
  OBVIOUS
<1> QED BY <1>1 DEF Settle, Continues, Waiting, TokenCalls

\* An answer to the refresh settles it or leaves the calls alone.
LEMMA RefreshLeavesCalls ==
  ASSUME refresh \in Refreshes, RefreshAnswered
  PROVE  (calls' = calls /\ refresh'.at # "idle") \/ \E ok \in BOOLEAN : Settle(ok)
<1>1. ASSUME NEW user \in MaybeUser, RefreshResolves(user) \/ RefreshConfirms(user)
      PROVE calls' = calls /\ refresh'.at # "idle"
  BY <1>1 DEF RefreshResolves, RefreshConfirms, Refreshes
<1>2. ASSUME NEW user \in MaybeUser, NEW life \in Lives, RefreshReads(user, life)
      PROVE (calls' = calls /\ refresh'.at # "idle") \/ Settle(FALSE)
  BY <1>2 DEF RefreshReads, Refreshes
<1>3. ASSUME NEW user \in MaybeUser, RefreshRereads(user)
      PROVE (calls' = calls /\ refresh'.at # "idle") \/ \E ok \in BOOLEAN : Settle(ok)
  BY <1>3 DEF RefreshRereads, RefreshFails, Refreshes
<1>4. ASSUME NEW user \in Users, ExchangeSucceeds(user)
      PROVE  calls' = calls /\ refresh'.at # "idle"
  BY <1>4 DEF ExchangeSucceeds, Refreshes
<1>5. CASE ExchangeFails \/ \E ok \in BOOLEAN : Swept(ok) \/ RefreshDenied(ok)
  BY <1>5 DEF ExchangeFails, Swept, RefreshDenied, RefreshFails
<1> QED BY <1>1, <1>2, <1>3, <1>4, <1>5 DEF RefreshAnswered

\* A step continues or begins a token call.
LEMMA CallSteps ==
  ASSUME refresh \in Refreshes, calls \in [Calls -> TokenCalls], [Next]_vars
  PROVE  \A t \in Calls : CallStep(t)
<1> TAKE t \in Calls
<1>0. CASE calls' = calls
  BY <1>0 DEF CallStep, Continues
<1>1. CASE RefreshAnswered
  BY <1>1, RefreshLeavesCalls, SettleCalls DEF CallStep, Continues
<1>2. ASSUME NEW c \in Calls, CallMovesOn(c) PROVE CallStep(t)
  <2>1. calls[c] \in TokenCalls
    OBVIOUS
  <2>2. CASE c = t
    <3>1. CASE GetAccessToken(c)
      BY <2>1, <2>2, <3>1 DEF GetAccessToken, CallStep, Begins, Waiting, TokenCalls
    <3>2. ASSUME NEW user \in MaybeUser, CallResolves(c, user) PROVE CallStep(t)
      BY <2>1, <2>2, <3>2 DEF CallResolves, CallStep, Continues, Waiting, TokenCalls
    <3>3. ASSUME NEW user \in MaybeUser, NEW life \in Lives, CallReads(c, user, life)
          PROVE  CallStep(t)
      BY <2>1, <2>2, <3>3 DEF CallReads, CallMoves, CallStep, Continues, Waiting, TokenCalls
    <3>4. ASSUME NEW user \in MaybeUser, CallRereads(c, user) PROVE CallStep(t)
      BY <2>1, <2>2, <3>4 DEF CallRereads, CallMoves, CallStep, Continues, Waiting, TokenCalls
    <3>5. CASE CallRereadThrows(c) \/ \E ok \in BOOLEAN : CallDenied(c, ok)
      BY <2>1, <2>2, <3>5
      DEF CallRereadThrows, CallDenied, CallMoves, CallStep, Continues, Waiting, TokenCalls
    <3> QED BY <1>2, <3>1, <3>2, <3>3, <3>4, <3>5 DEF CallMovesOn, CallAnswered
  <2>3. CASE c # t
    <3>1. calls'[t] = calls[t]
      BY <1>2, <2>3
      DEF CallMovesOn, CallAnswered, GetAccessToken, CallResolves, CallReads, CallRereads,
        CallRereadThrows, CallDenied, CallMoves
    <3> QED BY <3>1 DEF CallStep, Continues
  <2> QED BY <2>2, <2>3
<1> QED BY <1>0, <1>1, <1>2, CallFrame

TypesOfTasks == /\ refresh \in Refreshes
                /\ signals \in [Signals -> SignalTasks]
                /\ calls \in [Calls -> TokenCalls]

----------------------------------------------------------------------------
(* Types of the work *)

\* Types: the refresh.
LEMMA RefreshType ==
  ASSUME opEpoch \in Nat, verEpoch \in Nat, refresh \in Refreshes, [Next]_vars
  PROVE  refresh' \in Refreshes
<1>0. CASE refresh' = refresh
  BY <1>0
<1>a. ASSUME NEW mode \in Modes \cup {NoMode} PROVE Started(mode) \in Refreshes
  <2>1. Now \in Epochs
    BY DEF Now, Epochs
  <2> QED BY <2>1, <1>a DEF Started, IdleRefresh, Refreshes, MaybeUser
<1>b. IdleRefresh \in Refreshes
  BY DEF IdleRefresh, Refreshes, Epochs, MaybeUser
<1>1. CASE RefreshSession
  BY <1>1, <1>a DEF RefreshSession
<1>2. ASSUME NEW user \in MaybeUser, RefreshResolves(user) \/ RefreshConfirms(user)
      PROVE  refresh' \in Refreshes
  BY <1>2 DEF RefreshResolves, RefreshConfirms, Refreshes
<1>3. ASSUME NEW user \in MaybeUser, NEW life \in Lives, RefreshReads(user, life)
      PROVE  refresh' \in Refreshes
  BY <1>3, <1>b DEF RefreshReads, Settle, Refreshes
<1>4. ASSUME NEW user \in Users, ExchangeSucceeds(user) PROVE refresh' \in Refreshes
  BY <1>4 DEF ExchangeSucceeds, Refreshes, MaybeUser
<1>6. ASSUME NEW user \in MaybeUser, RefreshRereads(user) PROVE refresh' \in Refreshes
  BY <1>6, <1>b DEF RefreshRereads, RefreshFails, Settle, Refreshes
<1>7. CASE ExchangeFails \/ \E ok \in BOOLEAN : Swept(ok) \/ RefreshDenied(ok)
  BY <1>7, <1>b DEF ExchangeFails, Swept, RefreshDenied, RefreshFails, Settle
<1>9. ASSUME NEW c \in Calls, NEW user \in MaybeUser, NEW life \in Lives, CallReads(c, user, life)
      PROVE refresh' \in Refreshes
  BY <1>9, <1>a DEF CallReads, Modes
<1> QED
  BY <1>0, <1>1, <1>2, <1>3, <1>4, <1>6, <1>7, <1>9, RefreshFrame
  DEF RefreshMoves, RefreshAnswered

\* Types: the verifications, which know the user their signal claimed.
LEMMA SignalsType ==
  ASSUME opEpoch \in Nat, verEpoch \in Nat, signals \in [Signals -> SignalTasks], ClaimsNamed, [Next]_vars
  PROVE  signals' \in [Signals -> SignalTasks] /\ ClaimsNamed'
<1> DEFINE Apt(t) == t \in SignalTasks /\ (t.at # "idle" => t.claimed # Nobody)
<1>0. SUFFICES signals' = signals
                  \/ \E s \in Signals : \E t : Apt(t) /\ signals' = [signals EXCEPT ![s] = t]
  BY DEF ClaimsNamed
<1>a. ASSUME NEW s \in Signals PROVE Apt(signals[s])
  BY DEF ClaimsNamed
<1>b. Apt(IdleSignal)
  BY DEF IdleSignal, SignalTasks, Epochs, MaybeUser
<1>c. ASSUME NEW s \in Signals, signals[s].at # "idle", NEW at \in {"reading", "cleaning"}
      PROVE Apt([signals[s] EXCEPT !.at = at])
  BY <1>c, <1>a DEF SignalTasks
<1>d. ASSUME NEW s \in Signals, NEW session, signals[s].at # "idle", Verdict(s, session)
      PROVE signals' = signals \/ \E t : Apt(t) /\ signals' = [signals EXCEPT ![s] = t]
  <2>1. CASE signals' = [signals EXCEPT ![s] = IdleSignal]
    BY <2>1, <1>b
  <2>2. CASE signals' = [signals EXCEPT ![s] = [signals[s] EXCEPT !.at = "cleaning"]]
    BY <2>2, <1>c, <1>d
  <2> QED BY <1>d, <2>1, <2>2 DEF Verdict
<1>1. ASSUME NEW s \in Signals, NEW user \in Users, ProviderSignals(s, user)
      PROVE signals' = signals \/ \E t : Apt(t) /\ signals' = [signals EXCEPT ![s] = t]
  <2> DEFINE t == [at |-> "resolving", epoch |-> [op |-> opEpoch, ver |-> verEpoch + 1],
                   claimed |-> user, fence |-> Nobody]
  <2>1. Apt(t)
    BY MachineAssumption DEF SignalTasks, Epochs, MaybeUser
  <2>2. signals' = signals \/ signals' = [signals EXCEPT ![s] = t]
    BY <1>1 DEF ProviderSignals
  <2> QED BY <2>1, <2>2
<1>2. ASSUME NEW s \in Signals, NEW user \in MaybeUser, SignalResolves(s, user)
      PROVE signals' = signals \/ \E t : Apt(t) /\ signals' = [signals EXCEPT ![s] = t]
  <2> DEFINE t == [[signals[s] EXCEPT !.at = "reading"] EXCEPT !.fence = user]
  <2>1. Apt(t)
    BY <1>2, <1>a DEF SignalResolves, SignalTasks
  <2>2. CASE FenceVouches(signals[s], user)
    BY <1>2, <2>1, <2>2 DEF SignalResolves
  <2>3. CASE ~FenceVouches(signals[s], user)
    BY <1>2, <1>d, <2>3 DEF SignalResolves
  <2> QED BY <2>2, <2>3
<1>3. ASSUME NEW s \in Signals, NEW user \in MaybeUser, SignalReads(s, user)
      PROVE signals' = signals \/ \E t : Apt(t) /\ signals' = [signals EXCEPT ![s] = t]
  BY <1>3, <1>d DEF SignalReads
<1>4. ASSUME NEW s \in Signals, NEW ok \in BOOLEAN, SignalCleaned(s, ok)
      PROVE \E t : Apt(t) /\ signals' = [signals EXCEPT ![s] = t]
  BY <1>4, <1>b DEF SignalCleaned
<1> HIDE DEF Good
<1> QED
  BY <1>1, <1>2, <1>3, <1>4, SignalFrame DEF SignalMoves, SignalAnswered

\* Types: the token calls.
LEMMA CallsType ==
  ASSUME opEpoch \in Nat, verEpoch \in Nat, TypesOfTasks, [Next]_vars
  PROVE  calls' \in [Calls -> TokenCalls]
<1> USE DEF TypesOfTasks
<1>0. CASE calls' = calls
  BY <1>0
<1>1. CASE RefreshAnswered
  <2>1. ASSUME NEW ok \in BOOLEAN, Settle(ok) PROVE calls' \in [Calls -> TokenCalls]
    BY <2>1 DEF Settle, TokenCalls
  <2> QED BY <1>1, <2>1, RefreshLeavesCalls
<1>2. ASSUME NEW c \in Calls, CallMovesOn(c) PROVE calls' \in [Calls -> TokenCalls]
  <2>1. calls[c] \in TokenCalls
    OBVIOUS
  <2>2. Now \in Epochs
    BY DEF Now, Epochs
  <2>3. CASE GetAccessToken(c)
    BY <2>1, <2>2, <2>3 DEF GetAccessToken, TokenCalls
  <2>4. ASSUME NEW user \in MaybeUser, CallResolves(c, user)
        PROVE  calls' \in [Calls -> TokenCalls]
    BY <2>1, <2>4 DEF CallResolves, TokenCalls
  <2>5. ASSUME NEW at, CallMoves(c, at), at \in {"joined", "denying", "delivered", "refused"}
        PROVE  calls' \in [Calls -> TokenCalls]
    BY <2>1, <2>5 DEF CallMoves, TokenCalls
  <2>6. ASSUME NEW user \in MaybeUser, NEW life \in Lives, CallReads(c, user, life)
        PROVE  calls' \in [Calls -> TokenCalls]
    BY <2>5, <2>6 DEF CallReads
  <2>7. ASSUME NEW user \in MaybeUser, CallRereads(c, user)
        PROVE  calls' \in [Calls -> TokenCalls]
    BY <2>5, <2>7 DEF CallRereads
  <2>8. CASE CallRereadThrows(c) \/ \E ok \in BOOLEAN : CallDenied(c, ok)
    BY <2>5, <2>8 DEF CallRereadThrows, CallDenied
  <2> QED BY <1>2, <2>3, <2>4, <2>6, <2>7, <2>8 DEF CallMovesOn, CallAnswered
<1> QED BY <1>0, <1>1, <1>2, CallFrame

----------------------------------------------------------------------------
(* What a step does to the machine *)

\* Work of the current epochs is waiting for its last answer, without a tombstone.
Vouched == /\ ~tombstone
           /\ \/ Waiting(refresh) /\ Current(refresh)
              \/ \E s \in Signals : Waiting(signals[s]) /\ Current(signals[s])

Hides == Good(machine') /\ (machine' = machine \/ ~Shown(machine'))
MachineStep == Good(machine') /\ (machine' = machine \/ ~Shown(machine') \/ Vouched)

\* Every transition of the adapter but two keeps the machine or hides the content.
LEMMA Moved ==
    ASSUME Good(machine),
           machine' \in {machine, FailClosed, Unauthenticated, Terminal,
                         Move(machine, "SIGN_IN_PENDING"), Move(machine, "RECOVERABLE_ERROR"),
                         Move(machine, "SIGN_OUT_PENDING"), Move(machine, "INITIALIZING"),
                         Move(FailClosed, "TERMINAL_SESSION_ERROR"), Move(Terminal, "TERMINAL_SESSION_ERROR")}
    PROVE  Hides
<1>1. Good(FailClosed) /\ (FailClosed = machine \/ ~Shown(FailClosed))
  BY MoveHides DEF FailClosed, States
<1>2. Good(Unauthenticated) /\ (Unauthenticated = machine \/ ~Shown(Unauthenticated))
  BY MoveHides DEF Unauthenticated, States
<1>3. \A next \in {"SIGN_IN_PENDING", "RECOVERABLE_ERROR", "SIGN_OUT_PENDING", "INITIALIZING"} :
        Good(Move(machine, next)) /\ (Move(machine, next) = machine \/ ~Shown(Move(machine, next)))
  BY MoveHides DEF States
<1>4. \A m : Good(m) => Good(Move(m, "TERMINAL_SESSION_ERROR")) /\ ~Shown(Move(m, "TERMINAL_SESSION_ERROR"))
  BY DEF Good, Machines, Move, Terminal, Shown, States
<1> QED BY <1>1, <1>2, <1>3, <1>4, TerminalHides DEF Hides

\* #resolveEligibleSession returns a session only to current work, without a tombstone.
LEMMA EligibleVouches ==
    ASSUME NEW task, NEW session \in MaybeUser, Eligible(task, session) # Nobody
    PROVE  Current(task) /\ ~tombstone /\ Eligible(task, session) = session /\ session \in Users
BY DEF Eligible, MaybeUser

\* A verdict authenticates only for current work.
LEMMA VerdictMachine ==
    ASSUME Good(machine), TypesOfTasks, ClaimsNamed, NEW s \in Signals, NEW session \in MaybeUser,
           signals[s].at \in {"resolving", "reading"}, Verdict(s, session), session # Nobody => ~tombstone
    PROVE  MachineStep
<1>1. CASE machine' = machine
  BY <1>1 DEF MachineStep
<1>2. CASE /\ Current(signals[s]) /\ session = signals[s].claimed
           /\ machine' = Authenticate(machine, session)
  <2>1. session \in Users /\ session # Nobody
    BY <1>2 DEF ClaimsNamed, MaybeUser
  <2>2. Good(machine')
    BY <1>2, <2>1, AuthenticateGood
  <2>3. Vouched
    BY <1>2, <2>1 DEF Vouched, Waiting
  <2> QED BY <2>2, <2>3 DEF MachineStep
<1> QED BY <1>1, <1>2 DEF Verdict

\* A step keeps the machine, hides the content or has current work that vouches.
LEMMA MachineSteps ==
    ASSUME Good(machine), TypesOfTasks, ClaimsNamed, [Next]_vars PROVE MachineStep
<1>0. ASSUME Hides PROVE MachineStep
  BY <1>0 DEF Hides, MachineStep
<1>1. CASE BeginSignIn \/ BeginAnswered
  BY <1>0, <1>1, Moved DEF BeginSignIn, BeginAnswered, PrepareAnswers, NavigateAnswers
<1>2. CASE (\E created \in BOOLEAN : SignOut(created)) \/ SignOutAnswered
  BY <1>0, <1>2, Moved DEF SignOut, SignOutAnswered, PublishAnswers, SignOutEnds
<1>3. CASE ProviderEvent
  BY <1>0, <1>3, Moved DEF ProviderEvent, ProviderEnds, ProviderSignals
<1>4. CASE RefreshSession
  BY <1>0, <1>4, Moved DEF RefreshSession
<1>5. ASSUME NEW user \in MaybeUser, NEW life \in Lives, RefreshReads(user, life)
      PROVE  MachineStep
  <2> DEFINE current == Eligible(refresh, user)
  <2>1. CASE current = Nobody
    BY <1>0, <1>5, <2>1, Moved DEF RefreshReads
  <2>2. CASE current # Nobody
    <3>1. machine' = AwaitRefresh(machine, current, EntryMode(life)) /\ refresh.at = "reading"
      BY <1>5, <2>2 DEF RefreshReads
    <3>2. EntryMode(life) \in Modes
      BY DEF EntryMode, Modes, TypesOfTasks, Refreshes
    <3>3. Good(machine')
      BY <2>2, <3>1, <3>2, AwaitRefreshGood, EligibleVouches
    <3> QED BY <2>2, <3>1, <3>3, EligibleVouches DEF MachineStep, Vouched, Waiting
  <2> QED BY <2>1, <2>2
<1>6. ASSUME NEW user \in MaybeUser, RefreshRereads(user) PROVE MachineStep
  <2> DEFINE eligible == Eligible(refresh, user)
  <2>1. CASE machine' \in {machine, Terminal, Move(Terminal, "TERMINAL_SESSION_ERROR")}
    BY <1>0, <2>1, Moved
  <2>2. CASE eligible # Nobody /\ machine' = Authenticate(machine, eligible)
    <3>1. Good(machine')
      BY <2>2, AuthenticateGood, EligibleVouches
    <3> QED BY <1>6, <2>2, <3>1, EligibleVouches
    DEF MachineStep, Vouched, Waiting, RefreshRereads
  <2> QED BY <1>6, <2>1, <2>2 DEF RefreshRereads, RefreshFails
<1>7. CASE \E user \in MaybeUser : RefreshResolves(user) \/ RefreshConfirms(user)
  BY <1>0, <1>7, Moved DEF RefreshResolves, RefreshConfirms
<1>8. CASE \/ \E user \in Users : ExchangeSucceeds(user)
           \/ ExchangeFails
           \/ \E ok \in BOOLEAN : Swept(ok)
  <2>1. machine' \in {machine, FailClosed}
    BY <1>8 DEF ExchangeSucceeds, ExchangeFails, Swept, RefreshFails, FailClosed
  <2> QED BY <1>0, <2>1, Moved
<1>9. ASSUME NEW ok \in BOOLEAN, RefreshDenied(ok) PROVE MachineStep
  BY <1>0, <1>9, Moved DEF RefreshDenied, RefreshFails
<1>10. ASSUME NEW s \in Signals, SignalAnswered(s) PROVE MachineStep
  <2>1. ASSUME NEW user \in MaybeUser, SignalResolves(s, user) PROVE MachineStep
    <3>1. CASE FenceVouches(signals[s], user)
      BY <1>0, <2>1, <3>1, Moved DEF SignalResolves
    <3>2. CASE ~FenceVouches(signals[s], user)
      BY <2>1, <3>2, VerdictMachine DEF SignalResolves, MaybeUser
    <3> QED BY <3>1, <3>2
  <2>2. ASSUME NEW user \in MaybeUser, SignalReads(s, user) PROVE MachineStep
    <3>1. Eligible(signals[s], user) \in MaybeUser
      BY DEF Eligible, MaybeUser
    <3> QED BY <2>2, <3>1, VerdictMachine, EligibleVouches DEF SignalReads
  <2>3. ASSUME NEW ok \in BOOLEAN, SignalCleaned(s, ok) PROVE MachineStep
    BY <1>0, <2>3, Moved DEF SignalCleaned
  <2> QED BY <1>10, <2>1, <2>2, <2>3 DEF SignalAnswered
<1>11. ASSUME NEW c \in Calls, GetAccessToken(c) \/ CallAnswered(c) PROVE MachineStep
  <2>1. machine' \in {machine, FailClosed}
    BY <1>11 DEF GetAccessToken, CallAnswered, CallResolves, CallReads, CallRereads,
      CallRereadThrows, CallDenied
  <2> QED BY <1>0, <2>1, Moved
<1>12. CASE OtherTab \/ UNCHANGED vars
  BY <1>0, <1>12, Moved DEF OtherTab, vars
<1> QED
  BY <1>1, <1>2, <1>3, <1>4, <1>5, <1>6, <1>7, <1>8, <1>9, <1>10, <1>11, <1>12
  DEF Next, RefreshAnswered

----------------------------------------------------------------------------
(* The other variables *)

Scalars == /\ begin \in {"idle", "preparing", "navigating"}
           /\ signOut \in SignOuts
           /\ material \in {"none", "kept", "unswept"}
           /\ ended \in {"no", "notified", "refused", "signed_out"}

\* Types: the tombstone.
LEMMA TombstoneType == ASSUME tombstone \in BOOLEAN, [Next]_vars PROVE tombstone' \in BOOLEAN
<1>1. CASE BeginSignIn \/ BeginAnswered
  BY <1>1, Zenon DEF BeginSignIn, BeginAnswered, PrepareAnswers, NavigateAnswers, shared
<1>2. CASE (\E created \in BOOLEAN : SignOut(created)) \/ SignOutAnswered
  BY <1>2, Zenon DEF SignOut, SignOutAnswered, PublishAnswers, SignOutEnds
<1>3. CASE ProviderEvent
  BY <1>3, Zenon DEF ProviderEvent, ProviderEnds, ProviderSignals, shared
<1>4. CASE RefreshSession
  BY <1>4, Zenon DEF RefreshSession, shared
<1>5. CASE RefreshAnswered
  BY <1>5, Zenon DEF RefreshAnswered, RefreshResolves, RefreshReads, ExchangeSucceeds,
      ExchangeFails, Swept, RefreshConfirms, RefreshRereads, RefreshDenied, shared
<1>6. ASSUME NEW s \in Signals, SignalAnswered(s) PROVE tombstone' \in BOOLEAN
  BY <1>6, Zenon DEF SignalAnswered, SignalResolves, SignalReads, SignalCleaned, shared
<1>7. ASSUME NEW c \in Calls, GetAccessToken(c) \/ CallAnswered(c) PROVE tombstone' \in BOOLEAN
  BY <1>7, Zenon DEF GetAccessToken, CallAnswered, CallResolves, CallReads, CallRereads,
      CallRereadThrows, CallDenied, shared
<1>8. CASE OtherTab \/ UNCHANGED vars
  BY <1>8, Zenon DEF OtherTab, vars, shared
<1> QED
  BY <1>1, <1>2, <1>3, <1>4, <1>5, <1>6, <1>7, <1>8 DEF Next

\* What a call of signOut does beside the tombstone.
SignOutCalled ==
    /\ signOut.at = "idle"
    /\ opEpoch' = opEpoch + 1
    /\ verEpoch' = verEpoch + 1
    /\ machine' = Move(machine, "SIGN_OUT_PENDING")
    /\ begin' = begin /\ material' = material
    /\ \/ /\ ended' = "signed_out"
          /\ \E failed \in {{}, {"tombstone"}} :
                 signOut' = [at |-> "publishing", failed |-> failed]
       \/ /\ ended' = IF ended = "no" THEN "refused" ELSE ended
          /\ signOut' = signOut

\* signOut does what SignOutCalled says.
LEMMA SignOutChanges ==
    ASSUME \E created \in BOOLEAN : SignOut(created)
    PROVE  SignOutCalled
<1> PICK created \in BOOLEAN : SignOut(created)
  OBVIOUS
<1>1. (IF created THEN {} ELSE {"tombstone"}) \in {{}, {"tombstone"}}
  BY Zenon
<1> QED BY <1>1, Zenon DEF SignOut, SignOutCalled

\* Types: the remaining variables.
LEMMA ScalarTypes == ASSUME Scalars, [Next]_vars PROVE Scalars'
<1> USE DEF Scalars
<1>1. CASE BeginSignIn \/ BeginAnswered
  <2>1. CASE BeginSignIn
    BY <2>1 DEF BeginSignIn, shared
  <2>2. ASSUME NEW ok \in BOOLEAN, PrepareAnswers(ok) \/ NavigateAnswers(ok) PROVE Scalars'
    BY <2>2 DEF PrepareAnswers, NavigateAnswers, shared
  <2> QED BY <1>1, <2>1, <2>2 DEF BeginAnswered
<1>2. CASE \E created \in BOOLEAN : SignOut(created)
  <2>1. SignOutCalled
    BY <1>2, SignOutChanges
  <2>2. signOut' \in SignOuts
    BY <2>1 DEF SignOutCalled, SignOuts
  <2> QED BY <2>1, <2>2 DEF SignOutCalled
<1>3. ASSUME NEW ok \in BOOLEAN, PublishAnswers(ok) PROVE Scalars'
  <2>1. signOut.failed \subseteq {"tombstone", "publication"}
    BY DEF SignOuts
  <2>2. signOut' \in SignOuts
    BY <1>3, <2>1 DEF PublishAnswers, SignOuts
  <2> QED BY <1>3, <2>2 DEF PublishAnswers
<1>4. ASSUME NEW ok \in BOOLEAN, SignOutEnds(ok) PROVE Scalars'
  <2>1. signOut' \in SignOuts
    BY <1>4 DEF SignOutEnds, SignOuts, IdleSignOut
  <2> QED BY <1>4, <2>1 DEF SignOutEnds, ProviderSignsOut
<1>5. CASE ProviderEnds
  BY <1>5 DEF ProviderEnds, shared, work
<1>11. ASSUME NEW s \in Signals, NEW user \in Users, ProviderSignals(s, user) PROVE Scalars'
  BY <1>11 DEF ProviderSignals, shared
<1>6. CASE RefreshSession \/ RefreshAnswered
  BY <1>6 DEF RefreshSession, RefreshAnswered, RefreshResolves, RefreshReads, ExchangeSucceeds,
      ExchangeFails, Swept, RefreshConfirms, RefreshRereads, RefreshDenied,
      FenceAnswers, ProviderSignsOut, shared
<1>7. ASSUME NEW s \in Signals, SignalAnswered(s) PROVE Scalars'
  BY <1>7 DEF SignalAnswered, SignalResolves, SignalReads, SignalCleaned, FenceAnswers,
      ProviderSignsOut, shared
<1>8. ASSUME NEW c \in Calls, GetAccessToken(c) \/ CallAnswered(c) PROVE Scalars'
  BY <1>8 DEF GetAccessToken, CallAnswered, CallResolves, CallReads, CallRereads,
      CallRereadThrows, CallDenied, FenceAnswers, ProviderSignsOut, shared
<1>9. CASE OtherTab
  BY <1>9 DEF OtherTab, work
<1>10. CASE UNCHANGED vars
  BY <1>10 DEF vars, work, shared
<1> QED
  BY <1>1, <1>2, <1>3, <1>4, <1>5, <1>6, <1>7, <1>8, <1>9, <1>10, <1>11
  DEF Next, SignOutAnswered, ProviderEvent

\* signOut runs only after the session ended by it.
SignOutInv == signOut.at # "idle" => ended = "signed_out"

\* Epochs advance by one, and with them the session ends.
EpochStep == /\ opEpoch' \in {opEpoch, opEpoch + 1}
             /\ verEpoch' \in {verEpoch, verEpoch + 1}
EndedStep == \/ ended' = ended
             \/ ended' = "no" /\ signOut.at = "idle"
             \/ ended # "no" /\ ended' = "signed_out" /\ opEpoch' = opEpoch + 1 /\ signOut'.at # "idle"
             \/ /\ ended = "no" /\ ended' # "no" /\ verEpoch' = verEpoch + 1
                /\ signOut.at = "idle" => ~Shown(machine')
                /\ ended' = "signed_out" => opEpoch' = opEpoch + 1 /\ signOut'.at # "idle"

\* Epochs only advance, and the session only ends with an advance of theirs.
LEMMA EpochAndEnded ==
    ASSUME Scalars, opEpoch \in Nat, verEpoch \in Nat, Good(machine), [Next]_vars
    PROVE  EpochStep /\ EndedStep
<1> USE DEF EpochStep, EndedStep
<1>1. CASE BeginSignIn \/ BeginAnswered
  BY <1>1 DEF BeginSignIn, BeginAnswered, PrepareAnswers, NavigateAnswers, epochs
<1>2. CASE \E created \in BOOLEAN : SignOut(created)
  <2>2. SignOutCalled
    BY <1>2, SignOutChanges
  <2>1. ~Shown(Move(machine, "SIGN_OUT_PENDING"))
    BY DEF Good, Machines, Move, Terminal, Shown, States
  <2> QED BY <2>1, <2>2 DEF SignOutCalled
<1>3. CASE SignOutAnswered
  BY <1>3 DEF SignOutAnswered, PublishAnswers, SignOutEnds, epochs
<1>4. CASE ProviderEnds
  <2>1. ~Shown(Unauthenticated)
    BY DEF Unauthenticated, Good, Machines, Move, Terminal, Shown, States
  <2> QED BY <1>4, <2>1 DEF ProviderEnds
<1>5. CASE \E s \in Signals, user \in Users : ProviderSignals(s, user)
  BY <1>5 DEF ProviderSignals, Busy
<1>6. CASE RefreshSession \/ RefreshAnswered
  BY <1>6 DEF RefreshSession, RefreshAnswered, RefreshResolves, RefreshReads, ExchangeSucceeds,
      ExchangeFails, Swept, RefreshConfirms, RefreshRereads, RefreshDenied,
      epochs
<1>7. ASSUME NEW s \in Signals, SignalAnswered(s) PROVE EpochStep /\ EndedStep
  BY <1>7 DEF SignalAnswered, SignalResolves, SignalReads, SignalCleaned, epochs
<1>8. ASSUME NEW c \in Calls, GetAccessToken(c) \/ CallAnswered(c) PROVE EpochStep /\ EndedStep
  BY <1>8 DEF GetAccessToken, CallAnswered, CallResolves, CallReads, CallRereads,
      CallRereadThrows, CallDenied, epochs
<1>9. CASE OtherTab \/ UNCHANGED vars
  BY <1>9 DEF OtherTab, vars, epochs
<1> QED
  BY <1>1, <1>2, <1>3, <1>4, <1>5, <1>6, <1>7, <1>8, <1>9 DEF Next, ProviderEvent

SignOutStep == \/ signOut' = signOut
               \/ signOut.at = "idle" /\ ended' = "signed_out"
               \/ /\ ended' = ended /\ signOut.at # "idle"
                  /\ signOut'.at # "idle" \/ material' # "kept"

\* Which steps touch #signOutPromise: its end removes the stored material.
LEMMA SignOutFrame == ASSUME [Next]_vars PROVE SignOutStep
<1> USE DEF SignOutStep
<1>1. CASE BeginSignIn \/ BeginAnswered
  BY <1>1 DEF BeginSignIn, BeginAnswered, PrepareAnswers, NavigateAnswers
<1>2. CASE \E created \in BOOLEAN : SignOut(created)
  <2>1. SignOutCalled
    BY <1>2, SignOutChanges
  <2> QED BY <2>1 DEF SignOutCalled
<1>3. ASSUME NEW ok \in BOOLEAN, PublishAnswers(ok) PROVE SignOutStep
  <2>1. signOut.at = "publishing" /\ signOut'.at = "revoking" /\ ended' = ended
    BY <1>3, Zenon DEF PublishAnswers
  <2> QED BY <2>1
<1>4. ASSUME NEW ok \in BOOLEAN, SignOutEnds(ok) PROVE SignOutStep
  BY <1>4 DEF SignOutEnds, ProviderSignsOut
<1>5. CASE ProviderEvent
  BY <1>5 DEF ProviderEvent, ProviderEnds, ProviderSignals, work
<1>6. CASE RefreshSession \/ RefreshAnswered
  BY <1>6 DEF RefreshSession, RefreshAnswered, RefreshResolves, RefreshReads, ExchangeSucceeds,
      ExchangeFails, Swept, RefreshConfirms, RefreshRereads, RefreshDenied
<1>7. ASSUME NEW s \in Signals, SignalAnswered(s) PROVE signOut' = signOut
  BY <1>7 DEF SignalAnswered, SignalResolves, SignalReads, SignalCleaned
<1>8. ASSUME NEW c \in Calls, GetAccessToken(c) \/ CallAnswered(c) PROVE signOut' = signOut
  BY <1>8 DEF GetAccessToken, CallAnswered, CallResolves, CallReads, CallRereads,
      CallRereadThrows, CallDenied
<1>9. CASE OtherTab \/ UNCHANGED vars
  BY <1>9 DEF OtherTab, vars, work
<1> QED
  BY <1>1, <1>2, <1>3, <1>4, <1>5, <1>6, <1>7, <1>8, <1>9
  DEF Next, SignOutAnswered

\* Only the answer of an exchange stores material, and material under way to be
\* removed is not lost.
MaterialStep ==
    /\ \/ material' # "kept"
       \/ material = "kept"
       \/ /\ refresh.at = "exchanging"
          /\ refresh.epoch.op # opEpoch => refresh'.at = "sweeping"
    /\ refresh.at = "sweeping" => refresh'.at = "sweeping" \/ material' # "kept"

\* Only the answer of an exchange stores material, and a sweep removes it.
LEMMA MaterialFrame == ASSUME refresh \in Refreshes, [Next]_vars PROVE MaterialStep
<1> USE DEF MaterialStep
<1>1. CASE BeginSignIn \/ BeginAnswered
  BY <1>1 DEF BeginSignIn, BeginAnswered, PrepareAnswers, NavigateAnswers, shared
<1>2. CASE (\E created \in BOOLEAN : SignOut(created)) \/ SignOutAnswered
  BY <1>2 DEF SignOut, SignOutAnswered, PublishAnswers, SignOutEnds, ProviderSignsOut
<1>3. CASE ProviderEvent
  BY <1>3 DEF ProviderEvent, ProviderEnds, ProviderSignals, work, shared
<1>4. CASE RefreshSession
  BY <1>4 DEF RefreshSession, shared
<1>5. CASE RefreshAnswered
  <2>1. ASSUME NEW user \in MaybeUser, RefreshResolves(user) \/ RefreshConfirms(user) \/ RefreshRereads(user)
        PROVE  MaterialStep
    BY <2>1 DEF RefreshResolves, RefreshConfirms, RefreshRereads, FenceAnswers, shared
  <2>2. ASSUME NEW user \in MaybeUser, NEW life \in Lives, RefreshReads(user, life)
        PROVE  MaterialStep
    BY <2>2 DEF RefreshReads, shared
  <2>3. ASSUME NEW user \in Users, ExchangeSucceeds(user) PROVE MaterialStep
    BY <2>3 DEF ExchangeSucceeds, Refreshes
  <2>4. ASSUME NEW ok \in BOOLEAN, ExchangeFails \/ Swept(ok) \/ RefreshDenied(ok)
        PROVE  MaterialStep
    BY <2>4 DEF ExchangeFails, Swept, RefreshDenied, ProviderSignsOut, shared
  <2> QED BY <1>5, <2>1, <2>2, <2>3, <2>4 DEF RefreshAnswered
<1>7. ASSUME NEW s \in Signals, SignalAnswered(s) PROVE MaterialStep
  BY <1>7
  DEF SignalAnswered, SignalResolves, SignalReads, SignalCleaned, FenceAnswers, ProviderSignsOut, shared
<1>8. ASSUME NEW c \in Calls, GetAccessToken(c) \/ CallAnswered(c) PROVE MaterialStep
  BY <1>8 DEF GetAccessToken, CallAnswered, CallResolves, CallReads, CallRereads,
      CallRereadThrows, CallDenied, FenceAnswers, ProviderSignsOut, shared
<1>9. CASE OtherTab \/ UNCHANGED vars
  BY <1>9 DEF OtherTab, vars, work, shared
<1> QED
  BY <1>1, <1>2, <1>3, <1>4, <1>5, <1>7, <1>8, <1>9 DEF Next

----------------------------------------------------------------------------
(* The inductive invariant *)

\* A call that waits for a refresh finds one under way, before and after a step.
LEMMA JoinedStep ==
    ASSUME TypesOfTasks, JoinedCallsHaveARefresh, [Next]_vars PROVE JoinedCallsHaveARefresh'
<1> USE DEF JoinedCallsHaveARefresh, TypesOfTasks
<1>1. CASE RefreshAnswered
  BY <1>1, RefreshLeavesCalls, SettleCalls
<1>2. CASE ~RefreshAnswered
  <2>1. refresh.at # "idle" => refresh'.at # "idle"
    <3>1. refresh' = refresh \/ RefreshSession
            \/ \E c \in Calls, user \in MaybeUser, life \in Lives : CallReads(c, user, life)
      BY <1>2, RefreshFrame DEF RefreshMoves
    <3>2. ASSUME NEW c \in Calls, NEW user \in MaybeUser, NEW life \in Lives, CallReads(c, user, life),
                 refresh.at # "idle"
          PROVE  refresh' = refresh
      BY <3>2 DEF CallReads
    <3> QED BY <3>1, <3>2 DEF RefreshSession
  <2>2. ASSUME NEW c \in Calls, calls'[c].at = "joined"
        PROVE  calls[c].at = "joined" \/ refresh'.at # "idle"
    <3>1. CASE calls' = calls
      BY <2>2, <3>1
    <3>2. ASSUME NEW t \in Calls, CallMovesOn(t)
          PROVE  calls[c].at = "joined" \/ refresh'.at # "idle"
      <4>1. calls[c] \in TokenCalls /\ calls[t] \in TokenCalls
        OBVIOUS
      <4>2. CASE GetAccessToken(t) \/ \E user \in MaybeUser : CallResolves(t, user)
        BY <2>2, <4>1, <4>2 DEF GetAccessToken, CallResolves, TokenCalls
      <4>3. ASSUME NEW user \in MaybeUser, NEW life \in Lives, CallReads(t, user, life)
            PROVE  calls[c].at = "joined" \/ refresh'.at # "idle"
        <5>1. \A mode : Started(mode).at # "idle"
          BY DEF Started, IdleRefresh
        <5>2. c = t \/ calls'[c] = calls[c]
          BY <4>3 DEF CallReads, CallMoves
        <5>3. \A at : CallMoves(t, at) => calls'[t].at = at
          BY <4>1 DEF CallMoves, TokenCalls
        <5>4. CASE c = t
          <6>1. (refresh' = refresh /\ refresh.at # "idle") \/ \E mode : refresh' = Started(mode)
            BY <2>2, <4>3, <5>3, <5>4 DEF CallReads
          <6> QED BY <5>1, <6>1
        <5> QED BY <2>2, <5>2, <5>4
      <4>4. CASE \/ \E user \in MaybeUser : CallRereads(t, user)
                 \/ CallRereadThrows(t)
                 \/ \E ok \in BOOLEAN : CallDenied(t, ok)
        BY <2>2, <4>1, <4>4 DEF CallRereads, CallRereadThrows, CallDenied, CallMoves, TokenCalls
      <4> QED BY <3>2, <4>2, <4>3, <4>4 DEF CallMovesOn, CallAnswered
    <3> QED BY <1>2, <3>1, <3>2, CallFrame
  <2> QED BY <2>1, <2>2
<1> QED BY <1>1, <1>2

\* No operation carries an epoch that is still to come.
Before(epoch) == epoch.op <= opEpoch /\ epoch.ver <= verEpoch
Epoch(task) == task.epoch \in Epochs
Stale(task) == task.epoch.ver < verEpoch
EpochInv == /\ Before(refresh.epoch)
            /\ \A s \in Signals : Before(signals[s].epoch)
            /\ \A c \in Calls : Before(calls[c].epoch)
\* When the session ended, everything that waits was begun before.
EndedInv == ended # "no" => /\ ~Shown(machine)
                            /\ Waiting(refresh) => Stale(refresh)
                            /\ \A s \in Signals : Waiting(signals[s]) => Stale(signals[s])
                            /\ \A c \in Calls : Waiting(calls[c]) => Stale(calls[c])
\* After a sign-out, stored material has somebody who is about to remove it, and no
\* refresh can take the path that keeps it.
MaterialInv ==
    ended = "signed_out" =>
        /\ Waiting(refresh) => refresh.epoch.op < opEpoch
        /\ material = "kept" => signOut.at # "idle" \/ refresh.at = "sweeping"

Inv == /\ TypeOK /\ ClaimsNamed /\ SignOutInv
       /\ EpochInv /\ EndedInv /\ MaterialInv /\ JoinedCallsHaveARefresh

\* No step gives an operation an epoch that is still to come.
LEMMA EpochsStay ==
    ASSUME opEpoch \in Nat, verEpoch \in Nat, EpochStep, EpochInv,
           Epoch(refresh), \A s \in Signals : Epoch(signals[s]), \A c \in Calls : Epoch(calls[c]),
           Continues(refresh, refresh') \/ Begins(refresh') \/ Over(refresh'),
           \A s \in Signals : SignalStep(s), \A c \in Calls : CallStep(c)
    PROVE  EpochInv'
<1> DEFINE Soon(epoch) == epoch.op <= opEpoch' /\ epoch.ver <= verEpoch'
<1>1. \A epoch \in Epochs : Before(epoch) => Soon(epoch)
  BY DEF EpochStep, Before, Epochs
<1>2. Soon(Now) /\ Soon(NewEpoch) /\ Soon([op |-> opEpoch', ver |-> verEpoch'])
  BY DEF EpochStep, Now, NewEpoch
<1> HIDE DEF Soon
<1>3. Soon(refresh'.epoch)
  BY <1>1, <1>2 DEF EpochInv, Continues, Begins, Over, Epoch
<1>4. ASSUME NEW s \in Signals PROVE Soon(signals'[s].epoch)
  BY <1>1, <1>2 DEF EpochInv, SignalStep, Continues, Over, Epoch
<1>5. ASSUME NEW c \in Calls PROVE Soon(calls'[c].epoch)
  BY <1>1, <1>2 DEF EpochInv, CallStep, Continues, Begins, Epoch
<1> QED BY <1>3, <1>4, <1>5 DEF EpochInv, Before, Soon

\* No step lets work begun before the end of the session be current again.
LEMMA EndedStays ==
    ASSUME opEpoch \in Nat, verEpoch \in Nat, EpochStep, EndedStep, EpochInv, EndedInv, SignOutInv,
           Epoch(refresh), \A s \in Signals : Epoch(signals[s]), \A c \in Calls : Epoch(calls[c]),
           MachineStep,
           Continues(refresh, refresh') \/ Begins(refresh') \/ Over(refresh'),
           \A s \in Signals : SignalStep(s), \A c \in Calls : CallStep(c)
    PROVE  EndedInv'
<1> SUFFICES ASSUME ended' # "no" PROVE EndedInv'
  BY DEF EndedInv
<1> DEFINE Late(task) == task.epoch.ver < verEpoch'
<1>1. CASE ended # "no"
  <2>1. ~Shown(machine) /\ machine.state # "AUTHENTICATED"
    BY <1>1 DEF EndedInv, Shown
  <2>2. ASSUME NEW task, Epoch(task), Stale(task) PROVE Late(task) /\ ~Current(task)
    BY <2>2 DEF EpochStep, Stale, Epoch, Epochs, Current, Now
  <2>3. \A task, next : next.epoch = task.epoch => (Late(task) <=> Late(next))
    OBVIOUS
  <2> HIDE DEF Late
  <2>4. ~Shown(machine')
    BY <1>1, <2>1, <2>2 DEF EndedInv, MachineStep, Vouched
  <2>5. Waiting(refresh') => Late(refresh')
    BY <1>1, <2>1, <2>2, <2>3 DEF EndedInv, Continues, Begins, Over
  <2>6. ASSUME NEW s \in Signals, Waiting(signals'[s]) PROVE Late(signals'[s])
    BY <1>1, <2>2, <2>3, <2>6 DEF EndedInv, SignalStep, Continues, Over
  <2>7. ASSUME NEW c \in Calls, Waiting(calls'[c]) PROVE Late(calls'[c])
    BY <1>1, <2>1, <2>2, <2>3, <2>7 DEF EndedInv, CallStep, Continues, Begins
  <2> QED BY <2>4, <2>5, <2>6, <2>7 DEF EndedInv, Waiting, Stale, Late
<1>2. CASE ended = "no"
  <2>1. verEpoch' = verEpoch + 1 /\ ~Shown(machine')
    BY <1>2 DEF EndedStep, SignOutInv
  <2>2. \A epoch \in Epochs : Before(epoch) => epoch.ver < verEpoch'
    BY <2>1 DEF Before, Epochs
  <2>3. Now.ver < verEpoch' /\ NewEpoch.ver < verEpoch'
    BY <2>1 DEF Now, NewEpoch
  <2>4. Late(refresh')
    BY <2>2, <2>3 DEF EpochInv, Continues, Begins, Over, Epoch
  <2>5. \A s \in Signals : Late(signals'[s])
    BY <2>2, <2>3 DEF EpochInv, SignalStep, Continues, Over, Epoch
  <2>6. \A c \in Calls : Late(calls'[c])
    BY <2>2, <2>3 DEF EpochInv, CallStep, Continues, Begins, Epoch
  <2> QED BY <2>1, <2>4, <2>5, <2>6 DEF EndedInv, Waiting, Stale
<1> QED BY <1>1, <1>2

\* After signOut, stored material keeps somebody who is about to remove it.
LEMMA MaterialStays ==
    ASSUME opEpoch \in Nat, Epoch(refresh), EpochStep, EndedStep, EpochInv, EndedInv, MaterialInv,
           SignOutStep, MaterialStep,
           Continues(refresh, refresh') \/ Begins(refresh') \/ Over(refresh')
    PROVE  MaterialInv'
<1> SUFFICES ASSUME ended' = "signed_out" PROVE MaterialInv'
  BY DEF MaterialInv
<1>1. CASE opEpoch' = opEpoch + 1 /\ signOut'.at # "idle"
  <2>1. Now.op < opEpoch' /\ NewEpoch.op < opEpoch' /\ refresh.epoch.op < opEpoch'
    BY <1>1 DEF EpochInv, Before, Now, NewEpoch, Epoch, Epochs
  <2> QED BY <1>1, <2>1 DEF MaterialInv, Continues, Begins, Over
<1>2. CASE ended = "signed_out"
  <2>1. ~Shown(machine) /\ machine.state # "AUTHENTICATED"
    BY <1>2 DEF EndedInv, Shown
  <2>2. Waiting(refresh') => refresh'.epoch.op < opEpoch'
    BY <1>2, <2>1 DEF MaterialInv, EpochStep, Continues, Begins, Over, Epoch, Epochs
  <2>3. refresh.at = "exchanging" => refresh.epoch.op # opEpoch
    BY <1>2 DEF MaterialInv, Waiting, Epoch, Epochs
  <2>4. ASSUME material' = "kept" PROVE signOut'.at # "idle" \/ refresh'.at = "sweeping"
    BY <1>2, <2>3, <2>4 DEF MaterialInv, MaterialStep, SignOutStep
  <2> QED BY <2>2, <2>4 DEF MaterialInv, Waiting
<1> QED BY <1>1, <1>2 DEF EndedStep

----------------------------------------------------------------------------
(* The theorems *)

\* The inductive invariant: what is under way was begun before the session ended,
\* and its epochs say so.
THEOREM Invariant == Spec => []Inv
<1>1. Init => Inv
  <2> SUFFICES ASSUME Init PROVE Inv
    OBVIOUS
  <2> USE DEF Init
  <2>1. refresh \in Refreshes
    BY DEF IdleRefresh, Refreshes, Epochs, MaybeUser
  <2>2. signals \in [Signals -> SignalTasks]
    BY DEF IdleSignal, SignalTasks, Epochs, MaybeUser
  <2>3. calls \in [Calls -> TokenCalls]
    BY DEF NewCall, TokenCalls, Epochs, MaybeUser
  <2>4. signOut \in SignOuts
    BY DEF IdleSignOut, SignOuts
  <2>5. machine \in Machines /\ (machine.user # Nobody <=> Shown(machine))
    BY DEF Start, Machines, States, Shown
  <2>6. tombstone \in BOOLEAN
    BY Zenon
  <2>7. TypeOK
    BY <2>1, <2>2, <2>3, <2>4, <2>5, <2>6 DEF TypeOK
  <2>8. ClaimsNamed /\ SignOutInv /\ EndedInv /\ MaterialInv
    BY DEF ClaimsNamed, IdleSignal, SignOutInv, IdleSignOut, EndedInv, MaterialInv
  <2>9. EpochInv
    BY DEF EpochInv, Before, IdleRefresh, IdleSignal, NewCall
  <2>10. JoinedCallsHaveARefresh
    BY DEF JoinedCallsHaveARefresh, NewCall
  <2> QED BY <2>7, <2>8, <2>9, <2>10 DEF Inv
<1>2. Inv /\ [Next]_vars => Inv'
  <2> SUFFICES ASSUME Inv, [Next]_vars PROVE Inv'
    OBVIOUS
  <2>1. TypeOK /\ Scalars /\ TypesOfTasks /\ Good(machine) /\ ClaimsNamed
    BY DEF Inv, TypeOK, Scalars, TypesOfTasks, Good
  <2>2. EpochStep /\ EndedStep
    BY <2>1, EpochAndEnded DEF TypeOK
  <2>3. MachineStep
    BY <2>1, MachineSteps
  <2>4. Continues(refresh, refresh') \/ Begins(refresh') \/ Over(refresh')
    BY <2>1, RefreshSteps DEF TypesOfTasks
  <2>5. \A s \in Signals : SignalStep(s)
    BY <2>1, SignalSteps DEF TypesOfTasks
  <2>6. \A c \in Calls : CallStep(c)
    BY <2>1, CallSteps DEF TypesOfTasks
  <2>7. /\ Epoch(refresh)
        /\ \A s \in Signals : Epoch(signals[s])
        /\ \A c \in Calls : Epoch(calls[c])
    BY <2>1 DEF TypesOfTasks, Refreshes, SignalTasks, TokenCalls, Epoch
  <2>8. TypeOK'
    <3>1. opEpoch' \in Nat /\ verEpoch' \in Nat
      BY <2>1, <2>2 DEF TypeOK, EpochStep
    <3>2. refresh' \in Refreshes
      BY <2>1, RefreshType DEF TypeOK
    <3>3. signals' \in [Signals -> SignalTasks]
      BY <2>1, SignalsType DEF TypeOK
    <3>4. calls' \in [Calls -> TokenCalls]
      BY <2>1, CallsType DEF TypeOK
    <3>5. tombstone' \in BOOLEAN
      BY <2>1, TombstoneType DEF TypeOK
    <3>6. Scalars'
      BY <2>1, ScalarTypes
    <3>7. Good(machine')
      BY <2>3 DEF MachineStep
    <3> QED BY <3>1, <3>2, <3>3, <3>4, <3>5, <3>6, <3>7 DEF TypeOK, Scalars, Good, Shown
  <2>9. ClaimsNamed'
    BY <2>1, SignalsType DEF TypeOK
  <2>10. SignOutInv'
    BY SignOutFrame, <2>2 DEF Inv, SignOutInv, SignOutStep, EndedStep
  <2>11. EpochInv'
    BY <2>1, <2>2, <2>4, <2>5, <2>6, <2>7, EpochsStay DEF Inv, TypeOK
  <2>12. EndedInv'
    BY <2>1, <2>2, <2>3, <2>4, <2>5, <2>6, <2>7, EndedStays DEF Inv, TypeOK
  <2>13. MaterialInv'
    BY <2>1, <2>2, <2>4, <2>7, SignOutFrame, MaterialFrame, MaterialStays DEF Inv, TypeOK
  <2>14. JoinedCallsHaveARefresh'
    BY <2>1, JoinedStep DEF Inv
  <2> QED BY <2>8, <2>9, <2>10, <2>11, <2>12, <2>13, <2>14 DEF Inv
<1> QED BY <1>1, <1>2, PTL DEF Spec

\* The types of the variables; the machine of the adapter holds a user exactly while
\* the page shows protected content.
THEOREM TypeCorrect == Spec => []TypeOK
BY Invariant, PTL DEF Inv

\* Sign-out wins over every refresh, verification and token call begun before it: no
\* late answer shows protected content again.
THEOREM EndedStaysEnded == Spec => []EndedSessionStaysEnded
<1>1. Inv => EndedSessionStaysEnded
  BY DEF Inv, EndedInv, EndedSessionStaysEnded
<1> QED BY <1>1, Invariant, PTL

\* A completed sign-out leaves no session that a late refresh stored.
THEOREM MaterialIsRemoved == Spec => []SignedOutLeavesNoMaterial
<1>1. Inv => SignedOutLeavesNoMaterial
  BY DEF Inv, MaterialInv, SignedOutLeavesNoMaterial
<1> QED BY <1>1, Invariant, PTL

\* A token call never waits for a refresh that is over.
THEOREM CallsAreNotForgotten == Spec => []JoinedCallsHaveARefresh
BY Invariant, PTL DEF Inv

\* A token leaves only through the last check of getAccessTokenForApiRequest.
LEMMA DeliveryIsChecked ==
    ASSUME TypesOfTasks, [Next]_vars, NEW c \in Calls, Delivers(c)
    PROVE  \E session \in MaybeUser : Deliverable(c, session)
<1>1. calls' # calls
  BY DEF Delivers
<1>2. CASE RefreshAnswered
  <2>1. CASE calls' = calls
    BY <1>1, <2>1
  <2>2. ASSUME NEW ok \in BOOLEAN, Settle(ok) PROVE FALSE
    <3>1. calls[c] \in TokenCalls
      BY DEF TypesOfTasks
    <3> QED BY <2>2, <3>1 DEF Settle, Delivers, TokenCalls
  <2> QED BY <1>2, <2>1, <2>2, RefreshLeavesCalls DEF TypesOfTasks
<1>3. ASSUME NEW t \in Calls, CallMovesOn(t)
      PROVE  \E session \in MaybeUser : Deliverable(c, session)
  <2>1. calls[c] \in TokenCalls /\ calls[t] \in TokenCalls
    BY DEF TypesOfTasks
  <2>2. \A at : CallMoves(t, at) /\ at # "delivered" => FALSE
    BY <2>1 DEF CallMoves, Delivers, TokenCalls, TypesOfTasks
  <2>3. \A at : CallMoves(t, at) => t = c
    BY DEF CallMoves, Delivers, TypesOfTasks
  <2>4. CASE GetAccessToken(t) \/ \E user \in MaybeUser : CallResolves(t, user)
    <3>1. calls'[t].at # "delivered"
      BY <2>1, <2>4 DEF GetAccessToken, CallResolves, TokenCalls, TypesOfTasks
    <3>2. c # t => calls'[c] = calls[c]
      BY <2>4 DEF GetAccessToken, CallResolves, TypesOfTasks
    <3> QED BY <3>1, <3>2 DEF Delivers
  <2>5. ASSUME NEW user \in MaybeUser, NEW life \in Lives, CallReads(t, user, life)
        PROVE  Deliverable(t, user) /\ t = c
    BY <2>2, <2>3, <2>5 DEF CallReads
  <2>6. ASSUME NEW user \in MaybeUser, CallRereads(t, user) PROVE Deliverable(t, user) /\ t = c
    BY <2>2, <2>3, <2>6 DEF CallRereads
  <2>7. CASE CallRereadThrows(t) \/ \E ok \in BOOLEAN : CallDenied(t, ok)
    BY <2>2, <2>7 DEF CallRereadThrows, CallDenied
  <2> QED BY <1>3, <2>4, <2>5, <2>6, <2>7 DEF CallMovesOn, CallAnswered
<1> QED BY <1>1, <1>2, <1>3, CallFrame

\* getAccessTokenForApiRequest hands out a token only for the session, and in the
\* epochs, it was called in.
THEOREM TokensLeaveForTheSession == Spec => TokensAreCurrent
<1>1. Inv /\ [Next]_vars => [\A c \in Calls : Delivers(c) => ended = "no" /\ calls[c].epoch = Now]_vars
  <2> SUFFICES ASSUME Inv, [Next]_vars, NEW c \in Calls, Delivers(c)
               PROVE  ended = "no" /\ calls[c].epoch = Now
    OBVIOUS
  <2>1. PICK session \in MaybeUser : Deliverable(c, session)
    BY DeliveryIsChecked DEF Inv, TypeOK, TypesOfTasks
  <2> QED BY <2>1 DEF Inv, EndedInv, Deliverable, Current, Shown
<1> QED BY <1>1, Invariant, PTL DEF Spec, TokensAreCurrent

\* Whichever tab wrote the tombstone: while it is there the adapter neither becomes
\* authenticated nor hands out a token.
THEOREM TombstoneIsObeyed == Spec => TombstoneDenies
<1>1. Inv /\ [Next]_vars
        => [tombstone => /\ machine'.state = "AUTHENTICATED" => machine.state = "AUTHENTICATED"
                         /\ \A c \in Calls : ~Delivers(c)]_vars
  <2> SUFFICES ASSUME Inv, [Next]_vars, tombstone
               PROVE  /\ machine'.state = "AUTHENTICATED" => machine.state = "AUTHENTICATED"
                      /\ \A c \in Calls : ~Delivers(c)
    OBVIOUS
  <2>1. Good(machine) /\ TypesOfTasks /\ ClaimsNamed
    BY DEF Inv, TypeOK, TypesOfTasks, Good
  <2>2. machine' = machine \/ ~Shown(machine')
    BY <2>1, MachineSteps DEF MachineStep, Vouched
  <2>3. ASSUME NEW c \in Calls, Delivers(c) PROVE FALSE
    <3>1. PICK session \in MaybeUser : Deliverable(c, session)
      BY <2>1, <2>3, DeliveryIsChecked
    <3> QED BY <3>1, Zenon DEF Deliverable
  <2> QED BY <2>2, <2>3 DEF Shown
<1> QED BY <1>1, Invariant, PTL DEF Spec, TombstoneDenies
=============================================================================
