--------------------------- MODULE AuthStateMachine ---------------------------
(***************************************************************************)
(* The session state machine every Auth runtime of the web application     *)
(* drives: AuthStateMachine of apps/web/src/auth/state-machine.ts.  It is  *)
(* a value; the runtimes hold one and replace it by Transition.            *)
(***************************************************************************)
CONSTANTS Users,   \* user references
          Nobody   \* null

ASSUME MachineAssumption == Nobody \notin Users

States ==
    {"INITIALIZING", "UNAUTHENTICATED", "SIGN_IN_PENDING", "CALLBACK_PROCESSING",
     "AUTHENTICATED", "REFRESH_PENDING", "SIGN_OUT_PENDING", "RECOVERABLE_ERROR",
     "TERMINAL_SESSION_ERROR"}

Modes == {"PROVEN_CREDENTIAL", "UNPROVEN_CREDENTIAL"}
NoMode == "no_mode"

Machines == [state : States, user : Users \cup {Nobody}, mode : Modes \cup {NoMode}]

\* The table TRANSITIONS, as a set of edges.
Transitions ==
    LET From(s, targets) == {s} \X targets
        Failing == {"TERMINAL_SESSION_ERROR", "SIGN_OUT_PENDING"}
        Settled == {"AUTHENTICATED", "UNAUTHENTICATED"}
    IN  From("INITIALIZING", Settled \cup Failing \cup {"CALLBACK_PROCESSING"})
          \cup From("UNAUTHENTICATED",
                    {"SIGN_IN_PENDING", "CALLBACK_PROCESSING", "INITIALIZING", "AUTHENTICATED"})
          \cup From("SIGN_IN_PENDING",
                    Failing \cup {"CALLBACK_PROCESSING", "UNAUTHENTICATED", "RECOVERABLE_ERROR"})
          \cup From("CALLBACK_PROCESSING", Settled \cup Failing \cup {"RECOVERABLE_ERROR"})
          \cup From("AUTHENTICATED",
                    Failing \cup {"INITIALIZING", "CALLBACK_PROCESSING", "REFRESH_PENDING",
                                  "UNAUTHENTICATED"})
          \cup From("REFRESH_PENDING", Settled \cup Failing \cup {"RECOVERABLE_ERROR"})
          \cup From("SIGN_OUT_PENDING", {"UNAUTHENTICATED"})
          \cup From("RECOVERABLE_ERROR",
                    Settled \cup {"SIGN_IN_PENDING", "CALLBACK_PROCESSING", "INITIALIZING",
                                  "SIGN_OUT_PENDING"})
          \cup From("TERMINAL_SESSION_ERROR",
                    Settled \cup {"INITIALIZING", "SIGN_IN_PENDING", "CALLBACK_PROCESSING",
                                  "SIGN_OUT_PENDING"})

Start == [state |-> "INITIALIZING", user |-> Nobody, mode |-> NoMode]

\* What an invalid transition leaves behind, beside the exception it throws.
Terminal == [state |-> "TERMINAL_SESSION_ERROR", user |-> Nobody, mode |-> NoMode]

\* snapshot.canRenderProtectedContent
Shown(m) == \/ m.state = "AUTHENTICATED"
            \/ m.state = "REFRESH_PENDING" /\ m.mode = "PROVEN_CREDENTIAL"

Allowed(m, next) == next = m.state \/ <<m.state, next>> \in Transitions

\* transition(next): throws exactly when the step is not Allowed.
Move(m, next) ==
    IF next = m.state THEN m
    ELSE IF Allowed(m, next) THEN [state |-> next, user |-> Nobody, mode |-> NoMode]
    ELSE Terminal

\* transition("AUTHENTICATED", { userReference })
Authenticate(m, user) ==
    IF m.state = "AUTHENTICATED" \/ ~Allowed(m, "AUTHENTICATED")
    THEN Move(m, "AUTHENTICATED")
    ELSE [state |-> "AUTHENTICATED", user |-> user, mode |-> NoMode]

\* transition("REFRESH_PENDING", { refreshMode, userReference })
AwaitRefresh(m, user, mode) ==
    IF m.state = "REFRESH_PENDING"
    THEN IF mode = "UNPROVEN_CREDENTIAL" THEN [m EXCEPT !.mode = mode, !.user = Nobody] ELSE m
    ELSE IF ~Allowed(m, "REFRESH_PENDING") THEN Terminal
    ELSE [state |-> "REFRESH_PENDING", mode |-> mode,
          user |-> IF mode = "PROVEN_CREDENTIAL" THEN user ELSE Nobody]
=============================================================================
