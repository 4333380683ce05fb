------------------------------ MODULE SessionFence -----------------------------
(***************************************************************************)
(* LocalProcessAuthSynchronizationAuthority of                             *)
(* apps/web/src/auth/session-fence.ts: the sign-out generation of every    *)
(* Auth context and the sign-in attempts bound to it, in the memory of one *)
(* server process.  The callback handle, the correlation handle and the    *)
(* binding handle of an attempt are fresh random values handed out once    *)
(* each: the attempt's own name stands for all three.                      *)
(***************************************************************************)
EXTENDS Naturals

CONSTANTS Contexts,       \* Auth-context handles
          Attempts,       \* sign-in attempts
          NoHandle,       \* a cookie that is not there
          MaxGeneration   \* bound on the sign-outs published in a context

ASSUME FenceAssumption == /\ NoHandle \notin Contexts \cup Attempts
                          /\ MaxGeneration \in Nat

VARIABLES contexts,   \* #contexts
          attempts    \* the attempts of every context, with their bindings

authority == <<contexts, attempts>>

Statuses == {"unused", "live", "lost"}

\* A generation of 0 is the source's null where a published one is meant.
ContextRecords == [status : Statuses, generation : 0..MaxGeneration,
                   published : 0..MaxGeneration, reconciled : 0..MaxGeneration,
                   resetPending : BOOLEAN]
AttemptRecords == [status : Statuses, context : Contexts \cup {NoHandle},
                   generation : 0..MaxGeneration, associated : BOOLEAN,
                   bound : BOOLEAN]

NoContext == [status |-> "unused", generation |-> 0, published |-> 0,
              reconciled |-> 0, resetPending |-> FALSE]
NoAttempt == [status |-> "unused", context |-> NoHandle, generation |-> 0,
              associated |-> FALSE, bound |-> FALSE]

FenceTypeOK == /\ contexts \in [Contexts -> ContextRecords]
               /\ attempts \in [Attempts -> AttemptRecords]

FenceInit == /\ contexts = [c \in Contexts |-> NoContext]
             /\ attempts = [a \in Attempts |-> NoAttempt]

-----------------------------------------------------------------------------
Known(c) == c \in Contexts /\ contexts[c].status = "live"

\* A sign-out of the context was published and no sign-in was prepared since.
Outstanding(c) == /\ Known(c)
                  /\ contexts[c].published # 0
                  /\ contexts[c].published = contexts[c].generation
                  /\ contexts[c].reconciled # contexts[c].published

ResetPending(c) == Known(c) /\ contexts[c].resetPending

\* The browser presents a handle this process does not know.
Lost(c) == c # NoHandle /\ ~Known(c)

Admits(c, tombstoned) ==
    tombstoned => Outstanding(c) \/ ResetPending(c) \/ Lost(c)

\* prepareSignIn(handle, tombstoned): attempt a is bound to the generation of
\* context c, which is new when the handle is unknown.
Prepares(handle, tombstoned, c, a) ==
    /\ Admits(handle, tombstoned)
    /\ attempts[a].status = "unused"
    /\ IF Known(handle)
       THEN c = handle /\ UNCHANGED contexts
       ELSE /\ contexts[c].status = "unused"
            /\ contexts' = [contexts EXCEPT ![c] =
                   [NoContext EXCEPT !.status = "live",
                                     !.resetPending = Lost(handle)]]
    /\ attempts' = [attempts EXCEPT ![a] =
           [NoAttempt EXCEPT !.status = "live", !.context = c,
                             !.generation = contexts[c].generation]]

CanReconcile(c, g) == /\ Known(c)
                      /\ contexts[c].generation = g
                      /\ contexts[c].published = g
                      /\ contexts[c].reconciled # g

CanCompleteReset(c) == ResetPending(c) /\ contexts[c].published = 0

Reconciled(c, g) ==
    [contexts EXCEPT ![c] = [@ EXCEPT !.reconciled = g, !.resetPending = FALSE]]
ResetCompleted(c) == [contexts EXCEPT ![c] = [@ EXCEPT !.resetPending = FALSE]]

Advanced(c) ==
    LET next == contexts[c].generation + 1 IN
    [contexts EXCEPT ![c] = [@ EXCEPT !.generation = next, !.published = next]]

\* Fault: an attempt outlives the sign-outs of its context.
FaultyCurrent(c, a) == /\ Known(c)
                       /\ a \in Attempts
                       /\ attempts[a].status = "live"
                       /\ attempts[a].context = c

\* The attempt exists in its context and no sign-out was published since.
Current(c, a) == /\ Known(c)
                 /\ a \in Attempts
                 /\ attempts[a].status = "live"
                 /\ attempts[a].context = c
                 /\ attempts[a].generation = contexts[c].generation

ValidAttempt(c, a) == Current(c, a) /\ attempts[a].associated
ValidBinding(c, b) == Current(c, b) /\ attempts[b].bound

Associated(a) == [attempts EXCEPT ![a].associated = TRUE]
Bound(a) == [attempts EXCEPT ![a].bound = TRUE]

\* invalidateBinding looks in every context.
Unbound(b) == [a \in Attempts |-> IF a = b THEN [attempts[a] EXCEPT !.bound = FALSE]
                                           ELSE attempts[a]]

\* invalidateBindingForAttempt looks only in the context presented.
RolledBack(c, a) == IF Known(c) /\ attempts[a].context = c THEN Unbound(a) ELSE attempts

Abandoned(c, a) == IF attempts[a].context = c
                   THEN [attempts EXCEPT ![a].status = "lost"] ELSE attempts

\* abandonAttemptForCallback keeps an attempt that has a binding.
CallbackAbandoned(c, a) == IF attempts[a].bound THEN attempts ELSE Abandoned(c, a)

\* The process restarts: its maps are gone and no handle is ever issued again.
Forget ==
    /\ contexts' = [c \in Contexts |-> IF Known(c) THEN [NoContext EXCEPT !.status = "lost"]
                                                   ELSE contexts[c]]
    /\ attempts' = [a \in Attempts |-> IF attempts[a].status = "live"
                                       THEN [NoAttempt EXCEPT !.status = "lost"]
                                       ELSE attempts[a]]
=============================================================================
