---------------------------- MODULE FencedEffects ----------------------------
(***************************************************************************)
(* What the Queue adapter promises its users, without deliveries, controls,*)
(* retries or redrives (CONTRACT-QUEUE-001, sections 2, 6 and 7): per      *)
(* message at most one claimant may produce protected effects, fences only *)
(* grow, authority that is withdrawn is never handed back, and each result *)
(* slot is written once, by the claimant that holds the message.           *)
(***************************************************************************)
EXTENDS Naturals

CONSTANTS Message,  \* the messages work is claimed for
          Slot,     \* the result slots; each belongs to one message
          Result    \* the identities of producer results

VARIABLES issued,   \* the highest fence ever issued
          holder,   \* the fence that holds each message, 0 when none does
          effects   \* the accepted effects, each with the fence it came under

vars == <<issued, holder, effects>>

Init == /\ issued = 0
        /\ holder = [m \in Message |-> 0]
        /\ effects = {}

Grant(m) == /\ issued' = issued + 1
            /\ holder' = [holder EXCEPT ![m] = issued + 1]
            /\ UNCHANGED effects

Withdraw(M) == /\ holder' = [m \in Message |-> IF m \in M THEN 0 ELSE holder[m]]
               /\ UNCHANGED <<issued, effects>>

Commit(s, r) == /\ holder[s.message] # 0
                /\ \A e \in effects : e.slot # s /\ e.result # r
                /\ effects' = effects \cup
                      {[slot |-> s, result |-> r, fence |-> holder[s.message]]}
                /\ UNCHANGED <<issued, holder>>

Next == \/ \E m \in Message : Grant(m)
        \/ \E M \in SUBSET Message : Withdraw(M)
        \/ \E s \in Slot, r \in Result : Commit(s, r)

Spec == Init /\ [][Next]_vars

==============================================================================
