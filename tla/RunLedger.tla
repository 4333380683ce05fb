----------------------------- MODULE RunLedger -----------------------------
(***************************************************************************)
(* What durable persistence of transitions promises: a run has a ledger of *)
(* producer events that is at every moment one legal lifecycle.  It only   *)
(* grows, each event enters it once, nothing follows a terminal event, and *)
(* a request is acknowledged only when its event is in the ledger.         *)
(***************************************************************************)
EXTENDS Naturals, Sequences

CONSTANTS Requests,
          Start,        \* the state of a new run
          Successors,   \* the transition table
          Terminal,     \* the states that end a run
          Once          \* the states a run enters at most once

VARIABLES ledger,        \* the recorded transitions
          acknowledged   \* the requests whose success has been reported

StateAfter(log, n) == IF n = 0 THEN Start ELSE log[n].to

IsLifecycle(log) ==
    /\ \A i \in DOMAIN log :
          /\ log[i].from = StateAfter(log, i - 1)
          /\ log[i].to \in Successors[log[i].from]
    /\ \A i, j \in DOMAIN log : log[i].to = log[j].to /\ log[i].to \in Once => i = j

EventsAreDistinct(log) ==
    \A i, j \in DOMAIN log : log[i].event = log[j].event => i = j

\* The event of the request, as its producer identifies it.
Records(log, q) ==
    \E i \in DOMAIN log :
        log[i].event = q.event /\ log[i].fingerprint = q.fingerprint

Extends(longer, log) ==
    /\ Len(longer) >= Len(log)
    /\ \A i \in DOMAIN log : longer[i] = log[i]

Init == ledger = << >> /\ acknowledged = {}

\* A transaction records some transitions, or none, and acknowledges requests.
Settle ==
    /\ Extends(ledger', ledger)
    /\ IsLifecycle(ledger') /\ EventsAreDistinct(ledger')
    /\ StateAfter(ledger, Len(ledger)) \in Terminal => ledger' = ledger
    /\ acknowledged \subseteq acknowledged' /\ acknowledged' \subseteq Requests
    /\ \A q \in acknowledged' : Records(ledger', q)

Spec == Init /\ [][Settle]_<<ledger, acknowledged>>
=============================================================================
