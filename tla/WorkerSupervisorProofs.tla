----------------------- MODULE WorkerSupervisorProofs -----------------------
(***************************************************************************)
(* Proofs about WorkerSupervisor for every set of descendants, every       *)
(* request, pipe capacity and word size.                                   *)
(***************************************************************************)
EXTENDS WorkerSupervisor, SequenceTheorems, TLAPS

(* Appending a failure *)

LEMMA FailureKinds ==
    /\ "SpawnFailure" \in Failure /\ "NonZeroExit" \in Failure /\ "Timeout" \in Failure
    /\ "Cancelled" \in Failure /\ "WaitFailure" \in Failure
    /\ "OutputCaptureFailure" \in Failure /\ "TerminationFailure" \in Failure
BY DEF Failure

LEMMA NoFailure == <<>> \in Seq(Failure)
OBVIOUS

LEMMA OneFailure == Append(<<>>, "SpawnFailure") = <<"SpawnFailure">>
OBVIOUS

LEMMA AppendTyping ==
    ASSUME NEW fs \in Seq(Failure), NEW f \in Failure
    PROVE  Append(fs, f) \in Seq(Failure)
OBVIOUS

LEMMA AppendFailure ==
    ASSUME NEW fs \in Seq(Failure), NEW f \in Failure
    PROVE  /\ Append(fs, f) \in Seq(Failure)
           /\ Append(fs, f) # <<>>
           /\ {Append(fs, f)[i] : i \in DOMAIN Append(fs, f)}
                 = {fs[i] : i \in DOMAIN fs} \cup {f}
           /\ fs = <<>> => Head(Append(fs, f)) = f
           /\ fs # <<>> => Head(Append(fs, f)) = Head(fs)
<1> DEFINE gs == Append(fs, f)
<1>1. gs \in Seq(Failure) /\ gs # <<>> /\ Len(gs) = Len(fs) + 1
  BY AppendProperties
<1>2. /\ Len(fs) \in Nat
      /\ DOMAIN fs = 1 .. Len(fs) /\ DOMAIN gs = 1 .. Len(fs) + 1
  BY <1>1, LenProperties
<1>3. /\ \A i \in 1 .. Len(fs) : gs[i] = fs[i]
      /\ gs[Len(fs) + 1] = f
  BY AppendProperties
<1>4. {gs[i] : i \in DOMAIN gs} = {fs[i] : i \in DOMAIN fs} \cup {f}
  <2> HIDE DEF gs
  <2> QED BY <1>2, <1>3
<1>5. Head(gs) = gs[1] /\ (fs # <<>> => Head(fs) = fs[1] /\ Len(fs) >= 1)
  BY <1>1
<1>6. fs = <<>> => Len(fs) = 0
  OBVIOUS
<1> HIDE DEF gs
<1>7. fs = <<>> => Head(gs) = f
  BY <1>3, <1>5, <1>6
<1>8. fs # <<>> => Head(gs) = Head(fs)
  BY <1>2, <1>3, <1>5
<1> QED BY <1>1, <1>4, <1>7, <1>8 DEF gs

----------------------------------------------------------------------------
(* Types *)

\* The variables hold values of their kinds: the type invariant of the runs, for
\* every value of the constants.
LEMMA OutcomeTyping ==
    ASSUME NEW exit \in ProcessExit, NEW why \in Termination \cup {"none"},
           NEW code \in {"zero", "nonzero", "none"}, NEW cpu \in BOOLEAN
    PROVE  Outcome(exit, why, code, cpu) \in Outcomes
BY DEF Outcome, Outcomes

LEMMA Kinds ==
    /\ {"NeverStarted", "ExitedWithCode", "ExitedWithoutCode", "TerminatedBySupervisor"}
         \subseteq ProcessExit
    /\ {"Timeout", "Cancellation", "WaitFailure", "OutputCaptureFailure"}
         \subseteq Termination
    /\ \A st : Code(st) \in {"zero", "nonzero", "none"}
    /\ "signal" \in Status
BY DEF ProcessExit, Termination, Code, Status

LEMMA TypingInit == Init => TypeOK
<1> SUFFICES ASSUME Init PROVE TypeOK
  OBVIOUS
<1>1. outcome \in Outcomes
  <2>1. "Undecided" \in ProcessExit
    BY DEF ProcessExit
  <2> QED BY <2>1, OutcomeTyping DEF Init, Undecided
<1>2. request \in Request /\ PipeCapacity \in Nat
  BY SupervisorAssumption DEF Init
<1>3. /\ writers \in [Streams -> SUBSET alive]
      /\ pipe \in [Streams -> 0 .. PipeCapacity]
      /\ reader \in [Streams -> {"pending", "reading"} \cup Ended]
  BY <1>2 DEF Init
<1>4. failures \in Seq(Failure)
  BY NoFailure DEF Init
<1>5. /\ written \in [Streams -> Nat]
      /\ observed \in [Streams -> Nat] /\ captured \in [Streams -> Nat]
  BY DEF Init
<1> QED BY <1>1, <1>2, <1>3, <1>4, <1>5 DEF Init, TypeOK, Steps

LEMMA TypingSupervise == TypeOK /\ Supervise => TypeOK'
<1> SUFFICES ASSUME TypeOK, Supervise PROVE TypeOK'
  OBVIOUS
<1> USE DEF TypeOK, Steps
<1>1. CASE Deny
  BY <1>1, AppendTyping, FailureKinds, Kinds, OutcomeTyping
  DEF Deny, fail_closed_before_spawn, Fails, target, capture, signals
<1>2. CASE Admit
  BY <1>2 DEF Admit, target, capture, signals
<1>3. CASE SpawnFails
  BY <1>3, AppendTyping, FailureKinds, Kinds, OutcomeTyping
  DEF SpawnFails, fail_closed_before_spawn, Fails, target, capture, signals
<1>4. CASE Spawn
  <2>1. alive' = {Child} /\ group' = {Child} /\ writers' \in [Streams -> SUBSET alive']
    BY <1>4 DEF Spawn
  <2> QED BY <1>4, <2>1 DEF Spawn, capture, signals, Processes
<1>5. ASSUME NEW s \in Streams, StartReader(s) PROVE TypeOK'
  BY <1>5, AppendTyping, FailureKinds, Kinds
  DEF StartReader, AfterStart, Streams, Ended, target, signals
<1>6. CASE PollCancellation
  BY <1>6, AppendTyping, FailureKinds, Kinds, OutcomeTyping
  DEF PollCancellation, Terminate, MoveTo, Fails, target, capture, signals
<1>7. CASE PollTimeout
  BY <1>7, AppendTyping, FailureKinds, Kinds, OutcomeTyping
  DEF PollTimeout, Terminate, MoveTo, Fails, target, capture, signals
<1>8. CASE TryWait
  BY <1>8, AppendTyping, FailureKinds, Kinds, OutcomeTyping
  DEF TryWait, Completed, Terminate, MoveTo, Fails, target, capture, signals
<1>9. CASE Wake
  BY <1>9 DEF Wake, MoveTo, target, capture, signals
<1>10. CASE KillGroup
  BY <1>10, AppendTyping, FailureKinds, Kinds, OutcomeTyping DEF KillGroup, Stop, Fails, target, capture, signals
<1>11. CASE KillChild
  BY <1>11, AppendTyping, FailureKinds, Kinds, OutcomeTyping DEF KillChild, Stop, Fails, target, capture, signals
<1>12. CASE Reap
  BY <1>12, AppendTyping, FailureKinds, Kinds, OutcomeTyping DEF Reap, Fails, target, capture, signals
<1>13. ASSUME NEW s \in Streams, FinishReader(s) PROVE TypeOK'
  BY <1>13, AppendTyping, FailureKinds
  DEF FinishReader, Streams, AfterJoin, target, capture, signals
<1> QED
  BY <1>1, <1>2, <1>3, <1>4, <1>5, <1>6, <1>7, <1>8, <1>9, <1>10, <1>11, <1>12, <1>13
  DEF Supervise

LEMMA TypingOthers == TypeOK /\ [Next]_vars => TypeOK' \/ Supervise
<1> SUFFICES ASSUME TypeOK, [Next]_vars PROVE TypeOK' \/ Supervise
  OBVIOUS
<1> USE SupervisorAssumption DEF TypeOK, Request
<1>1. ASSUME NEW s \in Streams, Read(s) PROVE TypeOK'
  BY <1>1 DEF Read, Least, SaturatingSub, supervision, target, signals
<1>2. ASSUME NEW s \in Streams, ReachEnd(s) \/ BreakReader(s) PROVE TypeOK'
  BY <1>2 DEF ReachEnd, BreakReader, EndReader, Ended, supervision, target, signals
<1>3. ASSUME NEW p \in Processes, Exit(p) PROVE TypeOK'
  BY <1>3 DEF Exit, Stop, Environment, supervision, capture, signals
<1>4. ASSUME NEW p \in Processes, NEW s \in Streams, Write(p, s) PROVE TypeOK'
  BY <1>4 DEF Write, Environment, supervision, capture, signals
<1>5. ASSUME NEW p \in Processes, NEW s \in Streams, Close(p, s) PROVE TypeOK'
  BY <1>5 DEF Close, Environment, supervision, capture, signals
<1>6. ASSUME NEW p \in Processes, NEW d \in Descendants, Fork(p, d) PROVE TypeOK'
  BY <1>6 DEF Fork, Environment, supervision, capture, signals, Processes
<1>7. ASSUME NEW d \in Descendants, LeaveGroup(d) PROVE TypeOK'
  BY <1>7 DEF LeaveGroup, Environment, supervision, capture, signals
<1>8. CASE Cancel \/ Elapse
  BY <1>8 DEF Cancel, Elapse, supervision, target, capture
<1>9. CASE UNCHANGED vars
  BY <1>9 DEF vars, supervision, target, capture, signals
<1> QED
  BY <1>1, <1>2, <1>3, <1>4, <1>5, <1>6, <1>7, <1>8, <1>9 DEF Next, Capture, Returned

LEMMA Typing == TypeOK /\ [Next]_vars => TypeOK'
BY TypingSupervise, TypingOthers

\* Every variable holds a value of its kind, whatever the request and the target.
THEOREM TypeCorrect == Spec => []TypeOK
<1>1. TypeOK /\ [Next]_vars => TypeOK'
  BY Typing
<1> QED
  BY <1>1, TypingInit, PTL DEF Spec

----------------------------------------------------------------------------
(* Steps that are not the supervising thread's *)

Surroundings ==
    \/ \E s \in Streams : Capture(s) \/ BreakReader(s)
    \/ \E p \in Processes : Exit(p) \/ \E s \in Streams : Write(p, s) \/ Close(p, s)
    \/ \E p \in Processes, d \in Descendants : Fork(p, d)
    \/ \E d \in Descendants : LeaveGroup(d)
    \/ Cancel \/ Elapse \/ UNCHANGED vars

LEMMA Split == [Next]_vars => Supervise \/ Surroundings
BY Zenon DEF Next, Surroundings, Returned

\* What they leave alone: the thread's own state; and what has gone stays gone.
Undisturbed ==
    /\ UNCHANGED <<request, at, failures, reason, outcome, reaped>>
    /\ token => token'
    /\ due => due'
    /\ alive = {} => alive' = {}
    /\ Child \notin alive => Child \notin alive'
    /\ status' = status \/ (Child \in alive /\ Child \notin alive')
    /\ group = {} => group' = {}
    /\ \A s \in Streams : writers[s] = {} => writers'[s] = {}

LEMMA SurroundingsFrame == TypeOK /\ Surroundings => Undisturbed
<1> SUFFICES ASSUME TypeOK, Surroundings PROVE Undisturbed
  OBVIOUS
<1> USE DEF Undisturbed, supervision
<1>1. ASSUME NEW s \in Streams, Capture(s) \/ BreakReader(s) PROVE Undisturbed
  BY <1>1 DEF Capture, Read, ReachEnd, BreakReader, EndReader, target, signals
<1>2. ASSUME NEW p \in Processes, Exit(p) PROVE Undisturbed
  BY <1>2 DEF Exit, Stop, Environment, signals
<1>3. ASSUME NEW p \in Processes, NEW s \in Streams, Write(p, s) \/ Close(p, s)
      PROVE  Undisturbed
  BY <1>3 DEF Write, Close, Environment, signals, TypeOK
<1>4. ASSUME NEW p \in Processes, NEW d \in Descendants, Fork(p, d) PROVE Undisturbed
  BY <1>4, SupervisorAssumption DEF Fork, Environment, signals
<1>5. ASSUME NEW d \in Descendants, LeaveGroup(d) PROVE Undisturbed
  BY <1>5 DEF LeaveGroup, Environment, signals
<1>6. CASE Cancel \/ Elapse
  BY <1>6 DEF Cancel, Elapse, target
<1>7. CASE UNCHANGED vars
  BY <1>7 DEF vars, target, signals
<1> QED BY <1>1, <1>2, <1>3, <1>4, <1>5, <1>6, <1>7 DEF Surroundings

\* The facts about failures every step of the thread is judged by.
LEMMA FailsReports ==
    ASSUME TypeOK, NEW f \in Failure, Fails(f)
    PROVE  /\ failures' # <<>>
           /\ Reported' = Reported \cup {f}
           /\ failures = <<>> => Head(failures') = f
           /\ failures # <<>> => Head(failures') = Head(failures)
<1>1. failures \in Seq(Failure) /\ failures' = Append(failures, f)
  BY DEF TypeOK, Fails
<1>2. Reported' = {failures'[i] : i \in DOMAIN failures'}
  BY DEF Reported
<1>3. {Append(failures, f)[i] : i \in DOMAIN Append(failures, f)}
        = {failures[i] : i \in DOMAIN failures} \cup {f}
  BY <1>1, AppendFailure, Zenon
<1>4. {failures'[i] : i \in DOMAIN failures'}
        = {Append(failures, f)[i] : i \in DOMAIN Append(failures, f)}
  BY <1>1, Zenon
<1>5. Reported' = Reported \cup {f}
  BY <1>2, <1>3, <1>4, Zenon DEF Reported
<1> QED BY <1>1, <1>5, AppendFailure, Zenon

LEMMA KeptFailures == failures' = failures => Reported' = Reported
BY DEF Reported

----------------------------------------------------------------------------
(* Control *)

Finishing == {"join_stdout", "join_stderr", "returned"}

\* What the place of the thread says of the outcome, the child and its PID.
ControlInv ==
    /\ at \in {"prepare", "spawn"} => alive = {} /\ status = "none" /\ failures = <<>>
    /\ outcome.exit = "Undecided" <=> at \notin Finishing
    /\ outcome.exit = "NeverStarted" =>
           at = "returned" /\ alive = {} /\ failures = <<"SpawnFailure">>
    /\ reaped => at \in Finishing
    /\ status # "none" => Child \notin alive
    /\ at # "prepare" /\ outcome.exit # "NeverStarted" => ~ Denied

LEMMA ControlInit == Init => ControlInv
BY DEF Init, ControlInv, Undecided, Outcome, Finishing

LEMMA ControlStep == TypeOK /\ ControlInv /\ [Next]_vars => ControlInv'
<1> SUFFICES ASSUME TypeOK, ControlInv, [Next]_vars PROVE ControlInv'
  OBVIOUS
<1> USE DEF ControlInv, Finishing, Outcome
<1>1. CASE Deny \/ SpawnFails
  <2>1. failures' = <<"SpawnFailure">>
    <3>1. failures = <<>> /\ failures' = Append(failures, "SpawnFailure")
      BY <1>1 DEF Deny, SpawnFails, fail_closed_before_spawn, Fails
    <3> QED BY <3>1, OneFailure, Zenon
  <2>2. /\ at' = "returned" /\ outcome'.exit = "NeverStarted"
        /\ alive' = alive /\ status' = status /\ reaped' = reaped
    BY <1>1 DEF Deny, SpawnFails, fail_closed_before_spawn, target
  <2>3. alive = {} /\ status = "none"
    BY <1>1 DEF Deny, SpawnFails
  <2> QED BY <2>1, <2>2, <2>3
<1>2. CASE Admit \/ Spawn
  BY <1>2 DEF Admit, Spawn, target, Denied
<1>3. ASSUME NEW s \in Streams, StartReader(s) PROVE ControlInv'
  BY <1>3 DEF StartReader, StartOf, AfterStart, Streams, target, Denied
<1>4. CASE PollCancellation \/ PollTimeout \/ Wake
  BY <1>4 DEF PollCancellation, PollTimeout, Wake, Terminate, MoveTo, target, Denied
<1>5. CASE TryWait
  BY <1>5 DEF TryWait, Completed, Terminate, MoveTo, target, Denied
<1>6. CASE KillGroup \/ KillChild
  BY <1>6 DEF KillGroup, KillChild, Stop, target, Denied
<1>7. CASE Reap
  BY <1>7 DEF Reap, target, Denied
<1>8. ASSUME NEW s \in Streams, FinishReader(s) PROVE ControlInv'
  BY <1>8 DEF FinishReader, JoinOf, AfterJoin, Streams, target, Denied
<1>9. CASE Surroundings
  BY <1>9, SurroundingsFrame DEF Undisturbed, Denied
<1> QED
  BY <1>1, <1>2, <1>3, <1>4, <1>5, <1>6, <1>7, <1>8, <1>9, Split DEF Supervise

----------------------------------------------------------------------------
(* Causes *)

Polling == {"poll_cancellation", "poll_timeout", "try_wait", "sleep"}
Killing == {"kill_group", "kill_child", "wait"}

\* f is the failure that stands for termination why, and its condition is real.
Caused(why, f) ==
    \/ why = "Timeout" /\ f = "Timeout" /\ due
    \/ why = "Cancellation" /\ f = "Cancelled" /\ token
    \/ why \in {"WaitFailure", "OutputCaptureFailure"} /\ f = why

\* The first failure is the cause of what the thread is doing or has decided.
CauseInv ==
    /\ at \in Polling \cup {"start_stdout"} => failures = <<>>
    /\ at = "start_stderr" => failures = <<>> \/ Head(failures) = "OutputCaptureFailure"
    /\ at \in Killing => failures # <<>> /\ Caused(reason, Head(failures))
    /\ outcome.exit = "TerminatedBySupervisor" =>
          /\ failures # <<>> /\ Caused(outcome.reason, Head(failures))
          /\ reaped \/ "WaitFailure" \in Reported
    /\ outcome.exit = "ExitedWithCode" =>
          /\ reaped /\ status = outcome.code
          /\ \/ status = "nonzero" /\ failures # <<>> /\ Head(failures) = "NonZeroExit"
             \/ status = "zero" /\ (failures = <<>> \/ Head(failures) = "OutputCaptureFailure")
    /\ outcome.exit = "ExitedWithoutCode" =>
          /\ reaped /\ status \notin {"zero", "nonzero", "none"}
          /\ failures # <<>> /\ Head(failures) = "NonZeroExit"

LEMMA CauseInit == Init => CauseInv
BY DEF Init, CauseInv, Undecided, Outcome, Polling, Killing

\* A later failure does not displace the first one.
LEMMA LaterFailure ==
    ASSUME TypeOK, CauseInv, NEW f \in Failure, Fails(f), failures # <<>>
    PROVE  failures' # <<>> /\ Head(failures') = Head(failures)
BY FailsReports

LEMMA CauseStep == TypeOK /\ ControlInv /\ CauseInv /\ [Next]_vars => CauseInv'
<1> SUFFICES ASSUME TypeOK, ControlInv, CauseInv, [Next]_vars PROVE CauseInv'
  OBVIOUS
<1> USE FailureKinds DEF CauseInv, Polling, Killing, Caused
<1>1. CASE Deny \/ SpawnFails
  BY <1>1 DEF Deny, SpawnFails, fail_closed_before_spawn, Outcome
<1>2. CASE Admit \/ Spawn
  BY <1>2 DEF Admit, Spawn, ControlInv, Finishing
<1>3. ASSUME NEW s \in Streams, StartReader(s) PROVE CauseInv'
  <2>1. outcome' = outcome /\ outcome.exit = "Undecided"
    BY <1>3 DEF StartReader, StartOf, ControlInv, Streams, Finishing
  <2>2. failures' # failures => Fails("OutputCaptureFailure")
    BY <1>3 DEF StartReader, Fails
  <2>3. /\ at \in {"start_stdout", "start_stderr"}
        /\ failures = <<>> \/ Head(failures) = "OutputCaptureFailure"
    BY <1>3 DEF StartReader, StartOf, Streams
  <2>4. failures' = <<>> \/ (failures' # <<>> /\ Head(failures') = "OutputCaptureFailure")
    BY <2>2, <2>3, FailsReports
  <2>5. /\ at' = AfterStart(s, failures')
        /\ at' = "kill_group" => reason' = "OutputCaptureFailure"
    BY <1>3 DEF StartReader
  <2> QED BY <2>1, <2>4, <2>5 DEF AfterStart
<1>4. CASE PollCancellation \/ PollTimeout \/ Wake
  <2>1. failures = <<>> /\ outcome' = outcome /\ outcome.exit = "Undecided"
    BY <1>4 DEF PollCancellation, PollTimeout, Wake, Terminate, MoveTo, ControlInv, Finishing
  <2>2. /\ token' = token /\ due' = due
        /\ \/ at' \in Polling /\ failures' = failures
           \/ at' = "kill_group" /\ token /\ Fails("Cancelled") /\ reason' = "Cancellation"
           \/ at' = "kill_group" /\ due /\ Fails("Timeout") /\ reason' = "Timeout"
    BY <1>4 DEF PollCancellation, PollTimeout, Wake, Terminate, MoveTo, signals
  <2> QED BY <2>1, <2>2, FailsReports
<1>5. CASE TryWait
  <2>1. failures = <<>> /\ outcome.exit = "Undecided"
    BY <1>5 DEF TryWait, ControlInv, Finishing
  <2>2. CASE Terminate("WaitFailure", "WaitFailure")
    BY <2>1, <2>2, FailsReports DEF Terminate
  <2>3. CASE MoveTo("sleep")
    BY <2>1, <2>3 DEF MoveTo
  <2>4. CASE Completed
    <3>1. /\ at' = "join_stdout" /\ reaped' /\ status' = status /\ status # "none"
          /\ status = "zero" => failures' = <<>>
          /\ status # "zero" => Fails("NonZeroExit")
      BY <2>1, <2>4 DEF Completed, Fails, target
    <3>2. status # "zero" => failures' # <<>> /\ Head(failures') = "NonZeroExit"
      BY <2>1, <3>1, FailsReports
    <3>3. \/ /\ status \in {"zero", "nonzero"}
             /\ outcome'.exit = "ExitedWithCode" /\ outcome'.code = status
          \/ status \notin {"zero", "nonzero"} /\ outcome'.exit = "ExitedWithoutCode"
      BY <2>4 DEF Completed, Outcome, Code
    <3> QED BY <3>1, <3>2, <3>3
  <2> QED BY <1>5, <2>2, <2>3, <2>4 DEF TryWait
<1>6. CASE KillGroup \/ KillChild
  <2>1. /\ failures # <<>> /\ Caused(reason, Head(failures)) /\ outcome.exit = "Undecided"
        /\ outcome' = outcome /\ reason' = reason /\ at' \in Killing
        /\ token' = token /\ due' = due
        /\ failures' = failures \/ Fails("TerminationFailure")
    BY <1>6 DEF KillGroup, KillChild, ControlInv, Finishing, signals
  <2>2. failures' # <<>> /\ Head(failures') = Head(failures)
    BY <2>1, LaterFailure
  <2> QED BY <2>1, <2>2
<1>7. CASE Reap
  <2>1. /\ failures # <<>> /\ Caused(reason, Head(failures))
        /\ outcome'.exit = "TerminatedBySupervisor" /\ outcome'.reason = reason
        /\ at' = "join_stdout" /\ token' = token /\ due' = due
        /\ (failures' = failures /\ reaped') \/ Fails("WaitFailure")
    BY <1>7 DEF Reap, Outcome, signals
  <2>2. failures' # <<>> /\ Head(failures') = Head(failures)
    BY <2>1, LaterFailure
  <2>3. reaped' \/ "WaitFailure" \in Reported'
    BY <2>1, FailsReports
  <2> QED BY <2>1, <2>2, <2>3
<1>8. ASSUME NEW s \in Streams, FinishReader(s) PROVE CauseInv'
  <2>1. /\ at' \in Finishing /\ outcome' = outcome /\ reaped' = reaped /\ status' = status
        /\ token' = token /\ due' = due
        /\ failures' = failures \/ Fails("OutputCaptureFailure")
    BY <1>8 DEF FinishReader, AfterJoin, Streams, Finishing, Fails, target, signals
  <2>2. failures # <<>> => failures' # <<>> /\ Head(failures') = Head(failures)
    BY <2>1, LaterFailure
  <2>3. failures = <<>> => failures' = <<>> \/ Head(failures') = "OutputCaptureFailure"
    BY <2>1, FailsReports
  <2>4. "WaitFailure" \in Reported => "WaitFailure" \in Reported'
    BY <2>1, FailsReports, KeptFailures
  <2> QED BY <2>1, <2>2, <2>3, <2>4 DEF Finishing
<1>9. CASE Surroundings
  BY <1>9, SurroundingsFrame, KeptFailures DEF Undisturbed, ControlInv
<1> QED
  BY <1>1, <1>2, <1>3, <1>4, <1>5, <1>6, <1>7, <1>8, <1>9, Split DEF Supervise

----------------------------------------------------------------------------
(* The process group *)

GroupInv ==
    /\ at = "kill_child" => "TerminationFailure" \in Reported
    /\ at = "wait" \/ outcome.exit = "TerminatedBySupervisor" =>
          group = {} \/ "TerminationFailure" \in Reported

LEMMA GroupInit == Init => GroupInv
BY DEF Init, GroupInv, Undecided, Outcome

LEMMA GroupStep == TypeOK /\ ControlInv /\ GroupInv /\ [Next]_vars => GroupInv'
<1> SUFFICES ASSUME TypeOK, ControlInv, GroupInv, [Next]_vars PROVE GroupInv'
  OBVIOUS
<1> USE FailureKinds DEF GroupInv
<1>1. CASE Deny \/ SpawnFails
  BY <1>1 DEF Deny, SpawnFails, fail_closed_before_spawn, Outcome
<1>2. CASE Admit \/ Spawn
  BY <1>2 DEF Admit, Spawn, ControlInv, Finishing
<1>3. ASSUME NEW s \in Streams, StartReader(s) PROVE GroupInv'
  BY <1>3 DEF StartReader, StartOf, AfterStart, Streams, ControlInv, Finishing
<1>4. CASE PollCancellation \/ PollTimeout \/ Wake
  BY <1>4 DEF PollCancellation, PollTimeout, Wake, Terminate, MoveTo, ControlInv, Finishing
<1>5. CASE TryWait
  BY <1>5 DEF TryWait, Completed, Terminate, MoveTo, Outcome, ControlInv, Finishing
<1>6. CASE KillGroup
  <2>1. \/ at' = "wait" /\ group' = {}
        \/ at' = "kill_child" /\ Fails("TerminationFailure")
    BY <1>6 DEF KillGroup, Stop
  <2>2. outcome' = outcome /\ outcome.exit = "Undecided"
    BY <1>6 DEF KillGroup, ControlInv, Finishing
  <2> QED BY <2>1, <2>2, FailsReports
<1>7. CASE KillChild
  <2>1. failures' = failures \/ Fails("TerminationFailure")
    BY <1>7 DEF KillChild
  <2>2. "TerminationFailure" \in Reported'
    BY <1>7, <2>1, FailsReports, KeptFailures DEF KillChild
  <2> QED BY <1>7, <2>2 DEF KillChild
<1>8. CASE Reap
  <2>1. /\ at = "wait" /\ at' = "join_stdout" /\ group' = group
        /\ failures' = failures \/ Fails("WaitFailure")
    BY <1>8 DEF Reap, target
  <2> QED BY <2>1, FailsReports, KeptFailures
<1>9. ASSUME NEW s \in Streams, FinishReader(s) PROVE GroupInv'
  <2>1. /\ at' \in Finishing /\ outcome' = outcome /\ group' = group
        /\ failures' = failures \/ Fails("OutputCaptureFailure")
    BY <1>9 DEF FinishReader, AfterJoin, Streams, Finishing, Fails, target
  <2> QED BY <2>1, FailsReports, KeptFailures DEF Finishing
<1>10. CASE Surroundings
  BY <1>10, SurroundingsFrame, KeptFailures DEF Undisturbed
<1> QED
  BY <1>1, <1>2, <1>3, <1>4, <1>5, <1>6, <1>7, <1>8, <1>9, <1>10, Split DEF Supervise

----------------------------------------------------------------------------
(* Capture *)

\* The reader of s has ended and its failure, if any, is in the answer.
Settled(s) ==
    \/ reader[s] = "eof"
    \/ reader[s] \in Ended /\ "OutputCaptureFailure" \in Reported

BeforeStart(s) ==
    {"prepare", "spawn", "start_stdout"} \cup (IF s = "stderr" THEN {"start_stderr"} ELSE {})

\* Nothing is lost between the writers and the capture.
Accounted(s) ==
    /\ reader[s] \in {"pending", "reading"} => written[s] = observed[s] + pipe[s]
    /\ reader[s] = "eof" => written[s] = observed[s] /\ writers[s] = {}
    /\ captured[s] = Least(observed[s], request.limit[s])

Followed(s) ==
    /\ reader[s] = "failed" => "OutputCaptureFailure" \in Reported
    /\ reader[s] = "pending" <=> at \in BeforeStart(s) \/ outcome.exit = "NeverStarted"

CaptureInv ==
    /\ \A s \in Streams : Accounted(s) /\ Followed(s)
    /\ at = "join_stderr" => Settled("stdout")
    /\ at = "returned" /\ outcome.exit # "NeverStarted" =>
          Settled("stdout") /\ Settled("stderr")

LEMMA CaptureInit == Init => CaptureInv
<1> SUFFICES ASSUME Init PROVE CaptureInv
  OBVIOUS
<1>1. \A s \in Streams : request.limit[s] \in Nat
  BY SupervisorAssumption DEF Init, Request
<1> QED
  BY <1>1 DEF Init, CaptureInv, Accounted, Followed, BeforeStart, Settled, Undecided, Outcome,
              Least, Streams

\* Reports accumulate.
LEMMA ReportsStay ==
    ASSUME TypeOK, Supervise
    PROVE  Reported \subseteq Reported'
<1>1. failures' = failures \/ \E f \in Failure : Fails(f)
  BY FailureKinds
  DEF Supervise, Deny, Admit, SpawnFails, fail_closed_before_spawn, Spawn, PollCancellation,
      PollTimeout, TryWait, Completed, Wake, Terminate, MoveTo, KillGroup, KillChild, Reap,
      StartReader, FinishReader, Fails
<1> QED BY <1>1, FailsReports, KeptFailures

LEMMA AccountedStep ==
    TypeOK /\ CaptureInv /\ [Next]_vars => \A s \in Streams : Accounted(s)'
<1> SUFFICES ASSUME TypeOK, CaptureInv, [Next]_vars, NEW s \in Streams
             PROVE  Accounted(s)'
  OBVIOUS
<1> USE DEF Accounted
<1>0. /\ Accounted(s)
      /\ written[s] \in Nat /\ observed[s] \in Nat /\ captured[s] \in Nat
      /\ pipe[s] \in Nat /\ request.limit[s] \in Nat
  BY SupervisorAssumption DEF CaptureInv, TypeOK, Request
<1>1. CASE Supervise
  <2>1. CASE Spawn
    <3>1. reader[s] = "pending"
      BY <2>1 DEF Spawn, CaptureInv, Followed, BeforeStart
    <3> QED BY <1>0, <2>1, <3>1 DEF Spawn, capture
  <2>2. ASSUME NEW r \in Streams, StartReader(r) PROVE Accounted(s)'
    <3>1. /\ reader' \in {[reader EXCEPT ![r] = "reading"], [reader EXCEPT ![r] = "failed"]}
          /\ UNCHANGED <<request, writers, written, observed, captured, pipe>>
      BY <2>2 DEF StartReader, target
    <3>2. reader[r] = "pending"
      BY <2>2 DEF StartReader, StartOf, Streams, CaptureInv, Followed, BeforeStart
    <3> QED BY <1>0, <3>1, <3>2 DEF TypeOK
  <2>3. CASE KillGroup \/ KillChild
    <3>1. writers[s] = {} => writers'[s] = {}
      BY <2>3 DEF KillGroup, KillChild, Stop, target
    <3>2. UNCHANGED <<request, reader, written, observed, captured, pipe>>
      BY <2>3 DEF KillGroup, KillChild, Stop, target, capture
    <3> QED BY <1>0, <3>1, <3>2
  <2>4. CASE UNCHANGED <<request, reader, writers, written, observed, captured, pipe>>
    BY <1>0, <2>4
  <2> QED
    BY <1>1, <2>1, <2>2, <2>3, <2>4
    DEF Supervise, Deny, Admit, SpawnFails, fail_closed_before_spawn, PollCancellation,
        PollTimeout, TryWait, Completed, Wake, Terminate, MoveTo, Reap, FinishReader, target,
        capture
<1>2. CASE Surroundings
  <2>1. ASSUME NEW r \in Streams, Read(r) PROVE Accounted(s)'
    <3>1. UNCHANGED <<request, reader, writers, written>> /\ reader[r] = "reading"
      BY <2>1 DEF Read, target
    <3>2. CASE r # s
      <4>1. pipe'[s] = pipe[s] /\ observed'[s] = observed[s] /\ captured'[s] = captured[s]
        BY <2>1, <3>2 DEF Read, TypeOK
      <4> QED BY <1>0, <3>1, <4>1
    <3>3. CASE r = s
      <4>1. PICK n \in 1 .. pipe[s] :
               /\ pipe'[s] = pipe[s] - n /\ observed'[s] = observed[s] + n
               /\ captured'[s] = captured[s]
                    + Least(n, SaturatingSub(request.limit[s], captured[s]))
        BY <2>1, <3>3 DEF Read, TypeOK
      <4>2. written'[s] = observed'[s] + pipe'[s]
        BY <1>0, <3>1, <3>3, <4>1
      <4>3. captured'[s] = Least(observed'[s], request.limit[s])
        BY <1>0, <4>1 DEF Least, SaturatingSub
      <4> QED BY <3>1, <3>3, <4>2, <4>3
    <3> QED BY <3>2, <3>3
  <2>2. ASSUME NEW r \in Streams, ReachEnd(r) \/ BreakReader(r) PROVE Accounted(s)'
    BY <1>0, <2>2 DEF ReachEnd, BreakReader, EndReader, target, TypeOK
  <2>3. ASSUME NEW p \in Processes, NEW r \in Streams, Write(p, r) PROVE Accounted(s)'
    <3>1. UNCHANGED <<request, reader, writers, observed, captured>>
      BY <2>3 DEF Write, Environment, capture
    <3>2. reader[r] \in {"pending", "reading"}
      BY <2>3 DEF Write
    <3>3. CASE r # s
      <4>1. pipe'[s] = pipe[s] /\ written'[s] = written[s]
        BY <2>3, <3>3 DEF Write, TypeOK
      <4> QED BY <1>0, <3>1, <4>1
    <3>4. CASE r = s
      <4>1. pipe'[s] = pipe[s] + 1 /\ written'[s] = written[s] + 1
        BY <2>3, <3>4 DEF Write, TypeOK
      <4> QED BY <1>0, <3>1, <3>2, <3>4, <4>1
    <3> QED BY <3>3, <3>4
  <2>4. CASE UNCHANGED <<request, reader, written, observed, captured, pipe>>
    BY <1>0, <1>2, <2>4, SurroundingsFrame DEF Undisturbed
  <2> QED
    BY <1>2, <2>1, <2>2, <2>3, <2>4
    DEF Surroundings, Capture, Exit, Stop, Close, Fork, LeaveGroup, Environment, Cancel, Elapse,
        vars, target, capture
<1> QED BY <1>1, <1>2, Split

LEMMA FollowedStep ==
    TypeOK /\ ControlInv /\ CaptureInv /\ [Next]_vars => \A s \in Streams : Followed(s)'
<1> SUFFICES ASSUME TypeOK, ControlInv, CaptureInv, [Next]_vars, NEW s \in Streams
             PROVE  Followed(s)'
  OBVIOUS
<1> USE DEF Followed, BeforeStart
<1>0. Followed(s) /\ s \in {"stdout", "stderr"}
  BY DEF CaptureInv, Streams
<1>1. CASE Deny \/ SpawnFails
  <2>1. /\ reader' = reader /\ outcome'.exit = "NeverStarted" /\ at \in {"prepare", "spawn"}
    BY <1>1 DEF Deny, SpawnFails, fail_closed_before_spawn, Outcome, capture
  <2> QED BY <1>0, <2>1
<1>2. CASE Admit \/ Spawn
  BY <1>0, <1>2, KeptFailures DEF Admit, Spawn, capture
<1>3. ASSUME NEW r \in Streams, StartReader(r) PROVE Followed(s)'
  <2>1. /\ at = StartOf[r] /\ at' = AfterStart(r, failures') /\ outcome' = outcome
        /\ \/ reader' = [reader EXCEPT ![r] = "reading"] /\ failures' = failures
           \/ reader' = [reader EXCEPT ![r] = "failed"] /\ Fails("OutputCaptureFailure")
    BY <1>3 DEF StartReader, Fails
  <2>2. r \in {"stdout", "stderr"} /\ outcome.exit = "Undecided"
    BY <1>3 DEF StartReader, StartOf, Streams, ControlInv, Finishing
  <2>3. "OutputCaptureFailure" \in Reported => "OutputCaptureFailure" \in Reported'
    BY <2>1, FailureKinds, FailsReports, KeptFailures
  <2>4. CASE r = s
    BY <1>0, <2>1, <2>2, <2>3, <2>4, FailureKinds, FailsReports
    DEF StartOf, AfterStart, TypeOK
  <2>5. CASE r # s
    BY <1>0, <2>1, <2>2, <2>3, <2>5 DEF StartOf, AfterStart, TypeOK
  <2> QED BY <2>4, <2>5
<1>4. CASE PollCancellation \/ PollTimeout \/ Wake \/ TryWait \/ KillGroup \/ KillChild \/ Reap
  <2>1. /\ reader' = reader /\ at \in Polling \cup Killing
        /\ at' \in Polling \cup Killing \cup Finishing
        /\ outcome.exit # "NeverStarted" /\ outcome'.exit # "NeverStarted"
    BY <1>4
    DEF PollCancellation, PollTimeout, Wake, TryWait, Completed, Terminate, MoveTo, KillGroup,
        KillChild, Reap, Outcome, capture, Polling, Killing, Finishing, ControlInv
  <2>2. Reported \subseteq Reported'
    BY <1>4, ReportsStay DEF Supervise
  <2> QED BY <1>0, <2>1, <2>2 DEF Polling, Killing, Finishing
<1>5. ASSUME NEW r \in Streams, FinishReader(r) PROVE Followed(s)'
  <2>1. /\ reader' = reader /\ at \in Finishing /\ at' \in Finishing /\ outcome' = outcome
    BY <1>5 DEF FinishReader, JoinOf, AfterJoin, Streams, Finishing, capture
  <2>2. Reported \subseteq Reported'
    BY <1>5, ReportsStay DEF Supervise
  <2> QED BY <1>0, <2>1, <2>2 DEF Finishing
<1>6. CASE Surroundings
  <2>1. \/ reader'[s] = reader[s]
        \/ reader[s] = "reading" /\ reader'[s] \in {"eof", "error", "panicked"}
    BY <1>6
    DEF Surroundings, Capture, Read, ReachEnd, BreakReader, EndReader, Exit, Write, Close, Fork,
        LeaveGroup, Environment, Cancel, Elapse, vars, capture, TypeOK
  <2> QED BY <1>0, <1>6, <2>1, SurroundingsFrame, KeptFailures DEF Undisturbed
<1> QED
  BY <1>1, <1>2, <1>3, <1>4, <1>5, <1>6, Split DEF Supervise

LEMMA SettledStep ==
    ASSUME TypeOK, [Next]_vars, NEW s \in Streams, Settled(s)
    PROVE  Settled(s)' \/ \E r \in Streams : StartReader(r)
<1>1. CASE Supervise
  <2>1. reader' = reader \/ \E r \in Streams : StartReader(r)
    BY <1>1
    DEF Supervise, Deny, Admit, SpawnFails, fail_closed_before_spawn, Spawn, PollCancellation,
        PollTimeout, TryWait, Completed, Wake, Terminate, MoveTo, KillGroup, KillChild, Reap,
        FinishReader, capture
  <2> QED BY <1>1, <2>1, ReportsStay DEF Settled
<1>2. CASE Surroundings
  <2>1. reader'[s] = reader[s]
    BY <1>2
    DEF Settled, Ended, Surroundings, Capture, Read, ReachEnd, BreakReader, EndReader, Exit, Write,
        Close, Fork, LeaveGroup, Environment, Cancel, Elapse, vars, capture, TypeOK
  <2> QED BY <1>2, <2>1, SurroundingsFrame, KeptFailures DEF Settled, Undisturbed
<1> QED BY <1>1, <1>2, Split

LEMMA CaptureStep == TypeOK /\ ControlInv /\ CaptureInv /\ [Next]_vars => CaptureInv'
<1> SUFFICES ASSUME TypeOK, ControlInv, CaptureInv, [Next]_vars PROVE CaptureInv'
  OBVIOUS
<1>1. /\ at' = "join_stderr" => Settled("stdout")'
      /\ at' = "returned" /\ outcome'.exit # "NeverStarted" =>
            Settled("stdout")' /\ Settled("stderr")'
  <2>1. ASSUME NEW s \in Streams, FinishReader(s) PROVE Settled(s)'
    <3>1. /\ reader' = reader /\ reader[s] \in Ended
          /\ reader[s] \in {"error", "panicked"} => Fails("OutputCaptureFailure")
          /\ reader[s] \notin {"error", "panicked"} => failures' = failures
      BY <2>1 DEF FinishReader, Fails, capture
    <3>2. reader[s] = "failed" => "OutputCaptureFailure" \in Reported
      BY DEF CaptureInv, Followed
    <3>3. reader[s] # "eof" => "OutputCaptureFailure" \in Reported'
      BY <3>1, <3>2, FailureKinds, FailsReports, KeptFailures DEF Ended
    <3> QED BY <3>1, <3>3 DEF Settled
  <2>2. CASE \E s \in Streams : FinishReader(s)
    <3>1. PICK s \in Streams : FinishReader(s)
      BY <2>2
    <3>2. Settled(s)'
      BY <2>1, <3>1
    <3>3. \/ s = "stdout" /\ at = "join_stdout" /\ at' = "join_stderr"
          \/ s = "stderr" /\ at = "join_stderr" /\ at' = "returned"
      <4>1. s = "stdout" \/ s = "stderr"
        BY DEF Streams
      <4> QED BY <3>1, <4>1 DEF FinishReader, JoinOf, AfterJoin
    <3>4. ~ \E r \in Streams : StartReader(r)
      BY <3>3 DEF StartReader, StartOf, Streams
    <3>5. s = "stderr" => Settled("stdout")'
      BY <3>3, <3>4, SettledStep DEF CaptureInv, Streams
    <3> QED BY <3>2, <3>3, <3>5
  <2>3. CASE ~ \E s \in Streams : FinishReader(s)
    <3>1. \/ at' \notin {"join_stderr", "returned"}
          \/ at' = "returned" /\ outcome'.exit = "NeverStarted"
          \/ at' = at /\ outcome' = outcome /\ Surroundings
      BY <2>3, Split, SurroundingsFrame
      DEF Undisturbed, Supervise, Deny, Admit, SpawnFails, fail_closed_before_spawn, Spawn,
          PollCancellation, PollTimeout, TryWait, Completed, Wake, Terminate, MoveTo, KillGroup,
          KillChild, Reap, StartReader, AfterStart, Outcome
    <3>2. ASSUME Surroundings, at' = at, at \in {"join_stderr", "returned"},
                 NEW s \in Streams, Settled(s)
          PROVE  Settled(s)'
      <4>1. ~ \E r \in Streams : StartReader(r)
        BY <3>2 DEF StartReader, StartOf, Streams
      <4> QED BY <3>2, <4>1, SettledStep
    <3> QED BY <3>1, <3>2 DEF CaptureInv, Streams
  <2> QED BY <2>2, <2>3
<1> QED BY <1>1, AccountedStep, FollowedStep DEF CaptureInv

----------------------------------------------------------------------------
(* The invariants of every execution *)

Inv == TypeOK /\ ControlInv /\ CauseInv /\ GroupInv /\ CaptureInv

LEMMA Invariance == Spec => []Inv
<1>1. Init => Inv
  BY TypingInit, ControlInit, CauseInit, GroupInit, CaptureInit DEF Inv
<1>2. Inv /\ [Next]_vars => Inv'
  BY Typing, ControlStep, CauseStep, GroupStep, CaptureStep DEF Inv
<1> QED BY <1>1, <1>2, PTL DEF Spec

\* SIGKILL is never sent to a PID, or to the group of a PID, that has been reaped.
THEOREM KillTargetsTheChild == Spec => []KillNeverHitsAReusedPid
<1>1. Inv => KillNeverHitsAReusedPid
  BY DEF Inv, ControlInv, KillNeverHitsAReusedPid, Finishing, Started
<1> QED BY <1>1, Invariance, PTL

\* A termination no step of which failed leaves no process in the child's group.
THEOREM GroupCleared == Spec => []TerminationClearsTheGroup
<1>1. Inv => TerminationClearsTheGroup
  BY DEF Inv, GroupInv, TerminationClearsTheGroup
<1> QED BY <1>1, Invariance, PTL

\* An answer without a capture failure accounts for every chunk written.
THEOREM CaptureComplete == Spec => []CaptureIsComplete
<1>1. Inv => CaptureIsComplete
  <2> SUFFICES ASSUME Inv, at = "returned", Started, "OutputCaptureFailure" \notin Reported,
                      NEW s \in Streams
               PROVE  Output(s) = [total |-> written[s],
                                   kept |-> Least(written[s], request.limit[s]),
                                   truncated |-> written[s] > request.limit[s]]
    BY DEF CaptureIsComplete
  <2>1. outcome.exit # "NeverStarted"
    BY DEF Started
  <2>2. reader[s] = "eof"
    BY <2>1 DEF Inv, CaptureInv, Settled, Streams
  <2>3. written[s] = observed[s] /\ captured[s] = Least(observed[s], request.limit[s])
    BY <2>2 DEF Inv, CaptureInv, Accounted
  <2> QED BY <2>2, <2>3 DEF Output
<1> QED BY <1>1, Invariance, PTL

\* The first failure of an answer is the condition that ended the execution.
THEOREM CauseReported == Spec => []PrimaryFailureIsTheCause
<1>1. Inv => PrimaryFailureIsTheCause
  <2> SUFFICES ASSUME Inv, at = "returned" PROVE PrimaryFailureIsTheCause
    BY DEF PrimaryFailureIsTheCause
  <2>1. outcome.exit \in ProcessExit \ {"Undecided"}
    BY DEF Inv, TypeOK, Outcomes, ControlInv, Finishing
  <2>2. CASE outcome.exit = "NeverStarted"
    BY <2>2 DEF Inv, ControlInv, PrimaryFailureIsTheCause
  <2>3. CASE outcome.exit = "ExitedWithCode"
    BY <2>3 DEF Inv, CauseInv, PrimaryFailureIsTheCause
  <2>4. CASE outcome.exit = "ExitedWithoutCode"
    BY <2>4 DEF Inv, CauseInv, PrimaryFailureIsTheCause
  <2>5. CASE outcome.exit = "TerminatedBySupervisor"
    BY <2>5 DEF Inv, CauseInv, Caused, PrimaryFailureIsTheCause
  <2> QED BY <2>1, <2>2, <2>3, <2>4, <2>5 DEF ProcessExit
<1> QED BY <1>1, Invariance, PTL

----------------------------------------------------------------------------
(* The CPU limit *)

\* A prepared pair covers the request, by less than a second, and is finite.
LEMMA PreparedIsFinite ==
    ASSUME NEW d \in Duration, NEW l \in Prepare(d)
    PROVE  LET half == IF d.fraction THEN 1 ELSE 0 IN
           /\ l.rlim_cur * 2 >= d.secs * 2 + half
           /\ l.rlim_cur * 2 < d.secs * 2 + half + 2
           /\ l.rlim_cur > 0
           /\ l.rlim_cur < l.rlim_max /\ l.rlim_max < RLIM_INFINITY
<1>1. d.secs \in Nat /\ d.secs <= WordMax /\ WordMax \in Nat /\ d.fraction \in BOOLEAN
  BY CpuAssumption DEF Duration
<1>2. /\ l.rlim_max = l.rlim_cur + 1
      /\ l.rlim_cur \in Rounded(d)
      /\ d # [secs |-> 0, fraction |-> FALSE]
      /\ \E hard \in CheckedSucc(l.rlim_cur) : checked_finite_rlim_t(hard) # {}
  BY DEF Prepare
<1>3. d.secs = 0 => d.fraction
  <2>1. d = [secs |-> d.secs, fraction |-> d.fraction]
    BY DEF Duration
  <2> QED BY <1>1, <1>2, <2>1
<1>4. /\ l.rlim_cur = IF d.fraction THEN d.secs + 1 ELSE d.secs
      /\ l.rlim_cur <= WordMax
  BY <1>1, <1>2 DEF Rounded, CheckedSucc
<1>5. l.rlim_cur + 1 < WordMax
  BY <1>1, <1>2, <1>4 DEF CheckedSucc, checked_finite_rlim_t, RLIM_INFINITY
<1> QED BY <1>1, <1>2, <1>3, <1>4, <1>5 DEF RLIM_INFINITY

\* A started child's CPU limit is finite and covers what was requested, for every
\* width of the machine word.
THEOREM CpuLimitFinite == Spec => []CpuLimitIsFinite
<1>1. Inv => CpuLimitIsFinite
  <2> SUFFICES ASSUME Inv, Started, NEW d \in request.cpu
               PROVE  \E l \in Prepare(d) :
                         /\ l.rlim_cur * 2 >= d.secs * 2 + (IF d.fraction THEN 1 ELSE 0)
                         /\ l.rlim_cur * 2 < d.secs * 2 + (IF d.fraction THEN 1 ELSE 0) + 2
                         /\ l.rlim_cur > 0
                         /\ l.rlim_cur < l.rlim_max /\ l.rlim_max < RLIM_INFINITY
    BY DEF CpuLimitIsFinite
  <2>1. Prepare(d) # {}
    BY DEF Inv, ControlInv, Started, Denied, FailsClosed
  <2>2. d \in Duration
    BY DEF Inv, TypeOK, Request
  <2> QED BY <2>1, <2>2, PreparedIsFinite
<1> QED BY <1>1, Invariance, PTL

----------------------------------------------------------------------------
(* Cancellation before the start *)

\* The clock and the exit of the child are never looked at.
Cancelled ==
    /\ token
    /\ at \notin {"poll_timeout", "try_wait", "sleep"}
    /\ reason \in {"none", "Cancellation", "OutputCaptureFailure"}
    /\ outcome.reason \in {"none", "Cancellation", "OutputCaptureFailure"}
    /\ outcome.exit \notin {"ExitedWithCode", "ExitedWithoutCode"}

LEMMA CancelledStep == TypeOK /\ Cancelled /\ [Next]_vars => Cancelled'
<1> SUFFICES ASSUME TypeOK, Cancelled, [Next]_vars PROVE Cancelled'
  OBVIOUS
<1> USE DEF Cancelled
<1>1. CASE Supervise
  <2>1. ASSUME NEW s \in Streams, StartReader(s) PROVE Cancelled'
    <3>1. /\ token' = token /\ outcome' = outcome
          /\ reason' \in {"OutputCaptureFailure", reason}
      BY <2>1 DEF StartReader, signals
    <3>2. at' \in {"start_stderr", "poll_cancellation", "kill_group"}
      BY <2>1 DEF StartReader, AfterStart
    <3> QED BY <3>1, <3>2
  <2>2. ASSUME NEW s \in Streams, FinishReader(s) PROVE Cancelled'
    <3>1. token' = token /\ outcome' = outcome /\ reason' = reason
      BY <2>2 DEF FinishReader, signals
    <3>2. at' \in {"join_stderr", "returned"}
      <4>1. s = "stdout" \/ s = "stderr"
        BY DEF Streams
      <4> QED BY <2>2, <4>1 DEF FinishReader, AfterJoin
    <3> QED BY <3>1, <3>2
  <2>3. CASE Deny \/ Admit \/ SpawnFails \/ Spawn
    <3>1. token' = token /\ reason' = reason
      BY <2>3 DEF Deny, Admit, SpawnFails, fail_closed_before_spawn, Spawn, signals
    <3>2. at' \in {"returned", "spawn", "start_stdout"}
      BY <2>3 DEF Deny, Admit, SpawnFails, fail_closed_before_spawn, Spawn
    <3>3. \/ outcome' = outcome
          \/ outcome'.reason = "none" /\ outcome'.exit = "NeverStarted"
      BY <2>3 DEF Deny, Admit, SpawnFails, fail_closed_before_spawn, Spawn, Outcome
    <3> QED BY <3>1, <3>2, <3>3
  <2>4. CASE PollCancellation \/ PollTimeout \/ TryWait \/ Wake
    BY <2>4 DEF PollCancellation, PollTimeout, TryWait, Wake, Terminate, signals
  <2>5. CASE KillGroup \/ KillChild \/ Reap
    <3>1. token' = token /\ reason' = reason
      BY <2>5 DEF KillGroup, KillChild, Reap, signals
    <3>2. at' \in {"kill_child", "wait", "join_stdout"}
      BY <2>5 DEF KillGroup, KillChild, Reap
    <3>3. \/ outcome' = outcome
          \/ outcome'.reason = reason /\ outcome'.exit = "TerminatedBySupervisor"
      BY <2>5 DEF KillGroup, KillChild, Reap, Outcome
    <3> QED BY <3>1, <3>2, <3>3
  <2> QED BY <1>1, <2>1, <2>2, <2>3, <2>4, <2>5 DEF Supervise
<1>2. CASE Surroundings
  BY <1>2, SurroundingsFrame DEF Undisturbed
<1> QED BY <1>1, <1>2, Split

\* An execution that is cancelled before it starts never answers with an exit of
\* the child, a timeout or a failed wait.
THEOREM EarlyCancellation == Spec => EarlyCancellationWins
<1>1. Init /\ token => Cancelled
  BY DEF Init, Cancelled, Undecided, Outcome
<1>2. TypeOK /\ Cancelled /\ [Next]_vars => Cancelled'
  BY CancelledStep
<1>3. Cancelled =>
        /\ outcome.exit \notin {"ExitedWithCode", "ExitedWithoutCode"}
        /\ outcome.reason \in {"none", "Cancellation", "OutputCaptureFailure"}
  BY DEF Cancelled
<1> QED BY <1>1, <1>2, <1>3, TypeCorrect, PTL DEF Spec, EarlyCancellationWins
=============================================================================
