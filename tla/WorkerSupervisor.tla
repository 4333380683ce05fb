-------------------------- MODULE WorkerSupervisor --------------------------
(***************************************************************************)
(* One call of ProcessSupervisor::execute: the supervising thread, the two *)
(* output reader threads, the target with the processes it forks, the      *)
(* caller that may cancel, and the wall clock.                             *)
(***************************************************************************)
EXTENDS CpuLimits, Sequences

CONSTANTS Child,         \* the direct child
          Descendants,   \* processes the target may fork
          Requests,      \* inputs: the requests callers pass
          ExitStatuses,  \* inputs: how processes end
          PipeCapacity,  \* chunks a pipe holds
          MaxWritten     \* bound on the chunks written to each pipe

Streams == {"stdout", "stderr"}
Processes == {Child} \cup Descendants

\* What the supervisor reads of a request: whether the restricted authority
\* applies and admits the command, the limits, and the capture bounds.
Request == [restricted : BOOLEAN, authorized : BOOLEAN, cpu : SUBSET Duration,
            timeout : BOOLEAN, limit : [Streams -> Nat]]

\* What ends a process: an exit code, or a signal.
Status == {"zero", "nonzero", "SIGXCPU", "signal"}

ASSUME SupervisorAssumption ==
    /\ Child \notin Descendants
    /\ Requests \subseteq Request
    /\ ExitStatuses \subseteq Status
    /\ PipeCapacity \in Nat \ {0}
    /\ MaxWritten \in [Streams -> Nat]

VARIABLES request,
          at,         \* where the supervising thread is
          token,      \* the CancellationToken
          due,        \* started_at.elapsed() has reached the timeout
          failures,   \* the ordered runtime failures
          reason,     \* of the termination in progress
          outcome,    \* the SupervisedOutcome
          status,     \* the child's exit status, once it has one
          reaped,     \* the child has been waited for: its PID may be reused
          group,      \* running processes of the child's process group
          alive,      \* running processes
          writers,    \* processes that hold the write end of a pipe
          pipe,       \* chunks in a pipe
          written,    \* chunks ever written to a pipe
          reader,     \* what became of the stream's reader thread
          observed,   \* total_bytes_observed
          captured    \* length of captured_bytes

supervision == <<at, failures, reason, outcome, reaped>>
target == <<status, group, alive, writers, written>>
capture == <<reader, observed, captured>>
signals == <<token, due>>
vars == <<request, supervision, target, capture, signals, pipe>>

----------------------------------------------------------------------------
(* What a call answers *)

Failure == {"SpawnFailure", "NonZeroExit", "Timeout", "Cancelled", "WaitFailure",
            "OutputCaptureFailure", "TerminationFailure"}
Termination == {"Timeout", "Cancellation", "WaitFailure", "OutputCaptureFailure"}
\* ExitStatus::code
Code(st) == IF st \in {"zero", "nonzero"} THEN st ELSE "none"

ProcessExit == {"Undecided", "NeverStarted", "ExitedWithCode", "ExitedWithoutCode",
                "TerminatedBySupervisor"}

Outcomes == [exit : ProcessExit, reason : Termination \cup {"none"},
             code : {"zero", "nonzero", "none"},
             timeout : {"NotConfigured", "NotTriggered", "Triggered"},
             cancellation : {"Selected", "NotSelected"}, terminatedByCpu : BOOLEAN]

Outcome(exit, why, code, cpu) ==
    [exit |-> exit, reason |-> why, code |-> code,
     timeout |-> IF ~ request.timeout THEN "NotConfigured"
                 ELSE IF why = "Timeout" THEN "Triggered" ELSE "NotTriggered",
     cancellation |-> IF why = "Cancellation" THEN "Selected" ELSE "NotSelected",
     terminatedByCpu |-> cpu]

Undecided == Outcome("Undecided", "none", "none", FALSE)

Reported == {failures[i] : i \in DOMAIN failures}

\* A thread that panicked, or never ran, leaves an empty capture.
Output(s) ==
    IF reader[s] \in {"eof", "error"}
    THEN [total |-> observed[s], kept |-> captured[s],
          truncated |-> observed[s] > request.limit[s]]
    ELSE [total |-> 0, kept |-> 0, truncated |-> FALSE]

Started == at \notin {"prepare", "spawn"} /\ outcome.exit # "NeverStarted"

IsSuccess == failures = <<>> /\ outcome.exit = "ExitedWithCode" /\ outcome.code = "zero"

----------------------------------------------------------------------------
Init ==
    /\ request \in Requests
    /\ at = "prepare"
    /\ token \in BOOLEAN
    /\ due = FALSE
    /\ failures = <<>>
    /\ reason = "none"
    /\ outcome = Undecided
    /\ status = "none"
    /\ reaped = FALSE
    /\ group = {}
    /\ alive = {}
    /\ writers = [s \in Streams |-> {}]
    /\ pipe = [s \in Streams |-> 0]
    /\ written = [s \in Streams |-> 0]
    /\ reader = [s \in Streams |-> "pending"]
    /\ observed = [s \in Streams |-> 0]
    /\ captured = [s \in Streams |-> 0]

(* The supervising thread *)

Fails(f) == failures' = Append(failures, f)

fail_closed_before_spawn ==
    /\ Fails("SpawnFailure")
    /\ outcome' = Outcome("NeverStarted", "none", "none", FALSE)
    /\ at' = "returned"
    /\ UNCHANGED <<reason, reaped, target>>

\* Authority and CPU-limit decisions, before any fork.
Denied == (request.restricted /\ ~ request.authorized) \/ FailsClosed(request.cpu)

Deny ==
    /\ at = "prepare" /\ Denied
    /\ fail_closed_before_spawn
    /\ UNCHANGED <<request, capture, signals, pipe>>

Admit ==
    /\ at = "prepare" /\ ~ Denied
    /\ at' = "spawn"
    /\ UNCHANGED <<request, failures, reason, outcome, reaped, target, capture, signals, pipe>>

\* The executable cannot start, or pre_exec cannot install the CPU limit.
SpawnFails ==
    /\ at = "spawn"
    /\ fail_closed_before_spawn
    /\ UNCHANGED <<request, capture, signals, pipe>>

Spawn ==
    /\ at = "spawn"
    /\ at' = "start_stdout"
    /\ alive' = {Child}
    /\ group' = {Child}
    /\ writers' = [s \in Streams |-> {Child}]
    /\ UNCHANGED <<request, failures, reason, outcome, reaped, status, written, capture,
                   signals, pipe>>

\* Both readers are set up before a failure of either is acted on.
StartOf == [stdout |-> "start_stdout", stderr |-> "start_stderr"]

AfterStart(s, fs) ==
    IF s = "stdout" THEN "start_stderr"
    ELSE IF fs = <<>> THEN "poll_cancellation" ELSE "kill_group"

StartReader(s) ==
    /\ at = StartOf[s]
    /\ \E started \in BOOLEAN :
          /\ reader' = [reader EXCEPT ![s] = IF started THEN "reading" ELSE "failed"]
          /\ failures' = IF started THEN failures
                         ELSE Append(failures, "OutputCaptureFailure")
    /\ at' = AfterStart(s, failures')
    /\ reason' = IF at' = "kill_group" THEN "OutputCaptureFailure" ELSE reason
    /\ UNCHANGED <<request, outcome, reaped, target, observed, captured, signals, pipe>>

Terminate(f, why) ==
    /\ Fails(f)
    /\ reason' = why
    /\ at' = "kill_group"
    /\ UNCHANGED <<request, outcome, reaped, target, capture, signals, pipe>>

MoveTo(where) ==
    /\ at' = where
    /\ UNCHANGED <<request, failures, reason, outcome, reaped, target, capture, signals, pipe>>

PollCancellation ==
    /\ at = "poll_cancellation"
    /\ IF token THEN Terminate("Cancelled", "Cancellation") ELSE MoveTo("poll_timeout")

\* Fault: a timeout that is configured counts as passed.
TimeoutUnchecked ==
    /\ at = "poll_timeout"
    /\ IF request.timeout THEN Terminate("Timeout", "Timeout") ELSE MoveTo("try_wait")

PollTimeout ==
    /\ at = "poll_timeout"
    /\ IF due THEN Terminate("Timeout", "Timeout") ELSE MoveTo("try_wait")

\* completed_exit, and the attribution of a SIGXCPU death to the limit.
Completed ==
    /\ status # "none"
    /\ reaped' = TRUE
    /\ failures' = IF status = "zero" THEN failures ELSE Append(failures, "NonZeroExit")
    /\ outcome' = Outcome(IF Code(status) = "none" THEN "ExitedWithoutCode"
                          ELSE "ExitedWithCode",
                          "none", Code(status),
                          request.cpu # NoLimit /\ status = "SIGXCPU")
    /\ at' = "join_stdout"
    /\ UNCHANGED <<request, reason, target, capture, signals, pipe>>

TryWait ==
    /\ at = "try_wait"
    /\ \/ Completed
       \/ status = "none" /\ MoveTo("sleep")
       \/ Terminate("WaitFailure", "WaitFailure")

\* Fault: the wait for the child does not wake for the token or the clock.
WakesAtExit == at = "sleep" /\ status # "none" /\ MoveTo("poll_cancellation")

Wake == at = "sleep" /\ MoveTo("poll_cancellation")

\* Processes ps stop; the child leaves its exit status behind.
Stop(ps, st) ==
    /\ alive' = alive \ ps
    /\ group' = group \ ps
    /\ writers' = [s \in Streams |-> writers[s] \ ps]
    /\ status' = IF Child \in ps \cap alive THEN st ELSE status
    /\ UNCHANGED written

\* Fault: only the direct child is killed.
KillsTheChildAlone ==
    /\ at = "kill_group" /\ at' = "wait"
    /\ Stop({Child}, "signal")
    /\ UNCHANGED <<request, failures, reason, outcome, reaped, capture, signals, pipe>>

\* kill(-pgid, SIGKILL)
KillGroup ==
    /\ at = "kill_group"
    /\ \/ at' = "wait" /\ Stop(group, "signal") /\ UNCHANGED failures
       \/ at' = "kill_child" /\ Fails("TerminationFailure") /\ UNCHANGED target
    /\ UNCHANGED <<request, reason, outcome, reaped, capture, signals, pipe>>

\* The direct-child fallback, Child::kill.
KillChild ==
    /\ at = "kill_child"
    /\ at' = "wait"
    /\ \/ Stop({Child}, "signal") /\ UNCHANGED failures
       \/ Fails("TerminationFailure") /\ UNCHANGED target
    /\ UNCHANGED <<request, reason, outcome, reaped, capture, signals, pipe>>

\* Child::wait blocks until the child has a status.
Reap ==
    /\ at = "wait"
    /\ \/ /\ status # "none"
          /\ reaped' = TRUE
          /\ outcome' = Outcome("TerminatedBySupervisor", reason, Code(status), FALSE)
          /\ UNCHANGED failures
       \/ /\ Fails("WaitFailure")
          /\ outcome' = Outcome("TerminatedBySupervisor", reason, "none", FALSE)
          /\ UNCHANGED reaped
    /\ at' = "join_stdout"
    /\ UNCHANGED <<request, reason, target, capture, signals, pipe>>

JoinOf == [stdout |-> "join_stdout", stderr |-> "join_stderr"]
AfterJoin == [stdout |-> "join_stderr", stderr |-> "returned"]
Ended == {"eof", "error", "panicked", "failed"}

\* JoinHandle::join blocks until the reader thread has ended.
FinishReader(s) ==
    /\ at = JoinOf[s]
    /\ reader[s] \in Ended
    /\ failures' = IF reader[s] \in {"error", "panicked"}
                   THEN Append(failures, "OutputCaptureFailure") ELSE failures
    /\ at' = AfterJoin[s]
    /\ UNCHANGED <<request, reason, outcome, reaped, target, capture, signals, pipe>>

Supervise ==
    \/ Deny \/ Admit \/ SpawnFails \/ Spawn
    \/ PollCancellation \/ PollTimeout \/ TryWait \/ Wake
    \/ KillGroup \/ KillChild \/ Reap
    \/ \E s \in Streams : StartReader(s) \/ FinishReader(s)

(* The reader threads *)

Least(a, b) == IF a < b THEN a ELSE b
SaturatingSub(a, b) == IF a < b THEN 0 ELSE a - b

\* One read: whatever is retained, every chunk read is counted.
Read(s) ==
    /\ reader[s] = "reading"
    /\ \E n \in 1 .. pipe[s] :
          /\ pipe' = [pipe EXCEPT ![s] = @ - n]
          /\ observed' = [observed EXCEPT ![s] = @ + n]
          /\ captured' = [captured EXCEPT
                            ![s] = @ + Least(n, SaturatingSub(request.limit[s], @))]
    /\ UNCHANGED <<request, supervision, target, reader, signals>>

EndReader(s, how) ==
    /\ reader[s] = "reading"
    /\ reader' = [reader EXCEPT ![s] = how]
    /\ UNCHANGED <<request, supervision, target, observed, captured, signals, pipe>>

\* Fault: a reader stops at its capture bound.
StopsAtTheBound(s) ==
    /\ observed[s] >= request.limit[s] \/ (pipe[s] = 0 /\ writers[s] = {})
    /\ EndReader(s, "eof")

ReachEnd(s) == pipe[s] = 0 /\ writers[s] = {} /\ EndReader(s, "eof")

\* Fault: one thread drains stdout, then stderr.
DrainsInTurn(s) ==
    /\ s = "stderr" => reader["stdout"] # "reading"
    /\ Read(s) \/ ReachEnd(s)

Capture(s) == Read(s) \/ ReachEnd(s)

\* A read fails, or the thread panics.
BreakReader(s) == EndReader(s, "error") \/ EndReader(s, "panicked")

(* The target and its descendants *)

Environment == UNCHANGED <<request, supervision, capture, signals>>

\* A write into a pipe nobody reads stops the writer: see Exit.
Write(p, s) ==
    /\ p \in writers[s]
    /\ reader[s] \in {"pending", "reading"}
    /\ pipe[s] < PipeCapacity
    /\ written[s] < MaxWritten[s]
    /\ pipe' = [pipe EXCEPT ![s] = @ + 1]
    /\ written' = [written EXCEPT ![s] = @ + 1]
    /\ UNCHANGED <<status, group, alive, writers>>
    /\ Environment

Close(p, s) ==
    /\ p \in writers[s]
    /\ writers' = [writers EXCEPT ![s] = @ \ {p}]
    /\ UNCHANGED <<status, group, alive, written, pipe>>
    /\ Environment

\* A new process inherits the group and the open pipes.
Fork(p, d) ==
    /\ p \in alive /\ d \in Descendants \ alive
    /\ alive' = alive \cup {d}
    /\ group' = IF p \in group THEN group \cup {d} ELSE group
    /\ writers' = [s \in Streams |->
                     IF p \in writers[s] THEN writers[s] \cup {d} ELSE writers[s]]
    /\ UNCHANGED <<status, written, pipe>>
    /\ Environment

LeaveGroup(d) ==
    /\ d \in group \cap Descendants
    /\ group' = group \ {d}
    /\ UNCHANGED <<status, alive, writers, written, pipe>>
    /\ Environment

Exit(p) ==
    /\ p \in alive
    /\ \E st \in ExitStatuses : Stop({p}, st)
    /\ UNCHANGED pipe
    /\ Environment

(* The caller and the clock *)

Cancel ==
    /\ ~ token /\ at # "returned"
    /\ token' = TRUE
    /\ UNCHANGED <<request, supervision, target, capture, due, pipe>>

Elapse ==
    /\ request.timeout /\ ~ due /\ at # "returned"
    /\ due' = TRUE
    /\ UNCHANGED <<request, supervision, target, capture, token, pipe>>

Returned == at = "returned" /\ UNCHANGED vars

Next ==
    \/ Supervise
    \/ \E s \in Streams : Capture(s) \/ BreakReader(s)
    \/ \E p \in Processes : Exit(p) \/ \E s \in Streams : Write(p, s) \/ Close(p, s)
    \/ \E p \in Processes, d \in Descendants : Fork(p, d)
    \/ \E d \in Descendants : LeaveGroup(d)
    \/ Cancel \/ Elapse \/ Returned

\* The threads of the worker are scheduled and time passes; the target, its
\* descendants and the caller owe nothing.
Fairness ==
    /\ WF_vars(Supervise)
    /\ \A s \in Streams : WF_vars(Capture(s))
    /\ WF_vars(Elapse)

Spec == Init /\ [][Next]_vars /\ Fairness

----------------------------------------------------------------------------
Steps == {"prepare", "spawn", "start_stdout", "start_stderr", "poll_cancellation",
          "poll_timeout", "try_wait", "sleep", "kill_group", "kill_child", "wait",
          "join_stdout", "join_stderr", "returned"}

\* Every variable holds a value of its kind.
TypeOK ==
    /\ request \in Request
    /\ at \in Steps
    /\ token \in BOOLEAN /\ due \in BOOLEAN /\ reaped \in BOOLEAN
    /\ failures \in Seq(Failure)
    /\ reason \in Termination \cup {"none"}
    /\ outcome \in Outcomes
    /\ status \in Status \cup {"none"}
    /\ group \subseteq alive /\ alive \subseteq Processes
    /\ writers \in [Streams -> SUBSET alive]
    /\ pipe \in [Streams -> 0 .. PipeCapacity]
    /\ written \in [Streams -> Nat]
    /\ reader \in [Streams -> {"pending", "reading"} \cup Ended]
    /\ observed \in [Streams -> Nat]
    /\ captured \in [Streams -> Nat]

\* SIGKILL is sent to the PID of the child, or to the group of that number, only
\* while the child has not been waited for (supervise_child, terminate_and_reap):
\* afterwards the number may name somebody else's process or group.
KillNeverHitsAReusedPid ==
    at \in {"kill_group", "kill_child"} => ~ reaped /\ Started

\* When the supervisor has terminated the execution and no step of that failed,
\* no process of the child's group is left, those forked while the signal was on
\* its way included (terminate_process_tree).
TerminationClearsTheGroup ==
    outcome.exit = "TerminatedBySupervisor"
        /\ "TerminationFailure" \notin Reported
        => group = {}

\* An answer without a capture failure accounts for everything the target and its
\* descendants ever wrote to either pipe: the totals are exact, the retained part
\* is what the bound allows and truncation is reported just when it happened
\* (capture_output, finish_reader).
CaptureIsComplete ==
    at = "returned" /\ Started
        /\ "OutputCaptureFailure" \notin Reported
        => \A s \in Streams :
              Output(s) = [total |-> written[s], kept |-> Least(written[s], request.limit[s]),
                           truncated |-> written[s] > request.limit[s]]

\* The first failure of an answer is the condition that ended the execution, and
\* that condition was real: a cancellation that was requested, a timeout that had
\* passed, a child that stopped by itself with that status and was reaped.  An
\* execution without failure is a child that exited with code zero.
PrimaryFailureIsTheCause ==
    at = "returned" =>
        CASE outcome.exit = "NeverStarted" -> failures = <<"SpawnFailure">> /\ alive = {}
          [] outcome.exit = "ExitedWithCode" ->
                /\ reaped /\ status = outcome.code
                /\ outcome.code = "nonzero" <=> failures # <<>> /\ Head(failures) = "NonZeroExit"
          [] outcome.exit = "ExitedWithoutCode" ->
                /\ reaped /\ status \notin {"zero", "nonzero"}
                /\ failures # <<>> /\ Head(failures) = "NonZeroExit"
          [] outcome.exit = "TerminatedBySupervisor" ->
                /\ failures # <<>>
                /\ CASE outcome.reason = "Timeout" -> due /\ Head(failures) = "Timeout"
                     [] outcome.reason = "Cancellation" ->
                           token /\ Head(failures) = "Cancelled"
                     [] OTHER -> Head(failures) = outcome.reason
                /\ reaped \/ "WaitFailure" \in Reported
          [] OTHER -> FALSE

\* A cancellation requested before the call starts decides it: whatever the clock
\* and the target do, the answer is a cancellation, or the target never ran, or
\* its output could not be captured (supervise_child checks the token first).
EarlyCancellationWins ==
    token => [](/\ outcome.exit \notin {"ExitedWithCode", "ExitedWithoutCode"}
                /\ outcome.reason \in {"none", "Cancellation", "OutputCaptureFailure"})

\* A child that runs under a requested CPU limit has one the kernel enforces: it
\* is no shorter than the request, less than a second longer, and never the
\* sentinel that means unlimited (CpuLimits::prepare).
CpuLimitIsFinite ==
    Started => \A d \in request.cpu :
        \E l \in Prepare(d) :
            /\ l.rlim_cur * 2 >= d.secs * 2 + (IF d.fraction THEN 1 ELSE 0)
            /\ l.rlim_cur * 2 < d.secs * 2 + (IF d.fraction THEN 1 ELSE 0) + 2
            /\ l.rlim_cur > 0
            /\ l.rlim_cur < l.rlim_max /\ l.rlim_max < RLIM_INFINITY

\* What may keep the supervising thread for ever once it has to stop: a child it
\* could not kill, or a process that keeps a pipe open.
Held ==
    \/ at = "wait" /\ Child \in alive
    \/ at \in {"join_stdout", "join_stderr"} /\ \E s \in Streams : writers[s] # {}

\* A call that is cancelled or has a timeout is answered, unless something holds
\* it for ever (supervise_child, terminate_and_reap, finish_reader).
BoundedCallsAreAnswered ==
    (token \/ request.timeout) ~> (at = "returned" \/ []Held)

\* A full pipe is drained whatever the other stream and the supervisor are doing,
\* so a child that writes a lot to one stream is never blocked by the worker
\* (spawn_reader: one thread for each stream).
FullPipesAreDrained ==
    \A s \in Streams :
        (reader[s] = "reading" /\ pipe[s] = PipeCapacity)
            ~> (pipe[s] < PipeCapacity \/ reader[s] # "reading")
=============================================================================
