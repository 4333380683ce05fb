-------------------------- MODULE MCWorkerSupervisor --------------------------
(* The instances of WorkerSupervisor for TLC.                              *)
EXTENDS WorkerSupervisor

\* One chunk of stdout is within its capture bound, the first of stderr is not.
Bounds == [stdout |-> 1, stderr |-> 0]
StderrOnce == [stdout |-> 0, stderr |-> 1]

Execution(restricted, authorized, cpu, timed) ==
    [restricted |-> restricted, authorized |-> authorized, cpu |-> cpu,
     timeout |-> timed, limit |-> Bounds]

\* An admitted command with a timeout, one the authority denies, and commands
\* outside its reach with every CPU limit the word can express.
Executions ==
    {Execution(TRUE, TRUE, NoLimit, TRUE), Execution(TRUE, FALSE, NoLimit, FALSE)}
    \cup {Execution(FALSE, FALSE, {d}, FALSE) : d \in Duration}
=============================================================================
