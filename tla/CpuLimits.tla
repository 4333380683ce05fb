------------------------------ MODULE CpuLimits ------------------------------
(***************************************************************************)
(* The child-local CPU-time limit of one execution, as the parent prepares *)
(* it before any fork (resource_limits.rs, Linux 64-bit).  A requested     *)
(* duration is a number of whole seconds and whether a fraction follows.   *)
(***************************************************************************)
EXTENDS Naturals

CONSTANT WordMax    \* u64::MAX

ASSUME CpuAssumption == WordMax \in Nat \ {0}

Duration == [secs : 0 .. WordMax, fraction : BOOLEAN]
NoLimit == {}       \* an Option is a set of at most one element
RLIM_INFINITY == WordMax

\* checked_add(1) is the successor, or nothing when the word would overflow.
CheckedSucc(n) == IF n < WordMax THEN {n + 1} ELSE {}

Rounded(d) == IF d.fraction THEN CheckedSucc(d.secs) ELSE {d.secs}

\* Fault: what is representable is taken for finite.
Representable(n) == {n}

checked_finite_rlim_t(n) == {n} \ {RLIM_INFINITY}

\* The prepared pairs: at most one, and none when the request fails closed.
Prepare(d) ==
    {[rlim_cur |-> soft, rlim_max |-> soft + 1] :
        soft \in {s \in Rounded(d) :
                    /\ d # [secs |-> 0, fraction |-> FALSE]
                    /\ \E hard \in CheckedSucc(s) :
                          /\ checked_finite_rlim_t(s) # {}
                          /\ checked_finite_rlim_t(hard) # {}}}

\* A requested limit that cannot be enforced; decide's other two outcomes are
\* no request and a prepared pair.
FailsClosed(cpu) == \E d \in cpu : Prepare(d) = {}
=============================================================================
