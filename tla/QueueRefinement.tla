--------------------------- MODULE QueueRefinement ---------------------------
(* The Queue adapter implements FencedEffects.                             *)
EXTENDS QueueAdapter

\* The fence that holds message m: the one of its current claim, as long as
\* can_produce_protected_effect grants that claim authority.
HolderOf(m) ==
    IF m \in DOMAIN currentClaim /\ CanProduceProtectedEffect(currentClaim[m])
    THEN claims[currentClaim[m]].fence
    ELSE 0

\* The effect an accepted result stands for; its fence is the one of the first
\* submission.
EffectOf(r) == [slot   |-> SlotOf(acceptedResults[r]),
                result |-> r,
                fence  |-> resultSubmissions[r][1].fence]

Authority == INSTANCE FencedEffects WITH
    issued  <- fenceSequence,
    holder  <- [m \in Message |-> HolderOf(m)],
    effects <- {EffectOf(r) : r \in DOMAIN acceptedResults}

\* Seen through this mapping every step of the adapter grants a message to a
\* fresh fence, withdraws authority, commits one effect of the current holder
\* into an empty slot, or changes nothing: all the adapter's delivery, control,
\* failure and redrive handling never lets a second worker produce an effect.
ImplementsFencedEffects == Authority!Spec

==============================================================================
