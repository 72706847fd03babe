----------------------------- MODULE MCWakeBus -----------------------------
EXTENDS WakeBus, TLC

CONSTANTS steps, digest, weekly, diary,          \* scopes
          walked, ran, summed, recapped, noted   \* hits

Background == {walked, summed, recapped}

MCScopeOf == walked :> steps @@ ran :> steps @@ summed :> digest @@ recapped :> weekly @@ noted :> diary
MCTimeOf == ran :> 2 @@ [s \in {walked, summed, recapped, noted} |-> 1]
MCClassOf == ran :> "interrupt" @@ noted :> "review_queue" @@ [s \in Background |-> "background"]
MCContract == digest :> "c14" @@ weekly :> "c14" @@ [c \in {steps, diary} |-> "default"]
MCCooldown == steps :> 2 @@ [c \in {digest, weekly, diary} |-> 0]

\* No derivation scopes: the wakes of all scopes may share a bundle.
MCOneContract == [c \in {steps, digest, weekly, diary} |-> "default"]

\* The two derivation scopes, each with its hit, may be exchanged.
Symmetry ==
    {p \in Permutations({digest, weekly, summed, recapped}) :
        \/ p[digest] = digest /\ p[weekly] = weekly /\ p[summed] = summed
        \/ p[digest] = weekly /\ p[weekly] = digest /\ p[summed] = recapped /\ p[recapped] = summed}
=============================================================================
