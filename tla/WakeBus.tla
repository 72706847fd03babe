------------------------------ MODULE WakeBus ------------------------------
(***************************************************************************)
(* The wake bus of wake/service.py, the attention router of                *)
(* wake/attention.py, and the loop that runs wakes and reviews.            *)
(*                                                                         *)
(* Hits are emitted by ingesting threads while the loop, of which the      *)
(* writer lease allows one, is inside a model call. A bus operation that   *)
(* rereads its wake and commits the next revision is one action, for the   *)
(* store refuses it if anybody wrote the wake in between. emit decides on  *)
(* a listing it read before, so it is two actions. A hit may be emitted    *)
(* any number of times, by one thread at a time: two would send the store  *)
(* the same request under the same key, which it answers without a write.  *)
(* What step 0, the budget and the clock decide is left open.              *)
(***************************************************************************)
EXTENDS Naturals, FiniteSets

CONSTANTS
    Scope,        \* source, rule and dedupe key
    Signal,       \* signal ids: one per distinct hit
    ScopeOf,      \* Signal -> Scope
    TimeOf,       \* Signal -> the moment it was observed
    ClassOf,      \* Signal -> the attention class it asks for
    Contract,     \* Scope -> the execution contract its wakes may be bundled under
    Cooldown,     \* Scope -> cooldown_seconds of its rule
    BatchWindow,  \* background_batch_window_seconds
    MaxBundle,    \* background_bundle_max_wakes
    Emitters,     \* threads that may be inside emit at once
    None

Class == {"review_queue", "background", "interrupt"}

ASSUME BusConstantsOK ==
    /\ ScopeOf \in [Signal -> Scope]
    /\ TimeOf \in [Signal -> Nat]
    /\ ClassOf \in [Signal -> Class]
    /\ Contract \in [Scope -> {"c14", "default", "never"}]
    /\ Cooldown \in [Scope -> Nat]
    /\ BatchWindow \in Nat /\ MaxBundle \in Nat \ {0, 1} /\ Emitters \in Nat
    /\ None \notin {"run", "review"}

VARIABLES
    wake,      \* the current revision of each wake object
    delivered, \* wake id -> the hits a proactive message to the user was about
    emission,  \* Signal -> the emit call in progress for it
    loop       \* the dispatch and review loop

busVars == <<wake, delivered, emission, loop>>

HitId(s) == [kind |-> "hit", scope |-> ScopeOf[s], at |-> TimeOf[s]]
HushId(s) == [kind |-> "cooldown", scope |-> ScopeOf[s], at |-> TimeOf[s]]
BundleId(members) == [kind |-> "bundle", members |-> members]

SignalWakeId == {HitId(s) : s \in Signal} \cup {HushId(s) : s \in Signal}
WakeId == SignalWakeId \cup {BundleId(M) : M \in SUBSET SignalWakeId}

Pending == {"new", "queued"}
Open == Pending \cup {"running"}
WakeState == Open \cup {"merged", "completed", "suppressed"}

Wake == [state : WakeState, signals : (SUBSET Signal) \ {{}}, incomplete : BOOLEAN,
         ended : {None, "run", "review"}]

Emission == [pc : {"idle", "merge", "hush", "create"}, latest : WakeId \cup {None},
             current : BOOLEAN]

Loop == [pc : {"idle", "claim", "run", "told", "review"}, id : WakeId \cup {None},
         shown : SUBSET Signal, ids : SUBSET WakeId]

BusTypeOK ==
    /\ DOMAIN wake \subseteq WakeId
    /\ wake \in [DOMAIN wake -> Wake]
    /\ DOMAIN delivered \subseteq DOMAIN wake
    /\ delivered \in [DOMAIN delivered -> (SUBSET Signal) \ {{}}]
    /\ emission \in [Signal -> Emission]
    /\ loop \in Loop

NoEmission == [pc |-> "idle", latest |-> None, current |-> FALSE]
IdleLoop == [pc |-> "idle", id |-> None, shown |-> {}, ids |-> {}]

BusInit ==
    /\ wake = <<>> /\ delivered = <<>>
    /\ emission = [s \in Signal |-> NoEmission]
    /\ loop = IdleLoop

-----------------------------------------------------------------------------
IsSignalWake(i) == i.kind # "bundle"
IsPending(i) == wake[i].state \in Pending

\* default_attention_class and the rank kept by merges: the most urgent hit decides.
ClassOfWake(i) ==
    LET asked == {ClassOf[s] : s \in wake[i].signals} IN
    IF i.kind = "bundle" THEN "background"
    ELSE IF "interrupt" \in asked THEN "interrupt"
    ELSE IF "background" \in asked THEN "background"
    ELSE "review_queue"

SameScope(s) == {i \in DOMAIN wake : IsSignalWake(i) /\ i.scope = ScopeOf[s]}
Recorded(s) == \E i \in SameScope(s) : s \in wake[i].signals

\* last_hit_at >= t, and last_hit_at <= t.
HitSince(i, t) == \E s \in wake[i].signals : TimeOf[s] >= t
HitsUpTo(i, t) == \A s \in wake[i].signals : TimeOf[s] <= t

\* The newest wakes of the scope: those no other was hit after.
Latest(s) ==
    {i \in SameScope(s) : \A j \in SameScope(s) : \A x \in wake[j].signals : HitSince(i, TimeOf[x])}

NewWake(state, signals) ==
    [state |-> state, signals |-> signals, incomplete |-> FALSE, ended |-> None]

Put(i, w) == [k \in DOMAIN wake \cup {i} |-> IF k = i THEN w ELSE wake[k]]

\* Calls of emit that have read one of these wakes no longer hold its last revision.
Outdate(ids) ==
    [s \in Signal |-> IF emission[s].latest \in ids
                      THEN [emission[s] EXCEPT !.current = FALSE]
                      ELSE emission[s]]

-----------------------------------------------------------------------------
(* emit.                                                                   *)

Mergeable(i) == wake[i].state \in Pending

CoolingDown(i, s) ==
    /\ wake[i].state \in {"completed", "suppressed"}
    /\ \E x \in wake[i].signals : TimeOf[s] < TimeOf[x] + Cooldown[ScopeOf[s]]

Decision(i, s) ==
    IF Mergeable(i) THEN "merge" ELSE IF CoolingDown(i, s) THEN "hush" ELSE "create"

\* The scope is listed: an exact retry is recognised and an out-of-order hit refused,
\* without a write; otherwise the newest wake of the scope decides.
EmitReads(s) ==
    /\ emission[s].pc = "idle"
    /\ Cardinality({x \in Signal : emission[x].pc # "idle"}) < Emitters
    /\ ~Recorded(s)
    /\ \/ /\ SameScope(s) = {}
          /\ emission' = [emission EXCEPT ![s] = [NoEmission EXCEPT !.pc = "create"]]
       \/ \E i \in Latest(s) :
             /\ HitsUpTo(i, TimeOf[s])
             /\ emission' = [emission EXCEPT ![s] =
                   [pc |-> Decision(i, s), latest |-> i, current |-> TRUE]]
    /\ UNCHANGED <<wake, delivered, loop>>

\* Mistaken variant: the merge is written whatever has become of the wake.
MergesBlindly(s) ==
    LET i == emission[s].latest IN
    /\ emission[s].pc = "merge"
    /\ wake' = [wake EXCEPT ![i].signals = @ \cup {s}]
    /\ emission' = [Outdate({i}) EXCEPT ![s] = NoEmission]
    /\ UNCHANGED <<delivered, loop>>

EmitMerges(s) ==
    LET i == emission[s].latest IN
    /\ emission[s].pc = "merge"
    /\ emission[s].current
    /\ wake' = [wake EXCEPT ![i].signals = @ \cup {s}]
    /\ emission' = [Outdate({i}) EXCEPT ![s] = NoEmission]
    /\ UNCHANGED <<delivered, loop>>

\* Revision 1 of a wake whose identity is its scope and moment.
Creates(s, i, state) ==
    /\ i \notin DOMAIN wake
    /\ wake' = Put(i, NewWake(state, {s}))
    /\ emission' = [emission EXCEPT ![s] = NoEmission]
    /\ UNCHANGED <<delivered, loop>>

EmitCreates(s) == emission[s].pc = "create" /\ Creates(s, HitId(s), "new")
EmitHushes(s) == emission[s].pc = "hush" /\ Creates(s, HushId(s), "suppressed")

\* The commit is refused, or the thread dies: nothing was written.
EmitFails(s) ==
    /\ emission[s].pc # "idle"
    /\ emission' = [emission EXCEPT ![s] = NoEmission]
    /\ UNCHANGED <<wake, delivered, loop>>

-----------------------------------------------------------------------------
(* run_wake.                                                               *)

Bundleable(i) ==
    /\ IsSignalWake(i)
    /\ IsPending(i)
    /\ ClassOfWake(i) = "background"
    /\ Contract[i.scope] # "never"
    /\ ~wake[i].incomplete

\* Background wakes first hit in the anchor's window, under the anchor's contract.
Siblings(i) ==
    {j \in DOMAIN wake :
        Bundleable(j) /\ Contract[j.scope] = Contract[i.scope]
                      /\ i.at <= j.at /\ j.at <= i.at + BatchWindow}

\* The first MaxBundle of them; an anchor that ties with many may be left out.
BundleMembers(i) ==
    {M \in SUBSET Siblings(i) :
        /\ Cardinality(M) >= 2
        /\ \/ M = Siblings(i) /\ Cardinality(M) <= MaxBundle
           \/ Cardinality(M) = MaxBundle /\ \A j \in M, k \in Siblings(i) \ M : j.at <= k.at}

\* One commit: the bundle, with its evidence, and its members.
BundledWith(M, evidence, memberState) ==
    [k \in DOMAIN wake \cup {BundleId(M)} |->
        IF k = BundleId(M) THEN NewWake("new", evidence)
        ELSE IF k \in M THEN [wake[k] EXCEPT !.state = memberState]
        ELSE wake[k]]

EvidenceOf(M) == UNION {wake[j].signals : j \in M}

\* Mistaken variants: the members stay pending; their evidence is not taken.
BundledWithoutMerge(M) == BundledWith(M, EvidenceOf(M), "new")
BundledFromNone(M) == BundledWith(M, {}, "merged")

Bundled(M) == BundledWith(M, EvidenceOf(M), "merged")

\* The caller names a wake; a background wake is bundled with its siblings first.
Pick(i) ==
    /\ loop.pc = "idle"
    /\ i \in DOMAIN wake /\ wake[i].state \in Open
    /\ IF Bundleable(i) /\ BundleMembers(i) # {}
       THEN \E M \in BundleMembers(i) :
               /\ wake' = Bundled(M)
               /\ emission' = Outdate(M)
               /\ loop' = [IdleLoop EXCEPT !.pc = "claim",
                                           !.id = IF i \in M THEN BundleId(M) ELSE i]
       ELSE /\ loop' = [IdleLoop EXCEPT !.pc = "claim", !.id = i]
            /\ UNCHANGED <<wake, emission>>
    /\ UNCHANGED delivered

\* A write of the bus to the wake in hand.
Write(i, w) == wake' = [wake EXCEPT ![i] = w] /\ emission' = Outdate({i})

\* Mistaken variant: the resident is shown only the hit that created the wake.
ClaimShowsFirst(i) ==
    /\ ClassOfWake(i) # "review_queue"
    /\ wake[i].state \in Open
    /\ Write(i, [wake[i] EXCEPT !.state = "running"])
    /\ loop' = [loop EXCEPT !.pc = "run", !.shown =
                   {s \in wake[i].signals : \A x \in wake[i].signals : TimeOf[s] <= TimeOf[x]}]

\* Step 0 lets the wake through; the model is shown all the evidence it carries.
Claim(i) ==
    /\ ClassOfWake(i) # "review_queue"
    /\ wake[i].state \in Open
    /\ Write(i, [wake[i] EXCEPT !.state = "running"])
    /\ loop' = [loop EXCEPT !.pc = "run", !.shown = wake[i].signals]

\* Step 0 holds it back for now. A running wake stays as it is.
Defer(i) ==
    /\ \/ wake[i].state = "new" /\ Write(i, [wake[i] EXCEPT !.state = "queued"])
       \/ wake[i].state # "new" /\ UNCHANGED <<wake, emission>>
    /\ loop' = IdleLoop

\* The budget denies it for good.
Suppress(i) ==
    /\ wake[i].state \in Open
    /\ Write(i, [wake[i] EXCEPT !.state = "suppressed"])
    /\ loop' = IdleLoop

\* complete: a wake that is terminal already is left alone.
Complete(i, how) ==
    IF wake[i].state \in Open
    THEN Write(i, [wake[i] EXCEPT !.state = "completed", !.ended = how])
    ELSE UNCHANGED <<wake, emission>>

\* A message about this wake is in the world: the run that sent it died before its
\* wake was completed. Nothing is inferred again.
RecoverDelivery(i) ==
    /\ i \in DOMAIN delivered
    /\ IF wake[i].state = "running" THEN Complete(i, "run") ELSE UNCHANGED <<wake, emission>>
    /\ loop' = IdleLoop

\* Mistaken variant: a durable delivery is not looked for.
GateForgets(i) == Claim(i) \/ Defer(i) \/ Suppress(i)

GateOf(i) ==
    \/ RecoverDelivery(i)
    \/ i \notin DOMAIN delivered /\ (Claim(i) \/ Defer(i) \/ Suppress(i))

Gate == loop.pc = "claim" /\ GateOf(loop.id) /\ UNCHANGED delivered

IsDerivation(i) ==
    IF IsSignalWake(i) THEN Contract[i.scope] = "c14"
    ELSE \A j \in i.members : Contract[j.scope] = "c14"

\* requeue_runtime_incomplete: only cognitive derivation may end half done.
Requeue(i) ==
    /\ IsDerivation(i)
    /\ IF wake[i].state = "running"
       THEN Write(i, [wake[i] EXCEPT !.state = "queued", !.incomplete = TRUE])
       ELSE UNCHANGED <<wake, emission>>

\* A proactive message to the user is committed before the wake is completed. Step 0
\* allows it for interrupts only.
Deliver ==
    LET i == loop.id IN
    /\ loop.pc = "run"
    /\ ClassOfWake(i) = "interrupt" /\ ~IsDerivation(i)
    /\ delivered' = [k \in DOMAIN delivered \cup {i} |-> IF k = i THEN loop.shown ELSE delivered[k]]
    /\ loop' = [loop EXCEPT !.pc = "told"]
    /\ UNCHANGED <<wake, emission>>

FinishRun ==
    /\ \/ loop.pc \in {"run", "told"} /\ Complete(loop.id, "run")
       \/ loop.pc = "run" /\ Requeue(loop.id)
    /\ loop' = IdleLoop
    /\ UNCHANGED delivered

-----------------------------------------------------------------------------
(* run_periodic_review, as far as it consumes the review queue.            *)

ReviewQueue == {i \in DOMAIN wake : IsSignalWake(i) /\ IsPending(i) /\ ClassOfWake(i) = "review_queue"}

\* The wakes whose evidence is among the anchors of the review will be consumed when
\* it is over, with the hits they carry by then.
ReviewBegins ==
    /\ loop.pc = "idle"
    /\ \E ids \in SUBSET ReviewQueue : loop' = [IdleLoop EXCEPT !.pc = "review", !.ids = ids]
    /\ UNCHANGED <<wake, delivered, emission>>

ReviewConsumes(i) ==
    /\ loop.pc = "review" /\ i \in loop.ids
    /\ IF IsPending(i) THEN Complete(i, "review") ELSE UNCHANGED <<wake, emission>>
    /\ loop' = [loop EXCEPT !.ids = @ \ {i}]
    /\ UNCHANGED delivered

\* The process dies, an exception unwinds the loop, or the review is over.
LoopLeaves ==
    /\ loop.pc # "idle"
    /\ loop' = IdleLoop
    /\ UNCHANGED <<wake, delivered, emission>>

-----------------------------------------------------------------------------
Emit(s) == EmitReads(s) \/ EmitMerges(s) \/ EmitCreates(s) \/ EmitHushes(s) \/ EmitFails(s)

BusNext ==
    \/ \E s \in Signal : Emit(s)
    \/ \E i \in DOMAIN wake : Pick(i) \/ ReviewConsumes(i)
    \/ Gate \/ Deliver \/ FinishRun \/ ReviewBegins \/ LoopLeaves

BusSpec == BusInit /\ [][BusNext]_busVars

-----------------------------------------------------------------------------
(* Properties.                                                             *)

Live(i) == wake[i].state # "merged"
Carries(s, states) == \E i \in DOMAIN wake : s \in wake[i].signals /\ wake[i].state \in states

Hit ==
    [s \in Signal |-> IF Carries(s, Open) THEN "owed"
                      ELSE IF Carries(s, {"completed"}) THEN "handled"
                      ELSE IF Carries(s, {"suppressed"}) THEN "hushed"
                      ELSE "unseen"]

\* Whatever emits, merges, bundles, crashes and reviews do: an accepted hit is never
\* lost, is handled once, and a settled hit does not come back.
Ledger == INSTANCE HitLedger WITH hit <- Hit
HitsSettledOnce == Ledger!HSpec

\* A hit is carried by one live wake only: bundling moves it and a retry does not
\* copy it, so no two runs are about the same hit.
OneLiveWakePerHit ==
    \A i, j \in DOMAIN wake :
        Live(i) /\ Live(j) /\ wake[i].signals \cap wake[j].signals # {} => i = j

\* A wake is completed by a run only if the resident, or the user, was shown every hit
\* it carries, whatever arrived while the model was thinking or the process was down.
Told(i) == IF i \in DOMAIN delivered THEN delivered[i] ELSE loop.shown
HandledMeansShown ==
    [][\A i \in DOMAIN wake :
          wake[i].ended = None /\ wake'[i].ended = "run" => wake[i].signals \subseteq Told(i)]_busVars

\* The user is told once: a wake whose message is in the world is not given to the model
\* again, and stays running until it is completed, through any crash.
DeliveredOnce ==
    \A i \in DOMAIN delivered :
        /\ wake[i].state \in {"running", "completed"}
        /\ ~(loop.pc = "run" /\ loop.id = i)

\* Cooldown suppresses another model invocation: emit does not decide to create a wake
\* within the cooldown of a hit of the scope that has been handled.
CooldownSuppresses ==
    [][\A s, x \in Signal :
          emission[s].pc = "idle" /\ emission'[s].pc = "create"
              /\ ScopeOf[x] = ScopeOf[s] /\ Hit[x] = "handled"
          => TimeOf[s] >= TimeOf[x] + Cooldown[ScopeOf[s]]]_busVars
=============================================================================
