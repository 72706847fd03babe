------------------------------- MODULE Cognition -------------------------------
(***************************************************************************)
(* What the assistant makes of the user's reality, and how a correction of *)
(* it spreads: claims and the evidence sets that support them              *)
(* (writeback/cognition.py), their revision (revision/), events            *)
(* (events/service.py), the policies it learns from them                   *)
(* (policy/service.py) and the summaries of days, weeks and whole days     *)
(* that a sweep keeps up with them (summaries/).                           *)
(*                                                                         *)
(* The world holds every revision of every object; a reference <<id, n>>   *)
(* pins one. Dependency records link a revision to the revisions it rests  *)
(* on. Turns and background runs write while a sweep is under way.         *)
(***************************************************************************)
EXTENDS Integers, FiniteSets, Sequences

CONSTANTS
    Reality,        \* observations of the user, of sensors, of platforms
    Claim, Event, Policy, Window,
    Turn, TurnOf,   \* [Claim -> Turn]: claims of one turn about one dimension share their evidence sets
    Scope,          \* [Window -> [of, below, cap, digest]]: what falls in a window
    Worker,
    Plan            \* bound: what a behaviour deals with

\* Objects are named by their kind, evidence sets by whom they were made for and what they say.
Named == Reality \cup Claim \cup Event \cup Policy \cup Window
SetName ==
    (Turn \cup Claim \cup Event \cup Policy) \X Nat \X SUBSET ((Reality \cup Claim \cup Event \cup Window) \X Nat)

ASSUME CognitionAssumption ==
    /\ TurnOf \in [Claim -> Turn]
    /\ Reality \cap (Claim \cup Event \cup Policy \cup Window \cup Turn) = {}
    /\ Claim \cap (Event \cup Policy \cup Window \cup Turn) = {}
    /\ Event \cap (Policy \cup Window \cup Turn) = {}
    /\ Policy \cap (Window \cup Turn) = {} /\ Window \cap Turn = {}
    /\ \A k \in Named : k \notin SetName
    /\ \A v \in Window : /\ Scope[v].of \subseteq Reality \cup Claim \cup Event \cup Turn
                         /\ Scope[v].below \subseteq Window \ {v}
                         /\ Scope[v].cap \in Nat \ {0} /\ Scope[v].digest \in BOOLEAN
    /\ \A p \in Plan : /\ p.known \subseteq p.reality /\ IsFiniteSet(p.known) /\ p.reality \subseteq Reality
                       /\ p.claim \subseteq Claim /\ p.event \subseteq Event /\ p.policy \subseteq Policy
                       /\ p.citable \subseteq Reality \cup Claim \cup Event \cup Window
                       /\ p.worker \subseteq Worker /\ p.ladder \in Seq(Window)
                       /\ {p.cites, p.revisions, p.failures} \subseteq Nat

VARIABLES
    plan,       \* what this behaviour deals with, chosen at its start
    version,    \* every revision of every object: [life, stale, basis, by], by reference
    edge,       \* the dependency records: <<dependent, what it rests on>>
    worker,     \* the correction or change each worker is about to commit
    sweep,      \* where the summary sweep is
    derived,    \* summary revisions for which a derivation wake was emitted
    failures    \* answers that failed and sweeps that died

cognitionVars == <<plan, version, edge, worker, sweep, derived, failures>>

NoRequest == <<>>
Idle == [new |-> <<>>, links |-> {}, by |-> NoRequest, fresh |-> FALSE]
Resting == [pc |-> "resting", todo |-> <<>>, sources |-> {}, fresh |-> FALSE]

Unborn == [life |-> "active", stale |-> FALSE, basis |-> {}, by |-> NoRequest]

CognitionInit ==
    /\ plan \in Plan
    /\ version = [x \in {<<r, 1>> : r \in plan.known} |-> Unborn]
    /\ edge = {} /\ derived = {} /\ failures = 0
    /\ worker = [w \in plan.worker |-> Idle]
    /\ sweep = Resting

-----------------------------------------------------------------------------
(* The world store.                                                        *)

References == DOMAIN version
Rev(id) == Cardinality({x \in References : x[1] = id})
IsNewest(x) == x[2] = Rev(x[1])
Next1(x) == <<x[1], x[2] + 1>>

\* A commit writes revisions, each following the newest of its object, and their links.
Follows(x) == x[2] = Rev(x[1]) + 1

Written(new, links) ==
    /\ \A x \in DOMAIN new : Follows(x)
    /\ version' = [x \in References \cup DOMAIN new |-> IF x \in DOMAIN new THEN new[x] ELSE version[x]]
    /\ edge' = edge \cup links

\* Every commit moves the world revision under those who read it before.
WorldMoves(ws) ==
    worker' = [w \in plan.worker |-> IF w \in ws THEN Idle ELSE [worker[w] EXCEPT !.fresh = FALSE]]

Overtaken == [sweep EXCEPT !.fresh = FALSE]

\* Mistaken variant: the call names the world revision of the moment of its commit.
UnchangedOrNot(w) == TRUE

\* The world is at the revision the call read.
Unchanged(w) == worker[w].fresh

\* What is reached from S, any number of steps away.
Reached(next, S) ==
    LET all[T \in SUBSET DOMAIN next] ==
            LET R == T \cup UNION {next[y] : y \in T} IN IF R = T THEN T ELSE all[R]
    IN  all[S]

\* What depends on a revision, at any remove.
Dependents == [y \in References |-> {l[1] : l \in {k \in edge : k[2] = y}}]
Impacted(x) == Reached(Dependents, {x}) \ {x}

-----------------------------------------------------------------------------
(* Evidence.                                                               *)

Links(x, S) == {<<x, y>> : y \in S}

\* What is reached without leaning on a claim: sets, summaries and events are looked through.
Underlying(cited) == Reached([y \in References |-> IF y[1] \in Claim THEN {} ELSE version[y].basis], cited)

\* Evidence leads to reality.
Grounded(cited) == \E y \in Underlying(cited) : y[1] \in Reality

\* (Evidence need not be current; sets themselves are not cited here.)
Citations ==
    {S \in SUBSET {x \in References : x[1] \in plan.citable} :
        Cardinality(S) \in 1 .. plan.cites}

Supported(basis, life) == [life |-> life, stale |-> FALSE, basis |-> basis, by |-> NoRequest]

-----------------------------------------------------------------------------
(* Claims and events.                                                      *)

RealityArrives(r) ==
    /\ Rev(r) = 0
    /\ Written([x \in {<<r, 1>>} |-> Unborn], {})
    /\ WorldMoves({}) /\ sweep' = Overtaken
    /\ UNCHANGED <<plan, derived, failures>>

\* The set of this evidence in this turn, at its newest revision.
SetUsed(s) == <<s, IF Rev(s) = 0 THEN 1 ELSE Rev(s)>>

\* Mistaken variant: the dependency names the first revision of the set.
ClaimLinkToFirst(c, s) == Links(<<c, 1>>, {<<s, 1>>})

ClaimLink(c, s) == Links(<<c, 1>>, {SetUsed(s)})

\* A set already there is used as it is, its own links are not written again.
ClaimLinks(c, s) == ClaimLink(c, s) \cup (IF Rev(s) = 0 THEN Links(<<s, 1>>, s[3]) ELSE {})

\* The claim, and its set unless that is there.
ClaimBundle(c, s) ==
    [x \in {<<c, 1>>} \cup (IF Rev(s) = 0 THEN {<<s, 1>>} ELSE {}) |->
        Supported(IF x[1] = c THEN {SetUsed(s)} ELSE s[3], "active")]

\* commit_claim.
ClaimIsWritten(c, cited) ==
    LET s == <<TurnOf[c], 1, cited>> IN
    /\ Rev(c) = 0 /\ Grounded(cited)
    /\ Written(ClaimBundle(c, s), ClaimLinks(c, s))
    /\ WorldMoves({}) /\ sweep' = Overtaken
    /\ UNCHANGED <<plan, derived, failures>>

\* form_event: what it cites need only exist.
EventIsFormed(e, cited) ==
    LET s == <<<<e, 1, cited>>, 1>> IN
    /\ Rev(e) = 0
    /\ Written([x \in {<<e, 1>>, s} |-> IF x = s THEN Supported(cited, "active") ELSE Supported({s}, "candidate")],
               Links(<<e, 1>>, {s}) \cup Links(s, cited))
    /\ WorldMoves({}) /\ sweep' = Overtaken
    /\ UNCHANGED <<plan, derived, failures>>

ClaimMoves == [active |-> {"active", "retracted"}, retracted |-> {}]

Reconsidered == {"active", "resolved", "revised", "rejected", "merged", "split"}
EventMoves ==
    [candidate |-> Reconsidered \ {"resolved"},
     active    |-> Reconsidered \ {"active"},
     revised   |-> Reconsidered,
     resolved  |-> {"revised"},
     rejected  |-> {"revised"},
     merged    |-> {},
     split     |-> {}]

Moves(x) == IF x[1] \in Claim THEN ClaimMoves[version[x].life] ELSE EventMoves[version[x].life]

\* An invalidated revision is marked for review, a policy by a version that nobody asked
\* for; a claim loses what it was before.
Marked(x) ==
    [life |-> IF x[1] \in Claim THEN "active" ELSE version[x].life, stale |-> TRUE,
     basis |-> version[x].basis, by |-> NoRequest]

\* The new revision. A claim that is retracted, and an event whatever becomes of it,
\* keep naming the evidence they had, but are linked to the new evidence only.
ClaimRevised(x, to, s) ==
    Supported({s} \cup (IF to = "active" THEN {} ELSE version[x].basis), to)

EventRevised(x, to, s, related) == Supported({s} \cup related \cup version[x].basis, to)

Corrected(x, to, s, related) ==
    IF x[1] \in Claim THEN ClaimRevised(x, to, s) ELSE EventRevised(x, to, s, related)

\* plan_invalidation: what still depends on the superseded revision and is at its newest
\* gets a new revision, which is linked to the one that was superseded.
Hit(x) == {y \in Impacted(x) : IsNewest(y)}
HitLinks(x) == {<<Next1(y), x>> : y \in Hit(x)}

\* The new evidence, the new revision, and the marks.
CorrectionBundle(x, to, s, related) ==
    [y \in {s, Next1(x)} \cup {Next1(z) : z \in Hit(x)} |->
        CASE y = s -> Supported(s[1][3], "active")
          [] y = Next1(x) -> Corrected(x, to, s, related)
          [] OTHER -> Marked(<<y[1], y[2] - 1>>)]

\* The new revision rests on the new evidence, and on that only.
CorrectionLinks(x, s, related) == Links(Next1(x), {s} \cup related) \cup Links(s, s[1][3])

\* A claim is revised or retracted, or an event moves on: the world is read, and what the
\* commit will write is decided.
CorrectionIsAsked(w, x, to, cited, related) ==
    LET s == <<<<x[1], x[2] + 1, cited>>, 1>> IN
    /\ worker[w] = Idle /\ IsNewest(x) /\ x[2] < plan.revisions
    /\ to \in Moves(x)
    /\ x[1] \in Claim => Grounded(cited)
    /\ worker' = [worker EXCEPT ![w] =
          [new |-> CorrectionBundle(x, to, s, related),
           links |-> CorrectionLinks(x, s, related) \cup HitLinks(x),
           by |-> NoRequest,
           fresh |-> TRUE]]
    /\ UNCHANGED <<plan, version, edge, sweep, derived, failures>>

CorrectionIsCommitted(w) ==
    /\ worker[w] # Idle /\ worker[w].by = NoRequest /\ Unchanged(w)
    /\ Written(worker[w].new, worker[w].links)
    /\ WorldMoves({w}) /\ sweep' = Overtaken
    /\ UNCHANGED <<plan, derived, failures>>

WorkerStops(w) ==
    /\ worker[w] # Idle
    /\ worker' = [worker EXCEPT ![w] = Idle]
    /\ UNCHANGED <<plan, version, edge, sweep, derived, failures>>

-----------------------------------------------------------------------------
(* Policies.                                                               *)

\* Evidence of a policy is current and active. (The assistant may cite reality only, who
\* maintains it anything. Summaries are left out.)
IsCase(x) ==
    /\ x[1] \notin Window /\ IsNewest(x) /\ ~version[x].stale
    /\ version[x].life \in {"active", "candidate", "revised"}

\* The version that takes effect, with an evidence set of its own if it has evidence.
Change(w, p, act, cited, target) ==
    LET n == Rev(p) + 1
        s == <<<<p, n, cited>>, 1>>
        sets == IF cited = {} THEN {} ELSE {s}
        request == <<p, act, cited, target>>
    IN
    /\ worker[w] = Idle /\ n <= plan.revisions
    /\ \A x \in cited : IsCase(x)
    /\ worker' = [worker EXCEPT ![w] =
          [new |-> [y \in sets \cup {<<p, n>>} |->
                       IF y = s THEN Supported(cited, "active")
                       ELSE [Supported(sets, "active") EXCEPT !.by = request]],
           links |-> Links(<<p, n>>, sets) \cup Links(s, cited),
           by |-> request,
           fresh |-> TRUE]]
    /\ UNCHANGED <<plan, version, edge, sweep, derived, failures>>

\* Maintenance may register a policy, or roll it back, without evidence.
RegistrationIsAsked(w, p, cited) ==
    /\ Rev(p) = 0
    /\ Change(w, p, "register", cited, 0)

UpdateIsAsked(w, p, cited) ==
    /\ Rev(p) > 0 /\ cited # {}
    /\ Change(w, p, "update", cited, 0)

\* The value of an older version takes effect again, on the evidence given now.
RollbackIsAsked(w, p, cited, target) ==
    /\ target \in 1 .. Rev(p) - 1
    /\ Change(w, p, "rollback", cited, target)

\* Mistaken variant: the key of a request names the version it would make.
RecordedAsVersion(w) == \E x \in References \cap DOMAIN worker[w].new : version[x].by = worker[w].by

\* The request was carried out before: its key is that of what it says, times included.
Recorded(w) == \E x \in References : version[x].by = worker[w].by

\* A request that was carried out is answered from the record, whatever has become of
\* the policy, and changes nothing.
PolicyIsChanged(w) ==
    /\ worker[w].by # NoRequest
    /\ IF Recorded(w)
       THEN /\ worker' = [worker EXCEPT ![w] = Idle]
            /\ UNCHANGED <<version, edge, sweep>>
       ELSE /\ Unchanged(w)
            /\ Written(worker[w].new, worker[w].links)
            /\ WorldMoves({w}) /\ sweep' = Overtaken
    /\ UNCHANGED <<plan, derived, failures>>

-----------------------------------------------------------------------------
(* Summaries.                                                              *)

IsSet(x) == x[1] \notin Reality \cup Claim \cup Event \cup Policy \cup Window

Admissible(x) ==
    /\ IsNewest(x) /\ ~version[x].stale
    /\ version[x].life \notin {"retracted", "rejected", "merged", "split"}

InWindow(x, v) ==
    IF IsSet(x) THEN x[1][1] \in Scope[v].of \cap Turn ELSE x[1] \in Scope[v].of \cup Scope[v].below

Selected(v) == {x \in References : InWindow(x, v) /\ Admissible(x)}

Summarized(v) == Rev(v) > 0 /\ ~version[<<v, Rev(v)>>].stale

\* Where the sweep is, and what comes after it.
Here == Head(sweep.todo)
Going(windows) == [pc |-> "next", todo |-> windows, sources |-> {}, fresh |-> FALSE]
Onward == IF Len(sweep.todo) = 1 THEN Resting ELSE Going(Tail(sweep.todo))

Derivable(v) == Summarized(v) /\ Grounded({<<v, Rev(v)>>})
Emit(new) ==
    /\ derived' = derived \cup new
    /\ IF new \subseteq derived THEN UNCHANGED worker ELSE WorldMoves({})

\* A sweep first makes up for derivation wakes that were never emitted.
SweepStarts ==
    /\ sweep.pc = "resting" /\ plan.ladder # <<>>
    /\ Emit({<<v, Rev(v)>> : v \in {u \in Window : Derivable(u)}})
    /\ sweep' = Going(plan.ladder)
    /\ UNCHANGED <<plan, version, edge, failures>>

WindowIsSelected ==
    /\ sweep.pc = "next"
    /\ sweep' = [pc |-> "selected", todo |-> sweep.todo, sources |-> Selected(Here), fresh |-> TRUE]
    /\ UNCHANGED <<plan, version, edge, worker, derived, failures>>

\* Too many sources, or the world moved while they were being selected.
Truncated ==
    ~Scope[Here].digest /\ (Cardinality(sweep.sources) > Scope[Here].cap \/ ~sweep.fresh)

\* Mistaken variant: a summary that was marked stale is not looked at again.
KeptIfSame(v) == Rev(v) > 0 /\ version[<<v, Rev(v)>>].basis = sweep.sources

\* The summary there is current and of these very sources.
Kept(v) == Summarized(v) /\ version[<<v, Rev(v)>>].basis = sweep.sources

WindowIsLeft ==
    /\ sweep.pc = "selected"
    /\ sweep.sources = {} \/ (~Truncated /\ Kept(Here))
    /\ sweep' = Onward
    /\ UNCHANGED <<plan, version, edge, worker, derived, failures>>

\* mark_stale_if_present. (What depends on the summary is not marked.)
WindowIsTruncated ==
    LET x == <<Here, Rev(Here)>> IN
    /\ sweep.pc = "selected" /\ sweep.sources # {} /\ Truncated
    /\ IF Summarized(Here)
       THEN /\ Written([y \in {Next1(x)} |-> Marked(x)], Links(Next1(x), version[x].basis))
            /\ WorldMoves({})
       ELSE UNCHANGED <<version, edge, worker>>
    /\ sweep' = Onward
    /\ UNCHANGED <<plan, derived, failures>>

ModelIsAsked ==
    /\ sweep.pc = "selected" /\ sweep.sources # {} /\ ~Truncated /\ ~Kept(Here)
    /\ sweep' = [sweep EXCEPT !.pc = "asked"]
    /\ UNCHANGED <<plan, version, edge, worker, derived, failures>>

\* Mistaken variant: the sources are taken as they were prepared.
AsPrepared(v) == TRUE

\* All sources are still current and, of a single dimension, there are no others by now.
Whole(v) ==
    /\ sweep.sources \subseteq Selected(v)
    /\ ~Scope[v].digest => sweep.sources = Selected(v)

SummaryIsCommitted ==
    LET x == <<Here, Rev(Here) + 1>> IN
    /\ sweep.pc = "asked" /\ Whole(Here)
    /\ Written([y \in {x} |-> Supported(sweep.sources, "active")], Links(x, sweep.sources))
    /\ WorldMoves({})
    /\ sweep' = [pc |-> "committed", todo |-> sweep.todo, sources |-> sweep.sources, fresh |-> FALSE]
    /\ UNCHANGED <<plan, derived, failures>>

SummaryIsRefused ==
    /\ sweep.pc = "asked" /\ ~Whole(Here)
    /\ sweep' = Onward
    /\ UNCHANGED <<plan, version, edge, worker, derived, failures>>

DerivationIsScheduled ==
    /\ sweep.pc = "committed"
    /\ Emit(IF Derivable(Here) THEN {<<Here, Rev(Here)>>} ELSE {})
    /\ sweep' = Onward
    /\ UNCHANGED <<plan, version, edge, failures>>

\* The model does not answer, or answers nothing: the window is left for the next sweep.
ModelFails ==
    /\ sweep.pc = "asked" /\ failures < plan.failures
    /\ failures' = failures + 1 /\ sweep' = Onward
    /\ UNCHANGED <<plan, version, edge, worker, derived>>

SweeperStops ==
    /\ sweep.pc # "resting" /\ failures < plan.failures
    /\ failures' = failures + 1 /\ sweep' = Resting
    /\ UNCHANGED <<plan, version, edge, worker, derived>>

-----------------------------------------------------------------------------
Sweep ==
    \/ SweepStarts \/ WindowIsSelected \/ WindowIsLeft \/ WindowIsTruncated \/ ModelIsAsked
    \/ SummaryIsCommitted \/ SummaryIsRefused \/ DerivationIsScheduled

Correct(w, x) ==
    \E to \in Moves(x), cited \in Citations :
        \E related \in SUBSET {y \in References : y[1] \in Event \ {x[1]}} :
            /\ CASE to = "merged" -> Cardinality(related) = 1
                 [] to = "split" -> related # {}
                 [] OTHER -> related = {}
            /\ CorrectionIsAsked(w, x, to, cited, related)

Learn(w, p) ==
    \E cited \in Citations \cup {{}} :
        \/ RegistrationIsAsked(w, p, cited) \/ UpdateIsAsked(w, p, cited)
        \/ \E target \in 1 .. plan.revisions : RollbackIsAsked(w, p, cited, target)

CognitionNext ==
    \/ \E r \in plan.reality : RealityArrives(r)
    \/ \E cited \in Citations :
          \/ \E c \in plan.claim : ClaimIsWritten(c, cited)
          \/ \E e \in plan.event : EventIsFormed(e, cited)
    \/ \E w \in plan.worker :
          \/ \E x \in {y \in References : y[1] \in Claim \cup Event} : Correct(w, x)
          \/ \E p \in plan.policy : Learn(w, p)
          \/ CorrectionIsCommitted(w) \/ PolicyIsChanged(w) \/ WorkerStops(w)
    \/ Sweep \/ ModelFails \/ SweeperStops

CognitionSpec == CognitionInit /\ [][CognitionNext]_cognitionVars /\ WF_cognitionVars(Sweep)

-----------------------------------------------------------------------------
Lives == DOMAIN EventMoves \cup DOMAIN ClaimMoves

\* Types; revisions follow one another; and what the first revision of a claim, a set or
\* an event names, and what any summary names, is on record as a dependency.
CognitionTypeOK ==
    /\ \A x \in References :
          /\ version[x].life \in Lives /\ version[x].stale \in BOOLEAN
          /\ version[x].basis \subseteq References
          /\ x[2] > 1 => <<x[1], x[2] - 1>> \in References
          /\ (x[1] \in Window \/ x[2] = 1) /\ ~version[x].stale =>
                Links(x, version[x].basis) \subseteq edge
    /\ \A l \in edge : {l[1], l[2]} \subseteq References
    /\ derived \subseteq References /\ failures \in 0 .. plan.failures
    /\ sweep.pc \in {"resting", "next", "selected", "asked", "committed"}
    /\ sweep.sources \subseteq References

Superseded(x) ==
    x[1] \in Claim \cup Event /\ IsNewest(x) /\ Next1(x) \in DOMAIN version' /\ ~version'[Next1(x)].stale

\* A correction reaches everything: in the very commit that supersedes a claim or an event
\* by a newer understanding, all that depends on the old one, at any remove and however
\* recently written, is marked for review.
CorrectionReaches ==
    [][\A x \in References : Superseded(x) =>
          \A y \in Impacted(x) : IsNewest(y) =>
             Next1(y) \in DOMAIN version' /\ version'[Next1(y)].stale]_cognitionVars

\* A request to change a policy has one effect however often it is repeated, whatever has
\* become of the policy since, and every piece of evidence it has is current and active at
\* the moment the new version takes effect.
PoliciesAreLearned ==
    [][\A p \in plan.policy :
          LET x == <<p, Rev(p) + 1>> IN
          x \in DOMAIN version' /\ version'[x].by # NoRequest =>
             /\ \A y \in References : version[y].by # version'[x].by
             /\ \A s \in version'[x].basis : \A y \in version'[s].basis : IsCase(y)]_cognitionVars

\* What a summary shows, itself or in the summaries it is made of.
Sources == [y \in References |-> IF y[1] \in Window THEN version[y].basis ELSE {}]
Shown(v) == {y \in Reached(Sources, {<<v, Rev(v)>>}) : y[1] \notin Window}

\* No summary that passes for current, at whatever scale, shows a claim, an event or an
\* evidence set that has since been corrected, retracted or marked for review.
NothingCorrectedIsShown ==
    \A v \in Window : Summarized(v) => \A x \in Shown(v) : Admissible(x)

Settled ==
    \A v \in {plan.ladder[i] : i \in DOMAIN plan.ladder} :
        LET S == Selected(v)
            fits == Scope[v].digest \/ Cardinality(S) <= Scope[v].cap
        IN
        /\ S # {} /\ fits =>
              /\ Summarized(v) /\ version[<<v, Rev(v)>>].basis = S
              /\ Derivable(v) => <<v, Rev(v)>> \in derived
        /\ ~Scope[v].digest /\ (S = {} \/ ~fits) => ~Summarized(v)

\* When nothing more is written and the model answers, every window ends with a current
\* summary of exactly what is in it, its derivation wake emitted, whatever was corrected,
\* arrived late, failed or died on the way; what cannot be told whole is not told.
SummariesCatchUp == <>[]Settled
=============================================================================
