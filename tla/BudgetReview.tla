---------------------------- MODULE BudgetReview ----------------------------
(***************************************************************************)
(* Autonomous work under a daily budget: the gate that reserves model      *)
(* calls for a wake (runtime/budget_gate.py), and the periodic review that *)
(* is itself such a wake (review/periodic.py, run_periodic_review).        *)
(*                                                                         *)
(* Workers take wakes at a moment, ask the gate, claim and run them, and   *)
(* may die anywhere. The world moves on between the gate's reading and the *)
(* claim. Reviews page through the objects recorded in successive windows. *)
(***************************************************************************)
EXTENDS Integers, Sequences, FiniteSets, FiniteSetsExt, Functions

CONSTANTS
    Background,     \* background wakes of a derivation, which may end half done
    Object,         \* reviewable objects
    Worker,         \* threads or processes that take due work
    NoPolicy,       \* no BACKGROUND_DAY policy is active
    Policy,         \* [calls, wakes, hard]: the caps, and whether exceeding denies for good
    MaxRounds,      \* model rounds of one run: max_tool_rounds + 1
    MaxAttempts,    \* max_runtime_incomplete_attempts
    PageSize,       \* max_candidates
    Interval,       \* interval_hours
    Lag,            \* how late an object may be committed after its recorded_at
    DayLength,      \* ticks of a budget day
    MaxTime,        \* bound: the last tick
    MaxReviews,     \* bound: review markers
    MaxMetered,     \* bound: metered calls of a wake in a day
    Shape           \* bound: [background, object, reviews, workers, until]: how much a behaviour has

ASSUME BudgetAssumption ==
    /\ MaxRounds \in Nat \ {0} /\ MaxAttempts \in Nat \ {0} /\ PageSize \in Nat \ {0}
    /\ Interval \in Nat \ {0} /\ DayLength \in Nat \ {0} /\ Lag \in Nat
    /\ MaxTime \in Nat /\ MaxReviews \in Nat /\ MaxMetered \in Nat
    /\ NoPolicy \notin Policy
    /\ IsFiniteSet(Background) /\ IsFiniteSet(Object) /\ IsFiniteSet(Worker) /\ IsFiniteSet(Policy)
    /\ Background \cap Object = {} /\ Background \cap 0 .. MaxReviews = {}
    /\ Object \cap 0 .. MaxReviews = {}
    /\ \A s \in Shape : s.background \subseteq Background /\ s.object \subseteq Object
                           /\ s.reviews \in 0 .. MaxReviews /\ s.workers \in Nat /\ s.until \in 1 .. MaxTime
    /\ Policy \subseteq [calls : Nat, wakes : Nat, hard : BOOLEAN]

VARIABLES
    shape,     \* the shape of this behaviour, chosen at its start
    now,       \* the clock
    policy,    \* the active policy
    wake,      \* autonomous wakes: Background and the reviews, by number
    review,    \* what each review marker says: its window, its anchors, when it was hit
    meter,     \* model calls in the metering ledger, by wake and day
    object,    \* the reviewable objects committed
    queue,     \* objects a pending REVIEW_QUEUE wake asks to have reviewed
    worker     \* what each worker is doing

budgetVars == <<shape, now, policy, wake, review, meter, object, queue, worker>>

Never == -1
Day(t) == t \div DayLength
Days == 0 .. Day(MaxTime)
WakeId == Background \cup 1 .. MaxReviews
IsReview(i) == i \in 1 .. MaxReviews
Open == {"new", "queued", "running"}

NewWake == [state |-> "new", started |-> Never, reserved |-> 0, day |-> Never,
            attempts |-> 0, tried |-> Never, ended |-> Never]
Idle == [pc |-> "idle", id |-> 0, at |-> Never, limit |-> 0, reserve |-> 0,
         bare |-> FALSE, fresh |-> FALSE, current |-> FALSE, ran |-> 0, consume |-> {}]

BudgetInit ==
    /\ shape \in Shape
    /\ now = 1
    /\ policy \in Policy \cup {NoPolicy}
    /\ wake = [i \in shape.background |-> NewWake]
    /\ review = <<>>
    /\ meter = [i \in WakeId |-> [d \in Days |-> 0]]
    /\ object = [o \in Object |-> [at |-> Never, late |-> FALSE]]
    /\ queue = {}
    /\ worker = [w \in Worker |-> Idle]

-----------------------------------------------------------------------------
(* The gate.                                                               *)

\* Mistaken variant: a running wake is charged for what it has already spent.
ChargedAsSpent(i, d) ==
    IF wake[i].state \in {"queued", "running", "completed"} THEN meter[i][d] ELSE 0

\* The model calls a day is charged for a wake. A wake waiting to be resumed and a
\* finished one are charged what the ledger metered; a running one its reservation.
Charged(i, d) ==
    LET x == wake[i] IN
    CASE x.state = "queued" /\ x.attempts > 0 /\ Day(x.tried) = d -> meter[i][d]
      [] x.state = "running" /\ Day(x.started) = d ->
            IF x.reserved > 0 THEN x.reserved ELSE Max({1, meter[i][d]})
      [] x.state = "completed" /\ Day(x.ended) = d -> meter[i][d]
      [] OTHER -> 0

Others(i) == DOMAIN wake \ {i}
UsedCalls(i, d) == SumFunctionOnSet([j \in DOMAIN wake |-> Charged(j, d)], Others(i))
UsedWakes(i, d) == Cardinality({j \in Others(i) : Charged(j, d) > 0})

\* A wake about to be resumed pays for its own earlier rounds of the day.
OwnCalls(i, d) == IF wake[i].state = "queued" THEN Charged(i, d) ELSE 0

Remaining(i, d) == policy.calls - UsedCalls(i, d) - OwnCalls(i, d)
WakesLeft(i, d) == UsedWakes(i, d) + (IF OwnCalls(i, d) > 0 THEN 1 ELSE 0) < policy.wakes

\* Reserved today and still running: it may have been spent, so it is not retried today.
AlreadyReserved(i, d) == wake[i].state = "running" /\ wake[i].day = d

\* A review is not begun unless all of its rounds fit.
Affordable(i, d) == Remaining(i, d) >= (IF IsReview(i) THEN MaxRounds ELSE 1)

\* The rounds a run may take are reserved by its claim.
Granted(n) == [pc |-> "claim", limit |-> n, reserve |-> n]

\* What the gate says of a wake, and the calls it would reserve.
Verdict(i, t) ==
    LET d == Day(t) IN
    CASE policy = NoPolicy -> [pc |-> "claim", limit |-> MaxRounds, reserve |-> 0]
      [] policy # NoPolicy /\ AlreadyReserved(i, d) -> [pc |-> "hold", limit |-> 0, reserve |-> 0]
      [] policy # NoPolicy /\ ~AlreadyReserved(i, d) /\ WakesLeft(i, d) /\ Affordable(i, d) ->
            Granted(Min({MaxRounds, Remaining(i, d)}))
      [] OTHER -> [pc |-> IF policy.hard THEN "deny" ELSE "hold", limit |-> 0, reserve |-> 0]

-----------------------------------------------------------------------------
(* Commits. Every one moves the world revision, which outdates the decisions *)
(* read before it; a commit to a wake also outdates the requests that pin it. *)

Outdated(v, i) == [worker[v] EXCEPT !.fresh = FALSE, !.current = @ /\ worker[v].id # i]
After(w, i, next) == [v \in Worker |-> IF v = w THEN next ELSE Outdated(v, i)]

WriteWake(w, i, x, next) ==
    /\ wake' = [wake EXCEPT ![i] = x]
    /\ worker' = After(w, i, next)

Take(w, i, page) ==
    LET v == Verdict(i, now) IN
    [Idle EXCEPT !.pc = v.pc, !.id = i, !.at = now, !.limit = v.limit, !.reserve = v.reserve,
                 !.bare = policy = NoPolicy /\ wake[i].started # Never,
                 !.fresh = TRUE, !.current = TRUE, !.consume = queue \cap page]
-----------------------------------------------------------------------------
(* A background wake: run_wake, under default Step-0 conditions.           *)

\* The loop that takes due work holds the single-writer lease of its world: a run that is
\* alive is not taken over, one whose worker died is.
Unattended(i) == \A v \in Worker : worker[v].id = i => worker[v].pc # "run"

Latest == Len(review)
Free(w) ==
    /\ worker[w].pc = "idle"
    /\ Cardinality({v \in Worker : worker[v].pc # "idle"}) < shape.workers

WakeIsTaken(w, i) ==
    /\ Free(w) /\ Unattended(i)
    /\ wake[i].state \in Open
    /\ worker' = [worker EXCEPT ![w] = Take(w, i, {})]
    /\ UNCHANGED <<shape, now, policy, wake, review, meter, object, queue>>

\* Denied for good; a wake that has ended since is left alone.
WakeIsSuppressed(w) ==
    LET i == worker[w].id IN
    /\ worker[w].pc = "deny" /\ ~IsReview(i)
    /\ IF wake[i].state \in Open
       THEN WriteWake(w, i, [wake[i] EXCEPT !.state = "suppressed", !.ended = worker[w].at], Idle)
       ELSE wake' = wake /\ worker' = [worker EXCEPT ![w] = Idle]
    /\ UNCHANGED <<shape, now, policy, review, meter, object, queue>>

\* Put off. A wake already queued stays as it is, and so does a running one.
WakeIsDeferred(w) ==
    LET i == worker[w].id IN
    /\ worker[w].pc = "hold" /\ ~IsReview(i)
    /\ IF wake[i].state = "new"
       THEN WriteWake(w, i, [wake[i] EXCEPT !.state = "queued"], Idle)
       ELSE wake' = wake /\ worker' = [worker EXCEPT ![w] = Idle]
    /\ UNCHANGED <<shape, now, policy, review, meter, object, queue>>

\* The reservation written with a claim; without a policy the old one stays.
Reserved(x, w) ==
    IF worker[w].reserve = 0 THEN x
    ELSE [x EXCEPT !.reserved = worker[w].reserve, !.day = Day(worker[w].at)]

\* Mistaken variant: the claim names the revision of its own moment.
UnchangedOrNot(w) == TRUE

\* A claim that reserves names the world revision the gate read.
Unchanged(w) == worker[w].reserve > 0 => worker[w].fresh

Running(w) == [worker[w] EXCEPT !.pc = "run", !.fresh = FALSE, !.current = TRUE]

WakeIsClaimed(w) ==
    LET i == worker[w].id IN
    /\ worker[w].pc = "claim" /\ ~IsReview(i)
    /\ wake[i].state \in Open
    /\ IF wake[i].state = "running" /\ worker[w].bare
       THEN wake' = wake /\ worker' = [worker EXCEPT ![w] = Running(w)]
       ELSE /\ Unchanged(w)
            /\ WriteWake(w, i, Reserved([wake[i] EXCEPT !.state = "running", !.started = worker[w].at], w),
                         Running(w))
    /\ UNCHANGED <<shape, now, policy, review, meter, object, queue>>

\* A model call is metered at the moment the run was started with.
Round(w) ==
    LET i == worker[w].id
        d == Day(worker[w].at) IN
    /\ worker[w].pc = "run" /\ worker[w].ran < worker[w].limit
    /\ meter[i][d] < MaxMetered
    /\ meter' = [meter EXCEPT ![i][d] = @ + 1]
    /\ worker' = [worker EXCEPT ![w].ran = @ + 1]
    /\ UNCHANGED <<shape, now, policy, wake, review, object, queue>>

WakeIsCompleted(w) ==
    LET i == worker[w].id IN
    /\ worker[w].pc = "run" /\ worker[w].ran > 0 /\ ~IsReview(i)
    /\ IF wake[i].state \in Open
       THEN WriteWake(w, i, [wake[i] EXCEPT !.state = "completed", !.ended = worker[w].at], Idle)
       ELSE wake' = wake /\ worker' = [worker EXCEPT ![w] = Idle]
    /\ UNCHANGED <<shape, now, policy, review, meter, object, queue>>

\* requeue_runtime_incomplete: the rounds ran out before the resident was done.
WakeIsRequeued(w) ==
    LET i == worker[w].id IN
    /\ worker[w].pc = "run" /\ worker[w].ran > 0 /\ ~IsReview(i)
    /\ wake[i].state \in {"running", "queued"}
    /\ IF wake[i].state = "running"
       THEN WriteWake(w, i, [wake[i] EXCEPT !.state = "queued", !.attempts = 1, !.tried = worker[w].at], Idle)
       ELSE wake' = wake /\ worker' = [worker EXCEPT ![w] = Idle]
    /\ UNCHANGED <<shape, now, policy, review, meter, object, queue>>

\* The worker dies, or what it attempts is refused and the exception ends the call.
WorkerStops(w) ==
    /\ worker[w].pc # "idle"
    /\ worker' = [worker EXCEPT ![w] = Idle]
    /\ UNCHANGED <<shape, now, policy, wake, review, meter, object, queue>>

-----------------------------------------------------------------------------
(* The review schedule.                                                    *)

Closed(k) == wake[k].state \in {"completed", "suppressed"}

\* Attention outcomes, too, are shown to the review: wakes that ended.
AnchorTime(x) == IF x \in Object THEN object[x].at ELSE wake[x].ended
Within(x, from, to) == from < AnchorTime(x) /\ AnchorTime(x) <= to

\* The newest n of a set, in any order among equals.
Newest(S, n) ==
    {T \in SUBSET S :
        /\ Cardinality(T) = Min({n, Cardinality(S)})
        /\ \A x \in T, y \in S \ T : AnchorTime(y) <= AnchorTime(x)}

Reviewed(from, to) ==
    UNION {review[k].anchors : k \in {j \in DOMAIN review :
              wake[j].state = "completed" /\ review[j].from = from /\ review[j].to = to}}

Eligible(from, to) == {o \in Object : Within(o, from, to)} \ Reviewed(from, to)
Outcomes(from, to) ==
    {i \in shape.background : wake[i].state \in {"completed", "suppressed"} /\ Within(i, from, to)}

\* The newest of what the review queue asks for.
Asked == Newest(queue, PageSize)

\* A page: the newest candidates and outcomes, and before them what the review queue
\* asks for, whenever it was recorded. It tells whether anything was left out.
Pages(from, to) ==
    UNION {UNION {UNION {UNION {
        {[anchors |-> ordinary \cup asked,
          more |-> candidates # Eligible(from, to) \/ asked # queue
                   \/ outcomes # Outcomes(from, to)
                   \/ combined # candidates \cup outcomes
                   \/ ordinary # combined \ asked]
         : ordinary \in Newest(combined \ asked, PageSize - Cardinality(asked))}
        : asked \in Asked}
        : combined \in Newest(candidates \cup outcomes, PageSize)}
        : outcomes \in Newest(Outcomes(from, to), PageSize)}
        : candidates \in Newest(Eligible(from, to), PageSize)}

\* Mistaken variant: the rest of a window is forgotten once a page of it is done.
BacklogNever == FALSE

Backlog == Latest > 0 /\ wake[Latest].state = "completed" /\ review[Latest].more

\* The window that is due: the rest of the last one, or what was recorded since.
DueWindow ==
    IF Latest = 0 THEN {<<0, now>>}
    ELSE IF Backlog THEN {<<review[Latest].from, review[Latest].to>>}
    ELSE IF now - review[Latest].hit < Interval THEN {}
    ELSE {<<review[Latest].to, now>>}

Mark(page, d, state, w) ==
    LET n == Latest + 1 IN
    /\ review' = Append(review, [from |-> d[1], to |-> d[2], anchors |-> page.anchors,
                                 more |-> page.more, hit |-> now])
    /\ wake' = [i \in DOMAIN wake \cup {n} |->
                   IF i = n THEN [NewWake EXCEPT !.state = state] ELSE wake[i]]
    /\ worker' = After(w, n, Idle)

\* A window with nothing to show leaves a suppressed marker, which moves the cursor all the
\* same; any other page is a review to run.
PageIsMarked(page, d, w) == Mark(page, d, IF page.anchors = {} THEN "suppressed" ELSE "new", w)

\* prepare_due_review.
ReviewIsScheduled(w) ==
    /\ worker[w].pc = "idle"
    /\ Latest < shape.reviews
    /\ Latest > 0 => Closed(Latest)
    /\ \E d \in DueWindow : \E page \in Pages(d[1], d[2]) : PageIsMarked(page, d, w)
    /\ UNCHANGED <<shape, now, policy, meter, object, queue>>

\* Mistaken variant: a review that does not converge is resumed for ever.
ExhaustedNever(i) == FALSE

Exhausted(i) == wake[i].attempts >= MaxAttempts

\* The review that is open, new or left half done by an earlier run, is taken up. What
\* it will have consumed of the queue is settled here.
ReviewIsTaken(w) ==
    /\ Free(w)
    /\ Latest > 0 /\ ~Closed(Latest) /\ Unattended(Latest)
    /\ worker' = [worker EXCEPT ![w] =
          IF Exhausted(Latest)
          THEN [Idle EXCEPT !.pc = "deny", !.id = Latest, !.at = now]
          ELSE Take(w, Latest, review[Latest].anchors)]
    /\ UNCHANGED <<shape, now, policy, wake, review, meter, object, queue>>

\* A write of the review service to its marker.
WriteReview(w, x, hit, next) ==
    LET i == worker[w].id IN
    /\ WriteWake(w, i, x, next)
    /\ review' = [review EXCEPT ![i].hit = hit]

ReviewIsSuppressed(w) ==
    LET i == worker[w].id IN
    /\ worker[w].pc = "deny" /\ IsReview(i)
    /\ wake[i].state \in Open
    /\ WriteReview(w, [wake[i] EXCEPT !.state = "suppressed", !.ended = worker[w].at], worker[w].at, Idle)
    /\ UNCHANGED <<shape, now, policy, meter, object, queue>>

\* Only a new review is put off; a running one is kept as it is.
ReviewIsDeferred(w) ==
    LET i == worker[w].id IN
    /\ worker[w].pc = "hold" /\ IsReview(i)
    /\ wake[i].state = "new"
    /\ WriteReview(w, [wake[i] EXCEPT !.state = "queued"], worker[w].at, Idle)
    /\ UNCHANGED <<shape, now, policy, meter, object, queue>>

\* begin_review. A review begun earlier keeps its first start, the time its cognition
\* is written at; one that is running already is joined.
Begun(i, t) == [wake[i] EXCEPT !.state = "running",
                               !.started = IF wake[i].state = "running" THEN @ ELSE t]

ReviewIsBegun(w) ==
    LET i == worker[w].id IN
    /\ worker[w].pc = "claim" /\ IsReview(i)
    /\ IF wake[i].state = "running" /\ worker[w].bare
       THEN worker' = [worker EXCEPT ![w] = Running(w)] /\ UNCHANGED <<wake, review>>
       ELSE /\ wake[i].state \in Open
            /\ wake[i].state = "running" \/ worker[w].current
            /\ Unchanged(w)
            /\ WriteReview(w, Reserved(Begun(i, worker[w].at), w), worker[w].at, Running(w))
    /\ UNCHANGED <<shape, now, policy, meter, object, queue>>

Continues(w) ==
    /\ worker[w].current
    /\ wake[worker[w].id].state = "running"

\* mark_runtime_incomplete: the review stays running and a later call goes on with it.
ReviewIsLeftHalfDone(w) ==
    LET i == worker[w].id IN
    /\ worker[w].pc = "run" /\ worker[w].ran > 0 /\ IsReview(i)
    /\ Continues(w)
    /\ WriteWake(w, i, [wake[i] EXCEPT !.attempts = @ + 1, !.tried = worker[w].at], Idle)
    /\ UNCHANGED <<shape, now, policy, review, meter, object, queue>>

\* complete_review, then complete_review_queue, wake by wake: a crash in between leaves
\* some of the queue to be reviewed again.
ReviewIsCompleted(w) ==
    LET i == worker[w].id IN
    /\ worker[w].pc = "run" /\ worker[w].ran > 0 /\ IsReview(i)
    /\ \/ /\ worker[w].current /\ wake[i].state = "running"
          /\ WriteReview(w, [wake[i] EXCEPT !.state = "completed", !.ended = worker[w].at],
                         worker[w].at, Idle)
       \/ /\ wake[i].state = "completed"
          /\ worker' = [worker EXCEPT ![w] = Idle]
          /\ UNCHANGED <<wake, review>>
    /\ \E done \in SUBSET worker[w].consume : queue' = queue \ done
    /\ UNCHANGED <<shape, now, policy, meter, object>>

-----------------------------------------------------------------------------
(* The world around them.                                                  *)

Cursor == IF Latest = 0 THEN 0 ELSE review[Latest].to

\* Everyone's decision is outdated by a commit that concerns no autonomous wake.
WorldMoves == worker' = [w \in Worker |-> Outdated(w, 0)]

\* An object enters the world, possibly some time after the moment it is recorded at.
ObjectIsCommitted(o) ==
    /\ object[o].at = Never
    /\ \E t \in now - Lag .. now :
          t > 0 /\ object' = [object EXCEPT ![o] = [at |-> t, late |-> t <= Cursor]]
    /\ WorldMoves
    /\ UNCHANGED <<shape, now, policy, wake, review, meter, queue>>

ObjectIsQueued(o) ==
    /\ object[o].at # Never /\ o \notin queue
    /\ queue' = queue \cup {o}
    /\ WorldMoves
    /\ UNCHANGED <<shape, now, policy, wake, review, meter, object>>

PolicyIsRevised(p) ==
    /\ policy # NoPolicy /\ policy # p
    /\ policy' = p
    /\ WorldMoves
    /\ UNCHANGED <<shape, now, wake, review, meter, object, queue>>

TimePasses ==
    /\ now < shape.until
    /\ now' = now + 1
    /\ UNCHANGED <<shape, policy, wake, review, meter, object, queue, worker>>

-----------------------------------------------------------------------------
OnWake(w) ==
    \/ \E i \in shape.background : WakeIsTaken(w, i)
    \/ WakeIsSuppressed(w) \/ WakeIsDeferred(w) \/ WakeIsClaimed(w)
    \/ WakeIsCompleted(w) \/ WakeIsRequeued(w)

OnReview(w) ==
    \/ ReviewIsScheduled(w) \/ ReviewIsTaken(w) \/ ReviewIsSuppressed(w) \/ ReviewIsDeferred(w)
    \/ ReviewIsBegun(w) \/ ReviewIsLeftHalfDone(w) \/ ReviewIsCompleted(w)

BudgetNext ==
    \/ \E w \in Worker : OnWake(w) \/ OnReview(w) \/ Round(w) \/ WorkerStops(w)
    \/ \E o \in shape.object : ObjectIsCommitted(o) \/ ObjectIsQueued(o)
    \/ \E p \in Policy : PolicyIsRevised(p)
    \/ TimePasses

BudgetSpec == BudgetInit /\ [][BudgetNext]_budgetVars

-----------------------------------------------------------------------------
(* Properties.                                                             *)

WakeRecord == [state : Open \cup {"completed", "suppressed"}, started : Never .. MaxTime,
               reserved : 0 .. MaxRounds, day : Never .. Day(MaxTime), attempts : 0 .. MaxAttempts + Cardinality(Worker),
               tried : Never .. MaxTime, ended : Never .. MaxTime]

\* The wakes are the background ones and the reviews scheduled so far; a review has at
\* most PageSize anchors, and ends half done at most MaxAttempts times, give or take the
\* calls that were under way.
BudgetTypeOK ==
    /\ now \in 1 .. MaxTime /\ policy \in Policy \cup {NoPolicy}
    /\ DOMAIN wake = shape.background \cup DOMAIN review
    /\ \A i \in DOMAIN wake : wake[i] \in WakeRecord
    /\ \A k \in DOMAIN review :
          /\ review[k].anchors \subseteq Object \cup Background
          /\ Cardinality(review[k].anchors) <= PageSize
          /\ review[k].from <= review[k].to /\ review[k].to <= now
    /\ meter \in [WakeId -> [Days -> 0 .. MaxMetered]]
    /\ queue \subseteq Object
    /\ \A w \in Worker : worker[w].ran <= worker[w].limit /\ worker[w].limit <= MaxRounds

\* A reservation is granted only if it fits into what is left of the day when it is
\* written, not when the gate looked: two wakes never both take the last of it.
GrantFits ==
    [][\A w \in Worker :
          LET i == worker[w].id
              d == Day(worker[w].at) IN
          worker[w].pc = "claim" /\ worker'[w].pc = "run" /\ worker[w].reserve > 0
          => Remaining(i, d) >= worker[w].reserve /\ WakesLeft(i, d)]_budgetVars

\* On a day on which no wake has been resumed after ending half done, no review goes on
\* that was begun on an earlier day (nor has gone on since), and no wake is given up after
\* its rounds were spent.
Plain(d) ==
    \A i \in DOMAIN wake :
        /\ wake[i].attempts = 0
        /\ wake[i].day >= d => Day(wake[i].started) >= d
        /\ wake[i].state = "suppressed" => meter[i][d] = 0

SpentOn(d) == SumFunctionOnSet([i \in DOMAIN wake |-> meter[i][d]], DOMAIN wake)
LargestCap == Max({p.calls : p \in Policy})

\* The ledger of such a day stays within the cap, through crashes, retries, policy
\* changes and concurrent workers.
DayWithinCap == policy # NoPolicy => \A d \in Days : Plain(d) => SpentOn(d) <= LargestCap

\* Once the cursor has left a window, every object recorded in it, unless committed
\* after the window was closed, was shown to a completed review, or a review of that
\* window was given up for good.
NothingSlipsPast ==
    \A o \in Object :
        LET moved == Latest > 0 /\ object[o].at # Never /\ object[o].at <= review[Latest].from IN
        moved /\ ~object[o].late =>
            \E k \in DOMAIN review :
                /\ Within(o, review[k].from, review[k].to)
                /\ \/ wake[k].state = "completed" /\ o \in review[k].anchors
                   \/ wake[k].state = "suppressed"
=============================================================================
