------------------------ MODULE ExecutionWorldProofs ------------------------
(* Theorems about goals, tasks and actions, for any number of them, of      *)
(* overlapping calls and of revisions. A call holds what it read; the       *)
(* invariant says what that is still worth when it commits. A revision once *)
(* read is still the newest exactly as long as its object has not moved, so *)
(* what was decided on it then is still a legal step of it.                 *)
EXTENDS ExecutionWorld, TLAPS

Pcs == {"idle", "goal", "create", "task", "due", "match", "leave", "propose", "authorize",
        "submit", "outcome"}
Results == {"completed", "failed", "outcome_unknown"}
OutcomeRecord == [action : plan.action, rev : Nat, state : Results]
TaskRecord == [state : TaskStates \cup {"absent"}, rev : 0 .. plan.revisions,
               ran : SUBSET (1 .. plan.revisions),
               cited : SUBSET plan.evidence, results : SUBSET OutcomeRecord]
ActionRecord == [state : ActionStates \cup {"absent"}, rev : Nat, task : plan.task \cup {None}, pin : Nat]
GoalRecord == [state : GoalStates \cup {"absent"}, rev : Nat]
CallRecord == [pc : Pcs, id : plan.goal \cup plan.task \cup plan.action \cup {None},
               parent : plan.task \cup {None}, rev : Nat,
               to : GoalStates \cup TaskStates \cup ActionStates \cup {"absent"},
               cited : SUBSET plan.evidence, results : SUBSET OutcomeRecord, fresh : BOOLEAN]

Typed ==
    /\ plan \in Plan
    /\ goal \in [plan.goal -> GoalRecord]
    /\ task \in [plan.task -> TaskRecord]
    /\ action \in [plan.action -> ActionRecord]
    /\ outcome \subseteq OutcomeRecord
    /\ woken \subseteq plan.task \X Nat
    /\ outdated \subseteq plan.evidence \cup outcome
    /\ worker \in [Worker -> CallRecord]

GoalHolds(g) == goal[g].state = "absent" <=> goal[g].rev = 0

TaskHolds(t) ==
    /\ task[t].state = "absent" <=> task[t].rev = 0
    /\ task[t].state = "running" => task[t].rev \in task[t].ran
    /\ task[t].results \subseteq outcome

\* The first revision of an action is its proposal, in a revision in which its task ran.
ActionHolds(a) ==
    /\ action[a].state = "absent" <=> action[a].rev = 0
    /\ action[a].rev = 1 => action[a].state = "proposed"
    /\ action[a].state # "absent" =>
          action[a].task \in plan.task /\ action[a].pin \in task[action[a].task].ran

OutcomeHolds(o) ==
    /\ o.rev \in 3 .. action[o.action].rev
    /\ action[o.action].rev = o.rev => action[o.action].state = o.state

\* What a call has read is still worth.
OnTaskHolds(c) ==
    /\ c.id \in plan.task /\ c.rev \in 1 .. plan.revisions - 1
    /\ c.rev <= task[c.id].rev
    /\ c.to \in TaskStates
    /\ c.rev = task[c.id].rev => c.to \in TaskMoves[task[c.id].state]
    /\ c.results \subseteq outcome

OnActionHolds(c, from) ==
    /\ c.id \in plan.action /\ c.rev \in Nat \ {0}
    /\ c.rev <= action[c.id].rev
    /\ c.rev = action[c.id].rev => action[c.id].state \in from

CallHolds(c) ==
    /\ c.pc = "goal" =>
          /\ c.id \in plan.goal /\ c.to \in GoalStates
          /\ c.fresh => /\ goal[c.id].rev = c.rev /\ c.rev # 0
                        /\ c.to \in GoalMoves[goal[c.id].state]
    /\ c.pc = "create" => c.id \in plan.task /\ c.to \in Starting
    /\ c.pc \in {"task", "due", "match", "leave"} => OnTaskHolds(c)
    /\ c.pc = "propose" =>
          c.id \in plan.action /\ c.parent \in plan.task /\ c.rev \in task[c.parent].ran
    /\ c.pc \in {"authorize", "submit"} => OnActionHolds(c, {"proposed"})
    /\ c.pc = "submit" /\ c.fresh => Eligible(c.id)
    /\ c.pc = "outcome" => OnActionHolds(c, Pending) /\ c.to \in Results

ExecutionInv ==
    /\ Typed
    /\ \A g \in plan.goal : GoalHolds(g)
    /\ \A t \in plan.task : TaskHolds(t)
    /\ \A a \in plan.action : ActionHolds(a)
    /\ \A o \in outcome : OutcomeHolds(o)
    /\ \A w \in Worker : CallHolds(worker[w])

-----------------------------------------------------------------------------
(* The tables of states.                                                    *)

LEMMA States ==
    /\ GoalStates = {"proposed", "active", "paused", "unknown", "achieved", "abandoned"}
    /\ TaskStates = {"draft", "ready", "running", "waiting_time", "waiting_evidence", "waiting_user",
                     "waiting_result", "blocked", "completed", "failed", "expired", "cancelled"}
  BY DEF GoalStates, GoalMoves, TaskStates, TaskMoves

LEMMA StartingStates == Starting \subseteq TaskStates
  BY States DEF Starting, Waiting

LEMMA DueMoves ==
    /\ {"ready", "expired"} \subseteq TaskMoves["waiting_time"]
    /\ {"ready", "expired"} \subseteq TaskMoves["waiting_evidence"]
  BY DEF TaskMoves, Resume

LEMMA PlanTypes == ASSUME Typed
                   PROVE  /\ plan.goal \subseteq Goal /\ plan.task \subseteq Task
                          /\ plan.action \subseteq Action /\ plan.evidence \subseteq Evidence
                          /\ plan.revisions \in Nat \ {0}
  BY ExecutionAssumption DEF Typed

-----------------------------------------------------------------------------
(* The start, and steps that only read or only forget.                      *)

LEMMA IdleHolds == ASSUME plan \in Plan PROVE Idle \in CallRecord /\ CallHolds(Idle)
  BY DEF Idle, CallRecord, Pcs, CallHolds

LEMMA InitHolds == ExecutionInit => ExecutionInv
  <1> SUFFICES ASSUME ExecutionInit PROVE ExecutionInv
    OBVIOUS
  <1> USE DEF ExecutionInit
  <1>1. Typed
    <2>1. goal \in [plan.goal -> GoalRecord]
      BY DEF GoalRecord, Absent
    <2>2. task \in [plan.task -> TaskRecord]
      BY ExecutionAssumption DEF TaskRecord
    <2>3. action \in [plan.action -> ActionRecord]
      BY DEF ActionRecord
    <2>4. worker \in [Worker -> CallRecord]
      BY IdleHolds
    <2> QED
      BY <2>1, <2>2, <2>3, <2>4 DEF Typed
  <1>2. \A g \in plan.goal : GoalHolds(g)
    BY DEF GoalHolds, Absent
  <1>3. \A t \in plan.task : TaskHolds(t)
    BY DEF TaskHolds
  <1>4. \A a \in plan.action : ActionHolds(a)
    BY DEF ActionHolds
  <1>5. \A w \in Worker : CallHolds(worker[w])
    BY IdleHolds
  <1> QED
    BY <1>1, <1>2, <1>3, <1>4, <1>5 DEF ExecutionInv

world == <<plan, goal, task, action, outcome, woken, outdated>>

\* A call that only reads, and now holds something.
LEMMA Reads ==
    ASSUME ExecutionInv, NEW w \in Worker, UNCHANGED world,
           worker' = [v \in Worker |-> IF v = w THEN worker'[w] ELSE worker[v]],
           worker'[w] \in CallRecord, CallHolds(worker'[w])
    PROVE  ExecutionInv'
  <1>1. Typed'
    BY DEF ExecutionInv, Typed, world, GoalRecord, TaskRecord, ActionRecord, CallRecord, OutcomeRecord
  <1>2. \A v \in Worker : CallHolds(worker[v])'
    <2> TAKE v \in Worker
    <2>1. CallHolds(worker'[v])
      BY DEF ExecutionInv
    <2> QED
      BY <2>1 DEF CallHolds, OnTaskHolds, OnActionHolds, Eligible, world
  <1>3. /\ \A g \in plan.goal : GoalHolds(g)'
        /\ \A t \in plan.task : TaskHolds(t)'
        /\ \A a \in plan.action : ActionHolds(a)'
        /\ \A o \in outcome : OutcomeHolds(o)'
    BY DEF ExecutionInv, GoalHolds, TaskHolds, ActionHolds, OutcomeHolds, world
  <1> QED
    BY <1>1, <1>2, <1>3 DEF ExecutionInv, world

\* Whatever is written, no object goes back or changes without a new revision.
Grows ==
    /\ plan' = plan
    /\ \A t \in plan.task :
          /\ task[t].rev <= task'[t].rev
          /\ task'[t].rev = task[t].rev => task'[t].state = task[t].state
          /\ task[t].ran \subseteq task'[t].ran
    /\ \A a \in plan.action :
          /\ action[a].rev <= action'[a].rev
          /\ action'[a].rev = action[a].rev => action'[a].state = action[a].state
    /\ outcome \subseteq outcome'

Outpaced(w) == worker'[w] = Idle \/ worker'[w] = [worker[w] EXCEPT !.fresh = FALSE]

\* A call that others overtake still holds what it may commit.
LEMMA CallsKept ==
    ASSUME ExecutionInv, Typed', Grows, NEW w \in Worker, Outpaced(w)
    PROVE  worker'[w] \in CallRecord /\ CallHolds(worker[w])'
  <1>1. CASE worker'[w] = Idle
    BY <1>1 DEF Idle, CallHolds, Typed, Grows, CallRecord, Pcs
  <1>2. CASE worker'[w] = [worker[w] EXCEPT !.fresh = FALSE]
    <2> DEFINE c == worker[w]
               d == worker'[w]
    <2>1. /\ c \in CallRecord /\ CallHolds(c)
          /\ d.pc = c.pc /\ d.id = c.id /\ d.parent = c.parent /\ d.rev = c.rev /\ d.to = c.to
          /\ d.results = c.results /\ ~d.fresh /\ d \in CallRecord
      BY <1>2 DEF ExecutionInv, Typed, CallRecord
    <2>2. ASSUME c.pc \in {"task", "due", "match", "leave"} PROVE OnTaskHolds(c)'
      <3>1. OnTaskHolds(c)
        BY <2>1, <2>2 DEF CallHolds
      <3>2. task[c.id].rev \in Nat /\ task'[c.id].rev \in Nat /\ c.rev \in Nat
        BY <2>1, <3>1 DEF ExecutionInv, Typed, Grows, TaskRecord, OnTaskHolds, CallRecord
      <3>3. c.rev <= task'[c.id].rev /\ (c.rev = task'[c.id].rev => c.to \in TaskMoves[task'[c.id].state])
        BY <3>1, <3>2 DEF Grows, OnTaskHolds
      <3> QED
        BY <2>1, <3>1, <3>3 DEF Grows, OnTaskHolds
    <2>3. ASSUME NEW from, OnActionHolds(c, from) PROVE OnActionHolds(c, from)'
      <3>1. c.id \in plan.action /\ action[c.id].rev \in Nat /\ action'[c.id].rev \in Nat /\ c.rev \in Nat
        BY <2>1, <2>3 DEF ExecutionInv, Typed, Grows, ActionRecord, OnActionHolds, CallRecord
      <3> QED
        BY <2>1, <2>3, <3>1 DEF Grows, OnActionHolds
    <2>4. OnActionHolds(c, {"proposed"}) => OnActionHolds(c, {"proposed"})'
      BY <2>3
    <2>5. OnActionHolds(c, Pending) => OnActionHolds(c, Pending)'
      BY <2>3 DEF Pending
    <2>6. c.pc = "propose" => c.parent \in plan.task /\ c.rev \in task'[c.parent].ran
      BY <2>1 DEF CallHolds, Grows
    <2> QED
      BY <2>1, <2>2, <2>4, <2>5, <2>6 DEF CallHolds, Grows
  <1> QED
    BY <1>1, <1>2 DEF Outpaced

Sound == ExecutionInv' /\ LegalStep /\ SubmittedStep

LEMMA ReadsAreSound ==
    ASSUME ExecutionInv, NEW w \in Worker, UNCHANGED world,
           worker' = [v \in Worker |-> IF v = w THEN worker'[w] ELSE worker[v]],
           worker'[w] \in CallRecord, CallHolds(worker'[w])
    PROVE  Sound
  BY Reads DEF Sound, LegalStep, SubmittedStep, world

\* What a call writes overtakes every other.
LEMMA MovedOutpaces ==
    ASSUME Typed, plan' = plan, NEW ws, worker' = Moved(ws)
    PROVE  /\ worker' \in [Worker -> CallRecord]
           /\ \A w \in Worker : Outpaced(w)
  BY IdleHolds DEF Typed, Moved, Outpaced, CallRecord

LEMMA WritesKeep ==
    ASSUME ExecutionInv, Typed', Grows, \A w \in Worker : Outpaced(w),
           \A g \in plan.goal : GoalHolds(g)', \A t \in plan.task : TaskHolds(t)',
           \A a \in plan.action : ActionHolds(a)', \A o \in outcome' : OutcomeHolds(o)'
    PROVE  ExecutionInv'
  BY CallsKept DEF ExecutionInv, Grows

-----------------------------------------------------------------------------
(* The calls that read.                                                     *)

\* A call that begins, by what it has read.
LEMMA CallsAreSound ==
    ASSUME ExecutionInv, NEW w \in Worker, NEW pc, NEW id, NEW rev, NEW to,
           Call(w, pc, id, rev, to), UNCHANGED world,
           [Idle EXCEPT !.pc = pc, !.id = id, !.rev = rev, !.to = to, !.fresh = TRUE] \in CallRecord,
           CallHolds([Idle EXCEPT !.pc = pc, !.id = id, !.rev = rev, !.to = to, !.fresh = TRUE])
    PROVE  Sound
  <1>1. worker'[w] = [Idle EXCEPT !.pc = pc, !.id = id, !.rev = rev, !.to = to, !.fresh = TRUE]
    BY DEF Call, ExecutionInv, Typed
  <1>2. worker' = [v \in Worker |-> IF v = w THEN worker'[w] ELSE worker[v]]
    BY DEF Call, ExecutionInv, Typed
  <1> QED
    BY <1>1, <1>2, ReadsAreSound

LEMMA GoalAsks ==
    ASSUME ExecutionInv, NEW w \in Worker, NEW g \in plan.goal, NEW to \in GoalStates,
           GoalMoveIsAsked(w, g, to)
    PROVE  Sound
  <1> DEFINE c == [Idle EXCEPT !.pc = "goal", !.id = g, !.rev = goal[g].rev, !.to = to, !.fresh = TRUE]
  <1>1. goal[g].rev \in Nat \ {0} /\ goal[g].state # "absent"
    BY States DEF GoalMoveIsAsked, ExecutionInv, Typed, GoalRecord, GoalHolds
  <1>2. c \in CallRecord
    BY <1>1 DEF CallRecord, Idle, Pcs
  <1>3. CallHolds(c)
    BY <1>1 DEF CallHolds, Idle, GoalMoveIsAsked
  <1> QED
    BY <1>2, <1>3, CallsAreSound DEF GoalMoveIsAsked, world

LEMMA TaskAsks ==
    ASSUME ExecutionInv, NEW w \in Worker, NEW t \in plan.task, NEW to \in TaskStates,
           TaskIsAsked(w, t, to)
    PROVE  Sound
  <1> DEFINE c == [Idle EXCEPT !.pc = "create", !.id = t, !.rev = 0, !.to = to, !.fresh = TRUE]
  <1>1. c \in CallRecord
    BY DEF CallRecord, Idle, Pcs
  <1>2. to \in Starting
    BY DEF TaskIsAsked, Starting, Waiting
  <1>3. CallHolds(c)
    BY <1>2 DEF CallHolds, Idle
  <1> QED
    BY <1>1, <1>3, CallsAreSound DEF TaskIsAsked, world

Holding(pc, t, to, cited, results) ==
    [Idle EXCEPT !.pc = pc, !.id = t, !.rev = task[t].rev, !.to = to,
                 !.cited = cited, !.results = results, !.fresh = TRUE]

\* What a call on a task has just read.
LEMMA ReadTaskHolds ==
    ASSUME ExecutionInv, NEW t \in plan.task, task[t].state \in TaskStates, task[t].rev < plan.revisions,
           NEW pc \in Pcs, pc \in {"task", "due", "match", "leave"},
           NEW to \in TaskStates, to \in TaskMoves[task[t].state],
           NEW cited \in SUBSET plan.evidence, NEW results \in SUBSET outcome
    PROVE  /\ Holding(pc, t, to, cited, results) \in CallRecord
           /\ CallHolds(Holding(pc, t, to, cited, results))
  <1> DEFINE c == Holding(pc, t, to, cited, results)
  <1>1. task[t].rev \in Nat \ {0} /\ plan.revisions \in Nat \ {0}
    BY States, PlanTypes DEF ExecutionInv, Typed, TaskRecord, TaskHolds
  <1>2. c \in CallRecord
    BY <1>1 DEF CallRecord, Idle, Pcs, ExecutionInv, Typed, Holding
  <1>3. OnTaskHolds(c)
    BY <1>1 DEF OnTaskHolds, Idle, Holding
  <1> QED
    BY <1>2, <1>3 DEF CallHolds, Idle, Holding

LEMMA TaskMoveAsks ==
    ASSUME ExecutionInv, NEW w \in Worker, NEW t \in plan.task, NEW to \in TaskStates,
           TaskMoveIsAsked(w, t, to)
    PROVE  Sound
  <1>1. PICK cited \in SUBSET plan.evidence, results \in SUBSET outcome :
           worker' = [worker EXCEPT ![w] = Holding("task", t, to, cited, results)]
    BY DEF TaskMoveIsAsked, Holding
  <1>2. /\ worker'[w] = Holding("task", t, to, cited, results)
        /\ worker' = [v \in Worker |-> IF v = w THEN worker'[w] ELSE worker[v]]
    BY <1>1 DEF ExecutionInv, Typed
  <1>3. /\ Holding("task", t, to, cited, results) \in CallRecord
        /\ CallHolds(Holding("task", t, to, cited, results))
    <2>1. /\ task[t].state \in TaskStates /\ task[t].rev < plan.revisions
          /\ to \in TaskMoves[task[t].state]
          /\ "task" \in Pcs /\ "task" \in {"task", "due", "match", "leave"}
      BY DEF TaskMoveIsAsked, Pcs
    <2> QED
      BY <2>1, ReadTaskHolds
  <1> QED
    BY <1>2, <1>3, ReadsAreSound DEF TaskMoveIsAsked, world

LEMMA ListedTask ==
    ASSUME ExecutionInv, NEW w \in Worker, NEW t \in plan.task, NEW pc \in Pcs, NEW to \in TaskStates,
           pc \in {"due", "match", "leave"}, to \in {"ready", "expired"},
           task[t].state \in {"waiting_time", "waiting_evidence"}, task[t].rev < plan.revisions,
           Call(w, pc, t, task[t].rev, to), UNCHANGED world
    PROVE  Sound
  <1> DEFINE c == [Idle EXCEPT !.pc = pc, !.id = t, !.rev = task[t].rev, !.to = to, !.fresh = TRUE]
  <1>1. task[t].rev \in Nat \ {0} /\ plan.revisions \in Nat \ {0}
    BY PlanTypes DEF ExecutionInv, Typed, TaskRecord, TaskHolds
  <1>2. task[t].state \in TaskStates /\ to \in TaskMoves[task[t].state] /\ to \in TaskStates
    BY States, DueMoves
  <1>3. c \in CallRecord
    BY <1>1 DEF CallRecord, Idle, Pcs, ExecutionInv, Typed
  <1>4. OnTaskHolds(c)
    BY <1>1, <1>2 DEF OnTaskHolds, Idle
  <1>5. CallHolds(c)
    BY <1>4 DEF CallHolds, Idle
  <1> QED
    BY <1>3, <1>5, CallsAreSound

LEMMA ListsAreSound ==
    ASSUME ExecutionInv, NEW w \in Worker, NEW t \in plan.task,
           \/ \E to \in TaskStates : DueTaskIsListed(w, t, to)
           \/ \E pc \in {"match", "leave"} : WatchIsListed(w, t, pc)
    PROVE  Sound
  <1>1. /\ {"due", "match", "leave"} \subseteq Pcs
        /\ {"ready", "expired"} \subseteq TaskStates
    BY States DEF Pcs
  <1> QED
    BY <1>1, ListedTask DEF DueTaskIsListed, WatchIsListed, world

LEMMA ActionAsks ==
    ASSUME ExecutionInv, NEW w \in Worker, NEW a \in plan.action, NEW t \in plan.task,
           ActionIsAsked(w, a, t)
    PROVE  Sound
  <1> DEFINE c == [Idle EXCEPT !.pc = "propose", !.id = a, !.parent = t, !.rev = task[t].rev]
  <1>1. task[t].rev \in Nat /\ task[t].rev \in task[t].ran
    BY PlanTypes DEF ActionIsAsked, ExecutionInv, Typed, TaskRecord, TaskHolds
  <1>2. c \in CallRecord
    BY <1>1 DEF CallRecord, Idle, Pcs
  <1>3. CallHolds(c)
    BY <1>1 DEF CallHolds, Idle
  <1>4. worker'[w] = c /\ worker' = [v \in Worker |-> IF v = w THEN worker'[w] ELSE worker[v]]
    BY DEF ActionIsAsked, ExecutionInv, Typed
  <1> QED
    BY <1>2, <1>3, <1>4, ReadsAreSound DEF ActionIsAsked, world

LEMMA AuthorizationAsks ==
    ASSUME ExecutionInv, NEW w \in Worker, NEW a \in plan.action, AuthorizationIsAsked(w, a)
    PROVE  Sound
  <1> DEFINE c == [Idle EXCEPT !.pc = "authorize", !.id = a, !.rev = action[a].rev,
                               !.to = "submitted", !.fresh = TRUE]
  <1>1. action[a].rev \in Nat \ {0} /\ action[a].state = "proposed"
    BY DEF AuthorizationIsAsked, Eligible, ExecutionInv, Typed, ActionRecord, ActionHolds
  <1>2. c \in CallRecord
    BY <1>1 DEF CallRecord, Idle, Pcs, ActionStates
  <1>3. OnActionHolds(c, {"proposed"})
    BY <1>1 DEF OnActionHolds, Idle
  <1>4. CallHolds(c)
    BY <1>3 DEF CallHolds, Idle
  <1> QED
    BY <1>2, <1>4, CallsAreSound DEF AuthorizationIsAsked, world

LEMMA AuthorizerIsSound ==
    ASSUME ExecutionInv, NEW w \in Worker, AuthorizerAllows(w)
    PROVE  Sound
  <1> DEFINE c == [worker[w] EXCEPT !.pc = "submit", !.fresh = TRUE]
  <1>1. worker[w] \in CallRecord /\ CallHolds(worker[w])
    BY DEF ExecutionInv, Typed
  <1>2. c \in CallRecord
    BY <1>1 DEF CallRecord, Pcs
  <1>3. OnActionHolds(c, {"proposed"}) /\ Eligible(c.id)
    BY <1>1 DEF OnActionHolds, CallHolds, AuthorizerAllows, CallRecord
  <1>4. CallHolds(c)
    BY <1>1, <1>3 DEF CallHolds, CallRecord
  <1>5. worker'[w] = c /\ worker' = [v \in Worker |-> IF v = w THEN worker'[w] ELSE worker[v]]
    BY DEF AuthorizerAllows, ExecutionInv, Typed, CallRecord
  <1> QED
    BY <1>2, <1>4, <1>5, ReadsAreSound DEF AuthorizerAllows, world

LEMMA OutcomeAsks ==
    ASSUME ExecutionInv, NEW w \in Worker, NEW a \in plan.action, NEW to \in Results,
           OutcomeIsAsked(w, a, to)
    PROVE  Sound
  <1> DEFINE c == [Idle EXCEPT !.pc = "outcome", !.id = a, !.rev = action[a].rev, !.to = to, !.fresh = TRUE]
  <1>1. action[a].rev \in Nat \ {0} /\ action[a].state \in Pending
    BY DEF OutcomeIsAsked, Pending, ExecutionInv, Typed, ActionRecord, ActionHolds
  <1>2. c \in CallRecord
    BY <1>1 DEF CallRecord, Idle, Pcs, ActionStates, Results
  <1>3. OnActionHolds(c, Pending)
    BY <1>1 DEF OnActionHolds, Idle
  <1>4. CallHolds(c)
    BY <1>3 DEF CallHolds, Idle
  <1> QED
    BY <1>2, <1>4, CallsAreSound DEF OutcomeIsAsked, world

LEMMA StopsAreSound ==
    ASSUME ExecutionInv, NEW w \in Worker, WorkerStops(w)
    PROVE  Sound
  <1>1. worker'[w] = Idle /\ worker' = [v \in Worker |-> IF v = w THEN worker'[w] ELSE worker[v]]
    BY DEF WorkerStops, ExecutionInv, Typed
  <1>2. worker'[w] \in CallRecord /\ CallHolds(worker'[w])
    BY <1>1, IdleHolds DEF ExecutionInv, Typed
  <1> QED
    BY <1>1, <1>2, ReadsAreSound DEF WorkerStops, world

-----------------------------------------------------------------------------
(* What is written.                                                         *)

\* A write that concerns goals only.
LEMMA GoalWrites ==
    ASSUME ExecutionInv, NEW g \in plan.goal, NEW to \in GoalStates, NEW ws, worker' = Moved(ws),
           goal[g].state = "absent" \/ to \in {goal[g].state} \cup GoalMoves[goal[g].state],
           goal' = [goal EXCEPT ![g] = [state |-> to, rev |-> goal[g].rev + 1]],
           UNCHANGED <<plan, task, action, outcome, woken, outdated>>
    PROVE  Sound
  <1>1. goal[g].rev \in Nat /\ goal'[g] = [state |-> to, rev |-> goal[g].rev + 1]
        /\ (\A h \in plan.goal \ {g} : goal'[h] = goal[h])
        /\ goal' \in [plan.goal -> GoalRecord]
    BY DEF ExecutionInv, Typed, GoalRecord
  <1>2. worker' \in [Worker -> CallRecord] /\ \A w \in Worker : Outpaced(w)
    BY MovedOutpaces DEF ExecutionInv
  <1>3. Typed'
    BY <1>1, <1>2 DEF ExecutionInv, Typed, CallRecord, OutcomeRecord, TaskRecord, ActionRecord, GoalRecord
  <1>4. Grows
    BY DEF Grows, ExecutionInv, Typed, TaskRecord, ActionRecord
  <1>5. \A h \in plan.goal : GoalHolds(h)'
    BY <1>1, States DEF ExecutionInv, GoalHolds
  <1>6. /\ \A t \in plan.task : TaskHolds(t)'
        /\ \A a \in plan.action : ActionHolds(a)'
        /\ \A o \in outcome' : OutcomeHolds(o)'
    BY DEF ExecutionInv, TaskHolds, ActionHolds, OutcomeHolds
  <1>7. ExecutionInv'
    BY <1>2, <1>3, <1>4, <1>5, <1>6, WritesKeep
  <1>8. LegalStep /\ SubmittedStep
    BY <1>1 DEF LegalStep, SubmittedStep
  <1> QED
    BY <1>7, <1>8 DEF Sound

LEMMA GoalsAreSound ==
    ASSUME ExecutionInv,
           \/ \E g \in plan.goal : GoalIsProposed(g) \/ GoalIsInvalidated(g)
           \/ \E w \in Worker : GoalIsMoved(w)
    PROVE  Sound
  <1>1. ASSUME NEW g \in plan.goal, GoalIsProposed(g) PROVE Sound
    <2>1. goal[g].state = "absent" /\ goal[g].rev = 0
      BY <1>1 DEF GoalIsProposed, ExecutionInv, GoalHolds
    <2>2. goal' = [goal EXCEPT ![g] = [state |-> "proposed", rev |-> goal[g].rev + 1]]
      BY <1>1, <2>1 DEF GoalIsProposed
    <2> QED
      BY <1>1, <2>1, <2>2, States, GoalWrites DEF GoalIsProposed
  <1>2. ASSUME NEW g \in plan.goal, GoalIsInvalidated(g) PROVE Sound
    <2>1. [goal[g] EXCEPT !.rev = @ + 1] = [state |-> goal[g].state, rev |-> goal[g].rev + 1]
      BY DEF ExecutionInv, Typed, GoalRecord
    <2>2. goal' = [goal EXCEPT ![g] = [goal[g] EXCEPT !.rev = @ + 1]]
      BY <1>2 DEF GoalIsInvalidated
    <2>3. goal' = [goal EXCEPT ![g] = [state |-> goal[g].state, rev |-> goal[g].rev + 1]]
      BY <2>1, <2>2
    <2> QED
      BY <1>2, <2>3, GoalWrites DEF GoalIsInvalidated
  <1>3. ASSUME NEW w \in Worker, GoalIsMoved(w) PROVE Sound
    <2> DEFINE g == worker[w].id
    <2>1. /\ g \in plan.goal /\ worker[w].to \in GoalStates
          /\ goal[g].rev = worker[w].rev /\ worker[w].to \in GoalMoves[goal[g].state]
      BY <1>3 DEF GoalIsMoved, Unchanged, ExecutionInv, CallHolds
    <2>2. goal' = [goal EXCEPT ![g] = [state |-> worker[w].to, rev |-> goal[g].rev + 1]]
      BY <1>3, <2>1 DEF GoalIsMoved
    <2> QED
      BY <1>3, <2>1, <2>2, GoalWrites DEF GoalIsMoved
  <1> QED
    BY <1>1, <1>2, <1>3

\* A new revision of a task, and of proposals that go with it.
LEMMA TaskWrites ==
    ASSUME ExecutionInv, NEW t \in plan.task, NEW next \in TaskRecord,
           task' = [task EXCEPT ![t] = next], next.rev = task[t].rev + 1, next.state \in TaskStates,
           task[t].state = "absent" \/ next.state \in {task[t].state} \cup TaskMoves[task[t].state],
           task[t].ran \subseteq next.ran, next.state = "running" => next.rev \in next.ran,
           next.results \subseteq outcome,
           action' \in [plan.action -> ActionRecord],
           \A a \in plan.action :
              \/ action'[a] = action[a]
              \/ /\ action[a].state = "proposed" /\ action'[a].state \in {"proposed", "cancelled"}
                 /\ action'[a].rev = action[a].rev + 1
                 /\ action'[a].task = action[a].task /\ action'[a].pin = action[a].pin,
           worker' \in [Worker -> CallRecord], \A w \in Worker : Outpaced(w),
           woken' \subseteq plan.task \X Nat,
           UNCHANGED <<plan, goal, outcome, outdated>>
    PROVE  Sound
  <1>1. /\ task'[t] = next /\ task' \in [plan.task -> TaskRecord]
        /\ \A u \in plan.task \ {t} : task'[u] = task[u]
    BY DEF ExecutionInv, Typed
  <1>2. Typed'
    BY <1>1 DEF ExecutionInv, Typed, CallRecord, OutcomeRecord, TaskRecord, ActionRecord, GoalRecord
  <1>3. \A u \in plan.task : TaskHolds(u) /\ task[u].rev \in Nat /\ task[u].ran \subseteq task'[u].ran
    BY <1>1 DEF ExecutionInv, Typed, TaskRecord
  <1>4. \A a \in plan.action : ActionHolds(a) /\ action[a].rev \in Nat
    BY DEF ExecutionInv, Typed, ActionRecord
  <1>5. Grows
    BY <1>1, <1>3, <1>4 DEF Grows
  <1>6. \A u \in plan.task : TaskHolds(u)'
    BY <1>1, <1>3, States DEF TaskHolds
  <1>7. \A a \in plan.action : ActionHolds(a)'
    BY <1>3, <1>4 DEF ActionHolds
  <1>8. \A o \in outcome' : OutcomeHolds(o)'
    <2> TAKE o \in outcome'
    <2>1. OutcomeHolds(o) /\ o.action \in plan.action /\ o.rev \in Nat
      BY DEF ExecutionInv, Typed, OutcomeRecord
    <2> QED
      BY <1>4, <2>1 DEF OutcomeHolds
  <1>9. \A g \in plan.goal : GoalHolds(g)'
    BY DEF ExecutionInv, GoalHolds
  <1>10. ExecutionInv'
    BY <1>2, <1>5, <1>6, <1>7, <1>8, <1>9, WritesKeep
  <1>11. LegalStep
    BY <1>1, <1>4 DEF LegalStep, ActionMoves
  <1>12. SubmittedStep
    BY DEF SubmittedStep
  <1> QED
    BY <1>10, <1>11, <1>12 DEF Sound

Created(r, to) == [r EXCEPT !.state = to, !.rev = 1]

LEMMA CreatedTask ==
    ASSUME NEW r \in TaskRecord, NEW to \in TaskStates, 1 \in 0 .. plan.revisions
    PROVE  /\ Created(r, to) \in TaskRecord /\ Created(r, to).rev = 1 /\ Created(r, to).state = to
           /\ Created(r, to).ran = r.ran /\ Created(r, to).results = r.results
  BY DEF TaskRecord, Created

LEMMA CreationIsSound ==
    ASSUME ExecutionInv, NEW w \in Worker, TaskIsCreated(w)
    PROVE  Sound
  <1> DEFINE t == worker[w].id
             next == Created(task[t], worker[w].to)
  <1>1. /\ t \in plan.task /\ worker[w].to \in TaskStates /\ worker[w].to # "running"
        /\ task[t].rev = 0 /\ task[t].state = "absent" /\ task[t] \in TaskRecord
        /\ task[t].results \subseteq outcome
    BY StartingStates DEF TaskIsCreated, Follows, ExecutionInv, Typed, CallHolds, TaskHolds, Starting, Waiting
  <1>2. plan.revisions \in Nat \ {0}
    BY PlanTypes DEF ExecutionInv
  <1>3. /\ next \in TaskRecord /\ next.rev = task[t].rev + 1 /\ next.state = worker[w].to
        /\ next.ran = task[t].ran /\ next.results = task[t].results
    <2>1. 1 \in 0 .. plan.revisions /\ task[t].rev + 1 = 1
      BY <1>1, <1>2
    <2> QED
      BY <1>1, <2>1, CreatedTask
  <1>4. task' = [task EXCEPT ![t] = next]
    BY <1>1 DEF TaskIsCreated, Created, ExecutionInv, Typed, TaskRecord
  <1>5. worker' \in [Worker -> CallRecord] /\ \A v \in Worker : Outpaced(v)
    BY MovedOutpaces DEF ExecutionInv, TaskIsCreated
  <1>6. action' \in [plan.action -> ActionRecord] /\ woken' \subseteq plan.task \X Nat
    BY DEF TaskIsCreated, ExecutionInv, Typed
  <1> QED
    BY <1>1, <1>3, <1>4, <1>5, <1>6, TaskWrites DEF TaskIsCreated

LEMMA RevisedTask ==
    ASSUME ExecutionInv, NEW t \in plan.task, NEW to \in TaskStates, task[t].rev < plan.revisions
    PROVE  /\ Revised(t, to) \in TaskRecord /\ Revised(t, to).rev = task[t].rev + 1
           /\ Revised(t, to).state = to /\ Revised(t, to).results = task[t].results
           /\ task[t].ran \subseteq Revised(t, to).ran
           /\ to = "running" => Revised(t, to).rev \in Revised(t, to).ran
  <1>1. task[t] \in TaskRecord /\ plan.revisions \in Nat \ {0} /\ task[t].rev \in Nat
    BY PlanTypes DEF ExecutionInv, Typed, TaskRecord
  <1>2. task[t].rev + 1 \in 1 .. plan.revisions /\ task[t].ran \in SUBSET (1 .. plan.revisions)
    BY <1>1 DEF TaskRecord
  <1>3. /\ Revised(t, to).rev = task[t].rev + 1 /\ Revised(t, to).state = to
        /\ Revised(t, to).ran = IF to = "running" THEN task[t].ran \cup {task[t].rev + 1} ELSE task[t].ran
        /\ Revised(t, to).results = task[t].results /\ Revised(t, to).cited = task[t].cited
    BY <1>1 DEF Revised, TaskRecord
  <1>4. Revised(t, to) \in TaskRecord
    <2> DEFINE R == IF to = "running" THEN task[t].ran \cup {task[t].rev + 1} ELSE task[t].ran
    <2>1. R \in SUBSET (1 .. plan.revisions) /\ task[t].rev + 1 \in 0 .. plan.revisions
      BY <1>1, <1>2
    <2>2. Revised(t, to) = [task[t] EXCEPT !.state = to, !.rev = task[t].rev + 1, !.ran = R]
      BY <1>1 DEF Revised, TaskRecord
    <2>3. task[t].cited \in SUBSET plan.evidence /\ task[t].results \in SUBSET OutcomeRecord
      BY <1>1 DEF TaskRecord
    <2> HIDE DEF R
    <2> QED
      BY <1>1, <2>1, <2>2, <2>3 DEF TaskRecord
  <1> QED
    BY <1>2, <1>3, <1>4

Resting(r, cited, results) == [r EXCEPT !.cited = cited, !.results = results]

LEMMA RestingTask ==
    ASSUME NEW r \in TaskRecord, NEW cited \in SUBSET plan.evidence, NEW results \in SUBSET OutcomeRecord
    PROVE  LET n == Resting(r, cited, results)
           IN  n \in TaskRecord /\ n.rev = r.rev /\ n.state = r.state /\ n.ran = r.ran /\ n.results = results
  BY DEF TaskRecord, Resting

\* What a call on a task holds, when its revision is still the newest.
LEMMA HeldTask ==
    ASSUME ExecutionInv, NEW w \in Worker, worker[w].pc \in {"task", "due", "match", "leave"}
    PROVE  LET t == worker[w].id
           IN  /\ t \in plan.task /\ worker[w].rev \in Nat /\ worker[w].to \in TaskStates
               /\ worker[w].cited \in SUBSET plan.evidence /\ worker[w].results \in SUBSET OutcomeRecord
               /\ worker[w].results \subseteq outcome /\ task[t].results \subseteq outcome
               /\ Follows(task[t], worker[w].rev) =>
                     task[t].rev < plan.revisions /\ worker[w].to \in TaskMoves[task[t].state]
  <1>1. worker[w] \in CallRecord /\ OnTaskHolds(worker[w]) /\ plan.revisions \in Nat
    BY PlanTypes DEF ExecutionInv, Typed, CallHolds
  <1> QED
    BY <1>1 DEF CallRecord, OnTaskHolds, Follows, ExecutionInv, TaskHolds

Ended(r, to) == [r EXCEPT !.state = to, !.rev = @ + 1]

LEMMA EndedAction ==
    ASSUME NEW r \in ActionRecord, NEW to \in ActionStates
    PROVE  LET n == Ended(r, to)
           IN  n \in ActionRecord /\ n.state = to /\ n.rev = r.rev + 1
               /\ n.task = r.task /\ n.pin = r.pin
  <1>1. PICK rev \in Nat : rev = r.rev + 1
    BY DEF ActionRecord
  <1>2. Ended(r, to) = [r EXCEPT !.state = to, !.rev = rev]
    BY <1>1 DEF Ended
  <1>3. [r EXCEPT !.state = to, !.rev = rev] \in ActionRecord
    BY DEF ActionRecord
  <1> QED
    BY <1>1, <1>2, <1>3 DEF ActionRecord

LEMMA TaskMoveIsSound ==
    ASSUME ExecutionInv, NEW w \in Worker, TaskIsMoved(w)
    PROVE  Sound
  <1> DEFINE t == worker[w].id
             to == worker[w].to
             next == Resting(Revised(t, to), worker[w].cited, worker[w].results)
  <1>1. /\ t \in plan.task /\ to \in TaskStates /\ task[t].rev < plan.revisions
        /\ to \in TaskMoves[task[t].state] /\ worker[w].results \subseteq outcome
        /\ worker[w].cited \in SUBSET plan.evidence /\ worker[w].results \in SUBSET OutcomeRecord
    BY HeldTask DEF TaskIsMoved, ActionsUnder
  <1>2. /\ next \in TaskRecord /\ next.rev = task[t].rev + 1 /\ next.state = to
        /\ task[t].ran \subseteq next.ran /\ (next.state = "running" => next.rev \in next.ran)
        /\ next.results \subseteq outcome
    <2> HIDE DEF t, to
    <2> QED
      BY <1>1, RevisedTask, RestingTask
  <1>3. task' = [task EXCEPT ![t] = next]
    BY DEF TaskIsMoved, ActionsUnder, Resting
  <1>4. /\ action' \in [plan.action -> ActionRecord]
        /\ \A a \in plan.action :
              \/ action'[a] = action[a]
              \/ /\ action[a].state = "proposed" /\ action'[a].state \in {"proposed", "cancelled"}
                 /\ action'[a].rev = action[a].rev + 1
                 /\ action'[a].task = action[a].task /\ action'[a].pin = action[a].pin
    <2>1. \A a \in plan.action : action[a] \in ActionRecord
      BY DEF ExecutionInv, Typed
    <2>2. "cancelled" \in ActionStates
      BY DEF ActionStates
    <2>3. ASSUME NEW a \in plan.action
          PROVE  \/ action'[a] = action[a]
                 \/ /\ action'[a] = Ended(action[a], "cancelled")
                    /\ action[a].state = "proposed"
      BY DEF TaskIsMoved, ActionsUnder, Ended
    <2>4. \A a \in plan.action : action'[a] \in ActionRecord
      BY <2>1, <2>2, <2>3, EndedAction
    <2>5. action' = [a \in plan.action |-> action'[a]]
      BY DEF TaskIsMoved, ActionsUnder
    <2>6. action' \in [plan.action -> ActionRecord]
      BY <2>4, <2>5
    <2> QED
      BY <2>1, <2>2, <2>3, <2>6, EndedAction
  <1>5. worker' \in [Worker -> CallRecord] /\ \A v \in Worker : Outpaced(v)
    BY MovedOutpaces DEF ExecutionInv, TaskIsMoved, ActionsUnder
  <1>6. woken' \subseteq plan.task \X Nat
    BY DEF TaskIsMoved, ActionsUnder, ExecutionInv, Typed
  <1> HIDE DEF t, to, next
  <1> QED
    BY <1>1, <1>2, <1>3, <1>4, <1>5, <1>6, TaskWrites DEF TaskIsMoved, ActionsUnder

\* A due task, or a watch that is left.
LEMMA LeavingIsSound ==
    ASSUME ExecutionInv, NEW w \in Worker, DueTaskIsWoken(w) \/ WatchIsLeft(w)
    PROVE  Sound
  <1> DEFINE t == worker[w].id
             to == worker[w].to
             next == Revised(t, to)
  <1>1. /\ t \in plan.task /\ to \in TaskStates /\ task[t].rev < plan.revisions
        /\ to \in TaskMoves[task[t].state] /\ task[t].results \subseteq outcome
        /\ worker[w].rev \in Nat
    BY HeldTask DEF DueTaskIsWoken, WatchIsLeft
  <1>2. /\ next \in TaskRecord /\ next.rev = task[t].rev + 1 /\ next.state = to
        /\ task[t].ran \subseteq next.ran /\ (next.state = "running" => next.rev \in next.ran)
        /\ next.results \subseteq outcome
    <2> HIDE DEF t, to
    <2> QED
      BY <1>1, RevisedTask
  <1>3. task' = [task EXCEPT ![t] = next] /\ worker' = Moved({w})
    BY DEF DueTaskIsWoken, WatchIsLeft
  <1>4. action' \in [plan.action -> ActionRecord] /\ \A a \in plan.action : action'[a] = action[a]
    BY DEF DueTaskIsWoken, WatchIsLeft, ExecutionInv, Typed
  <1>5. worker' \in [Worker -> CallRecord] /\ \A v \in Worker : Outpaced(v)
    BY <1>3, MovedOutpaces DEF ExecutionInv, DueTaskIsWoken, WatchIsLeft
  <1>6. woken' \subseteq plan.task \X Nat
    BY <1>1 DEF DueTaskIsWoken, WatchIsLeft, ExecutionInv, Typed
  <1>7. UNCHANGED <<plan, goal, outcome, outdated>>
    BY DEF DueTaskIsWoken, WatchIsLeft
  <1> HIDE DEF t, to, next
  <1> QED
    BY <1>1, <1>2, <1>3, <1>4, <1>5, <1>6, <1>7, TaskWrites

\* A correction that reaches a task, and the proposals pinned to it.
LEMMA TaskCorrectionIsSound ==
    ASSUME ExecutionInv, NEW t \in plan.task, TaskIsInvalidated(t)
    PROVE  Sound
  <1> DEFINE next == Revised(t, task[t].state)
  <1>1. /\ task[t].state \in TaskStates /\ task[t].rev < plan.revisions
        /\ task[t].results \subseteq outcome
    BY DEF TaskIsInvalidated, ExecutionInv, TaskHolds
  <1>2. /\ next \in TaskRecord /\ next.rev = task[t].rev + 1 /\ next.state = task[t].state
        /\ task[t].ran \subseteq next.ran /\ (next.state = "running" => next.rev \in next.ran)
        /\ next.results \subseteq outcome
    BY <1>1, RevisedTask
  <1>3. task' = [task EXCEPT ![t] = next]
    BY DEF TaskIsInvalidated
  <1>4. \A a \in plan.action : ActionHolds(a) /\ action[a] \in ActionRecord
    BY DEF ExecutionInv, Typed
  <1>5. /\ action' \in [plan.action -> ActionRecord]
        /\ \A a \in plan.action :
              \/ action'[a] = action[a]
              \/ /\ action[a].state = "proposed" /\ action'[a].state \in {"proposed", "cancelled"}
                 /\ action'[a].rev = action[a].rev + 1
                 /\ action'[a].task = action[a].task /\ action'[a].pin = action[a].pin
    BY <1>4 DEF TaskIsInvalidated, ActionHolds, ActionRecord, ActionStates
  <1>6. worker' \in [Worker -> CallRecord] /\ \A v \in Worker : Outpaced(v)
    BY MovedOutpaces DEF ExecutionInv, TaskIsInvalidated
  <1>7. woken' \subseteq plan.task \X Nat
    BY DEF TaskIsInvalidated, ExecutionInv, Typed
  <1> HIDE DEF next
  <1> QED
    BY <1>1, <1>2, <1>3, <1>5, <1>6, <1>7, TaskWrites DEF TaskIsInvalidated

\* A write of evidence, or of a wake: no goal, task or action is revised.
LEMMA OtherWrites ==
    ASSUME ExecutionInv, worker' \in [Worker -> CallRecord],
           \A w \in Worker : Outpaced(w) \/ CallHolds(worker'[w]),
           woken' \subseteq plan.task \X Nat, outdated' \subseteq plan.evidence \cup outcome,
           UNCHANGED <<plan, goal, task, action, outcome>>
    PROVE  Sound
  <1>1. Typed'
    BY DEF ExecutionInv, Typed, CallRecord, OutcomeRecord, TaskRecord, ActionRecord, GoalRecord
  <1>2. Grows
    BY DEF Grows, ExecutionInv, Typed, TaskRecord, ActionRecord
  <1>3. /\ \A g \in plan.goal : GoalHolds(g)'
        /\ \A t \in plan.task : TaskHolds(t)'
        /\ \A a \in plan.action : ActionHolds(a)'
        /\ \A o \in outcome' : OutcomeHolds(o)'
    BY DEF ExecutionInv, GoalHolds, TaskHolds, ActionHolds, OutcomeHolds
  <1>4. ASSUME NEW w \in Worker PROVE CallHolds(worker[w])'
    <2>1. CASE Outpaced(w)
      BY <1>1, <1>2, <2>1, CallsKept
    <2>2. CASE CallHolds(worker'[w])
      BY <2>2 DEF CallHolds, OnTaskHolds, OnActionHolds, Eligible
    <2> QED
      BY <2>1, <2>2
  <1>5. ExecutionInv'
    BY <1>1, <1>3, <1>4 DEF ExecutionInv
  <1> QED
    BY <1>5 DEF Sound, LegalStep, SubmittedStep

LEMMA WatchWakesIsSound ==
    ASSUME ExecutionInv, NEW w \in Worker, WatchWakes(w)
    PROVE  Sound
  <1> DEFINE left == [worker[w] EXCEPT !.pc = "leave"]
             t == worker[w].id
  <1>1. worker[w] \in CallRecord /\ OnTaskHolds(worker[w]) /\ worker[w].pc = "match"
    BY DEF WatchWakes, ExecutionInv, Typed, CallHolds
  <1>2. left \in CallRecord /\ CallHolds(left)
    <2>1. "leave" \in Pcs /\ left \in CallRecord
      BY <1>1 DEF CallRecord, Pcs
    <2>2. OnTaskHolds(left) /\ left.pc = "leave"
      BY <1>1 DEF OnTaskHolds, CallRecord
    <2> QED
      BY <2>1, <2>2 DEF CallHolds
  <1>3. Moved({}) \in [Worker -> CallRecord]
        /\ \A v \in Worker : Moved({})[v] = [worker[v] EXCEPT !.fresh = FALSE]
    BY DEF Moved, ExecutionInv, Typed, CallRecord
  <1>4. worker'[w] \in {Idle, left} /\ \A v \in Worker \ {w} : worker'[v] = Moved({})[v]
    BY <1>3 DEF WatchWakes
  <1>5. worker' \in [Worker -> CallRecord]
    <2>1. worker' = [v \in Worker |-> worker'[v]]
      BY <1>3 DEF WatchWakes
    <2>2. \A v \in Worker : worker'[v] \in CallRecord
      BY <1>2, <1>3, <1>4, IdleHolds DEF ExecutionInv, Typed
    <2> QED
      BY <2>1, <2>2
  <1>6. \A v \in Worker : Outpaced(v) \/ CallHolds(worker'[v])
    BY <1>2, <1>3, <1>4 DEF Outpaced
  <1>7. woken' \subseteq plan.task \X Nat
    BY <1>1 DEF WatchWakes, OnTaskHolds, CallRecord, ExecutionInv, Typed
  <1> QED
    BY <1>5, <1>6, <1>7, OtherWrites DEF WatchWakes, ExecutionInv, Typed

LEMMA EvidenceIsSound ==
    ASSUME ExecutionInv,
           \/ \E e \in plan.evidence : EvidenceIsOutdated(e)
           \/ \E o \in outcome : OutcomeIsInvalidated(o)
    PROVE  Sound
  <1>1. worker' \in [Worker -> CallRecord] /\ \A v \in Worker : Outpaced(v)
    BY MovedOutpaces DEF ExecutionInv, EvidenceIsOutdated, OutcomeIsInvalidated
  <1>2. outdated' \subseteq plan.evidence \cup outcome /\ woken' \subseteq plan.task \X Nat
    BY DEF EvidenceIsOutdated, OutcomeIsInvalidated, ExecutionInv, Typed
  <1> QED
    BY <1>1, <1>2, OtherWrites DEF EvidenceIsOutdated, OutcomeIsInvalidated

\* A new revision of an action, and the outcome recorded with it.
LEMMA ActionWrites ==
    ASSUME ExecutionInv, NEW a \in plan.action, NEW next \in ActionRecord,
           action' = [action EXCEPT ![a] = next], next.rev = action[a].rev + 1,
           next.state \in ActionMoves[action[a].state], next.state # "absent",
           next.rev = 1 => next.state = "proposed",
           next.task \in plan.task, next.pin \in task[next.task].ran,
           action[a].state = "proposed" /\ next.state = "submitted" => Eligible(a),
           outcome \subseteq outcome',
           \A o \in outcome' \ outcome :
              o \in OutcomeRecord /\ o.action = a /\ o.rev = next.rev /\ o.state = next.state /\ 3 <= o.rev,
           worker' \in [Worker -> CallRecord], \A w \in Worker : Outpaced(w),
           UNCHANGED <<plan, goal, task, woken, outdated>>
    PROVE  Sound
  <1>1. /\ action'[a] = next /\ action' \in [plan.action -> ActionRecord]
        /\ \A b \in plan.action \ {a} : action'[b] = action[b]
    BY DEF ExecutionInv, Typed
  <1>3. Typed'
    BY <1>1 DEF ExecutionInv, Typed, CallRecord, OutcomeRecord, TaskRecord, ActionRecord, GoalRecord
  <1>4. \A b \in plan.action : ActionHolds(b) /\ action[b].rev \in Nat /\ action'[b].rev \in Nat
    BY <1>1 DEF ExecutionInv, Typed, ActionRecord
  <1>5. Grows
    BY <1>1, <1>4 DEF Grows, ExecutionInv, Typed, TaskRecord
  <1>6. \A b \in plan.action : ActionHolds(b)'
    BY <1>1, <1>4 DEF ActionHolds
  <1>7. \A o \in outcome' : OutcomeHolds(o)'
    <2> TAKE o \in outcome'
    <2>1. CASE o \in outcome' \ outcome
      BY <1>1, <1>4, <2>1 DEF OutcomeHolds, OutcomeRecord
    <2>2. CASE o \in outcome
      <3>1. OutcomeHolds(o) /\ o.action \in plan.action /\ o.rev \in Nat
        BY <2>2 DEF ExecutionInv, Typed, OutcomeRecord
      <3> QED
        BY <1>1, <1>4, <3>1 DEF OutcomeHolds
    <2> QED
      BY <2>1, <2>2
  <1>8. /\ \A g \in plan.goal : GoalHolds(g)'
        /\ \A t \in plan.task : TaskHolds(t)'
    BY DEF ExecutionInv, GoalHolds, TaskHolds
  <1>9. ExecutionInv'
    BY <1>3, <1>5, <1>6, <1>7, <1>8, WritesKeep
  <1>10. LegalStep
    BY <1>1, <1>4 DEF LegalStep
  <1>11. SubmittedStep
    BY <1>1 DEF SubmittedStep, Eligible
  <1> QED
    BY <1>9, <1>10, <1>11 DEF Sound

LEMMA ProposalIsSound ==
    ASSUME ExecutionInv, NEW w \in Worker, ActionIsProposed(w)
    PROVE  Sound
  <1> DEFINE a == worker[w].id
             next == [state |-> "proposed", rev |-> 1, task |-> worker[w].parent, pin |-> worker[w].rev]
  <1>1. /\ a \in plan.action /\ worker[w].parent \in plan.task /\ worker[w].rev \in Nat
        /\ worker[w].rev \in task[worker[w].parent].ran
        /\ action[a].rev = 0 /\ action[a].state = "absent"
    BY DEF ActionIsProposed, Follows, ExecutionInv, Typed, CallHolds, CallRecord, ActionHolds
  <1>2. next \in ActionRecord
    BY <1>1 DEF ActionRecord, ActionStates
  <1>3. next.rev = action[a].rev + 1 /\ next.state \in ActionMoves[action[a].state]
    BY <1>1 DEF ActionMoves
  <1>4. action' = [action EXCEPT ![a] = next]
    BY DEF ActionIsProposed
  <1>5. worker' \in [Worker -> CallRecord] /\ \A v \in Worker : Outpaced(v)
    BY MovedOutpaces DEF ExecutionInv, ActionIsProposed
  <1> QED
    BY <1>1, <1>2, <1>3, <1>4, <1>5, ActionWrites DEF ActionIsProposed

\* An action's next revision, written by a call.
LEMMA EndWrites ==
    ASSUME ExecutionInv, NEW a \in plan.action, NEW to \in ActionStates,
           action[a].state # "absent", to \in ActionMoves[action[a].state],
           action[a].state = "proposed" /\ to = "submitted" => Eligible(a),
           action' = [action EXCEPT ![a] = Ended(action[a], to)],
           outcome \subseteq outcome',
           \A o \in outcome' \ outcome :
              o \in OutcomeRecord /\ o.action = a /\ o.rev = action[a].rev + 1 /\ o.state = to /\ 3 <= o.rev,
           worker' \in [Worker -> CallRecord], \A w \in Worker : Outpaced(w),
           UNCHANGED <<plan, goal, task, woken, outdated>>
    PROVE  Sound
  <1> DEFINE next == Ended(action[a], to)
  <1>1. action[a] \in ActionRecord /\ ActionHolds(a) /\ action[a].rev \in Nat \ {0}
    BY DEF ExecutionInv, Typed, ActionRecord, ActionHolds
  <1>2. /\ next \in ActionRecord /\ next.state = to /\ next.rev = action[a].rev + 1
        /\ next.task = action[a].task /\ next.pin = action[a].pin
    BY <1>1, EndedAction
  <1>3. next.rev # 1 /\ next.task \in plan.task /\ next.pin \in task[next.task].ran
    BY <1>1, <1>2 DEF ActionHolds
  <1>4. next.state # "absent"
    BY <1>2 DEF ActionStates
  <1>5. \A o \in outcome' \ outcome :
           o \in OutcomeRecord /\ o.action = a /\ o.rev = next.rev /\ o.state = next.state /\ 3 <= o.rev
    BY <1>2
  <1>6. /\ action' = [action EXCEPT ![a] = next] /\ next.state \in ActionMoves[action[a].state]
        /\ next.rev = 1 => next.state = "proposed"
        /\ action[a].state = "proposed" /\ next.state = "submitted" => Eligible(a)
    BY <1>2, <1>3
  <1> HIDE DEF next
  <1> QED
    BY <1>2, <1>3, <1>4, <1>5, <1>6, ActionWrites

LEMMA SubmissionIsSound ==
    ASSUME ExecutionInv, NEW w \in Worker, ActionIsSubmitted(w)
    PROVE  Sound
  <1> DEFINE a == worker[w].id
  <1>1. a \in plan.action /\ Eligible(a) /\ action[a].state = "proposed" /\ action[a] \in ActionRecord
    BY DEF ActionIsSubmitted, Unchanged, ExecutionInv, Typed, CallHolds, OnActionHolds, Eligible
  <1>2. "submitted" \in ActionStates /\ "submitted" \in ActionMoves["proposed"]
    BY DEF ActionStates, ActionMoves
  <1>3. action' = [action EXCEPT ![a] = Ended(action[a], "submitted")]
    BY DEF ActionIsSubmitted, Ended
  <1>4. worker' \in [Worker -> CallRecord] /\ \A v \in Worker : Outpaced(v)
    BY MovedOutpaces DEF ExecutionInv, ActionIsSubmitted
  <1> HIDE DEF a
  <1> QED
    BY <1>1, <1>2, <1>3, <1>4, EndWrites DEF ActionIsSubmitted

LEMMA ActionCorrectionIsSound ==
    ASSUME ExecutionInv, NEW a \in plan.action, ActionIsInvalidated(a)
    PROVE  Sound
  <1> DEFINE to == action[a].state
  <1>1. /\ to \in ActionStates /\ to \in ActionMoves[to] /\ to # "absent"
        /\ ~(to = "proposed" /\ to = "submitted")
    BY DEF ActionIsInvalidated, ActionStates, ActionMoves
  <1>2. [action[a] EXCEPT !.rev = @ + 1] = Ended(action[a], to)
    BY DEF Ended, ExecutionInv, Typed, ActionRecord
  <1>3. action' = [action EXCEPT ![a] = Ended(action[a], to)]
    BY <1>2 DEF ActionIsInvalidated
  <1> HIDE DEF to
  <1>4. action[a].state = to
    BY DEF to
  <1>5. worker' \in [Worker -> CallRecord] /\ \A v \in Worker : Outpaced(v)
    BY MovedOutpaces DEF ExecutionInv, ActionIsInvalidated
  <1> QED
    BY <1>1, <1>3, <1>4, <1>5, EndWrites DEF ActionIsInvalidated

LEMMA OutcomeIsSound ==
    ASSUME ExecutionInv, NEW w \in Worker, OutcomeIsRecorded(w)
    PROVE  Sound
  <1> DEFINE a == worker[w].id
             to == worker[w].to
             o == Reported(a, worker[w].rev, to)
  <1>1. /\ a \in plan.action /\ to \in Results /\ action[a].state \in Pending
        /\ action[a].rev = worker[w].rev /\ worker[w].rev \in Nat /\ ActionHolds(a)
    BY DEF OutcomeIsRecorded, Follows, ExecutionInv, Typed, CallHolds, OnActionHolds
  <1>2. worker[w].rev + 1 \in Nat /\ 3 <= worker[w].rev + 1
    BY <1>1 DEF ActionHolds, Pending
  <1>3. o \in OutcomeRecord /\ o.action = a /\ o.rev = action[a].rev + 1 /\ o.state = to
    BY <1>1, <1>2 DEF Reported, OutcomeRecord
  <1>4. /\ to \in ActionStates /\ to \in ActionMoves[action[a].state] /\ action[a].state # "absent"
        /\ to # "submitted" /\ 3 <= o.rev
    BY <1>1, <1>2, <1>3 DEF Results, ActionStates, ActionMoves, Pending
  <1>5. action' = [action EXCEPT ![a] = Ended(action[a], to)]
        /\ outcome' = outcome \cup {o}
    BY DEF OutcomeIsRecorded, Ended
  <1>6. worker' \in [Worker -> CallRecord] /\ \A v \in Worker : Outpaced(v)
    BY MovedOutpaces DEF ExecutionInv, OutcomeIsRecorded
  <1> HIDE DEF a, to, o
  <1> QED
    BY <1>1, <1>3, <1>4, <1>5, <1>6, EndWrites DEF OutcomeIsRecorded

-----------------------------------------------------------------------------
(* Every step.                                                              *)

LEMMA OnTaskIsSound == ASSUME ExecutionInv, NEW w \in Worker, OnTask(w) PROVE Sound
  BY TaskAsks, TaskMoveAsks, ListsAreSound, CreationIsSound, TaskMoveIsSound, LeavingIsSound,
     WatchWakesIsSound DEF OnTask

LEMMA OnActionIsSound == ASSUME ExecutionInv, NEW w \in Worker, OnAction(w) PROVE Sound
  BY ActionAsks, AuthorizationAsks, OutcomeAsks, ProposalIsSound, AuthorizerIsSound, SubmissionIsSound,
     OutcomeIsSound DEF OnAction, Results

LEMMA StepsAreSound == ASSUME ExecutionInv, [ExecutionNext]_executionVars PROVE Sound
  <1>1. CASE UNCHANGED executionVars
    <2>1. ExecutionInv'
      <3>1. Typed'
        BY <1>1 DEF ExecutionInv, Typed, executionVars, CallRecord, OutcomeRecord, TaskRecord, ActionRecord,
                    GoalRecord
      <3>2. \A w \in Worker : CallHolds(worker[w])'
        BY <1>1 DEF ExecutionInv, CallHolds, OnTaskHolds, OnActionHolds, Eligible, executionVars
      <3>3. /\ \A g \in plan.goal : GoalHolds(g)'
            /\ \A t \in plan.task : TaskHolds(t)'
            /\ \A a \in plan.action : ActionHolds(a)'
            /\ \A o \in outcome' : OutcomeHolds(o)'
        BY <1>1 DEF ExecutionInv, GoalHolds, TaskHolds, ActionHolds, OutcomeHolds, executionVars
      <3> QED
        BY <1>1, <3>1, <3>2, <3>3 DEF ExecutionInv, executionVars
    <2> QED
      BY <1>1, <2>1 DEF Sound, LegalStep, SubmittedStep, executionVars
  <1>2. CASE ExecutionNext
    <2>1. ASSUME NEW w \in Worker, OnGoal(w) PROVE Sound
      BY <2>1, GoalAsks, GoalsAreSound DEF OnGoal
    <2>2. ASSUME SomethingIsInvalidated PROVE Sound
      BY <2>2, TaskCorrectionIsSound, GoalsAreSound, ActionCorrectionIsSound, EvidenceIsSound
         DEF SomethingIsInvalidated
    <2> QED
      BY <1>2, <2>1, <2>2, OnTaskIsSound, OnActionIsSound, StopsAreSound, GoalsAreSound, EvidenceIsSound
         DEF ExecutionNext
  <1> QED
    BY <1>1, <1>2

\* What the calls hold, and how goals, tasks, actions and outcomes hang together, at all times.
THEOREM ExecutionInvariant == ExecutionSpec => []ExecutionInv
  <1>1. ExecutionInv /\ [ExecutionNext]_executionVars => ExecutionInv'
    BY StepsAreSound DEF Sound
  <1> QED
    BY InitHolds, <1>1, PTL DEF ExecutionSpec

\* Types, and the pins between objects: an action belongs to a revision in which its task was
\* running, and an outcome to the revision that ended a submitted action with that result
\* (_load_action, _load_outcome).
THEOREM ExecutionTypeThm == ExecutionSpec => []ExecutionTypeOK
  <1>1. ExecutionInv => ExecutionTypeOK
    <2> SUFFICES ASSUME ExecutionInv PROVE ExecutionTypeOK
      OBVIOUS
    <2>1. goal \in [plan.goal -> [state : GoalStates \cup {"absent"}, rev : Nat]]
      BY DEF ExecutionInv, Typed, GoalRecord
    <2>2. ASSUME NEW t \in plan.task
          PROVE  /\ task[t] \in [state : TaskStates \cup {"absent"}, rev : 0 .. plan.revisions,
                                 ran : SUBSET (1 .. plan.revisions),
                                 cited : SUBSET plan.evidence, results : SUBSET outcome]
                 /\ task[t].state = "running" => task[t].rev \in task[t].ran
      <3>1. task[t] \in TaskRecord /\ TaskHolds(t)
        BY DEF ExecutionInv, Typed
      <3> QED
        BY <3>1 DEF TaskRecord, TaskHolds
    <2>3. ASSUME NEW a \in plan.action
          PROVE  \/ action[a].state = "absent"
                 \/ action[a].state \in ActionStates /\ action[a].pin \in task[action[a].task].ran
      BY DEF ExecutionInv, Typed, ActionRecord, ActionHolds
    <2>4. \A o \in outcome : OutcomeHolds(o)
      BY DEF ExecutionInv
    <2>5. woken \subseteq plan.task \X Nat /\ outdated \subseteq plan.evidence \cup outcome
      BY DEF ExecutionInv, Typed
    <2> QED
      BY <2>1, <2>2, <2>3, <2>4, <2>5 DEF ExecutionTypeOK, OutcomeHolds
  <1> QED
    BY <1>1, ExecutionInvariant, PTL

\* However many calls overlap, an object is only revised from its newest revision and by a step
\* its life allows (transition_goal, transition_task, wake_due_tasks, the watches, record_outcome
\* and the corrections that reach them).
THEOREM LegalLivesThm == ExecutionSpec => LegalLives
  <1>1. ExecutionInv /\ [ExecutionNext]_executionVars => LegalStep
    BY StepsAreSound DEF Sound
  <1>2. ExecutionInv /\ [ExecutionNext]_executionVars => [LegalStep]_executionVars
    BY <1>1
  <1> QED
    BY <1>2, ExecutionInvariant, PTL DEF ExecutionSpec, LegalLives

\* An action is submitted only in the run it was proposed in, whatever happened while the
\* authorizer deliberated (authorize_action).
THEOREM SubmittedInItsRunThm == ExecutionSpec => SubmittedInItsRun
  <1>1. ExecutionInv /\ [ExecutionNext]_executionVars => [SubmittedStep]_executionVars
    BY StepsAreSound DEF Sound
  <1> QED
    BY <1>1, ExecutionInvariant, PTL DEF ExecutionSpec, SubmittedInItsRun

-----------------------------------------------------------------------------
(* What stands, and all it is made of.                                      *)

\* One look at a piece of evidence below those of seen, where W holds what stands below what.
Looks(t, seen, x, W) ==
    /\ x \notin seen /\ x \notin outdated
    /\ KindOf[x] \in Allowed(t, seen # {})
    /\ KindOf[x] \in Composed =>
          MembersOf[x] # {} /\ \A m \in MembersOf[x] : <<seen \cup {x}, m>> \in W
    /\ KindOf[x] \in {"claim", "summary"} =>
          \A m \in MembersOf[x] : KindOf[m] = "evidence_set"
    /\ KindOf[x] = "claim" => t \notin AboutTask[x]

\* The function by which Stands is computed.
Standing(g, t) == g = [seen \in SUBSET Evidence |-> [x \in Evidence |->
            /\ x \notin seen /\ x \notin outdated
            /\ KindOf[x] \in Allowed(t, seen # {})
            /\ KindOf[x] \in Composed =>
                  MembersOf[x] # {} /\ \A m \in MembersOf[x] : g[seen \cup {x}][m]
            /\ KindOf[x] \in {"claim", "summary"} =>
                  \A m \in MembersOf[x] : KindOf[m] = "evidence_set"
            /\ KindOf[x] = "claim" => t \notin AboutTask[x]]]

LEMMA StandsIsStanding ==
    ASSUME NEW t, NEW e PROVE Stands(t, e) = (CHOOSE g : Standing(g, t))[{}][e]
  BY DEF Stands, Standing

Paths == (SUBSET Evidence) \X Evidence
Consistent(t, W) == \A p \in W : Looks(t, p[1], p[2], W)

\* There is such a function: all that stands in some consistent view stands.
LEMMA StandingExists == ASSUME NEW t PROVE \E g : Standing(g, t)
  <1> DEFINE V == {p \in Paths : \E W \in SUBSET Paths : p \in W /\ Consistent(t, W)}
             g == [seen \in SUBSET Evidence |-> [x \in Evidence |-> IF <<seen, x>> \in V THEN TRUE ELSE FALSE]]
  <1>1. V \in SUBSET Paths
    OBVIOUS
  <1>2. Consistent(t, V)
    <2> SUFFICES ASSUME NEW p \in V PROVE Looks(t, p[1], p[2], V)
      BY DEF Consistent
    <2>1. PICK W \in SUBSET Paths : p \in W /\ Consistent(t, W)
      OBVIOUS
    <2>2. W \subseteq V
      BY <2>1
    <2>3. Looks(t, p[1], p[2], W)
      BY <2>1 DEF Consistent
    <2> HIDE DEF V
    <2> QED
      BY <2>2, <2>3 DEF Looks
  <1>3. ASSUME NEW seen \in SUBSET Evidence, NEW x \in Evidence
        PROVE  <<seen, x>> \in V <=> Looks(t, seen, x, V)
    <2>1. <<seen, x>> \in Paths
      BY DEF Paths
    <2>2. ASSUME Looks(t, seen, x, V) PROVE <<seen, x>> \in V
      <3> DEFINE W == V \cup {<<seen, x>>}
      <3>1. W \in SUBSET Paths /\ V \subseteq W
        BY <1>1, <2>1
      <3>2. ASSUME NEW p \in W PROVE Looks(t, p[1], p[2], W)
        <4>1. Looks(t, p[1], p[2], V)
          <5> HIDE DEF V
          <5> QED
            BY <1>2, <2>2, <3>2 DEF Consistent
        <4> HIDE DEF W, V
        <4> QED
          BY <3>1, <4>1 DEF Looks
      <3>3. Consistent(t, W)
        BY <3>2 DEF Consistent
      <3>4. <<seen, x>> \in W
        OBVIOUS
      <3> HIDE DEF W
      <3> QED
        BY <2>1, <3>1, <3>3, <3>4
    <2>3. <<seen, x>> \in V => Looks(t, seen, x, V)
      <3> HIDE DEF V
      <3> QED
        BY <1>2 DEF Consistent
    <2> QED
      BY <2>2, <2>3
  <1>4. ASSUME NEW seen \in SUBSET Evidence, NEW x \in Evidence
        PROVE  g[seen][x] <=>
            /\ x \notin seen /\ x \notin outdated
            /\ KindOf[x] \in Allowed(t, seen # {})
            /\ KindOf[x] \in Composed =>
                  MembersOf[x] # {} /\ \A m \in MembersOf[x] : g[seen \cup {x}][m]
            /\ KindOf[x] \in {"claim", "summary"} =>
                  \A m \in MembersOf[x] : KindOf[m] = "evidence_set"
            /\ KindOf[x] = "claim" => t \notin AboutTask[x]
    <2>1. MembersOf[x] \subseteq Evidence /\ seen \cup {x} \in SUBSET Evidence
      BY ExecutionAssumption
    <2>2. \A m \in MembersOf[x] : g[seen \cup {x}][m] <=> <<seen \cup {x}, m>> \in V
      <3> HIDE DEF V
      <3> QED
        BY <2>1
    <2>3. g[seen][x] <=> <<seen, x>> \in V
      OBVIOUS
    <2> HIDE DEF g, V
    <2> QED
      BY <1>3, <2>2, <2>3 DEF Looks
  <1>5. Standing(g, t)
    <2> DEFINE Body(seen, x) ==
            /\ x \notin seen /\ x \notin outdated
            /\ KindOf[x] \in Allowed(t, seen # {})
            /\ KindOf[x] \in Composed =>
                  MembersOf[x] # {} /\ \A m \in MembersOf[x] : g[seen \cup {x}][m]
            /\ KindOf[x] \in {"claim", "summary"} =>
                  \A m \in MembersOf[x] : KindOf[m] = "evidence_set"
            /\ KindOf[x] = "claim" => t \notin AboutTask[x]
    <2>1. \A seen \in SUBSET Evidence, x \in Evidence : g[seen][x] <=> Body(seen, x)
      <3> HIDE DEF g
      <3> QED
        BY <1>4
    <2>2. \A seen \in SUBSET Evidence, x \in Evidence : Body(seen, x) \in BOOLEAN
      <3> HIDE DEF g
      <3> QED
        OBVIOUS
    <2>3. \A seen \in SUBSET Evidence, x \in Evidence : g[seen][x] \in BOOLEAN
      <3> HIDE DEF V
      <3> QED
        OBVIOUS
    <2>4. g = [seen \in SUBSET Evidence |-> [x \in Evidence |-> g[seen][x]]]
      <3> HIDE DEF V
      <3> QED
        OBVIOUS
    <2>5. \A seen \in SUBSET Evidence, x \in Evidence : g[seen][x] = Body(seen, x)
      <3> HIDE DEF g, Body
      <3> TAKE seen \in SUBSET Evidence, x \in Evidence
      <3>1. PICK p \in BOOLEAN : p = g[seen][x]
        BY <2>3
      <3>2. PICK q \in BOOLEAN : q = Body(seen, x)
        BY <2>2
      <3>3. p <=> q
        BY <2>1, <3>1, <3>2, Zenon
      <3> QED
        BY <3>1, <3>2, <3>3
    <2>6. g = [seen \in SUBSET Evidence |-> [x \in Evidence |-> Body(seen, x)]]
      <3> HIDE DEF g, Body
      <3> QED
        BY <2>4, <2>5
    <2> HIDE DEF g
    <2> QED
      BY <2>6 DEF Standing
  <1> QED
    BY <1>5

\* What stands for a task is current, is nobody's mere words, and is made of what stands.
LEMMA StandsHolds ==
    ASSUME NEW t \in Task, NEW g, Standing(g, t), NEW seen \in SUBSET Evidence, NEW x \in Evidence, g[seen][x]
    PROVE  /\ x \notin outdated /\ KindOf[x] # "dialogue"
           /\ \A m \in MembersOf[x] : g[seen \cup {x}][m]
  <1>1. g[seen][x] <=>
            /\ x \notin seen /\ x \notin outdated
            /\ KindOf[x] \in Allowed(t, seen # {})
            /\ KindOf[x] \in Composed =>
                  MembersOf[x] # {} /\ \A m \in MembersOf[x] : g[seen \cup {x}][m]
            /\ KindOf[x] \in {"claim", "summary"} =>
                  \A m \in MembersOf[x] : KindOf[m] = "evidence_set"
            /\ KindOf[x] = "claim" => t \notin AboutTask[x]
    BY DEF Standing
  <1>2. "dialogue" \notin Allowed(t, seen # {})
    BY ExecutionAssumption DEF Allowed
  <1> QED
    BY <1>1, <1>2, ExecutionAssumption

LEMMA FoundationStands ==
    ASSUME NEW t \in Task, NEW S \in SUBSET Evidence, \A e \in S : Stands(t, e)
    PROVE  \A e \in Foundation(S) : e \notin outdated /\ KindOf[e] # "dialogue"
  <1> DEFINE g == CHOOSE h : Standing(h, t)
             T == {e \in Evidence : \E seen \in SUBSET Evidence : g[seen][e]}
  <1>1. Standing(g, t)
    BY StandingExists
  <1>2. \A e \in S : g[{}][e]
    BY StandsIsStanding
  <1> HIDE DEF g
  <1>3. S \subseteq T
    BY <1>2
  <1>4. ASSUME NEW x \in T, NEW m \in MembersOf[x] PROVE m \in T
    <2>1. PICK seen \in SUBSET Evidence : g[seen][x]
      OBVIOUS
    <2>2. g[seen \cup {x}][m] /\ m \in Evidence /\ seen \cup {x} \in SUBSET Evidence
      BY <1>1, <2>1, StandsHolds, ExecutionAssumption
    <2> QED
      BY <2>2
  <1>5. Foundation(S) \subseteq T
    <2>1. T \in SUBSET Evidence /\ \A x \in T : MembersOf[x] \subseteq T
      BY <1>4
    <2> HIDE DEF T
    <2> QED
      BY <1>3, <2>1 DEF Foundation
  <1>6. \A e \in T : e \notin outdated /\ KindOf[e] # "dialogue"
    BY <1>1, StandsHolds
  <1> HIDE DEF T
  <1> QED
    BY <1>5, <1>6
-----------------------------------------------------------------------------
(* What earns an end, from the reading of its reasons to the commit.        *)

Ends == {"completed", "failed"}

\* While the world is as the call read it, its reasons are what they were; and what a time or
\* an observation does to a task is no end of it.
CallEnds(c) ==
    /\ c.pc \in {"due", "match", "leave"} => c.to \in {"ready", "expired"}
    /\ c.pc = "task" /\ c.fresh /\ c.to \in Ends => Earned(c.id, c.to, c.cited)

EndsHold == \A w \in Worker : CallEnds(worker[w])

EndsSound == EndsHold' /\ EndsStep

\* What may end a task has earned its end.
LEMMA MayEndIsEarned ==
    ASSUME ExecutionInv, NEW t \in plan.task, NEW to, NEW cited \in SUBSET plan.evidence,
           NEW results \in SUBSET outcome, MayEnd(t, to, cited, results)
    PROVE  Earned(t, to, cited)
  <1>1. t \in Task /\ cited \in SUBSET Evidence
    BY PlanTypes DEF ExecutionInv
  <1>2. ASSUME EffectiveMode(t) # "action_outcome"
        PROVE  cited # {} /\ \A e \in Foundation(cited) : e \notin outdated /\ KindOf[e] # "dialogue"
    BY <1>1, <1>2, FoundationStands DEF MayEnd
  <1>3. ASSUME EffectiveMode(t) # "world_evidence"
        PROVE  \E a \in ActionsOf(t) : action[a].state = to
    <2>1. PICK o \in results : Reports(o, t, to)
      BY <1>3 DEF MayEnd
    <2>2. o.action \in plan.action
      BY DEF ExecutionInv, Typed, OutcomeRecord
    <2> QED
      BY <2>1, <2>2 DEF Reports, ActionsOf
  <1> QED
    BY <1>2, <1>3 DEF Earned

\* What has been decided stands while nothing is written.
LEMMA EarnedKept ==
    ASSUME UNCHANGED world, NEW t, NEW to, NEW cited, Earned(t, to, cited)
    PROVE  Earned(t, to, cited)'
  BY DEF Earned, EffectiveMode, ActionsOf, world

LEMMA EndsHoldAfterReading ==
    ASSUME EndsHold, UNCHANGED world,
           \A v \in Worker : worker'[v] = worker[v] \/ CallEnds(worker'[v])
    PROVE  EndsSound
  <1>1. ASSUME NEW v \in Worker PROVE CallEnds(worker[v])'
    <2>1. CallEnds(worker'[v])
      BY DEF EndsHold
    <2> PICK c : c = worker'[v]
      OBVIOUS
    <2>2. CallEnds(c)
      BY <2>1
    <2>3. c.pc = "task" /\ c.fresh /\ c.to \in Ends => Earned(c.id, c.to, c.cited)'
      BY <2>2, EarnedKept DEF CallEnds
    <2> QED
      BY <2>2, <2>3 DEF CallEnds
  <1>2. EndsStep
    BY DEF EndsStep, world
  <1> QED
    BY <1>1, <1>2 DEF EndsSound, EndsHold

LEMMA EndsHoldAfterWriting ==
    ASSUME ExecutionInv, EndsHold, NEW ws, worker' = Moved(ws)
    PROVE  EndsHold'
  <1>1. ASSUME NEW v \in Worker PROVE CallEnds(worker[v])'
    <2>1. worker[v] \in CallRecord /\ CallEnds(worker[v])
      BY DEF ExecutionInv, Typed, EndsHold
    <2>2. CASE worker'[v] = Idle
      BY <2>2 DEF CallEnds, Idle
    <2>3. CASE worker'[v] = [worker[v] EXCEPT !.fresh = FALSE]
      <3>1. worker'[v].pc = worker[v].pc /\ worker'[v].to = worker[v].to /\ ~worker'[v].fresh
        BY <2>1, <2>3 DEF CallRecord
      <3> QED
        BY <2>1, <3>1 DEF CallEnds
    <2> QED
      BY <2>2, <2>3 DEF Moved
  <1> QED
    BY <1>1 DEF EndsHold

\* The calls that read.
LEMMA CallsBegin ==
    ASSUME ExecutionInv, EndsHold, NEW w \in Worker, NEW pc, NEW id, NEW rev, NEW to,
           Call(w, pc, id, rev, to), UNCHANGED world, pc # "task",
           pc \in {"due", "match", "leave"} => to \in {"ready", "expired"}
    PROVE  EndsSound
  <1>1. /\ worker'[w].pc = pc /\ worker'[w].to = to
        /\ \A v \in Worker \ {w} : worker'[v] = worker[v]
    BY DEF Call, Idle, ExecutionInv, Typed
  <1>2. CallEnds(worker'[w])
    BY <1>1 DEF CallEnds
  <1> QED
    BY <1>1, <1>2, EndsHoldAfterReading

LEMMA TaskEndAsked ==
    ASSUME ExecutionInv, EndsHold, NEW w \in Worker, NEW t \in plan.task, NEW to \in TaskStates,
           TaskMoveIsAsked(w, t, to)
    PROVE  EndsSound
  <1>1. PICK cited \in SUBSET plan.evidence, results \in SUBSET outcome :
          /\ to \in Ends => MayEnd(t, to, cited, results)
          /\ worker' = [worker EXCEPT ![w] =
                [Idle EXCEPT !.pc = "task", !.id = t, !.rev = task[t].rev, !.to = to,
                             !.cited = cited, !.results = results, !.fresh = TRUE]]
    BY DEF TaskMoveIsAsked, Ends
  <1>2. /\ worker'[w].pc = "task" /\ worker'[w].id = t /\ worker'[w].to = to /\ worker'[w].cited = cited
        /\ \A v \in Worker \ {w} : worker'[v] = worker[v]
    BY <1>1 DEF Idle, ExecutionInv, Typed
  <1>3. CallEnds(worker'[w])
    BY <1>1, <1>2, MayEndIsEarned DEF CallEnds
  <1>4. UNCHANGED world
    BY DEF TaskMoveIsAsked, world
  <1> QED
    BY <1>2, <1>3, <1>4, EndsHoldAfterReading

\* The commits that end or move a task.
LEMMA TaskEndKept ==
    ASSUME ExecutionInv, EndsHold, NEW w \in Worker, TaskIsMoved(w)
    PROVE  EndsSound
  <1> PICK c : c = worker[w]
    OBVIOUS
  <1>1. /\ c.pc = "task" /\ c.fresh /\ c.id \in plan.task /\ c.to \in TaskStates
        /\ c.to \in Ends => Earned(c.id, c.to, c.cited)
        /\ task[c.id].rev < plan.revisions
    BY HeldTask DEF TaskIsMoved, ActionsUnder, Unchanged, EndsHold, CallEnds
  <1>2. Revised(c.id, c.to) \in TaskRecord
    BY <1>1, RevisedTask
  <1>3. /\ task' = [task EXCEPT ![c.id] = Resting(Revised(c.id, c.to), c.cited, c.results)]
        /\ worker' = Moved({w})
    BY DEF TaskIsMoved, ActionsUnder, Resting
  <1>4. /\ task'[c.id].state = Revised(c.id, c.to).state /\ task'[c.id].cited = c.cited
        /\ \A t \in plan.task \ {c.id} : task'[t] = task[t]
    BY <1>1, <1>2, <1>3 DEF ExecutionInv, Typed, Resting, TaskRecord
  <1>5. Revised(c.id, c.to).state = c.to
    BY <1>1, RevisedTask
  <1>6. EndsStep
    BY <1>1, <1>4, <1>5 DEF EndsStep, Ends
  <1> QED
    BY <1>3, <1>6, EndsHoldAfterWriting DEF EndsSound

LEMMA NoEndElsewhere ==
    ASSUME ExecutionInv, EndsHold, NEW ws, worker' = Moved(ws),
           \A t \in plan.task : task'[t].state = task[t].state \/ task'[t].state \notin Ends
    PROVE  EndsSound
  <1>1. EndsStep
    BY DEF EndsStep, Ends
  <1> QED
    BY <1>1, EndsHoldAfterWriting DEF EndsSound

LEMMA TimesEndNothing ==
    ASSUME ExecutionInv, EndsHold, NEW w \in Worker,
           TaskIsCreated(w) \/ DueTaskIsWoken(w) \/ WatchIsLeft(w)
    PROVE  EndsSound
  <1> PICK c : c = worker[w]
    OBVIOUS
  <1>1. worker' = Moved({w})
    BY DEF TaskIsCreated, DueTaskIsWoken, WatchIsLeft
  <1>2. CASE TaskIsCreated(w)
    <2>1. c.id \in plan.task /\ c.to \in Starting /\ task[c.id] \in TaskRecord
      BY <1>2 DEF TaskIsCreated, ExecutionInv, Typed, CallHolds
    <2>2. task' = [task EXCEPT ![c.id] = Created(task[c.id], c.to)]
      BY <1>2, <2>1 DEF TaskIsCreated, Created, ExecutionInv, Typed, TaskRecord
    <2>3. Created(task[c.id], c.to).state = c.to
      BY <2>1 DEF Created, TaskRecord
    <2>4. \A t \in plan.task : task'[t].state = task[t].state \/ task'[t].state = c.to
      BY <2>1, <2>2, <2>3 DEF ExecutionInv, Typed
    <2>5. c.to \notin Ends
      BY <2>1 DEF Starting, Waiting, Ends
    <2> QED
      BY <1>1, <2>4, <2>5, NoEndElsewhere
  <1>3. CASE DueTaskIsWoken(w) \/ WatchIsLeft(w)
    <2>1. /\ c.id \in plan.task /\ c.to \in TaskStates /\ task[c.id].rev < plan.revisions
          /\ c.to \in {"ready", "expired"} /\ task' = [task EXCEPT ![c.id] = Revised(c.id, c.to)]
      BY <1>3, HeldTask DEF DueTaskIsWoken, WatchIsLeft, EndsHold, CallEnds
    <2>2. Revised(c.id, c.to).state = c.to
      BY <2>1, RevisedTask
    <2>3. \A t \in plan.task : task'[t].state = task[t].state \/ task'[t].state = c.to
      BY <2>1, <2>2 DEF ExecutionInv, Typed
    <2> QED
      BY <1>1, <2>1, <2>3, NoEndElsewhere DEF Ends
  <1> QED
    BY <1>2, <1>3

LEMMA CorrectionsEndNothing ==
    ASSUME ExecutionInv, EndsHold, NEW t \in plan.task, TaskIsInvalidated(t)
    PROVE  EndsSound
  <1>1. /\ worker' = Moved({}) /\ task' = [task EXCEPT ![t] = Revised(t, task[t].state)]
        /\ task[t].state \in TaskStates /\ task[t].rev < plan.revisions
    BY DEF TaskIsInvalidated
  <1>2. Revised(t, task[t].state).state = task[t].state
    BY <1>1, RevisedTask
  <1>3. \A u \in plan.task : task'[u].state = task[u].state
    BY <1>1, <1>2 DEF ExecutionInv, Typed
  <1> QED
    BY <1>1, <1>3, NoEndElsewhere

\* A watch that has woken the resident is then to be left, or its call is over.
LEMMA WakesEndNothing ==
    ASSUME ExecutionInv, EndsHold, NEW w \in Worker, WatchWakes(w)
    PROVE  EndsSound
  <1>1. CallEnds(worker[w]) /\ worker[w].pc = "match" /\ worker[w] \in CallRecord
    BY DEF WatchWakes, EndsHold, ExecutionInv, Typed
  <1>2. ASSUME NEW v \in Worker PROVE CallEnds(worker[v])'
    <2>1. CASE v # w
      <3>1. worker'[v] = [worker[v] EXCEPT !.fresh = FALSE] /\ worker[v] \in CallRecord /\ CallEnds(worker[v])
        BY <2>1 DEF WatchWakes, Moved, EndsHold, ExecutionInv, Typed
      <3>2. worker'[v].pc = worker[v].pc /\ worker'[v].to = worker[v].to /\ ~worker'[v].fresh
        BY <3>1 DEF CallRecord
      <3> QED
        BY <3>1, <3>2 DEF CallEnds
    <2>2. CASE v = w
      <3>1. worker'[w] = [worker[w] EXCEPT !.pc = "leave"] \/ worker'[w] = Idle
        BY DEF WatchWakes, Moved
      <3>2. worker'[w].pc # "task" /\ (worker'[w].pc = "idle" \/ worker'[w].to = worker[w].to)
        BY <1>1, <3>1 DEF Idle, CallRecord
      <3> QED
        BY <1>1, <2>2, <3>2 DEF CallEnds
    <2> QED
      BY <2>1, <2>2
  <1>3. EndsStep
    BY DEF WatchWakes, EndsStep
  <1> QED
    BY <1>2, <1>3 DEF EndsSound, EndsHold

LEMMA OnTaskEnds == ASSUME ExecutionInv, EndsHold, NEW w \in Worker, OnTask(w) PROVE EndsSound
  <1>1. ASSUME NEW t \in plan.task, NEW to \in TaskStates, TaskIsAsked(w, t, to) PROVE EndsSound
    <2>1. Call(w, "create", t, 0, to) /\ UNCHANGED world
      BY <1>1 DEF TaskIsAsked, world
    <2> QED
      BY <2>1, CallsBegin
  <1>2. ASSUME NEW t \in plan.task, NEW to \in TaskStates, DueTaskIsListed(w, t, to) PROVE EndsSound
    <2>1. Call(w, "due", t, task[t].rev, to) /\ to \in {"ready", "expired"} /\ UNCHANGED world
      BY <1>2 DEF DueTaskIsListed, world
    <2> QED
      BY <2>1, CallsBegin
  <1>3. ASSUME NEW t \in plan.task, NEW pc \in {"match", "leave"}, WatchIsListed(w, t, pc) PROVE EndsSound
    <2>1. /\ Call(w, pc, t, task[t].rev, IF pc = "match" THEN "ready" ELSE "expired")
          /\ UNCHANGED world
      BY <1>3 DEF WatchIsListed, world
    <2> QED
      BY <2>1, CallsBegin
  <1> QED
    BY <1>1, <1>2, <1>3, TaskEndAsked, TimesEndNothing, TaskEndKept, WakesEndNothing DEF OnTask

LEMMA OnActionEnds == ASSUME ExecutionInv, EndsHold, NEW w \in Worker, OnAction(w) PROVE EndsSound
  <1>1. ASSUME NEW a \in plan.action, NEW t \in plan.task, ActionIsAsked(w, a, t) PROVE EndsSound
    <2>1. UNCHANGED world /\ worker'[w].pc = "propose" /\ \A v \in Worker \ {w} : worker'[v] = worker[v]
      BY <1>1 DEF ActionIsAsked, world, Idle, ExecutionInv, Typed
    <2>2. CallEnds(worker'[w])
      BY <2>1 DEF CallEnds
    <2> QED
      BY <2>1, <2>2, EndsHoldAfterReading
  <1>2. ASSUME NEW a \in plan.action, AuthorizationIsAsked(w, a) PROVE EndsSound
    <2>1. Call(w, "authorize", a, action[a].rev, "submitted") /\ UNCHANGED world
      BY <1>2 DEF AuthorizationIsAsked, world
    <2> QED
      BY <2>1, CallsBegin
  <1>3. ASSUME NEW a \in plan.action, NEW to, OutcomeIsAsked(w, a, to) PROVE EndsSound
    <2>1. Call(w, "outcome", a, action[a].rev, to) /\ UNCHANGED world
      BY <1>3 DEF OutcomeIsAsked, world
    <2> QED
      BY <2>1, CallsBegin
  <1>4. ASSUME AuthorizerAllows(w) PROVE EndsSound
    <2>1. UNCHANGED world /\ worker'[w].pc = "submit" /\ \A v \in Worker \ {w} : worker'[v] = worker[v]
      BY <1>4 DEF AuthorizerAllows, world, CallRecord, ExecutionInv, Typed
    <2>2. CallEnds(worker'[w])
      BY <2>1 DEF CallEnds
    <2> QED
      BY <2>1, <2>2, EndsHoldAfterReading
  <1>5. ASSUME ActionIsProposed(w) \/ ActionIsSubmitted(w) \/ OutcomeIsRecorded(w) PROVE EndsSound
    <2>1. worker' = Moved({w}) /\ task' = task
      BY <1>5 DEF ActionIsProposed, ActionIsSubmitted, OutcomeIsRecorded
    <2> QED
      BY <2>1, NoEndElsewhere
  <1> QED
    BY <1>1, <1>2, <1>3, <1>4, <1>5 DEF OnAction

LEMMA OthersEndNothing ==
    ASSUME ExecutionInv, EndsHold,
           \/ \E w \in Worker : OnGoal(w) \/ WorkerStops(w)
           \/ \E g \in plan.goal : GoalIsProposed(g)
           \/ \E e \in plan.evidence : EvidenceIsOutdated(e)
           \/ SomethingIsInvalidated
    PROVE  EndsSound
  <1>1. ASSUME NEW w \in Worker, NEW g \in plan.goal, NEW to, GoalMoveIsAsked(w, g, to) PROVE EndsSound
    <2>1. Call(w, "goal", g, goal[g].rev, to) /\ UNCHANGED world
      BY <1>1 DEF GoalMoveIsAsked, world
    <2> QED
      BY <2>1, CallsBegin
  <1>2. ASSUME NEW w \in Worker, WorkerStops(w) PROVE EndsSound
    <2>1. UNCHANGED world /\ worker'[w] = Idle /\ \A v \in Worker \ {w} : worker'[v] = worker[v]
      BY <1>2 DEF WorkerStops, world, ExecutionInv, Typed
    <2>2. CallEnds(worker'[w])
      BY <2>1 DEF CallEnds, Idle
    <2> QED
      BY <2>1, <2>2, EndsHoldAfterReading
  <1>3. ASSUME NEW ws, worker' = Moved(ws), task' = task PROVE EndsSound
    BY <1>3, NoEndElsewhere
  <1>4. ASSUME NEW w \in Worker, GoalIsMoved(w) PROVE EndsSound
    BY <1>3, <1>4 DEF GoalIsMoved
  <1>5. ASSUME \/ \E g \in plan.goal : GoalIsProposed(g)
               \/ \E e \in plan.evidence : EvidenceIsOutdated(e)
        PROVE  EndsSound
    BY <1>3, <1>5 DEF GoalIsProposed, EvidenceIsOutdated
  <1>6. ASSUME SomethingIsInvalidated PROVE EndsSound
    <2>1. ASSUME NEW g, GoalIsInvalidated(g) PROVE EndsSound
      BY <1>3, <2>1 DEF GoalIsInvalidated
    <2>2. ASSUME NEW a, ActionIsInvalidated(a) PROVE EndsSound
      BY <1>3, <2>2 DEF ActionIsInvalidated
    <2>3. ASSUME NEW o, OutcomeIsInvalidated(o) PROVE EndsSound
      BY <1>3, <2>3 DEF OutcomeIsInvalidated
    <2> QED
      BY <1>6, <2>1, <2>2, <2>3, CorrectionsEndNothing DEF SomethingIsInvalidated
  <1> QED
    BY <1>1, <1>2, <1>4, <1>5, <1>6 DEF OnGoal

LEMMA EndsAreSound == ASSUME ExecutionInv, EndsHold, [ExecutionNext]_executionVars PROVE EndsSound
  <1>1. CASE UNCHANGED executionVars
    <2>1. UNCHANGED world /\ worker' = worker
      BY <1>1 DEF executionVars, world
    <2> QED
      BY <2>1, EndsHoldAfterReading
  <1>2. CASE ExecutionNext
    BY <1>2, OnTaskEnds, OnActionEnds, OthersEndNothing DEF ExecutionNext
  <1> QED
    BY <1>1, <1>2

LEMMA EndsHoldAtFirst == ExecutionInit => EndsHold
  BY DEF ExecutionInit, EndsHold, CallEnds, Idle

\* A task is completed or failed only by reasons that hold when it is, however deep the evidence
\* rests and whatever was written meanwhile (transition_task, _validate_terminal_transition,
\* _validate_world_evidence_ref, _validate_real_outcome_ref).
THEOREM EndsAreEarnedThm == ExecutionSpec => EndsAreEarned
  <1>1. ExecutionInv /\ EndsHold /\ [ExecutionNext]_executionVars => EndsHold' /\ [EndsStep]_executionVars
    BY EndsAreSound DEF EndsSound
  <1> QED
    BY EndsHoldAtFirst, <1>1, ExecutionInvariant, PTL DEF ExecutionSpec, EndsAreEarned

=============================================================================
