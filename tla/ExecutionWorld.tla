---------------------------- MODULE ExecutionWorld ----------------------------
(***************************************************************************)
(* Goals, tasks, actions and their outcomes (execution/service.py).        *)
(*                                                                         *)
(* A call reads the world, decides, and commits. Some calls name in their  *)
(* commit the world revision they read first, some the revision of the     *)
(* moment of the commit, and the store itself only demands that a revision *)
(* follow the newest of its object. Calls of several workers interleave    *)
(* between their reading and their commit, and any of them may stop there. *)
(***************************************************************************)
EXTENDS Integers, FiniteSets

CONSTANTS
    Goal, Task, Action, Evidence, Worker,
    None,           \* no goal
    Request,        \* [Task -> [goal, mode, verifies, results, watch]]: what each task was created with
    KindOf,         \* [Evidence -> Kind]
    MembersOf,      \* [Evidence -> SUBSET Evidence]: what an object pins as its members or support
    AboutTask,      \* [Evidence -> SUBSET Task]: tasks among the sources of a claim
    Plan            \* bound: what a behaviour deals with, and how many revisions a task or goal has

Kind == {"observation", "dialogue", "evidence_set", "claim", "summary", "experience"}

\* The kinds of object that pin others as members or support.
Composed == {"evidence_set", "claim", "summary"}

ASSUME ExecutionAssumption ==
    /\ \A t \in Task : /\ Request[t].goal \in Goal \cup {None}
                       /\ Request[t].mode \in {"unset", "world_evidence", "action_outcome", "mixed"}
                       /\ Request[t].verifies \in BOOLEAN
                       /\ Request[t].results \subseteq Kind \ {"dialogue"}
                       /\ Request[t].watch \in {"none", "recurring", "one_shot"}
    /\ KindOf \in [Evidence -> Kind]
    /\ MembersOf \in [Evidence -> SUBSET Evidence]
    /\ \A e \in Evidence : MembersOf[e] # {} => KindOf[e] \in Composed
    /\ \A p \in Plan : /\ p.goal \subseteq Goal /\ p.task \subseteq Task
                       /\ p.action \subseteq Action /\ p.evidence \subseteq Evidence
                       /\ p.revisions \in Nat \ {0} /\ p.corrections \in BOOLEAN

VARIABLES
    plan,       \* what this behaviour deals with, chosen at its start
    goal,       \* the newest revision of each goal
    task,       \* of each task, and the revisions in which it was running
    action,     \* of each action, and the revision of its task it is pinned to
    outcome,    \* outcomes recorded
    woken,      \* revisions of tasks for which a wake was emitted: due, or their watch matched
    outdated,   \* evidence and outcomes since revised, retracted or marked stale
    worker      \* the call each worker is in

executionVars == <<plan, goal, task, action, outcome, woken, outdated, worker>>

GoalMoves ==
    [proposed  |-> {"active", "abandoned", "unknown"},
     active    |-> {"paused", "achieved", "abandoned", "unknown"},
     paused    |-> {"active", "abandoned", "unknown"},
     unknown   |-> {"active", "paused", "abandoned"},
     achieved  |-> {},
     abandoned |-> {}]

Waiting == {"waiting_time", "waiting_evidence", "waiting_user"}
Resume == {"ready", "cancelled", "expired"}

TaskMoves ==
    [draft            |-> {"ready", "cancelled"} \cup Waiting,
     ready            |-> {"running", "cancelled", "expired"} \cup Waiting,
     running          |-> {"waiting_result", "blocked", "completed", "failed", "cancelled"} \cup Waiting,
     waiting_time     |-> Resume,
     waiting_evidence |-> Resume,
     waiting_user     |-> Resume,
     waiting_result   |-> {"ready", "completed", "failed", "cancelled"},
     blocked          |-> {"ready", "failed", "cancelled"},
     completed |-> {}, failed |-> {}, expired |-> {}, cancelled |-> {}]

GoalStates == DOMAIN GoalMoves
TaskStates == DOMAIN TaskMoves
Starting == {"draft", "ready"} \cup Waiting

Absent == [state |-> "absent", rev |-> 0]
Idle == [pc |-> "idle", id |-> None, parent |-> None, rev |-> 0, to |-> "absent",
         cited |-> {}, results |-> {}, fresh |-> FALSE]

ExecutionInit ==
    /\ plan \in Plan
    /\ goal = [g \in plan.goal |-> Absent]
    /\ task = [t \in plan.task |-> [state |-> "absent", rev |-> 0, ran |-> {}, cited |-> {}, results |-> {}]]
    /\ action = [a \in plan.action |-> [state |-> "absent", rev |-> 0, task |-> None, pin |-> 0]]
    /\ outcome = {} /\ woken = {} /\ outdated = {}
    /\ worker = [w \in Worker |-> Idle]

-----------------------------------------------------------------------------
(* Calls and commits. Every commit moves the world revision.               *)

Call(w, pc, id, rev, to) ==
    /\ worker[w].pc = "idle"
    /\ worker' = [worker EXCEPT ![w] =
          [Idle EXCEPT !.pc = pc, !.id = id, !.rev = rev, !.to = to, !.fresh = TRUE]]

Moved(ws) == [v \in Worker |-> IF v \in ws THEN Idle ELSE [worker[v] EXCEPT !.fresh = FALSE]]

\* Mistaken variant: the call names the world revision of the moment of its commit.
UnchangedOrNot(w) == TRUE

\* The world is at the revision the call read.
Unchanged(w) == worker[w].fresh

\* Mistaken variant: a revision is written over whatever is there.
FollowsAnything(x, rev) == TRUE

\* The store refuses a revision that does not follow the newest of its object.
Follows(x, rev) == x.rev = rev

WorkerStops(w) ==
    /\ worker[w].pc # "idle"
    /\ worker' = [worker EXCEPT ![w] = Idle]
    /\ UNCHANGED <<plan, goal, task, action, outcome, woken, outdated>>

-----------------------------------------------------------------------------
(* Goals.                                                                  *)

GoalIsProposed(g) ==
    /\ goal[g].state = "absent"
    /\ goal' = [goal EXCEPT ![g] = [state |-> "proposed", rev |-> 1]]
    /\ worker' = Moved({})
    /\ UNCHANGED <<plan, task, action, outcome, woken, outdated>>

GoalMoveIsAsked(w, g, to) ==
    /\ goal[g].state \in GoalStates /\ goal[g].rev < plan.revisions
    /\ to \in GoalMoves[goal[g].state]
    /\ Call(w, "goal", g, goal[g].rev, to)
    /\ UNCHANGED <<plan, goal, task, action, outcome, woken, outdated>>

GoalIsMoved(w) ==
    LET g == worker[w].id IN
    /\ worker[w].pc = "goal" /\ Unchanged(w)
    /\ goal' = [goal EXCEPT ![g] = [state |-> worker[w].to, rev |-> worker[w].rev + 1]]
    /\ worker' = Moved({w})
    /\ UNCHANGED <<plan, task, action, outcome, woken, outdated>>

-----------------------------------------------------------------------------
(* What may end a task.                                                    *)

ActionsOf(t) == {a \in plan.action : action[a].task = t}

EffectiveMode(t) ==
    IF Request[t].mode # "unset" THEN Request[t].mode
    ELSE IF Request[t].verifies /\ ActionsOf(t) = {} THEN "world_evidence" ELSE "action_outcome"

Allowed(t, nested) ==
    Request[t].results \cup (IF nested THEN {"observation", "evidence_set"} ELSE {})

\* Evidence stands if it is current and of a kind the task's contract admits, and what it
\* is made of stands too. A set needs members; a claim or a summary needs sets to
\* support it, and a claim may not rest on the task it is to end. No evidence may be met
\* again below itself.
Stands(t, e) ==
    LET standing[seen \in SUBSET Evidence] == [x \in Evidence |->
            /\ x \notin seen /\ x \notin outdated
            /\ KindOf[x] \in Allowed(t, seen # {})
            /\ KindOf[x] \in Composed =>
                  MembersOf[x] # {} /\ \A m \in MembersOf[x] : standing[seen \cup {x}][m]
            /\ KindOf[x] \in {"claim", "summary"} =>
                  \A m \in MembersOf[x] : KindOf[m] = "evidence_set"
            /\ KindOf[x] = "claim" => t \notin AboutTask[x]]
    IN  standing[{}][e]

\* A real outcome: its action is still at the revision reported, ended as the task is to,
\* belongs to the task, and was proposed in a revision in which the task was running.
Reports(o, t, to) ==
    /\ o.state = to /\ o \notin outdated
    /\ action[o.action].rev = o.rev /\ action[o.action].state = to
    /\ action[o.action].task = t
    /\ action[o.action].pin \in task[t].ran

\* (What a task that ends by an action's outcome may cite besides is not looked at.)
MayEnd(t, to, cited, results) ==
    LET mode == EffectiveMode(t) IN
    /\ mode = "world_evidence" => ActionsOf(t) = {} /\ results = {}
    /\ mode = "action_outcome" => cited = {}
    /\ mode # "action_outcome" =>
          /\ cited # {}
          /\ \A e \in cited : Stands(t, e)
    /\ mode # "world_evidence" =>
          /\ results # {}
          /\ \A o \in results : Reports(o, t, to)

-----------------------------------------------------------------------------
(* Tasks.                                                                  *)

\* An attention watch is a task that waits for observations.
IsWatch(t) == Request[t].watch # "none"

\* The goal of a new task is looked at here and not again when the task is committed.
TaskIsAsked(w, t, to) ==
    LET g == Request[t].goal IN
    /\ task[t].state = "absent"
    /\ g # None => /\ goal[g].state \in GoalStates \ {"achieved", "abandoned"}
    /\ to \in IF IsWatch(t) THEN {"waiting_evidence"} ELSE Starting
    /\ Call(w, "create", t, 0, to)
    /\ UNCHANGED <<plan, goal, task, action, outcome, woken, outdated>>

TaskIsCreated(w) ==
    LET t == worker[w].id IN
    /\ worker[w].pc = "create"
    /\ Follows(task[t], 0)
    /\ task' = [task EXCEPT ![t].state = worker[w].to, ![t].rev = 1]
    /\ worker' = Moved({w})
    /\ UNCHANGED <<plan, goal, action, outcome, woken, outdated>>

\* transition_task. A transition already committed is answered from the record and
\* changes nothing; only the ends completed and failed need reasons.
TaskMoveIsAsked(w, t, to) ==
    /\ task[t].state \in TaskStates /\ task[t].rev < plan.revisions
    /\ to \in TaskMoves[task[t].state]
    /\ worker[w].pc = "idle"
    /\ \E cited \in SUBSET plan.evidence, results \in SUBSET outcome :
          /\ IF to \in {"completed", "failed"}
             THEN Cardinality(results) <= 1 /\ MayEnd(t, to, cited, results)
             ELSE cited = {} /\ results = {}
          /\ worker' = [worker EXCEPT ![w] =
                [Idle EXCEPT !.pc = "task", !.id = t, !.rev = task[t].rev, !.to = to,
                             !.cited = cited, !.results = results, !.fresh = TRUE]]
    /\ UNCHANGED <<plan, goal, task, action, outcome, woken, outdated>>

\* The new revision of a task.
Revised(t, to) ==
    LET n == task[t].rev + 1 IN
    [task[t] EXCEPT !.state = to, !.rev = n, !.ran = IF to = "running" THEN @ \cup {n} ELSE @]

\* A cancelled task takes the actions that were only proposed with it.
ActionsUnder(t, to) ==
    [a \in plan.action |->
        IF to = "cancelled" /\ action[a].task = t /\ action[a].state = "proposed"
        THEN [action[a] EXCEPT !.state = "cancelled", !.rev = @ + 1]
        ELSE action[a]]

\* Cancelling a task cancels, in the same commit, the actions merely proposed for it.
TaskIsMoved(w) ==
    LET t == worker[w].id
        to == worker[w].to IN
    /\ worker[w].pc = "task" /\ Unchanged(w)
    /\ Follows(task[t], worker[w].rev)
    /\ task' = [task EXCEPT ![t] = [Revised(t, to) EXCEPT !.cited = worker[w].cited,
                                                         !.results = worker[w].results]]
    /\ action' = ActionsUnder(t, to)
    /\ worker' = Moved({w})
    /\ UNCHANGED <<plan, goal, outcome, woken, outdated>>

\* wake_due_tasks finds a task whose time has come, possibly after its deadline.
DueTaskIsListed(w, t, to) ==
    /\ task[t].state = "waiting_time" /\ task[t].rev < plan.revisions
    /\ to \in {"ready", "expired"}
    /\ Call(w, "due", t, task[t].rev, to)
    /\ UNCHANGED <<plan, goal, task, action, outcome, woken, outdated>>

DueTaskIsWoken(w) ==
    LET t == worker[w].id IN
    /\ worker[w].pc = "due"
    /\ Follows(task[t], worker[w].rev)
    /\ task' = [task EXCEPT ![t] = Revised(t, worker[w].to)]
    /\ woken' = woken \cup {<<t, worker[w].rev>>}
    /\ worker' = Moved({w})
    /\ UNCHANGED <<plan, goal, action, outcome, outdated>>

\* An observation is evaluated: watches past their deadline expire, those it matches wake
\* the resident. All were listed before.
WatchIsListed(w, t, pc) ==
    /\ IsWatch(t) /\ task[t].state = "waiting_evidence" /\ task[t].rev < plan.revisions
    /\ Call(w, pc, t, task[t].rev, IF pc = "match" THEN "ready" ELSE "expired")
    /\ UNCHANGED <<plan, goal, task, action, outcome, woken, outdated>>

\* The wake is emitted first; a watch for one match is then to be left.
WatchWakes(w) ==
    LET t == worker[w].id
        next == IF Request[t].watch = "one_shot" THEN [worker[w] EXCEPT !.pc = "leave"] ELSE Idle IN
    /\ worker[w].pc = "match"
    /\ woken' = woken \cup {<<t, worker[w].rev>>}
    /\ worker' = [Moved({}) EXCEPT ![w] = next]
    /\ UNCHANGED <<plan, goal, task, action, outcome, outdated>>

WatchIsLeft(w) ==
    LET t == worker[w].id IN
    /\ worker[w].pc = "leave"
    /\ Follows(task[t], worker[w].rev)
    /\ task' = [task EXCEPT ![t] = Revised(t, worker[w].to)]
    /\ worker' = Moved({w})
    /\ UNCHANGED <<plan, goal, action, outcome, woken, outdated>>

-----------------------------------------------------------------------------
(* Actions and outcomes.                                                   *)

\* The task is looked at here and not again when the proposal is committed.
ActionIsAsked(w, a, t) ==
    /\ action[a].state = "absent"
    /\ task[t].state = "running" /\ EffectiveMode(t) # "world_evidence"
    /\ worker[w].pc = "idle"
    /\ worker' = [worker EXCEPT ![w] = [Idle EXCEPT !.pc = "propose", !.id = a, !.parent = t,
                                                    !.rev = task[t].rev]]
    /\ UNCHANGED <<plan, goal, task, action, outcome, woken, outdated>>

ActionIsProposed(w) ==
    LET a == worker[w].id IN
    /\ worker[w].pc = "propose"
    /\ Follows(action[a], 0)
    /\ action' = [action EXCEPT ![a] = [state |-> "proposed", rev |-> 1,
                                        task |-> worker[w].parent, pin |-> worker[w].rev]]
    /\ worker' = Moved({w})
    /\ UNCHANGED <<plan, goal, task, outcome, woken, outdated>>

\* Mistaken variant: any running revision of the parent will do.
EligibleAtAnyRun(a) ==
    /\ action[a].state = "proposed"
    /\ task[action[a].task].state = "running"

\* Its task is running in the very revision the action was proposed in.
Eligible(a) ==
    /\ action[a].state = "proposed"
    /\ task[action[a].task].state = "running"
    /\ task[action[a].task].rev = action[a].pin

AuthorizationIsAsked(w, a) ==
    /\ Eligible(a)
    /\ Call(w, "authorize", a, action[a].rev, "submitted")
    /\ UNCHANGED <<plan, goal, task, action, outcome, woken, outdated>>

\* The authorizer, a callback of any duration, allows it; the world revision is read and
\* everything is looked at again.
AuthorizerAllows(w) ==
    LET a == worker[w].id IN
    /\ worker[w].pc = "authorize"
    /\ Follows(action[a], worker[w].rev) /\ Eligible(a)
    /\ worker' = [worker EXCEPT ![w].pc = "submit", ![w].fresh = TRUE]
    /\ UNCHANGED <<plan, goal, task, action, outcome, woken, outdated>>

ActionIsSubmitted(w) ==
    LET a == worker[w].id IN
    /\ worker[w].pc = "submit" /\ Unchanged(w)
    /\ Follows(action[a], worker[w].rev)
    /\ action' = [action EXCEPT ![a].state = "submitted", ![a].rev = @ + 1]
    /\ worker' = Moved({w})
    /\ UNCHANGED <<plan, goal, task, outcome, woken, outdated>>

Pending == {"submitted", "outcome_unknown"}

\* Mistaken variant: the outcome reports the revision it was asked of.
ReportedAsAsked(a, rev, to) == [action |-> a, rev |-> rev, state |-> to]

\* An outcome reports the revision of its action written with it.
Reported(a, rev, to) == [action |-> a, rev |-> rev + 1, state |-> to]

\* record_outcome. An unknown outcome may be settled later.
OutcomeIsAsked(w, a, to) ==
    /\ action[a].state \in Pending
    /\ to \in {"completed", "failed", "outcome_unknown"}
    /\ action[a].rev < plan.revisions
    /\ Call(w, "outcome", a, action[a].rev, to)
    /\ UNCHANGED <<plan, goal, task, action, outcome, woken, outdated>>

OutcomeIsRecorded(w) ==
    LET a == worker[w].id IN
    /\ worker[w].pc = "outcome"
    /\ Follows(action[a], worker[w].rev)
    /\ action' = [action EXCEPT ![a].state = worker[w].to, ![a].rev = @ + 1]
    /\ outcome' = outcome \cup {Reported(a, worker[w].rev, worker[w].to)}
    /\ worker' = Moved({w})
    /\ UNCHANGED <<plan, goal, task, woken, outdated>>

-----------------------------------------------------------------------------
\* Someone revises, retracts or marks stale what a task might rest on.
EvidenceIsOutdated(e) ==
    /\ e \notin outdated
    /\ outdated' = outdated \cup {e}
    /\ worker' = Moved({})
    /\ UNCHANGED <<plan, goal, task, action, outcome, woken>>

\* A correction of what they were decided on reaches them: a new revision, marked for
\* review, in the state they were in. What no longer is at the revision that was decided
\* on stays as it is. Proposals still pinned to the task are reached with it.
TaskIsInvalidated(t) ==
    /\ task[t].state \in TaskStates /\ task[t].rev < plan.revisions
    /\ task' = [task EXCEPT ![t] = Revised(t, task[t].state)]
    /\ action' = [a \in plan.action |->
          IF action[a].task = t /\ action[a].pin = task[t].rev /\ action[a].rev = 1
          THEN [action[a] EXCEPT !.rev = 2]
          ELSE action[a]]
    /\ worker' = Moved({})
    /\ UNCHANGED <<plan, goal, outcome, woken, outdated>>

GoalIsInvalidated(g) ==
    /\ goal[g].state \in GoalStates /\ goal[g].rev < plan.revisions
    /\ goal' = [goal EXCEPT ![g].rev = @ + 1]
    /\ worker' = Moved({})
    /\ UNCHANGED <<plan, task, action, outcome, woken, outdated>>

\* (Once an outcome is recorded the action itself rests on nothing.)
ActionIsInvalidated(a) ==
    /\ action[a].state \in {"proposed", "submitted", "cancelled"} /\ action[a].rev < plan.revisions
    /\ action' = [action EXCEPT ![a].rev = @ + 1]
    /\ worker' = Moved({})
    /\ UNCHANGED <<plan, goal, task, outcome, woken, outdated>>

OutcomeIsInvalidated(o) ==
    /\ o \notin outdated
    /\ outdated' = outdated \cup {o}
    /\ worker' = Moved({})
    /\ UNCHANGED <<plan, goal, task, action, outcome, woken>>

SomethingIsInvalidated ==
    /\ plan.corrections
    /\ \/ \E t \in plan.task : TaskIsInvalidated(t)
       \/ \E g \in plan.goal : GoalIsInvalidated(g)
       \/ \E a \in plan.action : ActionIsInvalidated(a)
       \/ \E o \in outcome : OutcomeIsInvalidated(o)

OnTask(w) ==
    \/ \E t \in plan.task : \E to \in TaskStates :
          TaskIsAsked(w, t, to) \/ TaskMoveIsAsked(w, t, to) \/ DueTaskIsListed(w, t, to)
    \/ \E t \in plan.task, pc \in {"match", "leave"} : WatchIsListed(w, t, pc)
    \/ TaskIsCreated(w) \/ TaskIsMoved(w) \/ DueTaskIsWoken(w) \/ WatchWakes(w) \/ WatchIsLeft(w)

OnAction(w) ==
    \/ \E a \in plan.action, t \in plan.task : ActionIsAsked(w, a, t)
    \/ \E a \in plan.action : AuthorizationIsAsked(w, a)
    \/ \E a \in plan.action : \E to \in {"completed", "failed", "outcome_unknown"} : OutcomeIsAsked(w, a, to)
    \/ ActionIsProposed(w) \/ AuthorizerAllows(w) \/ ActionIsSubmitted(w) \/ OutcomeIsRecorded(w)

OnGoal(w) ==
    \/ \E g \in plan.goal : \E to \in GoalStates : GoalMoveIsAsked(w, g, to)
    \/ GoalIsMoved(w)

ExecutionNext ==
    \/ \E w \in Worker : OnTask(w) \/ OnAction(w) \/ OnGoal(w) \/ WorkerStops(w)
    \/ \E g \in plan.goal : GoalIsProposed(g)
    \/ \E e \in plan.evidence : EvidenceIsOutdated(e)
    \/ SomethingIsInvalidated

ExecutionSpec == ExecutionInit /\ [][ExecutionNext]_executionVars

-----------------------------------------------------------------------------
ActionStates == {"proposed", "submitted", "completed", "failed", "outcome_unknown", "cancelled"}

\* Types, and the pins between objects: an action is pinned to a revision in which its task
\* was running, and an outcome to a revision that ended a submitted action with that result.
ExecutionTypeOK ==
    /\ goal \in [plan.goal -> [state : GoalStates \cup {"absent"}, rev : Nat]]
    /\ \A t \in plan.task :
          /\ task[t] \in [state : TaskStates \cup {"absent"}, rev : 0 .. plan.revisions,
                          ran : SUBSET (1 .. plan.revisions),
                          cited : SUBSET plan.evidence, results : SUBSET outcome]
          /\ task[t].state = "running" => task[t].rev \in task[t].ran
    /\ \A a \in plan.action :
          \/ action[a].state = "absent"
          \/ action[a].state \in ActionStates /\ action[a].pin \in task[action[a].task].ran
    /\ \A o \in outcome :
          /\ o.rev \in 3 .. action[o.action].rev
          /\ action[o.action].rev = o.rev => action[o.action].state = o.state
    /\ woken \subseteq plan.task \X Nat
    /\ outdated \subseteq plan.evidence \cup outcome

ActionMoves ==
    [absent          |-> {"proposed"},
     proposed        |-> {"proposed", "submitted", "cancelled"},
     submitted       |-> {"submitted", "completed", "failed", "outcome_unknown"},
     outcome_unknown |-> {"completed", "failed", "outcome_unknown"},
     completed |-> {}, failed |-> {}, cancelled |-> {"cancelled"}]

LegalStep ==
    /\ \A t \in plan.task : task'[t].rev # task[t].rev =>
          /\ task'[t].rev = task[t].rev + 1
          /\ task[t].state # "absent" => task'[t].state \in {task[t].state} \cup TaskMoves[task[t].state]
    /\ \A g \in plan.goal : goal'[g].rev # goal[g].rev =>
          /\ goal'[g].rev = goal[g].rev + 1
          /\ goal[g].state # "absent" => goal'[g].state \in {goal[g].state} \cup GoalMoves[goal[g].state]
    /\ \A a \in plan.action : action'[a].rev # action[a].rev =>
          /\ action'[a].rev = action[a].rev + 1
          /\ action'[a].state \in ActionMoves[action[a].state]

\* Whatever calls overlap, a task, a goal or an action is never revised from a state it has
\* since left: each revision follows the newest one and takes a legal step from it, or is
\* that one marked for review, so what has ended stays ended and nothing is settled twice.
LegalLives == [][LegalStep]_executionVars

SubmittedStep ==
    \A a \in plan.action :
        action[a].state = "proposed" /\ action'[a].state = "submitted" =>
            LET t == action[a].task IN task[t].state = "running" /\ task[t].rev = action[a].pin

\* An action is submitted to the platform only while its task is running, in the very
\* run it was proposed in: not after the task was cancelled, left or begun anew, however
\* long the authorizer took.
SubmittedInItsRun == [][SubmittedStep]_executionVars

\* Everything some evidence is made of: the least set that holds it, and the members of each
\* that it holds.
Foundation(S) ==
    {e \in Evidence : \A T \in SUBSET Evidence :
        S \subseteq T /\ (\A x \in T : MembersOf[x] \subseteq T) => e \in T}

\* What earns an end is true: all of the evidence it rests on, however deep, is current and
\* none of it is the assistant's own words, or an action of the task has ended that way, or
\* both, as the task's contract has it.
Earned(t, to, cited) ==
    /\ EffectiveMode(t) # "action_outcome" =>
          /\ cited # {}
          /\ \A e \in Foundation(cited) : e \notin outdated /\ KindOf[e] # "dialogue"
    /\ EffectiveMode(t) # "world_evidence" =>
          \E a \in ActionsOf(t) : action[a].state = to

EndsStep ==
    \A t \in plan.task :
        task'[t].state # task[t].state /\ task'[t].state \in {"completed", "failed"} =>
            Earned(t, task'[t].state, task'[t].cited)

\* A task is completed or failed only by what earns it at that moment, whatever was written
\* between the reading of its reasons and the commit.
EndsAreEarned == [][EndsStep]_executionVars
=============================================================================
