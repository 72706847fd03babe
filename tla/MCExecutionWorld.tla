--------------------------- MODULE MCExecutionWorld ---------------------------
(* Small instances of ExecutionWorld: what a task may end by, one kind at a time.  *)
EXTENDS ExecutionWorld, TLC
CONSTANTS move, errand, study, check, walk, lookout, glance, call, mail, seen, told, notes, view, boast, gist, w1, w2

Chore == [goal |-> None, mode |-> "unset", verifies |-> FALSE, results |-> {"observation"}, watch |-> "none"]
MCRequest == [t \in Task |->
    CASE t = errand -> [Chore EXCEPT !.mode = "action_outcome"]
      [] t = study  -> [Chore EXCEPT !.goal = move, !.mode = "mixed", !.results = {"observation", "evidence_set"}]
      [] t = check  -> [Chore EXCEPT !.verifies = TRUE, !.results = {"claim", "summary"}]
      [] t = walk   -> Chore
      [] t = lookout -> [Chore EXCEPT !.verifies = TRUE, !.watch = "one_shot"]
      [] t = glance  -> [Chore EXCEPT !.verifies = TRUE, !.watch = "recurring"]]

MCKindOf == [e \in Evidence |->
    CASE e = seen -> "observation" [] e = told -> "dialogue" [] e = notes -> "evidence_set"
      [] e \in {view, boast} -> "claim" [] e = gist -> "summary"]
MCMembersOf == [e \in Evidence |->
    CASE e \in {view, boast, gist} -> {notes} [] e = notes -> {seen} [] OTHER -> {}]
MCAboutTask == [e \in Evidence |-> IF e = boast THEN {check} ELSE {}]

Nothing == [goal |-> {}, task |-> {}, action |-> {}, evidence |-> {}, revisions |-> 6, corrections |-> FALSE]
Reruns == [Nothing EXCEPT !.task = {errand}, !.action = {call}]
Cancels == [Nothing EXCEPT !.task = {errand}, !.action = {call, mail}, !.revisions = 4]
Neighbours == [Nothing EXCEPT !.task = {errand, walk}, !.action = {call}, !.revisions = 3]
Study == [Nothing EXCEPT !.goal = {move}, !.task = {study}, !.action = {call},
                         !.evidence = {seen, told, notes}, !.revisions = 3]
Checks == [Nothing EXCEPT !.task = {check}, !.evidence = {seen, notes, view, boast}, !.revisions = 4]
Corrected == [Nothing EXCEPT !.task = {errand}, !.action = {call}, !.revisions = 4, !.corrections = TRUE]
Discredited == [Nothing EXCEPT !.goal = {move}, !.task = {study}, !.revisions = 3, !.corrections = TRUE]
Gist == [Nothing EXCEPT !.task = {check}, !.evidence = {notes, gist}, !.revisions = 5]
Watched == [Nothing EXCEPT !.task = {lookout}, !.evidence = {seen}, !.revisions = 5]
Glanced == [Nothing EXCEPT !.task = {glance}, !.action = {call}, !.revisions = 4, !.corrections = TRUE]
MCPlan == {Watched, Glanced, Reruns, Cancels, Neighbours, Study, Checks, Gist, Corrected, Discredited}

Symmetry == Permutations({w1, w2}) \cup Permutations({call, mail})
=============================================================================
