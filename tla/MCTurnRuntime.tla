--------------------------- MODULE MCTurnRuntime ---------------------------
(* One turn of up to three model rounds and two run_turn calls. c0 and c1  *)
(* ask for a capability and so for one more round, f2 answers: a call that *)
(* runs both rounds exhausts its budget, one that resumes the second does  *)
(* not. A provider names every reply by a request of its own.              *)
EXTENDS TurnRuntime

CONSTANTS w1, p1, p2, i1, i2, q1, c0, c1, f2

MCWork == {w1}
MCProc == {p1, p2}
MCInput == {i1, i2}
MCRequest == {q1}
MCDirective == {c0, c1, f2}
MCFinal == {f2}
MCIdentity == [d \in MCDirective |-> d]
MCUsage == [d \in MCDirective |-> 1]
MCReply == [a \in MCWork \X (0..MaxRound) |->
              IF a[2] = 0 THEN {c0} ELSE IF a[2] = 1 THEN {c1} ELSE {f2}]
=============================================================================
