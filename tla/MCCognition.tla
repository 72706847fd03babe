----------------------------- MODULE MCCognition -----------------------------
(* Small instances of Cognition.                                           *)
EXTENDS Cognition, TLC
CONSTANTS meal, nap, mood, habit, trip, visit, tact, day, week, digest, monday, tuesday, w1, w2

MCTurnOf == [c \in Claim |-> monday]
Nowhere == [of |-> {}, below |-> {}, cap |-> 9, digest |-> FALSE]
MCScope == [v \in Window |->
    CASE v = day    -> [Nowhere EXCEPT !.of = {meal, nap, mood, trip, monday}, !.cap = 3]
      [] v = week   -> [Nowhere EXCEPT !.of = {meal, nap, mood, trip, monday}, !.below = {day}]
      [] v = digest -> [Nowhere EXCEPT !.below = {day}, !.digest = TRUE]]

Nothing == [reality |-> {meal}, known |-> {meal}, claim |-> {}, event |-> {}, policy |-> {}, ladder |-> <<>>,
            citable |-> {meal, mood}, worker |-> {w1}, cites |-> 1, revisions |-> 2, failures |-> 0]
Quarrel == [Nothing EXCEPT !.claim = {mood, habit}, !.citable = {meal, mood, habit}, !.worker = {w1, w2}, !.cites = 2]
Twice == [Nothing EXCEPT !.claim = {mood, habit}, !.cites = 2, !.revisions = 3]
Story == [Nothing EXCEPT !.claim = {mood, habit}, !.event = {trip}, !.citable = {meal, trip}]
Merger == [Nothing EXCEPT !.event = {trip, visit}, !.citable = {meal}, !.revisions = 3]
Day == [Nothing EXCEPT !.claim = {mood}, !.ladder = <<day>>, !.reality = {meal, nap}, !.failures = 2]
Ladder == [Nothing EXCEPT !.claim = {mood}, !.citable = {meal}, !.ladder = <<day, week, digest>>, !.failures = 1]
Derived == [Nothing EXCEPT !.claim = {mood}, !.citable = {meal, day}, !.ladder = <<day>>]
Told == [Nothing EXCEPT !.event = {trip}, !.citable = {meal, day}, !.ladder = <<day, digest>>]
Tact == [Nothing EXCEPT !.policy = {tact}, !.claim = {mood}, !.revisions = 3]
Rivals == [Tact EXCEPT !.claim = {}, !.worker = {w1, w2}]
Counsel == [Tact EXCEPT !.event = {trip}, !.citable = {meal, mood, trip}, !.revisions = 2]
Contested == [Tact EXCEPT !.revisions = 2, !.worker = {w1, w2}]
MCPlan == {Tact, Rivals, Counsel, Contested, Quarrel, Twice, Story, Merger, Day, Ladder, Derived, Told}
=============================================================================
