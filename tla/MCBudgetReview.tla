--------------------------- MODULE MCBudgetReview ---------------------------
EXTENDS BudgetReview, TLC

CONSTANTS digest, brief, memo, chat, w1, w2

MCPolicy == {[calls |-> 3, wakes |-> 2, hard |-> FALSE], [calls |-> 2, wakes |-> 2, hard |-> TRUE]}

\* Two workers and two wakes at the gate; two workers on a wake and a review; reviews
\* that page through two objects; a wake whose outcome reviews are shown.
CrowdAtGate == {[background |-> {digest, brief}, object |-> {}, reviews |-> 0, workers |-> 2, until |-> 2]}
ReviewAndWake ==
    {[background |-> {b}, object |-> {o}, reviews |-> 1, workers |-> 2, until |-> 1]
        : b \in {digest, brief}, o \in {memo, chat}}
Paging == {[background |-> {}, object |-> {memo, chat}, reviews |-> 3, workers |-> 1, until |-> 3]}
OutcomePages ==
    {[background |-> {b}, object |-> {o}, reviews |-> 2, workers |-> 1, until |-> 2]
        : b \in {digest, brief}, o \in {memo, chat}}

MCShape == CrowdAtGate \cup ReviewAndWake \cup Paging \cup OutcomePages

Symmetry ==
    Permutations({w1, w2}) \cup Permutations({memo, chat}) \cup Permutations({digest, brief})
=============================================================================
