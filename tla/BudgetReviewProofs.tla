-------------------------- MODULE BudgetReviewProofs --------------------------
(***************************************************************************)
(* Proofs about BudgetReview: its types, that what a reservation counts on *)
(* still holds when it is written, that the ledger of a day stays within   *)
(* the cap, and that no object slips past the review cursor.               *)
(***************************************************************************)
EXTENDS BudgetReview, FiniteSetTheorems, SequenceTheorems, TLAPS

-----------------------------------------------------------------------------
(* Induction on a finite set, in the form of a least set.                  *)

\* Among subsets of a finite set there is one that has no other of them below it.
LEMMA MinimalSubset ==
    ASSUME NEW S, IsFiniteSet(S), NEW T, T \subseteq SUBSET S, T # {}
    PROVE  \E X \in T : \A Y \in T : ~(Y \subseteq X /\ Y # X)
<1> DEFINE R == StrictSubsetOrdering(S)
<1>1. IsWellFoundedOn(R, SUBSET S)
  BY FS_StrictSubsetOrderingWellFounded, FS_FiniteSubsetsOfFinite
<1>2. \A X, Y \in SUBSET S : Y \subseteq X /\ Y # X => <<Y, X>> \in R
  BY DEF StrictSubsetOrdering
<1> HIDE DEF R
<1>3. \E X \in T : \A Y \in T : ~ (<<Y, X>> \in R)
  BY <1>1, WFMin
<1> QED BY <1>2, <1>3

-----------------------------------------------------------------------------
(* Sums.                                                                   *)

Some(s) == CHOOSE x \in s : TRUE

\* A function that sums f over the subsets of S, an element at a time.
Sums(g, f, S) ==
    g = [s \in SUBSET S |-> IF s = {} THEN 0 ELSE f[Some(s)] + g[s \ {Some(s)}]]

\* The library's sum is one such function, if there is any.
LEMMA SumIsChosen ==
    ASSUME NEW f, NEW S
    PROVE  SumFunctionOnSet(f, S) = (CHOOSE g : Sums(g, f, S))[S]
BY DEF SumFunctionOnSet, FoldFunctionOnSet, MapThenFoldSet, Sums, Some

\* Two such functions agree where both are defined.
LEMMA SumsAgree ==
    ASSUME NEW f, NEW A, NEW B, NEW g, NEW h, Sums(g, f, A), Sums(h, f, B),
           NEW X, X \subseteq A, X \subseteq B, IsFiniteSet(X)
    PROVE  g[X] = h[X]
<1> DEFINE T == {Y \in SUBSET X : g[Y] # h[Y]}
<1> SUFFICES ASSUME T # {} PROVE FALSE
  OBVIOUS
<1>0. T \subseteq SUBSET X
  OBVIOUS
<1>1. PICK Y \in T : \A Z \in T : ~(Z \subseteq Y /\ Z # Y)
  <2> HIDE DEF T
  <2> QED BY <1>0, MinimalSubset
<1>2. /\ g[Y] = (IF Y = {} THEN 0 ELSE f[Some(Y)] + g[Y \ {Some(Y)}])
      /\ h[Y] = (IF Y = {} THEN 0 ELSE f[Some(Y)] + h[Y \ {Some(Y)}])
  <2>1. Y \in SUBSET A /\ Y \in SUBSET B
    OBVIOUS
  <2> QED BY <2>1 DEF Sums
<1>3. Y # {}
  BY <1>2
<1>4. Some(Y) \in Y
  BY <1>3 DEF Some
<1>5. g[Y \ {Some(Y)}] = h[Y \ {Some(Y)}]
  BY <1>1, <1>4
<1> QED BY <1>2, <1>5

\* A finite set has such a function.
LEMMA SumsExist ==
    ASSUME NEW f, NEW S, IsFiniteSet(S)
    PROVE  \E g : Sums(g, f, S)
<1> DEFINE T == {X \in SUBSET S : ~\E g : Sums(g, f, X)}
<1> SUFFICES ASSUME T # {} PROVE FALSE
  <2>1. S \in SUBSET S
    OBVIOUS
  <2> QED BY <2>1
<1>0. T \subseteq SUBSET S
  OBVIOUS
<1>1. PICK X \in T : \A Y \in T : ~(Y \subseteq X /\ Y # X)
  <2> HIDE DEF T
  <2> QED BY <1>0, MinimalSubset
<1> DEFINE of[Y \in SUBSET X] == CHOOSE g : Sums(g, f, Y)
           total == [Y \in SUBSET X |-> IF Y = {} THEN 0 ELSE f[Some(Y)] + of[Y \ {Some(Y)}][Y \ {Some(Y)}]]
<1>2. \A Y \in SUBSET X : Y # X => Sums(of[Y], f, Y)
  <2> SUFFICES ASSUME NEW Y \in SUBSET X, Y # X PROVE Sums(of[Y], f, Y)
    OBVIOUS
  <2>1. \E g : Sums(g, f, Y)
    BY <1>1
  <2> QED BY <2>1
<1>3. \A Y \in SUBSET X : Y # {} => Some(Y) \in Y
  BY DEF Some
<1>4. \A Y \in SUBSET X : Y # X => of[Y][Y] = total[Y]
  <2> SUFFICES ASSUME NEW Y \in SUBSET X, Y # X PROVE of[Y][Y] = total[Y]
    OBVIOUS
  <2>1. of[Y][Y] = IF Y = {} THEN 0 ELSE f[Some(Y)] + of[Y][Y \ {Some(Y)}]
    <3>1. Sums(of[Y], f, Y) /\ Y \in SUBSET Y
      BY <1>2
    <3> HIDE DEF of
    <3> QED BY <3>1 DEF Sums
  <2>2. CASE Y = {}
    BY <2>1, <2>2
  <2>3. CASE Y # {}
    <3> DEFINE Z == Y \ {Some(Y)}
    <3>1. Z \subseteq Y /\ Z \in SUBSET X /\ Z # X /\ IsFiniteSet(Z)
      BY <1>3, <2>3, FS_Subset
    <3>2. of[Y][Z] = of[Z][Z]
      <4>1. Sums(of[Y], f, Y) /\ Sums(of[Z], f, Z)
        BY <1>2, <3>1
      <4> HIDE DEF of, Z
      <4> QED BY <4>1, <3>1, SumsAgree
    <3>3. total[Y] = f[Some(Y)] + of[Z][Z]
      <4> HIDE DEF of
      <4> QED BY <2>3
    <3> HIDE DEF of, total
    <3> QED BY <2>1, <2>3, <3>2, <3>3
  <2> QED BY <2>2, <2>3
<1>5. Sums(total, f, X)
  <2>1. \A Y \in SUBSET X : Y # {} => total[Y] = f[Some(Y)] + total[Y \ {Some(Y)}]
    <3> SUFFICES ASSUME NEW Y \in SUBSET X, Y # {}
                 PROVE  total[Y] = f[Some(Y)] + total[Y \ {Some(Y)}]
      OBVIOUS
    <3>1. Y \ {Some(Y)} \in SUBSET X /\ Y \ {Some(Y)} # X
      BY <1>3
    <3>2. total[Y] = f[Some(Y)] + of[Y \ {Some(Y)}][Y \ {Some(Y)}]
      <4> HIDE DEF of
      <4> QED OBVIOUS
    <3> HIDE DEF of, total
    <3> QED BY <3>1, <3>2, <1>4
  <2>2. total[{}] = 0
    <3> HIDE DEF of
    <3> QED OBVIOUS
  <2>3. total = [Y \in SUBSET X |-> total[Y]]
    <3> HIDE DEF of
    <3> QED OBVIOUS
  <2> HIDE DEF of, total
  <2> QED BY <2>1, <2>2, <2>3 DEF Sums
<1> QED BY <1>5, <1>1

\* The sum over a finite set, an element at a time.
LEMMA SumUnfolds ==
    ASSUME NEW f, NEW S, IsFiniteSet(S)
    PROVE  SumFunctionOnSet(f, S) =
              IF S = {} THEN 0 ELSE f[Some(S)] + SumFunctionOnSet(f, S \ {Some(S)})
<1> DEFINE g == CHOOSE g : Sums(g, f, S)
           R == S \ {Some(S)}
           h == CHOOSE h : Sums(h, f, R)
<1>1. IsFiniteSet(R) /\ R \subseteq S
  BY FS_Subset
<1>2. Sums(g, f, S)
  BY SumsExist
<1>3. Sums(h, f, R)
  <2>1. \E k : Sums(k, f, R)
    BY <1>1, SumsExist
  <2> QED BY <2>1
<1>4. SumFunctionOnSet(f, S) = g[S] /\ SumFunctionOnSet(f, R) = h[R]
  BY SumIsChosen
<1> HIDE DEF g, h
<1>5. g[S] = IF S = {} THEN 0 ELSE f[Some(S)] + g[R]
  <2>1. S \in SUBSET S
    OBVIOUS
  <2> QED BY <1>2, <2>1 DEF Sums
<1>6. g[R] = h[R]
  <2> HIDE DEF R
  <2> QED BY <1>1, <1>2, <1>3, SumsAgree
<1> QED BY <1>4, <1>5, <1>6

\* A sum of natural numbers is one.
LEMMA SumType ==
    ASSUME NEW f, NEW S, IsFiniteSet(S), \A x \in S : f[x] \in Nat
    PROVE  SumFunctionOnSet(f, S) \in Nat
<1> DEFINE T == {X \in SUBSET S : SumFunctionOnSet(f, X) \notin Nat}
<1> SUFFICES ASSUME T # {} PROVE FALSE
  OBVIOUS
<1>1. T \subseteq SUBSET S
  OBVIOUS
<1>2. PICK X \in T : \A Y \in T : ~(Y \subseteq X /\ Y # X)
  <2> HIDE DEF T
  <2> QED BY <1>1, MinimalSubset
<1>3. IsFiniteSet(X)
  BY FS_Subset
<1>4. SumFunctionOnSet(f, X) = IF X = {} THEN 0 ELSE f[Some(X)] + SumFunctionOnSet(f, X \ {Some(X)})
  BY <1>3, SumUnfolds
<1>5. X # {} => Some(X) \in X
  BY DEF Some
<1>6. X # {} => f[Some(X)] \in Nat /\ SumFunctionOnSet(f, X \ {Some(X)}) \in Nat
  BY <1>2, <1>5
<1>7. SumFunctionOnSet(f, X) \notin Nat
  OBVIOUS
<1> HIDE DEF T
<1> QED BY <1>4, <1>6, <1>7

\* Any element may be added last.
LEMMA SumRemove ==
    ASSUME NEW f, NEW S, IsFiniteSet(S), \A x \in S : f[x] \in Nat, NEW a \in S
    PROVE  SumFunctionOnSet(f, S) = f[a] + SumFunctionOnSet(f, S \ {a})
<1> DEFINE T == {X \in SUBSET S : \E x \in X : SumFunctionOnSet(f, X) # f[x] + SumFunctionOnSet(f, X \ {x})}
<1> SUFFICES ASSUME T # {} PROVE FALSE
  OBVIOUS
<1>1. T \subseteq SUBSET S
  OBVIOUS
<1>2. PICK X \in T : \A Y \in T : ~(Y \subseteq X /\ Y # X)
  <2> HIDE DEF T
  <2> QED BY <1>1, MinimalSubset
<1>3. PICK x \in X : SumFunctionOnSet(f, X) # f[x] + SumFunctionOnSet(f, X \ {x})
  OBVIOUS
<1> DEFINE c == Some(X)
<1>4. c \in X
  BY DEF Some
<1> HIDE DEF c
<1>5. IsFiniteSet(X) /\ IsFiniteSet(X \ {x}) /\ IsFiniteSet(X \ {c})
  BY FS_Subset, X \ {x} \in SUBSET S, X \ {c} \in SUBSET S
<1>6. SumFunctionOnSet(f, X) = f[c] + SumFunctionOnSet(f, X \ {c})
  BY <1>4, <1>5, SumUnfolds DEF c
<1>7. x # c
  BY <1>3, <1>6
<1>8. SumFunctionOnSet(f, X \ {c}) = f[x] + SumFunctionOnSet(f, (X \ {c}) \ {x})
  <2>1. X \ {c} \in SUBSET S /\ X \ {c} \notin T
    BY <1>2, <1>4
  <2> QED BY <2>1, <1>7
<1>9. SumFunctionOnSet(f, X \ {x}) = f[c] + SumFunctionOnSet(f, (X \ {x}) \ {c})
  <2>1. X \ {x} \in SUBSET S /\ X \ {x} \notin T
    BY <1>2
  <2> QED BY <2>1, <1>4, <1>7
<1>10. SumFunctionOnSet(f, (X \ {c}) \ {x}) \in Nat /\ (X \ {c}) \ {x} = (X \ {x}) \ {c}
  <2>1. IsFiniteSet((X \ {c}) \ {x})
    BY FS_Subset, (X \ {c}) \ {x} \in SUBSET S
  <2>2. \A y \in (X \ {c}) \ {x} : f[y] \in Nat
    OBVIOUS
  <2>3. SumFunctionOnSet(f, (X \ {c}) \ {x}) \in Nat
    BY <2>1, <2>2, SumType
  <2> QED BY <2>3
<1>11. f[x] \in Nat /\ f[c] \in Nat
  BY <1>4
<1> HIDE DEF T
<1> QED BY <1>3, <1>6, <1>8, <1>9, <1>10, <1>11

\* A sum grows with its summands.
LEMMA SumMonotone ==
    ASSUME NEW f, NEW g, NEW S, IsFiniteSet(S),
           \A x \in S : f[x] \in Nat /\ g[x] \in Nat /\ f[x] <= g[x]
    PROVE  SumFunctionOnSet(f, S) <= SumFunctionOnSet(g, S)
<1> DEFINE T == {X \in SUBSET S : ~(SumFunctionOnSet(f, X) <= SumFunctionOnSet(g, X))}
<1> SUFFICES ASSUME T # {} PROVE FALSE
  OBVIOUS
<1>1. T \subseteq SUBSET S
  OBVIOUS
<1>2. PICK X \in T : \A Y \in T : ~(Y \subseteq X /\ Y # X)
  <2> HIDE DEF T
  <2> QED BY <1>1, MinimalSubset
<1>3. IsFiniteSet(X) /\ IsFiniteSet(X \ {Some(X)})
  BY FS_Subset, X \ {Some(X)} \in SUBSET S
<1>4. /\ SumFunctionOnSet(f, X) = IF X = {} THEN 0 ELSE f[Some(X)] + SumFunctionOnSet(f, X \ {Some(X)})
      /\ SumFunctionOnSet(g, X) = IF X = {} THEN 0 ELSE g[Some(X)] + SumFunctionOnSet(g, X \ {Some(X)})
  BY <1>3, SumUnfolds
<1>5. X # {} => Some(X) \in X
  BY DEF Some
<1>6. X # {} => SumFunctionOnSet(f, X \ {Some(X)}) <= SumFunctionOnSet(g, X \ {Some(X)})
  BY <1>2, <1>5
<1>7. SumFunctionOnSet(f, X \ {Some(X)}) \in Nat /\ SumFunctionOnSet(g, X \ {Some(X)}) \in Nat
  BY <1>3, SumType
<1>8. ~(SumFunctionOnSet(f, X) <= SumFunctionOnSet(g, X))
  OBVIOUS
<1>9. X # {} => f[Some(X)] \in Nat /\ g[Some(X)] \in Nat /\ f[Some(X)] <= g[Some(X)]
  BY <1>5
<1> HIDE DEF T
<1> QED BY <1>4, <1>6, <1>7, <1>8, <1>9

\* Equal summands, equal sums.
LEMMA SumSame ==
    ASSUME NEW f, NEW g, NEW S, IsFiniteSet(S), \A x \in S : f[x] \in Nat /\ f[x] = g[x]
    PROVE  SumFunctionOnSet(f, S) = SumFunctionOnSet(g, S)
<1>1. SumFunctionOnSet(f, S) <= SumFunctionOnSet(g, S) /\ SumFunctionOnSet(g, S) <= SumFunctionOnSet(f, S)
  BY SumMonotone
<1>2. SumFunctionOnSet(f, S) \in Nat /\ SumFunctionOnSet(g, S) \in Nat
  BY SumType
<1> QED BY <1>1, <1>2

\* A finite set of numbers has a largest.
LEMMA LargestExists ==
    ASSUME NEW S, IsFiniteSet(S), \A x \in S : x \in Nat, S # {}
    PROVE  \E x \in S : \A y \in S : x >= y
<1> DEFINE T == {X \in SUBSET S : X # {} /\ ~\E x \in X : \A y \in X : x >= y}
<1> SUFFICES ASSUME T # {} PROVE FALSE
  OBVIOUS
<1>1. T \subseteq SUBSET S
  OBVIOUS
<1>2. PICK X \in T : \A Y \in T : ~(Y \subseteq X /\ Y # X)
  <2> HIDE DEF T
  <2> QED BY <1>1, MinimalSubset
<1>3. PICK c \in X : TRUE
  OBVIOUS
<1>4. CASE X = {c}
  BY <1>4
<1>5. CASE X # {c}
  <2>1. X \ {c} \in SUBSET S /\ X \ {c} \notin T /\ X \ {c} # {}
    BY <1>2, <1>3, <1>5
  <2>2. PICK x \in X \ {c} : \A y \in X \ {c} : x >= y
    BY <2>1
  <2>3. c \in Nat /\ x \in Nat /\ \A y \in X : y \in Nat
    BY <1>3, <2>2
  <2>4. CASE x >= c
    BY <2>2, <2>4
  <2>5. CASE ~(x >= c)
    <3>1. \A y \in X : c >= y
      BY <2>2, <2>3, <2>5
    <3> QED BY <3>1
  <2> QED BY <2>4, <2>5
<1> QED BY <1>4, <1>5

LEMMA MaxIsLargest ==
    ASSUME NEW S, IsFiniteSet(S), \A x \in S : x \in Nat, NEW a \in S
    PROVE  Max(S) \in S /\ a <= Max(S)
<1>1. \E x \in S : \A y \in S : x >= y
  BY LargestExists
<1>2. Max(S) \in S /\ \A y \in S : Max(S) >= y
  BY <1>1 DEF Max
<1> QED BY <1>2

LEMMA MinOfTwo ==
    ASSUME NEW a \in Int, NEW b \in Int
    PROVE  Min({a, b}) = IF a <= b THEN a ELSE b
<1>1. \E x \in {a, b} : \A y \in {a, b} : x <= y
  OBVIOUS
<1> QED BY <1>1 DEF Min

LEMMA MaxOfTwo ==
    ASSUME NEW a \in Int, NEW b \in Int
    PROVE  Max({a, b}) = IF a >= b THEN a ELSE b
<1>1. \E x \in {a, b} : \A y \in {a, b} : x >= y
  OBVIOUS
<1> QED BY <1>1 DEF Max

-----------------------------------------------------------------------------
(* Days.                                                                   *)

LEMMA DayOrder ==
    ASSUME NEW s \in Int, NEW t \in Int, s <= t
    PROVE  Day(s) \in Int /\ Day(t) \in Int /\ Day(s) <= Day(t)
BY BudgetAssumption DEF Day

LEMMA DayType ==
    ASSUME NEW t \in Nat
    PROVE  Day(t) \in Nat
BY BudgetAssumption DEF Day

LEMMA DayRange ==
    ASSUME NEW t \in 0 .. MaxTime
    PROVE  Day(t) \in Days
<1>1. Day(t) \in Nat /\ Day(MaxTime) \in Nat /\ Day(t) <= Day(MaxTime)
  BY BudgetAssumption, DayType, DayOrder
<1> QED BY <1>1 DEF Days

-----------------------------------------------------------------------------
(* The invariant.                                                          *)

Stages == {"idle", "claim", "hold", "deny", "run"}

LooseWake == [state : Open \cup {"completed", "suppressed"}, started : Never .. MaxTime,
              reserved : 0 .. MaxRounds, day : Never .. Day(MaxTime), attempts : Nat,
              tried : Never .. MaxTime, ended : Never .. MaxTime]

WorkerRecord == [pc : Stages, id : WakeId \cup {0}, at : Never .. MaxTime, limit : 0 .. MaxRounds,
                 reserve : 0 .. MaxRounds, bare : BOOLEAN, fresh : BOOLEAN, current : BOOLEAN,
                 ran : 0 .. MaxRounds, consume : SUBSET Object]

ReviewRecord == [from : 0 .. MaxTime, to : 0 .. MaxTime, anchors : SUBSET (Object \cup Background),
                 more : BOOLEAN, hit : Never .. MaxTime]

ClockOK ==
    /\ shape \in Shape /\ now \in 1 .. shape.until
    /\ policy \in Policy \cup {NoPolicy}

ReviewsOK ==
    /\ review \in Seq(ReviewRecord) /\ Len(review) <= shape.reviews
    /\ \A k \in DOMAIN review :
          /\ Cardinality(review[k].anchors) <= PageSize
          /\ review[k].from <= review[k].to /\ review[k].to <= now

WakesOK == wake \in [shape.background \cup DOMAIN review -> LooseWake]

RecordsOK ==
    /\ meter \in [WakeId -> [Days -> 0 .. MaxMetered]]
    /\ object \in [Object -> [at : Never .. MaxTime, late : BOOLEAN]]
    /\ \A o \in Object : object[o].at # Never => object[o].at \in 1 .. now
    /\ queue \subseteq Object

\* A worker is at a wake that exists, since a moment that has come.
WorkerOK(w) ==
    /\ worker[w].ran <= worker[w].limit
    /\ worker[w].pc # "idle" => worker[w].id \in DOMAIN wake /\ worker[w].at \in 1 .. now

WorkersOK == worker \in [Worker -> WorkerRecord] /\ \A w \in Worker : WorkerOK(w)

Typed == ClockOK /\ ReviewsOK /\ WakesOK /\ RecordsOK /\ WorkersOK

\* The calls under way that may yet count as an attempt.
Attempting(i) == {w \in Worker : worker[w].id = i /\ worker[w].pc \in {"claim", "run"}}

AttemptsBounded ==
    \A i \in DOMAIN wake :
        /\ wake[i].attempts + Cardinality(Attempting(i)) <= MaxAttempts + Cardinality(Worker)
        /\ ~IsReview(i) => wake[i].attempts <= 1

-----------------------------------------------------------------------------
(* What the gate relies on, when there is a policy.                        *)

\* With a policy every claim reserves the rounds it may take, without one none does.
ReservesOK(w) ==
    worker[w].pc \in {"claim", "run"} =>
        IF policy = NoPolicy THEN worker[w].reserve = 0
        ELSE worker[w].reserve = worker[w].limit /\ worker[w].reserve > 0 /\ ~worker[w].bare

\* A decision that may still be written was made of a world that is there yet.
DecisionHolds(w) ==
    LET i == worker[w].id
        d == Day(worker[w].at) IN
    policy # NoPolicy /\ worker[w].pc = "claim" /\ worker[w].fresh =>
        /\ Unattended(i)
        /\ WakesLeft(i, d) /\ Remaining(i, d) >= worker[w].reserve
        /\ ~AlreadyReserved(i, d)
        /\ \A j \in DOMAIN wake : wake[j].day <= d

\* A run is alone at its wake, and holds the reservation of the day it is metered on.
RunHolds(w) ==
    LET i == worker[w].id IN
    policy # NoPolicy /\ worker[w].pc = "run" =>
        /\ ~worker[w].fresh
        /\ \A v \in Worker \ {w} : worker[v].pc = "run" => worker[v].id # i
        /\ wake[i].state \in {"running", "suppressed"}
        /\ wake[i].day = Day(worker[w].at) /\ wake[i].reserved = worker[w].reserve

\* The history of a wake, in its fields.
WakeHolds(i) ==
    LET x == wake[i] IN
    policy # NoPolicy =>
        /\ x.day <= Day(now)
        /\ x.state = "running" => x.reserved > 0 /\ x.day # Never
        /\ x.state = "new" \/ (x.state = "queued" /\ (x.attempts = 0 \/ IsReview(i))) => x.day = Never
        /\ x.day # Never => Day(x.started) <= x.day /\ (~IsReview(i) => Day(x.started) = x.day)
        /\ x.state = "completed" /\ x.attempts = 0 => Day(x.ended) = x.day

\* Nothing is metered on a day after the last one a wake has reserved.
MeterHolds ==
    policy # NoPolicy =>
        \A i \in WakeId, d \in Days :
            meter[i][d] > 0 => i \in DOMAIN wake /\ wake[i].day >= d

GateInv ==
    /\ \A w \in Worker : ReservesOK(w) /\ DecisionHolds(w) /\ RunHolds(w)
    /\ \A i \in DOMAIN wake : WakeHolds(i)
    /\ MeterHolds

\* The reservation of a wake that was never half done covers what it has spent that day,
\* and what is left of its run.
WakeCovered(i) ==
    LET x == wake[i] IN
    policy # NoPolicy /\ x.state = "running" /\ x.attempts = 0 =>
        \A d \in Days : x.day = d => meter[i][d] <= x.reserved

RunCovered(w) ==
    LET i == worker[w].id IN
    policy # NoPolicy /\ worker[w].pc = "run" /\ wake[i].attempts = 0 =>
        meter[i][Day(worker[w].at)] + worker[w].limit - worker[w].ran <= wake[i].reserved

\* What a wake may come to on a day: a running one its reservation.
Due(i, d) ==
    LET x == wake[i] IN
    IF x.state = "suppressed" THEN 0
    ELSE IF x.state = "running" /\ x.day = d THEN x.reserved ELSE meter[i][d]

DueOn(d) == SumFunctionOnSet([i \in DOMAIN wake |-> Due(i, d)], DOMAIN wake)

DayHolds == policy # NoPolicy => \A d \in Days : Plain(d) => DueOn(d) <= LargestCap

DayInv ==
    /\ \A w \in Worker : RunCovered(w)
    /\ \A i \in DOMAIN wake : WakeCovered(i)
    /\ DayHolds

-----------------------------------------------------------------------------
(* What the review cursor relies on.                                       *)

\* Every review but the last is closed, and no window reaches past that of the last.
ReviewsClose == \A k \in DOMAIN review : (k < Latest => Closed(k)) /\ review[k].to <= Cursor

\* A page that left nothing out showed everything recorded in its window, or an earlier
\* page of the window did.
PageIsWhole(k) ==
    ~review[k].more =>
        \A o \in Object :
            Within(o, review[k].from, review[k].to) /\ ~object[o].late =>
                \E j \in DOMAIN review :
                    /\ review[j].from = review[k].from /\ review[j].to = review[k].to
                    /\ o \in review[j].anchors /\ (j = k \/ wake[j].state = "completed")

CursorInv == ReviewsClose /\ (\A k \in DOMAIN review : PageIsWhole(k)) /\ NothingSlipsPast

-----------------------------------------------------------------------------
(* The steps, by what they change.                                         *)

\* A worker takes up an open wake that nobody runs, and asks the gate.
Takes(w) ==
    /\ worker[w].pc = "idle"
    /\ \E i \in DOMAIN wake :
          /\ Unattended(i)
          /\ \/ worker' = [worker EXCEPT ![w] = [Idle EXCEPT !.pc = "deny", !.id = i, !.at = now]]
             \/ /\ IsReview(i) => ~Exhausted(i)
                /\ \E page : worker' = [worker EXCEPT ![w] = Take(w, i, page)]
    /\ UNCHANGED <<shape, now, policy, wake, review, meter, object, queue>>

\* A worker is done, or dies, and leaves its wake as it is.
Leaves(w) ==
    /\ worker' = [worker EXCEPT ![w] = Idle]
    /\ queue' \subseteq queue
    /\ UNCHANGED <<shape, now, policy, wake, review, meter, object>>

\* A worker joins a wake that is running already: there is no policy.
Joins(w) ==
    /\ worker[w].pc = "claim" /\ worker[w].bare
    /\ worker' = [worker EXCEPT ![w] = Running(w)]
    /\ UNCHANGED <<shape, now, policy, wake, review, meter, object, queue>>

\* A worker writes its wake, and its marker if it is a review.
Sets(w, x, next) ==
    LET i == worker[w].id IN
    /\ worker[w].pc # "idle"
    /\ WriteWake(w, i, x, next)
    /\ review' = review \/ (IsReview(i) /\ review' = [review EXCEPT ![i].hit = worker[w].at])
    /\ queue' \subseteq queue
    /\ UNCHANGED <<shape, now, policy, meter, object>>

Suppresses(w) ==
    LET x == wake[worker[w].id] IN
    /\ worker[w].pc = "deny" /\ x.state \in Open
    /\ Sets(w, [x EXCEPT !.state = "suppressed", !.ended = worker[w].at], Idle)

Defers(w) ==
    LET x == wake[worker[w].id] IN
    /\ worker[w].pc = "hold" /\ x.state = "new"
    /\ Sets(w, [x EXCEPT !.state = "queued"], Idle)

\* The start a claim writes: a running review keeps its own.
StartOf(w, t) ==
    LET i == worker[w].id IN
    t = IF IsReview(i) /\ wake[i].state = "running" THEN wake[i].started ELSE worker[w].at

Claims(w) ==
    LET x == wake[worker[w].id] IN
    /\ worker[w].pc = "claim" /\ x.state \in Open /\ Unchanged(w)
    /\ \E t : /\ StartOf(w, t)
              /\ Sets(w, Reserved([x EXCEPT !.state = "running", !.started = t], w), Running(w))

Completes(w) ==
    LET x == wake[worker[w].id] IN
    /\ worker[w].pc = "run" /\ x.state \in Open
    /\ Sets(w, [x EXCEPT !.state = "completed", !.ended = worker[w].at], Idle)

\* A run ends half done.
Requeues(w) ==
    LET x == wake[worker[w].id] IN
    /\ worker[w].pc = "run" /\ ~IsReview(worker[w].id) /\ x.state = "running"
    /\ Sets(w, [x EXCEPT !.state = "queued", !.attempts = 1, !.tried = worker[w].at], Idle)

EndsHalfDone(w) ==
    LET x == wake[worker[w].id] IN
    /\ worker[w].pc = "run" /\ IsReview(worker[w].id) /\ x.state = "running"
    /\ Sets(w, [x EXCEPT !.attempts = @ + 1, !.tried = worker[w].at], Idle)

Writes(w) ==
    Suppresses(w) \/ Defers(w) \/ Claims(w) \/ Completes(w) \/ Requeues(w) \/ EndsHalfDone(w)

\* The clock, the policy or an object moves; the wakes and the reviews do not.
Turns ==
    /\ WorldMoves \/ (worker' = worker /\ policy' = policy)
    /\ UNCHANGED <<shape, wake, review, meter>>
    /\ now' \in {now, now + 1} /\ now' <= shape.until
    /\ policy' = policy \/ (policy # NoPolicy /\ policy' \in Policy)
    /\ \/ object' = object
       \/ now' = now /\ \E o \in shape.object : \E t \in 1 .. now :
             object[o].at = Never /\ object' = [object EXCEPT ![o] = [at |-> t, late |-> t <= Cursor]]
    /\ queue' \subseteq queue \cup Object

LEMMA Population ==
    ASSUME Typed
    PROVE  /\ DOMAIN wake \subseteq WakeId /\ IsFiniteSet(DOMAIN wake)
           /\ DOMAIN review = 1 .. Len(review) /\ Len(review) \in 0 .. MaxReviews
           /\ \A k \in DOMAIN review : k \in DOMAIN wake /\ IsReview(k)
           /\ \A i \in shape.background : i \in DOMAIN wake /\ ~IsReview(i)
           /\ 0 \notin DOMAIN wake
<1>1. /\ shape.background \subseteq Background /\ shape.reviews \in 0 .. MaxReviews
      /\ MaxReviews \in Nat
  BY BudgetAssumption DEF Typed, ClockOK
<1>2. DOMAIN review = 1 .. Len(review) /\ Len(review) \in Nat /\ Len(review) <= shape.reviews
  BY DEF Typed, ReviewsOK
<1>3. DOMAIN wake = shape.background \cup DOMAIN review
  BY DEF Typed, WakesOK
<1>4. IsFiniteSet(shape.background) /\ IsFiniteSet(DOMAIN review)
  <2>1. IsFiniteSet(Background)
    BY BudgetAssumption
  <2>2. IsFiniteSet(shape.background)
    BY <1>1, <2>1, FS_Subset
  <2>3. IsFiniteSet(1 .. Len(review))
    BY <1>2, FS_Interval
  <2> QED BY <1>2, <2>2, <2>3
<1>5. IsFiniteSet(DOMAIN wake)
  BY <1>3, <1>4, FS_Union
<1>6. \A i \in Background : i \notin 0 .. MaxReviews
  BY BudgetAssumption
<1>7. DOMAIN wake \subseteq WakeId
  BY <1>1, <1>2, <1>3 DEF WakeId
<1>8. 0 \notin DOMAIN wake
  BY <1>1, <1>2, <1>3, <1>6
<1> QED BY <1>1, <1>2, <1>3, <1>5, <1>6, <1>7, <1>8 DEF IsReview

\* Every step is one of these.
LEMMA Steps ==
    ASSUME Typed, BudgetNext
    PROVE  \/ \E w \in Worker : Takes(w) \/ Leaves(w) \/ Joins(w) \/ Writes(w) \/ Round(w)
                                \/ ReviewIsScheduled(w)
           \/ Turns
<1> USE DEF ClockOK, Typed
<1>1. ASSUME NEW w \in Worker, OnWake(w)
      PROVE  Takes(w) \/ Leaves(w) \/ Joins(w) \/ Writes(w)
  <2>1. ASSUME NEW i \in shape.background, WakeIsTaken(w, i) PROVE Takes(w)
    <3>1. i \in DOMAIN wake
      BY DEF WakesOK
    <3>2. ~IsReview(i)
      BY Population
    <3> QED BY <2>1, <3>1, <3>2 DEF WakeIsTaken, Free, Takes
  <2>2. CASE WakeIsSuppressed(w)
    BY <2>2 DEF WakeIsSuppressed, Writes, Suppresses, Sets, Leaves
  <2>3. CASE WakeIsDeferred(w)
    BY <2>3 DEF WakeIsDeferred, Writes, Defers, Sets, Leaves
  <2>4. CASE WakeIsClaimed(w)
    <3> DEFINE i == worker[w].id
    <3>1. CASE wake[i].state = "running" /\ worker[w].bare
      BY <2>4, <3>1 DEF WakeIsClaimed, Joins
    <3>2. CASE ~(wake[i].state = "running" /\ worker[w].bare)
      <4>1. StartOf(w, worker[w].at)
        BY <2>4 DEF StartOf, WakeIsClaimed
      <4>2. Sets(w, Reserved([wake[i] EXCEPT !.state = "running", !.started = worker[w].at], w), Running(w))
        BY <2>4, <3>2 DEF WakeIsClaimed, Sets
      <4>3. Claims(w)
        BY <2>4, <3>2, <4>1, <4>2 DEF WakeIsClaimed, Claims
      <4> QED BY <4>3 DEF Writes
    <3> QED BY <3>1, <3>2
  <2>5. CASE WakeIsCompleted(w)
    BY <2>5 DEF WakeIsCompleted, Writes, Completes, Sets, Leaves
  <2>6. CASE WakeIsRequeued(w)
    BY <2>6 DEF WakeIsRequeued, Writes, Requeues, Sets, Leaves
  <2> QED BY <1>1, <2>1, <2>2, <2>3, <2>4, <2>5, <2>6 DEF OnWake
<1>2. ASSUME NEW w \in Worker, OnReview(w)
      PROVE  Takes(w) \/ Leaves(w) \/ Joins(w) \/ Writes(w) \/ ReviewIsScheduled(w)
  <2>1. CASE ReviewIsTaken(w)
    <3>1. Latest \in DOMAIN review
      BY <2>1 DEF ReviewIsTaken, ReviewsOK, Latest
    <3>2. Latest \in DOMAIN wake
      BY <3>1 DEF WakesOK
    <3> QED BY <2>1, <3>2 DEF ReviewIsTaken, Free, Takes
  <2>2. CASE ReviewIsSuppressed(w)
    BY <2>2 DEF ReviewIsSuppressed, WriteReview, Writes, Suppresses, Sets
  <2>3. CASE ReviewIsDeferred(w)
    BY <2>3 DEF ReviewIsDeferred, WriteReview, Writes, Defers, Sets
  <2>4. CASE ReviewIsBegun(w)
    <3> DEFINE i == worker[w].id
               t == IF wake[i].state = "running" THEN wake[i].started ELSE worker[w].at
    <3>1. CASE wake[i].state = "running" /\ worker[w].bare
      BY <2>4, <3>1 DEF ReviewIsBegun, Joins
    <3>2. CASE ~(wake[i].state = "running" /\ worker[w].bare)
      <4>1. StartOf(w, t)
        BY <2>4 DEF StartOf, ReviewIsBegun
      <4>2. Begun(i, worker[w].at) = [wake[i] EXCEPT !.state = "running", !.started = t]
        BY DEF Begun
      <4>3. Sets(w, Reserved([wake[i] EXCEPT !.state = "running", !.started = t], w), Running(w))
        BY <2>4, <3>2, <4>2 DEF ReviewIsBegun, WriteReview, Sets
      <4>4. Claims(w)
        BY <2>4, <3>2, <4>1, <4>3 DEF ReviewIsBegun, Claims
      <4> QED BY <4>4 DEF Writes
    <3> QED BY <3>1, <3>2
  <2>5. CASE ReviewIsLeftHalfDone(w)
    BY <2>5 DEF ReviewIsLeftHalfDone, Continues, Writes, EndsHalfDone, Sets
  <2>6. CASE ReviewIsCompleted(w)
    BY <2>6 DEF ReviewIsCompleted, WriteReview, Writes, Completes, Sets, Leaves, Open
  <2> QED BY <1>2, <2>1, <2>2, <2>3, <2>4, <2>5, <2>6 DEF OnReview
<1>3. ASSUME NEW w \in Worker, WorkerStops(w) PROVE Leaves(w)
  BY <1>3 DEF WorkerStops, Leaves
<1>4. ASSUME NEW o \in shape.object, ObjectIsCommitted(o) \/ ObjectIsQueued(o) PROVE Turns
  <2>1. now \in Nat /\ now <= shape.until /\ o \in Object /\ Lag \in Nat
    BY BudgetAssumption
  <2>2. CASE ObjectIsCommitted(o)
    <3>1. PICK t \in now - Lag .. now :
             t > 0 /\ object' = [object EXCEPT ![o] = [at |-> t, late |-> t <= Cursor]]
      BY <2>2 DEF ObjectIsCommitted
    <3>2. t \in 1 .. now
      BY <2>1, <3>1
    <3> QED BY <2>1, <2>2, <3>1, <3>2 DEF ObjectIsCommitted, Turns
  <2>3. CASE ObjectIsQueued(o)
    BY <2>1, <2>3 DEF ObjectIsQueued, Turns, WorldMoves
  <2> QED BY <1>4, <2>2, <2>3
<1>5. ASSUME NEW p \in Policy, PolicyIsRevised(p) PROVE Turns
  BY <1>5, BudgetAssumption DEF PolicyIsRevised, Turns, WorldMoves
<1>6. CASE TimePasses
  BY <1>6, BudgetAssumption DEF TimePasses, Turns
<1> QED BY <1>1, <1>2, <1>3, <1>4, <1>5, <1>6 DEF BudgetNext

-----------------------------------------------------------------------------
(* What the gate computes.                                                 *)

LEMMA ChargedType ==
    ASSUME Typed, NEW i \in DOMAIN wake, NEW d \in Days
    PROVE  Charged(i, d) \in Nat
<1>1. meter[i][d] \in Nat
  <2>1. i \in WakeId /\ MaxMetered \in Nat
    BY Population, BudgetAssumption
  <2>2. meter \in [WakeId -> [Days -> 0 .. MaxMetered]]
    BY DEF Typed, RecordsOK
  <2>3. meter[i] \in [Days -> 0 .. MaxMetered]
    BY <2>1, <2>2
  <2>4. meter[i][d] \in 0 .. MaxMetered
    BY <2>3
  <2> QED BY <2>1, <2>4
<1>2. wake[i] \in LooseWake
  BY DEF Typed, WakesOK
<1>3. wake[i].reserved \in Nat
  BY <1>2, BudgetAssumption DEF LooseWake
<1>4. Max({1, meter[i][d]}) \in Nat
  BY <1>1, MaxOfTwo
<1> QED BY <1>1, <1>3, <1>4 DEF Charged

LEMMA UsedType ==
    ASSUME Typed, NEW i \in DOMAIN wake, NEW d \in Days
    PROVE  UsedCalls(i, d) \in Nat /\ UsedWakes(i, d) \in Nat /\ OwnCalls(i, d) \in Nat
<1>1. IsFiniteSet(Others(i)) /\ Others(i) \subseteq DOMAIN wake
  BY Population, FS_Subset, Others(i) \in SUBSET DOMAIN wake DEF Others
<1> DEFINE f == [j \in DOMAIN wake |-> Charged(j, d)]
<1>2. \A j \in Others(i) : f[j] \in Nat
  BY <1>1, ChargedType
<1>3. UsedCalls(i, d) = SumFunctionOnSet(f, Others(i))
  BY DEF UsedCalls
<1>4. UsedCalls(i, d) \in Nat
  <2> HIDE DEF f
  <2> QED BY <1>1, <1>2, <1>3, SumType
<1>5. UsedWakes(i, d) \in Nat
  <2>1. {j \in Others(i) : Charged(j, d) > 0} \in SUBSET Others(i)
    OBVIOUS
  <2>2. IsFiniteSet({j \in Others(i) : Charged(j, d) > 0})
    BY <1>1, <2>1, FS_Subset
  <2> QED BY <2>2, FS_CardinalityType DEF UsedWakes
<1> QED BY <1>4, <1>5, ChargedType DEF OwnCalls

\* What the gate says: without a policy every wake may run, unreserved; with one, a claim
\* reserves rounds that are left.
LEMMA VerdictType ==
    ASSUME Typed, NEW i \in DOMAIN wake
    PROVE  LET v == Verdict(i, now)
               d == Day(now) IN
           /\ v.pc \in {"claim", "hold", "deny"} /\ v.limit \in 0 .. MaxRounds /\ v.reserve \in 0 .. MaxRounds
           /\ policy = NoPolicy => v.reserve = 0
           /\ policy # NoPolicy /\ v.pc = "claim" =>
                 /\ v.reserve = v.limit /\ v.reserve > 0
                 /\ WakesLeft(i, d) /\ Remaining(i, d) >= v.reserve
                 /\ ~AlreadyReserved(i, d)
<1> DEFINE d == Day(now)
           r == Remaining(i, d)
<1>1. MaxRounds \in Nat /\ MaxRounds > 0 /\ now \in 0 .. MaxTime
  BY BudgetAssumption DEF Typed, ClockOK
<1>2. d \in Days
  BY <1>1, DayRange
<1>3. policy # NoPolicy => r \in Int
  <2>1. policy # NoPolicy => policy.calls \in Nat
    BY BudgetAssumption DEF Typed, ClockOK
  <2> HIDE DEF d
  <2>2. UsedCalls(i, d) \in Nat /\ OwnCalls(i, d) \in Nat
    BY <1>2, UsedType
  <2> QED BY <2>1, <2>2 DEF Remaining
<1> HIDE DEF d, r
<1>4. CASE policy = NoPolicy
  BY <1>1, <1>4 DEF Verdict
<1>5. CASE policy # NoPolicy /\ AlreadyReserved(i, d)
  BY <1>1, <1>5 DEF Verdict, d
<1>6. CASE policy # NoPolicy /\ ~AlreadyReserved(i, d) /\ ~(WakesLeft(i, d) /\ Affordable(i, d))
  BY <1>1, <1>6 DEF Verdict, d
<1>7. CASE policy # NoPolicy /\ ~AlreadyReserved(i, d) /\ WakesLeft(i, d) /\ Affordable(i, d)
  <2>1. r >= 1
    BY <1>1, <1>3, <1>7 DEF Affordable, r
  <2>2. Min({MaxRounds, r}) = IF MaxRounds <= r THEN MaxRounds ELSE r
    BY <1>1, <1>3, <1>7, MinOfTwo
  <2>3. Verdict(i, now) = Granted(Min({MaxRounds, r}))
    BY <1>7 DEF Verdict, d, r
  <2>4. Min({MaxRounds, r}) \in 1 .. MaxRounds /\ Min({MaxRounds, r}) <= r
    BY <1>1, <1>3, <1>7, <2>1, <2>2
  <2> HIDE DEF Verdict
  <2> QED BY <2>3, <2>4, <1>1, <1>3, <1>7 DEF Granted, d, r
<1> QED BY <1>4, <1>5, <1>6, <1>7

-----------------------------------------------------------------------------
(* Types.                                                                  *)

LEMMA Bounds ==
    /\ MaxRounds \in Nat /\ MaxRounds > 0 /\ MaxAttempts \in Nat /\ PageSize \in Nat
    /\ MaxTime \in Nat /\ MaxReviews \in Nat /\ MaxMetered \in Nat
    /\ Day(MaxTime) \in Nat
    /\ \A s \in Shape : s.until \in 1 .. MaxTime /\ s.reviews \in 0 .. MaxReviews
                        /\ s.background \subseteq Background
BY BudgetAssumption, DayType

\* What a commit leaves of the others: their decisions are outdated.
Behind(v) ==
    /\ worker'[v].pc = worker[v].pc /\ worker'[v].id = worker[v].id /\ worker'[v].at = worker[v].at
    /\ worker'[v].limit = worker[v].limit /\ worker'[v].reserve = worker[v].reserve
    /\ worker'[v].bare = worker[v].bare /\ worker'[v].ran = worker[v].ran
    /\ ~worker'[v].fresh

LEMMA OutdatedType ==
    ASSUME worker \in [Worker -> WorkerRecord], NEW v \in Worker, NEW i,
           worker'[v] = Outdated(v, i)
    PROVE  worker'[v] \in WorkerRecord /\ Behind(v)
<1> DEFINE r == worker[v]
           b == worker[v].current /\ worker[v].id # i
<1>1. r \in WorkerRecord /\ b \in BOOLEAN
  OBVIOUS
<1>2. worker'[v] = [r EXCEPT !.fresh = FALSE, !.current = b]
  BY DEF Outdated
<1> HIDE DEF b
<1>3. [r EXCEPT !.fresh = FALSE, !.current = b] \in WorkerRecord
  BY <1>1 DEF WorkerRecord
<1>4. Behind(v)
  BY <1>1, <1>2 DEF WorkerRecord, Behind
<1> QED BY <1>2, <1>3, <1>4

LEMMA AfterType ==
    ASSUME worker \in [Worker -> WorkerRecord], NEW w \in Worker, NEW i, NEW n \in WorkerRecord,
           worker' = After(w, i, n)
    PROVE  /\ worker' \in [Worker -> WorkerRecord] /\ worker'[w] = n
           /\ \A v \in Worker \ {w} : Behind(v)
<1>1. worker' = [v \in Worker |-> IF v = w THEN n ELSE Outdated(v, i)]
  BY DEF After
<1>2. \A v \in Worker \ {w} : worker'[v] = Outdated(v, i)
  BY <1>1
<1>3. \A v \in Worker \ {w} : worker'[v] \in WorkerRecord /\ Behind(v)
  BY <1>2, OutdatedType
<1> QED BY <1>1, <1>3

LEMMA WorldMovesType ==
    ASSUME worker \in [Worker -> WorkerRecord], WorldMoves
    PROVE  worker' \in [Worker -> WorkerRecord] /\ \A v \in Worker : Behind(v)
<1>1. worker' = [v \in Worker |-> Outdated(v, 0)]
  BY DEF WorldMoves
<1>2. \A v \in Worker : worker'[v] = Outdated(v, 0)
  BY <1>1
<1>3. \A v \in Worker : worker'[v] \in WorkerRecord /\ Behind(v)
  BY <1>2, OutdatedType
<1> QED BY <1>1, <1>3

LEMMA NextType ==
    ASSUME Typed, NEW w \in Worker
    PROVE  /\ Idle \in WorkerRecord
           /\ worker[w] \in WorkerRecord
           /\ Running(w) \in WorkerRecord
           /\ Running(w) = [worker[w] EXCEPT !.pc = "run", !.fresh = FALSE, !.current = TRUE]
<1>1. worker[w] \in WorkerRecord
  BY DEF Typed, WorkersOK
<1>2. Idle \in WorkerRecord
  BY Bounds DEF Idle, WorkerRecord, Stages, Never
<1>3. ASSUME NEW r \in WorkerRecord
      PROVE  [r EXCEPT !.pc = "run", !.fresh = FALSE, !.current = TRUE] \in WorkerRecord
  BY DEF WorkerRecord, Stages
<1> QED BY <1>1, <1>2, <1>3 DEF Running

\* A worker that has taken up a wake.
LEMMA TakeType ==
    ASSUME Typed, NEW w, NEW i \in DOMAIN wake, NEW page
    PROVE  /\ Take(w, i, page) \in WorkerRecord
           /\ Take(w, i, page).pc \in {"claim", "hold", "deny"}
           /\ Take(w, i, page).id = i /\ Take(w, i, page).at = now /\ Take(w, i, page).ran = 0
           /\ Take(w, i, page).pc = Verdict(i, now).pc
           /\ Take(w, i, page).limit = Verdict(i, now).limit
           /\ Take(w, i, page).reserve = Verdict(i, now).reserve
           /\ Take(w, i, page).bare => policy = NoPolicy
<1> DEFINE v == Verdict(i, now)
           b == policy = NoPolicy /\ wake[i].started # Never
           c == queue \cap page
<1>1. v.pc \in {"claim", "hold", "deny"} /\ v.limit \in 0 .. MaxRounds /\ v.reserve \in 0 .. MaxRounds
  BY VerdictType
<1>2. i \in WakeId \cup {0} /\ now \in Never .. MaxTime /\ b \in BOOLEAN /\ c \in SUBSET Object
  BY Population, Bounds DEF Typed, ClockOK, RecordsOK, Never
<1>3. Idle \in WorkerRecord
  BY Bounds DEF Idle, WorkerRecord, Stages, Never
<1>4. Take(w, i, page) = [Idle EXCEPT !.pc = v.pc, !.id = i, !.at = now, !.limit = v.limit,
                                     !.reserve = v.reserve, !.bare = b, !.fresh = TRUE,
                                     !.current = TRUE, !.consume = c]
  BY DEF Take
<1>5. v.pc \in Stages
  BY <1>1 DEF Stages
<1>6. /\ Take(w, i, page).pc = v.pc /\ Take(w, i, page).id = i
      /\ Take(w, i, page).at = now /\ Take(w, i, page).ran = 0 /\ Take(w, i, page).limit = v.limit
      /\ Take(w, i, page).reserve = v.reserve /\ Take(w, i, page).bare = b
  <2> HIDE DEF v, b, c
  <2> QED BY <1>4 DEF Idle
<1>7. /\ Take(w, i, page) \in WorkerRecord /\ Take(w, i, page).pc = v.pc /\ Take(w, i, page).id = i
      /\ Take(w, i, page).at = now /\ Take(w, i, page).ran = 0 /\ Take(w, i, page).limit = v.limit
      /\ Take(w, i, page).reserve = v.reserve /\ Take(w, i, page).bare = b
  <2> HIDE DEF v, b, c
  <2>1. Take(w, i, page) \in WorkerRecord
    BY <1>1, <1>2, <1>3, <1>4, <1>5 DEF WorkerRecord
  <2> QED BY <2>1, <1>6
<1> HIDE DEF v
<1> QED BY <1>1, <1>7 DEF v

LEMMA TakesType ==
    ASSUME Typed, NEW w \in Worker, Takes(w)
    PROVE  Typed'
<1>1. PICK i \in DOMAIN wake :
         \/ worker' = [worker EXCEPT ![w] = [Idle EXCEPT !.pc = "deny", !.id = i, !.at = now]]
         \/ \E page : worker' = [worker EXCEPT ![w] = Take(w, i, page)]
  BY DEF Takes
<1>2. PICK t \in WorkerRecord :
         /\ worker' = [worker EXCEPT ![w] = t]
         /\ t.ran <= t.limit /\ t.id = i /\ t.at = now
  <2>1. now \in Never .. MaxTime /\ i \in WakeId \cup {0} /\ now \in Nat
    BY Bounds, Population DEF Typed, ClockOK, Never
  <2>2. Idle \in WorkerRecord
    BY NextType
  <2>3. CASE worker' = [worker EXCEPT ![w] = [Idle EXCEPT !.pc = "deny", !.id = i, !.at = now]]
    <3> DEFINE t == [Idle EXCEPT !.pc = "deny", !.id = i, !.at = now]
    <3>1. t \in WorkerRecord
      BY <2>1, <2>2 DEF WorkerRecord, Stages
    <3>2. t.ran <= t.limit /\ t.id = i /\ t.at = now
      BY DEF Idle
    <3> QED BY <2>3, <3>1, <3>2
  <2>4. ASSUME NEW page, worker' = [worker EXCEPT ![w] = Take(w, i, page)]
        PROVE  \E t \in WorkerRecord : /\ worker' = [worker EXCEPT ![w] = t]
                                       /\ t.ran <= t.limit /\ t.id = i /\ t.at = now
    <3>1. Take(w, i, page) \in WorkerRecord
      BY TakeType
    <3>2. Take(w, i, page).id = i /\ Take(w, i, page).at = now /\ Take(w, i, page).ran = 0
      BY TakeType
    <3>3. Take(w, i, page).limit \in 0 .. MaxRounds
      BY <3>1 DEF WorkerRecord
    <3>4. Take(w, i, page).ran <= Take(w, i, page).limit
      BY <3>2, <3>3, Bounds
    <3> QED BY <2>4, <3>1, <3>2, <3>4
  <2> QED BY <1>1, <2>3, <2>4
<1>3. UNCHANGED <<shape, now, policy, wake, review, meter, object, queue>>
  BY DEF Takes
<1>4. now \in 1 .. now
  BY Bounds DEF Typed, ClockOK
<1>5. worker' \in [Worker -> WorkerRecord]
  BY <1>2 DEF Typed, WorkersOK
<1>6. \A v \in Worker : WorkerOK(v)'
  BY <1>2, <1>3, <1>4 DEF Typed, WorkersOK, WorkerOK
<1> QED BY <1>3, <1>5, <1>6 DEF Typed, ClockOK, ReviewsOK, WakesOK, RecordsOK, WorkersOK

LEMMA LeavesType ==
    ASSUME Typed, NEW w \in Worker, Leaves(w)
    PROVE  Typed'
<1>1. UNCHANGED <<shape, now, policy, wake, review, meter, object>> /\ queue' \subseteq queue
  BY DEF Leaves
<1>2. worker' = [worker EXCEPT ![w] = Idle]
  BY DEF Leaves
<1>3. Idle \in WorkerRecord /\ Idle.ran <= Idle.limit /\ Idle.pc = "idle"
  <2>1. Idle \in WorkerRecord
    BY NextType
  <2>2. Idle.ran <= Idle.limit /\ Idle.pc = "idle"
    BY DEF Idle
  <2> QED BY <2>1, <2>2
<1>4. worker' \in [Worker -> WorkerRecord] /\ \A v \in Worker : WorkerOK(v)'
  BY <1>1, <1>2, <1>3 DEF Typed, WorkersOK, WorkerOK
<1> QED BY <1>1, <1>4 DEF Typed, ClockOK, ReviewsOK, WakesOK, RecordsOK, WorkersOK

LEMMA RunningFields ==
    ASSUME Typed, NEW w \in Worker
    PROVE  LET n == Running(w) IN
           /\ n.pc = "run" /\ n.id = worker[w].id /\ n.at = worker[w].at /\ n.limit = worker[w].limit
           /\ n.reserve = worker[w].reserve /\ n.bare = worker[w].bare /\ n.ran = worker[w].ran
           /\ n.fresh = FALSE
BY NextType DEF WorkerRecord, Running

LEMMA JoinsType ==
    ASSUME Typed, NEW w \in Worker, Joins(w)
    PROVE  Typed'
<1>1. UNCHANGED <<shape, now, policy, wake, review, meter, object, queue>>
  BY DEF Joins
<1>2. worker' = [worker EXCEPT ![w] = Running(w)] /\ worker[w].pc # "idle"
  BY DEF Joins
<1>3. Running(w) \in WorkerRecord
  BY NextType
<1>4. worker' \in [Worker -> WorkerRecord] /\ \A v \in Worker : WorkerOK(v)'
  BY <1>1, <1>2, <1>3, RunningFields DEF Typed, WorkersOK, WorkerOK
<1> QED BY <1>1, <1>4 DEF Typed, ClockOK, ReviewsOK, WakesOK, RecordsOK, WorkersOK

LEMMA RoundType ==
    ASSUME Typed, NEW w \in Worker, Round(w)
    PROVE  Typed'
<1> DEFINE i == worker[w].id
           d == Day(worker[w].at)
<1>1. /\ UNCHANGED <<shape, now, policy, wake, review, object, queue>>
      /\ worker[w].pc = "run" /\ worker[w].ran < worker[w].limit
      /\ meter[i][d] < MaxMetered
      /\ meter' = [meter EXCEPT ![i][d] = @ + 1]
      /\ worker' = [worker EXCEPT ![w].ran = @ + 1]
  BY DEF Round
<1>2. i \in WakeId /\ worker[w].at \in 1 .. now
  BY <1>1, Population DEF Typed, WorkersOK, WorkerOK
<1>3. d \in Days
  BY <1>2, Bounds, DayRange DEF Typed, ClockOK
<1>4. meter' \in [WakeId -> [Days -> 0 .. MaxMetered]]
  <2>1. meter \in [WakeId -> [Days -> 0 .. MaxMetered]]
    BY DEF Typed, RecordsOK
  <2> HIDE DEF i, d
  <2>2. meter[i] \in [Days -> 0 .. MaxMetered] /\ meter[i][d] \in 0 .. MaxMetered
    BY <1>2, <1>3, <2>1
  <2>3. meter[i][d] + 1 \in 0 .. MaxMetered
    BY <1>1, <2>2, Bounds
  <2> QED BY <1>1, <1>2, <1>3, <2>1, <2>3
<1>5. worker[w] \in WorkerRecord
  BY DEF Typed, WorkersOK
<1>6. worker[w].ran + 1 \in 0 .. MaxRounds /\ worker[w].ran + 1 <= worker[w].limit
  BY <1>1, <1>5, Bounds DEF WorkerRecord
<1>7. [worker[w] EXCEPT !.ran = worker[w].ran + 1] \in WorkerRecord
  BY <1>5, <1>6 DEF WorkerRecord
<1>8. worker' = [worker EXCEPT ![w] = [worker[w] EXCEPT !.ran = worker[w].ran + 1]]
  BY <1>1 DEF Typed, WorkersOK
<1>9. worker' \in [Worker -> WorkerRecord]
  BY <1>7, <1>8 DEF Typed, WorkersOK
<1>10. \A v \in Worker : WorkerOK(v)'
  <2> SUFFICES ASSUME NEW v \in Worker PROVE WorkerOK(v)'
    OBVIOUS
  <2>1. CASE v # w
    BY <1>1, <1>8, <2>1 DEF Typed, WorkersOK, WorkerOK
  <2>2. CASE v = w
    <3>1. worker'[w] = [worker[w] EXCEPT !.ran = worker[w].ran + 1]
      BY <1>8 DEF Typed, WorkersOK
    <3>2. /\ worker'[w].ran = worker[w].ran + 1 /\ worker'[w].limit = worker[w].limit
          /\ worker'[w].id = worker[w].id /\ worker'[w].at = worker[w].at
      BY <1>5, <3>1 DEF WorkerRecord
    <3> QED BY <1>1, <1>6, <2>2, <3>2 DEF Typed, WorkersOK, WorkerOK
  <2> QED BY <2>1, <2>2
<1> QED BY <1>1, <1>4, <1>9, <1>10 DEF Typed, ClockOK, ReviewsOK, WakesOK, RecordsOK, WorkersOK

\* A write leaves the pages of the reviews as they are.
SamePages ==
    /\ DOMAIN review' = DOMAIN review /\ Len(review') = Len(review)
    /\ \A k \in DOMAIN review :
          /\ review'[k].from = review[k].from /\ review'[k].to = review[k].to
          /\ review'[k].anchors = review[k].anchors /\ review'[k].more = review[k].more

LEMMA SetsPages ==
    ASSUME Typed, NEW w \in Worker, NEW x, NEW next, Sets(w, x, next)
    PROVE  review' \in Seq(ReviewRecord) /\ SamePages
<1> DEFINE i == worker[w].id
           h == worker[w].at
<1>1. review \in Seq(ReviewRecord)
  BY DEF Typed, ReviewsOK
<1>2. CASE review' = review
  BY <1>1, <1>2 DEF SamePages
<1>3. CASE IsReview(i) /\ review' = [review EXCEPT ![i].hit = h]
  <2>1. i \in DOMAIN wake
    BY DEF Sets, Typed, WorkersOK, WorkerOK
  <2>2. i \in DOMAIN review /\ DOMAIN review = 1 .. Len(review)
    BY <1>3, <2>1, Population DEF Typed, WakesOK
  <2>3. h \in Never .. MaxTime
    BY DEF Typed, WorkersOK, WorkerRecord
  <2>4. review[i] \in ReviewRecord
    BY <1>1, <2>2, ElementOfSeq
  <2> DEFINE r == [review[i] EXCEPT !.hit = h]
  <2>5. /\ r \in ReviewRecord /\ r.from = review[i].from /\ r.to = review[i].to
        /\ r.anchors = review[i].anchors /\ r.more = review[i].more
    BY <2>3, <2>4 DEF ReviewRecord
  <2>6. review' = [review EXCEPT ![i] = r]
    BY <1>3, <2>2
  <2> HIDE DEF r, i
  <2>7. review' \in Seq(ReviewRecord) /\ Len(review') = Len(review)
    BY <1>1, <2>2, <2>5, <2>6, ExceptSeq
  <2>8. DOMAIN review' = DOMAIN review
    BY <2>6
  <2>9. \A k \in DOMAIN review : review'[k] = IF k = i THEN r ELSE review[k]
    BY <2>6
  <2> QED BY <2>5, <2>7, <2>8, <2>9 DEF SamePages
<1> QED BY <1>2, <1>3 DEF Sets

LEMMA SetsType ==
    ASSUME Typed, NEW w \in Worker, NEW x \in LooseWake, NEW next \in WorkerRecord, Sets(w, x, next),
           next.ran <= next.limit,
           next.pc # "idle" => next.id = worker[w].id /\ next.at = worker[w].at
    PROVE  Typed' /\ \A v \in Worker \ {w} : Behind(v)
<1> DEFINE i == worker[w].id
<1>1. /\ UNCHANGED <<shape, now, policy, meter, object>> /\ queue' \subseteq queue
      /\ wake' = [wake EXCEPT ![i] = x] /\ worker' = After(w, i, next)
  BY DEF Sets, WriteWake
<1>2. i \in DOMAIN wake /\ worker[w].at \in 1 .. now
  BY DEF Sets, Typed, WorkersOK, WorkerOK
<1>3. review' \in Seq(ReviewRecord) /\ SamePages
  BY SetsPages
<1>4. ReviewsOK'
  BY <1>1, <1>3 DEF Typed, ReviewsOK, SamePages
<1>5. WakesOK'
  BY <1>1, <1>3 DEF Typed, WakesOK, SamePages
<1>6. /\ worker' \in [Worker -> WorkerRecord] /\ worker'[w] = next
      /\ \A v \in Worker \ {w} : Behind(v)
  <2>1. worker \in [Worker -> WorkerRecord]
    BY DEF Typed, WorkersOK
  <2> QED BY <1>1, <2>1, AfterType
<1>7. DOMAIN wake' = DOMAIN wake
  BY <1>1
<1>8. \A v \in Worker : WorkerOK(v)'
  <2> SUFFICES ASSUME NEW v \in Worker PROVE WorkerOK(v)'
    OBVIOUS
  <2>1. CASE v = w
    BY <1>1, <1>2, <1>6, <1>7, <2>1 DEF WorkerOK
  <2>2. CASE v # w
    <3>1. Behind(v) /\ WorkerOK(v)
      BY <1>6, <2>2 DEF Typed, WorkersOK
    <3> QED BY <1>1, <1>7, <3>1 DEF WorkerOK, Behind
  <2> QED BY <2>1, <2>2
<1> QED BY <1>1, <1>4, <1>5, <1>6, <1>8 DEF Typed, ClockOK, RecordsOK, WorkersOK

\* What each write leaves in the wake.
LEMMA WrittenFields ==
    ASSUME Typed, NEW i \in DOMAIN wake, NEW t \in Never .. MaxTime
    PROVE  /\ wake[i] \in LooseWake
           /\ [wake[i] EXCEPT !.state = "suppressed", !.ended = t] \in LooseWake
           /\ [wake[i] EXCEPT !.state = "completed", !.ended = t] \in LooseWake
           /\ [wake[i] EXCEPT !.state = "queued"] \in LooseWake
           /\ [wake[i] EXCEPT !.state = "queued", !.attempts = 1, !.tried = t] \in LooseWake
           /\ [wake[i] EXCEPT !.attempts = @ + 1, !.tried = t] \in LooseWake
<1>1. wake[i] \in LooseWake
  BY DEF Typed, WakesOK
<1>2. wake[i].attempts + 1 \in Nat
  BY <1>1 DEF LooseWake
<1> QED BY <1>1, <1>2 DEF LooseWake, Open

\* What a claim leaves in the wake.
LEMMA ClaimedFields ==
    ASSUME Typed, NEW w \in Worker, worker[w].pc # "idle", NEW t, StartOf(w, t)
    PROVE  LET i == worker[w].id
               x == Reserved([wake[i] EXCEPT !.state = "running", !.started = t], w) IN
           /\ x \in LooseWake
           /\ x.state = "running" /\ x.started = t /\ x.attempts = wake[i].attempts
           /\ IF worker[w].reserve = 0 THEN x.reserved = wake[i].reserved /\ x.day = wake[i].day
              ELSE x.reserved = worker[w].reserve /\ x.day = Day(worker[w].at)
<1> DEFINE i == worker[w].id
           r == [wake[i] EXCEPT !.state = "running", !.started = t]
           n == worker[w].reserve
           d == Day(worker[w].at)
<1>1. i \in DOMAIN wake /\ worker[w].at \in 1 .. now /\ n \in 0 .. MaxRounds
  BY DEF Typed, WorkersOK, WorkerOK, WorkerRecord
<1>2. wake[i] \in LooseWake
  BY <1>1 DEF Typed, WakesOK
<1>3. worker[w].at \in 0 .. MaxTime
  BY <1>1, Bounds DEF Typed, ClockOK
<1>4. t \in Never .. MaxTime
  BY <1>2, <1>3 DEF StartOf, LooseWake, Never
<1>5. d \in Never .. Day(MaxTime)
  BY <1>3, DayRange, Bounds DEF Days, Never
<1> HIDE DEF d, n, i
<1>6. /\ r \in LooseWake /\ r.state = "running" /\ r.started = t /\ r.attempts = wake[i].attempts
      /\ r.reserved = wake[i].reserved /\ r.day = wake[i].day
  BY <1>2, <1>4 DEF LooseWake, Open
<1> HIDE DEF r
<1>7. /\ [r EXCEPT !.reserved = n, !.day = d] \in LooseWake
      /\ [r EXCEPT !.reserved = n, !.day = d].state = "running"
      /\ [r EXCEPT !.reserved = n, !.day = d].started = t
      /\ [r EXCEPT !.reserved = n, !.day = d].attempts = wake[i].attempts
      /\ [r EXCEPT !.reserved = n, !.day = d].reserved = n
      /\ [r EXCEPT !.reserved = n, !.day = d].day = d
  BY <1>1, <1>5, <1>6 DEF LooseWake
<1>8. Reserved(r, w) = IF n = 0 THEN r ELSE [r EXCEPT !.reserved = n, !.day = d]
  BY DEF Reserved, n, d
<1>9. /\ Reserved(r, w) \in LooseWake
      /\ Reserved(r, w).state = "running" /\ Reserved(r, w).started = t
      /\ Reserved(r, w).attempts = wake[i].attempts
      /\ IF n = 0 THEN Reserved(r, w).reserved = wake[i].reserved /\ Reserved(r, w).day = wake[i].day
         ELSE Reserved(r, w).reserved = n /\ Reserved(r, w).day = d
  BY <1>6, <1>7, <1>8
<1> QED BY <1>9 DEF r, i, n, d

LEMMA WritesType ==
    ASSUME Typed, NEW w \in Worker, Writes(w)
    PROVE  Typed' /\ \A v \in Worker \ {w} : Behind(v)
<1> DEFINE i == worker[w].id
           t == worker[w].at
<1>1. worker[w].pc # "idle"
  BY DEF Writes, Suppresses, Defers, Claims, Completes, Requeues, EndsHalfDone
<1>2. i \in DOMAIN wake /\ t \in Never .. MaxTime
  BY <1>1 DEF Typed, WorkersOK, WorkerOK, WorkerRecord
<1>3. Idle \in WorkerRecord
  BY NextType
<1>4. Idle.pc = "idle" /\ Idle.ran <= Idle.limit
  BY DEF Idle
<1>5. ASSUME NEW x \in LooseWake, Sets(w, x, Idle)
      PROVE  Typed' /\ \A v \in Worker \ {w} : Behind(v)
  BY <1>3, <1>4, <1>5, SetsType
<1>6. CASE Claims(w)
  <2>1. PICK s : StartOf(w, s) /\ Sets(w, Reserved([wake[i] EXCEPT !.state = "running", !.started = s], w), Running(w))
    BY <1>6 DEF Claims
  <2>2. Reserved([wake[i] EXCEPT !.state = "running", !.started = s], w) \in LooseWake
    BY <1>1, <2>1, ClaimedFields
  <2>3. Running(w) \in WorkerRecord
    BY NextType
  <2>4. /\ Running(w).ran = worker[w].ran /\ Running(w).limit = worker[w].limit
        /\ Running(w).id = worker[w].id /\ Running(w).at = worker[w].at
    BY RunningFields
  <2>5. worker[w].ran <= worker[w].limit
    BY DEF Typed, WorkersOK, WorkerOK
  <2> QED BY <2>1, <2>2, <2>3, <2>4, <2>5, SetsType
<1>7. CASE Suppresses(w)
  <2>1. [wake[i] EXCEPT !.state = "suppressed", !.ended = t] \in LooseWake
    BY <1>2, WrittenFields
  <2> QED BY <1>5, <1>7, <2>1 DEF Suppresses
<1>8. CASE Defers(w)
  <2>1. [wake[i] EXCEPT !.state = "queued"] \in LooseWake
    BY <1>2, WrittenFields
  <2> QED BY <1>5, <1>8, <2>1 DEF Defers
<1>9. CASE Completes(w)
  <2>1. [wake[i] EXCEPT !.state = "completed", !.ended = t] \in LooseWake
    BY <1>2, WrittenFields
  <2> QED BY <1>5, <1>9, <2>1 DEF Completes
<1>10. CASE Requeues(w)
  <2>1. [wake[i] EXCEPT !.state = "queued", !.attempts = 1, !.tried = t] \in LooseWake
    BY <1>2, WrittenFields
  <2> QED BY <1>5, <1>10, <2>1 DEF Requeues
<1>11. CASE EndsHalfDone(w)
  <2>1. [wake[i] EXCEPT !.attempts = @ + 1, !.tried = t] \in LooseWake
    BY <1>2, WrittenFields
  <2> QED BY <1>5, <1>11, <2>1 DEF EndsHalfDone
<1> QED BY <1>6, <1>7, <1>8, <1>9, <1>10, <1>11 DEF Writes

\* A page fits, and one that left nothing out shows all that is eligible.
LEMMA PageType ==
    ASSUME Typed, NEW from, NEW to, NEW page \in Pages(from, to)
    PROVE  /\ page.anchors \subseteq Object \cup Background /\ Cardinality(page.anchors) <= PageSize
           /\ page.more \in BOOLEAN
           /\ ~page.more => Eligible(from, to) \subseteq page.anchors
<1>1. PICK candidates, outcomes, combined, asked, ordinary :
         /\ candidates \in Newest(Eligible(from, to), PageSize)
         /\ outcomes \in Newest(Outcomes(from, to), PageSize)
         /\ combined \in Newest(candidates \cup outcomes, PageSize)
         /\ asked \in Asked
         /\ ordinary \in Newest(combined \ asked, PageSize - Cardinality(asked))
         /\ page = [anchors |-> ordinary \cup asked,
                    more |-> candidates # Eligible(from, to) \/ asked # queue
                             \/ outcomes # Outcomes(from, to)
                             \/ combined # candidates \cup outcomes
                             \/ ordinary # combined \ asked]
  <2> DEFINE P(c, o, k, a, b) ==
                 [anchors |-> b \cup a,
                  more |-> c # Eligible(from, to) \/ a # queue \/ o # Outcomes(from, to)
                           \/ k # c \cup o \/ b # k \ a]
             P4(c, o, k, a) == {P(c, o, k, a, b) : b \in Newest(k \ a, PageSize - Cardinality(a))}
             P3(c, o, k) == UNION {P4(c, o, k, a) : a \in Asked}
             P2(c, o) == UNION {P3(c, o, k) : k \in Newest(c \cup o, PageSize)}
             P1(c) == UNION {P2(c, o) : o \in Newest(Outcomes(from, to), PageSize)}
  <2>1. Pages(from, to) = UNION {P1(c) : c \in Newest(Eligible(from, to), PageSize)}
    BY DEF Pages
  <2> HIDE DEF P1
  <2>2. PICK c \in Newest(Eligible(from, to), PageSize) : page \in P1(c)
    BY <2>1
  <2> HIDE DEF P2
  <2>3. PICK o \in Newest(Outcomes(from, to), PageSize) : page \in P2(c, o)
    BY <2>2 DEF P1
  <2> HIDE DEF P3
  <2>4. PICK k \in Newest(c \cup o, PageSize) : page \in P3(c, o, k)
    BY <2>3 DEF P2
  <2> HIDE DEF P4
  <2>5. PICK a \in Asked : page \in P4(c, o, k, a)
    BY <2>4 DEF P3
  <2> HIDE DEF P
  <2>6. PICK b \in Newest(k \ a, PageSize - Cardinality(a)) : page = P(c, o, k, a, b)
    BY <2>5 DEF P4
  <2> QED BY <2>2, <2>3, <2>4, <2>5, <2>6 DEF P
<1>2. /\ candidates \subseteq Eligible(from, to) /\ outcomes \subseteq Outcomes(from, to)
      /\ combined \subseteq candidates \cup outcomes /\ asked \subseteq queue
      /\ ordinary \subseteq combined \ asked
      /\ Cardinality(asked) = Min({PageSize, Cardinality(queue)})
      /\ Cardinality(ordinary) = Min({PageSize - Cardinality(asked), Cardinality(combined \ asked)})
  BY <1>1 DEF Newest, Asked
<1>3. /\ Eligible(from, to) \subseteq Object /\ Outcomes(from, to) \subseteq Background
      /\ queue \subseteq Object
  BY Bounds DEF Typed, ClockOK, RecordsOK, Eligible, Outcomes
<1>4. page.anchors \subseteq Object \cup Background
  BY <1>1, <1>2, <1>3
<1>5. IsFiniteSet(Object \cup Background)
  BY BudgetAssumption, FS_Union
<1>6. IsFiniteSet(queue) /\ IsFiniteSet(asked) /\ IsFiniteSet(combined \ asked) /\ IsFiniteSet(ordinary)
  <2>1. /\ queue \in SUBSET (Object \cup Background) /\ asked \in SUBSET (Object \cup Background)
        /\ combined \ asked \in SUBSET (Object \cup Background)
        /\ ordinary \in SUBSET (Object \cup Background)
    BY <1>2, <1>3
  <2> QED BY <2>1, <1>5, FS_Subset
<1>7. /\ Cardinality(queue) \in Nat /\ Cardinality(asked) \in Nat
      /\ Cardinality(combined \ asked) \in Nat /\ Cardinality(ordinary) \in Nat
  BY <1>6, FS_CardinalityType
<1>8. Cardinality(ordinary) <= PageSize - Cardinality(asked)
  <2>1. PageSize - Cardinality(asked) \in Int
    BY <1>7, Bounds
  <2> DEFINE a == PageSize - Cardinality(asked)
             b == Cardinality(combined \ asked)
  <2>2. Min({a, b}) = IF a <= b THEN a ELSE b
    <3> HIDE DEF a, b
    <3>1. a \in Int /\ b \in Int
      BY <1>7, <2>1 DEF a, b
    <3> QED BY <3>1, MinOfTwo
  <2> QED BY <1>2, <1>7, <2>1, <2>2
<1>9. Cardinality(ordinary \cup asked) <= PageSize
  <2>1. Cardinality(ordinary \cup asked) = Cardinality(ordinary) + Cardinality(asked) - Cardinality(ordinary \cap asked)
    BY <1>6, FS_Union
  <2>2. Cardinality(ordinary \cap asked) \in Nat
    BY <1>6, FS_Intersection, FS_CardinalityType
  <2> QED BY <1>7, <1>8, <2>1, <2>2, Bounds
<1>10. ~page.more => Eligible(from, to) \subseteq page.anchors
  BY <1>1, <1>2
<1> QED BY <1>1, <1>4, <1>9, <1>10

\* The window that is due.
LEMMA WindowType ==
    ASSUME Typed, NEW d \in DueWindow
    PROVE  d[1] \in 0 .. MaxTime /\ d[2] \in 0 .. MaxTime /\ d[1] <= d[2] /\ d[2] <= now
<1>1. now \in 1 .. MaxTime
  BY Bounds DEF Typed, ClockOK
<1>2. CASE Latest = 0
  BY <1>1, <1>2, Bounds DEF DueWindow
<1>3. CASE Latest # 0
  <2>1. Latest \in DOMAIN review
    BY <1>3, Population DEF Latest
  <2>2. review[Latest] \in ReviewRecord /\ review[Latest].from <= review[Latest].to /\ review[Latest].to <= now
    BY <2>1, Population, ElementOfSeq DEF Typed, ReviewsOK
  <2>3. d = <<review[Latest].from, review[Latest].to>> \/ d = <<review[Latest].to, now>>
    BY <1>3 DEF DueWindow
  <2> QED BY <1>1, <2>2, <2>3, Bounds DEF ReviewRecord
<1> QED BY <1>2, <1>3

\* What scheduling a review changes.
Schedules(w, d, page, state) ==
    LET n == Latest + 1 IN
    /\ worker[w].pc = "idle"
    /\ n \in 1 .. MaxReviews /\ n \notin DOMAIN wake /\ n <= shape.reviews
    /\ Latest > 0 => Closed(Latest)
    /\ d \in DueWindow /\ page \in Pages(d[1], d[2])
    /\ state = IF page.anchors = {} THEN "suppressed" ELSE "new"
    /\ Mark(page, d, state, w)
    /\ UNCHANGED <<shape, now, policy, meter, object, queue>>

LEMMA ScheduledSteps ==
    ASSUME Typed, NEW w \in Worker, ReviewIsScheduled(w)
    PROVE  \E d, page, state : Schedules(w, d, page, state)
<1>1. PICK d \in DueWindow : \E page \in Pages(d[1], d[2]) : PageIsMarked(page, d, w)
  BY DEF ReviewIsScheduled
<1>2. PICK page \in Pages(d[1], d[2]) : PageIsMarked(page, d, w)
  BY <1>1
<1> DEFINE state == IF page.anchors = {} THEN "suppressed" ELSE "new"
           n == Latest + 1
<1>3. /\ worker[w].pc = "idle" /\ Latest < shape.reviews /\ (Latest > 0 => Closed(Latest))
      /\ UNCHANGED <<shape, now, policy, meter, object, queue>>
  BY DEF ReviewIsScheduled
<1>4. Latest \in Nat /\ shape.reviews \in 0 .. MaxReviews
  BY Population, Bounds DEF Latest, Typed, ClockOK
<1>5. n \in 1 .. MaxReviews /\ n <= shape.reviews
  BY <1>3, <1>4, Bounds
<1>6. n \notin DOMAIN wake
  <2>1. n \notin DOMAIN review
    BY Population, <1>4 DEF Latest
  <2>2. n \notin shape.background
    BY Population, <1>5 DEF IsReview
  <2> QED BY <2>1, <2>2 DEF Typed, WakesOK
<1>7. Mark(page, d, state, w)
  BY <1>2 DEF PageIsMarked
<1>8. Schedules(w, d, page, state)
  <2> HIDE DEF state
  <2>1. state = IF page.anchors = {} THEN "suppressed" ELSE "new"
    BY DEF state
  <2> QED BY <1>1, <1>2, <1>3, <1>5, <1>6, <1>7, <2>1 DEF Schedules
<1> QED BY <1>8

\* The reviews after one is scheduled.
LEMMA ScheduledPages ==
    ASSUME Typed, NEW w \in Worker, NEW d, NEW page, NEW state, Schedules(w, d, page, state)
    PROVE  LET n == Latest + 1 IN
           /\ review' \in Seq(ReviewRecord) /\ Len(review') = n
           /\ DOMAIN review' = 1 .. n /\ DOMAIN review' = DOMAIN review \cup {n}
           /\ \A k \in DOMAIN review : review'[k] = review[k] /\ k # n
           /\ review'[n].from = d[1] /\ review'[n].to = d[2]
           /\ review'[n].anchors = page.anchors /\ review'[n].more = page.more
<1> DEFINE n == Latest + 1
           r == [from |-> d[1], to |-> d[2], anchors |-> page.anchors, more |-> page.more, hit |-> now]
<1>1. d \in DueWindow /\ page \in Pages(d[1], d[2]) /\ review' = Append(review, r)
  BY DEF Schedules, Mark
<1>2. r \in ReviewRecord
  <2>1. d[1] \in 0 .. MaxTime /\ d[2] \in 0 .. MaxTime
    BY <1>1, WindowType
  <2>2. page.anchors \in SUBSET (Object \cup Background) /\ page.more \in BOOLEAN
    BY <1>1, PageType
  <2>3. now \in Never .. MaxTime
    BY Bounds DEF Typed, ClockOK, Never
  <2> QED BY <2>1, <2>2, <2>3 DEF ReviewRecord
<1>3. review \in Seq(ReviewRecord) /\ Latest = Len(review) /\ Latest \in Nat
  BY Population DEF Typed, ReviewsOK, Latest
<1>4. r.from = d[1] /\ r.to = d[2] /\ r.anchors = page.anchors /\ r.more = page.more
  OBVIOUS
<1> HIDE DEF r
<1>5. /\ review' \in Seq(ReviewRecord) /\ Len(review') = n
      /\ \A k \in 1 .. Len(review) : review'[k] = review[k]
      /\ review'[n] = r
  BY <1>1, <1>2, <1>3, AppendProperties
<1>6. DOMAIN review' = 1 .. n
  BY <1>5
<1>7. DOMAIN review = 1 .. Latest
  BY <1>3
<1>8. 1 .. n = 1 .. Latest \cup {n} /\ n \notin 1 .. Latest
  BY <1>3
<1> QED BY <1>3, <1>4, <1>5, <1>6, <1>7, <1>8

LEMMA ScheduledType ==
    ASSUME Typed, NEW w \in Worker, NEW d, NEW page, NEW state, Schedules(w, d, page, state)
    PROVE  Typed' /\ \A v \in Worker \ {w} : Behind(v)
<1> DEFINE n == Latest + 1
           x == [NewWake EXCEPT !.state = state]
<1>1. /\ UNCHANGED <<shape, now, policy, meter, object, queue>>
      /\ wake' = [i \in DOMAIN wake \cup {n} |-> IF i = n THEN x ELSE wake[i]]
      /\ worker' = After(w, n, Idle)
      /\ d \in DueWindow /\ page \in Pages(d[1], d[2]) /\ n <= shape.reviews
      /\ state \in {"new", "suppressed"}
  BY DEF Schedules, Mark
<1>2. /\ review' \in Seq(ReviewRecord) /\ Len(review') = n
      /\ DOMAIN review' = DOMAIN review \cup {n}
      /\ \A k \in DOMAIN review : review'[k] = review[k]
      /\ review'[n].from = d[1] /\ review'[n].to = d[2] /\ review'[n].anchors = page.anchors
  BY ScheduledPages
<1>3. ReviewsOK'
  <2>1. d[1] <= d[2] /\ d[2] <= now
    BY <1>1, WindowType
  <2>2. Cardinality(page.anchors) <= PageSize
    BY <1>1, PageType
  <2>3. \A k \in DOMAIN review' :
           /\ Cardinality(review'[k].anchors) <= PageSize
           /\ review'[k].from <= review'[k].to /\ review'[k].to <= now
    BY <1>2, <2>1, <2>2 DEF Typed, ReviewsOK
  <2> QED BY <1>1, <1>2, <2>3 DEF ReviewsOK
<1>4. x \in LooseWake
  BY <1>1, Bounds DEF NewWake, LooseWake, Never, Open
<1>5. WakesOK'
  <2>1. DOMAIN wake = shape.background \cup DOMAIN review /\ \A i \in DOMAIN wake : wake[i] \in LooseWake
    BY DEF Typed, WakesOK
  <2> HIDE DEF x, n
  <2> QED BY <1>1, <1>2, <1>4, <2>1 DEF WakesOK
<1>6. /\ worker' \in [Worker -> WorkerRecord] /\ worker'[w] = Idle
      /\ \A v \in Worker \ {w} : Behind(v)
  <2>1. worker \in [Worker -> WorkerRecord] /\ Idle \in WorkerRecord
    BY NextType DEF Typed, WorkersOK
  <2> QED BY <1>1, <2>1, AfterType
<1>7. Idle.pc = "idle" /\ Idle.ran <= Idle.limit
  BY DEF Idle
<1>8. \A v \in Worker : WorkerOK(v)'
  <2>1. DOMAIN wake \subseteq DOMAIN wake'
    BY <1>1
  <2> QED BY <1>1, <1>6, <1>7, <2>1 DEF Typed, WorkersOK, WorkerOK, Behind
<1> QED BY <1>1, <1>3, <1>5, <1>6, <1>8 DEF Typed, ClockOK, RecordsOK, WorkersOK

LEMMA TurnsType ==
    ASSUME Typed, Turns
    PROVE  Typed'
<1>1. now \in 1 .. shape.until /\ shape.until \in 1 .. MaxTime /\ shape.object \subseteq Object
  BY BudgetAssumption DEF Typed, ClockOK
<1>2. /\ UNCHANGED <<shape, wake, review, meter>> /\ now' \in {now, now + 1} /\ now' <= shape.until
      /\ (policy' = policy \/ policy' \in Policy) /\ queue' \subseteq queue \cup Object
      /\ worker' = worker \/ WorldMoves
  BY DEF Turns
<1>3. ClockOK'
  BY <1>1, <1>2 DEF Typed, ClockOK
<1>4. ReviewsOK'
  <2>1. \A k \in DOMAIN review : review[k].to \in Nat
    <3>1. \A k \in DOMAIN review : review[k] \in ReviewRecord
      BY Population, ElementOfSeq DEF Typed, ReviewsOK
    <3> QED BY <3>1 DEF ReviewRecord
  <2> QED BY <1>1, <1>2, <2>1 DEF Typed, ReviewsOK
<1>5. RecordsOK'
  <2>1. CASE object' = object
    BY <1>1, <1>2, <2>1 DEF Typed, RecordsOK
  <2>2. CASE object' # object
    <3>1. PICK o \in Object, t \in 1 .. now :
             now' = now /\ object' = [object EXCEPT ![o] = [at |-> t, late |-> t <= Cursor]]
      BY <1>1, <2>2 DEF Turns
    <3>2. [at |-> t, late |-> t <= Cursor] \in [at : Never .. MaxTime, late : BOOLEAN]
      BY <1>1, Bounds DEF Never
    <3> QED BY <1>2, <3>1, <3>2 DEF Typed, RecordsOK
  <2> QED BY <2>1, <2>2
<1>6. WorkersOK'
  <2>1. CASE worker' = worker
    BY <1>1, <1>2, <2>1 DEF Typed, WorkersOK, WorkerOK
  <2>2. CASE WorldMoves
    <3>1. worker' \in [Worker -> WorkerRecord] /\ \A v \in Worker : Behind(v)
      BY <2>2, WorldMovesType DEF Typed, WorkersOK
    <3> QED BY <1>1, <1>2, <3>1 DEF Typed, WorkersOK, WorkerOK, Behind
  <2> QED BY <1>2, <2>1, <2>2
<1> QED BY <1>2, <1>3, <1>4, <1>5, <1>6 DEF Typed, WakesOK

LEMMA TypedStep ==
    ASSUME Typed, [BudgetNext]_budgetVars
    PROVE  Typed'
<1>1. CASE UNCHANGED budgetVars
  BY <1>1 DEF budgetVars, Typed, ClockOK, ReviewsOK, WakesOK, RecordsOK, WorkersOK, WorkerOK
<1>2. CASE BudgetNext
  <2>1. ASSUME NEW w \in Worker, ReviewIsScheduled(w) PROVE Typed'
    BY <2>1, ScheduledSteps, ScheduledType
  <2> QED BY <1>2, <2>1, Steps, TakesType, LeavesType, JoinsType, WritesType, RoundType, TurnsType
<1> QED BY <1>1, <1>2

LEMMA TypedInit ==
    ASSUME BudgetInit
    PROVE  Typed
<1>1. shape \in Shape /\ shape.until \in 1 .. MaxTime /\ now = 1
  BY Bounds DEF BudgetInit
<1>2. ClockOK
  BY <1>1 DEF BudgetInit, ClockOK
<1>3. review = <<>> /\ review \in Seq(ReviewRecord) /\ Len(review) = 0 /\ DOMAIN review = {}
  BY DEF BudgetInit
<1>4. ReviewsOK
  BY <1>1, <1>3, Bounds DEF ReviewsOK
<1>5. NewWake \in LooseWake
  BY Bounds DEF NewWake, LooseWake, Never, Open
<1>6. WakesOK
  BY <1>3, <1>5 DEF BudgetInit, WakesOK
<1>7. RecordsOK
  BY Bounds DEF BudgetInit, RecordsOK, Never
<1>8. Idle \in WorkerRecord
  BY Bounds DEF Idle, WorkerRecord, Stages, Never
<1>9. Idle.pc = "idle" /\ Idle.ran <= Idle.limit
  BY DEF Idle
<1>10. WorkersOK
  BY <1>8, <1>9 DEF BudgetInit, WorkersOK, WorkerOK
<1> QED BY <1>2, <1>4, <1>6, <1>7, <1>10 DEF Typed

-----------------------------------------------------------------------------
(* The attempts of a wake: each call under way may add one.                *)

LEMMA Attempters ==
    ASSUME NEW i
    PROVE  /\ IsFiniteSet(Worker) /\ Cardinality(Worker) \in Nat
           /\ IsFiniteSet(Attempting(i)) /\ Cardinality(Attempting(i)) \in Nat
           /\ Cardinality(Attempting(i)) <= Cardinality(Worker)
<1>1. IsFiniteSet(Worker)
  BY BudgetAssumption
<1>2. Attempting(i) \in SUBSET Worker
  BY DEF Attempting
<1> QED BY <1>1, <1>2, FS_Subset, FS_CardinalityType

LEMMA AttemptersNext ==
    ASSUME NEW i
    PROVE  /\ IsFiniteSet(Attempting(i)') /\ Cardinality(Attempting(i)') \in Nat
           /\ Cardinality(Attempting(i)') <= Cardinality(Worker)
<1>1. IsFiniteSet(Worker)
  BY BudgetAssumption
<1>2. Attempting(i)' \in SUBSET Worker
  BY DEF Attempting
<1> QED BY <1>1, <1>2, FS_Subset, FS_CardinalityType

\* The bound of a single wake.
AttemptsOf(i) ==
    /\ wake[i].attempts + Cardinality(Attempting(i)) <= MaxAttempts + Cardinality(Worker)
    /\ ~IsReview(i) => wake[i].attempts <= 1

\* The bound holds of a wake that was tried no more than the limit, and of one that was
\* not tried again, by no more than are at it already.
LEMMA FewAttempts ==
    ASSUME NEW i, wake'[i].attempts \in Nat, wake'[i].attempts <= MaxAttempts,
           ~IsReview(i) => wake'[i].attempts <= 1
    PROVE  AttemptsOf(i)'
BY AttemptersNext, Attempters, Bounds DEF AttemptsOf

LEMMA NoMoreAttempts ==
    ASSUME NEW i, wake[i].attempts \in Nat, AttemptsOf(i), wake'[i].attempts = wake[i].attempts,
           Attempting(i)' \subseteq Attempting(i)
    PROVE  AttemptsOf(i)'
<1>1. Cardinality(Attempting(i)') <= Cardinality(Attempting(i))
  BY Attempters, FS_Subset
<1> QED BY <1>1, AttemptersNext, Attempters, Bounds DEF AttemptsOf

LEMMA WriteAttempts ==
    ASSUME Typed, AttemptsBounded, NEW w \in Worker, Writes(w)
    PROVE  \A i \in DOMAIN wake : AttemptsOf(i)'
<1>0. PICK i : i = worker[w].id
  OBVIOUS
<1>1. i \in DOMAIN wake /\ wake[i] \in LooseWake /\ wake[i].attempts \in Nat
  <2>1. worker[w].pc # "idle"
    BY DEF Writes, Suppresses, Defers, Claims, Completes, Requeues, EndsHalfDone
  <2>2. i \in DOMAIN wake
    BY <1>0, <2>1 DEF Typed, WorkersOK, WorkerOK
  <2>3. wake[i] \in LooseWake
    BY <2>2 DEF Typed, WakesOK
  <2> QED BY <2>2, <2>3 DEF LooseWake
<1>2. \A v \in Worker \ {w} : worker'[v].id = worker[v].id /\ worker'[v].pc = worker[v].pc
  BY WritesType DEF Behind
<1>3. \A j \in DOMAIN wake : AttemptsOf(j) /\ wake[j].attempts \in Nat
  BY DEF AttemptsBounded, AttemptsOf, Typed, WakesOK, LooseWake
<1>4. ASSUME NEW x, NEW next, Sets(w, x, next), next = Idle \/ next = Running(w),
             worker[w].pc \in {"claim", "run"} \/ next = Idle
      PROVE  /\ \A j \in DOMAIN wake : Attempting(j)' \subseteq Attempting(j)
             /\ next = Idle => w \notin Attempting(i)'
             /\ wake'[i] = x
             /\ \A j \in DOMAIN wake \ {i} : wake'[j] = wake[j]
  <2>1. worker'[w] = next /\ wake' = [wake EXCEPT ![i] = x]
    BY <1>0, <1>4 DEF Sets, WriteWake, After
  <2>2. Idle.pc = "idle" /\ Running(w).id = worker[w].id
    BY RunningFields DEF Idle
  <2>3. \A j \in DOMAIN wake : Attempting(j)' \subseteq Attempting(j)
    <3> SUFFICES ASSUME NEW j \in DOMAIN wake, NEW v \in Attempting(j)' PROVE v \in Attempting(j)
      OBVIOUS
    <3>1. v \in Worker /\ worker'[v].id = j /\ worker'[v].pc \in {"claim", "run"}
      BY DEF Attempting
    <3>2. CASE v # w
      BY <1>2, <3>1, <3>2 DEF Attempting
    <3>3. CASE v = w
      BY <1>0, <1>4, <2>1, <2>2, <3>1, <3>3 DEF Attempting
    <3> QED BY <3>2, <3>3
  <2>4. next = Idle => w \notin Attempting(i)'
    BY <2>1, <2>2 DEF Attempting
  <2> QED BY <1>1, <2>1, <2>3, <2>4
<1>5. ASSUME NEW x, NEW next, Sets(w, x, next), next = Idle \/ next = Running(w),
             worker[w].pc \in {"claim", "run"} \/ next = Idle, x.attempts = wake[i].attempts
      PROVE  \A j \in DOMAIN wake : AttemptsOf(j)'
  <2>1. \A j \in DOMAIN wake : wake'[j].attempts = wake[j].attempts
    BY <1>1, <1>4, <1>5
  <2> QED BY <1>3, <1>4, <1>5, <2>1, NoMoreAttempts
<1>6. CASE Suppresses(w)
  <2>1. Sets(w, [wake[i] EXCEPT !.state = "suppressed", !.ended = worker[w].at], Idle)
    BY <1>0, <1>6 DEF Suppresses
  <2>2. [wake[i] EXCEPT !.state = "suppressed", !.ended = worker[w].at].attempts = wake[i].attempts
    BY <1>1 DEF LooseWake
  <2> QED BY <1>5, <2>1, <2>2
<1>7. CASE Defers(w)
  <2>1. Sets(w, [wake[i] EXCEPT !.state = "queued"], Idle)
    BY <1>0, <1>7 DEF Defers
  <2>2. [wake[i] EXCEPT !.state = "queued"].attempts = wake[i].attempts
    BY <1>1 DEF LooseWake
  <2> QED BY <1>5, <2>1, <2>2
<1>8. CASE Claims(w)
  <2>1. PICK t : StartOf(w, t) /\ Sets(w, Reserved([wake[i] EXCEPT !.state = "running", !.started = t], w), Running(w))
    BY <1>0, <1>8 DEF Claims
  <2>2. worker[w].pc = "claim"
    BY <1>0, <1>8 DEF Claims
  <2>3. Reserved([wake[i] EXCEPT !.state = "running", !.started = t], w).attempts = wake[i].attempts
    BY <1>0, <2>1, <2>2, ClaimedFields
  <2> QED BY <1>5, <2>1, <2>2, <2>3
<1>9. CASE Completes(w)
  <2>1. Sets(w, [wake[i] EXCEPT !.state = "completed", !.ended = worker[w].at], Idle)
    BY <1>0, <1>9 DEF Completes
  <2>2. [wake[i] EXCEPT !.state = "completed", !.ended = worker[w].at].attempts = wake[i].attempts
    BY <1>1 DEF LooseWake
  <2> QED BY <1>5, <2>1, <2>2
<1>10. CASE Requeues(w)
  <2> DEFINE x == [wake[i] EXCEPT !.state = "queued", !.attempts = 1, !.tried = worker[w].at]
  <2>1. Sets(w, x, Idle) /\ ~IsReview(i)
    BY <1>0, <1>10 DEF Requeues
  <2>2. x.attempts = 1
    BY <1>1 DEF LooseWake
  <2> HIDE DEF x
  <2>3. AttemptsOf(i)'
    <3>1. wake'[i].attempts = 1 /\ MaxAttempts >= 1
      BY <1>4, <2>1, <2>2, BudgetAssumption
    <3> QED BY <3>1, <2>1, Bounds, FewAttempts
  <2>4. \A j \in DOMAIN wake \ {i} : AttemptsOf(j)'
    BY <1>3, <1>4, <2>1, NoMoreAttempts
  <2> QED BY <2>3, <2>4
<1>11. CASE EndsHalfDone(w)
  <2> DEFINE x == [wake[i] EXCEPT !.attempts = @ + 1, !.tried = worker[w].at]
  <2>1. Sets(w, x, Idle) /\ IsReview(i) /\ worker[w].pc = "run"
    BY <1>0, <1>11 DEF EndsHalfDone
  <2>2. x.attempts = wake[i].attempts + 1
    BY <1>1 DEF LooseWake
  <2> HIDE DEF x
  <2>3. /\ Attempting(i)' \subseteq Attempting(i) /\ w \notin Attempting(i)'
        /\ wake'[i].attempts = wake[i].attempts + 1
    BY <1>1, <1>4, <2>1, <2>2
  <2>4. w \in Attempting(i)
    BY <1>0, <2>1 DEF Attempting
  <2>5. Cardinality(Attempting(i)') + 1 <= Cardinality(Attempting(i))
    <3>1. Attempting(i)' \cup {w} \in SUBSET Attempting(i)
      BY <2>3, <2>4
    <3>2. Cardinality(Attempting(i)' \cup {w}) <= Cardinality(Attempting(i))
      BY <3>1, Attempters, FS_Subset
    <3>3. Cardinality(Attempting(i)' \cup {w}) = Cardinality(Attempting(i)') + 1
      BY <2>3, AttemptersNext, FS_AddElement
    <3> QED BY <3>2, <3>3
  <2>6. AttemptsOf(i)'
    <3> QED BY <1>1, <1>3, <2>1, <2>3, <2>5, Attempters, AttemptersNext, Bounds DEF AttemptsOf
  <2>7. \A j \in DOMAIN wake \ {i} : AttemptsOf(j)'
    BY <1>3, <1>4, <2>1, NoMoreAttempts
  <2> QED BY <2>6, <2>7
<1> QED BY <1>6, <1>7, <1>8, <1>9, <1>10, <1>11 DEF Writes

LEMMA AttemptsStep ==
    ASSUME Typed, AttemptsBounded, [BudgetNext]_budgetVars
    PROVE  AttemptsBounded'
<1>1. \A j \in DOMAIN wake : AttemptsOf(j) /\ wake[j].attempts \in Nat
  BY DEF AttemptsBounded, AttemptsOf, Typed, WakesOK, LooseWake
<1>2. SUFFICES \A j \in DOMAIN wake' : AttemptsOf(j)'
  BY DEF AttemptsBounded, AttemptsOf
<1>3. ASSUME wake' = wake, \A j \in DOMAIN wake : Attempting(j)' \subseteq Attempting(j)
      PROVE  \A j \in DOMAIN wake' : AttemptsOf(j)'
  BY <1>1, <1>3, NoMoreAttempts
<1>4. CASE UNCHANGED budgetVars
  <2>1. \A j : Attempting(j)' = Attempting(j)
    BY <1>4 DEF budgetVars, Attempting
  <2> QED BY <1>3, <1>4, <2>1 DEF budgetVars
<1>5. ASSUME NEW w \in Worker, Takes(w)
      PROVE  \A j \in DOMAIN wake' : AttemptsOf(j)'
  <2>1. wake' = wake
    BY <1>5 DEF Takes
  <2>2. PICK i \in DOMAIN wake :
           \/ worker' = [worker EXCEPT ![w] = [Idle EXCEPT !.pc = "deny", !.id = i, !.at = now]]
           \/ /\ IsReview(i) => ~Exhausted(i)
              /\ \E page : worker' = [worker EXCEPT ![w] = Take(w, i, page)]
    BY <1>5 DEF Takes
  <2>3. worker'[w].id = i /\ \A v \in Worker \ {w} : worker'[v] = worker[v]
    <3>1. \A page : Take(w, i, page).id = i
      BY TakeType
    <3> QED BY <2>2, <3>1 DEF Typed, WorkersOK, Idle
  <2>4. \A j \in DOMAIN wake \ {i} : Attempting(j)' \subseteq Attempting(j)
    BY <2>3 DEF Attempting
  <2>5. \A j \in DOMAIN wake \ {i} : AttemptsOf(j)'
    BY <1>1, <2>1, <2>4, NoMoreAttempts
  <2>6. AttemptsOf(i)'
    <3>1. CASE worker' = [worker EXCEPT ![w] = [Idle EXCEPT !.pc = "deny", !.id = i, !.at = now]]
      <4>1. worker'[w].pc = "deny"
        BY <3>1 DEF Typed, WorkersOK, Idle
      <4>2. Attempting(i)' \subseteq Attempting(i)
        BY <2>3, <4>1 DEF Attempting
      <4> QED BY <1>1, <2>1, <4>2, NoMoreAttempts
    <3>2. CASE IsReview(i) => ~Exhausted(i)
      <4>1. wake'[i].attempts \in Nat /\ wake'[i].attempts <= MaxAttempts
            /\ (~IsReview(i) => wake'[i].attempts <= 1)
        BY <1>1, <2>1, <3>2, BudgetAssumption DEF Exhausted, AttemptsOf
      <4> QED BY <4>1, FewAttempts
    <3> QED BY <2>2, <3>1, <3>2
  <2> QED BY <2>1, <2>5, <2>6
<1>6. ASSUME NEW w \in Worker, Leaves(w)
      PROVE  \A j \in DOMAIN wake' : AttemptsOf(j)'
  <2>1. worker' = [worker EXCEPT ![w] = Idle] /\ wake' = wake
    BY <1>6 DEF Leaves
  <2>2. Idle.pc = "idle"
    BY DEF Idle
  <2>3. \A j : Attempting(j)' \subseteq Attempting(j)
    BY <2>1, <2>2 DEF Attempting, Typed, WorkersOK
  <2> QED BY <1>3, <2>1, <2>3
<1>7. ASSUME NEW w \in Worker, Joins(w)
      PROVE  \A j \in DOMAIN wake' : AttemptsOf(j)'
  <2>1. worker' = [worker EXCEPT ![w] = Running(w)] /\ wake' = wake /\ worker[w].pc = "claim"
    BY <1>7 DEF Joins
  <2>2. Running(w).id = worker[w].id
    BY RunningFields
  <2>3. \A j : Attempting(j)' \subseteq Attempting(j)
    BY <2>1, <2>2 DEF Attempting, Typed, WorkersOK
  <2> QED BY <1>3, <2>1, <2>3
<1>8. ASSUME NEW w \in Worker, Round(w)
      PROVE  \A j \in DOMAIN wake' : AttemptsOf(j)'
  <2>1. worker' = [worker EXCEPT ![w].ran = @ + 1] /\ wake' = wake
    BY <1>8 DEF Round
  <2>2. worker[w] \in WorkerRecord
    BY DEF Typed, WorkersOK
  <2>3. \A v \in Worker : worker'[v].id = worker[v].id /\ worker'[v].pc = worker[v].pc
    BY <2>1, <2>2 DEF WorkerRecord, Typed, WorkersOK
  <2>4. \A j : Attempting(j)' \subseteq Attempting(j)
    BY <2>3 DEF Attempting
  <2> QED BY <1>3, <2>1, <2>4
<1>9. ASSUME NEW w \in Worker, Writes(w)
      PROVE  \A j \in DOMAIN wake' : AttemptsOf(j)'
  <2>1. DOMAIN wake' = DOMAIN wake
    BY <1>9 DEF Writes, Suppresses, Defers, Claims, Completes, Requeues, EndsHalfDone, Sets, WriteWake
  <2> QED BY <1>9, <2>1, WriteAttempts
<1>10. ASSUME NEW w \in Worker, NEW d, NEW page, NEW state, Schedules(w, d, page, state)
       PROVE  \A j \in DOMAIN wake' : AttemptsOf(j)'
  <2>0. PICK n : n = Latest + 1
    OBVIOUS
  <2>1. /\ wake' = [i \in DOMAIN wake \cup {n} |->
                      IF i = n THEN [NewWake EXCEPT !.state = state] ELSE wake[i]]
        /\ worker' = After(w, n, Idle) /\ n \notin DOMAIN wake
    BY <1>10, <2>0 DEF Schedules, Mark
  <2>2. Idle.pc = "idle" /\ [NewWake EXCEPT !.state = state].attempts = 0
    BY DEF Idle, NewWake
  <2>3. /\ worker'[w] = Idle
        /\ \A v \in Worker \ {w} : worker'[v].id = worker[v].id /\ worker'[v].pc = worker[v].pc
    BY <1>10, <2>1, ScheduledType DEF After, Behind
  <2>4. \A j : Attempting(j)' \subseteq Attempting(j)
    BY <2>2, <2>3 DEF Attempting
  <2>5. \A j \in DOMAIN wake : AttemptsOf(j)'
    <3>1. \A j \in DOMAIN wake : wake'[j].attempts = wake[j].attempts
      BY <2>1
    <3> QED BY <1>1, <2>4, <3>1, NoMoreAttempts
  <2>6. AttemptsOf(n)'
    <3>1. wake'[n].attempts = 0
      BY <2>1, <2>2
    <3> QED BY <3>1, Bounds, FewAttempts
  <2> QED BY <2>1, <2>5, <2>6
<1>11. CASE Turns
  <2>1. wake' = wake /\ (worker' = worker \/ WorldMoves)
    BY <1>11 DEF Turns
  <2>2. \A v \in Worker : worker'[v].id = worker[v].id /\ worker'[v].pc = worker[v].pc
    BY <2>1, WorldMovesType DEF Behind, Typed, WorkersOK
  <2>3. \A j : Attempting(j)' \subseteq Attempting(j)
    BY <2>2 DEF Attempting
  <2> QED BY <1>3, <2>1, <2>3
<1>12. ASSUME NEW w \in Worker, ReviewIsScheduled(w)
       PROVE  \A j \in DOMAIN wake' : AttemptsOf(j)'
  BY <1>10, <1>12, ScheduledSteps
<1> QED BY <1>4, <1>5, <1>6, <1>7, <1>8, <1>9, <1>11, <1>12, Steps

LEMMA AttemptsInit ==
    ASSUME BudgetInit
    PROVE  AttemptsBounded
<1>1. DOMAIN wake = shape.background /\ \A i \in DOMAIN wake : wake[i] = NewWake
  BY DEF BudgetInit
<1>2. NewWake.attempts = 0
  BY DEF NewWake
<1>3. \A i : 0 + Cardinality(Attempting(i)) <= MaxAttempts + Cardinality(Worker)
  BY Attempters, Bounds
<1> QED BY <1>1, <1>2, <1>3 DEF AttemptsBounded

\* The wakes and the reviews are of their types, a page is never longer than it may be, and
\* a wake is not tried more often than the limit and the calls under way allow.
THEOREM BudgetTypes == BudgetSpec => []BudgetTypeOK
<1> DEFINE I == Typed /\ AttemptsBounded
<1>1. BudgetInit => I
  BY TypedInit, AttemptsInit
<1>2. I /\ [BudgetNext]_budgetVars => I'
  BY TypedStep, AttemptsStep
<1>3. I => BudgetTypeOK
  <2> SUFFICES ASSUME Typed, AttemptsBounded PROVE BudgetTypeOK
    OBVIOUS
  <2>1. now \in 1 .. MaxTime /\ policy \in Policy \cup {NoPolicy}
    BY Bounds DEF Typed, ClockOK
  <2>2. DOMAIN wake = shape.background \cup DOMAIN review
    BY DEF Typed, WakesOK
  <2>3. ASSUME NEW i \in DOMAIN wake PROVE wake[i] \in WakeRecord
    <3>1. wake[i] \in LooseWake
      BY DEF Typed, WakesOK
    <3>2. wake[i].attempts \in Nat
      BY <3>1 DEF LooseWake
    <3>3. wake[i].attempts \in 0 .. MaxAttempts + Cardinality(Worker)
      BY <3>2, Attempters, Bounds DEF AttemptsBounded
    <3> QED BY <3>1, <3>3 DEF LooseWake, WakeRecord
  <2>4. ASSUME NEW k \in DOMAIN review
        PROVE  /\ review[k].anchors \subseteq Object \cup Background
               /\ Cardinality(review[k].anchors) <= PageSize
               /\ review[k].from <= review[k].to /\ review[k].to <= now
    <3>1. review[k] \in ReviewRecord
      BY Population, ElementOfSeq DEF Typed, ReviewsOK
    <3> QED BY <3>1 DEF Typed, ReviewsOK, ReviewRecord
  <2>5. meter \in [WakeId -> [Days -> 0 .. MaxMetered]] /\ queue \subseteq Object
    BY DEF Typed, RecordsOK
  <2>6. ASSUME NEW w \in Worker PROVE worker[w].ran <= worker[w].limit /\ worker[w].limit <= MaxRounds
    BY Bounds DEF Typed, WorkersOK, WorkerOK, WorkerRecord
  <2> QED BY <2>1, <2>2, <2>3, <2>4, <2>5, <2>6 DEF BudgetTypeOK
<1> QED BY <1>1, <1>2, <1>3, PTL DEF BudgetSpec

-----------------------------------------------------------------------------
(* The cursor.                                                             *)

\* A step that records no object and schedules no review keeps what the cursor relies on,
\* if it reopens no review.
LEMMA CursorStays ==
    ASSUME Typed, CursorInv, SamePages, object' = object,
           \A k \in DOMAIN review : Closed(k) => wake'[k].state = wake[k].state
    PROVE  CursorInv'
<1>1. Latest' = Latest /\ DOMAIN review' = DOMAIN review
  BY DEF SamePages, Latest
<1>2. \A k \in DOMAIN review :
         /\ review'[k].from = review[k].from /\ review'[k].to = review[k].to
         /\ review'[k].anchors = review[k].anchors /\ review'[k].more = review[k].more
  BY DEF SamePages
<1>4. Latest # 0 => Latest \in DOMAIN review
  BY Population DEF Latest
<1>5. Cursor' = Cursor
  BY <1>1, <1>2, <1>4 DEF Cursor
<1>6. ReviewsClose'
  BY <1>1, <1>2, <1>5 DEF CursorInv, ReviewsClose, Closed
<1>7. ASSUME NEW k \in DOMAIN review' PROVE PageIsWhole(k)'
  <2>1. PageIsWhole(k) /\ k \in DOMAIN review
    BY <1>1, <1>7 DEF CursorInv
  <2>2. SUFFICES ASSUME ~review'[k].more, NEW o \in Object,
                        Within(o, review[k].from, review[k].to), ~object[o].late
                 PROVE  \E j \in DOMAIN review :
                           /\ review[j].from = review[k].from /\ review[j].to = review[k].to
                           /\ o \in review[j].anchors /\ (j = k \/ wake'[j].state = "completed")
    BY <1>1, <1>2, <2>1 DEF PageIsWhole, Within, AnchorTime
  <2>3. PICK j \in DOMAIN review :
           /\ review[j].from = review[k].from /\ review[j].to = review[k].to
           /\ o \in review[j].anchors /\ (j = k \/ wake[j].state = "completed")
    BY <1>2, <2>1, <2>2 DEF PageIsWhole
  <2> QED BY <2>3 DEF Closed
<1>8. NothingSlipsPast'
  <2> SUFFICES ASSUME NEW o \in Object, Latest > 0, object[o].at # Never,
                      object[o].at <= review[Latest].from, ~object[o].late
               PROVE  \E k \in DOMAIN review :
                         /\ Within(o, review[k].from, review[k].to)
                         /\ \/ wake'[k].state = "completed" /\ o \in review[k].anchors
                            \/ wake'[k].state = "suppressed"
    BY <1>1, <1>2, <1>4 DEF NothingSlipsPast, Within, AnchorTime
  <2>1. PICK k \in DOMAIN review :
           /\ Within(o, review[k].from, review[k].to)
           /\ \/ wake[k].state = "completed" /\ o \in review[k].anchors
              \/ wake[k].state = "suppressed"
    BY DEF CursorInv, NothingSlipsPast
  <2> QED BY <2>1 DEF Closed
<1> QED BY <1>6, <1>7, <1>8 DEF CursorInv

\* No write reopens a review that is closed.
LEMMA WritesKeepClosed ==
    ASSUME Typed, NEW w \in Worker, Writes(w)
    PROVE  /\ SamePages /\ object' = object
           /\ \A k \in DOMAIN wake : Closed(k) => wake'[k] = wake[k]
<1>0. PICK i : i = worker[w].id
  OBVIOUS
<1>1. PICK x, next : Sets(w, x, next)
  BY DEF Writes, Suppresses, Defers, Claims, Completes, Requeues, EndsHalfDone
<1>2. wake[i].state \in Open
  BY <1>0 DEF Writes, Suppresses, Defers, Claims, Completes, Requeues, EndsHalfDone, Open
<1>3. ~Closed(i)
  BY <1>2 DEF Closed, Open
<1>4. wake' = [wake EXCEPT ![i] = x] /\ object' = object
  BY <1>0, <1>1 DEF Sets, WriteWake
<1>5. SamePages
  BY <1>1, SetsPages
<1> QED BY <1>3, <1>4, <1>5

\* An object recorded behind the cursor is a late one.
LEMMA CursorCommit ==
    ASSUME Typed, CursorInv, UNCHANGED <<wake, review>>, NEW o \in Object, NEW t \in 1 .. now,
           object[o].at = Never, object' = [object EXCEPT ![o] = [at |-> t, late |-> t <= Cursor]]
    PROVE  CursorInv'
<1>1. /\ object'[o].at = t /\ (object'[o].late <=> t <= Cursor)
      /\ \A p \in Object \ {o} : object'[p] = object[p]
      /\ review' = review /\ t \in Nat
  <2>1. review' = review /\ object \in [Object -> [at : Never .. MaxTime, late : BOOLEAN]] /\ now \in Nat
    BY Bounds DEF Typed, RecordsOK, ClockOK
  <2> DEFINE r == [at |-> t, late |-> t <= Cursor]
  <2>2. r.at = t /\ (r.late <=> t <= Cursor)
    OBVIOUS
  <2> HIDE DEF r
  <2>3. object' = [object EXCEPT ![o] = r]
    BY DEF r
  <2>4. object'[o] = r /\ \A p \in Object \ {o} : object'[p] = object[p]
    BY <2>1, <2>3
  <2> QED BY <2>1, <2>2, <2>4
<1>2. \A k \in DOMAIN review : review[k].from \in Nat /\ review[k].to \in Nat /\ review[k].from <= review[k].to
                              /\ review[k].to <= Cursor
  <2>1. \A k \in DOMAIN review : review[k] \in ReviewRecord
    BY Population, ElementOfSeq DEF Typed, ReviewsOK
  <2> QED BY <2>1 DEF ReviewRecord, Typed, ReviewsOK, CursorInv, ReviewsClose
<1>3. Latest > 0 => Latest \in DOMAIN review /\ Cursor = review[Latest].to
  BY Population DEF Latest, Cursor
<1>4. Cursor \in Nat
  BY <1>2, <1>3, Population DEF Cursor, Latest
<1>5. ReviewsClose'
  BY DEF CursorInv, ReviewsClose, Closed, Cursor, Latest
<1>6. ASSUME NEW k \in DOMAIN review' PROVE PageIsWhole(k)'
  <2>1. PageIsWhole(k)
    BY <1>6 DEF CursorInv
  <2>2. ~object'[o].late => ~Within(o, review[k].from, review[k].to)'
    BY <1>1, <1>2, <1>4 DEF Within, AnchorTime
  <2>3. ASSUME NEW p \in Object, p # o
        PROVE  /\ Within(p, review[k].from, review[k].to)' <=> Within(p, review[k].from, review[k].to)
               /\ object'[p].late = object[p].late
    BY <1>1, <2>3 DEF Within, AnchorTime
  <2> QED BY <2>1, <2>2, <2>3 DEF PageIsWhole
<1>7. NothingSlipsPast'
  <2> SUFFICES ASSUME NEW p \in Object, Latest > 0, object'[p].at # Never,
                      object'[p].at <= review[Latest].from, ~object'[p].late
               PROVE  \E k \in DOMAIN review :
                         /\ Within(p, review[k].from, review[k].to)'
                         /\ \/ wake[k].state = "completed" /\ p \in review[k].anchors
                            \/ wake[k].state = "suppressed"
    BY DEF NothingSlipsPast, Latest
  <2>1. p # o
    <3>1. review[Latest].from <= Cursor /\ review[Latest].from \in Nat
      BY <1>2, <1>3
    <3> QED BY <1>1, <1>4, <3>1
  <2>2. object'[p] = object[p]
    BY <1>1, <2>1
  <2>3. PICK k \in DOMAIN review :
           /\ Within(p, review[k].from, review[k].to)
           /\ \/ wake[k].state = "completed" /\ p \in review[k].anchors
              \/ wake[k].state = "suppressed"
    BY <2>2 DEF CursorInv, NothingSlipsPast
  <2>4. Within(p, review[k].from, review[k].to)'
    BY <2>2, <2>3 DEF Within, AnchorTime
  <2> QED BY <2>3, <2>4
<1> QED BY <1>5, <1>6, <1>7 DEF CursorInv

\* The next window begins where the last one ended, once that is done with.
LEMMA CursorSchedules ==
    ASSUME Typed, CursorInv, NEW w \in Worker, NEW d, NEW page, NEW state, Schedules(w, d, page, state)
    PROVE  CursorInv'
<1>0. PICK n : n = Latest + 1
  OBVIOUS
<1>1. /\ object' = object /\ (Latest > 0 => Closed(Latest))
      /\ d \in DueWindow /\ page \in Pages(d[1], d[2])
      /\ wake' = [i \in DOMAIN wake \cup {n} |-> IF i = n THEN [NewWake EXCEPT !.state = state] ELSE wake[i]]
  BY <1>0 DEF Schedules, Mark
<1>2. /\ DOMAIN review' = DOMAIN review \cup {n} /\ Latest' = n
      /\ \A k \in DOMAIN review : review'[k] = review[k] /\ k # n
      /\ review'[n].from = d[1] /\ review'[n].to = d[2]
      /\ review'[n].anchors = page.anchors /\ review'[n].more = page.more
  BY <1>0, ScheduledPages DEF Latest
<1>3. \A k \in DOMAIN review : wake'[k] = wake[k]
  BY <1>1, <1>2, Population
<1>4. /\ \A k \in DOMAIN review : /\ review[k].from \in Nat /\ review[k].to \in Nat
                                  /\ review[k].from <= review[k].to /\ review[k].to <= Cursor
      /\ d[1] \in Nat /\ d[2] \in Nat
  <2>1. \A k \in DOMAIN review : review[k] \in ReviewRecord
    BY Population, ElementOfSeq DEF Typed, ReviewsOK
  <2> QED BY <1>1, <2>1, WindowType DEF ReviewRecord, Typed, ReviewsOK, CursorInv, ReviewsClose
<1>5. Latest \in Nat /\ DOMAIN review = 1 .. Latest /\ now \in Nat
  BY Population DEF Latest, Typed, ClockOK
<1>6. Latest > 0 => Latest \in DOMAIN review /\ Cursor = review[Latest].to /\ Cursor <= now
  BY <1>5 DEF Cursor, Typed, ReviewsOK
<1>7. Cursor \in Nat /\ Cursor' = d[2]
  BY <1>0, <1>2, <1>4, <1>5, <1>6 DEF Cursor
<1>8. \/ Latest = 0 /\ d[1] = 0
      \/ Latest > 0 /\ Backlog /\ d[1] = review[Latest].from /\ d[2] = review[Latest].to
      \/ Latest > 0 /\ ~Backlog /\ d[1] = review[Latest].to /\ d[2] = now
  BY <1>1, <1>5 DEF DueWindow
<1>10. ReviewsClose'
  <2>1. Cursor <= d[2]
    BY <1>6, <1>8, <1>5 , <1>4, <1>7 DEF Cursor
  <2>2. \A k \in DOMAIN review : k < Latest \/ (k = Latest /\ Latest > 0)
    BY <1>5
  <2>3. \A k \in DOMAIN review : Closed(k)'
    <3>1. \A k \in DOMAIN review : Closed(k)
      BY <1>1, <2>2 DEF CursorInv, ReviewsClose
    <3> QED BY <1>3, <3>1 DEF Closed
  <2>4. \A k \in DOMAIN review' : review'[k].to <= d[2]
    BY <1>2, <1>4, <1>7, <2>1
  <2> QED BY <1>0, <1>2, <1>5, <1>7, <2>3, <2>4 DEF ReviewsClose
<1>11. ASSUME NEW k \in DOMAIN review' PROVE PageIsWhole(k)'
  <2> SUFFICES ASSUME ~review'[k].more, NEW o \in Object, ~object[o].late,
                      review'[k].from < object[o].at, object[o].at <= review'[k].to
               PROVE  \E j \in DOMAIN review' :
                         /\ review'[j].from = review'[k].from /\ review'[j].to = review'[k].to
                         /\ o \in review'[j].anchors /\ (j = k \/ wake'[j].state = "completed")
    BY <1>1 DEF PageIsWhole, Within, AnchorTime
  <2>1. CASE k \in DOMAIN review
    <3>1. PICK j \in DOMAIN review :
             /\ review[j].from = review[k].from /\ review[j].to = review[k].to
             /\ o \in review[j].anchors /\ (j = k \/ wake[j].state = "completed")
      BY <1>2, <2>1 DEF CursorInv, PageIsWhole, Within, AnchorTime
    <3> QED BY <1>2, <1>3, <2>1, <3>1
  <2>2. CASE k = n
    <3>1. Eligible(d[1], d[2]) \subseteq page.anchors
      BY <1>1, <1>2, <2>2, PageType
    <3>2. Within(o, d[1], d[2])
      BY <1>2, <2>2 DEF Within, AnchorTime
    <3>3. CASE o \in page.anchors
      BY <1>2, <2>2, <3>3
    <3>4. CASE o \notin page.anchors
      <4>1. o \in Reviewed(d[1], d[2])
        BY <3>1, <3>2, <3>4 DEF Eligible
      <4>2. PICK j \in DOMAIN review : /\ wake[j].state = "completed" /\ review[j].from = d[1]
                                       /\ review[j].to = d[2] /\ o \in review[j].anchors
        BY <4>1 DEF Reviewed
      <4> QED BY <1>2, <1>3, <2>2, <4>2
    <3> QED BY <3>3, <3>4
  <2> QED BY <1>2, <1>11, <2>1, <2>2
<1>12. NothingSlipsPast'
  <2> SUFFICES ASSUME NEW o \in Object, object[o].at # Never, object[o].at <= d[1], ~object[o].late
               PROVE  \E k \in DOMAIN review :
                         /\ Within(o, review[k].from, review[k].to)
                         /\ \/ wake[k].state = "completed" /\ o \in review[k].anchors
                            \/ wake[k].state = "suppressed"
    <3>1. \A k \in DOMAIN review : k \in DOMAIN review' /\ review'[k] = review[k] /\ wake'[k] = wake[k]
      BY <1>2, <1>3
    <3> SUFFICES ASSUME NEW o \in Object, (Latest > 0 /\ object[o].at # Never /\ object[o].at <= review[Latest].from)',
                        ~object'[o].late
                 PROVE  \E k \in DOMAIN review' :
                           /\ Within(o, review[k].from, review[k].to)'
                           /\ \/ wake'[k].state = "completed" /\ o \in review'[k].anchors
                              \/ wake'[k].state = "suppressed"
      BY DEF NothingSlipsPast
    <3>2. object'[o].at # Never /\ object'[o].at <= review'[n].from
      BY <1>2
    <3>3. object[o].at # Never /\ object[o].at <= d[1] /\ ~object[o].late
      BY <1>1, <1>2, <3>2
    <3>4. PICK k \in DOMAIN review :
             /\ Within(o, review[k].from, review[k].to)
             /\ \/ wake[k].state = "completed" /\ o \in review[k].anchors
                \/ wake[k].state = "suppressed"
      BY <3>3
    <3>5. Within(o, review[k].from, review[k].to)'
      BY <1>1, <3>1, <3>4 DEF Within, AnchorTime
    <3> QED BY <3>1, <3>4, <3>5
  <2>1. object[o].at \in Nat /\ object[o].at >= 1
    BY <1>5 DEF Typed, RecordsOK
  <2>2. Latest > 0
    BY <1>8, <2>1, <1>5
  <2>3. CASE object[o].at <= review[Latest].from
    BY <2>2, <2>3 DEF CursorInv, NothingSlipsPast
  <2>4. CASE ~(object[o].at <= review[Latest].from)
    <3>1. ~Backlog /\ d[1] = review[Latest].to
      BY <1>8, <2>2, <2>4
    <3>2. Within(o, review[Latest].from, review[Latest].to)
      BY <1>4, <1>6, <2>1, <2>2, <2>4, <3>1 DEF Within, AnchorTime
    <3>3. CASE wake[Latest].state = "suppressed"
      BY <1>6, <2>2, <3>2, <3>3
    <3>4. CASE wake[Latest].state = "completed"
      <4>1. ~review[Latest].more /\ PageIsWhole(Latest)
        BY <1>6, <2>2, <3>1, <3>4 DEF Backlog, CursorInv
      <4>2. PICK j \in DOMAIN review :
               /\ review[j].from = review[Latest].from /\ review[j].to = review[Latest].to
               /\ o \in review[j].anchors /\ (j = Latest \/ wake[j].state = "completed")
        BY <3>2, <4>1 DEF PageIsWhole
      <4>3. Within(o, review[j].from, review[j].to) /\ wake[j].state = "completed"
        BY <3>2, <3>4, <4>2
      <4> QED BY <4>2, <4>3
    <3> QED BY <1>1, <2>2, <3>3, <3>4 DEF Closed
  <2> QED BY <2>3, <2>4
<1> QED BY <1>10, <1>11, <1>12 DEF CursorInv

LEMMA CursorStep ==
    ASSUME Typed, CursorInv, [BudgetNext]_budgetVars
    PROVE  CursorInv'
<1>1. ASSUME review' = review, object' = object, wake' = wake PROVE CursorInv'
  BY <1>1, CursorStays DEF SamePages
<1>2. ASSUME NEW w \in Worker, Takes(w) \/ Leaves(w) \/ Joins(w) \/ Round(w) PROVE CursorInv'
  BY <1>1, <1>2 DEF Takes, Leaves, Joins, Round
<1>3. ASSUME NEW w \in Worker, Writes(w) PROVE CursorInv'
  <2>1. \A k \in DOMAIN review : Closed(k) => wake'[k].state = wake[k].state
    BY <1>3, WritesKeepClosed, Population
  <2> QED BY <1>3, <2>1, WritesKeepClosed, CursorStays
<1>4. ASSUME NEW w \in Worker, ReviewIsScheduled(w) PROVE CursorInv'
  BY <1>4, ScheduledSteps, CursorSchedules
<1>5. CASE Turns
  <2>1. \A s \in Shape : s.object \subseteq Object
    BY BudgetAssumption
  <2>2. shape.object \subseteq Object
    BY <2>1 DEF Typed, ClockOK
  <2> QED BY <1>1, <1>5, <2>2, CursorCommit DEF Turns
<1>6. CASE UNCHANGED budgetVars
  BY <1>1, <1>6 DEF budgetVars
<1> QED BY <1>2, <1>3, <1>4, <1>5, <1>6, Steps

LEMMA CursorInit ==
    ASSUME BudgetInit
    PROVE  CursorInv
<1>1. DOMAIN review = {} /\ Latest = 0
  BY DEF BudgetInit, Latest
<1> QED BY <1>1 DEF CursorInv, ReviewsClose, NothingSlipsPast

\* Whatever a review has left behind its cursor was shown to a review that was completed,
\* or was in the window of one that was given up: reviews page through what is recorded
\* without a gap, whichever of them crash, are put off, or end half done.
THEOREM CursorNothingSlips == BudgetSpec => []NothingSlipsPast
<1> DEFINE I == Typed /\ CursorInv
<1>1. BudgetInit => I
  BY TypedInit, CursorInit
<1>2. I /\ [BudgetNext]_budgetVars => I'
  BY TypedStep, CursorStep
<1>3. I => NothingSlipsPast
  BY DEF CursorInv
<1> QED BY <1>1, <1>2, <1>3, PTL DEF BudgetSpec

-----------------------------------------------------------------------------
(* The gate: a decision that is still fresh is still right.                *)

LEMMA WakeNumbers ==
    ASSUME Typed, NEW i \in DOMAIN wake
    PROVE  /\ wake[i] \in LooseWake /\ wake[i].state \in Open \cup {"completed", "suppressed"}
           /\ wake[i].reserved \in Nat /\ wake[i].attempts \in Nat
           /\ wake[i].day \in Int /\ wake[i].day >= Never
           /\ Day(wake[i].started) \in Int /\ Day(wake[i].ended) \in Int
           /\ \A d \in Days : meter[i][d] \in Nat
<1>1. wake[i] \in LooseWake
  BY DEF Typed, WakesOK
<1>2. wake[i].started \in Int /\ wake[i].ended \in Int
  BY <1>1, Bounds DEF LooseWake, Never
<1>3. \A d \in Days : meter[i][d] \in Nat
  <2>1. i \in WakeId /\ MaxMetered \in Nat
    BY Population, Bounds
  <2>2. meter[i] \in [Days -> 0 .. MaxMetered]
    BY <2>1 DEF Typed, RecordsOK
  <2> QED BY <2>1, <2>2
<1>4. Day(wake[i].started) \in Int /\ Day(wake[i].ended) \in Int
  BY <1>2, DayOrder
<1> QED BY <1>1, <1>3, <1>4, Bounds DEF LooseWake, Never

LEMMA WorkerNumbers ==
    ASSUME Typed, NEW w \in Worker
    PROVE  /\ worker[w] \in WorkerRecord /\ worker[w].pc \in Stages /\ worker[w].fresh \in BOOLEAN
           /\ worker[w].limit \in Nat /\ worker[w].reserve \in Nat /\ worker[w].ran \in Nat
           /\ worker[w].ran <= worker[w].limit
           /\ worker[w].pc # "idle" =>
                 /\ worker[w].id \in DOMAIN wake /\ worker[w].at \in 1 .. now
                 /\ Day(worker[w].at) \in Days /\ Day(worker[w].at) \in Nat
                 /\ Day(worker[w].at) <= Day(now)
<1>1. worker[w] \in WorkerRecord /\ WorkerOK(w) /\ now \in 1 .. MaxTime
  BY Bounds DEF Typed, WorkersOK, ClockOK
<1>2. worker[w].pc # "idle" => worker[w].at \in 1 .. now /\ worker[w].at \in 0 .. MaxTime
  BY <1>1, Bounds DEF WorkerOK
<1>3. worker[w].pc # "idle" => Day(worker[w].at) \in Days /\ Day(worker[w].at) \in Nat
                               /\ Day(worker[w].at) <= Day(now)
  BY <1>1, <1>2, DayRange, DayOrder, DayType
<1> QED BY <1>1, <1>2, <1>3, Bounds DEF WorkerRecord, WorkerOK

LEMMA DayOfNow ==
    ASSUME Typed
    PROVE  now \in Nat /\ Day(now) \in Nat
BY DayType, Bounds DEF Typed, ClockOK

\* No policy comes or goes.
LEMMA PolicyStays ==
    ASSUME Typed, BudgetNext
    PROVE  policy' = NoPolicy <=> policy = NoPolicy
<1>1. NoPolicy \notin Policy
  BY BudgetAssumption
<1>2. \/ policy' = policy
      \/ policy # NoPolicy /\ policy' \in Policy
  <2>1. ASSUME NEW w \in Worker, Writes(w) PROVE policy' = policy
    BY <2>1 DEF Writes, Suppresses, Defers, Claims, Completes, Requeues, EndsHalfDone, Sets
  <2> QED BY <2>1, Steps DEF Takes, Leaves, Joins, Round, ReviewIsScheduled, Turns
<1> QED BY <1>1, <1>2

\* What is left of a day depends on what it is charged for each wake.
LEMMA GateSame ==
    ASSUME UNCHANGED <<wake, policy>>, NEW d, \A j \in DOMAIN wake : Charged(j, d)' = Charged(j, d),
           NEW i \in DOMAIN wake
    PROVE  Remaining(i, d)' = Remaining(i, d) /\ (WakesLeft(i, d)' <=> WakesLeft(i, d))
<1>1. wake' = wake /\ policy' = policy /\ Others(i)' = Others(i) /\ Others(i) \subseteq DOMAIN wake
  BY DEF Others
<1>2. [j \in DOMAIN wake |-> Charged(j, d)]' = [j \in DOMAIN wake |-> Charged(j, d)]
  BY <1>1
<1>3. UsedCalls(i, d)' = UsedCalls(i, d)
  BY <1>1, <1>2 DEF UsedCalls
<1>4. {j \in Others(i) : Charged(j, d) > 0}' = {j \in Others(i) : Charged(j, d) > 0}
  BY <1>1
<1>5. UsedWakes(i, d)' = UsedWakes(i, d)
  BY <1>4 DEF UsedWakes
<1>6. OwnCalls(i, d)' = OwnCalls(i, d)
  BY <1>1 DEF OwnCalls
<1> QED BY <1>1, <1>3, <1>5, <1>6 DEF Remaining, WakesLeft

\* A step that moves neither the wakes nor the ledger nor the policy, and begins no run,
\* keeps a decision.
LEMMA DecisionStays ==
    ASSUME Typed, NEW v \in Worker, DecisionHolds(v), UNCHANGED <<wake, meter, policy>>,
           worker'[v] = worker[v], \A u \in Worker : worker'[u].pc = "run" => worker[u].pc = "run" /\ worker'[u].id = worker[u].id
    PROVE  DecisionHolds(v)'
<1> SUFFICES ASSUME policy # NoPolicy, worker[v].pc = "claim", worker[v].fresh
             PROVE  DecisionHolds(v)'
  BY DEF DecisionHolds
<1>0. PICK i, d : i = worker[v].id /\ d = Day(worker[v].at)
  OBVIOUS
<1>1. i \in DOMAIN wake
  BY <1>0, WorkerNumbers
<1>2. /\ Unattended(i) /\ WakesLeft(i, d) /\ Remaining(i, d) >= worker[v].reserve
      /\ ~AlreadyReserved(i, d) /\ \A j \in DOMAIN wake : wake[j].day <= d
  BY <1>0 DEF DecisionHolds
<1>3. \A j \in DOMAIN wake : Charged(j, d)' = Charged(j, d)
  BY DEF Charged
<1>4. Remaining(i, d)' = Remaining(i, d) /\ (WakesLeft(i, d)' <=> WakesLeft(i, d))
  BY <1>1, <1>3, GateSame
<1>5. Unattended(i)' /\ ~AlreadyReserved(i, d)'
  BY <1>2 DEF Unattended, AlreadyReserved
<1>6. worker'[v].id = i /\ Day(worker'[v].at) = d
  BY <1>0
<1> QED BY <1>2, <1>4, <1>5, <1>6 DEF DecisionHolds

\* The runs under way are kept by a step that begins none and moves no wake.
LEMMA RunStays ==
    ASSUME NEW v \in Worker, RunHolds(v), UNCHANGED wake, policy' = NoPolicy <=> policy = NoPolicy,
           \A u \in Worker : worker'[u].pc = "run" =>
              /\ worker[u].pc = "run" /\ worker'[u].id = worker[u].id /\ worker'[u].at = worker[u].at
              /\ worker'[u].reserve = worker[u].reserve /\ (worker'[u].fresh => worker[u].fresh)
    PROVE  RunHolds(v)'
BY DEF RunHolds, Day

LEMMA GateTakes ==
    ASSUME Typed, GateInv, NEW w \in Worker, Takes(w)
    PROVE  GateInv'
<1>1. PICK i \in DOMAIN wake :
         /\ Unattended(i)
         /\ \/ worker' = [worker EXCEPT ![w] = [Idle EXCEPT !.pc = "deny", !.id = i, !.at = now]]
            \/ \E page : worker' = [worker EXCEPT ![w] = Take(w, i, page)]
  BY DEF Takes
<1>2. UNCHANGED <<shape, now, policy, wake, review, meter, object, queue>>
  BY DEF Takes
<1>3. /\ \A v \in Worker \ {w} : worker'[v] = worker[v]
      /\ worker'[w].pc \in {"claim", "hold", "deny"}
      /\ worker'[w].pc = "claim" =>
            /\ worker'[w].id = i /\ worker'[w].at = now
            /\ worker'[w].limit = Verdict(i, now).limit /\ worker'[w].reserve = Verdict(i, now).reserve
            /\ Verdict(i, now).pc = "claim" /\ (worker'[w].bare => policy = NoPolicy)
  <2>1. worker \in [Worker -> WorkerRecord]
    BY DEF Typed, WorkersOK
  <2>2. CASE worker' = [worker EXCEPT ![w] = [Idle EXCEPT !.pc = "deny", !.id = i, !.at = now]]
    BY <2>1, <2>2 DEF Idle
  <2>3. ASSUME NEW page, worker' = [worker EXCEPT ![w] = Take(w, i, page)]
        PROVE  /\ \A v \in Worker \ {w} : worker'[v] = worker[v]
               /\ worker'[w] = Take(w, i, page)
    BY <2>1, <2>3
  <2> QED BY <1>1, <2>2, <2>3, TakeType
<1>4. \A u \in Worker : worker'[u].pc = "run" => worker[u].pc = "run" /\ worker'[u] = worker[u]
  BY <1>3
<1>5. \A v \in Worker : RunHolds(v)'
  BY <1>2, <1>4, RunStays DEF GateInv
<1>6. PICK e : e = Day(now)
  OBVIOUS
<1>7. /\ policy = NoPolicy => Verdict(i, now).reserve = 0
      /\ policy # NoPolicy /\ Verdict(i, now).pc = "claim" =>
            /\ Verdict(i, now).reserve = Verdict(i, now).limit /\ Verdict(i, now).reserve > 0
            /\ WakesLeft(i, e) /\ Remaining(i, e) >= Verdict(i, now).reserve /\ ~AlreadyReserved(i, e)
  BY <1>6, VerdictType
<1>8. ASSUME NEW v \in Worker PROVE ReservesOK(v)' /\ DecisionHolds(v)'
  <2>1. CASE v # w
    <3>1. DecisionHolds(v) /\ ReservesOK(v) /\ worker'[v] = worker[v]
      BY <1>3, <2>1 DEF GateInv
    <3>2. DecisionHolds(v)'
      BY <1>2, <1>4, <3>1, DecisionStays
    <3> QED BY <1>2, <3>1, <3>2 DEF ReservesOK
  <2>2. CASE v = w
    <3>1. ReservesOK(w)'
      BY <1>2, <1>3, <1>7 DEF ReservesOK
    <3>2. DecisionHolds(w)'
      <4> SUFFICES ASSUME policy # NoPolicy, worker'[w].pc = "claim"
                   PROVE  DecisionHolds(w)'
        BY <1>2 DEF DecisionHolds
      <4>1. worker'[w].id = i /\ Day(worker'[w].at) = e
        BY <1>3, <1>6
      <4>2. Unattended(i)'
        BY <1>1, <1>4 DEF Unattended
      <4>3. \A j \in DOMAIN wake : Charged(j, e)' = Charged(j, e)
        BY <1>2 DEF Charged
      <4>4. Remaining(i, e)' = Remaining(i, e) /\ (WakesLeft(i, e)' <=> WakesLeft(i, e))
        BY <1>2, <4>3, GateSame
      <4>5. ~AlreadyReserved(i, e)'
        BY <1>2, <1>3, <1>7 DEF AlreadyReserved
      <4>6. \A j \in DOMAIN wake : wake[j].day <= e
        BY <1>6 DEF GateInv, WakeHolds
      <4> QED BY <1>2, <1>3, <1>7, <4>1, <4>2, <4>4, <4>5, <4>6 DEF DecisionHolds
    <3> QED BY <2>2, <3>1, <3>2
  <2> QED BY <2>1, <2>2
<1>9. MeterHolds' /\ \A j \in DOMAIN wake' : WakeHolds(j)'
  BY <1>2 DEF GateInv, MeterHolds, WakeHolds, Day
<1> QED BY <1>5, <1>8, <1>9 DEF GateInv

LEMMA GateLeaves ==
    ASSUME Typed, GateInv, NEW w \in Worker, Leaves(w)
    PROVE  GateInv'
<1>1. UNCHANGED <<now, policy, wake, meter>> /\ worker' = [worker EXCEPT ![w] = Idle]
  BY DEF Leaves
<1>2. worker'[w] = Idle /\ Idle.pc = "idle" /\ \A v \in Worker \ {w} : worker'[v] = worker[v]
  BY <1>1 DEF Typed, WorkersOK, Idle
<1>3. \A u \in Worker : worker'[u].pc = "run" => worker[u].pc = "run" /\ worker'[u] = worker[u]
  BY <1>2
<1>4. \A v \in Worker : RunHolds(v)'
  BY <1>1, <1>3, RunStays DEF GateInv
<1>5. ASSUME NEW v \in Worker PROVE ReservesOK(v)' /\ DecisionHolds(v)'
  <2>1. CASE v = w
    BY <1>2, <2>1 DEF ReservesOK, DecisionHolds
  <2>2. CASE v # w
    <3>1. worker'[v] = worker[v] /\ DecisionHolds(v) /\ ReservesOK(v)
      BY <1>2, <2>2 DEF GateInv
    <3>2. DecisionHolds(v)'
      BY <1>1, <1>3, <3>1, DecisionStays
    <3> QED BY <1>1, <3>1, <3>2 DEF ReservesOK
  <2> QED BY <2>1, <2>2
<1>6. MeterHolds' /\ \A j \in DOMAIN wake' : WakeHolds(j)'
  BY <1>1 DEF GateInv, MeterHolds, WakeHolds, Day
<1> QED BY <1>4, <1>5, <1>6 DEF GateInv

\* Nobody joins a running wake when there is a policy.
LEMMA GateJoins ==
    ASSUME Typed, GateInv, NEW w \in Worker, Joins(w)
    PROVE  GateInv' /\ policy = NoPolicy
<1>1. UNCHANGED <<now, policy, wake, meter>> /\ worker' = [worker EXCEPT ![w] = Running(w)]
  BY DEF Joins
<1>2. policy = NoPolicy /\ worker[w].reserve = 0
  BY DEF Joins, GateInv, ReservesOK
<1>3. worker'[w].reserve = 0 /\ \A v \in Worker \ {w} : worker'[v] = worker[v]
  BY <1>1, <1>2, RunningFields DEF Typed, WorkersOK
<1>4. \A v \in Worker : ReservesOK(v)'
  BY <1>1, <1>2, <1>3 DEF GateInv, ReservesOK
<1> QED BY <1>1, <1>2, <1>4 DEF GateInv, DecisionHolds, RunHolds, WakeHolds, MeterHolds

\* What a round changes.
LEMMA RoundFields ==
    ASSUME Typed, NEW w \in Worker, Round(w)
    PROVE  /\ UNCHANGED <<now, policy, wake>>
           /\ worker[w].pc = "run" /\ worker[w].ran < worker[w].limit
           /\ worker'[w].ran = worker[w].ran + 1
           /\ \A v \in Worker \ {w} : worker'[v] = worker[v]
           /\ \A v \in Worker : /\ worker'[v].pc = worker[v].pc /\ worker'[v].id = worker[v].id
                                /\ worker'[v].at = worker[v].at /\ worker'[v].limit = worker[v].limit
                                /\ worker'[v].reserve = worker[v].reserve /\ worker'[v].bare = worker[v].bare
                                /\ worker'[v].fresh = worker[v].fresh
           /\ worker[w].id \in WakeId
           /\ \A i \in WakeId, d \in Days :
                 meter'[i][d] = IF i = worker[w].id /\ d = Day(worker[w].at) THEN meter[i][d] + 1 ELSE meter[i][d]
<1>1. /\ UNCHANGED <<now, policy, wake>>
      /\ worker[w].pc = "run" /\ worker[w].ran < worker[w].limit
      /\ meter' = [meter EXCEPT ![worker[w].id][Day(worker[w].at)] = @ + 1]
      /\ worker' = [worker EXCEPT ![w].ran = @ + 1]
  BY DEF Round
<1>2. /\ worker \in [Worker -> WorkerRecord] /\ worker[w] \in WorkerRecord
      /\ worker[w].id \in WakeId /\ Day(worker[w].at) \in Days
  BY <1>1, WorkerNumbers, Population DEF Typed, WorkersOK
<1>3. worker' = [worker EXCEPT ![w] = [worker[w] EXCEPT !.ran = worker[w].ran + 1]]
  BY <1>1, <1>2
<1>4. worker'[w] = [worker[w] EXCEPT !.ran = worker[w].ran + 1] /\ \A v \in Worker \ {w} : worker'[v] = worker[v]
  BY <1>2, <1>3
<1>5. /\ worker'[w].ran = worker[w].ran + 1
      /\ worker'[w].pc = worker[w].pc /\ worker'[w].id = worker[w].id
      /\ worker'[w].at = worker[w].at /\ worker'[w].limit = worker[w].limit
      /\ worker'[w].reserve = worker[w].reserve /\ worker'[w].bare = worker[w].bare
      /\ worker'[w].fresh = worker[w].fresh
  BY <1>2, <1>4 DEF WorkerRecord
<1>6. PICK i, e : i = worker[w].id /\ e = Day(worker[w].at)
  OBVIOUS
<1>7. \A j \in WakeId, d \in Days :
         meter'[j][d] = IF j = i /\ d = e THEN meter[j][d] + 1 ELSE meter[j][d]
  <2>1. meter \in [WakeId -> [Days -> 0 .. MaxMetered]]
    BY DEF Typed, RecordsOK
  <2>2. meter' = [meter EXCEPT ![i][e] = @ + 1]
    BY <1>1, <1>6
  <2> QED BY <2>1, <2>2
<1> QED BY <1>1, <1>2, <1>4, <1>5, <1>6, <1>7

LEMMA GateRound ==
    ASSUME Typed, GateInv, NEW w \in Worker, Round(w)
    PROVE  GateInv'
<1>0. PICK i, e : i = worker[w].id /\ e = Day(worker[w].at)
  OBVIOUS
<1>1. /\ UNCHANGED <<now, policy, wake>> /\ worker[w].pc = "run"
      /\ \A v \in Worker : /\ worker'[v].pc = worker[v].pc /\ worker'[v].id = worker[v].id
                           /\ worker'[v].at = worker[v].at /\ worker'[v].limit = worker[v].limit
                           /\ worker'[v].reserve = worker[v].reserve /\ worker'[v].bare = worker[v].bare
                           /\ worker'[v].fresh = worker[v].fresh
      /\ i \in WakeId
      /\ \A j \in WakeId, d \in Days :
            meter'[j][d] = IF j = i /\ d = e THEN meter[j][d] + 1 ELSE meter[j][d]
  BY <1>0, RoundFields
<1>2. i \in DOMAIN wake /\ e \in Days
  BY <1>0, <1>1, WorkerNumbers
<1>3. policy # NoPolicy => /\ wake[i].state \in {"running", "suppressed"}
                           /\ wake[i].day = e /\ wake[i].reserved = worker[w].reserve /\ worker[w].reserve > 0
  BY <1>0, <1>1 DEF GateInv, RunHolds, ReservesOK
<1>4. \A v \in Worker : RunHolds(v)'
  BY <1>1, RunStays DEF GateInv
<1>5. \A v \in Worker : ReservesOK(v)'
  BY <1>1 DEF GateInv, ReservesOK
<1>6. policy # NoPolicy => \A j \in DOMAIN wake, d \in Days : Charged(j, d)' = Charged(j, d)
  <2> SUFFICES ASSUME policy # NoPolicy, NEW j \in DOMAIN wake, NEW d \in Days
               PROVE  Charged(j, d)' = Charged(j, d)
    OBVIOUS
  <2>1. CASE j # i
    <3>1. meter'[j][d] = meter[j][d]
      BY <1>1, <2>1, Population
    <3> QED BY <1>1, <3>1 DEF Charged
  <2>2. CASE j = i
    <3>1. wake[j].state \in {"running", "suppressed"} /\ wake[j].reserved > 0 /\ wake' = wake
      BY <1>1, <1>3, <2>2
    <3> QED BY <3>1 DEF Charged
  <2> QED BY <2>1, <2>2
<1>7. ASSUME NEW v \in Worker PROVE DecisionHolds(v)'
  <2> SUFFICES ASSUME policy # NoPolicy, worker[v].pc = "claim", worker[v].fresh
               PROVE  DecisionHolds(v)'
    BY <1>1 DEF DecisionHolds
  <2>0. PICK j, d : j = worker[v].id /\ d = Day(worker[v].at)
    OBVIOUS
  <2>1. j \in DOMAIN wake /\ d \in Days
    BY <2>0, WorkerNumbers
  <2>2. /\ Unattended(j) /\ WakesLeft(j, d) /\ Remaining(j, d) >= worker[v].reserve
        /\ ~AlreadyReserved(j, d) /\ \A k \in DOMAIN wake : wake[k].day <= d
    BY <2>0 DEF GateInv, DecisionHolds
  <2>3. Remaining(j, d)' = Remaining(j, d) /\ (WakesLeft(j, d)' <=> WakesLeft(j, d))
    BY <1>1, <1>6, <2>1, GateSame
  <2>4. Unattended(j)' /\ ~AlreadyReserved(j, d)'
    BY <1>1, <2>2 DEF Unattended, AlreadyReserved
  <2>5. worker'[v].id = j /\ Day(worker'[v].at) = d
    BY <1>1, <2>0
  <2> QED BY <1>1, <2>2, <2>3, <2>4, <2>5 DEF DecisionHolds
<1>8. \A j \in DOMAIN wake' : WakeHolds(j)'
  BY <1>1 DEF GateInv, WakeHolds, Day
<1>9. MeterHolds'
  <2> SUFFICES ASSUME policy # NoPolicy, NEW j \in WakeId, NEW d \in Days, meter'[j][d] > 0
               PROVE  j \in DOMAIN wake /\ wake[j].day >= d
    BY <1>1 DEF MeterHolds
  <2>1. CASE j = i /\ d = e
    <3>1. wake[i].day \in Int
      BY <1>2, WakeNumbers
    <3> QED BY <1>2, <1>3, <2>1, <3>1
  <2>2. CASE ~(j = i /\ d = e)
    BY <1>1, <2>2 DEF GateInv, MeterHolds
  <2> QED BY <2>1, <2>2
<1> QED BY <1>4, <1>5, <1>7, <1>8, <1>9 DEF GateInv

LEMMA GateTurns ==
    ASSUME Typed, GateInv, Turns
    PROVE  GateInv'
<1>1. /\ WorldMoves \/ (worker' = worker /\ policy' = policy)
      /\ UNCHANGED <<wake, meter>> /\ now' \in {now, now + 1}
  BY DEF Turns
<1>2. policy' = NoPolicy <=> policy = NoPolicy
  <2>1. NoPolicy \notin Policy
    BY BudgetAssumption
  <2> QED BY <2>1 DEF Turns
<1>3. \A v \in Worker :
         /\ worker'[v].pc = worker[v].pc /\ worker'[v].id = worker[v].id /\ worker'[v].at = worker[v].at
         /\ worker'[v].limit = worker[v].limit /\ worker'[v].reserve = worker[v].reserve
         /\ worker'[v].bare = worker[v].bare /\ (worker'[v].fresh => worker[v].fresh)
  BY <1>1, WorldMovesType DEF Behind, Typed, WorkersOK
<1>4. \A v \in Worker : RunHolds(v)'
  BY <1>1, <1>2, <1>3, RunStays DEF GateInv
<1>5. \A v \in Worker : ReservesOK(v)'
  BY <1>2, <1>3 DEF GateInv, ReservesOK
<1>6. \A v \in Worker : DecisionHolds(v)'
  <2>1. CASE WorldMoves
    <3>1. \A v \in Worker : ~worker'[v].fresh
      BY <2>1, WorldMovesType DEF Behind, Typed, WorkersOK
    <3> QED BY <3>1 DEF DecisionHolds
  <2>2. CASE worker' = worker /\ policy' = policy
    BY <1>1, <2>2, DecisionStays DEF GateInv
  <2> QED BY <1>1, <2>1, <2>2
<1>7. Day(now) <= Day(now)' /\ Day(now) \in Int /\ Day(now)' \in Int
  <2>1. now' \in Int /\ now <= now' /\ now \in Int
    BY <1>1, DayOfNow
  <2>2. Day(now)' = Day(now')
    BY DEF Day
  <2> QED BY <2>1, <2>2, DayOrder
<1>8. \A j \in DOMAIN wake' : WakeHolds(j)'
  <2> SUFFICES ASSUME NEW j \in DOMAIN wake PROVE WakeHolds(j)'
    BY <1>1
  <2>1. WakeHolds(j) /\ wake[j].day \in Int
    BY WakeNumbers DEF GateInv
  <2>2. Day(wake[j].started)' = Day(wake[j].started) /\ Day(wake[j].ended)' = Day(wake[j].ended)
    BY <1>1 DEF Day
  <2> QED BY <1>1, <1>2, <1>7, <2>1, <2>2 DEF WakeHolds
<1>9. MeterHolds'
  BY <1>1, <1>2 DEF GateInv, MeterHolds
<1> QED BY <1>4, <1>5, <1>6, <1>8, <1>9 DEF GateInv

LEMMA GateSchedules ==
    ASSUME Typed, GateInv, NEW w \in Worker, NEW d, NEW page, NEW state, Schedules(w, d, page, state)
    PROVE  GateInv'
<1>0. PICK n : n = Latest + 1
  OBVIOUS
<1>1. /\ UNCHANGED <<now, policy, meter>> /\ n \notin DOMAIN wake /\ state \in {"new", "suppressed"}
      /\ wake' = [i \in DOMAIN wake \cup {n} |-> IF i = n THEN [NewWake EXCEPT !.state = state] ELSE wake[i]]
      /\ worker' = After(w, n, Idle)
  BY <1>0 DEF Schedules, Mark
<1>2. worker'[w] = Idle /\ Idle.pc = "idle" /\ \A v \in Worker \ {w} : Behind(v)
  BY <1>1, ScheduledType DEF After, Idle
<1>3. DOMAIN wake' = DOMAIN wake \cup {n} /\ \A i \in DOMAIN wake : wake'[i] = wake[i]
  BY <1>1
<1>4. wake'[n].state = state /\ wake'[n].day = Never
  BY <1>1 DEF NewWake
<1>5. ASSUME NEW v \in Worker PROVE ReservesOK(v)' /\ DecisionHolds(v)' /\ RunHolds(v)'
  <2>1. CASE v = w
    BY <1>2, <2>1 DEF ReservesOK, DecisionHolds, RunHolds
  <2>2. CASE v # w
    <3>1. Behind(v) /\ ReservesOK(v) /\ RunHolds(v)
      BY <1>2, <2>2 DEF GateInv
    <3>2. ReservesOK(v)' /\ DecisionHolds(v)'
      BY <1>1, <3>1 DEF Behind, ReservesOK, DecisionHolds
    <3>3. worker[v].pc = "run" => worker[v].id \in DOMAIN wake
      BY WorkerNumbers
    <3>4. \A u \in Worker : worker'[u].pc = "run" => worker[u].pc = "run" /\ worker'[u].id = worker[u].id
      BY <1>2 DEF Behind
    <3>5. RunHolds(v)'
      BY <1>1, <1>3, <3>1, <3>3, <3>4 DEF RunHolds, Behind, Day
    <3> QED BY <3>2, <3>5
  <2> QED BY <2>1, <2>2
<1>6. ASSUME NEW j \in DOMAIN wake' PROVE WakeHolds(j)'
  <2>1. CASE j \in DOMAIN wake
    <3>1. WakeHolds(j) /\ wake'[j] = wake[j]
      BY <1>3, <2>1 DEF GateInv
    <3> QED BY <1>1, <3>1 DEF WakeHolds, Day
  <2>2. CASE j = n
    BY <1>1, <1>4, <2>2, DayOfNow DEF WakeHolds, Never
  <2> QED BY <1>3, <2>1, <2>2
<1>7. MeterHolds'
  BY <1>1, <1>3 DEF GateInv, MeterHolds
<1> QED BY <1>5, <1>6, <1>7 DEF GateInv

\* What a write changes, by what the worker was doing.
ClaimWritten(w) ==
    LET i == worker[w].id IN
    /\ worker[w].pc = "claim" /\ wake[i].state \in Open /\ Unchanged(w)
    /\ worker'[w].pc = "run" /\ worker'[w].id = i /\ worker'[w].at = worker[w].at
    /\ worker'[w].limit = worker[w].limit /\ worker'[w].reserve = worker[w].reserve
    /\ worker'[w].bare = worker[w].bare /\ worker'[w].ran = worker[w].ran /\ ~worker'[w].fresh
    /\ wake'[i].state = "running" /\ wake'[i].attempts = wake[i].attempts
    /\ StartOf(w, wake'[i].started)
    /\ worker[w].reserve > 0 =>
          wake'[i].reserved = worker[w].reserve /\ wake'[i].day = Day(worker[w].at)

EndWritten(w) ==
    LET i == worker[w].id IN
    /\ worker'[w].pc = "idle"
    /\ wake'[i].started = wake[i].started /\ wake'[i].reserved = wake[i].reserved
    /\ wake'[i].day = wake[i].day
    /\ \/ /\ worker[w].pc = "deny" /\ wake[i].state \in Open
          /\ wake'[i].state = "suppressed" /\ wake'[i].attempts = wake[i].attempts
       \/ /\ worker[w].pc = "hold" /\ wake[i].state = "new"
          /\ wake'[i].state = "queued" /\ wake'[i].attempts = wake[i].attempts
       \/ /\ worker[w].pc = "run" /\ wake[i].state \in Open
          /\ wake'[i].state = "completed" /\ wake'[i].attempts = wake[i].attempts
          /\ wake'[i].ended = worker[w].at
       \/ /\ worker[w].pc = "run" /\ wake[i].state = "running" /\ ~IsReview(i)
          /\ wake'[i].state = "queued" /\ wake'[i].attempts = 1
       \/ /\ worker[w].pc = "run" /\ wake[i].state = "running" /\ IsReview(i)
          /\ wake'[i].state = "running" /\ wake'[i].attempts = wake[i].attempts + 1

LEMMA WriteFields ==
    ASSUME Typed, NEW w \in Worker, Writes(w)
    PROVE  /\ UNCHANGED <<now, policy, meter>> /\ DOMAIN wake' = DOMAIN wake
           /\ worker[w].id \in DOMAIN wake
           /\ \A j \in DOMAIN wake : j # worker[w].id => wake'[j] = wake[j]
           /\ \A v \in Worker \ {w} : Behind(v)
           /\ ClaimWritten(w) \/ EndWritten(w)
<1>0. PICK i, t : i = worker[w].id /\ t = worker[w].at
  OBVIOUS
<1>1. worker[w].pc # "idle"
  BY DEF Writes, Suppresses, Defers, Claims, Completes, Requeues, EndsHalfDone
<1>2. i \in DOMAIN wake /\ wake[i] \in LooseWake
  BY <1>0, <1>1, WorkerNumbers, WakeNumbers
<1>3. \A v \in Worker \ {w} : Behind(v)
  BY WritesType
<1>4. ASSUME NEW x, NEW next, Sets(w, x, next)
      PROVE  /\ UNCHANGED <<now, policy, meter>> /\ wake'[i] = x /\ worker'[w] = next
             /\ DOMAIN wake' = DOMAIN wake /\ \A j \in DOMAIN wake : j # i => wake'[j] = wake[j]
  BY <1>0, <1>2, <1>4 DEF Sets, WriteWake, After
<1>5. PICK x, next : Sets(w, x, next)
  BY DEF Writes, Suppresses, Defers, Claims, Completes, Requeues, EndsHalfDone
<1>6. /\ UNCHANGED <<now, policy, meter>>
      /\ DOMAIN wake' = DOMAIN wake /\ \A j \in DOMAIN wake : j # i => wake'[j] = wake[j]
  BY <1>4, <1>5
<1>7. Idle.pc = "idle"
  BY DEF Idle
<1>8. CASE Claims(w)
  <2>1. PICK s : StartOf(w, s) /\ Sets(w, Reserved([wake[i] EXCEPT !.state = "running", !.started = s], w), Running(w))
    BY <1>0, <1>8 DEF Claims
  <2>2. PICK y : y = Reserved([wake[i] EXCEPT !.state = "running", !.started = s], w)
    OBVIOUS
  <2>3. /\ y.state = "running" /\ y.started = s /\ y.attempts = wake[i].attempts
        /\ worker[w].reserve > 0 => y.reserved = worker[w].reserve /\ y.day = Day(worker[w].at)
    <3>1. worker[w].reserve > 0 => worker[w].reserve # 0
      BY WorkerNumbers
    <3> QED BY <1>0, <1>1, <2>1, <2>2, <3>1, ClaimedFields
  <2>4. wake'[i] = y /\ worker'[w] = Running(w)
    BY <1>4, <2>1, <2>2
  <2>5. worker[w].pc = "claim" /\ wake[i].state \in Open /\ Unchanged(w)
    BY <1>0, <1>8 DEF Claims
  <2>6. ClaimWritten(w)
    BY <1>0, <2>1, <2>3, <2>4, <2>5, RunningFields DEF ClaimWritten
  <2> QED BY <1>0, <1>2, <1>3, <1>6, <2>6
<1>9. CASE Suppresses(w)
  <2>1. PICK y : y = [wake[i] EXCEPT !.state = "suppressed", !.ended = t]
    OBVIOUS
  <2>2. Sets(w, y, Idle) /\ worker[w].pc = "deny" /\ wake[i].state \in Open
    BY <1>0, <1>9, <2>1 DEF Suppresses
  <2>3. /\ y.state = "suppressed" /\ y.started = wake[i].started /\ y.attempts = wake[i].attempts
        /\ y.reserved = wake[i].reserved /\ y.day = wake[i].day
    BY <1>2, <2>1 DEF LooseWake
  <2>4. EndWritten(w)
    BY <1>0, <1>4, <1>7, <2>2, <2>3 DEF EndWritten
  <2> QED BY <1>0, <1>2, <1>3, <1>6, <2>4
<1>10. CASE Defers(w)
  <2>1. PICK y : y = [wake[i] EXCEPT !.state = "queued"]
    OBVIOUS
  <2>2. Sets(w, y, Idle) /\ worker[w].pc = "hold" /\ wake[i].state = "new"
    BY <1>0, <1>10, <2>1 DEF Defers
  <2>3. /\ y.state = "queued" /\ y.started = wake[i].started /\ y.attempts = wake[i].attempts
        /\ y.reserved = wake[i].reserved /\ y.day = wake[i].day
    BY <1>2, <2>1 DEF LooseWake
  <2>4. EndWritten(w)
    BY <1>0, <1>4, <1>7, <2>2, <2>3 DEF EndWritten
  <2> QED BY <1>0, <1>2, <1>3, <1>6, <2>4
<1>11. CASE Completes(w)
  <2>1. PICK y : y = [wake[i] EXCEPT !.state = "completed", !.ended = t]
    OBVIOUS
  <2>2. Sets(w, y, Idle) /\ worker[w].pc = "run" /\ wake[i].state \in Open
    BY <1>0, <1>11, <2>1 DEF Completes
  <2>3. /\ y.state = "completed" /\ y.started = wake[i].started /\ y.attempts = wake[i].attempts
        /\ y.reserved = wake[i].reserved /\ y.day = wake[i].day /\ y.ended = t
    BY <1>2, <2>1 DEF LooseWake
  <2>4. EndWritten(w)
    BY <1>0, <1>4, <1>7, <2>2, <2>3 DEF EndWritten
  <2> QED BY <1>0, <1>2, <1>3, <1>6, <2>4
<1>12. CASE Requeues(w)
  <2>1. PICK y : y = [wake[i] EXCEPT !.state = "queued", !.attempts = 1, !.tried = t]
    OBVIOUS
  <2>2. Sets(w, y, Idle) /\ worker[w].pc = "run" /\ wake[i].state = "running" /\ ~IsReview(i)
    BY <1>0, <1>12, <2>1 DEF Requeues
  <2>3. /\ y.state = "queued" /\ y.started = wake[i].started /\ y.attempts = 1
        /\ y.reserved = wake[i].reserved /\ y.day = wake[i].day
    BY <1>2, <2>1 DEF LooseWake
  <2>4. EndWritten(w)
    BY <1>0, <1>4, <1>7, <2>2, <2>3 DEF EndWritten
  <2> QED BY <1>0, <1>2, <1>3, <1>6, <2>4
<1>13. CASE EndsHalfDone(w)
  <2>1. PICK y : y = [wake[i] EXCEPT !.attempts = @ + 1, !.tried = t]
    OBVIOUS
  <2>2. Sets(w, y, Idle) /\ worker[w].pc = "run" /\ wake[i].state = "running" /\ IsReview(i)
    BY <1>0, <1>13, <2>1 DEF EndsHalfDone
  <2>3. /\ y.state = wake[i].state /\ y.started = wake[i].started /\ y.attempts = wake[i].attempts + 1
        /\ y.reserved = wake[i].reserved /\ y.day = wake[i].day
    BY <1>2, <2>1 DEF LooseWake
  <2>4. EndWritten(w)
    BY <1>0, <1>4, <1>7, <2>2, <2>3 DEF EndWritten
  <2> QED BY <1>0, <1>2, <1>3, <1>6, <2>4
<1> QED BY <1>8, <1>9, <1>10, <1>11, <1>12, <1>13 DEF Writes

\* A claim under a policy was decided on the world as it still is.
LEMMA ClaimHolds ==
    ASSUME Typed, GateInv, policy # NoPolicy, NEW w \in Worker, worker[w].pc = "claim", Unchanged(w)
    PROVE  LET i == worker[w].id
               d == Day(worker[w].at) IN
           /\ worker[w].reserve > 0 /\ worker[w].reserve = worker[w].limit /\ ~worker[w].bare
           /\ Unattended(i) /\ WakesLeft(i, d) /\ Remaining(i, d) >= worker[w].reserve
           /\ ~AlreadyReserved(i, d) /\ \A j \in DOMAIN wake : wake[j].day <= d
<1>1. worker[w].reserve > 0 /\ worker[w].reserve = worker[w].limit /\ ~worker[w].bare
  BY DEF GateInv, ReservesOK
<1>2. worker[w].fresh
  BY <1>1 DEF Unchanged
<1> QED BY <1>1, <1>2 DEF GateInv, DecisionHolds

LEMMA GateWrites ==
    ASSUME Typed, GateInv, NEW w \in Worker, Writes(w)
    PROVE  GateInv'
<1>0. PICK i, e : i = worker[w].id /\ e = Day(worker[w].at)
  OBVIOUS
<1>1. /\ UNCHANGED <<now, policy, meter>> /\ DOMAIN wake' = DOMAIN wake /\ i \in DOMAIN wake
      /\ \A j \in DOMAIN wake : j # i => wake'[j] = wake[j]
      /\ \A v \in Worker \ {w} : Behind(v)
      /\ ClaimWritten(w) \/ EndWritten(w)
  BY <1>0, WriteFields
<1>2. ASSUME NEW v \in Worker PROVE ReservesOK(v)' /\ DecisionHolds(v)'
  <2>1. CASE v # w
    <3>1. Behind(v) /\ ReservesOK(v)
      BY <1>1, <2>1 DEF GateInv
    <3> QED BY <1>1, <3>1 DEF Behind, ReservesOK, DecisionHolds
  <2>2. CASE v = w
    <3>1. ReservesOK(w)
      BY DEF GateInv
    <3> QED BY <1>1, <2>2, <3>1 DEF ClaimWritten, EndWritten, ReservesOK, DecisionHolds
  <2> QED BY <2>1, <2>2
<1>3. CASE policy = NoPolicy
  <2>1. policy' = NoPolicy
    BY <1>1, <1>3
  <2> QED BY <2>1, <1>2 DEF GateInv, RunHolds, WakeHolds, MeterHolds
<1>4. CASE policy # NoPolicy
  <2>1. worker[w].pc # "idle" /\ e \in Nat /\ e <= Day(now)
    <3>1. worker[w].pc # "idle"
      BY DEF Writes, Suppresses, Defers, Claims, Completes, Requeues, EndsHalfDone
    <3> QED BY <1>0, <3>1, WorkerNumbers
  <2>2. ClaimWritten(w) =>
          /\ worker[w].reserve > 0 /\ Unattended(i) /\ ~AlreadyReserved(i, e)
          /\ \A j \in DOMAIN wake : wake[j].day <= e
          /\ wake'[i].day = e /\ wake'[i].reserved = worker[w].reserve
          /\ worker'[w].pc = "run" /\ worker'[w].id = i /\ Day(worker'[w].at) = e
          /\ worker'[w].reserve = worker[w].reserve /\ ~worker'[w].fresh
          /\ wake'[i].state = "running" /\ wake'[i].attempts = wake[i].attempts
          /\ StartOf(w, wake'[i].started)
    BY <1>0, <1>4, ClaimHolds DEF ClaimWritten
  <2>3. EndWritten(w) => worker'[w].pc = "idle" /\ wake'[i].reserved = wake[i].reserved /\ wake'[i].day = wake[i].day
                         /\ wake'[i].started = wake[i].started
    BY <1>0 DEF EndWritten
  <2>4. worker[w].pc = "run" => wake[i].day = e /\ \A v \in Worker \ {w} : worker[v].pc = "run" => worker[v].id # i
    BY <1>0, <1>4 DEF GateInv, RunHolds
  <2>5. ASSUME NEW v \in Worker, v # w PROVE RunHolds(v)'
    <3>1. Behind(v) /\ RunHolds(v)
      BY <1>1, <2>5 DEF GateInv
    <3> SUFFICES ASSUME worker[v].pc = "run" PROVE RunHolds(v)'
      BY <3>1 DEF RunHolds, Behind
    <3>2. PICK j : j = worker[v].id
      OBVIOUS
    <3>3. /\ \A u \in Worker \ {v} : worker[u].pc = "run" => worker[u].id # j
          /\ wake[j].state \in {"running", "suppressed"}
          /\ wake[j].day = Day(worker[v].at) /\ wake[j].reserved = worker[v].reserve
          /\ j \in DOMAIN wake
      BY <1>4, <3>1, <3>2, WorkerNumbers DEF RunHolds
    <3>4. ClaimWritten(w) => j # i
      BY <2>2, <3>2 DEF Unattended
    <3>5. \A u \in Worker \ {v} : worker'[u].pc = "run" => worker'[u].id # j
      <4> SUFFICES ASSUME NEW u \in Worker \ {v}, worker'[u].pc = "run" PROVE worker'[u].id # j
        OBVIOUS
      <4>1. CASE u = w
        BY <1>1, <2>2, <2>3, <3>4, <4>1
      <4>2. CASE u # w
        BY <1>1, <3>3, <4>2 DEF Behind
      <4> QED BY <4>1, <4>2
    <3>6. /\ wake'[j].state \in {"running", "suppressed"}
          /\ wake'[j].day = wake[j].day /\ wake'[j].reserved = wake[j].reserved
      <4>1. CASE j # i
        BY <1>1, <3>3, <4>1
      <4>2. CASE j = i
        <5>1. EndWritten(w) /\ worker[w].pc # "run"
          BY <1>1, <2>4, <2>5, <3>2, <3>4, <4>2
        <5>2. wake'[i].state = "suppressed"
          BY <1>0, <3>3, <4>2, <5>1 DEF EndWritten
        <5> QED BY <2>3, <4>2, <5>1, <5>2
      <4> QED BY <4>1, <4>2
    <3>7. worker'[v].id = j /\ Day(worker'[v].at) = Day(worker[v].at) /\ ~worker'[v].fresh
          /\ worker'[v].reserve = worker[v].reserve
      BY <3>1, <3>2 DEF Behind
    <3> QED BY <3>3, <3>5, <3>6, <3>7 DEF RunHolds
  <2>6. RunHolds(w)'
    <3>1. CASE EndWritten(w)
      BY <2>3, <3>1 DEF RunHolds
    <3>2. CASE ClaimWritten(w)
      <4>1. \A v \in Worker \ {w} : worker'[v].pc = "run" => worker'[v].id # i
        BY <1>1, <2>2, <3>2 DEF Behind, Unattended
      <4> QED BY <2>2, <3>2, <4>1 DEF RunHolds
    <3> QED BY <1>1, <3>1, <3>2
  <2>7. ASSUME NEW j \in DOMAIN wake' PROVE WakeHolds(j)'
    <3>1. WakeHolds(j) /\ j \in DOMAIN wake
      BY <1>1, <2>7 DEF GateInv
    <3>2. CASE j # i
      <4>1. wake'[j] = wake[j]
        BY <1>1, <3>1, <3>2
      <4> QED BY <1>1, <3>1, <4>1 DEF WakeHolds, Day
    <3>3. CASE j = i
      <4>1. Day(now)' = Day(now) /\ policy' = policy
        BY <1>1 DEF Day
      <4>2. CASE EndWritten(w)
        <5>1. Day(wake'[i].started) = Day(wake[i].started)
          BY <2>3, <4>2
        <5>2. PICK n : n = wake[i].attempts /\ n \in Nat
          BY <1>1, WakeNumbers
        <5>3. n + 1 # 0
          BY <5>2
        <5>4. \/ wake'[i].state \in {"suppressed"}
              \/ wake[i].state = "new" /\ wake'[i].state = "queued" /\ wake'[i].attempts = wake[i].attempts
              \/ wake'[i].state = "completed" /\ Day(wake'[i].ended) = e /\ wake[i].day = e
              \/ wake'[i].state = "queued" /\ wake'[i].attempts = 1 /\ ~IsReview(i) /\ wake[i].state = "running"
              \/ wake[i].state = "running" /\ wake'[i].state = "running"
          BY <1>0, <2>4, <4>2 DEF EndWritten
        <5> QED BY <1>4, <2>3, <3>1, <3>3, <4>1, <4>2, <5>1, <5>4 DEF WakeHolds
      <4>3. CASE ClaimWritten(w)
        <5>1. Day(wake'[i].started) <= e /\ (~IsReview(i) => Day(wake'[i].started) = e)
          <6>1. CASE IsReview(i) /\ wake[i].state = "running"
            <7>1. wake'[i].started = wake[i].started
              BY <1>0, <2>2, <4>3, <6>1 DEF StartOf
            <7>2. Day(wake[i].started) <= wake[i].day /\ wake[i].day <= e
              BY <1>1, <1>4, <2>2, <3>1, <3>3, <4>3, <6>1 DEF WakeHolds
            <7> QED BY <1>1, <2>1, <6>1, <7>1, <7>2, WakeNumbers
          <6>2. CASE ~(IsReview(i) /\ wake[i].state = "running")
            <7>1. Day(wake'[i].started) = e
              BY <1>0, <2>2, <4>3, <6>2 DEF StartOf
            <7> QED BY <2>1, <7>1
          <6> QED BY <6>1, <6>2
        <5> QED BY <2>1, <2>2, <3>3, <4>1, <4>3, <5>1 DEF WakeHolds, Never
      <4> QED BY <1>1, <4>2, <4>3
    <3> QED BY <3>2, <3>3
  <2>8. MeterHolds'
    <3> SUFFICES ASSUME NEW j \in WakeId, NEW d \in Days, meter[j][d] > 0
                 PROVE  j \in DOMAIN wake /\ wake'[j].day >= d
      BY <1>1 DEF MeterHolds
    <3>1. j \in DOMAIN wake /\ wake[j].day >= d /\ wake[j].day \in Int
      BY <1>4, WakeNumbers DEF GateInv, MeterHolds
    <3>2. CASE j # i
      BY <1>1, <3>1, <3>2
    <3>3. CASE j = i
      <4>1. d \in Int
        BY Bounds DEF Days
      <4>2. CASE EndWritten(w)
        BY <2>3, <3>1, <3>3, <4>2
      <4>3. CASE ClaimWritten(w)
        <5>1. wake[i].day <= e /\ wake'[i].day = e
          BY <1>1, <2>2, <4>3
        <5> QED BY <2>1, <3>1, <3>3, <4>1, <5>1
      <4> QED BY <1>1, <4>2, <4>3
    <3> QED BY <3>2, <3>3
  <2> QED BY <1>2, <2>5, <2>6, <2>7, <2>8 DEF GateInv
<1> QED BY <1>3, <1>4

LEMMA GateStep ==
    ASSUME Typed, GateInv, [BudgetNext]_budgetVars
    PROVE  GateInv'
<1>1. CASE BudgetNext
  <2>1. ASSUME NEW w \in Worker, ReviewIsScheduled(w) PROVE GateInv'
    BY <2>1, ScheduledSteps, GateSchedules
  <2> QED BY <1>1, <2>1, Steps, GateTakes, GateLeaves, GateJoins, GateWrites, GateRound, GateTurns
<1>2. CASE UNCHANGED budgetVars
  <2>1. UNCHANGED <<now, policy, wake, meter, worker>>
    BY <1>2 DEF budgetVars
  <2>2. \A v \in Worker : ReservesOK(v)' /\ DecisionHolds(v)' /\ RunHolds(v)'
    BY <2>1, DecisionStays, RunStays DEF GateInv, ReservesOK
  <2>3. MeterHolds' /\ \A j \in DOMAIN wake' : WakeHolds(j)'
    BY <2>1 DEF GateInv, MeterHolds, WakeHolds, Day
  <2> QED BY <2>2, <2>3 DEF GateInv
<1> QED BY <1>1, <1>2

LEMMA GateInit ==
    ASSUME BudgetInit
    PROVE  GateInv
<1>1. Typed
  BY TypedInit
<1>2. \A w \in Worker : worker[w].pc = "idle"
  BY DEF BudgetInit, Idle
<1>3. \A i \in DOMAIN wake : wake[i].state = "new" /\ wake[i].day = Never
  BY DEF BudgetInit, NewWake
<1>4. \A i \in WakeId, d \in Days : meter[i][d] = 0
  BY DEF BudgetInit
<1>5. \A w \in Worker : ReservesOK(w) /\ DecisionHolds(w) /\ RunHolds(w)
  BY <1>2 DEF ReservesOK, DecisionHolds, RunHolds
<1>6. \A i \in DOMAIN wake : WakeHolds(i)
  BY <1>1, <1>3, DayOfNow DEF WakeHolds, Never
<1>7. MeterHolds
  BY <1>4 DEF MeterHolds
<1> QED BY <1>5, <1>6, <1>7 DEF GateInv

\* A step that begins a reserved run is a claim.
LEMMA ClaimingSteps ==
    ASSUME Typed, GateInv, [BudgetNext]_budgetVars, NEW w \in Worker,
           worker[w].pc = "claim", worker'[w].pc = "run", worker[w].reserve > 0
    PROVE  policy # NoPolicy /\ Unchanged(w)
<1>1. policy # NoPolicy
  BY DEF GateInv, ReservesOK
<1>2. BudgetNext
  BY DEF budgetVars
<1>3. ASSUME NEW v \in Worker, Writes(v) PROVE Unchanged(w)
  <2>1. CASE v = w
    BY <1>3, <2>1, WriteFields DEF ClaimWritten, EndWritten
  <2>2. CASE v # w
    BY <1>3, <2>2, WriteFields DEF Behind
  <2> QED BY <2>1, <2>2
<1>4. ASSUME NEW v \in Worker, Takes(v) \/ Leaves(v) PROVE FALSE
  <2>1. /\ worker \in [Worker -> WorkerRecord] /\ Idle.pc = "idle"
        /\ \A i \in DOMAIN wake : \A page : Take(v, i, page).pc # "run"
    BY TakeType DEF Typed, WorkersOK, Idle
  <2>2. ASSUME v # w PROVE worker'[w] = worker[w]
    BY <1>4, <2>1, <2>2 DEF Takes, Leaves
  <2>3. ASSUME v = w PROVE worker'[w].pc # "run"
    BY <1>4, <2>1, <2>3 DEF Takes, Leaves, Idle
  <2> QED BY <2>2, <2>3
<1>5. ASSUME NEW v \in Worker, Joins(v) PROVE FALSE
  BY <1>1, <1>5, GateJoins
<1>6. ASSUME NEW v \in Worker, Round(v) PROVE FALSE
  BY <1>6, RoundFields
<1>7. ASSUME NEW v \in Worker, ReviewIsScheduled(v) PROVE FALSE
  <2>1. PICK d, page, state : Schedules(v, d, page, state)
    BY <1>7, ScheduledSteps
  <2>2. worker'[v] = Idle /\ Idle.pc = "idle" /\ \A u \in Worker \ {v} : Behind(u)
    BY <2>1, ScheduledType DEF Schedules, Mark, After, Idle
  <2> QED BY <2>2 DEF Behind
<1>8. CASE Turns
  BY <1>8, WorldMovesType DEF Turns, Behind, Typed, WorkersOK
<1> QED BY <1>1, <1>2, <1>3, <1>4, <1>5, <1>6, <1>7, <1>8, Steps

\* Two wakes never both take the last of a day: when a reservation is written, the day still
\* has the calls it takes and a wake to spare, whatever was committed since the gate looked.
THEOREM GateGrantFits == BudgetSpec => GrantFits
<1> DEFINE I == Typed /\ GateInv
           Fits == \A w \in Worker :
                       LET i == worker[w].id
                           d == Day(worker[w].at) IN
                       worker[w].pc = "claim" /\ worker'[w].pc = "run" /\ worker[w].reserve > 0
                       => Remaining(i, d) >= worker[w].reserve /\ WakesLeft(i, d)
<1>1. BudgetInit => I
  BY TypedInit, GateInit
<1>2. I /\ [BudgetNext]_budgetVars => I'
  BY TypedStep, GateStep
<1>3. I /\ [BudgetNext]_budgetVars => [Fits]_budgetVars
  <2> SUFFICES ASSUME Typed, GateInv, [BudgetNext]_budgetVars, NEW w \in Worker,
                      worker[w].pc = "claim", worker'[w].pc = "run", worker[w].reserve > 0
               PROVE  Remaining(worker[w].id, Day(worker[w].at)) >= worker[w].reserve
                      /\ WakesLeft(worker[w].id, Day(worker[w].at))
    OBVIOUS
  <2>1. policy # NoPolicy /\ Unchanged(w)
    BY ClaimingSteps
  <2> QED BY <2>1, ClaimHolds
<1>4. [][Fits]_budgetVars <=> GrantFits
  BY DEF GrantFits
<1> HIDE DEF I, Fits
<1> QED BY <1>1, <1>2, <1>3, <1>4, PTL DEF BudgetSpec

-----------------------------------------------------------------------------
(* A day within its cap.                                                   *)

LEMMA SumZero ==
    ASSUME NEW f, NEW S, IsFiniteSet(S), \A x \in S : f[x] = 0
    PROVE  SumFunctionOnSet(f, S) = 0
<1> DEFINE T == {X \in SUBSET S : SumFunctionOnSet(f, X) # 0}
<1> SUFFICES ASSUME T # {} PROVE FALSE
  OBVIOUS
<1>1. T \subseteq SUBSET S
  OBVIOUS
<1>2. PICK X \in T : \A Y \in T : ~(Y \subseteq X /\ Y # X)
  <2> HIDE DEF T
  <2> QED BY <1>1, MinimalSubset
<1>3. IsFiniteSet(X)
  BY FS_Subset
<1>4. SumFunctionOnSet(f, X) = IF X = {} THEN 0 ELSE f[Some(X)] + SumFunctionOnSet(f, X \ {Some(X)})
  BY <1>3, SumUnfolds
<1>5. X # {} => Some(X) \in X
  BY DEF Some
<1>6. X # {} => f[Some(X)] = 0 /\ SumFunctionOnSet(f, X \ {Some(X)}) = 0
  BY <1>2, <1>5
<1>7. SumFunctionOnSet(f, X) # 0
  OBVIOUS
<1> HIDE DEF T
<1> QED BY <1>4, <1>6, <1>7

LEMMA CapType ==
    ASSUME Typed, policy # NoPolicy
    PROVE  LargestCap \in Nat /\ policy.calls \in Nat /\ policy.calls <= LargestCap
<1> DEFINE S == {p.calls : p \in Policy}
<1>1. policy \in Policy /\ \A p \in Policy : p.calls \in Nat
  BY BudgetAssumption DEF Typed, ClockOK
<1>2. IsFiniteSet(S)
  <2>1. [p \in Policy |-> p.calls] \in Surjection(Policy, S)
    BY DEF Surjection
  <2> HIDE DEF S
  <2> QED BY <2>1, BudgetAssumption, FS_Surjection
<1>3. policy.calls \in S /\ \A x \in S : x \in Nat
  BY <1>1
<1> HIDE DEF S
<1>4. Max(S) \in S /\ policy.calls <= Max(S)
  BY <1>2, <1>3, MaxIsLargest
<1> QED BY <1>3, <1>4 DEF LargestCap, S

LEMMA DueType ==
    ASSUME Typed, NEW i \in DOMAIN wake, NEW d \in Days
    PROVE  Due(i, d) \in Nat
BY WakeNumbers DEF Due

LEMMA DueTypeNext ==
    ASSUME Typed', NEW i \in DOMAIN wake', i \in WakeId, NEW d \in Days
    PROVE  Due(i, d)' \in Nat
<1>1. wake'[i] \in LooseWake
  BY DEF Typed, WakesOK
<1>2. meter'[i] \in [Days -> 0 .. MaxMetered]
  BY DEF Typed, RecordsOK
<1>3. wake'[i].reserved \in Nat /\ meter'[i][d] \in Nat
  BY <1>1, <1>2, Bounds DEF LooseWake
<1> QED BY <1>3 DEF Due

LEMMA DueOnType ==
    ASSUME Typed, NEW d \in Days
    PROVE  DueOn(d) \in Nat
<1> DEFINE f == [i \in DOMAIN wake |-> Due(i, d)]
<1>1. \A i \in DOMAIN wake : f[i] \in Nat
  BY DueType
<1>2. IsFiniteSet(DOMAIN wake)
  BY Population
<1> HIDE DEF f
<1>3. SumFunctionOnSet(f, DOMAIN wake) \in Nat
  BY <1>1, <1>2, SumType
<1> QED BY <1>3 DEF DueOn, f

\* A day stays within its cap if it stays plain and no wake comes to more than before.
LEMMA DayStays ==
    ASSUME Typed, Typed', NEW d \in Days, policy # NoPolicy, DayHolds, DOMAIN wake' = DOMAIN wake,
           Plain(d)' => Plain(d) /\ \A i \in DOMAIN wake : Due(i, d)' <= Due(i, d)
    PROVE  Plain(d)' => DueOn(d)' <= LargestCap
<1> SUFFICES ASSUME Plain(d)' PROVE DueOn(d)' <= LargestCap
  OBVIOUS
<1>1. PICK f, g : f = [i \in DOMAIN wake |-> Due(i, d)'] /\ g = [i \in DOMAIN wake |-> Due(i, d)]
  OBVIOUS
<1>2. \A i \in DOMAIN wake : f[i] \in Nat /\ g[i] \in Nat /\ f[i] <= g[i]
  <2>1. \A i \in DOMAIN wake : i \in DOMAIN wake' /\ i \in WakeId
    BY Population
  <2> QED BY <1>1, <2>1, DueType, DueTypeNext
<1>3. IsFiniteSet(DOMAIN wake)
  BY Population
<1>4. SumFunctionOnSet(f, DOMAIN wake) <= SumFunctionOnSet(g, DOMAIN wake)
  BY <1>2, <1>3, SumMonotone
<1>5. SumFunctionOnSet(f, DOMAIN wake) \in Nat
  BY <1>2, <1>3, SumType
<1>6. DueOn(d) = SumFunctionOnSet(g, DOMAIN wake) /\ DueOn(d)' = SumFunctionOnSet(f, DOMAIN wake)
  BY <1>1 DEF DueOn
<1>7. DueOn(d) <= LargestCap
  BY DEF DayHolds
<1> QED BY <1>4, <1>5, <1>6, <1>7, DueOnType, CapType

\* A step that moves neither the wakes nor the ledger.
LEMMA DayIdle ==
    ASSUME Typed, DayInv, UNCHANGED <<wake, meter>>, policy' = NoPolicy <=> policy = NoPolicy,
           \A v \in Worker : worker'[v].pc = "run" => worker'[v] = worker[v] \/ policy = NoPolicy
                                                      \/ (worker[v].pc = "run" /\ Behind(v))
    PROVE  DayInv'
<1>1. ASSUME NEW v \in Worker PROVE RunCovered(v)'
  <2>1. RunCovered(v)
    BY DEF DayInv
  <2> QED BY <2>1 DEF RunCovered, Behind, Day
<1>2. \A i \in DOMAIN wake' : WakeCovered(i)'
  BY DEF DayInv, WakeCovered
<1>3. DayHolds'
  <2>1. \A d \in Days : Plain(d)' <=> Plain(d)
    BY DEF Plain, Day
  <2>2. \A i, d : Due(i, d)' = Due(i, d)
    BY DEF Due
  <2>3. \A d : [i \in DOMAIN wake |-> Due(i, d)]' = [i \in DOMAIN wake |-> Due(i, d)]
    BY <2>2
  <2>4. \A d : DueOn(d)' = DueOn(d)
    BY <2>3 DEF DueOn
  <2> QED BY <2>1, <2>4 DEF DayInv, DayHolds
<1> QED BY <1>1, <1>2, <1>3 DEF DayInv

LEMMA DayRound ==
    ASSUME Typed, Typed', GateInv, DayInv, NEW w \in Worker, Round(w)
    PROVE  DayInv'
<1>0. PICK i, e : i = worker[w].id /\ e = Day(worker[w].at)
  OBVIOUS
<1>1. /\ UNCHANGED <<now, policy, wake>> /\ worker[w].pc = "run" /\ worker[w].ran < worker[w].limit
      /\ worker'[w].ran = worker[w].ran + 1
      /\ \A v \in Worker \ {w} : worker'[v] = worker[v]
      /\ worker'[w].pc = worker[w].pc /\ worker'[w].id = i
      /\ worker'[w].at = worker[w].at /\ worker'[w].limit = worker[w].limit
      /\ \A j \in WakeId, d \in Days :
            meter'[j][d] = IF j = i /\ d = e THEN meter[j][d] + 1 ELSE meter[j][d]
  BY <1>0, RoundFields
<1>2. i \in DOMAIN wake /\ e \in Days /\ i \in WakeId
  BY <1>0, <1>1, WorkerNumbers, Population
<1>3. policy # NoPolicy => /\ wake[i].state \in {"running", "suppressed"} /\ wake[i].day = e
                           /\ \A v \in Worker \ {w} : worker[v].pc = "run" => worker[v].id # i
  BY <1>0, <1>1 DEF GateInv, RunHolds
<1>4. PICK m, l, r, q : m = meter[i][e] /\ l = worker[w].limit /\ r = worker[w].ran /\ q = wake[i].reserved
  OBVIOUS
<1>5. m \in Nat /\ l \in Nat /\ r \in Nat /\ q \in Nat
  BY <1>2, <1>4, WakeNumbers, WorkerNumbers
<1>6. policy # NoPolicy /\ wake[i].attempts = 0 => m + l - r <= q
  BY <1>0, <1>1, <1>4 DEF DayInv, RunCovered
<1>7. ASSUME NEW v \in Worker PROVE RunCovered(v)'
  <2> SUFFICES ASSUME policy # NoPolicy, worker'[v].pc = "run", wake[worker'[v].id].attempts = 0
               PROVE  meter'[worker'[v].id][Day(worker'[v].at)] + worker'[v].limit - worker'[v].ran
                        <= wake[worker'[v].id].reserved
    BY <1>1 DEF RunCovered, Day
  <2>1. CASE v = w
    <3>1. meter'[i][e] = m + 1
      BY <1>1, <1>2, <1>4
    <3>2. m + 1 + l - (r + 1) <= q
      BY <1>1, <1>5, <1>6, <2>1
    <3> QED BY <1>0, <1>1, <1>4, <2>1, <3>1, <3>2
  <2>2. CASE v # w
    <3>1. worker'[v] = worker[v] /\ worker[v].id # i /\ worker[v].id \in WakeId /\ Day(worker[v].at) \in Days
      BY <1>1, <1>3, <2>2, WorkerNumbers, Population
    <3>2. RunCovered(v)
      BY DEF DayInv
    <3> QED BY <1>1, <3>1, <3>2 DEF RunCovered
  <2> QED BY <2>1, <2>2
<1>8. ASSUME NEW j \in DOMAIN wake' PROVE WakeCovered(j)'
  <2> SUFFICES ASSUME policy # NoPolicy, wake[j].state = "running", wake[j].attempts = 0,
                      NEW d \in Days, wake[j].day = d
               PROVE  meter'[j][d] <= wake[j].reserved
    BY <1>1 DEF WakeCovered
  <2>1. CASE j = i
    <3>1. d = e /\ meter'[i][e] = m + 1
      BY <1>1, <1>2, <1>3, <1>4, <2>1
    <3> QED BY <1>1, <1>4, <1>5, <1>6, <2>1, <3>1
  <2>2. CASE j # i
    <3>1. meter'[j][d] = meter[j][d] /\ WakeCovered(j)
      BY <1>1, <2>2, Population DEF DayInv
    <3> QED BY <3>1 DEF WakeCovered
  <2> QED BY <2>1, <2>2
<1>9. DayHolds'
  <2> SUFFICES ASSUME policy # NoPolicy, NEW d \in Days PROVE Plain(d)' => DueOn(d)' <= LargestCap
    BY <1>1 DEF DayHolds
  <2>1. ASSUME NEW j \in DOMAIN wake PROVE Due(j, d)' <= Due(j, d)
    <3>1. CASE j = i
      BY <1>1, <1>2, <1>3, <3>1, DueType DEF Due
    <3>2. CASE j # i
      <4>1. meter'[j][d] = meter[j][d]
        BY <1>1, <3>2, Population
      <4> QED BY <1>1, <4>1, DueType DEF Due
    <3> QED BY <3>1, <3>2
  <2>2. Plain(d)' => Plain(d)
    <3> SUFFICES ASSUME Plain(d)', NEW j \in DOMAIN wake, wake[j].state = "suppressed"
                 PROVE  meter[j][d] = 0
      BY <1>1 DEF Plain, Day
    <3>1. meter'[j][d] = 0 /\ j \in WakeId /\ meter[j][d] \in Nat
      BY <1>1, Population, WakeNumbers DEF Plain
    <3> QED BY <1>1, <3>1
  <2> QED BY <1>1, <2>1, <2>2, DayStays DEF DayInv
<1> QED BY <1>7, <1>8, <1>9 DEF DayInv

\* A wake that was never half done has spent nothing on the day its claim is decided on.
LEMMA ClaimIsFirst ==
    ASSUME Typed, GateInv, policy # NoPolicy, NEW i \in DOMAIN wake, NEW d \in Days,
           wake[i].state \in Open, wake[i].attempts = 0, wake[i].day <= d, ~AlreadyReserved(i, d)
    PROVE  meter[i][d] = 0
<1>1. wake[i].day \in Int /\ meter[i][d] \in Nat /\ i \in WakeId /\ d \in Nat
  BY WakeNumbers, Population, Bounds DEF Days
<1>2. ~(wake[i].day >= d)
  <2>1. WakeHolds(i)
    BY DEF GateInv
  <2>2. CASE wake[i].state = "running"
    BY <1>1, <2>2 DEF AlreadyReserved
  <2>3. CASE wake[i].state # "running"
    <3>1. wake[i].day = Never
      BY <2>1, <2>3 DEF WakeHolds, Open
    <3> QED BY <1>1, <3>1 DEF Never
  <2> QED BY <2>2, <2>3
<1> QED BY <1>1, <1>2 DEF GateInv, MeterHolds

\* On a plain day, up to which no wake has reserved further, the gate charges for every wake
\* what it may come to.
LEMMA DueIsCharged ==
    ASSUME Typed, GateInv, policy # NoPolicy, NEW j \in DOMAIN wake, NEW d \in Days,
           wake[j].day <= d, wake[j].attempts = 0,
           wake[j].day >= d => Day(wake[j].started) >= d,
           wake[j].state = "suppressed" => meter[j][d] = 0
    PROVE  Due(j, d) <= Charged(j, d)
<1>1. PICK m, y, s : m = meter[j][d] /\ y = wake[j].day /\ s = Day(wake[j].started)
  OBVIOUS
<1>2. m \in Nat /\ y \in Int /\ s \in Int /\ d \in Nat /\ wake[j].reserved \in Nat
  BY <1>1, WakeNumbers, Bounds DEF Days
<1>3. WakeHolds(j) /\ (m > 0 => y >= d) /\ Charged(j, d) \in Nat
  BY <1>1, Population, ChargedType DEF GateInv, MeterHolds
<1>4. m > 0 => y = d /\ y # Never
  BY <1>1, <1>2, <1>3 DEF Never
<1>5. wake[j].state \in Open \cup {"completed", "suppressed"}
  BY WakeNumbers
<1>6. CASE wake[j].state = "suppressed"
  BY <1>3, <1>6 DEF Due
<1>7. CASE wake[j].state \in {"new", "queued"}
  <2>1. y = Never
    BY <1>1, <1>3, <1>7 DEF WakeHolds
  <2>2. m = 0
    BY <1>2, <1>4, <2>1
  <2> QED BY <1>1, <1>3, <1>7, <2>2 DEF Due
<1>8. CASE wake[j].state = "running"
  <2>1. wake[j].reserved > 0 /\ s <= y
    BY <1>1, <1>3, <1>8 DEF WakeHolds
  <2>2. CASE y = d
    <3>1. s = d
      BY <1>1, <1>2, <2>1, <2>2
    <3>2. Charged(j, d) = wake[j].reserved
      BY <1>1, <1>8, <2>1, <3>1 DEF Charged
    <3>3. Due(j, d) = wake[j].reserved
      BY <1>1, <1>8, <2>2 DEF Due
    <3> QED BY <1>2, <3>2, <3>3
  <2>3. CASE y # d
    <3>1. Due(j, d) = m /\ m = 0
      BY <1>1, <1>2, <1>4, <1>8, <2>3 DEF Due
    <3> QED BY <1>3, <3>1
  <2> QED BY <2>2, <2>3
<1>9. CASE wake[j].state = "completed"
  <2>1. Day(wake[j].ended) = y /\ Due(j, d) = m
    BY <1>1, <1>3, <1>9 DEF WakeHolds, Due
  <2>2. CASE m > 0
    <3>1. Charged(j, d) = m
      BY <1>1, <1>4, <1>9, <2>1, <2>2 DEF Charged
    <3> QED BY <1>2, <2>1, <3>1
  <2>3. CASE ~(m > 0)
    BY <1>2, <1>3, <2>1, <2>3
  <2> QED BY <2>2, <2>3
<1> QED BY <1>5, <1>6, <1>7, <1>8, <1>9 DEF Open

\* The day a claim reserves on: what the others may come to is what the gate has charged for
\* them, and the reservation fits into the rest.
LEMMA DayClaimed ==
    ASSUME Typed, Typed', GateInv, policy # NoPolicy, NEW w \in Worker, Writes(w), ClaimWritten(w),
           NEW d, d = Day(worker[w].at), Plain(d)'
    PROVE  DueOn(d)' <= LargestCap
<1>0. PICK i, n : i = worker[w].id /\ n = worker[w].reserve
  OBVIOUS
<1>1. /\ DOMAIN wake' = DOMAIN wake /\ i \in DOMAIN wake /\ UNCHANGED <<now, policy, meter>>
      /\ \A j \in DOMAIN wake : j # i => wake'[j] = wake[j]
  BY <1>0, WriteFields
<1>2. d \in Days /\ n \in Nat
  BY <1>0, WorkerNumbers DEF ClaimWritten
<1>3. n > 0 /\ Remaining(i, d) >= n /\ \A j \in DOMAIN wake : wake[j].day <= d
  BY <1>0, ClaimHolds DEF ClaimWritten
<1>4. wake'[i].state = "running" /\ wake'[i].reserved = n /\ wake'[i].day = d
  BY <1>0, <1>3 DEF ClaimWritten
<1>5. PICK f, g : f = [j \in DOMAIN wake |-> Due(j, d)'] /\ g = [j \in DOMAIN wake |-> Charged(j, d)]
  OBVIOUS
<1>6. f[i] = n
  BY <1>1, <1>4, <1>5 DEF Due
<1>7. ASSUME NEW j \in Others(i)
      PROVE  f[j] \in Nat /\ g[j] \in Nat /\ f[j] <= g[j]
  <2>1. j \in DOMAIN wake /\ j # i /\ wake'[j] = wake[j]
    BY <1>1 DEF Others
  <2>2. Due(j, d)' = Due(j, d)
    BY <1>1, <2>1 DEF Due
  <2>3. /\ wake[j].attempts = 0 /\ (wake[j].day >= d => Day(wake[j].started) >= d)
        /\ wake[j].state = "suppressed" => meter[j][d] = 0
    BY <1>1, <2>1 DEF Plain, Day
  <2>4. Due(j, d) <= Charged(j, d)
    BY <1>2, <1>3, <2>1, <2>3, DueIsCharged
  <2> QED BY <1>2, <1>5, <2>1, <2>2, <2>4, DueType, ChargedType
<1>8. IsFiniteSet(DOMAIN wake) /\ IsFiniteSet(Others(i)) /\ Others(i) = DOMAIN wake \ {i}
  BY Population, FS_Subset, DOMAIN wake \ {i} \in SUBSET DOMAIN wake DEF Others
<1>9. SumFunctionOnSet(f, Others(i)) <= SumFunctionOnSet(g, Others(i))
  BY <1>7, <1>8, SumMonotone
<1>10. SumFunctionOnSet(f, Others(i)) \in Nat
  BY <1>7, <1>8, SumType
<1>11. SumFunctionOnSet(g, Others(i)) = UsedCalls(i, d)
  BY <1>5 DEF UsedCalls
<1>12. SumFunctionOnSet(f, DOMAIN wake) = n + SumFunctionOnSet(f, Others(i))
  <2>1. \A j \in DOMAIN wake : f[j] \in Nat
    BY <1>2, <1>6, <1>7, <1>8
  <2> QED BY <1>1, <1>6, <1>8, <2>1, SumRemove
<1>13. DueOn(d)' = SumFunctionOnSet(f, DOMAIN wake)
  BY <1>1, <1>5 DEF DueOn
<1>14. UsedCalls(i, d) \in Nat /\ OwnCalls(i, d) \in Nat /\ policy.calls \in Nat /\ LargestCap \in Nat
       /\ policy.calls <= LargestCap
  BY <1>1, <1>2, UsedType, CapType
<1>15. policy.calls - UsedCalls(i, d) - OwnCalls(i, d) >= n
  BY <1>3 DEF Remaining
<1> QED BY <1>2, <1>9, <1>10, <1>11, <1>12, <1>13, <1>14, <1>15

\* On any other day a claim changes nothing, and neither does the end of a run, unless it
\* gives back what its wake had reserved.
LEMMA DayElsewhere ==
    ASSUME Typed, Typed', GateInv, DayInv, policy # NoPolicy, NEW w \in Worker, Writes(w), NEW d \in Days,
           EndWritten(w) \/ (ClaimWritten(w) /\ d # Day(worker[w].at)),
           Plain(d)'
    PROVE  Plain(d) /\ \A j \in DOMAIN wake : Due(j, d)' <= Due(j, d)
<1>0. PICK i, e : i = worker[w].id /\ e = Day(worker[w].at)
  OBVIOUS
<1>1. /\ DOMAIN wake' = DOMAIN wake /\ i \in DOMAIN wake /\ UNCHANGED <<now, policy, meter>>
      /\ \A j \in DOMAIN wake : j # i => wake'[j] = wake[j]
  BY <1>0, WriteFields
<1>2. /\ wake[i].attempts \in Nat /\ wake[i].day \in Int /\ wake[i].reserved \in Nat
      /\ Day(wake[i].started) \in Int /\ meter[i][d] \in Nat /\ d \in Nat
  BY <1>1, WakeNumbers, Bounds DEF Days
<1>3. /\ wake'[i].attempts = 0 /\ (wake'[i].day >= d => Day(wake'[i].started) >= d)
      /\ wake'[i].state = "suppressed" => meter[i][d] = 0
  BY <1>1 DEF Plain, Day
<1>4. WakeHolds(i) /\ WakeCovered(i)
  BY <1>1 DEF GateInv, DayInv
<1>5. wake[i].state \in Open /\ wake[i].attempts = 0
  <2>1. CASE EndWritten(w)
    <3>1. wake[i].attempts + 1 # 0
      BY <1>2
    <3>2. wake[i].attempts = 0
      BY <1>0, <1>3, <2>1, <3>1 DEF EndWritten
    <3>3. wake[i].state \in Open
      BY <1>0, <2>1 DEF EndWritten, Open
    <3> QED BY <3>2, <3>3
  <2>2. CASE ClaimWritten(w)
    BY <1>0, <1>3, <2>2 DEF ClaimWritten
  <2> QED BY <2>1, <2>2
<1>6. wake[i].day >= d => Day(wake[i].started) >= d
  <2>1. CASE EndWritten(w)
    BY <1>0, <1>3, <2>1 DEF EndWritten
  <2>2. CASE ClaimWritten(w)
    <3> SUFFICES ASSUME wake[i].day >= d PROVE Day(wake[i].started) >= d
      OBVIOUS
    <3>1. wake[i].day # Never /\ wake[i].day <= e /\ e \in Nat
      <4>1. wake[i].day <= e
        BY <1>0, <1>1, <2>2, ClaimHolds DEF ClaimWritten
      <4>2. e \in Nat
        BY <1>0, <2>2, WorkerNumbers DEF ClaimWritten
      <4> QED BY <1>2, <4>1, <4>2 DEF Never
    <3>2. wake'[i].day = e
      BY <1>0, <2>2, ClaimHolds DEF ClaimWritten
    <3>3. CASE IsReview(i)
      <4>1. wake[i].state = "running"
        BY <1>4, <1>5, <3>1, <3>3 DEF WakeHolds, Open
      <4>2. wake'[i].started = wake[i].started
        BY <1>0, <2>2, <3>3, <4>1 DEF ClaimWritten, StartOf
      <4> QED BY <1>2, <1>3, <3>1, <3>2, <4>2
    <3>4. CASE ~IsReview(i)
      BY <1>4, <3>1, <3>4 DEF WakeHolds
    <3> QED BY <3>3, <3>4
  <2> QED BY <2>1, <2>2
<1>7. Plain(d)
  <2> SUFFICES ASSUME NEW j \in DOMAIN wake
               PROVE  /\ wake[j].attempts = 0
                      /\ wake[j].day >= d => Day(wake[j].started) >= d
                      /\ wake[j].state = "suppressed" => meter[j][d] = 0
    BY DEF Plain
  <2>1. CASE j # i
    <3>1. wake'[j] = wake[j]
      BY <1>1, <2>1
    <3> QED BY <1>1, <3>1 DEF Plain, Day
  <2>2. CASE j = i
    BY <1>5, <1>6, <2>2 DEF Open
  <2> QED BY <2>1, <2>2
<1>8. Due(i, d)' <= Due(i, d)
  <2>1. meter[i][d] <= Due(i, d) /\ Due(i, d) \in Nat
    BY <1>1, <1>2, <1>4, <1>5, DueType DEF Due, WakeCovered, Open
  <2>2. Due(i, d)' \in {0, meter[i][d], Due(i, d)}
    <3>1. CASE EndWritten(w)
      <4>1. wake[i].attempts + 1 # 0
        BY <1>2
      <4>2. wake'[i].state # "running"
        BY <1>0, <1>3, <1>5, <3>1, <4>1 DEF EndWritten
      <4> QED BY <1>1, <4>2 DEF Due
    <3>2. CASE ClaimWritten(w) /\ d # e
      <4>1. wake'[i].day # d
        BY <1>0, <3>2, ClaimHolds DEF ClaimWritten
      <4> QED BY <1>1, <4>1 DEF Due
    <3> QED BY <1>0, <3>1, <3>2
  <2> QED BY <1>2, <2>1, <2>2
<1>9. \A j \in DOMAIN wake : j # i => Due(j, d)' <= Due(j, d)
  BY <1>1, DueType DEF Due
<1> QED BY <1>7, <1>8, <1>9

LEMMA DayWrites ==
    ASSUME Typed, Typed', GateInv, DayInv, NEW w \in Worker, Writes(w)
    PROVE  DayInv'
<1>0. PICK i, e : i = worker[w].id /\ e = Day(worker[w].at)
  OBVIOUS
<1>1. /\ DOMAIN wake' = DOMAIN wake /\ i \in DOMAIN wake /\ UNCHANGED <<now, policy, meter>>
      /\ \A j \in DOMAIN wake : j # i => wake'[j] = wake[j]
      /\ \A v \in Worker \ {w} : Behind(v)
      /\ ClaimWritten(w) \/ EndWritten(w)
  BY <1>0, WriteFields
<1>2. CASE policy = NoPolicy
  BY <1>1, <1>2 DEF DayInv, RunCovered, WakeCovered, DayHolds
<1>3. CASE policy # NoPolicy
  <2>1. ClaimWritten(w) =>
          /\ Unattended(i) /\ worker[w].reserve > 0 /\ worker[w].reserve = worker[w].limit
          /\ wake'[i].day = e /\ wake'[i].reserved = worker[w].reserve /\ e \in Days
          /\ wake'[i].attempts = wake[i].attempts
          /\ (wake[i].attempts = 0 => meter[i][e] = 0)
    <3> SUFFICES ASSUME ClaimWritten(w)
                 PROVE  /\ Unattended(i) /\ worker[w].reserve > 0 /\ worker[w].reserve = worker[w].limit
                        /\ wake'[i].day = e /\ wake'[i].reserved = worker[w].reserve /\ e \in Days
                        /\ wake'[i].attempts = wake[i].attempts
                        /\ (wake[i].attempts = 0 => meter[i][e] = 0)
      OBVIOUS
    <3>1. worker[w].pc = "claim" /\ Unchanged(w) /\ wake[i].state \in Open /\ wake'[i].attempts = wake[i].attempts
      BY <1>0 DEF ClaimWritten
    <3>2. /\ worker[w].reserve > 0 /\ worker[w].reserve = worker[w].limit /\ Unattended(i)
          /\ ~AlreadyReserved(i, e) /\ wake[i].day <= e
      BY <1>0, <1>1, <1>3, <3>1, ClaimHolds
    <3>3. e \in Days
      BY <1>0, <3>1, WorkerNumbers
    <3>4. wake[i].attempts = 0 => meter[i][e] = 0
      BY <1>1, <1>3, <3>1, <3>2, <3>3, ClaimIsFirst
    <3>5. wake'[i].day = e /\ wake'[i].reserved = worker[w].reserve
      BY <1>0, <3>2 DEF ClaimWritten
    <3> QED BY <3>1, <3>2, <3>3, <3>4, <3>5
  <2>2. ASSUME NEW v \in Worker PROVE RunCovered(v)'
    <3>1. CASE v = w
      <4>1. CASE EndWritten(w)
        BY <3>1, <4>1 DEF EndWritten, RunCovered
      <4>2. CASE ClaimWritten(w)
        <5>1. worker'[w].id = i /\ Day(worker'[w].at) = e /\ worker'[w].limit = worker[w].limit
              /\ worker'[w].ran = worker[w].ran
          BY <1>0, <4>2 DEF ClaimWritten
        <5>2. worker[w].limit \in Nat /\ worker[w].ran \in Nat
          BY WorkerNumbers
        <5>3. wake[i].attempts = 0 => 0 + worker[w].limit - worker[w].ran <= worker[w].reserve
          BY <2>1, <4>2, <5>2
        <5>4. Day(worker[w].at)' = e
          BY <5>1 DEF Day
        <5> QED BY <1>1, <2>1, <3>1, <4>2, <5>1, <5>3, <5>4 DEF RunCovered
      <4> QED BY <1>1, <4>1, <4>2
    <3>2. CASE v # w
      <4>1. Behind(v) /\ RunCovered(v)
        BY <1>1, <3>2 DEF DayInv
      <4> SUFFICES ASSUME worker[v].pc = "run" PROVE RunCovered(v)'
        BY <4>1 DEF Behind, RunCovered
      <4>2. PICK j : j = worker[v].id
        OBVIOUS
      <4>3. wake'[j].attempts = wake[j].attempts /\ wake'[j].reserved = wake[j].reserved
        <5>1. CASE j # i
          <6>1. j \in DOMAIN wake
            BY <4>2, WorkerNumbers
          <6> QED BY <1>1, <5>1, <6>1
        <5>2. CASE j = i
          <6>1. ~ClaimWritten(w)
            BY <2>1, <4>2, <5>2 DEF Unattended
          <6>2. worker[w].pc # "run" /\ wake[j].state \in {"running", "suppressed"}
            BY <1>0, <1>3, <3>2, <4>2, <5>2 DEF GateInv, RunHolds
          <6>3. EndWritten(w)
            BY <1>1, <6>1
          <6> QED BY <1>0, <5>2, <6>2, <6>3 DEF EndWritten
        <5> QED BY <5>1, <5>2
      <4>4. /\ worker'[v].id = j /\ Day(worker[v].at)' = Day(worker[v].at)
            /\ worker'[v].limit = worker[v].limit /\ worker'[v].ran = worker[v].ran
        BY <4>1, <4>2 DEF Behind, Day
      <4> QED BY <1>1, <1>3, <4>1, <4>2, <4>3, <4>4 DEF RunCovered
    <3> QED BY <3>1, <3>2
  <2>3. ASSUME NEW j \in DOMAIN wake' PROVE WakeCovered(j)'
    <3>1. CASE j # i
      <4>1. wake'[j] = wake[j] /\ WakeCovered(j)
        BY <1>1, <3>1 DEF DayInv
      <4> QED BY <1>1, <4>1 DEF WakeCovered
    <3>2. CASE j = i
      <4>1. CASE EndWritten(w)
        <5>1. wake[i].attempts + 1 # 0
          BY <1>1, WakeNumbers
        <5>2. wake'[i].state = "running" => wake'[i].attempts # 0
          BY <1>0, <4>1, <5>1 DEF EndWritten
        <5> QED BY <3>2, <5>2 DEF WakeCovered
      <4>2. CASE ClaimWritten(w)
        <5>1. wake[i].attempts = 0 => meter[i][e] <= worker[w].reserve
          <6>1. worker[w].reserve \in Nat
            BY WorkerNumbers
          <6> QED BY <2>1, <4>2, <6>1
        <5> QED BY <1>1, <2>1, <3>2, <4>2, <5>1 DEF WakeCovered
      <4> QED BY <1>1, <4>1, <4>2
    <3> QED BY <3>1, <3>2
  <2>4. DayHolds'
    <3> SUFFICES ASSUME NEW d \in Days, Plain(d)' PROVE DueOn(d)' <= LargestCap
      BY DEF DayHolds
    <3>1. CASE ClaimWritten(w) /\ d = e
      BY <1>0, <1>3, <3>1, DayClaimed
    <3>2. CASE ~(ClaimWritten(w) /\ d = e)
      <4>1. Plain(d) /\ \A j \in DOMAIN wake : Due(j, d)' <= Due(j, d)
        BY <1>0, <1>1, <1>3, <3>2, DayElsewhere
      <4> QED BY <1>1, <1>3, <4>1, DayStays DEF DayInv
    <3> QED BY <3>1, <3>2
  <2> QED BY <2>2, <2>3, <2>4 DEF DayInv
<1> QED BY <1>2, <1>3

LEMMA DaySchedules ==
    ASSUME Typed, Typed', GateInv, DayInv, NEW w \in Worker, NEW d, NEW page, NEW state, Schedules(w, d, page, state)
    PROVE  DayInv'
<1>0. PICK n : n = Latest + 1
  OBVIOUS
<1>1. /\ UNCHANGED <<now, policy, meter>> /\ n \notin DOMAIN wake /\ n \in 1 .. MaxReviews
      /\ state \in {"new", "suppressed"}
      /\ wake' = [i \in DOMAIN wake \cup {n} |-> IF i = n THEN [NewWake EXCEPT !.state = state] ELSE wake[i]]
      /\ worker' = After(w, n, Idle)
  BY <1>0 DEF Schedules, Mark
<1>2. worker'[w] = Idle /\ Idle.pc = "idle" /\ \A v \in Worker \ {w} : Behind(v)
  BY <1>1, ScheduledType DEF After, Idle
<1>3. /\ DOMAIN wake' = DOMAIN wake \cup {n} /\ \A i \in DOMAIN wake : wake'[i] = wake[i]
      /\ wake'[n].state = state
  BY <1>1 DEF NewWake
<1>4. ASSUME NEW v \in Worker PROVE RunCovered(v)'
  <2>1. CASE v = w
    BY <1>2, <2>1 DEF RunCovered
  <2>2. CASE v # w
    <3>1. Behind(v) /\ RunCovered(v) /\ (worker[v].pc = "run" => worker[v].id \in DOMAIN wake)
      BY <1>2, <2>2, WorkerNumbers DEF DayInv
    <3> QED BY <1>1, <1>3, <3>1 DEF RunCovered, Behind, Day
  <2> QED BY <2>1, <2>2
<1>5. ASSUME NEW j \in DOMAIN wake' PROVE WakeCovered(j)'
  <2>1. CASE j \in DOMAIN wake
    <3>1. wake'[j] = wake[j] /\ WakeCovered(j)
      BY <1>3, <2>1 DEF DayInv
    <3> QED BY <1>1, <3>1 DEF WakeCovered
  <2>2. CASE j = n
    BY <1>1, <1>3, <2>2 DEF WakeCovered
  <2> QED BY <1>3, <2>1, <2>2
<1>6. DayHolds'
  <2> SUFFICES ASSUME policy # NoPolicy, NEW k \in Days, Plain(k)' PROVE DueOn(k)' <= LargestCap
    BY <1>1 DEF DayHolds
  <2>1. Plain(k)
    BY <1>1, <1>3 DEF Plain, Day
  <2>2. DueOn(k) <= LargestCap
    BY <2>1 DEF DayInv, DayHolds
  <2>3. PICK f, g : f = [j \in DOMAIN wake \cup {n} |-> Due(j, k)'] /\ g = [j \in DOMAIN wake |-> Due(j, k)]
    OBVIOUS
  <2>4. f[n] = 0
    <3>1. n \in WakeId /\ meter[n][k] \in Nat
      <4>1. n \in WakeId /\ MaxMetered \in Nat
        BY <1>1, Bounds DEF WakeId
      <4>2. meter[n] \in [Days -> 0 .. MaxMetered]
        BY <4>1 DEF Typed, RecordsOK
      <4> QED BY <4>1, <4>2
    <3>2. meter[n][k] = 0
      BY <1>1, <3>1 DEF GateInv, MeterHolds
    <3> QED BY <1>1, <1>3, <2>3, <3>2 DEF Due
  <2>5. \A j \in DOMAIN wake : f[j] \in Nat /\ f[j] = g[j]
    BY <1>1, <1>3, <2>3, DueType DEF Due
  <2>6. IsFiniteSet(DOMAIN wake) /\ IsFiniteSet(DOMAIN wake \cup {n})
    BY Population, FS_AddElement
  <2>7. SumFunctionOnSet(f, DOMAIN wake) = SumFunctionOnSet(g, DOMAIN wake)
    BY <2>5, <2>6, SumSame
  <2>8. SumFunctionOnSet(f, DOMAIN wake \cup {n}) = f[n] + SumFunctionOnSet(f, (DOMAIN wake \cup {n}) \ {n})
    <3>1. \A j \in DOMAIN wake \cup {n} : f[j] \in Nat
      BY <2>4, <2>5
    <3> QED BY <2>6, <3>1, SumRemove
  <2>9. (DOMAIN wake \cup {n}) \ {n} = DOMAIN wake
    BY <1>1
  <2>10. DueOn(k) = SumFunctionOnSet(g, DOMAIN wake) /\ DueOn(k)' = SumFunctionOnSet(f, DOMAIN wake \cup {n})
    BY <1>3, <2>3 DEF DueOn
  <2> QED BY <2>2, <2>4, <2>7, <2>8, <2>9, <2>10, DueOnType
<1> QED BY <1>4, <1>5, <1>6 DEF DayInv

LEMMA DayStep ==
    ASSUME Typed, GateInv, DayInv, [BudgetNext]_budgetVars
    PROVE  DayInv'
<1>1. Typed'
  BY TypedStep
<1>2. CASE BudgetNext
  <2>1. policy' = NoPolicy <=> policy = NoPolicy
    BY <1>2, PolicyStays
  <2>2. ASSUME NEW w \in Worker, ReviewIsScheduled(w) PROVE DayInv'
    BY <1>1, <2>2, ScheduledSteps, DaySchedules
  <2>3. ASSUME NEW w \in Worker, Takes(w) \/ Leaves(w) PROVE DayInv'
    <3>1. /\ worker \in [Worker -> WorkerRecord] /\ Idle.pc = "idle"
          /\ \A i \in DOMAIN wake : \A page : Take(w, i, page).pc # "run"
      BY TakeType DEF Typed, WorkersOK, Idle
    <3>2. UNCHANGED <<wake, meter>>
      BY <2>3 DEF Takes, Leaves
    <3>3. \A v \in Worker : worker'[v].pc = "run" => worker'[v] = worker[v]
      <4>1. \A v \in Worker \ {w} : worker'[v] = worker[v]
        BY <2>3, <3>1 DEF Takes, Leaves
      <4>2. worker'[w].pc # "run"
        BY <2>3, <3>1 DEF Takes, Leaves, Idle
      <4> QED BY <4>1, <4>2
    <3> QED BY <2>1, <3>2, <3>3, DayIdle
  <2>4. ASSUME NEW w \in Worker, Joins(w) PROVE DayInv'
    <3>1. policy = NoPolicy
      BY <2>4, GateJoins
    <3> QED BY <2>1, <2>4, <3>1, DayIdle DEF Joins
  <2>5. CASE Turns
    <3>1. \A v \in Worker : worker'[v] = worker[v] \/ (worker'[v].pc = worker[v].pc /\ Behind(v))
      BY <2>5, WorldMovesType DEF Turns, Behind, Typed, WorkersOK
    <3> QED BY <2>1, <2>5, <3>1, DayIdle DEF Turns
  <2> QED BY <1>1, <1>2, <2>2, <2>3, <2>4, <2>5, Steps, DayWrites, DayRound
<1>3. CASE UNCHANGED budgetVars
  BY <1>3, DayIdle DEF budgetVars
<1> QED BY <1>2, <1>3

LEMMA DayInit ==
    ASSUME BudgetInit
    PROVE  DayInv
<1>1. Typed
  BY TypedInit
<1>2. /\ \A w \in Worker : worker[w].pc = "idle"
      /\ \A i \in DOMAIN wake : wake[i].state = "new"
      /\ \A i \in WakeId, d \in Days : meter[i][d] = 0
  BY DEF BudgetInit, Idle, NewWake
<1>3. (\A w \in Worker : RunCovered(w)) /\ \A i \in DOMAIN wake : WakeCovered(i)
  BY <1>2 DEF RunCovered, WakeCovered
<1>4. DayHolds
  <2> SUFFICES ASSUME policy # NoPolicy, NEW d \in Days PROVE DueOn(d) <= LargestCap
    BY DEF DayHolds
  <2>1. PICK f : f = [i \in DOMAIN wake |-> Due(i, d)]
    OBVIOUS
  <2>2. \A i \in DOMAIN wake : f[i] = 0
    BY <1>1, <1>2, <2>1, Population DEF Due
  <2>3. SumFunctionOnSet(f, DOMAIN wake) = 0
    BY <1>1, <2>2, Population, SumZero
  <2> QED BY <1>1, <2>1, <2>3, CapType DEF DueOn
<1> QED BY <1>3, <1>4 DEF DayInv

\* The ledger of a plain day never exceeds what the wakes may come to.
LEMMA SpentIsDue ==
    ASSUME Typed, DayInv, policy # NoPolicy, NEW d \in Days, Plain(d)
    PROVE  SpentOn(d) <= LargestCap
<1>1. PICK f, g : f = [i \in DOMAIN wake |-> meter[i][d]] /\ g = [i \in DOMAIN wake |-> Due(i, d)]
  OBVIOUS
<1>2. ASSUME NEW i \in DOMAIN wake PROVE f[i] \in Nat /\ g[i] \in Nat /\ f[i] <= g[i]
  <2>1. meter[i][d] \in Nat /\ Due(i, d) \in Nat
    BY WakeNumbers, DueType
  <2>2. /\ wake[i].attempts = 0 /\ (wake[i].state = "suppressed" => meter[i][d] = 0)
        /\ WakeCovered(i)
    BY DEF Plain, DayInv
  <2>3. meter[i][d] <= Due(i, d)
    BY <2>1, <2>2 DEF Due, WakeCovered
  <2> QED BY <1>1, <2>1, <2>3
<1>3. IsFiniteSet(DOMAIN wake)
  BY Population
<1>4. SumFunctionOnSet(f, DOMAIN wake) <= SumFunctionOnSet(g, DOMAIN wake)
  BY <1>2, <1>3, SumMonotone
<1>5. SumFunctionOnSet(f, DOMAIN wake) \in Nat
  BY <1>2, <1>3, SumType
<1>6. DueOn(d) <= LargestCap /\ DueOn(d) \in Nat /\ LargestCap \in Nat
  BY DueOnType, CapType DEF DayInv, DayHolds
<1> QED BY <1>1, <1>4, <1>5, <1>6 DEF SpentOn, DueOn

\* The ledger of a day on which nothing was resumed stays within the cap: reservations bound
\* what the runs under way may still spend, and crashes leave them in place.
THEOREM DayStaysWithinCap == BudgetSpec => []DayWithinCap
<1> DEFINE I == Typed /\ GateInv /\ DayInv
<1>1. BudgetInit => I
  BY TypedInit, GateInit, DayInit
<1>2. I /\ [BudgetNext]_budgetVars => I'
  BY TypedStep, GateStep, DayStep
<1>3. I => DayWithinCap
  BY SpentIsDue DEF DayWithinCap
<1> QED BY <1>1, <1>2, <1>3, PTL DEF BudgetSpec

=============================================================================
