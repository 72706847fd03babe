---------------------------- MODULE CognitionProofs ----------------------------
(***************************************************************************)
(* Proofs about Cognition: its types, that a correction reaches everything *)
(* that rests on what it corrects, that a policy request has one effect    *)
(* and rests on cases that hold, and that no current summary shows what    *)
(* has been corrected.                                                     *)
(***************************************************************************)
EXTENDS Cognition, FiniteSetTheorems, SequenceTheorems, TLAPS

-----------------------------------------------------------------------------
(* The invariant.                                                          *)

\* What a revision may say.
Sound(x, r, refs) ==
    /\ r.life \in Lives /\ r.stale \in BOOLEAN /\ r.basis \subseteq refs
    /\ x[1] \in Claim => r.life \in DOMAIN ClaimMoves
    /\ x[1] \in Event => r.life \in DOMAIN EventMoves

\* What a first revision, and a summary, names is on record.
OnRecord(x, r, links) == (x[1] \in Window \/ x[2] = 1) /\ ~r.stale => Links(x, r.basis) \subseteq links

\* The revisions of an object are 1, 2, ... up to the newest.
Numbered(x) ==
    /\ x = <<x[1], x[2]>> /\ x[2] \in 1 .. Rev(x[1])
    /\ \A n \in 1 .. Rev(x[1]) : <<x[1], n>> \in References

Stored ==
    /\ IsFiniteSet(References)
    /\ \A x \in References : Numbered(x)
    /\ \A x \in References : Sound(x, version[x], References) /\ OnRecord(x, version[x], edge)
    /\ edge \subseteq References \X References

\* Revisions and links that can be added to a world that has at least refs.
Writable(new, links, refs) ==
    /\ IsFiniteSet(DOMAIN new)
    /\ \A x \in DOMAIN new :
          /\ x = <<x[1], x[2]>>
          /\ Sound(x, new[x], refs \cup DOMAIN new) /\ OnRecord(x, new[x], links)
    /\ links \subseteq (refs \cup DOMAIN new) \X (refs \cup DOMAIN new)

\* What a correction is about to write is a new revision of one claim or event and the marks
\* of all that depends on it.
CorrectionStands(new) ==
    \E x \in References :
        /\ x[1] \in Claim \cup Event
        /\ \A y \in Impacted(x) : IsNewest(y) => Next1(y) \in DOMAIN new /\ new[Next1(y)].stale
        /\ \A z \in References : Next1(z) \in DOMAIN new => z = x \/ (z \in Impacted(x) /\ new[Next1(z)].stale)
        /\ \A y \in DOMAIN new : new[y].by = NoRequest /\ (y[1] \in Window => new[y].stale)

\* What a policy change is about to write is a version that rests on cases.
ChangeStands(new, request) ==
    /\ \A z \in References : Next1(z) \in DOMAIN new => z[1] \in Policy
    /\ \A y \in DOMAIN new :
          /\ y[1] \notin Window
          /\ new[y].by # NoRequest =>
                /\ new[y].by = request
                /\ \A s \in new[y].basis : s \in DOMAIN new /\ \A z \in new[s].basis : IsCase(z)

Stands(r) == IF r.by = NoRequest THEN CorrectionStands(r.new) ELSE ChangeStands(r.new, r.by)

\* A worker can write what it decided on, and while it is fresh all it looked at still holds.
Ready(r) ==
    /\ r = [new |-> r.new, links |-> r.links, by |-> r.by, fresh |-> r.fresh]
    /\ r.fresh \in BOOLEAN
    /\ Writable(r.new, r.links, References)
    /\ r.fresh => Stands(r)

WorkersHold == DOMAIN worker = plan.worker /\ \A w \in plan.worker : Ready(worker[w])

SweepHolds ==
    /\ sweep \in [pc : {"resting", "next", "selected", "asked", "committed"}, todo : Seq(Window),
                  sources : SUBSET References, fresh : BOOLEAN]
    /\ sweep.pc # "resting" => sweep.todo # <<>>
    /\ derived \subseteq References /\ failures \in 0 .. plan.failures

\* What current summaries are made of: whole, and nothing corrected in it.
Current(S) ==
    /\ S \subseteq References
    /\ \A v \in Window : Summarized(v) => <<v, Rev(v)>> \in S
    /\ \A y \in S : y[1] \in Window => ~version[y].stale /\ version[y].basis \subseteq S
    /\ \A y \in S : y[1] \notin Window => y[1] \notin Policy /\ Admissible(y)

CognitionInv ==
    /\ plan \in Plan /\ Stored /\ WorkersHold /\ SweepHolds
    /\ \E S \in SUBSET References : Current(S)

-----------------------------------------------------------------------------
(* Closures. The least set that holds S and what follows from its members. *)

\* Among subsets of a finite set there is one that has no other of them below it.
LEMMA MinimalSubset ==
    ASSUME NEW S, IsFiniteSet(S), NEW T, T \subseteq SUBSET S, T # {}
    PROVE  \E X \in T : \A Y \in T : ~(Y \subseteq X /\ Y # X)
<1> DEFINE R == StrictSubsetOrdering(S)
<1>1. IsWellFoundedOn(R, SUBSET S)
  BY FS_StrictSubsetOrderingWellFounded, FS_FiniteSubsetsOfFinite
<1>2. \A X, Y \in SUBSET S : Y \subseteq X /\ Y # X => <<Y, X>> \in R
  BY DEF StrictSubsetOrdering
<1> HIDE DEF R
<1>3. \E X \in T : \A Y \in T : ~ (<<Y, X>> \in R)
  BY <1>1, WFMin
<1> QED BY <1>2, <1>3

Further(next, T) == T \cup UNION {next[y] : y \in T}
Closed(next, T) == \A y \in T : next[y] \subseteq T
Least(next, S) == {u \in DOMAIN next : \A T \in SUBSET DOMAIN next : S \subseteq T /\ Closed(next, T) => u \in T}

\* The function by which Reached is computed.
Walk(g, next) == g = [T \in SUBSET DOMAIN next |-> IF Further(next, T) = T THEN T ELSE g[Further(next, T)]]

LEMMA ReachedIsWalk ==
    ASSUME NEW next, NEW S
    PROVE  Reached(next, S) = (CHOOSE g : Walk(g, next))[S]
BY DEF Reached, Walk, Further

\* One step further does not change what is reached.
LEMMA LeastFurther ==
    ASSUME NEW next, next \in [DOMAIN next -> SUBSET DOMAIN next], NEW T \in SUBSET DOMAIN next
    PROVE  /\ Further(next, T) \in SUBSET DOMAIN next
           /\ T \subseteq Further(next, T)
           /\ Least(next, Further(next, T)) = Least(next, T)
           /\ Further(next, T) = T => Least(next, T) = T
<1>1. Further(next, T) \in SUBSET DOMAIN next /\ T \subseteq Further(next, T)
  BY DEF Further
<1>2. ASSUME NEW C \in SUBSET DOMAIN next, Closed(next, C)
      PROVE  Further(next, T) \subseteq C <=> T \subseteq C
  BY <1>2 DEF Further, Closed
<1>3. Least(next, Further(next, T)) = Least(next, T)
  BY <1>2 DEF Least
<1>4. ASSUME Further(next, T) = T PROVE Least(next, T) = T
  <2>1. Closed(next, T)
    BY <1>4 DEF Further, Closed
  <2> QED BY <2>1 DEF Least
<1> QED BY <1>1, <1>3, <1>4

\* The walk ends at the least closed set, from wherever it starts.
LEMMA WalkIsLeast ==
    ASSUME NEW next, next \in [DOMAIN next -> SUBSET DOMAIN next], IsFiniteSet(DOMAIN next),
           NEW g, Walk(g, next), NEW S \in SUBSET DOMAIN next
    PROVE  g[S] = Least(next, S)
<1> DEFINE U == DOMAIN next
           Bad == {X \in SUBSET U : g[U \ X] # Least(next, U \ X)}
<1>0. Bad \subseteq SUBSET U
  OBVIOUS
<1>1. Bad = {}
  <2> SUFFICES ASSUME Bad # {} PROVE FALSE
    OBVIOUS
  <2>1. PICK X \in Bad : \A Y \in Bad : ~(Y \subseteq X /\ Y # X)
    <3> HIDE DEF Bad, U
    <3>1. IsFiniteSet(U)
      BY DEF U
    <3> QED BY <1>0, <3>1, MinimalSubset
  <2> DEFINE T == U \ X
             F == Further(next, T)
  <2>2. T \in SUBSET U /\ X \in SUBSET U
    OBVIOUS
  <2>3. g[T] = IF F = T THEN T ELSE g[F]
    BY <2>2 DEF Walk
  <2>4. /\ F \in SUBSET U /\ T \subseteq F /\ Least(next, F) = Least(next, T)
        /\ F = T => Least(next, T) = T
    BY <2>2, LeastFurther
  <2>5. g[T] # Least(next, T)
    OBVIOUS
  <2>6. F # T /\ g[F] # Least(next, F)
    <3> HIDE DEF F, T
    <3> QED BY <2>3, <2>4, <2>5
  <2>7. U \ (U \ F) = F /\ U \ F \in SUBSET U /\ U \ F \subseteq X /\ U \ F # X
    <3> HIDE DEF F
    <3> QED BY <2>2, <2>4, <2>6
  <2>8. U \ F \in Bad
    <3> HIDE DEF F, T
    <3> QED BY <2>6, <2>7
  <2> HIDE DEF Bad, F, T, U
  <2> QED BY <2>1, <2>7, <2>8
<1>2. U \ S \in SUBSET U /\ U \ (U \ S) = S
  OBVIOUS
<1> QED BY <1>1, <1>2

\* There is such a walk.
LEMMA WalkExists ==
    ASSUME NEW next, next \in [DOMAIN next -> SUBSET DOMAIN next]
    PROVE  \E g : Walk(g, next)
<1> DEFINE h == [T \in SUBSET DOMAIN next |-> Least(next, T)]
<1>1. ASSUME NEW T \in SUBSET DOMAIN next
      PROVE  h[T] = IF Further(next, T) = T THEN T ELSE h[Further(next, T)]
  BY LeastFurther
<1>2. Walk(h, next)
  <2>1. h = [T \in SUBSET DOMAIN next |-> h[T]]
    OBVIOUS
  <2> HIDE DEF h
  <2> QED BY <1>1, <2>1 DEF Walk
<1> QED BY <1>2

\* What is reached holds where one starts, is closed, and is in every such set.
LEMMA ReachedIsLeast ==
    ASSUME NEW next, next \in [DOMAIN next -> SUBSET DOMAIN next], IsFiniteSet(DOMAIN next),
           NEW S \in SUBSET DOMAIN next
    PROVE  /\ S \subseteq Reached(next, S) /\ Reached(next, S) \subseteq DOMAIN next
           /\ Closed(next, Reached(next, S))
           /\ \A T \in SUBSET DOMAIN next : S \subseteq T /\ Closed(next, T) => Reached(next, S) \subseteq T
<1>1. Walk(CHOOSE g : Walk(g, next), next)
  BY WalkExists
<1>2. Reached(next, S) = Least(next, S)
  BY <1>1, ReachedIsWalk, WalkIsLeast
<1>3. Closed(next, Least(next, S))
  <2> SUFFICES ASSUME NEW y \in Least(next, S), NEW z \in next[y] PROVE z \in Least(next, S)
    BY DEF Closed
  <2>1. y \in DOMAIN next /\ z \in DOMAIN next
    BY DEF Least
  <2>2. ASSUME NEW T \in SUBSET DOMAIN next, S \subseteq T, Closed(next, T) PROVE z \in T
    <3>1. y \in T
      BY <2>2 DEF Least
    <3> QED BY <2>2, <3>1 DEF Closed
  <2> QED BY <2>1, <2>2 DEF Least
<1>4. S \subseteq Least(next, S) /\ Least(next, S) \subseteq DOMAIN next
  BY DEF Least
<1>5. \A T \in SUBSET DOMAIN next : S \subseteq T /\ Closed(next, T) => Least(next, S) \subseteq T
  BY DEF Least
<1> QED BY <1>2, <1>3, <1>4, <1>5

-----------------------------------------------------------------------------
(* Numbering of revisions, and what a write adds.                          *)

Of(id) == {x \in References : x[1] = id}

LEMMA RevisionCount ==
    ASSUME Stored, NEW id
    PROVE  /\ IsFiniteSet(Of(id)) /\ Rev(id) = Cardinality(Of(id)) /\ Rev(id) \in Nat
           /\ Rev(id) > 0 => <<id, Rev(id)>> \in References
           /\ \A x \in References : x[1] = id => Rev(id) > 0
<1>1. IsFiniteSet(Of(id))
  BY FS_Subset DEF Stored, Of
<1>2. Rev(id) = Cardinality(Of(id)) /\ Rev(id) \in Nat
  BY <1>1, FS_CardinalityType DEF Rev, Of
<1>3. ASSUME Rev(id) > 0 PROVE <<id, Rev(id)>> \in References
  <2>1. PICK x \in Of(id) : TRUE
    BY <1>2, <1>3, FS_EmptySet
  <2>2. Numbered(x) /\ x[1] = id
    BY <2>1 DEF Stored, Of
  <2> QED BY <1>2, <1>3, <2>2 DEF Numbered
<1>4. ASSUME NEW x \in References, x[1] = id PROVE Rev(id) > 0
  <2>1. Numbered(x)
    BY DEF Stored
  <2> QED BY <1>2, <1>4, <2>1 DEF Numbered
<1> QED BY <1>1, <1>2, <1>3, <1>4

\* The next revision of an object is not there yet, and is the only one a commit may write.
LEMMA NextIsNew ==
    ASSUME Stored, NEW x, x = <<x[1], x[2]>>, Follows(x)
    PROVE  x \notin References /\ x[2] \in Nat \ {0} /\ x = <<x[1], Rev(x[1]) + 1>>
<1>1. Rev(x[1]) \in Nat
  BY RevisionCount
<1>2. x \notin References
  <2> SUFFICES ASSUME x \in References PROVE FALSE
    OBVIOUS
  <2>1. Numbered(x)
    BY DEF Stored
  <2> QED BY <1>1, <2>1 DEF Numbered, Follows
<1> QED BY <1>1, <1>2 DEF Follows

Pairs(new) == \A x \in DOMAIN new : x = <<x[1], x[2]>>

LEMMA WriteReferences ==
    ASSUME Stored, NEW new, NEW links, Written(new, links), Pairs(new)
    PROVE  /\ References' = References \cup DOMAIN new
           /\ \A x \in DOMAIN new : x \notin References /\ version'[x] = new[x] /\ Follows(x)
           /\ \A x \in References : x \notin DOMAIN new /\ version'[x] = version[x]
           /\ edge' = edge \cup links
<1>1. version' = [x \in References \cup DOMAIN new |-> IF x \in DOMAIN new THEN new[x] ELSE version[x]]
  BY DEF Written
<1>2. References' = References \cup DOMAIN new
  BY <1>1 DEF References
<1>3. \A x \in DOMAIN new : x \notin References /\ Follows(x)
  BY NextIsNew DEF Written, Pairs
<1> QED BY <1>1, <1>2, <1>3 DEF Written

\* An object has one revision more if it is written.
LEMMA WriteRevisions ==
    ASSUME Stored, NEW new, NEW links, Written(new, links), Pairs(new), NEW id
    PROVE  /\ (\E x \in DOMAIN new : x[1] = id) =>
                 <<id, Rev(id) + 1>> \in DOMAIN new /\ Rev(id)' = Rev(id) + 1
           /\ (\A x \in DOMAIN new : x[1] # id) => Rev(id)' = Rev(id)
<1>1. References' = References \cup DOMAIN new
  BY WriteReferences
<1>2. Rev(id)' = Cardinality({x \in References' : x[1] = id})
  BY DEF Rev
<1>3. ASSUME NEW y \in DOMAIN new, y[1] = id
      PROVE  <<id, Rev(id) + 1>> \in DOMAIN new /\ Rev(id)' = Rev(id) + 1
  <2> DEFINE z == <<id, Rev(id) + 1>>
  <2>1. \A x \in DOMAIN new : x[1] = id => x = z
    BY NextIsNew DEF Written, Pairs
  <2>2. z \in DOMAIN new /\ z \notin References /\ z[1] = id
    BY <1>3, <2>1, WriteReferences
  <2> HIDE DEF z
  <2>3. {x \in References' : x[1] = id} = Of(id) \cup {z}
    BY <1>1, <2>1, <2>2 DEF Of
  <2>4. z \notin Of(id)
    BY <2>2 DEF Of
  <2>5. Cardinality(Of(id) \cup {z}) = Cardinality(Of(id)) + 1
    BY <2>4, RevisionCount, FS_AddElement
  <2>6. Rev(id)' = Rev(id) + 1
    BY <1>2, <2>3, <2>5, RevisionCount
  <2> QED BY <2>2, <2>6 DEF z
<1>4. ASSUME \A x \in DOMAIN new : x[1] # id PROVE Rev(id)' = Rev(id)
  <2>1. {x \in References' : x[1] = id} = Of(id)
    BY <1>1, <1>4 DEF Of
  <2> QED BY <1>2, <2>1, RevisionCount
<1> QED BY <1>3, <1>4

LEMMA WritableGrows ==
    ASSUME NEW new, NEW links, NEW R, NEW S, R \subseteq S, Writable(new, links, R)
    PROVE  Writable(new, links, S)
BY DEF Writable, Sound

\* What is written as it may be leaves the world in order.
LEMMA WriteKeepsStore ==
    ASSUME Stored, NEW new, NEW links, Writable(new, links, References), Written(new, links)
    PROVE  Stored'
<1>0. Pairs(new)
  BY DEF Writable, Pairs
<1>1. /\ References' = References \cup DOMAIN new
      /\ \A x \in DOMAIN new : x \notin References /\ version'[x] = new[x] /\ Follows(x)
      /\ \A x \in References : x \notin DOMAIN new /\ version'[x] = version[x]
      /\ edge' = edge \cup links
  BY <1>0, WriteReferences
<1>2. IsFiniteSet(References')
  BY <1>1, FS_Union DEF Stored, Writable
<1>3. ASSUME NEW x \in References' PROVE Numbered(x)'
  <2>1. x = <<x[1], x[2]>>
    <3>1. CASE x \in References
      BY <3>1 DEF Stored, Numbered
    <3>2. CASE x \in DOMAIN new
      BY <3>2, <1>0 DEF Pairs
    <3> QED BY <1>1, <3>1, <3>2
  <2> DEFINE id == x[1]
  <2>2. Rev(id) \in Nat /\ (Rev(id) > 0 => <<id, Rev(id)>> \in References)
    BY RevisionCount
  <2>3. \A n \in 1 .. Rev(id) : <<id, n>> \in References
    <3>1. Rev(id) > 0 => Numbered(<<id, Rev(id)>>)
      BY <2>2 DEF Stored
    <3> QED BY <2>2, <3>1 DEF Numbered
  <2>4. x \in References => x[2] \in 1 .. Rev(id)
    BY DEF Stored, Numbered
  <2>5. x \in DOMAIN new => x[2] = Rev(id) + 1 /\ Rev(id)' = Rev(id) + 1
    BY <1>0, <1>1, WriteRevisions DEF Follows
  <2>6. \/ Rev(id)' = Rev(id)
        \/ Rev(id)' = Rev(id) + 1 /\ <<id, Rev(id) + 1>> \in DOMAIN new
    BY <1>0, WriteRevisions
  <2>7. x[2] \in 1 .. Rev(id)'
    BY <1>1, <2>2, <2>4, <2>5, <2>6
  <2>8. \A n \in 1 .. Rev(id)' : <<id, n>> \in References'
    BY <1>1, <2>2, <2>3, <2>6
  <2> QED BY <2>1, <2>7, <2>8 DEF Numbered
<1>4. ASSUME NEW x \in References' PROVE Sound(x, version'[x], References') /\ OnRecord(x, version'[x], edge')
  <2>1. CASE x \in References
    <3>1. Sound(x, version[x], References) /\ OnRecord(x, version[x], edge) /\ version'[x] = version[x]
      BY <1>1, <2>1 DEF Stored
    <3> QED BY <1>1, <3>1 DEF Sound, OnRecord
  <2>2. CASE x \in DOMAIN new
    <3>1. Sound(x, new[x], References \cup DOMAIN new) /\ OnRecord(x, new[x], links) /\ version'[x] = new[x]
      BY <1>1, <2>2 DEF Writable
    <3> QED BY <1>1, <3>1 DEF Sound, OnRecord
  <2> QED BY <1>1, <2>1, <2>2
<1>5. edge' \subseteq References' \X References'
  BY <1>1 DEF Stored, Writable
<1> QED BY <1>2, <1>3, <1>4, <1>5 DEF Stored

-----------------------------------------------------------------------------
(* What current summaries are made of survives a write that supersedes     *)
(* only B of it, if B holds every summary that rests on B.                 *)

LEMMA CurrentKept ==
    ASSUME Stored, NEW S, Current(S),
           NEW new, NEW links, Writable(new, links, References), Written(new, links),
           NEW B,
           \A y \in S : y[1] \in Window /\ version[y].basis \cap B # {} => y \in B,
           \A z \in S : z[1] \notin Window /\ Next1(z) \in DOMAIN new => z \in B,
           \A v \in Window : Rev(v) > 0 /\ <<v, Rev(v)>> \in B => <<v, Rev(v) + 1>> \in DOMAIN new,
           \A y \in DOMAIN new : y[1] \in Window => new[y].stale
    PROVE  Current(S \ B)'
<1>0. Pairs(new)
  BY DEF Writable, Pairs
<1>1. /\ References' = References \cup DOMAIN new
      /\ \A x \in DOMAIN new : version'[x] = new[x]
      /\ \A x \in References : version'[x] = version[x]
  BY <1>0, WriteReferences
<1>2. S \ B \subseteq References'
  BY <1>1 DEF Current
<1>3. ASSUME NEW v \in Window, Summarized(v)' PROVE <<v, Rev(v)'>> \in S \ B
  <2>1. Rev(v) \in Nat /\ (Rev(v) > 0 => <<v, Rev(v)>> \in References)
    BY RevisionCount
  <2>2. Rev(v)' > 0 /\ ~version'[<<v, Rev(v)'>>].stale
    BY <1>3 DEF Summarized
  <2>3. <<v, Rev(v) + 1>> \notin DOMAIN new
    <3> SUFFICES ASSUME <<v, Rev(v) + 1>> \in DOMAIN new PROVE FALSE
      OBVIOUS
    <3>1. Rev(v)' = Rev(v) + 1
      BY <1>0, WriteRevisions
    <3> QED BY <1>1, <2>2, <3>1
  <2>4. Rev(v)' = Rev(v)
    BY <1>0, <2>3, WriteRevisions
  <2>5. Summarized(v)
    BY <1>1, <2>1, <2>2, <2>4 DEF Summarized
  <2> QED BY <2>2, <2>3, <2>4, <2>5 DEF Current
<1>4. ASSUME NEW y \in S \ B, y[1] \in Window PROVE ~version'[y].stale /\ version'[y].basis \subseteq S \ B
  BY <1>1, <1>4 DEF Current
<1>5. ASSUME NEW y \in S \ B, y[1] \notin Window PROVE y[1] \notin Policy /\ Admissible(y)'
  <2>1. y \in References /\ y[1] \notin Policy /\ Admissible(y)
    BY <1>5 DEF Current
  <2>2. Next1(y) = <<y[1], Rev(y[1]) + 1>>
    BY <2>1 DEF Next1, Admissible, IsNewest
  <2>3. Rev(y[1])' = Rev(y[1])
    BY <1>0, <1>5, <2>2, WriteRevisions
  <2> QED BY <1>1, <2>1, <2>3 DEF Admissible, IsNewest
<1> QED BY <1>2, <1>3, <1>4, <1>5 DEF Current

\* A new summary is made of what is in its window, and of what the summaries there are made of.
LEMMA CurrentGrows ==
    ASSUME Stored, NEW S, Current(S), plan \in Plan,
           NEW v \in Window, NEW src, src \subseteq Selected(v), NEW links, NEW new, NEW x,
           x = <<v, Rev(v) + 1>>, new = [y \in {x} |-> Supported(src, "active")],
           Written(new, links)
    PROVE  Current(S \cup src \cup {x})'
<1>0. Pairs(new) /\ DOMAIN new = {x} /\ new[x].basis = src /\ ~new[x].stale
  <2>1. DOMAIN new = {x} /\ new[x] = Supported(src, "active") /\ x = <<x[1], x[2]>>
    OBVIOUS
  <2>2. Pairs(new)
    BY <2>1 DEF Pairs
  <2> QED BY <2>1, <2>2 DEF Supported
<1>1. /\ References' = References \cup {x}
      /\ version'[x] = new[x]
      /\ \A y \in References : y # x /\ version'[y] = version[y]
  BY <1>0, WriteReferences
<1>2. src \subseteq References
  BY DEF Selected
<1> DEFINE T == S \cup src \cup {x}
<1>3. T \subseteq References'
  BY <1>1, <1>2 DEF Current
<1>4. Rev(v)' = Rev(v) + 1 /\ \A u : u # v => Rev(u)' = Rev(u)
  <2>0. \A y \in DOMAIN new : y[1] = v
    BY <1>0
  <2>1. Rev(v)' = Rev(v) + 1
    BY <1>0, <2>0, WriteRevisions
  <2>2. ASSUME NEW u, u # v PROVE Rev(u)' = Rev(u)
    <3>1. \A y \in DOMAIN new : y[1] # u
      BY <2>0, <2>2
    <3> QED BY <1>0, <3>1, WriteRevisions
  <2> QED BY <2>1, <2>2
<1>5. ASSUME NEW u \in Window, Summarized(u)' PROVE <<u, Rev(u)'>> \in T
  <2>1. CASE u = v
    BY <1>4, <2>1
  <2>2. CASE u # v
    <3>1. Rev(u)' = Rev(u)
      BY <1>4, <2>2
    <3>2. Rev(u) \in Nat /\ (Rev(u) > 0 => <<u, Rev(u)>> \in References)
      BY RevisionCount
    <3>3. Summarized(u)
      BY <1>1, <1>5, <3>1, <3>2 DEF Summarized
    <3> QED BY <3>1, <3>3 DEF Current
  <2> QED BY <2>1, <2>2
<1>6. ASSUME NEW y \in src, y[1] \in Window PROVE y \in S
  <2>1. Admissible(y) /\ y \in References /\ Numbered(y)
    BY <1>2 DEF Selected, Stored
  <2>2. Rev(y[1]) \in Nat /\ y = <<y[1], Rev(y[1])>> /\ Rev(y[1]) > 0
    BY <2>1, RevisionCount DEF Admissible, IsNewest, Numbered
  <2>3. Summarized(y[1])
    BY <2>1, <2>2 DEF Summarized, Admissible
  <2> QED BY <1>6, <2>2, <2>3 DEF Current
<1>7. ASSUME NEW y \in src, y[1] \notin Window PROVE y[1] \notin Policy /\ Admissible(y)
  <2>1. Admissible(y) /\ InWindow(y, v)
    BY DEF Selected
  <2>2. Scope[v].of \subseteq Reality \cup Claim \cup Event \cup Turn
    BY CognitionAssumption
  <2>3. Policy \cap (Reality \cup Claim \cup Event \cup Turn \cup Window) = {} /\ Scope[v].below \subseteq Window
    BY CognitionAssumption
  <2>4. y[1] \notin Policy
    <3>1. CASE IsSet(y)
      BY <3>1 DEF IsSet
    <3>2. CASE ~IsSet(y)
      BY <2>1, <2>2, <2>3, <3>2 DEF InWindow
    <3> QED BY <3>1, <3>2
  <2> QED BY <2>1, <2>4
<1>8. ASSUME NEW y \in T, y[1] \in Window PROVE ~version'[y].stale /\ version'[y].basis \subseteq T
  <2>1. CASE y = x
    BY <1>0, <1>1, <2>1
  <2>2. CASE y \in S
    BY <1>1, <1>8, <2>2 DEF Current
  <2> QED BY <1>6, <1>8, <2>1, <2>2
<1>9. ASSUME NEW y \in T, y[1] \notin Window PROVE y[1] \notin Policy /\ Admissible(y)'
  <2>1. y # x /\ y \in References /\ y[1] \notin Policy /\ Admissible(y)
    BY <1>2, <1>7, <1>9 DEF Current
  <2>2. version'[y] = version[y] /\ Rev(y[1])' = Rev(y[1])
    BY <1>1, <1>4, <1>9, <2>1
  <2> QED BY <2>1, <2>2 DEF Admissible, IsNewest
<1> HIDE DEF T
<1>10. Current(T)'
  BY <1>3, <1>5, <1>8, <1>9 DEF Current
<1> QED BY <1>10 DEF T

-----------------------------------------------------------------------------
(* Every operation writes what may be written.                             *)

Citable == Reality \cup Claim \cup Event \cup Window

LEMMA SetsAreApart ==
    ASSUME NEW t \in Turn \cup Claim \cup Event \cup Policy, NEW n \in Nat, NEW S \in SUBSET (Citable \X Nat)
    PROVE  <<t, n, S>> \notin Named
<1>1. <<t, n, S>> \in SetName
  BY DEF SetName, Citable
<1> QED BY <1>1, CognitionAssumption

LEMMA KindsAreApart ==
    /\ Reality \cap (Claim \cup Event \cup Policy \cup Window) = {}
    /\ Claim \cap (Event \cup Policy \cup Window) = {}
    /\ Event \cap (Policy \cup Window) = {} /\ Policy \cap Window = {}
BY CognitionAssumption

LEMMA PlanIsOfKinds ==
    ASSUME plan \in Plan
    PROVE  /\ plan.known \subseteq Reality /\ plan.reality \subseteq Reality /\ IsFiniteSet(plan.known)
           /\ plan.claim \subseteq Claim /\ plan.event \subseteq Event /\ plan.policy \subseteq Policy
           /\ plan.citable \subseteq Citable /\ plan.ladder \in Seq(Window)
           /\ plan.revisions \in Nat /\ plan.failures \in Nat
BY CognitionAssumption DEF Citable

LEMMA CitationsAre ==
    ASSUME Stored, plan \in Plan, NEW cited \in Citations \cup {{}}
    PROVE  cited \subseteq References /\ cited \in SUBSET (Citable \X Nat)
<1>1. ASSUME NEW x \in cited PROVE x \in References /\ x \in Citable \X Nat
  <2>1. x \in References /\ x[1] \in plan.citable
    BY DEF Citations
  <2>2. Numbered(x) /\ Rev(x[1]) \in Nat
    BY <2>1, RevisionCount DEF Stored
  <2> QED BY <2>1, <2>2, PlanIsOfKinds DEF Numbered
<1> QED BY <1>1

\* First revisions, of no summary and no policy.
First(new) == \A x \in DOMAIN new : x[2] = 1 /\ x[1] \notin Window /\ new[x].by = NoRequest

LEMMA RealityWritable ==
    ASSUME Stored, plan \in Plan, NEW r \in plan.reality, NEW new, new = [x \in {<<r, 1>>} |-> Unborn]
    PROVE  Writable(new, {}, References) /\ First(new)
<1> DEFINE x == <<r, 1>>
<1>1. DOMAIN new = {x} /\ new[x] = Unborn /\ x = <<x[1], x[2]>> /\ x[1] = r /\ x[2] = 1
  OBVIOUS
<1>2. r \notin Claim /\ r \notin Event /\ r \notin Window
  BY PlanIsOfKinds, KindsAreApart
<1> HIDE DEF x
<1>3. Sound(x, Unborn, References \cup {x})
  BY <1>1, <1>2 DEF Sound, Unborn, Lives, EventMoves
<1>4. OnRecord(x, Unborn, {})
  BY DEF OnRecord, Unborn, Links
<1>5. IsFiniteSet({x})
  BY FS_Singleton
<1>6. Writable(new, {}, References)
  BY <1>1, <1>3, <1>4, <1>5 DEF Writable
<1>7. First(new)
  BY <1>1, <1>2 DEF First, Unborn
<1> QED BY <1>6, <1>7

LEMMA PairIsFinite ==
    ASSUME NEW a, NEW b
    PROVE  IsFiniteSet({a, b})
<1>1. IsFiniteSet({a}) /\ IsFiniteSet({b})
  BY FS_Singleton
<1>2. IsFiniteSet({a} \cup {b})
  BY <1>1, FS_Union
<1>3. {a, b} = {a} \cup {b}
  OBVIOUS
<1> QED BY <1>2, <1>3

LEMMA LivesAre ==
    /\ "active" \in Lives /\ "candidate" \in Lives
    /\ "active" \in DOMAIN ClaimMoves /\ "active" \in DOMAIN EventMoves /\ "candidate" \in DOMAIN EventMoves
    /\ DOMAIN ClaimMoves \subseteq Lives /\ DOMAIN EventMoves \subseteq Lives
BY DEF Lives, ClaimMoves, EventMoves

LEMMA SetUsedIs ==
    ASSUME Stored, NEW s
    PROVE  IF Rev(s) = 0 THEN SetUsed(s) = <<s, 1>> ELSE SetUsed(s) \in References
BY RevisionCount DEF SetUsed

LEMMA ClaimWritable ==
    ASSUME Stored, plan \in Plan, NEW c \in plan.claim, NEW cited \in Citations,
           NEW s, s = <<TurnOf[c], 1, cited>>, NEW new, new = ClaimBundle(c, s)
    PROVE  Writable(new, ClaimLinks(c, s), References) /\ First(new)
<1>1. c \in Claim /\ c \notin Event /\ c \notin Window
  BY PlanIsOfKinds, KindsAreApart
<1>2. cited \subseteq References /\ cited \in SUBSET (Citable \X Nat)
  BY CitationsAre
<1>3. s \notin Named
  BY <1>1, <1>2, CognitionAssumption, SetsAreApart
<1>4. s # c /\ s \notin Claim /\ s \notin Event /\ s \notin Window /\ s[3] = cited
  BY <1>1, <1>3 DEF Named
<1> DEFINE x == <<c, 1>>
           y == <<s, 1>>
           u == SetUsed(s)
<1>5. x = <<x[1], x[2]>> /\ x[1] = c /\ x[2] = 1 /\ y = <<y[1], y[2]>> /\ y[1] = s /\ y[2] = 1 /\ x # y
  BY <1>4
<1>6. IF Rev(s) = 0 THEN u = y ELSE u \in References
  BY SetUsedIs
<1>7. new[x] = Supported({u}, "active") /\ x \in DOMAIN new
  BY <1>5 DEF ClaimBundle
<1>8. DOMAIN new = {x} \cup (IF Rev(s) = 0 THEN {y} ELSE {})
  BY DEF ClaimBundle
<1>9. y \in DOMAIN new => new[y] = Supported(cited, "active")
  BY <1>4, <1>5, <1>8 DEF ClaimBundle
<1>10. ClaimLinks(c, s) = Links(x, {u}) \cup (IF Rev(s) = 0 THEN Links(y, cited) ELSE {})
  BY <1>4 DEF ClaimLinks, ClaimLink
<1> HIDE DEF x, y, u
<1>11. IsFiniteSet(DOMAIN new)
  <2>1. IsFiniteSet({x}) /\ IsFiniteSet({y}) /\ IsFiniteSet({})
    BY FS_Singleton, FS_EmptySet
  <2> QED BY <1>8, <2>1, FS_Union
<1>12. u \in References \cup DOMAIN new
  BY <1>6, <1>8
<1>13. Sound(x, new[x], References \cup DOMAIN new)
  <2>1. new[x].life = "active" /\ new[x].stale = FALSE /\ new[x].basis = {u}
    BY <1>7 DEF Supported
  <2> QED BY <1>1, <1>5, <1>12, <2>1, LivesAre DEF Sound
<1>14. Sound(y, Supported(cited, "active"), References)
  BY <1>2, <1>4, <1>5 DEF Sound, Supported, Lives, ClaimMoves
<1>15. OnRecord(x, new[x], ClaimLinks(c, s))
  BY <1>7, <1>10 DEF OnRecord, Supported
<1>16. y \in DOMAIN new => Rev(s) = 0
  BY <1>5, <1>8
<1>17. y \in DOMAIN new => OnRecord(y, new[y], ClaimLinks(c, s))
  BY <1>9, <1>10, <1>16 DEF OnRecord, Supported
<1>18. y \in DOMAIN new => Sound(y, new[y], References \cup DOMAIN new)
  BY <1>9, <1>14 DEF Sound
<1>19. ClaimLinks(c, s) \subseteq (References \cup DOMAIN new) \X (References \cup DOMAIN new)
  BY <1>2, <1>7, <1>8, <1>10, <1>12 DEF Links
<1>20. Writable(new, ClaimLinks(c, s), References)
  BY <1>5, <1>8, <1>11, <1>13, <1>15, <1>17, <1>18, <1>19 DEF Writable
<1>21. First(new)
  <2>1. \A z \in DOMAIN new : z = x \/ z = y
    BY <1>8
  <2>2. new[x].by = NoRequest
    BY <1>7 DEF Supported
  <2>3. y \in DOMAIN new => new[y].by = NoRequest
    BY <1>9 DEF Supported
  <2> QED BY <1>1, <1>4, <1>5, <2>1, <2>2, <2>3 DEF First
<1> QED BY <1>20, <1>21

\* What the commit of an event writes.
EventBundle(e, cited, s) ==
    [x \in {<<e, 1>>, s} |-> IF x = s THEN Supported(cited, "active") ELSE Supported({s}, "candidate")]

LEMMA EventWritable ==
    ASSUME Stored, plan \in Plan, NEW e \in plan.event, NEW cited \in Citations,
           NEW s, s = <<<<e, 1, cited>>, 1>>, NEW new,
           new = EventBundle(e, cited, s), NEW links, links = Links(<<e, 1>>, {s}) \cup Links(s, cited)
    PROVE  Writable(new, links, References) /\ First(new)
<1>1. e \in Event /\ e \notin Claim /\ e \notin Window
  BY PlanIsOfKinds, KindsAreApart
<1>2. cited \subseteq References /\ cited \in SUBSET (Citable \X Nat)
  BY CitationsAre
<1>3. s[1] \notin Named /\ s[2] = 1 /\ s = <<s[1], s[2]>>
  BY <1>1, <1>2, SetsAreApart
<1>4. s[1] # e /\ s[1] \notin Claim /\ s[1] \notin Event /\ s[1] \notin Window
  BY <1>1, <1>3 DEF Named
<1> DEFINE x == <<e, 1>>
<1>5. x = <<x[1], x[2]>> /\ x[1] = e /\ x[2] = 1 /\ x # s
  BY <1>4
<1>6. DOMAIN new = {x, s} /\ new[x] = Supported({s}, "candidate") /\ new[s] = Supported(cited, "active")
  BY <1>5 DEF EventBundle
<1>7. links = Links(x, {s}) \cup Links(s, cited)
  OBVIOUS
<1> HIDE DEF x
<1>8. IsFiniteSet({x, s})
  BY PairIsFinite
<1>9. Sound(x, new[x], References \cup {x, s}) /\ OnRecord(x, new[x], links)
  <2>1. new[x].life = "candidate" /\ new[x].stale = FALSE /\ new[x].basis = {s}
    BY <1>6 DEF Supported
  <2>2. Links(x, {s}) \subseteq links
    BY <1>7
  <2> QED BY <1>1, <1>5, <2>1, <2>2, LivesAre DEF Sound, OnRecord
<1>10. Sound(s, new[s], References \cup {x, s}) /\ OnRecord(s, new[s], links)
  <2>1. new[s].life = "active" /\ new[s].stale = FALSE /\ new[s].basis = cited
    BY <1>6 DEF Supported
  <2>2. Links(s, cited) \subseteq links
    BY <1>7
  <2> QED BY <1>2, <1>4, <2>1, <2>2, LivesAre DEF Sound, OnRecord
<1>11. links \subseteq (References \cup {x, s}) \X (References \cup {x, s})
  BY <1>2, <1>7 DEF Links
<1>12. Writable(new, links, References)
  BY <1>3, <1>5, <1>6, <1>8, <1>9, <1>10, <1>11 DEF Writable
<1>13. First(new)
  BY <1>1, <1>3, <1>4, <1>5, <1>6 DEF First, Supported
<1> QED BY <1>12, <1>13

\* What depends on a revision, as far as the records go.
LEMMA ImpactedIs ==
    ASSUME Stored, NEW x \in References
    PROVE  /\ Impacted(x) \subseteq References \ {x}
           /\ \A l \in edge : l[2] \in {x} \cup Impacted(x) => l[1] \in {x} \cup Impacted(x)
<1> DEFINE next == Dependents
           R == Reached(next, {x})
<1>1. DOMAIN next = References
  BY DEF Dependents
<1>2. \A y \in References : next[y] = {l[1] : l \in {k \in edge : k[2] = y}}
  BY DEF Dependents
<1>3. next \in [References -> SUBSET References]
  BY DEF Dependents, Stored
<1>4. IsFiniteSet(References) /\ {x} \in SUBSET References
  BY DEF Stored
<1> HIDE DEF next
<1>5. {x} \subseteq R /\ R \subseteq References /\ Closed(next, R)
  <2>1. next \in [DOMAIN next -> SUBSET DOMAIN next] /\ IsFiniteSet(DOMAIN next) /\ {x} \in SUBSET DOMAIN next
    BY <1>1, <1>3, <1>4
  <2> QED BY <1>1, <2>1, ReachedIsLeast
<1>6. Impacted(x) = R \ {x}
  BY DEF Impacted, next
<1> HIDE DEF R
<1>7. ASSUME NEW l \in edge, l[2] \in R PROVE l[1] \in R
  BY <1>2, <1>5, <1>7 DEF Closed
<1> QED BY <1>5, <1>6, <1>7

LEMMA HitsAre ==
    ASSUME Stored, NEW x \in References
    PROVE  Hit(x) \subseteq References \ {x} /\ IsFiniteSet({Next1(z) : z \in Hit(x)})
<1>1. Hit(x) \subseteq References \ {x}
  BY ImpactedIs DEF Hit
<1>2. IsFiniteSet(Hit(x))
  BY <1>1, FS_Subset DEF Stored
<1> DEFINE f == [z \in Hit(x) |-> Next1(z)]
           M == {Next1(z) : z \in Hit(x)}
<1>3. f \in Surjection(Hit(x), M)
  BY DEF Surjection
<1> HIDE DEF f
<1>4. IsFiniteSet(M)
  <2> HIDE DEF M
  <2> QED BY <1>2, <1>3, FS_Surjection
<1> QED BY <1>1, <1>4

\* The bundle of a correction, entry by entry.
CorrectionWrites(x, to, cited, related, s, new) ==
    /\ DOMAIN new = {s, Next1(x)} \cup {Next1(z) : z \in Hit(x)}
    /\ s = <<s[1], s[2]>> /\ s[1] \notin Named /\ s[2] = 1 /\ s[1][3] = cited
    /\ cited \subseteq References
    /\ new[s] = Supported(cited, "active")
    /\ new[Next1(x)] = Corrected(x, to, s, related)
    /\ \A z \in Hit(x) : new[Next1(z)] = Marked(z)
    /\ \A z \in References : /\ z[2] \in Nat \ {0} /\ z = <<z[1], z[2]>> /\ Next1(z) # s
                             /\ Next1(z) = Next1(x) => z = x
                             /\ Next1(z) \in DOMAIN new => z = x \/ z \in Hit(x)

LEMMA CorrectionIs ==
    ASSUME Stored, plan \in Plan, NEW x \in References, x[1] \in Claim \cup Event,
           NEW cited \in Citations, NEW to, NEW related \in SUBSET References,
           NEW s, s = <<<<x[1], x[2] + 1, cited>>, 1>>,
           NEW new, new = CorrectionBundle(x, to, s, related)
    PROVE  CorrectionWrites(x, to, cited, related, s, new)
<1>1. ASSUME NEW z \in References PROVE z[2] \in Nat \ {0} /\ z = <<z[1], z[2]>>
  <2>1. Numbered(z) /\ Rev(z[1]) \in Nat
    BY RevisionCount DEF Stored
  <2> QED BY <2>1 DEF Numbered
<1>2. cited \subseteq References /\ cited \in SUBSET (Citable \X Nat)
  BY CitationsAre
<1>3. s[1] \notin Named
  <2>1. x[2] + 1 \in Nat
    BY <1>1
  <2> QED BY <1>2, <2>1, SetsAreApart
<1>4. s = <<s[1], s[2]>> /\ s[2] = 1 /\ s[1][3] = cited
  OBVIOUS
<1>5. \A z \in References : Next1(z)[2] = z[2] + 1 /\ Next1(z)[1] = z[1] /\ <<Next1(z)[1], Next1(z)[2] - 1>> = z
  BY <1>1 DEF Next1
<1>6. \A z \in References : Next1(z) # s
  BY <1>1, <1>4, <1>5
<1>7. \A y, z \in References : Next1(y) = Next1(z) => y = z
  BY <1>5
<1>8. Hit(x) \subseteq References \ {x}
  BY HitsAre
<1> DEFINE M == {Next1(z) : z \in Hit(x)}
<1>9. DOMAIN new = {s, Next1(x)} \cup M
  BY DEF CorrectionBundle
<1>10. \A y \in {s, Next1(x)} \cup M :
          new[y] = CASE y = s -> Supported(s[1][3], "active")
                     [] y = Next1(x) -> Corrected(x, to, s, related)
                     [] OTHER -> Marked(<<y[1], y[2] - 1>>)
  BY DEF CorrectionBundle
<1> HIDE DEF M
<1>11. new[s] = Supported(cited, "active")
  BY <1>4, <1>6, <1>10
<1>12. new[Next1(x)] = Corrected(x, to, s, related)
  BY <1>6, <1>10
<1>13. ASSUME NEW z \in Hit(x) PROVE new[Next1(z)] = Marked(z)
  <2>1. Next1(z) \in M /\ z \in References /\ z # x
    BY <1>8 DEF M
  <2>2. Next1(z) # s /\ Next1(z) # Next1(x)
    BY <1>6, <1>7, <2>1
  <2> QED BY <1>5, <1>10, <2>1, <2>2
<1>14. ASSUME NEW z \in References, Next1(z) \in DOMAIN new PROVE z = x \/ z \in Hit(x)
  <2>1. Next1(z) = Next1(x) \/ Next1(z) \in M
    BY <1>6, <1>9, <1>14
  <2> QED BY <1>7, <1>8, <2>1 DEF M
<1> QED BY <1>1, <1>2, <1>3, <1>4, <1>6, <1>7, <1>9, <1>11, <1>12, <1>13, <1>14 DEF M, CorrectionWrites

LEMMA MovesAre ==
    ASSUME Stored, NEW x \in References, x[1] \in Claim \cup Event, NEW to \in Moves(x)
    PROVE  /\ to \in Lives
           /\ x[1] \in Claim => to \in DOMAIN ClaimMoves
           /\ x[1] \in Event => to \in DOMAIN EventMoves
<1>1. Sound(x, version[x], References)
  BY DEF Stored
<1>2. CASE x[1] \in Claim
  <2>1. version[x].life \in {"active", "retracted"} /\ x[1] \notin Event
    BY <1>1, <1>2, KindsAreApart DEF Sound, ClaimMoves
  <2>2. to \in ClaimMoves[version[x].life]
    BY <1>2 DEF Moves
  <2>3. to \in DOMAIN ClaimMoves
    BY <2>1, <2>2 DEF ClaimMoves
  <2> QED BY <2>1, <2>3, LivesAre
<1>3. CASE x[1] \in Event
  <2>1. version[x].life \in DOMAIN EventMoves /\ x[1] \notin Claim
    BY <1>1, <1>3, KindsAreApart DEF Sound
  <2>2. to \in EventMoves[version[x].life]
    BY <2>1 DEF Moves
  <2>3. to \in DOMAIN EventMoves
    BY <2>1, <2>2 DEF EventMoves, Reconsidered
  <2> QED BY <2>1, <2>3, LivesAre
<1> QED BY <1>2, <1>3

\* A mark says what the revision it marks says.
LEMMA MarkIsSound ==
    ASSUME Stored, NEW z \in References, NEW links
    PROVE  /\ Sound(Next1(z), Marked(z), References) /\ OnRecord(Next1(z), Marked(z), links)
           /\ Marked(z).stale /\ Marked(z).by = NoRequest /\ Marked(z).basis = version[z].basis
<1>1. Sound(z, version[z], References) /\ Next1(z)[1] = z[1]
  BY DEF Stored, Next1
<1>2. Sound(Next1(z), Marked(z), References)
  BY <1>1, LivesAre DEF Sound, Marked
<1>3. Marked(z).stale /\ Marked(z).by = NoRequest /\ Marked(z).basis = version[z].basis
  BY DEF Marked
<1> QED BY <1>2, <1>3 DEF OnRecord

LEMMA CorrectionWritable ==
    ASSUME Stored, plan \in Plan, NEW x \in References, x[1] \in Claim \cup Event,
           NEW cited \in Citations, NEW to \in Moves(x), NEW related \in SUBSET References,
           NEW s, s = <<<<x[1], x[2] + 1, cited>>, 1>>,
           NEW new, new = CorrectionBundle(x, to, s, related),
           NEW links, links = CorrectionLinks(x, s, related) \cup HitLinks(x)
    PROVE  Writable(new, links, References) /\ CorrectionStands(new)
<1> DEFINE M == {Next1(z) : z \in Hit(x)}
           n == Next1(x)
<1>0. CorrectionWrites(x, to, cited, related, s, new)
  BY CorrectionIs
<1>1. /\ DOMAIN new = {s, n} \cup M
      /\ s = <<s[1], s[2]>> /\ s[1] \notin Named /\ s[2] = 1 /\ s[1][3] = cited
      /\ cited \subseteq References
      /\ new[s] = Supported(cited, "active")
      /\ new[n] = Corrected(x, to, s, related)
      /\ \A z \in Hit(x) : new[Next1(z)] = Marked(z)
  BY <1>0 DEF CorrectionWrites
<1>2. \A z \in References : /\ z[2] \in Nat \ {0} /\ z = <<z[1], z[2]>> /\ Next1(z) # s
                            /\ Next1(z) = n => z = x
                            /\ Next1(z) \in DOMAIN new => z = x \/ z \in Hit(x)
  BY <1>0 DEF CorrectionWrites
<1>3. Hit(x) \subseteq References \ {x} /\ IsFiniteSet(M)
  BY HitsAre
<1>4. n = <<n[1], n[2]>> /\ n[1] = x[1] /\ n[2] = x[2] + 1 /\ n[2] # 1
  BY <1>0 DEF Next1, CorrectionWrites
<1>5. \A y \in M : y = <<y[1], y[2]>>
  BY DEF Next1
<1>6. IsFiniteSet(DOMAIN new)
  <2>1. IsFiniteSet({s, n})
    BY PairIsFinite
  <2>2. DOMAIN new = {s, n} \cup M
    BY <1>1
  <2> HIDE DEF n, M
  <2>3. IsFiniteSet(M)
    BY <1>3 DEF M
  <2>4. IsFiniteSet({s, n} \cup M)
    BY <2>1, <2>3, FS_Union
  <2> QED BY <2>2, <2>4, Zenon
<1>7. links = Links(n, {s} \cup related) \cup Links(s, cited) \cup {<<Next1(y), x>> : y \in Hit(x)}
  BY <1>1 DEF CorrectionLinks, HitLinks
<1>8. Sound(x, version[x], References)
  BY DEF Stored
<1>9. Sound(n, new[n], References \cup {s}) /\ new[n].by = NoRequest
  <2>1. PICK b : b \subseteq References \cup {s} /\ new[n] = Supported(b, to)
    <3>1. CASE x[1] \in Claim
      BY <1>1, <1>8, <3>1 DEF Corrected, ClaimRevised, Sound
    <3>2. CASE x[1] \notin Claim
      BY <1>1, <1>8, <3>2 DEF Corrected, EventRevised, Sound
    <3> QED BY <3>1, <3>2
  <2>2. new[n].life = to /\ new[n].stale = FALSE /\ new[n].basis = b /\ new[n].by = NoRequest
    BY <2>1 DEF Supported
  <2> HIDE DEF n
  <2> QED BY <1>4, <2>1, <2>2, MovesAre DEF Sound
<1>10. x[1] \notin Window
  BY KindsAreApart
<1>11. OnRecord(n, new[n], links)
  <2> HIDE DEF n
  <2> QED BY <1>4, <1>10 DEF OnRecord
<1>12. Sound(s, new[s], References) /\ OnRecord(s, new[s], links) /\ new[s].by = NoRequest
  <2>1. new[s].life = "active" /\ new[s].stale = FALSE /\ new[s].basis = cited /\ new[s].by = NoRequest
    BY <1>1 DEF Supported
  <2>2. s[1] \notin Claim /\ s[1] \notin Event
    BY <1>1 DEF Named
  <2>3. Sound(s, new[s], References)
    BY <1>1, <2>1, <2>2, LivesAre DEF Sound
  <2>4. Links(s, cited) \subseteq links
    BY <1>7
  <2> QED BY <2>1, <2>3, <2>4 DEF OnRecord
<1>13. ASSUME NEW y \in M
       PROVE  Sound(y, new[y], References) /\ OnRecord(y, new[y], links) /\ new[y].stale /\ new[y].by = NoRequest
  <2>1. PICK z \in Hit(x) : y = Next1(z)
    OBVIOUS
  <2>2. z \in References /\ new[y] = Marked(z)
    BY <1>1, <1>3, <2>1
  <2> QED BY <2>1, <2>2, MarkIsSound
<1>14. links \subseteq (References \cup DOMAIN new) \X (References \cup DOMAIN new)
  <2>1. Links(n, {s} \cup related) \subseteq (References \cup DOMAIN new) \X (References \cup DOMAIN new)
    BY <1>1 DEF Links
  <2>2. Links(s, cited) \subseteq (References \cup DOMAIN new) \X (References \cup DOMAIN new)
    BY <1>1 DEF Links
  <2>3. {<<Next1(y), x>> : y \in Hit(x)} \subseteq (References \cup DOMAIN new) \X (References \cup DOMAIN new)
    BY <1>1
  <2> QED BY <1>7, <2>1, <2>2, <2>3
<1> HIDE DEF M, n
<1>15. ASSUME NEW y \in DOMAIN new
       PROVE  y = <<y[1], y[2]>> /\ Sound(y, new[y], References \cup DOMAIN new) /\ OnRecord(y, new[y], links)
  <2>1. CASE y = s
    BY <1>1, <1>12, <2>1 DEF Sound
  <2>2. CASE y = n
    BY <1>1, <1>4, <1>9, <1>11, <2>2 DEF Sound
  <2>3. CASE y \in M
    BY <1>5, <1>13, <2>3 DEF Sound
  <2> QED BY <1>1, <2>1, <2>2, <2>3
<1>16. Writable(new, links, References)
  BY <1>6, <1>14, <1>15 DEF Writable
<1>17. ASSUME NEW y \in Impacted(x), IsNewest(y) PROVE Next1(y) \in DOMAIN new /\ new[Next1(y)].stale
  <2>1. y \in Hit(x) /\ Next1(y) \in M
    BY <1>17 DEF Hit, M
  <2> QED BY <1>1, <1>13, <2>1
<1>18. ASSUME NEW z \in References, Next1(z) \in DOMAIN new
       PROVE  z = x \/ (z \in Impacted(x) /\ new[Next1(z)].stale)
  <2>1. z = x \/ z \in Hit(x)
    BY <1>2, <1>18
  <2>2. z \in Hit(x) => z \in Impacted(x) /\ Next1(z) \in M
    BY DEF Hit, M
  <2> QED BY <1>13, <2>1, <2>2
<1>19. ASSUME NEW y \in DOMAIN new PROVE new[y].by = NoRequest /\ (y[1] \in Window => new[y].stale)
  <2>1. CASE y = s
    BY <1>1, <1>12, <2>1 DEF Named
  <2>2. CASE y = n
    BY <1>4, <1>9, <1>10, <2>2
  <2>3. CASE y \in M
    BY <1>13, <2>3
  <2> QED BY <1>1, <2>1, <2>2, <2>3
<1>20. CorrectionStands(new)
  BY <1>17, <1>18, <1>19 DEF CorrectionStands
<1> QED BY <1>16, <1>20

\* The bundle of a policy change.
Version(p, n, cited, sets, s, request) ==
    [y \in sets \cup {<<p, n>>} |->
        IF y = s THEN Supported(cited, "active") ELSE [Supported(sets, "active") EXCEPT !.by = request]]

LEMMA ChangeWritable ==
    ASSUME Stored, plan \in Plan, NEW p \in plan.policy, NEW cited \in Citations \cup {{}},
           NEW n, n = Rev(p) + 1, \A x \in cited : IsCase(x),
           NEW s, s = <<<<p, n, cited>>, 1>>, NEW sets, sets = IF cited = {} THEN {} ELSE {s},
           NEW request,
           NEW new, new = Version(p, n, cited, sets, s, request),
           NEW links, links = Links(<<p, n>>, sets) \cup Links(s, cited)
    PROVE  Writable(new, links, References) /\ ChangeStands(new, request)
<1> DEFINE v == <<p, n>>
<1>1. p \in Policy /\ p \notin Claim /\ p \notin Event /\ p \notin Window
  BY PlanIsOfKinds, KindsAreApart
<1>2. cited \subseteq References /\ cited \in SUBSET (Citable \X Nat)
  BY CitationsAre
<1>3. n \in Nat /\ Rev(p) \in Nat
  <2>1. Rev(p) \in Nat
    BY RevisionCount
  <2> QED BY <2>1
<1>4. s[1] \notin Named /\ s[2] = 1 /\ s = <<s[1], s[2]>>
  BY <1>1, <1>2, <1>3, SetsAreApart
<1>5. s[1] \notin Claim /\ s[1] \notin Event /\ s[1] \notin Window /\ s[1] # p
  BY <1>1, <1>4 DEF Named
<1>6. v = <<v[1], v[2]>> /\ v[1] = p /\ v # s
  BY <1>5
<1>7. DOMAIN new = sets \cup {v} /\ sets \subseteq {s}
  BY DEF Version
<1>8. new[v] = [Supported(sets, "active") EXCEPT !.by = request]
  BY <1>6 DEF Version
<1>9. s \in sets => new[s] = Supported(cited, "active")
  BY DEF Version
<1>10. s \notin sets => cited = {}
  OBVIOUS
<1>11. links = Links(v, sets) \cup Links(s, cited)
  OBVIOUS
<1> HIDE DEF v
<1>12. new[v].life = "active" /\ new[v].stale = FALSE /\ new[v].basis = sets /\ new[v].by = request
  BY <1>8 DEF Supported
<1>13. s \in sets =>
          new[s].life = "active" /\ new[s].stale = FALSE /\ new[s].basis = cited /\ new[s].by = NoRequest
  BY <1>9 DEF Supported
<1>14. IsFiniteSet(DOMAIN new)
  <2>1. IsFiniteSet({v, s})
    BY PairIsFinite
  <2>2. DOMAIN new \subseteq {v, s}
    BY <1>7
  <2> QED BY <2>1, <2>2, FS_Subset
<1>15. Sound(v, new[v], References \cup DOMAIN new) /\ OnRecord(v, new[v], links)
  BY <1>1, <1>6, <1>7, <1>11, <1>12, LivesAre DEF Sound, OnRecord
<1>16. s \in sets => Sound(s, new[s], References \cup DOMAIN new) /\ OnRecord(s, new[s], links)
  BY <1>2, <1>5, <1>11, <1>13, LivesAre DEF Sound, OnRecord
<1>17. links \subseteq (References \cup DOMAIN new) \X (References \cup DOMAIN new)
  <2>1. Links(v, sets) \subseteq (References \cup DOMAIN new) \X (References \cup DOMAIN new)
    BY <1>7 DEF Links
  <2>2. Links(s, cited) \subseteq (References \cup DOMAIN new) \X (References \cup DOMAIN new)
    BY <1>2, <1>7, <1>10 DEF Links
  <2> DEFINE P == (References \cup DOMAIN new) \X (References \cup DOMAIN new)
  <2>3. Links(v, sets) \subseteq P /\ Links(s, cited) \subseteq P
    BY <2>1, <2>2
  <2> HIDE DEF P
  <2>4. links \subseteq P
    BY <1>11, <2>3
  <2> QED BY <2>4 DEF P
<1>18. Writable(new, links, References)
  <2>1. ASSUME NEW y \in DOMAIN new
        PROVE  y = <<y[1], y[2]>> /\ Sound(y, new[y], References \cup DOMAIN new) /\ OnRecord(y, new[y], links)
    <3>1. CASE y = v
      BY <1>6, <1>15, <3>1, Zenon
    <3>2. CASE y \in sets /\ y = s
      BY <1>4, <1>16, <3>2, Zenon
    <3> QED BY <1>7, <3>1, <3>2
  <2> QED BY <1>14, <1>17, <2>1 DEF Writable
<1>19. ASSUME NEW z \in References, Next1(z) \in DOMAIN new PROVE z[1] \in Policy
  <2>1. z[2] \in Nat \ {0}
    <3>1. Numbered(z) /\ Rev(z[1]) \in Nat
      BY RevisionCount DEF Stored
    <3> QED BY <3>1 DEF Numbered
  <2>2. Next1(z)[1] = z[1] /\ Next1(z)[2] = z[2] + 1
    BY DEF Next1
  <2>3. Next1(z) # s
    BY <1>4, <2>1, <2>2
  <2>4. Next1(z) = v
    BY <1>7, <1>19, <2>3
  <2> QED BY <1>1, <1>6, <2>2, <2>4
<1>20. ASSUME NEW y \in DOMAIN new, new[y].by # NoRequest
       PROVE  /\ new[y].by = request
              /\ \A t \in new[y].basis : t \in DOMAIN new /\ \A z \in new[t].basis : IsCase(z)
  <2>1. y = v
    BY <1>7, <1>13, <1>20
  <2>2. new[y].basis = sets /\ new[y].by = request
    BY <1>12, <2>1
  <2> QED BY <1>7, <1>13, <2>2
<1>21. \A y \in DOMAIN new : y[1] \notin Window
  BY <1>1, <1>5, <1>6, <1>7
<1>22. ChangeStands(new, request)
  BY <1>19, <1>20, <1>21 DEF ChangeStands
<1> QED BY <1>18, <1>22

\* A mark put on a summary, and a summary.
LEMMA SummaryWritable ==
    ASSUME Stored, NEW v \in Window, NEW S \in SUBSET References, NEW x, x = <<v, Rev(v) + 1>>, NEW stale \in BOOLEAN,
           NEW r, r.life \in Lives, r.stale = stale, r.basis = S,
           NEW new, new = [y \in {x} |-> r]
    PROVE  Writable(new, Links(x, S), References)
<1>1. DOMAIN new = {x} /\ new[x] = r /\ x = <<x[1], x[2]>> /\ x[1] = v
  OBVIOUS
<1>2. v \notin Claim /\ v \notin Event
  BY KindsAreApart
<1>3. Sound(x, r, References \cup {x}) /\ OnRecord(x, r, Links(x, S))
  BY <1>1, <1>2 DEF Sound, OnRecord
<1>4. Links(x, S) \subseteq (References \cup {x}) \X (References \cup {x})
  BY DEF Links
<1>5. IsFiniteSet({x})
  BY FS_Singleton
<1> QED BY <1>1, <1>3, <1>4, <1>5 DEF Writable

-----------------------------------------------------------------------------
(* While the world stays as it is, what was read of it still holds.        *)

LEMMA StillStored ==
    ASSUME Stored, UNCHANGED <<version, edge>>
    PROVE  Stored' /\ References' = References
BY DEF Stored, Numbered, Sound, OnRecord, References, Rev

LEMMA StillCurrent ==
    ASSUME NEW S, Current(S), UNCHANGED <<version, edge>>
    PROVE  Current(S)'
BY DEF Current, Summarized, Admissible, IsNewest, References, Rev

LEMMA StillReady ==
    ASSUME NEW r, Ready(r), UNCHANGED <<version, edge>>
    PROVE  Ready(r)'
<1>1. References' = References
  BY DEF References
<1>2. \A x : Impacted(x)' = Impacted(x)
  BY DEF Impacted, Dependents, References
<1>3. \A x : IsNewest(x)' = IsNewest(x)
  BY DEF IsNewest, Rev, References
<1>4. \A x : IsCase(x)' = IsCase(x)
  BY <1>3 DEF IsCase
<1>5. CorrectionStands(r.new) => CorrectionStands(r.new)'
  BY <1>1, <1>2, <1>3 DEF CorrectionStands
<1>6. ChangeStands(r.new, r.by) => ChangeStands(r.new, r.by)'
  BY <1>1, <1>4 DEF ChangeStands
<1>7. Stands(r) => Stands(r)'
  BY <1>5, <1>6 DEF Stands
<1> QED BY <1>1, <1>7 DEF Ready

\* What was decided can be written to a larger world, if it is looked at again.
LEMMA ReadyGrows ==
    ASSUME NEW r, Ready(r), References \subseteq References'
    PROVE  Ready([r EXCEPT !.fresh = FALSE])'
<1> DEFINE t == [r EXCEPT !.fresh = FALSE]
<1>1. r = [new |-> r.new, links |-> r.links, by |-> r.by, fresh |-> r.fresh]
  BY DEF Ready
<1>2. t = [new |-> r.new, links |-> r.links, by |-> r.by, fresh |-> FALSE]
  <2>1. PICK a, b, c, d : r = [new |-> a, links |-> b, by |-> c, fresh |-> d]
    BY <1>1
  <2>2. r.new = a /\ r.links = b /\ r.by = c
    BY <2>1
  <2>3. t = [new |-> a, links |-> b, by |-> c, fresh |-> FALSE]
    <3>1. r \in [new : {a}, links : {b}, by : {c}, fresh : {d}]
      BY <2>1
    <3>2. t \in [new : {a}, links : {b}, by : {c}, fresh : {FALSE}]
      BY <3>1
    <3> HIDE DEF t
    <3> QED BY <3>2
  <2> HIDE DEF t
  <2> QED BY <2>2, <2>3
<1>3. t.new = r.new /\ t.links = r.links /\ t.by = r.by /\ t.fresh = FALSE
  BY <1>2
<1> HIDE DEF t
<1>4. t = [new |-> t.new, links |-> t.links, by |-> t.by, fresh |-> t.fresh]
  BY <1>2, <1>3
<1>5. Writable(t.new, t.links, References')
  BY <1>3, WritableGrows DEF Ready
<1>6. Ready(t)'
  BY <1>3, <1>4, <1>5 DEF Ready
<1> QED BY <1>6 DEF t

LEMMA IdleIsReady == Ready(Idle) /\ Ready(Idle)'
<1>1. DOMAIN <<>> = {}
  OBVIOUS
<1>2. \A R : Writable(<<>>, {}, R)
  BY <1>1, FS_EmptySet DEF Writable
<1> QED BY <1>2 DEF Ready, Idle

LEMMA WorkersStill ==
    ASSUME WorkersHold, UNCHANGED <<plan, version, edge, worker>>
    PROVE  WorkersHold'
BY StillReady DEF WorkersHold

LEMMA WorkersMove ==
    ASSUME WorkersHold, NEW ws, WorldMoves(ws), plan' = plan, References \subseteq References'
    PROVE  WorkersHold'
<1>1. DOMAIN worker' = plan'.worker
  BY DEF WorldMoves
<1>2. ASSUME NEW w \in plan.worker PROVE Ready(worker[w])'
  <2>1. worker'[w] = IF w \in ws THEN Idle ELSE [worker[w] EXCEPT !.fresh = FALSE]
    BY DEF WorldMoves
  <2>2. PICK r : r = worker[w]
    OBVIOUS
  <2>3. Ready(r)
    BY <2>2 DEF WorkersHold
  <2>4. Ready([r EXCEPT !.fresh = FALSE])'
    BY <2>3, ReadyGrows
  <2>5. PICK t : t = worker'[w]
    OBVIOUS
  <2>6. t = Idle \/ t = [r EXCEPT !.fresh = FALSE]
    BY <2>1, <2>2, <2>5
  <2>7. Ready(t)'
    BY <2>4, <2>6, IdleIsReady
  <2> QED BY <2>5, <2>7
<1> QED BY <1>1, <1>2 DEF WorkersHold

LEMMA WorkerSet ==
    ASSUME WorkersHold, UNCHANGED <<plan, version, edge>>,
           NEW w \in plan.worker, NEW r, Ready(r), worker' = [worker EXCEPT ![w] = r]
    PROVE  WorkersHold'
<1>1. DOMAIN worker' = plan'.worker
  BY DEF WorkersHold
<1>2. ASSUME NEW u \in plan.worker PROVE Ready(worker[u])'
  <2>1. PICK t : t = worker'[u]
    OBVIOUS
  <2>2. t = r \/ t = worker[u]
    BY <2>1 DEF WorkersHold
  <2>3. Ready(t)
    BY <2>2 DEF WorkersHold
  <2>4. Ready(t)'
    BY <2>3, StillReady
  <2> QED BY <2>1, <2>4
<1> QED BY <1>1, <1>2 DEF WorkersHold

-----------------------------------------------------------------------------
(* The sweep.                                                              *)

SweepAt == [pc : {"resting", "next", "selected", "asked", "committed"}, todo : Seq(Window),
            sources : SUBSET References, fresh : BOOLEAN]

LEMMA RestingIs == Resting \in SweepAt /\ Resting.pc = "resting"
<1>1. <<>> \in Seq(Window)
  OBVIOUS
<1> QED BY <1>1 DEF Resting, SweepAt

LEMMA GoingIs ==
    ASSUME NEW t \in Seq(Window)
    PROVE  Going(t) \in SweepAt /\ Going(t).todo = t /\ Going(t).pc = "next"
BY DEF Going, SweepAt

LEMMA HereIs ==
    ASSUME SweepHolds, sweep.pc # "resting"
    PROVE  /\ sweep \in SweepAt /\ Here \in Window
           /\ Onward \in SweepAt /\ (Onward.pc # "resting" => Onward.todo # <<>>)
<1>1. sweep \in SweepAt /\ sweep.todo \in Seq(Window) /\ sweep.todo # <<>>
  BY DEF SweepHolds, SweepAt
<1>0. PICK t \in Seq(Window) : t = sweep.todo
  BY <1>1
<1>2. Here \in Window
  BY <1>1, EmptySeq DEF Here
<1>3. CASE Len(sweep.todo) = 1
  <2>1. Onward = Resting
    BY <1>3 DEF Onward
  <2> QED BY <1>1, <1>2, <2>1, RestingIs
<1>4. CASE Len(sweep.todo) # 1
  <2>1. Tail(sweep.todo) \in Seq(Window) /\ Tail(sweep.todo) # <<>>
    <3>1. Len(t) \in Nat /\ Len(t) # 0 /\ Len(t) # 1
      BY <1>0, <1>1, <1>4, EmptySeq, LenProperties
    <3>2. Tail(t) \in Seq(Window) /\ Len(Tail(t)) = Len(t) - 1
      BY <1>0, <1>1, HeadTailProperties
    <3>3. Tail(t) # <<>>
      <4>1. Len(<<>>) = 0
        BY EmptySeq
      <4>2. PICK u : u = Tail(t)
        OBVIOUS
      <4>3. Len(u) = Len(t) - 1
        BY <3>2, <4>2
      <4>4. u # <<>>
        BY <3>1, <4>1, <4>3
      <4> QED BY <4>2, <4>4
    <3> QED BY <1>0, <3>2, <3>3
  <2>2. Onward = Going(Tail(sweep.todo))
    BY <1>4 DEF Onward, Going
  <2> QED BY <1>1, <1>2, <2>1, <2>2, GoingIs
<1> QED BY <1>1, <1>2, <1>3, <1>4

\* Where a sweep may stand does not depend on what is added to the world.
LEMMA SweepStands ==
    ASSUME SweepHolds, plan' = plan, References \subseteq References', derived' \subseteq References',
           failures' \in 0 .. plan.failures,
           NEW x, x \in SweepAt, x.pc # "resting" => x.todo # <<>>, sweep' = x
    PROVE  SweepHolds'
<1>1. x \in SweepAt'
  BY DEF SweepAt
<1> QED BY <1>1 DEF SweepHolds, SweepAt

LEMMA SweepOvertaken ==
    ASSUME SweepHolds, UNCHANGED <<plan, derived, failures>>, References \subseteq References', sweep' = Overtaken
    PROVE  SweepHolds'
<1>1. sweep \in SweepAt
  BY DEF SweepHolds, SweepAt
<1>2. Overtaken \in SweepAt /\ Overtaken.pc = sweep.pc /\ Overtaken.todo = sweep.todo
  BY <1>1 DEF Overtaken, SweepAt
<1>3. Overtaken.pc # "resting" => Overtaken.todo # <<>>
  BY <1>2 DEF SweepHolds
<1> QED BY <1>2, <1>3, SweepStands DEF SweepHolds

LEMMA SweepOnward ==
    ASSUME SweepHolds, sweep.pc # "resting", plan' = plan, References \subseteq References',
           derived' \subseteq References', failures' \in 0 .. plan.failures, sweep' = Onward
    PROVE  SweepHolds'
BY HereIs, SweepStands

LEMMA SweepStill ==
    ASSUME SweepHolds, UNCHANGED <<plan, version, sweep, derived, failures>>
    PROVE  SweepHolds'
BY DEF SweepHolds, References

LEMMA QuietStep ==
    ASSUME CognitionInv, UNCHANGED <<plan, version, edge>>, WorkersHold', SweepHolds'
    PROVE  CognitionInv'
<1>1. Stored' /\ References' = References
  BY StillStored DEF CognitionInv
<1>2. PICK S \in SUBSET References : Current(S)
  BY DEF CognitionInv
<1>3. Current(S)'
  BY <1>2, StillCurrent
<1> QED BY <1>1, <1>3 DEF CognitionInv

\* A write that overtakes the sweep, and whatever it leaves of what summaries are made of.
LEMMA WriteStep ==
    ASSUME CognitionInv, UNCHANGED <<plan, derived, failures>>,
           NEW new, NEW links, Writable(new, links, References), Written(new, links),
           NEW ws, WorldMoves(ws), sweep' = Overtaken,
           \E S \in SUBSET References' : Current(S)'
    PROVE  CognitionInv'
<1>1. Stored'
  BY WriteKeepsStore DEF CognitionInv
<1>2. References \subseteq References'
  BY WriteReferences DEF CognitionInv, Writable, Pairs
<1>3. WorkersHold'
  BY <1>2, WorkersMove DEF CognitionInv
<1>4. SweepHolds'
  BY <1>2, SweepOvertaken DEF CognitionInv
<1> QED BY <1>1, <1>3, <1>4 DEF CognitionInv

\* First revisions supersede nothing.
LEMMA FirstSupersedesNone ==
    ASSUME Stored, NEW new, First(new), NEW z \in References
    PROVE  Next1(z) \notin DOMAIN new
<1>1. Numbered(z) /\ Rev(z[1]) \in Nat
  BY RevisionCount DEF Stored
<1>2. Next1(z)[2] = z[2] + 1 /\ z[2] \in Nat \ {0}
  BY <1>1 DEF Numbered, Next1
<1> QED BY <1>2 DEF First

LEMMA NothingLost ==
    ASSUME CognitionInv, NEW new, NEW links, Writable(new, links, References), Written(new, links),
           \A z \in References : Next1(z) \in DOMAIN new => z[1] \in Policy \cup Window,
           \A y \in DOMAIN new : y[1] \in Window => new[y].stale
    PROVE  \E S \in SUBSET References' : Current(S)'
<1>1. PICK S \in SUBSET References : Current(S)
  BY DEF CognitionInv
<1>2. \A z \in S : z[1] \notin Window /\ Next1(z) \in DOMAIN new => z \in {}
  BY <1>1 DEF Current
<1>3. Current(S \ {})'
  BY <1>1, <1>2, CurrentKept DEF CognitionInv
<1>4. References \subseteq References'
  BY WriteReferences DEF CognitionInv, Writable, Pairs
<1> QED BY <1>3, <1>4

LEMMA FirstStep ==
    ASSUME CognitionInv, UNCHANGED <<plan, derived, failures>>,
           NEW new, NEW links, Writable(new, links, References), First(new), Written(new, links),
           NEW ws, WorldMoves(ws), sweep' = Overtaken
    PROVE  CognitionInv'
<1>1. \A z \in References : Next1(z) \in DOMAIN new => z[1] \in Policy \cup Window
  BY FirstSupersedesNone DEF CognitionInv
<1>2. \A y \in DOMAIN new : y[1] \in Window => new[y].stale
  BY DEF First
<1>3. \E S \in SUBSET References' : Current(S)'
  BY <1>1, <1>2, NothingLost
<1> QED BY <1>3, WriteStep

-----------------------------------------------------------------------------
(* The steps.                                                              *)

LEMMA RealityStep ==
    ASSUME CognitionInv, NEW r \in plan.reality, RealityArrives(r)
    PROVE  CognitionInv'
<1>1. PICK new : new = [x \in {<<r, 1>>} |-> Unborn]
  OBVIOUS
<1>2. Writable(new, {}, References) /\ First(new)
  BY <1>1, RealityWritable DEF CognitionInv
<1>3. Written(new, {}) /\ WorldMoves({}) /\ sweep' = Overtaken /\ UNCHANGED <<plan, derived, failures>>
  BY <1>1 DEF RealityArrives
<1> QED BY <1>2, <1>3, FirstStep

LEMMA ClaimStep ==
    ASSUME CognitionInv, NEW c \in plan.claim, NEW cited \in Citations, ClaimIsWritten(c, cited)
    PROVE  CognitionInv'
<1>1. PICK s, new, links : s = <<TurnOf[c], 1, cited>> /\ new = ClaimBundle(c, s) /\ links = ClaimLinks(c, s)
  OBVIOUS
<1>2. Writable(new, links, References) /\ First(new)
  BY <1>1, ClaimWritable DEF CognitionInv
<1>3. Written(new, links) /\ WorldMoves({}) /\ sweep' = Overtaken /\ UNCHANGED <<plan, derived, failures>>
  BY <1>1 DEF ClaimIsWritten
<1> QED BY <1>2, <1>3, FirstStep

LEMMA EventStep ==
    ASSUME CognitionInv, NEW e \in plan.event, NEW cited \in Citations, EventIsFormed(e, cited)
    PROVE  CognitionInv'
<1>1. PICK s, new, links :
        /\ s = <<<<e, 1, cited>>, 1>>
        /\ new = EventBundle(e, cited, s)
        /\ links = Links(<<e, 1>>, {s}) \cup Links(s, cited)
  OBVIOUS
<1>2. Writable(new, links, References) /\ First(new)
  BY <1>1, EventWritable DEF CognitionInv
<1>3. Written(new, links) /\ WorldMoves({}) /\ sweep' = Overtaken /\ UNCHANGED <<plan, derived, failures>>
  BY <1>1 DEF EventIsFormed, EventBundle
<1> QED BY <1>2, <1>3, FirstStep

\* A worker is given something to write and nothing else changes.
LEMMA WorkerStep ==
    ASSUME CognitionInv, NEW w \in plan.worker, NEW r, Ready(r), worker' = [worker EXCEPT ![w] = r],
           UNCHANGED <<plan, version, edge, sweep, derived, failures>>
    PROVE  CognitionInv'
BY WorkerSet, SweepStill, QuietStep DEF CognitionInv

LEMMA CorrectStep ==
    ASSUME CognitionInv, NEW w \in plan.worker,
           NEW x \in {y \in References : y[1] \in Claim \cup Event}, Correct(w, x)
    PROVE  CognitionInv'
<1>1. PICK to \in Moves(x), cited \in Citations,
           related \in SUBSET {y \in References : y[1] \in Event \ {x[1]}} :
        CorrectionIsAsked(w, x, to, cited, related)
  BY DEF Correct
<1>2. PICK s, new, links :
        /\ s = <<<<x[1], x[2] + 1, cited>>, 1>> /\ new = CorrectionBundle(x, to, s, related)
        /\ links = CorrectionLinks(x, s, related) \cup HitLinks(x)
  OBVIOUS
<1>3. Writable(new, links, References) /\ CorrectionStands(new)
  <2>1. related \in SUBSET References
    OBVIOUS
  <2> QED BY <1>2, <2>1, CorrectionWritable DEF CognitionInv
<1>4. PICK r : r = [new |-> new, links |-> links, by |-> NoRequest, fresh |-> TRUE]
  OBVIOUS
<1>5. Ready(r)
  BY <1>3, <1>4 DEF Ready, Stands
<1>6. worker' = [worker EXCEPT ![w] = r] /\ UNCHANGED <<plan, version, edge, sweep, derived, failures>>
  BY <1>1, <1>2, <1>4 DEF CorrectionIsAsked
<1> QED BY <1>5, <1>6, WorkerStep

LEMMA StopStep ==
    ASSUME CognitionInv, NEW w \in plan.worker, WorkerStops(w)
    PROVE  CognitionInv'
BY WorkerStep, IdleIsReady DEF WorkerStops

LEMMA ChangeStep ==
    ASSUME CognitionInv, NEW w \in plan.worker, NEW p \in plan.policy, NEW act,
           NEW cited \in Citations \cup {{}}, NEW target, Change(w, p, act, cited, target)
    PROVE  CognitionInv'
<1>1. PICK n, s, sets, request :
        /\ n = Rev(p) + 1 /\ s = <<<<p, n, cited>>, 1>> /\ sets = (IF cited = {} THEN {} ELSE {s})
        /\ request = <<p, act, cited, target>>
  OBVIOUS
<1>2. PICK new, links :
        /\ new = Version(p, n, cited, sets, s, request)
        /\ links = Links(<<p, n>>, sets) \cup Links(s, cited)
  OBVIOUS
<1>3. \A x \in cited : IsCase(x)
  BY DEF Change
<1>4. Writable(new, links, References) /\ ChangeStands(new, request)
  BY <1>1, <1>2, <1>3, ChangeWritable DEF CognitionInv
<1>5. PICK r : r = [new |-> new, links |-> links, by |-> request, fresh |-> TRUE]
  OBVIOUS
<1>6. request # NoRequest
  BY <1>1 DEF NoRequest
<1>7. Ready(r)
  BY <1>4, <1>5, <1>6 DEF Ready, Stands
<1>8. worker' = [worker EXCEPT ![w] = r] /\ UNCHANGED <<plan, version, edge, sweep, derived, failures>>
  BY <1>1, <1>2, <1>5 DEF Change, Version
<1> QED BY <1>7, <1>8, WorkerStep

LEMMA LearnStep ==
    ASSUME CognitionInv, NEW w \in plan.worker, NEW p \in plan.policy, Learn(w, p)
    PROVE  CognitionInv'
<1>1. PICK cited \in Citations \cup {{}} :
        \/ RegistrationIsAsked(w, p, cited) \/ UpdateIsAsked(w, p, cited)
        \/ \E target \in 1 .. plan.revisions : RollbackIsAsked(w, p, cited, target)
  BY DEF Learn
<1>2. \E act, target : Change(w, p, act, cited, target)
  BY <1>1 DEF RegistrationIsAsked, UpdateIsAsked, RollbackIsAsked
<1> QED BY <1>2, ChangeStep

\* What a correction supersedes, and all that rests on it, is what current summaries lose.
LEMMA CorrectionCommitStep ==
    ASSUME CognitionInv, NEW w \in plan.worker, CorrectionIsCommitted(w)
    PROVE  CognitionInv'
<1>1. PICK r : r = worker[w]
  OBVIOUS
<1>2. Ready(r) /\ r.by = NoRequest /\ r.fresh
  BY <1>1 DEF CognitionInv, WorkersHold, CorrectionIsCommitted, Unchanged
<1>3. PICK new, links : new = r.new /\ links = r.links
  OBVIOUS
<1>4. Writable(new, links, References) /\ CorrectionStands(new)
  BY <1>2, <1>3 DEF Ready, Stands
<1>5. Written(new, links) /\ WorldMoves({w}) /\ sweep' = Overtaken /\ UNCHANGED <<plan, derived, failures>>
  BY <1>1, <1>3 DEF CorrectionIsCommitted
<1>6. PICK x \in References :
        /\ x[1] \in Claim \cup Event
        /\ \A y \in Impacted(x) : IsNewest(y) => Next1(y) \in DOMAIN new /\ new[Next1(y)].stale
        /\ \A z \in References : Next1(z) \in DOMAIN new => z = x \/ (z \in Impacted(x) /\ new[Next1(z)].stale)
        /\ \A y \in DOMAIN new : new[y].by = NoRequest /\ (y[1] \in Window => new[y].stale)
  BY <1>4 DEF CorrectionStands
<1>7. PICK S \in SUBSET References : Current(S)
  BY DEF CognitionInv
<1>8. PICK B : B = {x} \cup Impacted(x)
  OBVIOUS
<1>9. ASSUME NEW y \in S, y[1] \in Window, version[y].basis \cap B # {} PROVE y \in B
  <2>1. y \in References /\ ~version[y].stale
    BY <1>7, <1>9 DEF Current
  <2>2. Links(y, version[y].basis) \subseteq edge
    BY <1>9, <2>1 DEF CognitionInv, Stored, OnRecord
  <2>3. PICK b \in version[y].basis : b \in B
    BY <1>9
  <2>4. <<y, b>> \in edge
    BY <2>2, <2>3 DEF Links
  <2>5. \A l \in edge : l[2] \in {x} \cup Impacted(x) => l[1] \in {x} \cup Impacted(x)
    BY ImpactedIs DEF CognitionInv
  <2> QED BY <1>8, <2>3, <2>4, <2>5
<1>10. \A z \in S : z[1] \notin Window /\ Next1(z) \in DOMAIN new => z \in B
  BY <1>6, <1>8
<1>11. ASSUME NEW v \in Window, Rev(v) > 0, <<v, Rev(v)>> \in B PROVE <<v, Rev(v) + 1>> \in DOMAIN new
  <2>1. <<v, Rev(v)>> # x
    BY <1>6, KindsAreApart
  <2>2. IsNewest(<<v, Rev(v)>>) /\ <<v, Rev(v)>> \in Impacted(x)
    BY <1>8, <1>11, <2>1 DEF IsNewest
  <2>3. Next1(<<v, Rev(v)>>) \in DOMAIN new
    BY <1>6, <2>2
  <2> QED BY <2>3 DEF Next1
<1>12. \A y \in DOMAIN new : y[1] \in Window => new[y].stale
  BY <1>6
<1>13. Current(S \ B)'
  BY <1>4, <1>5, <1>7, <1>9, <1>10, <1>11, <1>12, CurrentKept DEF CognitionInv
<1>14. References \subseteq References'
  BY <1>4, <1>5, WriteReferences DEF CognitionInv, Writable, Pairs
<1>15. \E T \in SUBSET References' : Current(T)'
  BY <1>13, <1>14
<1> QED BY <1>4, <1>5, <1>15, WriteStep

LEMMA PolicyStep ==
    ASSUME CognitionInv, NEW w \in plan.worker, PolicyIsChanged(w)
    PROVE  CognitionInv'
<1>1. CASE Recorded(w)
  BY <1>1, WorkerStep, IdleIsReady DEF PolicyIsChanged
<1>2. CASE ~Recorded(w)
  <2>1. PICK r : r = worker[w]
    OBVIOUS
  <2>2. Ready(r) /\ r.by # NoRequest /\ r.fresh
    BY <1>2, <2>1 DEF CognitionInv, WorkersHold, PolicyIsChanged, Unchanged
  <2>3. PICK new, links : new = r.new /\ links = r.links
    OBVIOUS
  <2>4. Writable(new, links, References) /\ ChangeStands(new, r.by)
    BY <2>2, <2>3 DEF Ready, Stands
  <2>5. Written(new, links) /\ WorldMoves({w}) /\ sweep' = Overtaken /\ UNCHANGED <<plan, derived, failures>>
    BY <1>2, <2>1, <2>3 DEF PolicyIsChanged
  <2>6. \E S \in SUBSET References' : Current(S)'
    BY <2>4, <2>5, NothingLost DEF ChangeStands
  <2> QED BY <2>4, <2>5, <2>6, WriteStep
<1> QED BY <1>1, <1>2

\* A write that leaves the sweep in order.
LEMMA WriteAndSweep ==
    ASSUME CognitionInv, plan' = plan,
           NEW new, NEW links, Writable(new, links, References), Written(new, links),
           NEW ws, WorldMoves(ws), SweepHolds', \E S \in SUBSET References' : Current(S)'
    PROVE  CognitionInv'
<1>1. Stored'
  BY WriteKeepsStore DEF CognitionInv
<1>2. References \subseteq References'
  BY WriteReferences DEF CognitionInv, Writable, Pairs
<1>3. WorkersHold'
  BY <1>2, WorkersMove DEF CognitionInv
<1> QED BY <1>1, <1>3 DEF CognitionInv

LEMMA EmitStep ==
    ASSUME WorkersHold, UNCHANGED <<plan, version, edge>>, NEW S \in SUBSET References, Emit(S),
           derived \subseteq References
    PROVE  WorkersHold' /\ derived' \subseteq References'
<1>1. References' = References
  BY DEF References
<1>2. derived' \subseteq References'
  BY <1>1 DEF Emit
<1>3. ASSUME UNCHANGED worker PROVE WorkersHold'
  BY <1>3, WorkersStill
<1>4. ASSUME WorldMoves({}) PROVE WorkersHold'
  BY <1>1, <1>4, WorkersMove
<1> QED BY <1>2, <1>3, <1>4 DEF Emit

LEMMA SweepStartStep ==
    ASSUME CognitionInv, SweepStarts
    PROVE  CognitionInv'
<1>1. UNCHANGED <<plan, version, edge, failures>>
  BY DEF SweepStarts
<1>2. PICK S : S = {<<v, Rev(v)>> : v \in {u \in Window : Derivable(u)}}
  OBVIOUS
<1>3. S \in SUBSET References
  BY <1>2, RevisionCount DEF CognitionInv, Derivable, Summarized
<1>4. Emit(S)
  BY <1>2 DEF SweepStarts
<1>5. derived \subseteq References /\ SweepHolds /\ WorkersHold
  BY DEF CognitionInv, SweepHolds
<1>6. WorkersHold' /\ derived' \subseteq References'
  BY <1>1, <1>3, <1>4, <1>5, EmitStep
<1>7. plan.ladder \in Seq(Window) /\ plan.ladder # <<>>
  BY PlanIsOfKinds DEF CognitionInv, SweepStarts
<1>8. Going(plan.ladder) \in SweepAt /\ Going(plan.ladder).todo # <<>> /\ sweep' = Going(plan.ladder)
  BY <1>7, GoingIs DEF SweepStarts
<1>9. References' = References /\ failures' \in 0 .. plan.failures
  BY <1>1 DEF References, CognitionInv, SweepHolds
<1>10. SweepHolds'
  BY <1>1, <1>5, <1>6, <1>8, <1>9, SweepStands
<1> QED BY <1>1, <1>6, <1>10, QuietStep

\* A step of the sweep that writes nothing.
LEMMA SweepMoves ==
    ASSUME CognitionInv, UNCHANGED <<plan, version, edge, worker, derived>>, failures' \in 0 .. plan.failures,
           NEW x, x \in SweepAt, x.pc # "resting" => x.todo # <<>>, sweep' = x
    PROVE  CognitionInv'
<1>1. WorkersHold'
  BY WorkersStill DEF CognitionInv
<1>2. References' = References
  BY DEF References
<1>3. SweepHolds'
  BY <1>2, SweepStands DEF CognitionInv, SweepHolds
<1> QED BY <1>1, <1>3, QuietStep

LEMMA SelectStep ==
    ASSUME CognitionInv, WindowIsSelected
    PROVE  CognitionInv'
<1>1. PICK x : x = [pc |-> "selected", todo |-> sweep.todo, sources |-> Selected(Here), fresh |-> TRUE]
  OBVIOUS
<1>2. sweep.todo \in Seq(Window) /\ sweep.todo # <<>>
  BY DEF CognitionInv, SweepHolds, WindowIsSelected
<1>3. Selected(Here) \subseteq References
  BY DEF Selected
<1>4. x \in SweepAt /\ x.todo # <<>>
  BY <1>1, <1>2, <1>3 DEF SweepAt
<1>5. UNCHANGED <<plan, version, edge, worker, derived, failures>> /\ sweep' = x
  BY <1>1 DEF WindowIsSelected
<1> QED BY <1>4, <1>5, SweepMoves DEF CognitionInv, SweepHolds

LEMMA AskStep ==
    ASSUME CognitionInv, ModelIsAsked
    PROVE  CognitionInv'
<1>1. sweep \in SweepAt /\ sweep.todo # <<>>
  BY DEF CognitionInv, SweepHolds, SweepAt, ModelIsAsked
<1>2. PICK x : x = [sweep EXCEPT !.pc = "asked"]
  OBVIOUS
<1>3. x \in SweepAt /\ x.todo # <<>>
  BY <1>1, <1>2 DEF SweepAt
<1>4. UNCHANGED <<plan, version, edge, worker, derived, failures>> /\ sweep' = x
  BY <1>2 DEF ModelIsAsked
<1> QED BY <1>3, <1>4, SweepMoves DEF CognitionInv, SweepHolds

\* Leaving a window, whether it is current, refused or the model failed.
LEMMA LeaveStep ==
    ASSUME CognitionInv, WindowIsLeft \/ SummaryIsRefused \/ ModelFails \/ SweeperStops
    PROVE  CognitionInv'
<1>1. sweep.pc # "resting"
  BY DEF WindowIsLeft, SummaryIsRefused, ModelFails, SweeperStops
<1>2. plan.failures \in Nat /\ failures \in 0 .. plan.failures /\ SweepHolds
  BY PlanIsOfKinds DEF CognitionInv, SweepHolds
<1>3. UNCHANGED <<plan, version, edge, worker, derived>> /\ failures' \in 0 .. plan.failures
  BY <1>2 DEF WindowIsLeft, SummaryIsRefused, ModelFails, SweeperStops
<1>4. CASE sweep' = Onward
  BY <1>1, <1>2, <1>3, <1>4, HereIs, SweepMoves
<1>5. CASE sweep' = Resting
  BY <1>3, <1>5, RestingIs, SweepMoves
<1> QED BY <1>4, <1>5 DEF WindowIsLeft, SummaryIsRefused, ModelFails, SweeperStops

LEMMA DeriveStep ==
    ASSUME CognitionInv, DerivationIsScheduled
    PROVE  CognitionInv'
<1>1. UNCHANGED <<plan, version, edge, failures>> /\ sweep.pc # "resting" /\ sweep' = Onward
  BY DEF DerivationIsScheduled
<1>2. PICK S : S = IF Derivable(Here) THEN {<<Here, Rev(Here)>>} ELSE {}
  OBVIOUS
<1>3. S \in SUBSET References
  BY <1>2, RevisionCount DEF CognitionInv, Derivable, Summarized
<1>4. Emit(S)
  BY <1>2 DEF DerivationIsScheduled
<1>5. derived \subseteq References /\ SweepHolds /\ WorkersHold
  BY DEF CognitionInv, SweepHolds
<1>6. WorkersHold' /\ derived' \subseteq References'
  BY <1>1, <1>3, <1>4, <1>5, EmitStep
<1>7. References' = References /\ failures' \in 0 .. plan.failures
  BY <1>1 DEF References, CognitionInv, SweepHolds
<1>8. SweepHolds'
  BY <1>1, <1>5, <1>6, <1>7, SweepOnward
<1> QED BY <1>1, <1>6, <1>8, QuietStep

LEMMA TruncateStep ==
    ASSUME CognitionInv, WindowIsTruncated
    PROVE  CognitionInv'
<1>1. sweep.pc # "resting" /\ sweep' = Onward /\ UNCHANGED <<plan, derived, failures>>
  BY DEF WindowIsTruncated
<1>2. SweepHolds /\ Stored /\ failures \in 0 .. plan.failures /\ derived \subseteq References
  BY DEF CognitionInv, SweepHolds
<1>3. PICK v \in Window : v = Here
  BY <1>1, <1>2, HereIs
<1>4. CASE ~Summarized(Here)
  <2>1. UNCHANGED <<version, edge, worker>>
    BY <1>4 DEF WindowIsTruncated
  <2>2. Onward \in SweepAt /\ (Onward.pc # "resting" => Onward.todo # <<>>)
    BY <1>1, <1>2, HereIs
  <2> QED BY <1>1, <1>2, <2>1, <2>2, SweepMoves
<1>5. CASE Summarized(Here)
  <2>1. PICK x, n, S : x = <<v, Rev(v)>> /\ n = <<v, Rev(v) + 1>> /\ S = version[x].basis
    OBVIOUS
  <2>2. Next1(x) = n /\ x \in References
    BY <1>2, <1>3, <1>5, <2>1, RevisionCount DEF Next1, Summarized
  <2>3. PICK new, links : new = [y \in {n} |-> Marked(x)] /\ links = Links(n, S)
    OBVIOUS
  <2>4. S \in SUBSET References
    BY <1>2, <2>1, <2>2 DEF Stored, Sound
  <2>5. Marked(x).stale = TRUE /\ Marked(x).basis = S
    BY <2>1 DEF Marked
  <2>6. Marked(x).life \in Lives
    BY <1>2, <2>2, MarkIsSound DEF Sound
  <2>7. Writable(new, links, References)
    <3>1. PICK r : r = Marked(x)
      OBVIOUS
    <3>2. r.life \in Lives /\ r.stale = TRUE /\ r.basis = S
      BY <2>5, <2>6, <3>1
    <3>3. new = [y \in {n} |-> r]
      BY <2>3, <3>1
    <3> QED BY <1>2, <2>1, <2>3, <2>4, <3>2, <3>3, SummaryWritable
  <2>8. Written(new, links) /\ WorldMoves({})
    BY <1>3, <1>5, <2>1, <2>2, <2>3 DEF WindowIsTruncated
  <2>9. ASSUME NEW z \in References, Next1(z) \in DOMAIN new PROVE z[1] \in Policy \cup Window
    BY <2>1, <2>3, <2>9 DEF Next1
  <2>10. \A y \in DOMAIN new : y[1] \in Window => new[y].stale
    BY <2>3, <2>5
  <2>11. \E T \in SUBSET References' : Current(T)'
    BY <2>7, <2>8, <2>9, <2>10, NothingLost
  <2>12. References \subseteq References'
    BY <1>2, <2>7, <2>8, WriteReferences DEF Writable, Pairs
  <2>13. SweepHolds'
    BY <1>1, <1>2, <2>12, SweepOnward
  <2> QED BY <1>1, <2>7, <2>8, <2>11, <2>13, WriteAndSweep
<1> QED BY <1>4, <1>5

LEMMA SummaryStep ==
    ASSUME CognitionInv, SummaryIsCommitted
    PROVE  CognitionInv'
<1>1. sweep.pc # "resting" /\ UNCHANGED <<plan, derived, failures>>
  BY DEF SummaryIsCommitted
<1>2. SweepHolds /\ Stored /\ failures \in 0 .. plan.failures /\ derived \subseteq References /\ plan \in Plan
  BY DEF CognitionInv, SweepHolds
<1>3. PICK v \in Window : v = Here
  BY <1>1, <1>2, HereIs
<1>4. PICK src : src = sweep.sources
  OBVIOUS
<1>5. src \subseteq Selected(v) /\ src \in SUBSET References
  BY <1>3, <1>4 DEF SummaryIsCommitted, Whole, Selected
<1>6. PICK x, new, links :
        x = <<v, Rev(v) + 1>> /\ new = [y \in {x} |-> Supported(src, "active")] /\ links = Links(x, src)
  OBVIOUS
<1>7. Written(new, links) /\ WorldMoves({})
  BY <1>3, <1>4, <1>6 DEF SummaryIsCommitted
<1>8. Writable(new, links, References)
  <2>1. Supported(src, "active").life \in Lives
    BY LivesAre DEF Supported
  <2>2. Supported(src, "active").stale = FALSE /\ Supported(src, "active").basis = src
    BY DEF Supported
  <2> QED BY <1>2, <1>5, <1>6, <2>1, <2>2, SummaryWritable
<1>9. References \subseteq References'
  BY <1>2, <1>7, <1>8, WriteReferences DEF Writable, Pairs
<1>10. PICK S \in SUBSET References : Current(S)
  BY DEF CognitionInv
<1>11. Current(S \cup src \cup {x})'
  BY <1>2, <1>5, <1>6, <1>7, <1>10, CurrentGrows
<1>12. S \cup src \cup {x} \in SUBSET References'
  BY <1>11 DEF Current
<1>13. PICK t : t = [pc |-> "committed", todo |-> sweep.todo, sources |-> sweep.sources, fresh |-> FALSE]
  OBVIOUS
<1>14. t \in SweepAt /\ t.todo # <<>>
  BY <1>1, <1>2, <1>13 DEF SweepAt, SweepHolds
<1>15. sweep' = t
  BY <1>13 DEF SummaryIsCommitted
<1>16. SweepHolds'
  BY <1>1, <1>2, <1>9, <1>14, <1>15, SweepStands
<1> QED BY <1>1, <1>7, <1>8, <1>11, <1>12, <1>16, WriteAndSweep

LEMMA InvInit ==
    ASSUME CognitionInit
    PROVE  CognitionInv
<1>1. plan \in Plan /\ edge = {} /\ derived = {} /\ failures = 0
  BY DEF CognitionInit
<1>2. References = {<<r, 1>> : r \in plan.known} /\ \A x \in References : version[x] = Unborn
  BY DEF CognitionInit, References
<1>3. plan.known \subseteq Reality /\ IsFiniteSet(plan.known) /\ plan.failures \in Nat
  BY <1>1, PlanIsOfKinds
<1>4. IsFiniteSet(References)
  <2> DEFINE f == [r \in plan.known |-> <<r, 1>>]
             M == {<<r, 1>> : r \in plan.known}
  <2>1. f \in Surjection(plan.known, M)
    BY DEF Surjection
  <2> HIDE DEF f
  <2>2. IsFiniteSet(M)
    <3> HIDE DEF M
    <3> QED BY <1>3, <2>1, FS_Surjection
  <2> QED BY <1>2, <2>2
<1>5. ASSUME NEW x \in References PROVE Numbered(x)
  <2>1. PICK r \in plan.known : x = <<r, 1>>
    BY <1>2
  <2>2. {y \in References : y[1] = r} = {x}
    BY <1>2, <2>1
  <2>3. Cardinality({x}) = 1
    BY FS_Singleton
  <2>4. Rev(r) = 1
    BY <2>2, <2>3 DEF Rev
  <2> QED BY <2>1, <2>4 DEF Numbered
<1>6. ASSUME NEW x \in References PROVE Sound(x, version[x], References) /\ OnRecord(x, version[x], edge)
  <2>1. version[x] = Unborn
    BY <1>2
  <2>2. Sound(x, Unborn, References) /\ OnRecord(x, Unborn, edge)
    BY LivesAre DEF Sound, OnRecord, Unborn, Links
  <2> QED BY <2>1, <2>2
<1>7. Stored
  BY <1>1, <1>4, <1>5, <1>6 DEF Stored
<1>8. WorkersHold
  <2>1. worker = [w \in plan.worker |-> Idle]
    BY DEF CognitionInit
  <2> QED BY <2>1, IdleIsReady DEF WorkersHold
<1>9. SweepHolds
  <2>1. sweep = Resting
    BY DEF CognitionInit
  <2>2. sweep \in SweepAt /\ sweep.pc = "resting"
    BY <2>1, RestingIs
  <2> QED BY <1>1, <1>3, <2>2 DEF SweepHolds, SweepAt
<1>10. Current({})
  <2>1. ASSUME NEW v \in Window, Summarized(v) PROVE FALSE
    <3>1. <<v, Rev(v)>> \in References
      BY <1>7, <2>1, RevisionCount DEF Summarized
    <3>2. v \in Reality
      BY <1>2, <1>3, <3>1
    <3> QED BY <3>2, KindsAreApart
  <2> QED BY <2>1 DEF Current
<1> QED BY <1>1, <1>7, <1>8, <1>9, <1>10 DEF CognitionInv

LEMMA InvNext ==
    ASSUME CognitionInv, [CognitionNext]_cognitionVars
    PROVE  CognitionInv'
<1>1. CASE UNCHANGED cognitionVars
  <2>1. WorkersHold' /\ SweepHolds'
    BY <1>1, WorkersStill, SweepStill DEF CognitionInv, cognitionVars
  <2> QED BY <1>1, <2>1, QuietStep DEF cognitionVars
<1>2. CASE \E r \in plan.reality : RealityArrives(r)
  BY <1>2, RealityStep
<1>3. CASE \E cited \in Citations : \E c \in plan.claim : ClaimIsWritten(c, cited)
  BY <1>3, ClaimStep
<1>4. CASE \E cited \in Citations : \E e \in plan.event : EventIsFormed(e, cited)
  BY <1>4, EventStep
<1>5. ASSUME NEW w \in plan.worker, \E x \in {y \in References : y[1] \in Claim \cup Event} : Correct(w, x)
      PROVE  CognitionInv'
  BY <1>5, CorrectStep
<1>6. ASSUME NEW w \in plan.worker, \E p \in plan.policy : Learn(w, p)
      PROVE  CognitionInv'
  BY <1>6, LearnStep
<1>7. ASSUME NEW w \in plan.worker, CorrectionIsCommitted(w) \/ PolicyIsChanged(w) \/ WorkerStops(w)
      PROVE  CognitionInv'
  BY <1>7, CorrectionCommitStep, PolicyStep, StopStep
<1>8. CASE Sweep
  BY <1>8, SweepStartStep, SelectStep, LeaveStep, TruncateStep, AskStep, SummaryStep, DeriveStep DEF Sweep
<1>9. CASE ModelFails \/ SweeperStops
  BY <1>9, LeaveStep
<1> QED BY <1>1, <1>2, <1>3, <1>4, <1>5, <1>6, <1>7, <1>8, <1>9 DEF CognitionNext

\* The inductive invariant of claims, events, policies and summaries: the world is in order,
\* what a worker is about to write still holds while nobody else writes, and what current
\* summaries are made of is whole and uncorrected.
THEOREM CognitionInvariant == CognitionSpec => []CognitionInv
<1>1. CognitionInit => CognitionInv
  BY InvInit
<1>2. CognitionInv /\ [CognitionNext]_cognitionVars => CognitionInv'
  BY InvNext
<1> QED BY <1>1, <1>2, PTL DEF CognitionSpec

-----------------------------------------------------------------------------
(* Types.                                                                  *)

\* Types; revisions follow one another, and what the first revisions of claims, sets and
\* events and every summary name is on record (the commits of writeback/cognition.py,
\* events/service.py and summaries/dimension_summary.py).
THEOREM CognitionTypesThm == CognitionSpec => []CognitionTypeOK
<1>1. ASSUME CognitionInv PROVE CognitionTypeOK
  <2>1. Stored /\ SweepHolds
    BY <1>1 DEF CognitionInv
  <2>2. ASSUME NEW x \in References
        PROVE  /\ version[x].life \in Lives /\ version[x].stale \in BOOLEAN
               /\ version[x].basis \subseteq References
               /\ x[2] > 1 => <<x[1], x[2] - 1>> \in References
               /\ (x[1] \in Window \/ x[2] = 1) /\ ~version[x].stale => Links(x, version[x].basis) \subseteq edge
    <3>1. Sound(x, version[x], References) /\ OnRecord(x, version[x], edge) /\ Numbered(x) /\ Rev(x[1]) \in Nat
      BY <2>1, RevisionCount DEF Stored
    <3>2. x[2] > 1 => x[2] - 1 \in 1 .. Rev(x[1])
      BY <3>1 DEF Numbered
    <3> QED BY <3>1, <3>2 DEF Sound, OnRecord, Numbered
  <2>3. \A l \in edge : {l[1], l[2]} \subseteq References
    BY <2>1 DEF Stored
  <2>4. derived \subseteq References /\ failures \in 0 .. plan.failures
    BY <2>1 DEF SweepHolds
  <2>5. sweep.pc \in {"resting", "next", "selected", "asked", "committed"} /\ sweep.sources \subseteq References
    BY <2>1 DEF SweepHolds
  <2> QED BY <2>2, <2>3, <2>4, <2>5 DEF CognitionTypeOK
<1> QED BY <1>1, CognitionInvariant, PTL

-----------------------------------------------------------------------------
(* What current summaries show.                                            *)

\* No summary that passes for current, at whatever scale, shows a claim, an event or a set
\* that has since been corrected, retracted or marked (revision/propagation.py against
\* summaries/dimension_summary.py).
THEOREM NothingCorrectedThm == CognitionSpec => []NothingCorrectedIsShown
<1>1. ASSUME CognitionInv PROVE NothingCorrectedIsShown
  <2>1. PICK S \in SUBSET References : Current(S)
    BY <1>1 DEF CognitionInv
  <2>2. Stored
    BY <1>1 DEF CognitionInv
  <2> SUFFICES ASSUME NEW v \in Window, Summarized(v), NEW x \in Shown(v) PROVE Admissible(x)
    BY DEF NothingCorrectedIsShown
  <2> DEFINE next == Sources
             top == {<<v, Rev(v)>>}
  <2>3. DOMAIN next = References /\ \A y \in References : next[y] = IF y[1] \in Window THEN version[y].basis ELSE {}
    BY DEF Sources
  <2>4. next \in [References -> SUBSET References]
    BY <2>2 DEF Sources, Stored, Sound
  <2>5. top \subseteq S /\ top \in SUBSET References
    BY <2>1 DEF Current
  <2>6. x \in Reached(next, top) /\ x[1] \notin Window
    BY DEF Shown
  <2> HIDE DEF next, top
  <2>7. Closed(next, S)
    BY <2>1, <2>3 DEF Closed, Current
  <2>8. next \in [DOMAIN next -> SUBSET DOMAIN next] /\ IsFiniteSet(DOMAIN next) /\ top \in SUBSET DOMAIN next
        /\ S \in SUBSET DOMAIN next
    BY <2>2, <2>3, <2>4, <2>5 DEF Stored
  <2>9. Reached(next, top) \subseteq S
    BY <2>5, <2>7, <2>8, ReachedIsLeast
  <2> QED BY <2>1, <2>6, <2>9 DEF Current
<1> QED BY <1>1, CognitionInvariant, PTL

-----------------------------------------------------------------------------
(* What a step may write.                                                  *)

\* Revisions of summaries, which answer no request.
Retold(new) == \A x \in DOMAIN new : x[1] \in Window /\ new[x].by = NoRequest

\* A version that answers a request nobody answered before.
Answered(new) ==
    \E request : ChangeStands(new, request) /\ \A y \in References : version[y].by # request

Allowed(new) == First(new) \/ CorrectionStands(new) \/ Answered(new) \/ Retold(new)

WritesOf(new, links) == Pairs(new) /\ Written(new, links) /\ Allowed(new)

LEMMA FirstWrites ==
    ASSUME CognitionInv,
           \/ \E r \in plan.reality : RealityArrives(r)
           \/ \E cited \in Citations : \/ \E c \in plan.claim : ClaimIsWritten(c, cited)
                                       \/ \E e \in plan.event : EventIsFormed(e, cited)
    PROVE  \E new, links : WritesOf(new, links)
<1>1. ASSUME NEW r \in plan.reality, RealityArrives(r) PROVE \E new, links : WritesOf(new, links)
  <2>1. PICK new : new = [x \in {<<r, 1>>} |-> Unborn]
    OBVIOUS
  <2>2. Writable(new, {}, References) /\ First(new)
    BY <2>1, RealityWritable DEF CognitionInv
  <2>3. Written(new, {})
    BY <1>1, <2>1 DEF RealityArrives
  <2> QED BY <2>2, <2>3 DEF WritesOf, Allowed, Writable, Pairs
<1>2. ASSUME NEW cited \in Citations, NEW c \in plan.claim, ClaimIsWritten(c, cited)
      PROVE  \E new, links : WritesOf(new, links)
  <2>1. PICK s, new, links : s = <<TurnOf[c], 1, cited>> /\ new = ClaimBundle(c, s) /\ links = ClaimLinks(c, s)
    OBVIOUS
  <2>2. Writable(new, links, References) /\ First(new)
    BY <2>1, ClaimWritable DEF CognitionInv
  <2>3. Written(new, links)
    BY <1>2, <2>1 DEF ClaimIsWritten
  <2> QED BY <2>2, <2>3 DEF WritesOf, Allowed, Writable, Pairs
<1>3. ASSUME NEW cited \in Citations, NEW e \in plan.event, EventIsFormed(e, cited)
      PROVE  \E new, links : WritesOf(new, links)
  <2>1. PICK s, new, links :
          /\ s = <<<<e, 1, cited>>, 1>> /\ new = EventBundle(e, cited, s)
          /\ links = Links(<<e, 1>>, {s}) \cup Links(s, cited)
    OBVIOUS
  <2>2. Writable(new, links, References) /\ First(new)
    BY <2>1, EventWritable DEF CognitionInv
  <2>3. Written(new, links)
    BY <1>3, <2>1 DEF EventIsFormed, EventBundle
  <2> QED BY <2>2, <2>3 DEF WritesOf, Allowed, Writable, Pairs
<1> QED BY <1>1, <1>2, <1>3

LEMMA WorkerWrites ==
    ASSUME CognitionInv, NEW w \in plan.worker,
           CorrectionIsCommitted(w) \/ (PolicyIsChanged(w) /\ ~Recorded(w))
    PROVE  \E new, links : WritesOf(new, links)
<1>1. PICK r, new, links : r = worker[w] /\ new = r.new /\ links = r.links
  OBVIOUS
<1>2. Ready(r) /\ r.fresh /\ Written(new, links)
  BY <1>1 DEF CognitionInv, WorkersHold, CorrectionIsCommitted, PolicyIsChanged, Unchanged
<1>3. Pairs(new)
  BY <1>1, <1>2 DEF Ready, Writable, Pairs
<1>4. CASE CorrectionIsCommitted(w)
  <2>1. CorrectionStands(new)
    BY <1>1, <1>2, <1>4 DEF Ready, Stands, CorrectionIsCommitted
  <2> QED BY <1>2, <1>3, <2>1 DEF WritesOf, Allowed
<1>5. CASE PolicyIsChanged(w) /\ ~Recorded(w)
  <2>1. ChangeStands(new, r.by)
    BY <1>1, <1>2, <1>5 DEF Ready, Stands, PolicyIsChanged
  <2>2. \A y \in References : version[y].by # r.by
    BY <1>1, <1>5 DEF Recorded
  <2> QED BY <1>2, <1>3, <2>1, <2>2 DEF WritesOf, Allowed, Answered
<1> QED BY <1>4, <1>5

LEMMA SweepWrites ==
    ASSUME CognitionInv, SummaryIsCommitted \/ (WindowIsTruncated /\ Summarized(Here))
    PROVE  \E new, links : WritesOf(new, links)
<1>1. PICK v \in Window : v = Here
  BY HereIs DEF CognitionInv, SummaryIsCommitted, WindowIsTruncated
<1>2. ASSUME NEW n, n = <<v, Rev(v) + 1>>, NEW r, r.by = NoRequest, NEW new, new = [y \in {n} |-> r], NEW links,
             Written(new, links)
      PROVE  WritesOf(new, links)
  <2>1. DOMAIN new = {n} /\ new[n] = r /\ n = <<n[1], n[2]>> /\ n[1] = v
    BY <1>2
  <2>2. Retold(new) /\ Pairs(new)
    BY <1>2, <2>1 DEF Retold, Pairs
  <2> QED BY <1>2, <2>2 DEF WritesOf, Allowed
<1>3. CASE SummaryIsCommitted
  <2>1. PICK n, r, new, links : /\ n = <<v, Rev(v) + 1>> /\ r = Supported(sweep.sources, "active")
                                /\ new = [y \in {n} |-> r] /\ links = Links(n, sweep.sources)
    OBVIOUS
  <2>2. Written(new, links)
    BY <1>1, <1>3, <2>1 DEF SummaryIsCommitted
  <2>3. r.by = NoRequest
    BY <2>1 DEF Supported
  <2> QED BY <1>2, <2>1, <2>2, <2>3
<1>4. CASE WindowIsTruncated /\ Summarized(Here)
  <2>1. PICK x, n, r, new, links : /\ x = <<v, Rev(v)>> /\ n = <<v, Rev(v) + 1>> /\ r = Marked(x)
                                   /\ new = [y \in {n} |-> r] /\ links = Links(n, version[x].basis)
    OBVIOUS
  <2>2. Next1(x) = n
    BY <2>1 DEF Next1
  <2>3. Written(new, links)
    BY <1>1, <1>4, <2>1, <2>2 DEF WindowIsTruncated
  <2>4. r.by = NoRequest
    BY <2>1 DEF Marked
  <2> QED BY <1>2, <2>1, <2>3, <2>4
<1> QED BY <1>3, <1>4

LEMMA StepWrites ==
    ASSUME CognitionInv, CognitionNext
    PROVE  version' = version \/ \E new, links : WritesOf(new, links)
<1>1. CASE \/ \E r \in plan.reality : RealityArrives(r)
           \/ \E cited \in Citations : \/ \E c \in plan.claim : ClaimIsWritten(c, cited)
                                       \/ \E e \in plan.event : EventIsFormed(e, cited)
  BY <1>1, FirstWrites
<1>2. ASSUME NEW w \in plan.worker, \E x \in {y \in References : y[1] \in Claim \cup Event} : Correct(w, x)
      PROVE  version' = version
  BY <1>2 DEF Correct, CorrectionIsAsked
<1>3. ASSUME NEW w \in plan.worker, \E p \in plan.policy : Learn(w, p)
      PROVE  version' = version
  BY <1>3 DEF Learn, RegistrationIsAsked, UpdateIsAsked, RollbackIsAsked, Change
<1>4. ASSUME NEW w \in plan.worker, CorrectionIsCommitted(w) \/ PolicyIsChanged(w) \/ WorkerStops(w)
      PROVE  version' = version \/ \E new, links : WritesOf(new, links)
  <2>1. version' = version \/ CorrectionIsCommitted(w) \/ (PolicyIsChanged(w) /\ ~Recorded(w))
    BY <1>4 DEF PolicyIsChanged, WorkerStops
  <2> QED BY <2>1, WorkerWrites
<1>5. CASE Sweep \/ ModelFails \/ SweeperStops
  <2>1. version' = version \/ SummaryIsCommitted \/ (WindowIsTruncated /\ Summarized(Here))
    BY <1>5 DEF Sweep, SweepStarts, WindowIsSelected, WindowIsLeft, WindowIsTruncated, ModelIsAsked,
                SummaryIsRefused, DerivationIsScheduled, ModelFails, SweeperStops
  <2> QED BY <2>1, SweepWrites
<1> QED BY <1>1, <1>2, <1>3, <1>4, <1>5 DEF CognitionNext

\* What a step adds is what it writes.
LEMMA Added ==
    ASSUME Stored, NEW new, NEW links, WritesOf(new, links), NEW x \in DOMAIN version', x \notin References
    PROVE  x \in DOMAIN new /\ version'[x] = new[x]
<1>1. x \in References'
  BY DEF References
<1> QED BY <1>1, WriteReferences DEF WritesOf

-----------------------------------------------------------------------------
(* A correction reaches everything.                                        *)

Reaches ==
    \A x \in References : Superseded(x) =>
        \A y \in Impacted(x) : IsNewest(y) => Next1(y) \in DOMAIN version' /\ version'[Next1(y)].stale

LEMMA NewestIsLast ==
    ASSUME Stored, NEW x \in References, IsNewest(x)
    PROVE  Next1(x) \notin References /\ Next1(x)[1] = x[1] /\ Next1(x)[2] = x[2] + 1 /\ x[2] \in Nat \ {0}
           /\ x = <<x[1], x[2]>>
<1>1. Numbered(x) /\ Rev(x[1]) \in Nat
  BY RevisionCount DEF Stored
<1>2. Next1(x) = <<Next1(x)[1], Next1(x)[2]>> /\ Next1(x)[1] = x[1] /\ Next1(x)[2] = x[2] + 1
  BY DEF Next1
<1>3. Follows(Next1(x))
  BY <1>2 DEF Follows, IsNewest
<1>4. Next1(x) \notin References
  BY <1>2, <1>3, NextIsNew
<1> QED BY <1>1, <1>2, <1>4 DEF Numbered

LEMMA StepReaches ==
    ASSUME CognitionInv, [CognitionNext]_cognitionVars
    PROVE  Reaches
<1> SUFFICES ASSUME NEW x \in References, Superseded(x), NEW y \in Impacted(x), IsNewest(y)
             PROVE  Next1(y) \in DOMAIN version' /\ version'[Next1(y)].stale
  BY DEF Reaches
<1>1. Stored /\ x[1] \in Claim \cup Event /\ IsNewest(x)
      /\ Next1(x) \in DOMAIN version' /\ ~version'[Next1(x)].stale
  BY DEF CognitionInv, Superseded
<1>2. Next1(x) \notin References /\ Next1(x)[1] = x[1] /\ Next1(x)[2] = x[2] + 1 /\ x[2] \in Nat \ {0}
  BY <1>1, NewestIsLast
<1>3. version' # version
  BY <1>1, <1>2 DEF References
<1>4. PICK new, links : WritesOf(new, links)
  BY <1>3, StepWrites DEF cognitionVars
<1>5. Next1(x) \in DOMAIN new /\ version'[Next1(x)] = new[Next1(x)]
  BY <1>1, <1>2, <1>4, Added
<1>6. ~First(new) /\ ~Retold(new)
  BY <1>1, <1>2, <1>5, KindsAreApart DEF First, Retold
<1>7. ~Answered(new)
  BY <1>1, <1>5, KindsAreApart DEF Answered, ChangeStands
<1>8. CorrectionStands(new)
  BY <1>4, <1>6, <1>7 DEF WritesOf, Allowed
<1>9. PICK z \in References :
        /\ \A u \in Impacted(z) : IsNewest(u) => Next1(u) \in DOMAIN new /\ new[Next1(u)].stale
        /\ \A u \in References : Next1(u) \in DOMAIN new => u = z \/ (u \in Impacted(z) /\ new[Next1(u)].stale)
  BY <1>8 DEF CorrectionStands
<1>10. x = z
  BY <1>1, <1>5, <1>9
<1>11. Next1(y) \in DOMAIN new /\ new[Next1(y)].stale
  BY <1>9, <1>10
<1> QED BY <1>1, <1>4, <1>11, WriteReferences DEF WritesOf, References

\* In the very commit that supersedes a claim or an event by a newer understanding, all that
\* depends on the old one, however far and however recently written, is marked for review
\* (revision/service.py and events/service.py with revision/propagation.py).
THEOREM CorrectionReachesThm == CognitionSpec => CorrectionReaches
<1>1. CognitionInv /\ [CognitionNext]_cognitionVars => [Reaches]_cognitionVars
  BY StepReaches
<1>2. [][Reaches]_cognitionVars <=> CorrectionReaches
  BY DEF CorrectionReaches, Reaches
<1> HIDE DEF CognitionInv, Reaches
<1> QED BY <1>1, <1>2, CognitionInvariant, PTL DEF CognitionSpec

-----------------------------------------------------------------------------
(* Policies are learned once, from cases that hold.                        *)

Learned ==
    \A p \in plan.policy :
        LET x == <<p, Rev(p) + 1>> IN
        x \in DOMAIN version' /\ version'[x].by # NoRequest =>
           /\ \A y \in References : version[y].by # version'[x].by
           /\ \A s \in version'[x].basis : \A y \in version'[s].basis : IsCase(y)

LEMMA StepLearns ==
    ASSUME CognitionInv, [CognitionNext]_cognitionVars
    PROVE  Learned
<1> SUFFICES ASSUME NEW p \in plan.policy, NEW x, x = <<p, Rev(p) + 1>>,
                    x \in DOMAIN version', version'[x].by # NoRequest
             PROVE  /\ \A y \in References : version[y].by # version'[x].by
                    /\ \A s \in version'[x].basis : \A y \in version'[s].basis : IsCase(y)
  BY DEF Learned
<1>1. Stored /\ p \in Policy
  BY PlanIsOfKinds DEF CognitionInv
<1>2. x \notin References
  <2>1. x = <<x[1], x[2]>> /\ Follows(x)
    BY DEF Follows
  <2> QED BY <1>1, <2>1, NextIsNew
<1>3. version' # version
  BY <1>2 DEF References
<1>4. PICK new, links : WritesOf(new, links)
  BY <1>3, StepWrites DEF cognitionVars
<1>5. x \in DOMAIN new /\ version'[x] = new[x]
  BY <1>1, <1>2, <1>4, Added
<1>6. Answered(new)
  BY <1>4, <1>5 DEF WritesOf, Allowed, First, Retold, CorrectionStands
<1>7. PICK request : ChangeStands(new, request) /\ \A y \in References : version[y].by # request
  BY <1>6 DEF Answered
<1>8. new[x].by = request /\ \A s \in new[x].basis : s \in DOMAIN new /\ \A y \in new[s].basis : IsCase(y)
  BY <1>5, <1>7 DEF ChangeStands
<1>9. \A s \in DOMAIN new : version'[s] = new[s]
  BY <1>1, <1>4, WriteReferences DEF WritesOf
<1> QED BY <1>5, <1>7, <1>8, <1>9

\* A request to change a policy has one effect however often it is repeated, and every
\* piece of evidence it has is current and active when the version takes effect
\* (policy/service.py).
THEOREM PoliciesAreLearnedThm == CognitionSpec => PoliciesAreLearned
<1>1. CognitionInv /\ [CognitionNext]_cognitionVars => [Learned]_cognitionVars
  BY StepLearns
<1>2. [][Learned]_cognitionVars <=> PoliciesAreLearned
  BY DEF PoliciesAreLearned, Learned
<1> HIDE DEF CognitionInv, Learned
<1> QED BY <1>1, <1>2, CognitionInvariant, PTL DEF CognitionSpec

=============================================================================
