-------------------------- MODULE WorldStoreProofs --------------------------
(* Theorems about the world store, for every set of objects, intents and    *)
(* clients. Every write appends rows at the next world revision, each the   *)
(* next revision of its object; what such a write keeps of the history is   *)
(* proved once and used for commits and for prunes.                         *)
EXTENDS WorldStore, TLAPS

\* The history a write relies on: the revisions of an object are 1..n, in the order of
\* the world revisions that wrote them, one per world revision, and none is empty.
Numbered ==
    \A o \in Object : \E n \in Nat :
        /\ \A r \in rows : r.obj = o => r.rev \in 1..n
        /\ \A m \in 1..n : \E r \in rows : r.obj = o /\ r.rev = m

Ordered == \A r, s \in rows : r.obj = s.obj /\ r.rev <= s.rev => r.world <= s.world
Unforked == \A r, s \in rows : r.obj = s.obj /\ (r.rev = s.rev \/ r.world = s.world) => r = s
NoneEmpty == \A w \in 1..world : \E r \in rows : r.world = w

History ==
    /\ world \in Nat
    /\ rows \subseteq Row /\ \A r \in rows : r.world \in 1..world /\ r.rev <= r.world
    /\ Numbered /\ Ordered /\ Unforked /\ NoneEmpty

\* The rows a write adds.
Appends(new) ==
    /\ new \subseteq Row /\ new # {}
    /\ \A r \in new : r.world = world + 1 /\ r.rev = LatestRevision(r.obj) + 1
    /\ \A r, s \in new : r.obj = s.obj => r = s
    /\ rows' = rows \cup new
    /\ world' = world + 1

LEMMA LatestIsLast ==
    ASSUME NEW o \in Object, NEW n \in Nat,
           \A r \in rows : r.obj = o => r.rev \in 1..n,
           \A m \in 1..n : \E r \in rows : r.obj = o /\ r.rev = m
    PROVE  LatestRevision(o) = n /\ RevisionsOf(o) = 1..n
  <1>1. RevisionsOf(o) = 1..n
    BY DEF RevisionsOf
  <1>2. CASE n = 0
    BY <1>1, <1>2 DEF LatestRevision
  <1>3. CASE n # 0
    <2>1. n \in RevisionsOf(o) /\ \A m \in RevisionsOf(o) : m <= n
      BY <1>1, <1>3
    <2>2. \A k \in RevisionsOf(o) : (\A m \in RevisionsOf(o) : m <= k) => k = n
      BY <1>1, <2>1
    <2>3. RevisionsOf(o) # {}
      BY <2>1
    <2> QED
      BY <1>1, <2>1, <2>2, <2>3 DEF LatestRevision
  <1> QED
    BY <1>1, <1>2, <1>3

LEMMA LatestNumbers ==
    ASSUME Numbered, NEW o \in Object
    PROVE  /\ LatestRevision(o) \in Nat
           /\ \A r \in rows : r.obj = o => r.rev \in 1..LatestRevision(o)
           /\ \A m \in 1..LatestRevision(o) : \E r \in rows : r.obj = o /\ r.rev = m
  <1>1. PICK n \in Nat : /\ \A r \in rows : r.obj = o => r.rev \in 1..n
                         /\ \A m \in 1..n : \E r \in rows : r.obj = o /\ r.rev = m
    BY DEF Numbered
  <1>2. LatestRevision(o) = n
    BY <1>1, LatestIsLast
  <1> QED
    BY <1>1, <1>2

\* An object has at most one revision per world revision.
LEMMA LatestAtMost ==
    ASSUME History, NEW o \in Object
    PROVE  LatestRevision(o) \in Nat /\ LatestRevision(o) <= world /\ LatestRevision(o) + 1 \in 1..world + 1
  <1>1. /\ LatestRevision(o) \in Nat
        /\ \A m \in 1..LatestRevision(o) : \E r \in rows : r.obj = o /\ r.rev = m
    BY LatestNumbers DEF History
  <1>2. world \in Nat
    BY DEF History
  <1>3. CASE LatestRevision(o) = 0
    BY <1>2, <1>3
  <1>4. CASE LatestRevision(o) # 0
    <2>1. LatestRevision(o) \in 1..LatestRevision(o)
      BY <1>1, <1>4
    <2>2. PICK r \in rows : r.rev = LatestRevision(o)
      BY <1>1, <2>1
    <2>3. r.rev <= r.world /\ r.world \in 1..world
      BY DEF History
    <2> QED
      BY <1>1, <1>2, <2>2, <2>3
  <1> QED
    BY <1>1, <1>3, <1>4

LEMMA LatestIsLastPrimed ==
    ASSUME NEW o \in Object, NEW n \in Nat,
           \A r \in rows' : r.obj = o => r.rev \in 1..n,
           \A m \in 1..n : \E r \in rows' : r.obj = o /\ r.rev = m
    PROVE  LatestRevision(o)' = n
  <1>1. RevisionsOf(o)' = 1..n
    BY DEF RevisionsOf
  <1>2. CASE n = 0
    BY <1>1, <1>2 DEF LatestRevision
  <1>3. CASE n # 0
    <2>1. n \in RevisionsOf(o)' /\ \A m \in RevisionsOf(o)' : m <= n
      BY <1>1, <1>3
    <2>2. \A k \in RevisionsOf(o)' : (\A m \in RevisionsOf(o)' : m <= k) => k = n
      BY <1>1, <2>1
    <2>3. RevisionsOf(o)' # {}
      BY <2>1
    <2> QED
      BY <1>1, <2>1, <2>2, <2>3 DEF LatestRevision
  <1> QED
    BY <1>1, <1>2, <1>3

\* A write keeps the history and moves exactly the objects it names.
LEMMA AppendKeepsHistory ==
    ASSUME History, NEW new, Appends(new)
    PROVE  /\ History'
           /\ \A o \in Object : LatestRevision(o)' =
                IF \E r \in new : r.obj = o THEN LatestRevision(o) + 1 ELSE LatestRevision(o)
  <1> DEFINE Last(o) == IF \E r \in new : r.obj = o THEN LatestRevision(o) + 1 ELSE LatestRevision(o)
  <1>0. /\ \A r \in new : r.obj \in Object /\ r.rev \in Nat
        /\ \A r \in rows : r.obj \in Object /\ r.rev \in Nat /\ r.world \in Nat
    BY WorldConstantsOK DEF History, Appends, Row, World, Revision
  <1>1. ASSUME NEW o \in Object
        PROVE  /\ Last(o) \in Nat
               /\ \A r \in rows' : r.obj = o => r.rev \in 1..Last(o)
               /\ \A m \in 1..Last(o) : \E r \in rows' : r.obj = o /\ r.rev = m
    <2>1. /\ LatestRevision(o) \in Nat
          /\ \A r \in rows : r.obj = o => r.rev \in 1..LatestRevision(o)
          /\ \A m \in 1..LatestRevision(o) : \E r \in rows : r.obj = o /\ r.rev = m
      BY LatestNumbers DEF History
    <2>2. CASE \E r \in new : r.obj = o
      <3>1. PICK r \in new : r.obj = o
        BY <2>2
      <3>2. r.rev = LatestRevision(o) + 1 /\ r \in rows'
        BY <3>1 DEF Appends
      <3>3. \A m \in 1..(LatestRevision(o) + 1) : m \in 1..LatestRevision(o) \/ m = LatestRevision(o) + 1
        BY <2>1
      <3>4. Last(o) = LatestRevision(o) + 1
        BY <2>2
      <3>5. \A s \in rows' : s.obj = o => s.rev \in 1..Last(o)
        BY <2>1, <3>4 DEF Appends
      <3>6. \A m \in 1..Last(o) : \E s \in rows' : s.obj = o /\ s.rev = m
        BY <2>1, <3>1, <3>2, <3>3, <3>4 DEF Appends
      <3> QED
        BY <2>1, <3>4, <3>5, <3>6
    <2>3. CASE ~\E r \in new : r.obj = o
      <3>1. Last(o) = LatestRevision(o)
        BY <2>3
      <3> QED
        BY <2>1, <2>3, <3>1 DEF Appends
    <2> QED
      BY <2>2, <2>3
  <1>2. \A o \in Object : LatestRevision(o)' = Last(o)
    BY <1>1, LatestIsLastPrimed
  <1>3. Numbered'
    BY <1>1 DEF Numbered
  <1>4. ASSUME NEW r \in rows, NEW s \in new, r.obj = s.obj
        PROVE  r.rev < s.rev /\ r.world < s.world
    BY <1>0, <1>4, LatestNumbers DEF History, Appends
  <1>5. Ordered'
    <2> SUFFICES ASSUME NEW r \in rows \cup new, NEW s \in rows \cup new,
                        r.obj = s.obj, r.rev <= s.rev
                 PROVE  r.world <= s.world
      BY DEF Ordered, Appends
    <2>1. CASE r \in rows /\ s \in rows
      BY <2>1 DEF History, Ordered
    <2>2. CASE r \in rows /\ s \in new
      BY <2>2, <1>4, <1>0 DEF Appends, History
    <2>3. CASE r \in new /\ s \in rows
      BY <2>3, <1>4, <1>0
    <2>4. CASE r \in new /\ s \in new
      BY <2>4 DEF Appends, History
    <2> QED
      BY <2>1, <2>2, <2>3, <2>4
  <1>6. Unforked'
    <2> SUFFICES ASSUME NEW r \in rows \cup new, NEW s \in rows \cup new,
                        r.obj = s.obj, r.rev = s.rev \/ r.world = s.world
                 PROVE  r = s
      BY DEF Unforked, Appends
    <2>1. CASE r \in rows /\ s \in rows
      BY <2>1 DEF History, Unforked
    <2>2. CASE r \in rows /\ s \in new
      BY <2>2, <1>4, <1>0 DEF Appends, History
    <2>3. CASE r \in new /\ s \in rows
      BY <2>3, <1>4, <1>0 DEF Appends, History
    <2>4. CASE r \in new /\ s \in new
      BY <2>4 DEF Appends
    <2> QED
      BY <2>1, <2>2, <2>3, <2>4
  <1>7. NoneEmpty'
    <2>1. PICK r \in new : TRUE
      BY DEF Appends
    <2> QED
      BY <2>1 DEF Appends, History, NoneEmpty
  <1>8. world' \in Nat /\ rows' \subseteq Row /\ \A r \in rows' : r.world \in 1..world' /\ r.rev <= r.world
    BY <1>0, LatestAtMost DEF Appends, History
  <1> QED
    BY <1>2, <1>3, <1>5, <1>6, <1>7, <1>8 DEF History

-----------------------------------------------------------------------------
(* The steps, as what they do to the store.                                 *)

LEMMA RequestFields ==
    ASSUME NEW req \in Request
    PROVE  /\ req.intent \in Intent /\ req.expected \in World
           /\ req.revs \in [Objects(req.intent) -> Revision]
           /\ req = [intent |-> req.intent, expected |-> req.expected, revs |-> req.revs]
  BY DEF Request

LEMMA ReadyRequest ==
    ASSUME WorldTypeOK, NEW c \in Client, client[c].pc # "idle"
    PROVE  client[c].req \in Request /\ client[c] \in [pc : {"objects", "ready", "told"}, req : Request]
  BY DEF WorldTypeOK, Idle

LEMMA CommitAppends ==
    ASSUME WorldTypeOK, History, NEW c \in Client, CommitApplies(c)
    PROVE  /\ client[c].req \in Request
           /\ Appends(NewRows(client[c].req))
           /\ {r.obj : r \in NewRows(client[c].req)} = Objects(client[c].req.intent)
  <1> DEFINE req == client[c].req
  <1>1. req \in Request
    BY ReadyRequest DEF CommitApplies
  <1>0. /\ \A r : r \in NewRows(req) <=> \E o \in Objects(req.intent) : r = NewRow(req, o)
        /\ \A o \in Objects(req.intent) : NewRow(req, o).obj = o
    BY DEF NewRows, NewRow
  <1>2. /\ Objects(req.intent) # {} /\ Objects(req.intent) \subseteq Object
        /\ \A o \in Objects(req.intent) : Writes[req.intent][o].learned \in Nat
    BY <1>1, RequestFields, WorldConstantsOK
  <1>3. \A o \in Objects(req.intent) :
           req.revs[o] = LatestRevision(o) + 1 /\ req.revs[o] \in 1..world + 1
    BY <1>2, LatestAtMost DEF CommitApplies, Admissible, RevisionsFollow, History
  <1>4. world + 1 \in World
    BY WorldConstantsOK DEF CommitApplies, World, History
  <1>5. NewRows(req) \subseteq Row
    <2>1. \A o \in Objects(req.intent) : req.revs[o] \in Revision
      BY <1>1, RequestFields
    <2> QED
      BY <1>1, <1>2, <2>1, <1>4, <1>0, RequestFields DEF NewRow, Row
  <1>6. /\ NewRows(req) # {}
        /\ \A r \in NewRows(req) : r.world = world + 1 /\ r.rev = LatestRevision(r.obj) + 1
        /\ \A r, s \in NewRows(req) : r.obj = s.obj => r = s
    <2>1. NewRows(req) # {}
      <3>1. PICK o \in Objects(req.intent) : TRUE
        BY <1>2
      <3> QED
        BY <1>0, <3>1
    <2>2. \A o \in Objects(req.intent) :
             NewRow(req, o).world = world + 1 /\ NewRow(req, o).rev = LatestRevision(o) + 1
      BY <1>3 DEF NewRow
    <2>3. \A r \in NewRows(req) : r.world = world + 1 /\ r.rev = LatestRevision(r.obj) + 1
      BY <1>0, <2>2
    <2>4. \A r, s \in NewRows(req) : r.obj = s.obj => r = s
      BY <1>0
    <2> QED
      BY <2>1, <2>3, <2>4
  <1>7. {r.obj : r \in NewRows(req)} = Objects(req.intent)
    BY <1>0
  <1> QED
    BY <1>1, <1>5, <1>6, <1>7 DEF Appends, CommitApplies

\* A prune that is not refused found the newest row of its object.
PruneApplies == PruneWrites /\ ~\E r \in rows : r.obj = pruner.obj /\ r.rev = pruner.rev + 1

LEMMA PruneAppends ==
    ASSUME WorldTypeOK, History, PruneApplies
    PROVE  /\ pruner \in rows /\ Appends({TombstoneOf(pruner)})
           /\ TombstoneOf(pruner).obj = pruner.obj /\ TombstoneOf(pruner).intent = None
           /\ pruner.rev = LatestRevision(pruner.obj)
  <1>1. pruner \in rows /\ pruner \in Row
    BY DEF PruneApplies, PruneWrites, WorldTypeOK
  <1>2. /\ LatestRevision(pruner.obj) \in Nat /\ pruner.rev \in 1..LatestRevision(pruner.obj)
        /\ \A m \in 1..LatestRevision(pruner.obj) : \E r \in rows : r.obj = pruner.obj /\ r.rev = m
    BY <1>1, LatestNumbers DEF History, Row
  <1>3. pruner.rev = LatestRevision(pruner.obj)
    <2>1. pruner.rev + 1 \notin 1..LatestRevision(pruner.obj)
      BY <1>2 DEF PruneApplies
    <2> QED
      BY <1>2, <2>1
  <1>4. world + 1 \in World
    BY WorldConstantsOK DEF PruneApplies, PruneWrites, World, History
  <1>5. pruner.rev + 1 \in Revision
    <2>1. LatestRevision(pruner.obj) + 1 \in 1..world + 1
      BY <1>1, LatestAtMost DEF Row
    <2>2. world + 1 <= MaxWorld /\ MaxWorld \in Nat /\ world \in Nat
      BY WorldConstantsOK DEF PruneApplies, PruneWrites, World, WorldTypeOK
    <2> QED
      BY <1>2, <1>3, <2>1, <2>2 DEF Revision
  <1>6. TombstoneOf(pruner) \in Row
    BY <1>1, <1>4, <1>5 DEF Row, TombstoneOf
  <1>7. rows' = rows \cup {TombstoneOf(pruner)} /\ world' = world + 1
    BY DEF PruneApplies, PruneWrites
  <1> QED
    BY <1>1, <1>3, <1>6, <1>7 DEF Appends, TombstoneOf

LEMMA WorldInitHistory == WorldInit => WorldTypeOK /\ History
  <1> SUFFICES ASSUME WorldInit PROVE WorldTypeOK /\ History
    OBVIOUS
  <1>1. WorldTypeOK
    BY WorldConstantsOK DEF WorldInit, WorldTypeOK, World
  <1>2. Numbered
    BY DEF WorldInit, Numbered
  <1> QED
    BY <1>1, <1>2 DEF WorldInit, History, Ordered, Unforked, NoneEmpty

\* A step that writes no row keeps the history.
LEMMA SameRowsSameHistory ==
    ASSUME History, UNCHANGED <<world, rows>>
    PROVE  History'
  BY DEF History, Numbered, Ordered, Unforked, NoneEmpty

LEMMA WorldStepHistory ==
    ASSUME WorldTypeOK, History, [WorldNext]_worldVars
    PROVE  History'
  <1>1. ASSUME NEW c \in Client, ClientStep(c) PROVE History'
    <2>1. CASE CommitApplies(c)
      BY <2>1, CommitAppends, AppendKeepsHistory
    <2>2. CASE ~CommitApplies(c)
      BY <1>1, <2>2, SameRowsSameHistory
         DEF ClientStep, ReadObjects, ReadWorldRevision, CommitReplays, CommitRefused,
             ReplayExactOperation, ClientDies, storeVars
    <2> QED
      BY <2>1, <2>2
  <1>2. CASE PruneWrites
    <2>1. CASE PruneApplies
      BY <2>1, PruneAppends, AppendKeepsHistory
    <2>2. CASE ~PruneApplies
      BY <1>2, <2>2, SameRowsSameHistory DEF PruneApplies, PruneWrites
    <2> QED
      BY <2>1, <2>2
  <1>3. CASE (\E o \in Prunable : PruneReads(o)) \/ CatchUp \/ UNCHANGED worldVars
    BY <1>3, SameRowsSameHistory DEF PruneReads, CatchUp, worldVars, storeVars
  <1> QED
    BY <1>1, <1>2, <1>3 DEF WorldNext

-----------------------------------------------------------------------------
(* Type correctness.                                                        *)

\* Every step is a commit, a prune, or leaves the store alone.
LEMMA StepKinds ==
    ASSUME [WorldNext]_worldVars
    PROVE  \/ \E c \in Client : CommitApplies(c)
           \/ PruneApplies
           \/ UNCHANGED <<world, rows, ops>>
  <1>1. ASSUME NEW c \in Client, ClientStep(c) PROVE CommitApplies(c) \/ UNCHANGED <<world, rows, ops>>
    BY <1>1 DEF ClientStep, ReadObjects, ReadWorldRevision, CommitReplays, CommitRefused,
                ReplayExactOperation, ClientDies, storeVars
  <1>2. CASE PruneWrites
    BY <1>2 DEF PruneWrites, PruneApplies
  <1>3. CASE (\E o \in Prunable : PruneReads(o)) \/ CatchUp \/ UNCHANGED worldVars
    BY <1>3 DEF PruneReads, CatchUp, worldVars, storeVars
  <1> QED
    BY <1>1, <1>2, <1>3 DEF WorldNext

ClientRecord == {Idle} \cup [pc : {"objects", "ready", "told"}, req : Request]

LEMMA ClientsStayTyped ==
    ASSUME WorldTypeOK, History, NEW c \in Client, ClientStep(c)
    PROVE  client' \in [Client -> ClientRecord]
  <1>0. client \in [Client -> ClientRecord]
    BY DEF WorldTypeOK, ClientRecord
  <1>1. SUFFICES \E r \in ClientRecord : client' = [client EXCEPT ![c] = r]
    BY <1>0
  <1>2. \A q \in Request, w \in World : [q EXCEPT !.expected = w] \in Request
    BY DEF Request
  <1>3. ASSUME NEW q \in Request, NEW pc \in {"objects", "ready", "told"}
        PROVE  [pc |-> pc, req |-> q] \in ClientRecord
    BY DEF ClientRecord
  <1>4. \A p \in ops : p.world \in World /\ p.req \in Request /\ p.req.expected \in World
    <2> SUFFICES ASSUME NEW p \in ops
                 PROVE  p.world \in World /\ p.req \in Request /\ p.req.expected \in World
      OBVIOUS
    <2>1. p.req \in Request /\ p.world \in 1..world /\ world \in World
      BY DEF WorldTypeOK
    <2>2. p.world \in World
      BY <2>1, WorldConstantsOK DEF World
    <2> QED
      BY <2>1, <2>2, RequestFields
  <1>5. client[c].pc # "idle" => client[c].req \in Request
    BY ReadyRequest
  <1>6. ASSUME NEW w \in World, client[c].pc # "idle", Acknowledge(c, w)
        PROVE  \E r \in ClientRecord : client' = [client EXCEPT ![c] = r]
    BY <1>6, <1>5, <1>2, <1>3 DEF Acknowledge
  <1>7. ASSUME GivesUp(c) PROVE \E r \in ClientRecord : client' = [client EXCEPT ![c] = r]
    BY <1>7 DEF GivesUp, ClientRecord
  <1>8. CASE \E i \in Intent : ReadObjects(c, i)
    <2>1. PICK i \in Intent : ReadObjects(c, i)
      BY <1>8
    <2> DEFINE revs == [o \in Objects(i) |-> IF i \in Fresh THEN 1 ELSE LatestRevision(o) + 1]
               q == [intent |-> i, expected |-> 0, revs |-> revs]
    <2>2. \A o \in Objects(i) : LatestRevision(o) + 1 \in Revision /\ 1 \in Revision
      BY LatestAtMost, WorldConstantsOK DEF Revision, WorldTypeOK, World
    <2>3. revs \in [Objects(i) -> Revision]
      BY <2>2
    <2>4. q \in Request
      BY <2>3, WorldConstantsOK DEF Request, World
    <2>5. client' = [client EXCEPT ![c] = [pc |-> "objects", req |-> q]]
      BY <2>1 DEF ReadObjects
    <2> QED
      BY <2>4, <2>5, <1>3
  <1>9. CASE ReadWorldRevision(c)
    <2>1. PICK w \in ExpectedRevision(client[c].req.intent) :
             client' = [client EXCEPT ![c] = [pc |-> "ready", req |-> [client[c].req EXCEPT !.expected = w]]]
      BY <1>9 DEF ReadWorldRevision
    <2>2. w \in World
      BY <2>1, <1>4 DEF ExpectedRevision, Recorded, WorldTypeOK
    <2> QED
      BY <1>9, <2>1, <2>2, <1>2, <1>3, <1>5 DEF ReadWorldRevision
  <1>10. CASE CommitReplays(c)
    BY <1>10, <1>4, <1>6 DEF CommitReplays, Prior
  <1>11. CASE CommitApplies(c)
    <2>1. world + 1 \in World
      BY <1>11, WorldConstantsOK DEF CommitApplies, World, WorldTypeOK
    <2> QED
      BY <1>11, <2>1, <1>6, <1>7 DEF CommitApplies
  <1>12. CASE CommitRefused(c) \/ ClientDies(c)
    BY <1>12, <1>7 DEF CommitRefused, ClientDies
  <1>13. CASE ReplayExactOperation(c)
    BY <1>13, <1>4, <1>6, <1>7 DEF ReplayExactOperation, Prior
  <1> QED
    BY <1>8, <1>9, <1>10, <1>11, <1>12, <1>13 DEF ClientStep

\* The projection shows exactly the rows up to its watermark.
Shown == indexed = RefsOf(UpTo(watermark))

LEMMA BatchInside ==
    ASSUME WorldTypeOK, NEW w \in BatchEnds
    PROVE  w \in 1..world /\ w > watermark
  BY DEF BatchEnds, WorldTypeOK, After, Row, World

LEMMA CatchUpShows ==
    ASSUME WorldTypeOK, Shown, CatchUp
    PROVE  /\ \E w \in BatchEnds : watermark' = w /\ indexed' = RefsOf(UpTo(w))
           /\ buried' = buried
  <1>1. PICK w \in BatchEnds :
           /\ watermark' = w
           /\ indexed' = indexed \cup RefsOf(After(watermark) \cap UpTo(w))
           /\ buried' = buried
    BY DEF CatchUp, DeliveredTombstones
  <1>2. w > watermark /\ w \in Nat /\ watermark \in Nat /\ \A r \in rows : r.world \in Nat
    BY BatchInside DEF WorldTypeOK, Row, World
  <1>3. UpTo(w) = UpTo(watermark) \cup (After(watermark) \cap UpTo(w))
    BY <1>2 DEF UpTo, After
  <1>4. RefsOf(UpTo(w)) = RefsOf(UpTo(watermark)) \cup RefsOf(After(watermark) \cap UpTo(w))
    BY <1>3 DEF RefsOf
  <1> QED
    BY <1>1, <1>4 DEF Shown

\* Rows beyond the watermark are not shown.
LEMMA AppendKeepsShown ==
    ASSUME WorldTypeOK, Shown, NEW new, Appends(new), UNCHANGED indexVars
    PROVE  Shown'
  <1>1. \A r \in new : ~(r.world <= watermark)
    BY DEF Appends, WorldTypeOK, World
  <1>2. UpTo(watermark)' = UpTo(watermark)
    BY <1>1 DEF UpTo, Appends, indexVars
  <1> QED
    BY <1>2 DEF Shown, RefsOf, indexVars

LEMMA WorldStepType ==
    ASSUME WorldTypeOK, History, Shown, [WorldNext]_worldVars
    PROVE  WorldTypeOK' /\ Shown'
  <1>0. History'
    BY WorldStepHistory
  <1>1. /\ world' \in World
        /\ ops' \subseteq [req : Request, world : 1..world']
        /\ rows \subseteq rows'
    <2>1. ASSUME NEW c \in Client, CommitApplies(c)
          PROVE  /\ world' \in World /\ ops' \subseteq [req : Request, world : 1..world']
                 /\ rows \subseteq rows'
      BY <2>1, CommitAppends, WorldConstantsOK DEF CommitApplies, World, WorldTypeOK, Appends
    <2>2. ASSUME PruneApplies
          PROVE  /\ world' \in World /\ ops' \subseteq [req : Request, world : 1..world']
                 /\ rows \subseteq rows'
      BY <2>2, WorldConstantsOK DEF PruneApplies, PruneWrites, World, WorldTypeOK
    <2> QED
      BY <2>1, <2>2, StepKinds DEF WorldTypeOK
  <1>2. rows' \subseteq Row /\ \A r \in rows' : r.world \in 1..world' /\ r.rev <= r.world
    BY <1>0 DEF History, Row, World
  <1>3. client' \in [Client -> ClientRecord]
    <2>1. CASE \E c \in Client : ClientStep(c)
      BY <2>1, ClientsStayTyped
    <2>2. CASE ~\E c \in Client : ClientStep(c)
      BY <2>2 DEF WorldNext, PruneReads, PruneWrites, CatchUp, worldVars, WorldTypeOK, ClientRecord
    <2> QED
      BY <2>1, <2>2
  <1>4. pruner' \in rows' \cup {None}
    <2>1. CASE \E o \in Prunable : PruneReads(o)
      BY <2>1, <1>1 DEF PruneReads, LatestRows
    <2>2. CASE PruneWrites
      BY <2>2 DEF PruneWrites
    <2>3. CASE ~(\E o \in Prunable : PruneReads(o)) /\ ~PruneWrites
      <3>1. pruner' = pruner
        BY <2>3 DEF WorldNext, ClientStep, ReadObjects, ReadWorldRevision, CommitReplays, CommitApplies,
                    CommitRefused, ReplayExactOperation, ClientDies, CatchUp, worldVars
      <3> QED
        BY <3>1, <1>1 DEF WorldTypeOK
    <2> QED
      BY <2>1, <2>2, <2>3
  <1>5. watermark' \in 0..world' /\ Shown' /\ buried' \subseteq Object
    <2>1. CASE CatchUp
      <3>1. PICK w \in BatchEnds : watermark' = w /\ indexed' = RefsOf(UpTo(w)) /\ buried' = buried
        BY <2>1, CatchUpShows
      <3>2. UNCHANGED <<world, rows>>
        BY <2>1 DEF CatchUp, storeVars
      <3> QED
        BY <3>1, <3>2, BatchInside DEF Shown, RefsOf, UpTo, WorldTypeOK, World
    <2>2. CASE ~CatchUp
      <3>1. UNCHANGED indexVars
        BY <2>2 DEF WorldNext, ClientStep, ReadObjects, ReadWorldRevision, CommitReplays, CommitApplies,
                    CommitRefused, ReplayExactOperation, ClientDies, PruneReads, PruneWrites, worldVars
      <3>2. Shown'
        <4>1. CASE \E c \in Client : CommitApplies(c)
          BY <4>1, <3>1, CommitAppends, AppendKeepsShown
        <4>2. CASE PruneApplies
          BY <4>2, <3>1, PruneAppends, AppendKeepsShown
        <4>3. CASE UNCHANGED <<world, rows, ops>>
          BY <4>3, <3>1 DEF Shown, RefsOf, UpTo, indexVars
        <4> QED
          BY <4>1, <4>2, <4>3, StepKinds
      <3>3. world <= world' /\ world \in Nat /\ world' \in Nat
        <4>1. CASE \E c \in Client : CommitApplies(c)
          BY <4>1, <1>0 DEF CommitApplies, History
        <4>2. CASE PruneApplies
          BY <4>2, <1>0 DEF PruneApplies, PruneWrites, History
        <4>3. CASE UNCHANGED <<world, rows, ops>>
          BY <4>3 DEF History
        <4> QED
          BY <4>1, <4>2, <4>3, StepKinds
      <3> QED
        BY <3>1, <3>2, <3>3 DEF indexVars, WorldTypeOK
    <2> QED
      BY <2>1, <2>2
  <1>6. indexed' \subseteq {<<r.obj, r.rev>> : r \in rows'}
    BY <1>5 DEF Shown, RefsOf, UpTo
  <1> QED
    BY <1>1, <1>2, <1>3, <1>4, <1>5, <1>6 DEF WorldTypeOK, ClientRecord

-----------------------------------------------------------------------------
(* One effect per key, and what a client was told.                          *)

KeysApart ==
    \A p, q \in ops :
        \/ KeyOf[p.req.intent] = KeyOf[q.req.intent]
        \/ OpOf[p.req.intent] = OpOf[q.req.intent]
        => p = q

\* p is the commit an answer names.
AnswerOf(answer, p) ==
    answer.pc = "told" => p.req.intent = answer.req.intent /\ p.world = answer.req.expected
Backed(c) == client[c].pc = "told" => \E p \in ops : AnswerOf(client[c], p)

LEMMA OneEffectParts == OneEffectPerKey <=> KeysApart /\ \A c \in Client : Backed(c)
  BY DEF OneEffectPerKey, KeysApart, Backed, AnswerOf

LEMMA KeysStayApart ==
    ASSUME KeysApart, [WorldNext]_worldVars
    PROVE  KeysApart' /\ ops \subseteq ops'
  <1>1. ASSUME NEW c \in Client, CommitApplies(c) PROVE KeysApart' /\ ops \subseteq ops'
    BY <1>1 DEF CommitApplies, Admissible, Prior, Recorded, KeysApart
  <1>2. CASE ops' = ops
    BY <1>2 DEF KeysApart
  <1> QED
    BY <1>1, <1>2, StepKinds DEF PruneApplies, PruneWrites

\* A client that moves is told nothing, or told of the commit of its own intent.
LEMMA AnswersAreBacked ==
    ASSUME WorldTypeOK, NEW c \in Client, ClientStep(c)
    PROVE  \E answer : /\ client' = [client EXCEPT ![c] = answer]
                       /\ answer.pc = "told" => \E p \in ops' : AnswerOf(answer, p)
  <1> DEFINE req == client[c].req
             Told(w) == [pc |-> "told", req |-> [req EXCEPT !.expected = w]]
             Good(answer) == answer.pc = "told" => \E p \in ops' : AnswerOf(answer, p)
  <1>1. ASSUME GivesUp(c)
        PROVE  \E answer : client' = [client EXCEPT ![c] = answer] /\ Good(answer)
    <2>1. client' = [client EXCEPT ![c] = Idle] /\ Idle.pc = "idle"
      BY <1>1 DEF GivesUp, Idle
    <2>2. Good(Idle)
      BY <2>1
    <2> QED
      BY <2>1, <2>2
  <1>2. ASSUME NEW w, NEW p \in ops', client[c].pc = "ready", Acknowledge(c, w),
               p.req.intent = req.intent, p.world = w
        PROVE  \E answer : client' = [client EXCEPT ![c] = answer] /\ Good(answer)
    <2>1. client' = [client EXCEPT ![c] = Told(w)]
      BY <1>2 DEF Acknowledge
    <2>2. Told(w).req.intent = req.intent /\ Told(w).req.expected = w
      BY <1>2, ReadyRequest, RequestFields DEF Request
    <2>3. AnswerOf(Told(w), p)
      BY <1>2, <2>2 DEF AnswerOf
    <2> HIDE DEF Told
    <2> QED
      BY <2>1, <2>3
  <1>3. ASSUME NEW q, NEW pc \in {"objects", "ready"},
               client' = [client EXCEPT ![c] = [pc |-> pc, req |-> q]]
        PROVE  \E answer : client' = [client EXCEPT ![c] = answer] /\ Good(answer)
    <2> DEFINE answer == [pc |-> pc, req |-> q]
    <2>1. answer.pc # "told"
      OBVIOUS
    <2>2. client' = [client EXCEPT ![c] = answer]
      BY <1>3
    <2> HIDE DEF answer
    <2> QED
      BY <2>1, <2>2
  <1>4. CASE (\E i \in Intent : ReadObjects(c, i)) \/ ReadWorldRevision(c)
    BY <1>4, <1>3 DEF ReadObjects, ReadWorldRevision
  <1>5. CASE CommitReplays(c)
    <2>1. PICK p \in ops : p.req = req /\ Acknowledge(c, p.world)
      BY <1>5 DEF CommitReplays, Prior
    <2> QED
      BY <1>5, <2>1, <1>2 DEF CommitReplays, storeVars
  <1>6. CASE CommitApplies(c)
    <2> DEFINE p == [req |-> req, world |-> world + 1]
    <2>1. p \in ops' /\ p.req.intent = req.intent /\ p.world = world + 1
      BY <1>6 DEF CommitApplies
    <2> HIDE DEF p
    <2>2. Acknowledge(c, world + 1) \/ GivesUp(c)
      BY <1>6 DEF CommitApplies
    <2>3. client[c].pc = "ready"
      BY <1>6 DEF CommitApplies
    <2> QED
      BY <2>1, <2>2, <2>3, <1>1, <1>2
  <1>7. CASE CommitRefused(c) \/ ClientDies(c)
    BY <1>7, <1>1 DEF CommitRefused, ClientDies
  <1>8. CASE ReplayExactOperation(c)
    <2>1. PICK p \in ops : IF RebuiltRequest(req.intent, p) = p.req
                           THEN Acknowledge(c, p.world) ELSE GivesUp(c)
      BY <1>8 DEF ReplayExactOperation, Prior
    <2>2. RebuiltRequest(req.intent, p) = p.req => p.req.intent = req.intent
      BY DEF RebuiltRequest
    <2> QED
      BY <1>8, <2>1, <2>2, <1>1, <1>2 DEF ReplayExactOperation, storeVars
  <1> QED
    BY <1>4, <1>5, <1>6, <1>7, <1>8 DEF ClientStep

LEMMA KeysKept ==
    ASSUME WorldTypeOK, OneEffectPerKey, [WorldNext]_worldVars
    PROVE  OneEffectPerKey'
  <1>1. KeysApart' /\ ops \subseteq ops'
    BY KeysStayApart, OneEffectParts
  <1>2. \A c \in Client : Backed(c)
    BY OneEffectParts
  <1>3. ASSUME NEW c \in Client PROVE Backed(c)'
    <2>1. CASE client'[c] = client[c]
      BY <2>1, <1>1, <1>2 DEF Backed
    <2>2. ASSUME NEW d \in Client, ClientStep(d) PROVE Backed(c)'
      <3>1. PICK answer : /\ client' = [client EXCEPT ![d] = answer]
                          /\ answer.pc = "told" => \E p \in ops' : AnswerOf(answer, p)
        BY <2>2, AnswersAreBacked
      <3>2. CASE c = d
        BY <3>1, <3>2 DEF Backed, WorldTypeOK
      <3>3. CASE c # d
        BY <3>1, <3>3, <2>1 DEF WorldTypeOK
      <3> QED
        BY <3>2, <3>3
    <2>3. CASE ~\E d \in Client : ClientStep(d)
      BY <2>1, <2>3 DEF WorldNext, PruneReads, PruneWrites, CatchUp, worldVars
    <2> QED
      BY <2>2, <2>3
  <1> QED
    BY <1>1, <1>3, OneEffectParts DEF OneEffectPerKey, KeysApart, Backed, AnswerOf

-----------------------------------------------------------------------------
(* Citations.                                                               *)

LEMMA CitationsKept ==
    ASSUME WorldTypeOK, History, CitationsHold, [WorldNext]_worldVars
    PROVE  CitationsHold'
  <1> DEFINE Cited(r, set) == \A ref \in Payload(r).refs :
                 \E s \in set : /\ s.obj = ref[1] /\ ref[2] \in {Floating, s.rev}
                                /\ s.world <= r.world
                                /\ s.learned <= Payload(r).cutoff
                                /\ <<s.obj, s.rev>> # <<r.obj, r.rev>>
  <1>0. \A r \in rows : ~Tombstone(r) => Cited(r, rows)
    BY DEF CitationsHold
  <1>1. SUFFICES ASSUME NEW r \in rows', ~Tombstone(r)
                 PROVE  Cited(r, rows')
    BY DEF CitationsHold, Tombstone, Payload
  <1>2. CASE r \in rows
    <2>1. rows \subseteq rows'
      BY StepKinds DEF CommitApplies, PruneApplies, PruneWrites
    <2> QED
      BY <1>0, <1>1, <1>2, <2>1
  <1>3. ASSUME NEW c \in Client, CommitApplies(c), r \notin rows
        PROVE  Cited(r, rows')
    <2> DEFINE req == client[c].req
    <2>1. PICK o \in Objects(req.intent) : r = NewRow(req, o)
      BY <1>3 DEF CommitApplies, NewRows
    <2>2. /\ r.obj = o /\ r.rev = req.revs[o] /\ r.world = world + 1
          /\ Payload(r) = Writes[req.intent][o]
      BY <2>1 DEF NewRow, Payload
    <2>3. /\ ~CitesItself(req, o)
          /\ \A ref \in Payload(r).refs : ReferenceVisible(req, ref, Payload(r).cutoff)
      BY <1>3, <2>2 DEF CommitApplies, Admissible, ReferencesResolve
    <2>4. \A x \in Objects(req.intent) :
             /\ NewRow(req, x) \in rows' /\ NewRow(req, x).obj = x /\ NewRow(req, x).world = world + 1
             /\ NewRow(req, x).rev = req.revs[x]
             /\ NewRow(req, x).learned = Writes[req.intent][x].learned
      BY <1>3 DEF CommitApplies, NewRow, NewRows
    <2>5. o \in Object /\ req.revs[o] = LatestRevision(o) + 1
      BY <1>3, CommitAppends, RequestFields, WorldConstantsOK DEF CommitApplies, Admissible, RevisionsFollow
    <2>6. /\ LatestRevision(o) \in Nat
          /\ \A s \in rows : s.obj = o => s.rev \in 1..LatestRevision(o)
      BY <2>5, LatestNumbers DEF History
    <2>7. \A s \in rows : s \in rows' /\ s.world \in Nat /\ s.world <= world
      BY <1>3 DEF History, CommitApplies, Row
    <2>8. world \in Nat
      BY DEF History
    <2> SUFFICES ASSUME NEW ref \in Payload(r).refs
                 PROVE  \E s \in rows' : /\ s.obj = ref[1] /\ ref[2] \in {Floating, s.rev}
                                         /\ s.world <= r.world
                                         /\ s.learned <= Payload(r).cutoff
                                         /\ <<s.obj, s.rev>> # <<r.obj, r.rev>>
      OBVIOUS
    <2>9. CASE \E x \in Objects(req.intent) :
                  /\ ref[1] = x /\ ref[2] \in {Floating, req.revs[x]}
                  /\ Writes[req.intent][x].learned <= Payload(r).cutoff
      <3>1. PICK x \in Objects(req.intent) :
                  /\ ref[1] = x /\ ref[2] \in {Floating, req.revs[x]}
                  /\ Writes[req.intent][x].learned <= Payload(r).cutoff
        BY <2>9
      <3>2. x # o
        BY <2>2, <2>3, <3>1 DEF CitesItself
      <3> QED
        BY <2>2, <2>4, <2>8, <3>1, <3>2
    <2>10. CASE \E s \in rows : /\ s.obj = ref[1] /\ ref[2] \in {Floating, s.rev}
                                /\ s.learned <= Payload(r).cutoff
      <3>1. PICK s \in rows : /\ s.obj = ref[1] /\ ref[2] \in {Floating, s.rev}
                              /\ s.learned <= Payload(r).cutoff
        BY <2>10
      <3>2. s.obj = o => s.rev # req.revs[o]
        BY <2>5, <2>6
      <3> QED
        BY <2>2, <2>7, <2>8, <3>1, <3>2
    <2> QED
      BY <2>3, <2>9, <2>10 DEF ReferenceVisible
  <1>4. ASSUME PruneApplies, r \notin rows PROVE FALSE
    BY <1>1, <1>4 DEF PruneApplies, PruneWrites, TombstoneOf, Tombstone
  <1> QED
    BY <1>2, <1>3, <1>4, StepKinds

-----------------------------------------------------------------------------
(* Dependencies.                                                            *)

\* After a write, the newest row of an object is the one written, or the old one.
LEMMA LatestRowsAfter ==
    ASSUME History, NEW new, Appends(new), NEW r \in LatestRows'
    PROVE  r \in new \/ (r \in LatestRows /\ \A n \in new : n.obj # r.obj)
  <1>1. r \in rows \cup new /\ r.rev = LatestRevision(r.obj)'
    BY DEF LatestRows, Appends
  <1>2. CASE r \in rows
    <2>1. r.obj \in Object
      BY <1>2 DEF History, Row
    <2>2. LatestRevision(r.obj) \in Nat /\ r.rev \in 1..LatestRevision(r.obj)
      BY <1>2, <2>1, LatestNumbers DEF History
    <2>3. LatestRevision(r.obj)' = IF \E n \in new : n.obj = r.obj
                                   THEN LatestRevision(r.obj) + 1 ELSE LatestRevision(r.obj)
      BY <2>1, AppendKeepsHistory
    <2> QED
      BY <1>1, <1>2, <2>2, <2>3 DEF LatestRows
  <1> QED
    BY <1>1, <1>2

LEMMA FewerEdgesAcyclic ==
    ASSUME NEW edges, NEW fewer, fewer \subseteq edges, Acyclic(edges)
    PROVE  Acyclic(fewer)
  <1>1. Nodes(fewer) \subseteq Nodes(edges)
    BY DEF Nodes
  <1> QED
    BY <1>1 DEF Acyclic

LEMMA DependenciesKept ==
    ASSUME WorldTypeOK, History, DependenciesAcyclic, [WorldNext]_worldVars
    PROVE  DependenciesAcyclic'
  <1>1. ASSUME NEW edges, Acyclic(edges), CurrentEdges' \subseteq edges
        PROVE  DependenciesAcyclic'
    BY <1>1, FewerEdgesAcyclic DEF DependenciesAcyclic, Acyclic, Nodes
  <1>2. ASSUME NEW c \in Client, CommitApplies(c) PROVE DependenciesAcyclic'
    <2> DEFINE req == client[c].req
    <2>1. /\ Appends(NewRows(req))
          /\ {r.obj : r \in NewRows(req)} = Objects(req.intent)
      BY <1>2, CommitAppends
    <2>2. ASSUME NEW r \in LatestRows', ~Tombstone(r), IsDependency(Payload(r))
          PROVE  /\ Payload(r).edge \in EdgesAfter(req)
                 /\ \/ r \in LatestRows
                    \/ \E o \in Objects(req.intent) : IsDependency(Writes[req.intent][o])
      <3>1. CASE r \in NewRows(req)
        <4>1. PICK o \in Objects(req.intent) : r = NewRow(req, o)
          BY <3>1 DEF NewRows
        <4>2. Payload(r) = Writes[req.intent][o]
          BY <4>1 DEF NewRow, Payload
        <4> QED
          BY <2>2, <4>2 DEF EdgesAfter
      <3>2. CASE r \in LatestRows /\ \A n \in NewRows(req) : n.obj # r.obj
        <4>1. r.obj \notin Objects(req.intent)
          BY <2>1, <3>2
        <4> QED
          BY <2>2, <3>2, <4>1 DEF EdgesAfter
      <3> QED
        BY <2>1, <3>1, <3>2, LatestRowsAfter
    <2>3. CurrentEdges' \subseteq EdgesAfter(req)
      BY <2>2 DEF CurrentEdges, Tombstone, Payload, IsDependency
    <2>4. CASE \E o \in Objects(req.intent) : IsDependency(Writes[req.intent][o])
      BY <1>1, <1>2, <2>3, <2>4 DEF CommitApplies, Admissible, DependenciesValid
    <2>5. CASE ~\E o \in Objects(req.intent) : IsDependency(Writes[req.intent][o])
      <3>1. CurrentEdges' \subseteq CurrentEdges
        BY <2>2, <2>5 DEF CurrentEdges, Tombstone, Payload, IsDependency
      <3> QED
        BY <1>1, <3>1 DEF DependenciesAcyclic
    <2> QED
      BY <2>4, <2>5
  <1>3. ASSUME PruneApplies PROVE DependenciesAcyclic'
    <2>1. Appends({TombstoneOf(pruner)}) /\ Tombstone(TombstoneOf(pruner))
      BY <1>3, PruneAppends DEF Tombstone
    <2>2. \A r \in LatestRows' : ~Tombstone(r) => r \in LatestRows
      BY <2>1, LatestRowsAfter
    <2>3. CurrentEdges' \subseteq CurrentEdges
      BY <2>2 DEF CurrentEdges, Tombstone, Payload, IsDependency
    <2> QED
      BY <1>1, <2>3 DEF DependenciesAcyclic
  <1>4. CASE UNCHANGED <<world, rows, ops>>
    <2>1. CurrentEdges' = CurrentEdges
      BY <1>4 DEF CurrentEdges, LatestRows, LatestRevision, RevisionsOf, Tombstone, Payload, IsDependency
    <2> QED
      BY <1>1, <2>1 DEF DependenciesAcyclic
  <1> QED
    BY <1>2, <1>3, <1>4, StepKinds

-----------------------------------------------------------------------------
(* What the rows remember of an operation.                                  *)

\* The rows of an operation's world revision are the objects it wrote, as it named them.
RowsOf(p) ==
    /\ \A r \in rows : r.world = p.world =>
          r.obj \in Objects(p.req.intent) /\ r.rev = p.req.revs[r.obj]
    /\ \A o \in Objects(p.req.intent) : \E r \in rows : r.world = p.world /\ r.obj = o

OperationsRemembered == \A p \in ops : RowsOf(p)

LEMMA RememberedRebuilds ==
    ASSUME WorldTypeOK, NEW p \in ops, RowsOf(p)
    PROVE  RebuiltRequest(p.req.intent, p) = p.req
  <1> DEFINE i == p.req.intent
             revs == p.req.revs
  <1>1. /\ p.req \in Request /\ i \in Intent /\ revs \in [Objects(i) -> Revision]
        /\ p.req = [intent |-> i, expected |-> p.req.expected, revs |-> revs]
    BY RequestFields DEF WorldTypeOK
  <1>2. {r.obj : r \in {s \in rows : s.world = p.world}} = Objects(i)
    BY DEF RowsOf
  <1>3. ASSUME NEW o \in Objects(i)
        PROVE  (CHOOSE n \in RevisionsOf(o) : \E r \in rows : r.obj = o /\ r.rev = n /\ r.world = p.world)
                  = revs[o]
    <2>1. PICK r \in rows : r.world = p.world /\ r.obj = o /\ r.rev = revs[o]
      BY DEF RowsOf
    <2>2. revs[o] \in RevisionsOf(o)
      BY <2>1 DEF RevisionsOf
    <2>3. \A n : (\E s \in rows : s.obj = o /\ s.rev = n /\ s.world = p.world) => n = revs[o]
      BY DEF RowsOf
    <2>4. \E s \in rows : s.obj = o /\ s.rev = revs[o] /\ s.world = p.world
      BY <2>1
    <2> QED
      BY <2>2, <2>3, <2>4
  <1>4. ReloadedRevisions(p) = revs
    BY <1>1, <1>2, <1>3 DEF ReloadedRevisions
  <1> QED
    BY <1>1, <1>4 DEF RebuiltRequest

LEMMA OperationsStayRemembered ==
    ASSUME WorldTypeOK, History, OperationsRemembered, [WorldNext]_worldVars
    PROVE  OperationsRemembered'
  <1>1. \A p \in ops : p.world \in Nat /\ p.world <= world /\ world \in Nat
    BY DEF WorldTypeOK, World
  <1>2. ASSUME NEW new, Appends(new), NEW p \in ops PROVE RowsOf(p)'
    <2>1. \A r \in new : r.world # p.world
      BY <1>1, <1>2 DEF Appends
    <2> QED
      BY <1>2, <2>1 DEF OperationsRemembered, RowsOf, Appends
  <1>3. ASSUME NEW c \in Client, CommitApplies(c) PROVE OperationsRemembered'
    <2>1. PICK req : req = client[c].req /\ Appends(NewRows(req))
      BY <1>3, CommitAppends
    <2>p. PICK p : p = [req |-> req, world |-> world + 1]
      OBVIOUS
    <2>2. RowsOf(p)'
      <3>1. \A r \in rows : r.world # world + 1
        BY DEF History
      <3>2. \A o \in Objects(req.intent) :
               /\ NewRow(req, o) \in NewRows(req) /\ NewRow(req, o).obj = o
               /\ NewRow(req, o).world = world + 1 /\ NewRow(req, o).rev = req.revs[o]
        BY DEF NewRow, NewRows
      <3>3. \A r \in NewRows(req) : r.obj \in Objects(req.intent) /\ r.rev = req.revs[r.obj]
        BY <3>2 DEF NewRows
      <3>4. rows' = rows \cup NewRows(req)
        BY <1>3, <2>1 DEF CommitApplies
      <3>5. \A r \in rows' : r.world = world + 1 =>
               r.obj \in Objects(req.intent) /\ r.rev = req.revs[r.obj]
        BY <3>1, <3>3, <3>4
      <3>6. \A o \in Objects(req.intent) : \E r \in rows' : r.world = world + 1 /\ r.obj = o
        BY <3>2, <3>4
      <3> QED
        BY <2>p, <3>5, <3>6 DEF RowsOf
    <2>3. \A q \in ops : RowsOf(q)'
      BY <1>2, <2>1
    <2>4. ops' = ops \cup {p}
      BY <1>3, <2>1, <2>p DEF CommitApplies
    <2> QED
      BY <2>2, <2>3, <2>4 DEF OperationsRemembered
  <1>4. ASSUME PruneApplies PROVE OperationsRemembered'
    <2>1. Appends({TombstoneOf(pruner)}) /\ ops' = ops
      BY <1>4, PruneAppends DEF PruneApplies, PruneWrites
    <2> QED
      BY <1>2, <2>1 DEF OperationsRemembered
  <1>5. CASE UNCHANGED <<world, rows, ops>>
    BY <1>5 DEF OperationsRemembered, RowsOf
  <1> QED
    BY <1>3, <1>4, <1>5, StepKinds

-----------------------------------------------------------------------------
(* The store implements the append-only log.                                *)

Entry(r) == <<r.obj, r.rev, r.world, r.intent>>

LEMMA AppendIsLogged ==
    ASSUME History, NEW new, Appends(new), UNCHANGED indexVars,
           NEW request \in Intent \cup {None}, \A r \in new : r.intent = request
    PROVE  Log!CNext
  <1> DEFINE names == {r.obj : r \in new}
             last == [o \in Object |-> LatestRevision(o)]
  <1>1. \A r \in new : r.obj \in Object /\ r.obj \in names
    BY DEF Appends, Row
  <1>2. \A o \in Object : o \in names <=> \E r \in new : r.obj = o
    OBVIOUS
  <1>3. [o \in Object |-> LatestRevision(o)]' = [o \in Object |-> IF o \in names THEN last[o] + 1 ELSE last[o]]
    BY <1>2, AppendKeepsHistory
  <1>4. \A r \in new : Entry(r) = <<r.obj, last[r.obj] + 1, world + 1, request>>
    BY <1>1 DEF Entry, Appends
  <1>5. {Entry(r) : r \in new} = {<<o, last[o] + 1, world + 1, request>> : o \in names}
    BY <1>4
  <1>6. {Entry(r) : r \in rows}' = {Entry(r) : r \in rows} \cup {Entry(r) : r \in new}
    BY DEF Appends, Entry
  <1>7. world' = world + 1
    BY DEF Appends
  <1>8. Log!AppendCommit(names, request)
    BY <1>3, <1>5, <1>6, <1>7 DEF Log!AppendCommit, Entry, indexVars
  <1>9. names \in (SUBSET Object) \ {{}}
    BY <1>1 DEF Appends
  <1> HIDE DEF names
  <1> QED
    BY <1>8, <1>9 DEF Log!CNext

LEMMA LogStep ==
    ASSUME WorldTypeOK, History, Shown, [WorldNext]_worldVars
    PROVE  [Log!CNext]_(Log!cvars)
  <1>1. ASSUME NEW c \in Client, CommitApplies(c) PROVE Log!CNext
    <2>1. PICK req \in Request : req = client[c].req /\ Appends(NewRows(req))
      BY <1>1, CommitAppends
    <2>2. req.intent \in Intent
      BY RequestFields
    <2>3. \A r \in NewRows(req) : r.intent = req.intent
      BY DEF NewRows, NewRow
    <2>4. UNCHANGED indexVars
      BY <1>1 DEF CommitApplies
    <2> QED
      BY <2>1, <2>2, <2>3, <2>4, AppendIsLogged
  <1>2. ASSUME PruneApplies PROVE Log!CNext
    <2>1. Appends({TombstoneOf(pruner)}) /\ \A r \in {TombstoneOf(pruner)} : r.intent = None
      BY <1>2, PruneAppends
    <2>2. UNCHANGED indexVars
      BY <1>2 DEF PruneApplies, PruneWrites
    <2> QED
      BY <2>1, <2>2, AppendIsLogged
  <1>3. CASE CatchUp
    <2>1. PICK w \in BatchEnds : watermark' = w /\ indexed' = RefsOf(UpTo(w))
      BY <1>3, CatchUpShows
    <2>2. w \in 1..world /\ watermark < w
      BY <2>1, BatchInside DEF WorldTypeOK
    <2>3. UNCHANGED <<world, rows>>
      BY <1>3 DEF CatchUp, storeVars
    <2>4. RefsOf(UpTo(w)) =
             {<<row[1], row[2]>> : row \in {e \in {Entry(r) : r \in rows} : e[3] <= w}}
      <3>1. \A r \in rows : Entry(r)[1] = r.obj /\ Entry(r)[2] = r.rev /\ Entry(r)[3] = r.world
        BY DEF Entry
      <3>2. {e \in {Entry(r) : r \in rows} : e[3] <= w} = {Entry(r) : r \in UpTo(w)}
        BY <3>1 DEF UpTo
      <3>3. \A r \in UpTo(w) : r \in rows
        BY DEF UpTo
      <3>4. {<<row[1], row[2]>> : row \in {Entry(r) : r \in UpTo(w)}} = {<<r.obj, r.rev>> : r \in UpTo(w)}
        BY <3>1, <3>3
      <3> QED
        BY <3>2, <3>4 DEF RefsOf
    <2>5. UNCHANGED [o \in Object |-> LatestRevision(o)]
      BY <2>3 DEF LatestRevision, RevisionsOf
    <2>6. Log!ShowPrefix(w)
      BY <2>1, <2>2, <2>3, <2>4, <2>5 DEF Log!ShowPrefix, Entry
    <2> QED
      BY <2>2, <2>6 DEF Log!CNext
  <1>4. CASE UNCHANGED <<world, rows, ops>> /\ ~CatchUp
    <2>1. UNCHANGED indexVars
      BY <1>4 DEF WorldNext, ClientStep, ReadObjects, ReadWorldRevision, CommitReplays, CommitApplies,
                  CommitRefused, ReplayExactOperation, ClientDies, PruneReads, PruneWrites, worldVars
    <2> QED
      BY <1>4, <2>1 DEF Log!cvars, indexVars, LatestRevision, RevisionsOf
  <1> QED
    BY <1>1, <1>2, <1>3, <1>4, StepKinds

-----------------------------------------------------------------------------
(* The inductive invariant and the theorems.                                *)

\* Each part is kept by a step of any kind as long as the rows are typed and the history
\* is whole: a commit numbers its rows from what it read, so a gap or a fork anywhere
\* would let a later one cite, replay or replace the wrong revision.
StoreInv ==
    /\ WorldTypeOK /\ History /\ Shown
    /\ OneEffectPerKey /\ CitationsHold /\ DependenciesAcyclic /\ OperationsRemembered

LEMMA InitialStoreInv == WorldInit => StoreInv
  <1> SUFFICES ASSUME WorldInit PROVE StoreInv
    OBVIOUS
  <1>1. WorldTypeOK /\ History
    BY WorldInitHistory
  <1>2. Shown
    BY DEF WorldInit, Shown, RefsOf, UpTo
  <1>3. OneEffectPerKey /\ CitationsHold /\ OperationsRemembered
    BY DEF WorldInit, OneEffectPerKey, CitationsHold, OperationsRemembered, Idle
  <1>4. DependenciesAcyclic
    <2>1. CurrentEdges = {}
      BY DEF WorldInit, CurrentEdges, LatestRows
    <2> QED
      BY <2>1 DEF DependenciesAcyclic, Acyclic, Nodes
  <1> QED
    BY <1>1, <1>2, <1>3, <1>4 DEF StoreInv

LEMMA StoreInvKept == StoreInv /\ [WorldNext]_worldVars => StoreInv'
  BY WorldStepHistory, WorldStepType, KeysKept, CitationsKept, DependenciesKept,
     OperationsStayRemembered DEF StoreInv

THEOREM StoreInvariant == WorldSpec => []StoreInv
  BY InitialStoreInv, StoreInvKept, PTL DEF WorldSpec

\* The types of the store, its clients and its projection: rows only carry revisions from
\* 1 on and world revisions that were committed, and only committed rows are indexed.
THEOREM WorldTypeCorrect == WorldSpec => []WorldTypeOK
  <1>1. StoreInv => WorldTypeOK
    BY DEF StoreInv
  <1> QED
    BY <1>1, StoreInvariant, PTL

\* commit and prune, whatever the interleaving, leave every object's history without gap,
\* fork or reordering.
THEOREM HistoryStaysWhole == WorldSpec => []HistoryWhole
  <1>1. ASSUME StoreInv PROVE HistoryWhole
    <2>1. \A r, s \in rows : r.obj = s.obj /\ r.rev <= s.rev => r.world <= s.world
      BY <1>1 DEF StoreInv, History, Ordered
    <2>2. \A r, s \in rows : r.obj = s.obj /\ (r.rev = s.rev \/ r.world = s.world) => r = s
      BY <1>1 DEF StoreInv, History, Unforked
    <2>3. ASSUME NEW r \in rows, r.rev > 1 PROVE \E s \in rows : s.obj = r.obj /\ s.rev = r.rev - 1
      <3>1. r.obj \in Object
        BY <1>1 DEF StoreInv, History, Row
      <3>2. /\ LatestRevision(r.obj) \in Nat /\ r.rev \in 1..LatestRevision(r.obj)
            /\ \A m \in 1..LatestRevision(r.obj) : \E s \in rows : s.obj = r.obj /\ s.rev = m
        BY <1>1, <3>1, LatestNumbers DEF StoreInv, History
      <3>3. r.rev - 1 \in 1..LatestRevision(r.obj)
        BY <2>3, <3>2
      <3> QED
        BY <3>2, <3>3
    <2>4. \A w \in 1..world : \E r \in rows : r.world = w
      BY <1>1 DEF StoreInv, History, NoneEmpty
    <2> QED
      BY <2>1, <2>2, <2>3, <2>4 DEF HistoryWhole
  <1> QED
    BY <1>1, StoreInvariant, PTL

\* An idempotency key has one effect, and no client is told of a commit it did not ask for.
THEOREM KeysHaveOneEffect == WorldSpec => []OneEffectPerKey
  <1>1. StoreInv => OneEffectPerKey
    BY DEF StoreInv
  <1> QED
    BY <1>1, StoreInvariant, PTL

\* No object cites what did not exist, or was not known, when it was committed.
THEOREM CitationsAlwaysHold == WorldSpec => []CitationsHold
  <1>1. StoreInv => CitationsHold
    BY DEF StoreInv
  <1> QED
    BY <1>1, StoreInvariant, PTL

\* Concurrent writers of dependencies never close a cycle.
THEOREM NoDependencyCycle == WorldSpec => []DependenciesAcyclic
  <1>1. StoreInv => DependenciesAcyclic
    BY DEF StoreInv
  <1> QED
    BY <1>1, StoreInvariant, PTL

\* A lost answer can always be asked for again: the rows rebuild the request that wrote them.
THEOREM LostAnswersRecoverable == WorldSpec => []LostAnswerRecoverable
  <1>1. StoreInv => LostAnswerRecoverable
    BY RememberedRebuilds DEF StoreInv, LostAnswerRecoverable, OperationsRemembered
  <1> QED
    BY <1>1, StoreInvariant, PTL

\* The store with its projection implements the append-only log with a prefix reader.
THEOREM StoreImplementsLog == WorldSpec => LogKept
  <1>1. WorldInit => Log!CInit
    BY DEF WorldInit, Log!CInit, LatestRevision, RevisionsOf
  <1>2. StoreInv /\ [WorldNext]_worldVars => [Log!CNext]_(Log!cvars)
    BY LogStep DEF StoreInv
  <1> QED
    BY <1>1, <1>2, StoreInvariant, PTL DEF WorldSpec, LogKept, Log!CSpec
=============================================================================
