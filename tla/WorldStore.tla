----------------------------- MODULE WorldStore -----------------------------
(***************************************************************************)
(* The world store of storage/sqlite_store.py, the clients that commit to  *)
(* it under optimistic concurrency and idempotency keys, the maintenance   *)
(* prune, and the search projection of query/search.py that follows it.    *)
(*                                                                         *)
(* An intent is a logical request: the operation id, the idempotency key   *)
(* and the objects it writes. A client reads revisions and the world       *)
(* revision in separate transactions, builds the request from what it      *)
(* read, and commits it in one BEGIN IMMEDIATE transaction; it may die     *)
(* anywhere and start the same intent again.                               *)
(***************************************************************************)
EXTENDS Naturals, FiniteSets

CONSTANTS
    Object,
    Intent,
    KeyOf,       \* Intent -> its idempotency key
    OpOf,        \* Intent -> its operation id
    Fresh,       \* the intents that only create: they write revision 1 of their objects
    Writes,      \* Intent -> [object -> [refs, learned, cutoff, edge]]
    Client,
    Prunable,    \* bound: the objects maintenance may be authorized to prune
    MaxWorld,    \* bound: the last world revision
    BatchRows,   \* _CATCHUP_MAX_ROWS
    Floating,    \* a reference without a revision
    None

Objects(i) == DOMAIN Writes[i]

ASSUME WorldConstantsOK ==
    /\ MaxWorld \in Nat /\ BatchRows \in Nat \ {0}
    /\ None \notin Intent
    /\ \A i \in Intent : Objects(i) \subseteq Object /\ Objects(i) # {}
    /\ \A i \in Intent : \A o \in Objects(i) :
          Writes[i][o].learned \in Nat /\ Writes[i][o].cutoff \in Nat

VARIABLES
    world,      \* world_meta.world_revision
    rows,       \* object_revisions
    ops,        \* operations and idempotency_records
    client,     \* what each client has read and is about to commit
    pruner,     \* the row a prune has read
    watermark,  \* search_meta
    indexed,    \* the revisions in search_postings and search_doc
    buried      \* search_tombstones

storeVars == <<world, rows, ops>>
indexVars == <<watermark, indexed, buried>>
worldVars == <<storeVars, client, pruner, indexVars>>

World == 0..MaxWorld
Revision == 1..MaxWorld + 1
Row == [obj : Object, rev : Revision, world : World, intent : Intent \cup {None}, learned : Nat]
Request == UNION {[intent : {i}, expected : World, revs : [Objects(i) -> Revision]] : i \in Intent}
Idle == [pc |-> "idle", req |-> None]

WorldTypeOK ==
    /\ world \in World
    /\ rows \subseteq Row /\ \A r \in rows : r.world \in 1..world /\ r.rev <= r.world
    /\ ops \subseteq [req : Request, world : 1..world]
    /\ client \in [Client -> {Idle} \cup [pc : {"objects", "ready", "told"}, req : Request]]
    /\ pruner \in rows \cup {None}
    /\ watermark \in 0..world
    /\ indexed \subseteq {<<r.obj, r.rev>> : r \in rows}
    /\ buried \subseteq Object

WorldInit ==
    /\ world = 0 /\ rows = {} /\ ops = {}
    /\ client = [c \in Client |-> Idle]
    /\ pruner = None
    /\ watermark = 0 /\ indexed = {} /\ buried = {}

-----------------------------------------------------------------------------
RevisionsOf(o) == {r.rev : r \in {s \in rows : s.obj = o}}

\* SELECT MAX(revision); 0 stands for no row.
LatestRevision(o) ==
    IF RevisionsOf(o) = {} THEN 0
    ELSE CHOOSE n \in RevisionsOf(o) : \A m \in RevisionsOf(o) : m <= n

LatestRows == {r \in rows : r.rev = LatestRevision(r.obj)}

\* A tombstone has no intent; every other row's payload is what its intent writes.
Tombstone(r) == r.intent = None
Payload(r) == Writes[r.intent][r.obj]

IsDependency(payload) == payload.edge # None
Prior(i) == {p \in ops : KeyOf[p.req.intent] = KeyOf[i]}

-----------------------------------------------------------------------------
(* Clients.                                                                *)

\* A creating client names revision 1; a revising one reads the latest revisions.
ReadObjects(c, i) ==
    /\ client[c].pc \in {"idle", "told"}
    /\ client' = [client EXCEPT ![c] =
          [pc |-> "objects",
           req |-> [intent |-> i, expected |-> 0,
                    revs |-> [o \in Objects(i) |->
                                IF i \in Fresh THEN 1 ELSE LatestRevision(o) + 1]]]]
    /\ UNCHANGED <<storeVars, pruner, indexVars>>

\* The operation row of an earlier application under the same operation id.
Recorded(i) == {p \in ops : OpOf[p.req.intent] = OpOf[i]}

\* _expected_revision_for_retry: an operation already recorded fixes the expected
\* revision. The world is read before the record, so a record missed is one written
\* after the world was read: one atomic read shows the client the same.
ExpectedRevision(i) ==
    IF i \in Fresh /\ Recorded(i) # {} THEN {p.req.expected : p \in Recorded(i)} ELSE {world}

ReadWorldRevision(c) ==
    /\ client[c].pc = "objects"
    /\ \E w \in ExpectedRevision(client[c].req.intent) :
          client' = [client EXCEPT ![c] =
              [pc |-> "ready", req |-> [client[c].req EXCEPT !.expected = w]]]
    /\ UNCHANGED <<storeVars, pruner, indexVars>>

Pending(req) == {<<o, req.revs[o]>> : o \in Objects(req.intent)}

\* Mistaken variant: existence is enough, whenever it was learned.
ReferenceVisibleAnytime(req, ref, cutoff) ==
    \/ \E o \in Objects(req.intent) : ref[1] = o /\ ref[2] \in {Floating, req.revs[o]}
    \/ \E r \in rows : r.obj = ref[1] /\ ref[2] \in {Floating, r.rev}

\* A pinned reference to an object of the same request is resolved there; any other by a
\* durable row. Either must have been learned by the citing object's cutoff.
ReferenceVisible(req, ref, cutoff) ==
    LET writes == Writes[req.intent]
        pendingHit == \E o \in Objects(req.intent) :
                         /\ ref[1] = o /\ ref[2] \in {Floating, req.revs[o]}
                         /\ writes[o].learned <= cutoff
        durableHit == \E r \in rows :
                         /\ r.obj = ref[1] /\ ref[2] \in {Floating, r.rev}
                         /\ r.learned <= cutoff
    IN pendingHit \/ (ref \notin Pending(req) /\ durableHit)

CitesItself(req, o) ==
    \E ref \in Writes[req.intent][o].refs : ref[1] = o /\ ref[2] \in {Floating, req.revs[o]}

ReferencesResolve(req) ==
    \A o \in Objects(req.intent) :
        /\ ~CitesItself(req, o)
        /\ \A ref \in Writes[req.intent][o].refs :
              ReferenceVisible(req, ref, Writes[req.intent][o].cutoff)

\* Revisions follow on, and no object becomes, or ceases to be, a dependency.
RevisionsFollow(req) ==
    \A o \in Objects(req.intent) :
        /\ req.revs[o] = LatestRevision(o) + 1
        /\ \A r \in rows : r.obj = o /\ ~Tombstone(r) =>
              (IsDependency(Payload(r)) <=> IsDependency(Writes[req.intent][o]))

Nodes(edges) == {e[1] : e \in edges} \cup {e[2] : e \in edges}

\* No non-empty set of revisions in which each has an edge into the set.
Acyclic(edges) ==
    \A knot \in (SUBSET Nodes(edges)) \ {{}} :
        \E n \in knot : \A m \in knot : <<n, m>> \notin edges

CurrentEdges == {Payload(r).edge : r \in {s \in LatestRows : ~Tombstone(s) /\ IsDependency(Payload(s))}}

\* The current dependency graph with the request's dependencies in place of their
\* earlier revisions.
EdgesAfter(req) ==
    LET kept == {r \in LatestRows : ~Tombstone(r) /\ r.obj \notin Objects(req.intent)}
    IN {Payload(r).edge : r \in {s \in kept : IsDependency(Payload(s))}}
       \cup {Writes[req.intent][o].edge : o \in {x \in Objects(req.intent) :
                                                    IsDependency(Writes[req.intent][x])}}

WasDependency(o) == \E r \in rows : r.obj = o /\ ~Tombstone(r) /\ IsDependency(Payload(r))

\* Mistaken variant: a new edge is checked against itself alone.
DependenciesValidAlone(req) ==
    Acyclic({Writes[req.intent][o].edge : o \in {x \in Objects(req.intent) :
                                                    IsDependency(Writes[req.intent][x])}})

\* Only a request that writes a dependency is checked; the payload of a pruned
\* dependency does not parse, and refuses every such request.
DependenciesValid(req) ==
    (\E o \in Objects(req.intent) : IsDependency(Writes[req.intent][o])) =>
        /\ \A r \in LatestRows : Tombstone(r) => ~WasDependency(r.obj)
        /\ Acyclic(EdgesAfter(req))

\* The answer to a client: the world revision of the commit that did what it asked.
Acknowledge(c, w) ==
    client' = [client EXCEPT ![c] = [pc |-> "told", req |-> [client[c].req EXCEPT !.expected = w]]]

GivesUp(c) == client' = [client EXCEPT ![c] = Idle]

\* Mistaken variant: the key alone identifies the request.
CommitReplaysKey(c) ==
    /\ client[c].pc = "ready"
    /\ \E p \in Prior(client[c].req.intent) : Acknowledge(c, p.world)
    /\ UNCHANGED <<storeVars, pruner, indexVars>>

\* The same key with the same fingerprint returns the durable result, unwritten.
CommitReplays(c) ==
    /\ client[c].pc = "ready"
    /\ \E p \in Prior(client[c].req.intent) :
          /\ p.req = client[c].req
          /\ Acknowledge(c, p.world)
    /\ UNCHANGED <<storeVars, pruner, indexVars>>

Admissible(req) ==
    /\ Prior(req.intent) = {}
    /\ Recorded(req.intent) = {}
    /\ req.expected = world
    /\ RevisionsFollow(req)
    /\ ReferencesResolve(req)
    /\ DependenciesValid(req)

NewRow(req, o) ==
    [obj |-> o, rev |-> req.revs[o], world |-> world + 1, intent |-> req.intent,
     learned |-> Writes[req.intent][o].learned]
NewRows(req) == {NewRow(req, o) : o \in Objects(req.intent)}

\* The commit transaction. Its answer may be lost with the process.
CommitApplies(c) ==
    LET req == client[c].req IN
    /\ client[c].pc = "ready"
    /\ world < MaxWorld   \* bound
    /\ Admissible(req)
    /\ world' = world + 1
    /\ rows' = rows \cup NewRows(req)
    /\ ops' = ops \cup {[req |-> req, world |-> world + 1]}
    /\ (Acknowledge(c, world + 1) \/ GivesUp(c))
    /\ UNCHANGED <<pruner, indexVars>>

\* A conflict, a missing reference or a cycle: nothing is written, the caller starts over.
CommitRefused(c) ==
    LET req == client[c].req IN
    /\ client[c].pc = "ready"
    /\ \A p \in Prior(req.intent) : p.req # req
    /\ ~Admissible(req)
    /\ GivesUp(c)
    /\ UNCHANGED <<storeVars, pruner, indexVars>>

\* Mistaken variant: the objects are reloaded as they are now.
ReloadedAsTheyAre(p) ==
    [o \in {r.obj : r \in {s \in rows : s.world = p.world}} |-> LatestRevision(o)]

\* The revisions one durable operation wrote, as its result names them.
ReloadedRevisions(p) ==
    [o \in {r.obj : r \in {s \in rows : s.world = p.world}} |->
        CHOOSE n \in RevisionsOf(o) : \E r \in rows : r.obj = o /\ r.rev = n /\ r.world = p.world]

RebuiltRequest(i, p) ==
    [intent |-> i, expected |-> p.req.expected, revs |-> ReloadedRevisions(p)]

\* replay_exact_operation: the recorded expected revision and the reloaded objects go
\* through commit(), which compares them with the recorded fingerprint.
ReplayExactOperation(c) ==
    /\ client[c].pc = "ready"
    /\ \E p \in Prior(client[c].req.intent) :
          IF RebuiltRequest(client[c].req.intent, p) = p.req
          THEN Acknowledge(c, p.world)
          ELSE GivesUp(c)
    /\ UNCHANGED <<storeVars, pruner, indexVars>>

ClientDies(c) ==
    /\ client[c].pc \in {"objects", "ready"}
    /\ GivesUp(c)
    /\ UNCHANGED <<storeVars, pruner, indexVars>>

-----------------------------------------------------------------------------
(* Maintenance and the search projection.                                  *)

\* prune reads the newest row before its transaction begins.
PruneReads(o) ==
    /\ pruner = None
    /\ \E r \in LatestRows : r.obj = o /\ pruner' = r
    /\ UNCHANGED <<storeVars, client, indexVars>>

TombstoneOf(r) ==
    [obj |-> r.obj, rev |-> r.rev + 1, world |-> world + 1, intent |-> None, learned |-> r.learned]

\* Mistaken variant: a newer revision does not stop the prune.
PruneOverwrites ==
    /\ pruner # None
    /\ world < MaxWorld
    /\ world' = world + 1
    /\ rows' = rows \cup {TombstoneOf(pruner)}
    /\ pruner' = None
    /\ UNCHANGED <<ops, client, indexVars>>

\* The primary key refuses the tombstone when a newer revision arrived in between.
PruneWrites ==
    /\ pruner # None
    /\ world < MaxWorld   \* bound
    /\ IF \E r \in rows : r.obj = pruner.obj /\ r.rev = pruner.rev + 1
       THEN UNCHANGED <<world, rows>>
       ELSE /\ world' = world + 1
            /\ rows' = rows \cup {TombstoneOf(pruner)}
    /\ pruner' = None
    /\ UNCHANGED <<ops, client, indexVars>>

After(w) == {r \in rows : r.world > w}
UpTo(w) == {r \in rows : r.world <= w}
RefsOf(set) == {<<r.obj, r.rev>> : r \in set}

\* Where a batch ends: at the commit that reaches the row limit, or at the last one.
BatchEnds ==
    {w \in {r.world : r \in After(watermark)} :
        /\ Cardinality(After(watermark) \cap UpTo(w - 1)) < BatchRows
        /\ \/ Cardinality(After(watermark) \cap UpTo(w)) >= BatchRows
           \/ \A r \in rows : r.world <= w}

\* revisions_after does not deliver revision_kind, so every row is content.
DeliveredTombstones(set) == {}

\* Mistaken variants: the batch is cut at the row limit inside a commit; the cursor
\* jumps ahead of the rows.
CatchUpRows ==
    /\ \E w \in BatchEnds :
          \E batch \in SUBSET (After(watermark) \cap UpTo(w)) :
             /\ Cardinality(batch) <= BatchRows
             /\ \E r \in batch : r.world = w
             /\ watermark' = w
             /\ indexed' = indexed \cup RefsOf(batch)
             /\ buried' = buried
    /\ UNCHANGED <<storeVars, client, pruner>>

CatchUpByLimit ==
    /\ After(watermark) # {}
    /\ watermark' = watermark + BatchRows
    /\ indexed' = indexed \cup RefsOf(After(watermark) \cap UpTo(watermark + BatchRows))
    /\ buried' = buried
    /\ UNCHANGED <<storeVars, client, pruner>>

CatchUp ==
    /\ \E w \in BatchEnds :
          LET batch == After(watermark) \cap UpTo(w) IN
          /\ watermark' = w
          /\ indexed' = indexed \cup RefsOf(batch \ DeliveredTombstones(batch))
          /\ buried' = buried \cup {r.obj : r \in DeliveredTombstones(batch)}
    /\ UNCHANGED <<storeVars, client, pruner>>

\* What search_mind(include_inactive=True) can return: indexed revisions of objects not
\* among the tombstones.
Found == {ref \in indexed : ref[1] \notin buried}

-----------------------------------------------------------------------------
ClientStep(c) ==
    \/ \E i \in Intent : ReadObjects(c, i)
    \/ ReadWorldRevision(c)
    \/ CommitReplays(c) \/ CommitApplies(c) \/ CommitRefused(c)
    \/ ReplayExactOperation(c)
    \/ ClientDies(c)

WorldNext ==
    \/ \E c \in Client : ClientStep(c)
    \/ \E o \in Prunable : PruneReads(o)
    \/ PruneWrites
    \/ CatchUp

WorldSpec == WorldInit /\ [][WorldNext]_worldVars

-----------------------------------------------------------------------------
(* Properties.                                                             *)

\* One idempotency key has one effect: whatever retries, twins and lost answers, no two
\* commits share a key or an operation id, and a client is only ever told of the commit
\* its own intent made.
OneEffectPerKey ==
    /\ \A p, q \in ops :
          \/ KeyOf[p.req.intent] = KeyOf[q.req.intent]
          \/ OpOf[p.req.intent] = OpOf[q.req.intent]
          => p = q
    /\ \A c \in Client : client[c].pc = "told" =>
          \E p \in ops : p.req.intent = client[c].req.intent /\ p.world = client[c].req.expected

\* The history of an object has no gap and no fork: its revisions are 1, 2, ... in the
\* order of the world revisions that wrote them, and every world revision wrote some.
HistoryWhole ==
    /\ \A r, s \in rows : r.obj = s.obj /\ r.rev <= s.rev => r.world <= s.world
    /\ \A r, s \in rows : r.obj = s.obj /\ (r.rev = s.rev \/ r.world = s.world) => r = s
    /\ \A r \in rows : r.rev > 1 => \E s \in rows : s.obj = r.obj /\ s.rev = r.rev - 1
    /\ \A w \in 1..world : \E r \in rows : r.world = w

\* What an object cites exists in the world it was committed to and had been learned by
\* its cutoff: no dangling reference, and none into the future.
CitationsHold ==
    \A r \in rows : ~Tombstone(r) =>
        \A ref \in Payload(r).refs :
            \E s \in rows : /\ s.obj = ref[1] /\ ref[2] \in {Floating, s.rev}
                           /\ s.world <= r.world
                           /\ s.learned <= Payload(r).cutoff
                           /\ <<s.obj, s.rev>> # <<r.obj, r.rev>>

\* Concurrent dependency writers never close a cycle between them.
DependenciesAcyclic == Acyclic(CurrentEdges)

\* A request whose answer was lost can be asked again: the durable rows rebuild exactly
\* the request that wrote them, whatever was revised or pruned since.
LostAnswerRecoverable == \A p \in ops : RebuiltRequest(p.req.intent, p) = p.req

\* The store is an append-only log of commits, and the projection shows a whole prefix
\* of it that only grows.
Log == INSTANCE CommitLog WITH
    Writer <- Intent \cup {None},
    head <- world,
    latest <- [o \in Object |-> LatestRevision(o)],
    log <- {<<r.obj, r.rev, r.world, r.intent>> : r \in rows},
    mark <- watermark,
    shown <- indexed
LogKept == Log!CSpec

\* The search excludes tombstones: once the projection has passed the prune of an object
\* and nothing newer was written, no revision of the object is found.
PrunedNotFound ==
    \A r \in LatestRows : Tombstone(r) /\ r.world <= watermark =>
        \A ref \in Found : ref[1] # r.obj
=============================================================================
