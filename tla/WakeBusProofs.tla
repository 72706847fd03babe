--------------------------- MODULE WakeBusProofs ---------------------------
(* Theorems about the wake bus, for every set of hits, scopes and rules.    *)
(* A wake of hits carries hits of its own scope, a bundle carries those of  *)
(* its members, which stay merged; a hit that is still being emitted is     *)
(* carried by no wake, and a merge that may be committed still has its wake *)
(* pending. The loop and the messages are tied to what the wakes carry.     *)
EXTENDS WakeBus, FiniteSetTheorems, TLAPS

\* Whose hits a wake carries. Members of a bundle are merged, for good.
OfScope(i) == \A s \in wake[i].signals : ScopeOf[s] = i.scope
OfMembers(i) ==
    /\ \A j \in i.members : j \in DOMAIN wake /\ IsSignalWake(j) /\ wake[j].state = "merged"
    /\ \A s \in wake[i].signals : \E j \in i.members : s \in wake[j].signals
Carried ==
    \A i \in DOMAIN wake : /\ IsSignalWake(i) => OfScope(i)
                           /\ ~IsSignalWake(i) => OfMembers(i)

\* What a call of emit may rely on.
Fresh(s) == \A i \in DOMAIN wake : s \notin wake[i].signals
Holds(s, i) == i \in DOMAIN wake /\ IsSignalWake(i) /\ IsPending(i) /\ i.scope = ScopeOf[s]
Emitting ==
    \A s \in Signal :
        /\ emission[s].pc # "idle" => Fresh(s)
        /\ emission[s].pc = "merge" /\ emission[s].current => Holds(s, emission[s].latest)

WakeTyped ==
    /\ DOMAIN wake \subseteq WakeId /\ wake \in [DOMAIN wake -> Wake]
    /\ emission \in [Signal -> Emission]

WakeInv == WakeTyped /\ OneLiveWakePerHit /\ Carried /\ Emitting

\* What the loop holds, and what a message was about.
LoopTie ==
    /\ loop \in Loop
    /\ loop.pc = "claim" => loop.id \in DOMAIN wake
    /\ loop.pc \in {"run", "told"} =>
          /\ loop.id \in DOMAIN wake
          /\ wake[loop.id].state = "running" /\ wake[loop.id].signals = loop.shown
    /\ loop.pc = "told" => loop.id \in DOMAIN delivered

DeliveryTie ==
    /\ DOMAIN delivered \subseteq DOMAIN wake
    /\ delivered \in [DOMAIN delivered -> (SUBSET Signal) \ {{}}]
    /\ DeliveredOnce
    /\ \A i \in DOMAIN delivered : wake[i].signals \subseteq delivered[i]

BusInv == WakeInv /\ LoopTie /\ DeliveryTie

-----------------------------------------------------------------------------
(* Identities.                                                              *)

LEMMA Ids ==
    ASSUME NEW s \in Signal
    PROVE  /\ HitId(s) \in WakeId /\ HushId(s) \in WakeId
           /\ IsSignalWake(HitId(s)) /\ IsSignalWake(HushId(s))
           /\ HitId(s).scope = ScopeOf[s] /\ HushId(s).scope = ScopeOf[s]
  BY DEF WakeId, SignalWakeId, HitId, HushId, IsSignalWake

LEMMA Bundles ==
    ASSUME NEW M \in SUBSET WakeId, \A j \in M : IsSignalWake(j)
    PROVE  /\ BundleId(M) \in WakeId /\ ~IsSignalWake(BundleId(M)) /\ BundleId(M).members = M
           /\ BundleId(M) \notin M
  BY DEF WakeId, SignalWakeId, BundleId, IsSignalWake

\* What the router bundles: at least one wake, all of them of hits and pending.
LEMMA MembersArePending ==
    ASSUME NEW i, NEW M \in BundleMembers(i)
    PROVE  /\ M # {}
           /\ \A j \in M : j \in DOMAIN wake /\ IsSignalWake(j) /\ IsPending(j)
  <1>1. M # {}
    BY FS_EmptySet DEF BundleMembers
  <1>2. M \subseteq Siblings(i)
    BY DEF BundleMembers
  <1> QED
    BY <1>1, <1>2 DEF Siblings, Bundleable

-----------------------------------------------------------------------------
(* The writes to wakes, each with what it leaves of the invariant.          *)

\* The bus writes the state of an open wake.
LEMMA WriteKeeps ==
    ASSUME WakeInv, NEW i \in DOMAIN wake, NEW w \in Wake, Write(i, w),
           wake[i].state \in Open, w.signals = wake[i].signals, w.state # "merged"
    PROVE  /\ WakeInv'
           /\ DOMAIN wake' = DOMAIN wake /\ wake'[i] = w
           /\ \A k \in DOMAIN wake : k # i => wake'[k] = wake[k]
  <1>1. /\ DOMAIN wake' = DOMAIN wake /\ wake'[i] = w
        /\ \A k \in DOMAIN wake : k # i => wake'[k] = wake[k]
    BY DEF Write, WakeInv, WakeTyped
  <1>2. /\ \A s \in Signal : emission'[s].pc = emission[s].pc /\ emission'[s].latest = emission[s].latest
        /\ \A s \in Signal : emission'[s].current => emission[s].current /\ emission[s].latest # i
        /\ emission' \in [Signal -> Emission]
    BY DEF Write, Outdate, WakeInv, WakeTyped, Emission
  <1>3. \A k \in DOMAIN wake : wake'[k].signals = wake[k].signals
    BY <1>1
  <1>4. WakeTyped'
    BY <1>1, <1>2 DEF Write, WakeInv, WakeTyped
  <1>5. OneLiveWakePerHit'
    BY <1>1, <1>3 DEF WakeInv, OneLiveWakePerHit, Live, Open, Pending
  <1>6. Carried'
    <2>1. ASSUME NEW k \in DOMAIN wake, IsSignalWake(k)
          PROVE  OfScope(k)'
      BY <1>1, <1>3, <2>1 DEF WakeInv, Carried, OfScope
    <2>2. ASSUME NEW k \in DOMAIN wake, ~IsSignalWake(k)
          PROVE  OfMembers(k)'
      BY <1>1, <1>3, <2>2 DEF WakeInv, Carried, OfMembers, Open, Pending
    <2> QED
      BY <1>1, <2>1, <2>2 DEF Carried
  <1>7. Emitting'
    <2>1. ASSUME NEW s \in Signal, Fresh(s)
          PROVE  Fresh(s)'
      BY <1>1, <1>3, <2>1 DEF Fresh
    <2>2. ASSUME NEW s \in Signal, NEW k, k # i, Holds(s, k)
          PROVE  Holds(s, k)'
      BY <1>1, <2>2 DEF Holds, IsPending
    <2> QED
      BY <1>2, <2>1, <2>2 DEF WakeInv, Emitting
  <1> QED
    BY <1>1, <1>4, <1>5, <1>6, <1>7 DEF WakeInv

\* A hit joins a pending wake.
LEMMA MergeKeeps ==
    ASSUME WakeInv, NEW s \in Signal, EmitMerges(s)
    PROVE  /\ WakeInv'
           /\ emission[s].latest \in DOMAIN wake /\ IsPending(emission[s].latest)
           /\ DOMAIN wake' = DOMAIN wake
           /\ wake'[emission[s].latest].signals = wake[emission[s].latest].signals \cup {s}
           /\ \A k \in DOMAIN wake : wake'[k].state = wake[k].state /\ wake'[k].ended = wake[k].ended
           /\ \A k \in DOMAIN wake : k # emission[s].latest => wake'[k] = wake[k]
  <1> DEFINE i == emission[s].latest
  <1>0. i \in DOMAIN wake /\ IsSignalWake(i) /\ IsPending(i) /\ i.scope = ScopeOf[s]
    BY DEF EmitMerges, WakeInv, Emitting, Holds
  <1>1. /\ DOMAIN wake' = DOMAIN wake /\ wake'[i] = [wake[i] EXCEPT !.signals = @ \cup {s}]
        /\ \A k \in DOMAIN wake : k # i => wake'[k] = wake[k]
    BY <1>0 DEF EmitMerges, WakeInv, WakeTyped
  <1>2. /\ wake'[i].signals = wake[i].signals \cup {s} /\ wake'[i] \in Wake
        /\ \A k \in DOMAIN wake : wake'[k].state = wake[k].state /\ wake'[k].ended = wake[k].ended
    BY <1>0, <1>1 DEF WakeInv, WakeTyped, Wake
  <1>3. /\ emission'[s].pc = "idle"
        /\ \A x \in Signal : x # s => emission'[x].pc = emission[x].pc
                                      /\ emission'[x].latest = emission[x].latest
        /\ \A x \in Signal : x # s /\ emission'[x].current =>
              emission[x].current /\ emission[x].latest # i
        /\ emission' \in [Signal -> Emission]
    <2>1. emission' = [[x \in Signal |-> IF emission[x].latest \in {i}
                                         THEN [emission[x] EXCEPT !.current = FALSE]
                                         ELSE emission[x]] EXCEPT ![s] = NoEmission]
      BY DEF EmitMerges, Outdate
    <2>2. NoEmission \in Emission /\ NoEmission.pc = "idle"
      BY DEF NoEmission, Emission
    <2>3. emission'[s] = NoEmission
      BY <2>1
    <2>4. \A x \in Signal : x # s =>
             emission'[x] = IF emission[x].latest = i THEN [emission[x] EXCEPT !.current = FALSE]
                                                     ELSE emission[x]
      BY <2>1
    <2>5. \A x \in Signal : emission[x] \in Emission
      BY DEF WakeInv, WakeTyped
    <2>6. ASSUME NEW e \in Emission
          PROVE  LET f == [e EXCEPT !.current = FALSE] IN
                 f \in Emission /\ f.pc = e.pc /\ f.latest = e.latest /\ ~f.current
      BY DEF Emission
    <2>7. ASSUME NEW x \in Signal, x # s
          PROVE  /\ emission'[x] \in Emission
                 /\ emission'[x].pc = emission[x].pc /\ emission'[x].latest = emission[x].latest
                 /\ emission'[x].current => emission[x].current /\ emission[x].latest # i
      BY <2>4, <2>5, <2>6, <2>7
    <2>8. emission' = [x \in Signal |-> emission'[x]]
      BY <2>1
    <2> QED
      BY <2>2, <2>3, <2>7, <2>8
  <1>4. \A k \in DOMAIN wake : s \notin wake[k].signals
    BY DEF EmitMerges, WakeInv, Emitting, Fresh
  <1> HIDE DEF i
  <1>5. WakeTyped'
    BY <1>1, <1>2, <1>3 DEF WakeInv, WakeTyped, EmitMerges
  <1>6. OneLiveWakePerHit'
    <2>1. ASSUME NEW k \in DOMAIN wake, NEW j \in DOMAIN wake,
                 wake'[k].signals \cap wake'[j].signals # {}
          PROVE  k = j \/ wake[k].signals \cap wake[j].signals # {}
      BY <1>1, <1>2, <1>4, <2>1
    <2> QED
      BY <1>1, <1>2, <2>1 DEF WakeInv, OneLiveWakePerHit, Live
  <1>7. Carried'
    <2>1. ASSUME NEW k \in DOMAIN wake, IsSignalWake(k)
          PROVE  OfScope(k)'
      BY <1>0, <1>1, <1>2, <2>1 DEF WakeInv, Carried, OfScope
    <2>2. ASSUME NEW k \in DOMAIN wake, ~IsSignalWake(k)
          PROVE  OfMembers(k)'
      <3>1. k # i /\ OfMembers(k)
        BY <1>0, <2>2 DEF WakeInv, Carried
      <3> QED
        BY <1>1, <1>2, <3>1 DEF OfMembers
    <2> QED
      BY <1>1, <2>1, <2>2 DEF Carried
  <1>8. Emitting'
    <2>1. ASSUME NEW x \in Signal, x # s, Fresh(x)
          PROVE  Fresh(x)'
      BY <1>1, <1>2, <2>1 DEF Fresh
    <2>2. ASSUME NEW x \in Signal, NEW k, Holds(x, k)
          PROVE  Holds(x, k)'
      BY <1>1, <1>2, <2>2 DEF Holds, IsPending
    <2> QED
      BY <1>3, <2>1, <2>2 DEF WakeInv, Emitting
  <1> QED
    BY <1>0, <1>1, <1>2, <1>5, <1>6, <1>7, <1>8 DEF WakeInv, i

\* A hit gets a wake of its own.
LEMMA CreateKeeps ==
    ASSUME WakeInv, NEW s \in Signal, NEW i \in {HitId(s), HushId(s)}, NEW state \in {"new", "suppressed"},
           emission[s].pc # "idle", Creates(s, i, state)
    PROVE  /\ WakeInv'
           /\ i \notin DOMAIN wake /\ DOMAIN wake' = DOMAIN wake \cup {i}
           /\ wake'[i] = NewWake(state, {s})
           /\ \A k \in DOMAIN wake : wake'[k] = wake[k]
  <1>1. /\ i \notin DOMAIN wake /\ DOMAIN wake' = DOMAIN wake \cup {i}
        /\ wake'[i] = NewWake(state, {s})
        /\ \A k \in DOMAIN wake : wake'[k] = wake[k]
        /\ wake' \in [DOMAIN wake' -> {wake[k] : k \in DOMAIN wake} \cup {NewWake(state, {s})}]
    BY DEF Creates, Put
  <1>2. NewWake(state, {s}) \in Wake /\ NewWake(state, {s}).signals = {s} /\ NewWake(state, {s}).state = state
    BY DEF NewWake, Wake, WakeState, Open, Pending
  <1>3. /\ emission'[s].pc = "idle"
        /\ \A x \in Signal : x # s => emission'[x] = emission[x]
        /\ emission' \in [Signal -> Emission]
    BY DEF Creates, NoEmission, WakeInv, WakeTyped, Emission
  <1>4. \A k \in DOMAIN wake : s \notin wake[k].signals
    BY DEF WakeInv, Emitting, Fresh
  <1>5. i \in WakeId /\ IsSignalWake(i) /\ i.scope = ScopeOf[s]
    BY Ids
  <1>6. WakeTyped'
    BY <1>1, <1>2, <1>3, <1>5 DEF WakeInv, WakeTyped
  <1>7. OneLiveWakePerHit'
    BY <1>1, <1>2, <1>4 DEF WakeInv, OneLiveWakePerHit, Live
  <1>8. Carried'
    <2>1. OfScope(i)'
      BY <1>1, <1>2, <1>5 DEF OfScope
    <2>2. ASSUME NEW k \in DOMAIN wake, OfScope(k)
          PROVE  OfScope(k)'
      BY <1>1, <2>2 DEF OfScope
    <2>3. ASSUME NEW k \in DOMAIN wake, OfMembers(k)
          PROVE  OfMembers(k)'
      BY <1>1, <2>3 DEF OfMembers
    <2> QED
      BY <1>1, <1>5, <2>1, <2>2, <2>3 DEF WakeInv, Carried
  <1>9. Emitting'
    <2>1. ASSUME NEW x \in Signal, x # s, Fresh(x)
          PROVE  Fresh(x)'
      <3>1. x \notin wake'[i].signals
        BY <1>1, <1>2, <2>1
      <3>2. \A k \in DOMAIN wake : x \notin wake'[k].signals
        BY <1>1, <2>1 DEF Fresh
      <3> QED
        BY <1>1, <3>1, <3>2 DEF Fresh
    <2>2. ASSUME NEW x \in Signal, NEW k, Holds(x, k)
          PROVE  Holds(x, k)'
      BY <1>1, <2>2 DEF Holds, IsPending
    <2> QED
      BY <1>3, <2>1, <2>2 DEF WakeInv, Emitting
  <1> QED
    BY <1>1, <1>6, <1>7, <1>8, <1>9 DEF WakeInv

\* Pending wakes are merged into a bundle that carries their hits.
LEMMA BundleKeeps ==
    ASSUME WakeInv, NEW i, NEW M \in BundleMembers(i), wake' = Bundled(M), emission' = Outdate(M)
    PROVE  /\ WakeInv'
           /\ BundleId(M) \notin DOMAIN wake /\ DOMAIN wake' = DOMAIN wake \cup {BundleId(M)}
           /\ wake'[BundleId(M)] = NewWake("new", EvidenceOf(M))
           /\ \A k \in DOMAIN wake : k \notin M => wake'[k] = wake[k]
           /\ \A k \in M : k \in DOMAIN wake /\ IsPending(k)
           /\ \A k \in M : wake'[k] = [wake[k] EXCEPT !.state = "merged"]
  <1> DEFINE b == BundleId(M)
  <1>0. /\ M # {} /\ \A j \in M : j \in DOMAIN wake /\ IsSignalWake(j) /\ IsPending(j)
    BY MembersArePending
  <1>1. M \in SUBSET WakeId
    BY <1>0 DEF WakeInv, WakeTyped
  <1>2. b \in WakeId /\ ~IsSignalWake(b) /\ b.members = M /\ b \notin M
    BY <1>0, <1>1, Bundles
  <1>3. b \notin DOMAIN wake
    BY <1>0, <1>2 DEF WakeInv, Carried, OfMembers, IsPending, Pending
  <1> HIDE DEF b
  <1>4. /\ DOMAIN wake' = DOMAIN wake \cup {b} /\ wake'[b] = NewWake("new", EvidenceOf(M))
        /\ \A k \in DOMAIN wake : k \notin M => wake'[k] = wake[k]
        /\ \A k \in M : wake'[k] = [wake[k] EXCEPT !.state = "merged"]
        /\ wake' = [k \in DOMAIN wake' |-> wake'[k]]
    BY <1>0, <1>2, <1>3 DEF Bundled, BundledWith, b
  <1>5. /\ EvidenceOf(M) \in (SUBSET Signal) \ {{}}
        /\ \A s \in EvidenceOf(M) : \E j \in M : s \in wake[j].signals
        /\ \A j \in M : wake[j].signals \subseteq EvidenceOf(M)
    BY <1>0 DEF EvidenceOf, WakeInv, WakeTyped, Wake
  <1>6. /\ wake'[b] \in Wake /\ wake'[b].signals = EvidenceOf(M) /\ wake'[b].state = "new"
        /\ \A k \in M : wake'[k] \in Wake /\ wake'[k].signals = wake[k].signals /\ wake'[k].state = "merged"
    <2>1. ASSUME NEW w \in Wake
          PROVE  LET v == [w EXCEPT !.state = "merged"] IN
                 v \in Wake /\ v.signals = w.signals /\ v.state = "merged"
      BY DEF Wake, WakeState
    <2>2. \A k \in M : wake[k] \in Wake
      BY <1>0 DEF WakeInv, WakeTyped
    <2>3. LET v == NewWake("new", EvidenceOf(M)) IN
          v \in Wake /\ v.signals = EvidenceOf(M) /\ v.state = "new"
      BY <1>5 DEF NewWake, Wake, WakeState, Open, Pending
    <2>4. /\ wake'[b] \in Wake /\ wake'[b].signals = EvidenceOf(M) /\ wake'[b].state = "new"
      BY <1>4, <2>3
    <2>5. ASSUME NEW k \in M
          PROVE  wake'[k] \in Wake /\ wake'[k].signals = wake[k].signals /\ wake'[k].state = "merged"
      <3>1. wake[k] \in Wake /\ wake'[k] = [wake[k] EXCEPT !.state = "merged"]
        BY <1>4, <2>2
      <3> QED
        BY <2>1, <3>1
    <2> QED
      BY <2>4, <2>5
  <1>7. /\ \A s \in Signal : emission'[s].pc = emission[s].pc /\ emission'[s].latest = emission[s].latest
        /\ \A s \in Signal : emission'[s].current => emission[s].current /\ emission[s].latest \notin M
        /\ emission' \in [Signal -> Emission]
    BY DEF Outdate, WakeInv, WakeTyped, Emission
  <1>8. \A k \in DOMAIN wake : wake'[k].signals = wake[k].signals
    BY <1>4, <1>6
  <1>9. WakeTyped'
    BY <1>2, <1>4, <1>6, <1>7 DEF WakeInv, WakeTyped
  <1>10. OneLiveWakePerHit'
    <2>1. ASSUME NEW k \in DOMAIN wake, k \notin M, wake[k].state # "merged", NEW s \in EvidenceOf(M)
          PROVE  s \notin wake[k].signals
      BY <1>0, <1>5, <2>1 DEF WakeInv, OneLiveWakePerHit, Live, IsPending, Pending
    <2>2. ASSUME NEW k \in DOMAIN wake, wake'[k].state # "merged"
          PROVE  k \notin M /\ wake[k].state # "merged"
      BY <1>4, <1>6, <2>2
    <2>3. \A k \in DOMAIN wake : wake'[k].state # "merged" => wake'[k].signals \cap wake'[b].signals = {}
      BY <1>6, <1>8, <2>1, <2>2
    <2>4. \A k, j \in DOMAIN wake : wake'[k].state # "merged" /\ wake'[j].state # "merged"
                                      /\ wake'[k].signals \cap wake'[j].signals # {} => k = j
      BY <1>8, <2>2 DEF WakeInv, OneLiveWakePerHit, Live
    <2> QED
      BY <1>4, <2>3, <2>4 DEF OneLiveWakePerHit, Live
  <1>11. Carried'
    <2>1. OfMembers(b)'
      BY <1>0, <1>2, <1>4, <1>5, <1>6, <1>8 DEF OfMembers
    <2>2. ASSUME NEW k \in DOMAIN wake, OfScope(k)
          PROVE  OfScope(k)'
      BY <1>8, <2>2 DEF OfScope
    <2>3. ASSUME NEW k \in DOMAIN wake, OfMembers(k)
          PROVE  OfMembers(k)'
      BY <1>4, <1>6, <1>8, <2>3 DEF OfMembers
    <2> QED
      BY <1>2, <1>4, <2>1, <2>2, <2>3 DEF WakeInv, Carried
  <1>12. Emitting'
    <2>1. ASSUME NEW x \in Signal, Fresh(x)
          PROVE  Fresh(x)'
      BY <1>0, <1>4, <1>5, <1>6, <1>8, <2>1 DEF Fresh
    <2>2. ASSUME NEW x \in Signal, NEW k, k \notin M, Holds(x, k)
          PROVE  Holds(x, k)'
      BY <1>4, <2>2 DEF Holds, IsPending
    <2> QED
      BY <1>7, <2>1, <2>2 DEF WakeInv, Emitting
  <1> QED
    BY <1>0, <1>3, <1>4, <1>9, <1>10, <1>11, <1>12 DEF WakeInv, b

-----------------------------------------------------------------------------
(* The steps.                                                               *)

LEMMA InitialBusInv == BusInit => BusInv
  <1> SUFFICES ASSUME BusInit PROVE BusInv
    OBVIOUS
  <1>1. WakeTyped /\ DOMAIN wake = {} /\ DOMAIN delivered = {}
    BY DEF BusInit, WakeTyped, NoEmission, Emission
  <1>2. \A s \in Signal : emission[s].pc = "idle"
    BY DEF BusInit, NoEmission
  <1>3. loop \in Loop /\ loop.pc = "idle"
    BY DEF BusInit, IdleLoop, Loop
  <1>4. WakeInv
    BY <1>1, <1>2 DEF WakeInv, OneLiveWakePerHit, Carried, Emitting
  <1>5. LoopTie /\ DeliveryTie
    BY <1>1, <1>3 DEF LoopTie, DeliveryTie, DeliveredOnce
  <1> QED
    BY <1>4, <1>5 DEF BusInv

\* The messages stay true as long as the wakes they are about stay as they are.
LEMMA DeliveryKeeps ==
    ASSUME BusInv, UNCHANGED delivered, DOMAIN wake \subseteq DOMAIN wake',
           \A k \in DOMAIN delivered : /\ wake'[k].state \in {"running", "completed"}
                                       /\ wake'[k].signals = wake[k].signals,
           loop'.pc = "run" => loop'.id \notin DOMAIN delivered
    PROVE  DeliveryTie'
  BY DEF BusInv, DeliveryTie, DeliveredOnce

\* So does the loop, while the wake in its hands stays as it is.
LEMMA LoopKeeps ==
    ASSUME BusInv, UNCHANGED <<loop, delivered>>, DOMAIN wake \subseteq DOMAIN wake',
           \A k \in DOMAIN wake : ~IsPending(k) =>
               wake'[k].state = wake[k].state /\ wake'[k].signals = wake[k].signals
    PROVE  LoopTie' /\ DeliveryTie'
  <1>1. LoopTie'
    BY DEF BusInv, LoopTie, IsPending, Pending
  <1>2. \A k \in DOMAIN delivered : /\ k \in DOMAIN wake /\ wake[k].state \in {"running", "completed"}
                                    /\ ~(loop.pc = "run" /\ loop.id = k)
    BY DEF BusInv, DeliveryTie, DeliveredOnce
  <1>3. DeliveryTie'
    BY <1>2, DeliveryKeeps DEF IsPending, Pending
  <1> QED
    BY <1>1, <1>3

\* A decision of emit is about hits nobody carries, and merges into a pending wake.
LEMMA ReadsKeep ==
    ASSUME BusInv, NEW s \in Signal, EmitReads(s)
    PROVE  BusInv'
  <1>1. UNCHANGED <<wake, delivered, loop>>
    BY DEF EmitReads
  <1>2. Fresh(s)
    <2>1. ASSUME NEW i \in DOMAIN wake, IsSignalWake(i), s \in wake[i].signals
          PROVE  FALSE
      BY <2>1 DEF BusInv, WakeInv, Carried, OfScope, EmitReads, Recorded, SameScope
    <2>2. ASSUME NEW i \in DOMAIN wake, ~IsSignalWake(i), s \in wake[i].signals
          PROVE  FALSE
      <3>1. OfMembers(i)
        BY <2>2 DEF BusInv, WakeInv, Carried
      <3> QED
        BY <2>1, <2>2, <3>1 DEF OfMembers
    <2> QED
      BY <2>1, <2>2 DEF Fresh
  <1>3. PICK e \in Emission :
           /\ emission' = [emission EXCEPT ![s] = e]
           /\ e.pc = "merge" /\ e.current => Holds(s, e.latest)
    <2>1. CASE emission' = [emission EXCEPT ![s] = [NoEmission EXCEPT !.pc = "create"]]
      <3>1. LET e == [NoEmission EXCEPT !.pc = "create"] IN e \in Emission /\ e.pc = "create"
        BY DEF NoEmission, Emission
      <3> QED
        BY <2>1, <3>1
    <2>2. CASE \E i \in Latest(s) : emission' = [emission EXCEPT ![s] =
                                       [pc |-> Decision(i, s), latest |-> i, current |-> TRUE]]
      <3>1. PICK i \in Latest(s) : emission' = [emission EXCEPT ![s] =
                                       [pc |-> Decision(i, s), latest |-> i, current |-> TRUE]]
        BY <2>2
      <3>2. i \in DOMAIN wake /\ IsSignalWake(i) /\ i.scope = ScopeOf[s] /\ i \in WakeId
        BY DEF Latest, SameScope, BusInv, WakeInv, WakeTyped
      <3>3. Decision(i, s) \in {"merge", "hush", "create"} /\ (Decision(i, s) = "merge" => IsPending(i))
        BY DEF Decision, Mergeable, IsPending
      <3>4. LET e == [pc |-> Decision(i, s), latest |-> i, current |-> TRUE] IN
            e \in Emission /\ (e.pc = "merge" => Holds(s, e.latest))
        BY <3>2, <3>3 DEF Emission, Holds
      <3> QED
        BY <3>1, <3>4
    <2> QED
      BY <2>1, <2>2 DEF EmitReads
  <1>4. emission' \in [Signal -> Emission] /\ emission'[s] = e
        /\ \A x \in Signal : x # s => emission'[x] = emission[x]
    BY <1>3 DEF BusInv, WakeInv, WakeTyped
  <1>5. \A x \in Signal : /\ Fresh(x) => Fresh(x)'
                          /\ \A k : Holds(x, k) => Holds(x, k)'
    BY <1>1 DEF Fresh, Holds, IsPending
  <1>6. Emitting'
    BY <1>2, <1>3, <1>4, <1>5 DEF BusInv, WakeInv, Emitting
  <1>7. WakeTyped' /\ OneLiveWakePerHit' /\ Carried'
    BY <1>1, <1>4 DEF BusInv, WakeInv, WakeTyped, OneLiveWakePerHit, Live, Carried, OfScope, OfMembers
  <1>8. LoopTie' /\ DeliveryTie'
    BY <1>1 DEF BusInv, LoopTie, DeliveryTie, DeliveredOnce
  <1> QED
    BY <1>6, <1>7, <1>8 DEF BusInv, WakeInv

LEMMA FailureKeeps ==
    ASSUME BusInv, NEW s \in Signal, EmitFails(s)
    PROVE  BusInv'
  <1>1. UNCHANGED <<wake, delivered, loop>> /\ emission' = [emission EXCEPT ![s] = NoEmission]
    BY DEF EmitFails
  <1>2. NoEmission \in Emission /\ NoEmission.pc = "idle"
    BY DEF NoEmission, Emission
  <1>3. emission' \in [Signal -> Emission] /\ emission'[s].pc = "idle"
        /\ \A x \in Signal : x # s => emission'[x] = emission[x]
    BY <1>1, <1>2 DEF BusInv, WakeInv, WakeTyped
  <1>4. \A x \in Signal : /\ Fresh(x) => Fresh(x)'
                          /\ \A k : Holds(x, k) => Holds(x, k)'
    BY <1>1 DEF Fresh, Holds, IsPending
  <1>5. Emitting'
    BY <1>3, <1>4 DEF BusInv, WakeInv, Emitting
  <1>6. WakeTyped' /\ OneLiveWakePerHit' /\ Carried'
    BY <1>1, <1>3 DEF BusInv, WakeInv, WakeTyped, OneLiveWakePerHit, Live, Carried, OfScope, OfMembers
  <1>7. LoopTie' /\ DeliveryTie'
    BY <1>1 DEF BusInv, LoopTie, DeliveryTie, DeliveredOnce
  <1> QED
    BY <1>5, <1>6, <1>7 DEF BusInv, WakeInv

LEMMA EmitKeeps ==
    ASSUME BusInv, NEW s \in Signal, Emit(s)
    PROVE  BusInv'
  <1>1. CASE EmitReads(s)
    BY <1>1, ReadsKeep
  <1>2. CASE EmitMerges(s)
    <2>1. WakeInv'
      BY <1>2, MergeKeeps DEF BusInv
    <2>2. UNCHANGED <<loop, delivered>> /\ DOMAIN wake' = DOMAIN wake
          /\ \A k \in DOMAIN wake : ~IsPending(k) => wake'[k] = wake[k]
      BY <1>2, MergeKeeps DEF BusInv, EmitMerges
    <2> QED
      BY <2>1, <2>2, LoopKeeps DEF BusInv
  <1>3. ASSUME NEW i \in {HitId(s), HushId(s)}, NEW state \in {"new", "suppressed"},
               emission[s].pc # "idle", Creates(s, i, state)
        PROVE  BusInv'
    <2>1. WakeInv'
      BY <1>3, CreateKeeps DEF BusInv
    <2>2. UNCHANGED <<loop, delivered>> /\ DOMAIN wake \subseteq DOMAIN wake'
          /\ \A k \in DOMAIN wake : wake'[k] = wake[k]
      BY <1>3, CreateKeeps DEF BusInv, Creates
    <2> QED
      BY <2>1, <2>2, LoopKeeps DEF BusInv
  <1>4. CASE EmitCreates(s)
    BY <1>3, <1>4 DEF EmitCreates
  <1>5. CASE EmitHushes(s)
    BY <1>3, <1>5 DEF EmitHushes
  <1>6. CASE EmitFails(s)
    BY <1>6, FailureKeeps
  <1> QED
    BY <1>1, <1>2, <1>4, <1>5, <1>6 DEF Emit

\* What the loop writes into a wake.
LEMMA Rewritten ==
    ASSUME NEW w \in Wake, NEW state \in WakeState, NEW how \in {"run", "review"}
    PROVE  /\ LET v == [w EXCEPT !.state = state] IN
              v \in Wake /\ v.state = state /\ v.signals = w.signals /\ v.ended = w.ended
           /\ LET v == [w EXCEPT !.state = "completed", !.ended = how] IN
              v \in Wake /\ v.state = "completed" /\ v.signals = w.signals /\ v.ended = how
           /\ LET v == [w EXCEPT !.state = "queued", !.incomplete = TRUE] IN
              v \in Wake /\ v.state = "queued" /\ v.signals = w.signals /\ v.ended = w.ended
  BY DEF Wake, WakeState, Open, Pending

\* The loop writes to one open wake, and then shows it to the model or lets it go.
LEMMA LoopWrites ==
    ASSUME BusInv, NEW i \in DOMAIN wake, NEW w \in Wake, Write(i, w),
           wake[i].state \in Open, w.signals = wake[i].signals, w.state # "merged",
           UNCHANGED delivered, i \in DOMAIN delivered => w.state \in {"running", "completed"},
           loop' \in Loop,
           \/ loop'.pc \in {"idle", "review"}
           \/ /\ loop'.pc = "run" /\ loop'.id = i /\ i \notin DOMAIN delivered
              /\ w.state = "running" /\ loop'.shown = w.signals
    PROVE  BusInv'
  <1>1. /\ WakeInv' /\ DOMAIN wake' = DOMAIN wake /\ wake'[i] = w
        /\ \A k \in DOMAIN wake : k # i => wake'[k] = wake[k]
    BY WriteKeeps DEF BusInv
  <1>2. LoopTie'
    BY <1>1 DEF LoopTie
  <1>3. \A k \in DOMAIN delivered : k \in DOMAIN wake /\ wake[k].state \in {"running", "completed"}
    BY DEF BusInv, DeliveryTie, DeliveredOnce
  <1>4. DeliveryTie'
    BY <1>1, <1>3, DeliveryKeeps
  <1> QED
    BY <1>1, <1>2, <1>4 DEF BusInv

\* The loop lets the wake go without a write.
LEMMA LoopRests ==
    ASSUME BusInv, UNCHANGED <<wake, delivered, emission>>,
           loop' \in Loop, loop'.pc \in {"idle", "review"}
    PROVE  BusInv'
  <1>1. WakeInv'
    BY DEF BusInv, WakeInv, WakeTyped, OneLiveWakePerHit, Live, Carried, OfScope, OfMembers,
           Emitting, Fresh, Holds, IsPending
  <1>2. LoopTie' /\ DeliveryTie'
    BY DEF BusInv, LoopTie, DeliveryTie, DeliveredOnce
  <1> QED
    BY <1>1, <1>2 DEF BusInv

LEMMA LoopStates ==
    /\ IdleLoop \in Loop /\ IdleLoop.pc = "idle"
    /\ \A i \in WakeId : LET l == [IdleLoop EXCEPT !.pc = "claim", !.id = i] IN
                         l \in Loop /\ l.pc = "claim" /\ l.id = i
    /\ \A ids \in SUBSET WakeId : LET l == [IdleLoop EXCEPT !.pc = "review", !.ids = ids] IN
                                  l \in Loop /\ l.pc = "review"
    /\ \A l \in Loop :
          LET r == [l EXCEPT !.pc = "told"] IN
          r \in Loop /\ r.pc = "told" /\ r.id = l.id /\ r.shown = l.shown
  BY DEF IdleLoop, Loop

LEMMA PickKeeps ==
    ASSUME BusInv, NEW i \in DOMAIN wake, Pick(i)
    PROVE  BusInv'
  <1> DEFINE Claiming(k) == [IdleLoop EXCEPT !.pc = "claim", !.id = k]
  <1>1. CASE Bundleable(i) /\ BundleMembers(i) # {}
    <2>1. PICK M \in BundleMembers(i) :
             /\ wake' = Bundled(M) /\ emission' = Outdate(M)
             /\ loop' = Claiming(IF i \in M THEN BundleId(M) ELSE i)
      BY <1>1 DEF Pick
    <2>2. /\ WakeInv' /\ DOMAIN wake' = DOMAIN wake \cup {BundleId(M)}
          /\ \A k \in DOMAIN wake : k \notin M => wake'[k] = wake[k]
          /\ \A k \in M : k \in DOMAIN wake /\ IsPending(k)
      BY <2>1, BundleKeeps DEF BusInv
    <2>3. loop' \in Loop /\ loop'.pc = "claim" /\ loop'.id \in DOMAIN wake'
      <3> DEFINE k == IF i \in M THEN BundleId(M) ELSE i
      <3>1. k \in DOMAIN wake'
        BY <2>2
      <3>2. k \in WakeId
        BY <2>2, <3>1 DEF WakeInv, WakeTyped
      <3> QED
        BY <2>1, <3>1, <3>2, LoopStates
    <2>4. \A k \in DOMAIN delivered : k \in DOMAIN wake /\ wake[k].state \in {"running", "completed"}
      BY DEF BusInv, DeliveryTie, DeliveredOnce
    <2>5. \A k \in DOMAIN delivered : wake'[k] = wake[k]
      BY <2>2, <2>4 DEF IsPending, Pending
    <2>6. DeliveryTie'
      BY <2>2, <2>3, <2>4, <2>5, DeliveryKeeps DEF Pick
    <2> QED
      BY <2>2, <2>3, <2>6 DEF BusInv, LoopTie
  <1>2. CASE ~(Bundleable(i) /\ BundleMembers(i) # {})
    <2>1. loop' = Claiming(i) /\ UNCHANGED <<wake, emission, delivered>>
      BY <1>2 DEF Pick
    <2>2. i \in WakeId
      BY DEF BusInv, WakeInv, WakeTyped
    <2>3. loop' \in Loop /\ loop'.pc = "claim" /\ loop'.id = i
      BY <2>1, <2>2, LoopStates
    <2>4. WakeInv'
      BY <2>1 DEF BusInv, WakeInv, WakeTyped, OneLiveWakePerHit, Live, Carried, OfScope, OfMembers,
                  Emitting, Fresh, Holds, IsPending
    <2>5. LoopTie' /\ DeliveryTie'
      BY <2>1, <2>3 DEF BusInv, LoopTie, DeliveryTie, DeliveredOnce
    <2> QED
      BY <2>4, <2>5 DEF BusInv
  <1> QED
    BY <1>1, <1>2

LEMMA GateKeeps ==
    ASSUME BusInv, Gate
    PROVE  BusInv'
  <1> DEFINE i == loop.id
  <1>1. /\ i \in DOMAIN wake /\ wake[i] \in Wake /\ UNCHANGED delivered /\ loop \in Loop
        /\ wake[i].signals \in SUBSET Signal
    BY DEF Gate, BusInv, LoopTie, WakeInv, WakeTyped, Wake
  <1>2. CASE RecoverDelivery(i)
    <2>1. loop' \in Loop /\ loop'.pc = "idle"
      BY <1>2, LoopStates DEF RecoverDelivery
    <2>2. CASE UNCHANGED <<wake, emission>>
      BY <1>1, <2>1, <2>2, LoopRests
    <2>3. CASE wake[i].state = "running" /\ Complete(i, "run")
      <3>1. Write(i, [wake[i] EXCEPT !.state = "completed", !.ended = "run"])
        BY <2>3 DEF Complete, Open
      <3>2. wake[i].state \in Open
        BY <2>3 DEF Open
      <3> QED
        BY <1>1, <2>1, <3>1, <3>2, Rewritten, LoopWrites DEF WakeState
    <2> QED
      BY <1>2, <2>2, <2>3 DEF RecoverDelivery
  <1>3. CASE i \notin DOMAIN delivered /\ Claim(i)
    <2>1. /\ Write(i, [wake[i] EXCEPT !.state = "running"]) /\ wake[i].state \in Open
          /\ loop' = [loop EXCEPT !.pc = "run", !.shown = wake[i].signals]
      BY <1>3 DEF Claim
    <2> DEFINE w == [wake[i] EXCEPT !.state = "running"]
    <2>2. loop' \in Loop /\ loop'.pc = "run" /\ loop'.id = i /\ loop'.shown = wake[i].signals
      <3>1. ASSUME NEW l \in Loop, NEW S \in SUBSET Signal, loop' = [l EXCEPT !.pc = "run", !.shown = S]
            PROVE  loop' \in Loop /\ loop'.pc = "run" /\ loop'.id = l.id /\ loop'.shown = S
        BY <3>1 DEF Loop
      <3> QED
        BY <1>1, <2>1, <3>1
    <2>3. w \in Wake /\ w.state = "running" /\ w.signals = wake[i].signals
      BY <1>1 DEF Wake, WakeState, Open
    <2> HIDE DEF w
    <2>4. Write(i, w)
      BY <2>1 DEF w
    <2> QED
      BY <1>1, <1>3, <2>1, <2>2, <2>3, <2>4, LoopWrites
  <1>4. CASE i \notin DOMAIN delivered /\ Defer(i)
    <2>1. loop' \in Loop /\ loop'.pc = "idle"
      BY <1>4, LoopStates DEF Defer
    <2>2. CASE wake[i].state = "new" /\ Write(i, [wake[i] EXCEPT !.state = "queued"])
      <3>1. "queued" \in WakeState /\ wake[i].state \in Open
        BY <2>2 DEF WakeState, Open, Pending
      <3> QED
        BY <1>1, <1>4, <2>1, <2>2, <3>1, Rewritten, LoopWrites
    <2> QED
      BY <1>1, <1>4, <2>1, <2>2, LoopRests DEF Defer
  <1>5. CASE i \notin DOMAIN delivered /\ Suppress(i)
    <2>1. loop' \in Loop /\ loop'.pc = "idle"
      BY <1>5, LoopStates DEF Suppress
    <2>2. Write(i, [wake[i] EXCEPT !.state = "suppressed"]) /\ wake[i].state \in Open
      BY <1>5 DEF Suppress
    <2> DEFINE w == [wake[i] EXCEPT !.state = "suppressed"]
    <2>3. w \in Wake /\ w.state = "suppressed" /\ w.signals = wake[i].signals
      BY <1>1 DEF Wake, WakeState
    <2> HIDE DEF w
    <2>4. Write(i, w)
      BY <2>2 DEF w
    <2> QED
      BY <1>1, <1>5, <2>1, <2>2, <2>3, <2>4, LoopWrites
  <1> QED
    BY <1>2, <1>3, <1>4, <1>5 DEF Gate, GateOf

LEMMA DeliverKeeps ==
    ASSUME BusInv, Deliver
    PROVE  BusInv'
  <1> DEFINE i == loop.id
  <1>1. /\ loop.pc = "run" /\ UNCHANGED <<wake, emission>>
        /\ delivered' = [k \in DOMAIN delivered \cup {i} |-> IF k = i THEN loop.shown ELSE delivered[k]]
        /\ loop' = [loop EXCEPT !.pc = "told"]
    BY DEF Deliver
  <1>2. /\ i \in DOMAIN wake /\ wake[i].state = "running" /\ wake[i].signals = loop.shown
        /\ loop \in Loop
    BY <1>1 DEF BusInv, LoopTie
  <1>3. loop.shown \in (SUBSET Signal) \ {{}}
    BY <1>2 DEF BusInv, WakeInv, WakeTyped, Wake
  <1>4. loop' \in Loop /\ loop'.pc = "told" /\ loop'.id = i /\ loop'.shown = loop.shown
    BY <1>1, <1>2, LoopStates
  <1>5. WakeInv'
    BY <1>1 DEF BusInv, WakeInv, WakeTyped, OneLiveWakePerHit, Live, Carried, OfScope, OfMembers,
                Emitting, Fresh, Holds, IsPending
  <1>6. LoopTie'
    BY <1>1, <1>2, <1>4 DEF LoopTie
  <1>7. DeliveryTie'
    BY <1>1, <1>2, <1>3, <1>4 DEF BusInv, DeliveryTie, DeliveredOnce
  <1> QED
    BY <1>5, <1>6, <1>7 DEF BusInv

\* A run is over: its wake is completed, or waits for the rest of its work.
LEMMA FinishKeeps ==
    ASSUME BusInv, FinishRun
    PROVE  BusInv'
  <1> DEFINE i == loop.id
  <1>1. /\ i \in DOMAIN wake /\ wake[i] \in Wake /\ UNCHANGED delivered /\ wake[i].state = "running"
        /\ loop' \in Loop /\ loop'.pc = "idle"
    BY LoopStates DEF FinishRun, BusInv, LoopTie, WakeInv, WakeTyped
  <1>2. wake[i].state \in Open /\ "running" \in WakeState
    BY <1>1 DEF Open, WakeState
  <1>3. CASE Complete(i, "run")
    <2>1. Write(i, [wake[i] EXCEPT !.state = "completed", !.ended = "run"])
      BY <1>2, <1>3 DEF Complete
    <2> QED
      BY <1>1, <1>2, <2>1, Rewritten, LoopWrites
  <1>4. CASE loop.pc = "run" /\ Requeue(i)
    <2>1. Write(i, [wake[i] EXCEPT !.state = "queued", !.incomplete = TRUE])
      BY <1>1, <1>4 DEF Requeue
    <2>2. i \notin DOMAIN delivered
      BY <1>4 DEF BusInv, DeliveryTie, DeliveredOnce
    <2> QED
      BY <1>1, <1>2, <2>1, <2>2, Rewritten, LoopWrites
  <1> QED
    BY <1>3, <1>4 DEF FinishRun

LEMMA ReviewKeeps ==
    ASSUME BusInv, ReviewBegins \/ (\E i \in DOMAIN wake : ReviewConsumes(i)) \/ LoopLeaves
    PROVE  BusInv'
  <1>1. CASE ReviewBegins
    <2>1. PICK ids \in SUBSET ReviewQueue : loop' = [IdleLoop EXCEPT !.pc = "review", !.ids = ids]
      BY <1>1 DEF ReviewBegins
    <2>2. ids \in SUBSET WakeId
      BY DEF ReviewQueue, BusInv, WakeInv, WakeTyped
    <2> QED
      BY <1>1, <2>1, <2>2, LoopStates, LoopRests DEF ReviewBegins
  <1>2. ASSUME NEW i \in DOMAIN wake, ReviewConsumes(i)
        PROVE  BusInv'
    <2>1. /\ UNCHANGED delivered /\ wake[i] \in Wake /\ loop \in Loop /\ loop.pc = "review"
          /\ loop' = [loop EXCEPT !.ids = @ \ {i}]
      BY <1>2 DEF ReviewConsumes, BusInv, WakeInv, WakeTyped, LoopTie
    <2>2. loop' \in Loop /\ loop'.pc = "review"
      <3>1. ASSUME NEW l \in Loop, loop' = [l EXCEPT !.ids = @ \ {i}]
            PROVE  loop' \in Loop /\ loop'.pc = l.pc
        BY <3>1 DEF Loop
      <3> QED
        BY <2>1, <3>1
    <2>3. CASE IsPending(i)
      <3>1. Write(i, [wake[i] EXCEPT !.state = "completed", !.ended = "review"])
        BY <1>2, <2>3 DEF ReviewConsumes, Complete, IsPending, Open
      <3>2. wake[i].state \in Open /\ "running" \in WakeState
        BY <2>3 DEF IsPending, Open, WakeState
      <3> QED
        BY <2>1, <2>2, <3>1, <3>2, Rewritten, LoopWrites
    <2>4. CASE ~IsPending(i)
      BY <1>2, <2>1, <2>2, <2>4, LoopRests DEF ReviewConsumes
    <2> QED
      BY <2>3, <2>4
  <1>3. CASE LoopLeaves
    BY <1>3, LoopStates, LoopRests DEF LoopLeaves
  <1> QED
    BY <1>1, <1>2, <1>3

LEMMA BusInvKept == BusInv /\ [BusNext]_busVars => BusInv'
  <1> SUFFICES ASSUME BusInv, [BusNext]_busVars PROVE BusInv'
    OBVIOUS
  <1>1. CASE UNCHANGED busVars
    BY <1>1 DEF busVars, BusInv, WakeInv, WakeTyped, OneLiveWakePerHit, Live, Carried, OfScope,
                OfMembers, Emitting, Fresh, Holds, IsPending, LoopTie, DeliveryTie, DeliveredOnce
  <1> QED
    BY <1>1, EmitKeeps, PickKeeps, GateKeeps, DeliverKeeps, FinishKeeps, ReviewKeeps DEF BusNext

\* Hits and wakes, the emissions under way, the loop and the messages fit together.
THEOREM BusInvariant == BusSpec => []BusInv
  BY InitialBusInv, BusInvKept, PTL DEF BusSpec

\* The types of the wakes, of emit and the loop, and of what the user was told.
THEOREM BusTypeCorrect == BusSpec => []BusTypeOK
  <1>1. BusInv => BusTypeOK
    BY DEF BusInv, WakeInv, WakeTyped, LoopTie, DeliveryTie, BusTypeOK
  <1> QED
    BY <1>1, BusInvariant, PTL

\* Bundling moves a hit and a retry does not copy it: no two live wakes carry it.
THEOREM OneWakePerHit == BusSpec => []OneLiveWakePerHit
  <1>1. BusInv => OneLiveWakePerHit
    BY DEF BusInv, WakeInv
  <1> QED
    BY <1>1, BusInvariant, PTL

\* A wake whose message is in the world is not given to the model again.
THEOREM UserIsToldOnce == BusSpec => []DeliveredOnce
  <1>1. BusInv => DeliveredOnce
    BY DEF BusInv, DeliveryTie
  <1> QED
    BY <1>1, BusInvariant, PTL

-----------------------------------------------------------------------------
(* Wakes that a run completes.                                              *)

\* Only the end of a run and the recovery of a message complete a wake as run.
LEMMA EndedByRun ==
    ASSUME BusInv, BusNext, NEW i \in DOMAIN wake,
           wake[i].ended = None, wake'[i].ended = "run"
    PROVE  i = loop.id /\ ((loop.pc \in {"run", "told"} /\ FinishRun) \/ RecoverDelivery(i))
  <1>0. None # "run" /\ \A k \in DOMAIN wake : wake[k] \in Wake
    BY BusConstantsOK DEF BusInv, WakeInv, WakeTyped
  <1>1. wake'[i].ended # wake[i].ended
    BY <1>0
  <1>2. ASSUME NEW s \in Signal, Emit(s)
        PROVE  FALSE
    <2>1. CASE EmitMerges(s)
      BY <1>1, <2>1, MergeKeeps DEF BusInv
    <2>2. ASSUME NEW k \in {HitId(s), HushId(s)}, NEW state \in {"new", "suppressed"},
                 emission[s].pc # "idle", Creates(s, k, state)
          PROVE  FALSE
      BY <1>1, <2>2, CreateKeeps DEF BusInv
    <2>3. ~EmitCreates(s) /\ ~EmitHushes(s)
      BY <2>2 DEF EmitCreates, EmitHushes
    <2> QED
      BY <1>1, <1>2, <2>1, <2>3 DEF Emit, EmitReads, EmitFails
  <1>3. ASSUME NEW k \in DOMAIN wake, Pick(k)
        PROVE  FALSE
    <2>1. PICK M \in BundleMembers(k) : wake' = Bundled(M) /\ emission' = Outdate(M)
      BY <1>1, <1>3 DEF Pick
    <2>2. wake'[i] = wake[i] \/ wake'[i] = [wake[i] EXCEPT !.state = "merged"]
      BY <2>1, BundleKeeps DEF BusInv
    <2> QED
      BY <1>0, <1>1, <2>2 DEF Wake
  <1>5. ASSUME NEW k \in DOMAIN wake, ReviewConsumes(k)
        PROVE  FALSE
    <2>1. Write(k, [wake[k] EXCEPT !.state = "completed", !.ended = "review"])
      BY <1>1, <1>5 DEF ReviewConsumes, Complete
    <2>2. wake'[i] = wake[i] \/ wake'[i] = [wake[i] EXCEPT !.state = "completed", !.ended = "review"]
      BY <2>1 DEF Write
    <2> QED
      BY <1>0, <1>1, <2>2 DEF Wake
  <1>6. CASE Gate
    <2>1. loop.id \in DOMAIN wake /\ wake[loop.id] \in Wake
      BY <1>0, <1>6 DEF Gate, BusInv, LoopTie
    <2>2. ASSUME NEW st \in WakeState, Write(loop.id, [wake[loop.id] EXCEPT !.state = st])
          PROVE  FALSE
      <3>1. wake'[i] = wake[i] \/ wake'[i] = [wake[i] EXCEPT !.state = st]
        BY <2>1, <2>2 DEF Write
      <3> QED
        BY <1>0, <1>1, <3>1 DEF Wake
    <2>3. ~Claim(loop.id) /\ ~Suppress(loop.id)
      BY <2>2 DEF Claim, Suppress, WakeState, Open
    <2>4. ~Defer(loop.id)
      BY <1>1, <2>2 DEF Defer, WakeState, Open, Pending
    <2>5. RecoverDelivery(loop.id)
      BY <1>6, <2>3, <2>4 DEF Gate, GateOf
    <2>6. i = loop.id
      BY <1>1, <2>5 DEF RecoverDelivery, Complete, Write
    <2> QED
      BY <2>5, <2>6
  <1>7. CASE FinishRun
    <2>1. i = loop.id
      BY <1>1, <1>7 DEF FinishRun, Complete, Requeue, Write
    <2> QED
      BY <1>7, <2>1 DEF FinishRun
  <1>8. ~Deliver /\ ~ReviewBegins /\ ~LoopLeaves
    BY <1>1 DEF Deliver, ReviewBegins, LoopLeaves
  <1> QED
    BY <1>2, <1>3, <1>5, <1>6, <1>7, <1>8 DEF BusNext

\* A wake is completed by a run only if the resident, or the user, was shown every hit it
\* carries, whatever arrived while the model was thinking or the process was down.
THEOREM RunsHandleWhatTheySaw == BusSpec => HandledMeansShown
  <1>1. BusInv /\ [BusNext]_busVars =>
          [\A i \in DOMAIN wake : wake[i].ended = None /\ wake'[i].ended = "run"
              => wake[i].signals \subseteq Told(i)]_busVars
    <2> SUFFICES ASSUME BusInv, BusNext, NEW i \in DOMAIN wake,
                        wake[i].ended = None, wake'[i].ended = "run"
                 PROVE  wake[i].signals \subseteq Told(i)
      OBVIOUS
    <2>1. i = loop.id /\ (loop.pc \in {"run", "told"} \/ RecoverDelivery(i))
      BY EndedByRun
    <2>2. CASE i \in DOMAIN delivered
      BY <2>2 DEF BusInv, DeliveryTie, Told
    <2>3. CASE i \notin DOMAIN delivered
      BY <2>1, <2>3 DEF BusInv, LoopTie, Told, RecoverDelivery
    <2> QED
      BY <2>2, <2>3
  <1> QED
    BY <1>1, BusInvariant, PTL DEF BusSpec, HandledMeansShown

-----------------------------------------------------------------------------
(* The ledger of hits.                                                      *)

\* What has become of a hit is what its live wake says.
FateOf(state) ==
    IF state \in Open THEN "owed" ELSE IF state = "completed" THEN "handled" ELSE "hushed"

LEMMA HitOfCarrier ==
    ASSUME WakeInv, NEW s \in Signal, NEW i \in DOMAIN wake,
           s \in wake[i].signals, wake[i].state # "merged"
    PROVE  Hit[s] = FateOf(wake[i].state)
  <1>1. \A j \in DOMAIN wake : s \in wake[j].signals /\ wake[j].state # "merged" => j = i
    BY DEF WakeInv, OneLiveWakePerHit, Live
  <1>2. ASSUME NEW states \in {Open, {"completed"}, {"suppressed"}}
        PROVE  Carries(s, states) <=> wake[i].state \in states
    BY <1>1 DEF Carries, Open, Pending
  <1>3. wake[i].state \in Open \cup {"completed", "suppressed"}
    BY DEF WakeInv, WakeTyped, Wake, WakeState
  <1> QED
    BY <1>2, <1>3 DEF Hit, FateOf

LEMMA HitOfCarrierNext ==
    ASSUME WakeInv', NEW s \in Signal, NEW i \in DOMAIN wake',
           s \in wake'[i].signals, wake'[i].state # "merged"
    PROVE  Hit'[s] = FateOf(wake'[i].state)
  <1>1. \A j \in DOMAIN wake' : s \in wake'[j].signals /\ wake'[j].state # "merged" => j = i
    BY DEF WakeInv, OneLiveWakePerHit, Live
  <1>2. ASSUME NEW states \in {Open, {"completed"}, {"suppressed"}}
        PROVE  Carries(s, states)' <=> wake'[i].state \in states
    BY <1>1 DEF Carries, Open, Pending
  <1>3. wake'[i].state \in Open \cup {"completed", "suppressed"}
    BY DEF WakeInv, WakeTyped, Wake, WakeState
  <1> QED
    BY <1>2, <1>3 DEF Hit, FateOf

\* A hit whose carriers keep their states keeps its fate.
LEMMA SameFate ==
    ASSUME NEW s \in Signal,
           \A states \in {Open, {"completed"}, {"suppressed"}} : Carries(s, states)' <=> Carries(s, states)
    PROVE  Hit'[s] = Hit[s]
  BY DEF Hit

LEMMA HitIsFunction ==
    /\ Hit = [s \in Signal |-> Hit[s]] /\ Hit' = [s \in Signal |-> Hit'[s]]
    /\ UNCHANGED wake => UNCHANGED Hit
  BY DEF Hit, Carries

LEMMA UncarriedIsUnseen ==
    ASSUME NEW s \in Signal, Fresh(s)
    PROVE  Hit[s] = "unseen"
  BY DEF Hit, Carries, Fresh

\* emit enters the hit.
LEMMA EmitEnters ==
    ASSUME BusInv, BusInv', NEW s \in Signal, Emit(s)
    PROVE  Ledger!Enter(s) \/ UNCHANGED Hit
  <1>1. CASE EmitReads(s) \/ EmitFails(s)
    BY <1>1, HitIsFunction DEF EmitReads, EmitFails
  <1>2. ASSUME emission[s].pc # "idle", NEW i \in DOMAIN wake', s \in wake'[i].signals,
               wake'[i].state \in Open \cup {"suppressed"},
               \A x \in Signal : x # s =>
                  \A states \in {Open, {"completed"}, {"suppressed"}} :
                     Carries(x, states)' <=> Carries(x, states)
        PROVE  Ledger!Enter(s)
    <2>1. Hit[s] = "unseen"
      BY <1>2, UncarriedIsUnseen DEF BusInv, WakeInv, Emitting
    <2>2. Hit'[s] \in {"owed", "hushed"}
      BY <1>2, HitOfCarrierNext DEF BusInv, FateOf, Open, Pending
    <2>3. \A x \in Signal : x # s => Hit'[x] = Hit[x]
      BY <1>2, SameFate
    <2>4. Hit' = [Hit EXCEPT ![s] = Hit'[s]]
      BY <2>3, HitIsFunction
    <2> QED
      BY <2>1, <2>2, <2>4 DEF Ledger!Enter
  <1>3. CASE EmitMerges(s)
    <2> DEFINE i == emission[s].latest
    <2>1. /\ i \in DOMAIN wake /\ IsPending(i) /\ DOMAIN wake' = DOMAIN wake
          /\ wake'[i].signals = wake[i].signals \cup {s}
          /\ \A k \in DOMAIN wake : wake'[k].state = wake[k].state
          /\ \A k \in DOMAIN wake : k # i => wake'[k] = wake[k]
      BY <1>3, MergeKeeps DEF BusInv
    <2> HIDE DEF i
    <2>2. ASSUME NEW x \in Signal, x # s, NEW states
          PROVE  Carries(x, states)' <=> Carries(x, states)
      BY <2>1, <2>2 DEF Carries
    <2>3. wake'[i].state \in Open /\ emission[s].pc # "idle"
      BY <1>3, <2>1 DEF IsPending, Open, EmitMerges
    <2> QED
      BY <1>2, <2>1, <2>2, <2>3
  <1>4. ASSUME NEW i \in {HitId(s), HushId(s)}, NEW state \in {"new", "suppressed"},
               emission[s].pc # "idle", Creates(s, i, state)
        PROVE  Ledger!Enter(s)
    <2>1. /\ i \notin DOMAIN wake /\ DOMAIN wake' = DOMAIN wake \cup {i}
          /\ wake'[i] = NewWake(state, {s})
          /\ \A k \in DOMAIN wake : wake'[k] = wake[k]
      BY <1>4, CreateKeeps DEF BusInv
    <2>2. wake'[i].signals = {s} /\ wake'[i].state = state
      BY <2>1 DEF NewWake
    <2>3. ASSUME NEW x \in Signal, x # s, NEW states
          PROVE  Carries(x, states)' <=> Carries(x, states)
      BY <2>1, <2>2, <2>3 DEF Carries
    <2> QED
      BY <1>2, <1>4, <2>1, <2>2, <2>3 DEF Open, Pending
  <1> QED
    BY <1>1, <1>3, <1>4 DEF Emit, EmitCreates, EmitHushes

\* A bundle takes over what its members owe.
LEMMA PickMoves ==
    ASSUME BusInv, BusInv', NEW i \in DOMAIN wake, Pick(i)
    PROVE  UNCHANGED Hit
  <1>1. CASE UNCHANGED wake
    BY <1>1, HitIsFunction
  <1>2. CASE \E M \in BundleMembers(i) : wake' = Bundled(M) /\ emission' = Outdate(M)
    <2>1. PICK M \in BundleMembers(i) : wake' = Bundled(M) /\ emission' = Outdate(M)
      BY <1>2
    <2> DEFINE b == BundleId(M)
    <2>2. /\ b \notin DOMAIN wake /\ DOMAIN wake' = DOMAIN wake \cup {b}
          /\ wake'[b] = NewWake("new", EvidenceOf(M))
          /\ \A k \in DOMAIN wake : k \notin M => wake'[k] = wake[k]
          /\ \A k \in M : k \in DOMAIN wake /\ IsPending(k)
          /\ \A k \in M : wake'[k] = [wake[k] EXCEPT !.state = "merged"]
      BY <2>1, BundleKeeps DEF BusInv
    <2>3. wake'[b].signals = EvidenceOf(M) /\ wake'[b].state = "new"
      BY <2>2 DEF NewWake
    <2> HIDE DEF b
    <2>4. ASSUME NEW s \in EvidenceOf(M)
          PROVE  Hit'[s] = Hit[s]
      <3>1. PICK j \in M : s \in wake[j].signals
        BY DEF EvidenceOf
      <3>2. s \in Signal /\ j \in DOMAIN wake /\ wake[j].state \in Pending
        BY <2>2, <3>1 DEF IsPending, BusInv, WakeInv, WakeTyped, Wake
      <3>3. Hit[s] = "owed"
        BY <3>1, <3>2, HitOfCarrier DEF BusInv, FateOf, Open, Pending
      <3>4. Hit'[s] = "owed"
        BY <2>2, <2>3, <3>2, HitOfCarrierNext DEF BusInv, FateOf, Open, Pending
      <3> QED
        BY <3>3, <3>4
    <2>5. ASSUME NEW s \in Signal, s \notin EvidenceOf(M)
          PROVE  Hit'[s] = Hit[s]
      <3>1. \A k \in DOMAIN wake : s \in wake[k].signals => k \notin M /\ wake'[k] = wake[k]
        BY <2>2, <2>5 DEF EvidenceOf
      <3>2. ASSUME NEW k \in M
            PROVE  s \notin wake'[k].signals
        <4>1. k \in DOMAIN wake /\ wake[k] \in Wake
          BY <2>2 DEF BusInv, WakeInv, WakeTyped
        <4>2. wake'[k].signals = wake[k].signals
          BY <2>2, <4>1 DEF Wake
        <4> QED
          BY <2>5, <4>2 DEF EvidenceOf
      <3>3. \A k \in DOMAIN wake' : s \in wake'[k].signals => k \in DOMAIN wake /\ wake'[k] = wake[k]
        BY <2>2, <2>3, <2>5, <3>2
      <3>4. \A states : Carries(s, states)' <=> Carries(s, states)
        BY <2>2, <3>1, <3>3 DEF Carries
      <3> QED
        BY <3>4, SameFate
    <2> QED
      BY <2>4, <2>5, HitIsFunction
  <1> QED
    BY <1>1, <1>2 DEF Pick

\* What the loop writes into an open wake settles all it carries, or nothing.
LEMMA WriteSettles ==
    ASSUME BusInv, BusInv', NEW i \in DOMAIN wake, NEW w \in Wake, Write(i, w),
           wake[i].state \in Open, w.signals = wake[i].signals, w.state # "merged"
    PROVE  Ledger!Settle(wake[i].signals) \/ UNCHANGED Hit
  <1>1. /\ DOMAIN wake' = DOMAIN wake /\ wake'[i] = w
        /\ \A k \in DOMAIN wake : k # i => wake'[k] = wake[k]
    BY WriteKeeps DEF BusInv
  <1>2. wake[i].signals \in (SUBSET Signal) \ {{}}
    BY DEF BusInv, WakeInv, WakeTyped, Wake
  <1>3. \A s \in wake[i].signals : Hit[s] = "owed" /\ Hit'[s] = FateOf(w.state)
    BY <1>1, <1>2, HitOfCarrier, HitOfCarrierNext DEF BusInv, FateOf, Open, Pending
  <1>4. ASSUME NEW s \in Signal, s \notin wake[i].signals
        PROVE  Hit'[s] = Hit[s]
    <2>1. \A states : Carries(s, states)' <=> Carries(s, states)
      BY <1>1, <1>4 DEF Carries
    <2> QED
      BY <2>1, SameFate
  <1>5. CASE FateOf(w.state) = "owed"
    BY <1>2, <1>3, <1>4, <1>5, HitIsFunction
  <1>6. CASE FateOf(w.state) # "owed"
    <2>1. FateOf(w.state) \in {"handled", "hushed"}
      BY <1>6 DEF FateOf
    <2>2. Hit' = [s \in Signal |-> IF s \in wake[i].signals THEN FateOf(w.state) ELSE Hit[s]]
      BY <1>3, <1>4, HitIsFunction
    <2> QED
      BY <1>2, <1>3, <2>1, <2>2 DEF Ledger!Settle
  <1> QED
    BY <1>5, <1>6

LEMMA LoopSettles ==
    ASSUME BusInv, BusInv',
           Gate \/ FinishRun \/ (\E i \in DOMAIN wake : ReviewConsumes(i))
    PROVE  (\E S \in SUBSET Signal : Ledger!Settle(S)) \/ UNCHANGED Hit
  <1>1. ASSUME NEW i \in DOMAIN wake, NEW w, Write(i, w), wake[i].state \in Open,
               \/ \E st \in WakeState \ {"merged"} : w = [wake[i] EXCEPT !.state = st]
               \/ \E how \in {"run", "review"} :
                     w = [wake[i] EXCEPT !.state = "completed", !.ended = how]
               \/ w = [wake[i] EXCEPT !.state = "queued", !.incomplete = TRUE]
        PROVE  (\E S \in SUBSET Signal : Ledger!Settle(S)) \/ UNCHANGED Hit
    <2>1. wake[i] \in Wake
      BY DEF BusInv, WakeInv, WakeTyped
    <2>2. w \in Wake /\ w.signals = wake[i].signals /\ w.state # "merged"
      BY <1>1, <2>1 DEF Wake, WakeState, Open, Pending
    <2>3. wake[i].signals \in SUBSET Signal
      BY <2>1 DEF Wake
    <2> QED
      BY <1>1, <2>2, <2>3, WriteSettles
  <1>2. CASE UNCHANGED wake
    BY <1>2, HitIsFunction
  <1>3. ASSUME NEW i \in DOMAIN wake, NEW how \in {"run", "review"}, Complete(i, how)
        PROVE  (\E S \in SUBSET Signal : Ledger!Settle(S)) \/ UNCHANGED Hit
    BY <1>1, <1>2, <1>3 DEF Complete
  <1>4. CASE Gate
    <2> DEFINE i == loop.id
    <2>1. i \in DOMAIN wake
      BY <1>4 DEF Gate, BusInv, LoopTie
    <2>2. CASE RecoverDelivery(i)
      BY <1>2, <1>3, <2>1, <2>2 DEF RecoverDelivery
    <2>3. CASE Claim(i)
      <3>1. "running" \in WakeState \ {"merged"}
        BY DEF WakeState, Open
      <3> QED
        BY <1>1, <2>1, <2>3, <3>1 DEF Claim
    <2>4. CASE Defer(i)
      <3>1. "queued" \in WakeState \ {"merged"} /\ "new" \in Open
        BY DEF WakeState, Open, Pending
      <3> QED
        BY <1>1, <1>2, <2>1, <2>4, <3>1 DEF Defer
    <2>5. CASE Suppress(i)
      <3>1. "suppressed" \in WakeState \ {"merged"}
        BY DEF WakeState
      <3> QED
        BY <1>1, <2>1, <2>5, <3>1 DEF Suppress
    <2> QED
      BY <1>4, <2>2, <2>3, <2>4, <2>5 DEF Gate, GateOf
  <1>5. CASE FinishRun
    <2> DEFINE i == loop.id
    <2>1. i \in DOMAIN wake /\ wake[i].state \in Open
      BY <1>5 DEF FinishRun, BusInv, LoopTie, Open
    <2> QED
      BY <1>1, <1>2, <1>3, <1>5, <2>1 DEF FinishRun, Requeue
  <1>6. ASSUME NEW i \in DOMAIN wake, ReviewConsumes(i)
        PROVE  (\E S \in SUBSET Signal : Ledger!Settle(S)) \/ UNCHANGED Hit
    BY <1>2, <1>3, <1>6 DEF ReviewConsumes
  <1> QED
    BY <1>4, <1>5, <1>6

\* Whatever emits, merges, bundles, crashes and reviews do: an accepted hit is never lost, is
\* handled once, and a settled hit does not come back.
THEOREM BusImplementsLedger == BusSpec => HitsSettledOnce
  <1>1. BusInit => Ledger!HInit
    BY DEF BusInit, Ledger!HInit, Hit, Carries
  <1>2. BusInv /\ BusInv' /\ [BusNext]_busVars => [Ledger!HNext]_Hit
    <2> SUFFICES ASSUME BusInv, BusInv', [BusNext]_busVars
                 PROVE  Ledger!HNext \/ UNCHANGED Hit
      OBVIOUS
    <2>1. CASE UNCHANGED wake
      BY <2>1, HitIsFunction
    <2>2. ASSUME NEW s \in Signal, Emit(s) PROVE Ledger!HNext \/ UNCHANGED Hit
      BY <2>2, EmitEnters DEF Ledger!HNext
    <2>3. ASSUME NEW i \in DOMAIN wake, Pick(i) PROVE UNCHANGED Hit
      BY <2>3, PickMoves
    <2>4. ASSUME Gate \/ FinishRun \/ (\E i \in DOMAIN wake : ReviewConsumes(i))
          PROVE  Ledger!HNext \/ UNCHANGED Hit
      BY <2>4, LoopSettles DEF Ledger!HNext
    <2> QED
      BY <2>1, <2>2, <2>3, <2>4 DEF BusNext, busVars, Deliver, ReviewBegins, LoopLeaves
  <1> QED
    BY <1>1, <1>2, BusInvariant, PTL DEF BusSpec, HitsSettledOnce, Ledger!HSpec
=============================================================================
