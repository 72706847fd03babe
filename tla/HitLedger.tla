----------------------------- MODULE HitLedger -----------------------------
(***************************************************************************)
(* What the wake bus promises about a trigger hit: once accepted it is owed *)
(* a run of the resident, until it is handled, once, or hushed, for good.  *)
(***************************************************************************)
CONSTANT Signal   \* registered trigger hits

VARIABLE hit      \* what has become of each hit

HInit == hit = [s \in Signal |-> "unseen"]

Enter(s) ==
    /\ hit[s] = "unseen"
    /\ \E fate \in {"owed", "hushed"} : hit' = [hit EXCEPT ![s] = fate]

\* One wake may carry several hits, and settles all of them together.
Settle(S) ==
    /\ S # {}
    /\ \A s \in S : hit[s] = "owed"
    /\ \E fate \in {"handled", "hushed"} :
          hit' = [s \in Signal |-> IF s \in S THEN fate ELSE hit[s]]

HNext == (\E s \in Signal : Enter(s)) \/ (\E S \in SUBSET Signal : Settle(S))

HSpec == HInit /\ [][HNext]_hit
=============================================================================
