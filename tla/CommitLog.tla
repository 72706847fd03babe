----------------------------- MODULE CommitLog -----------------------------
(* What the world store and its search projection promise: an append-only   *)
(* log of commits, and a reader that is always shown a whole prefix of it.   *)
(* A commit gives every object it names its next revision at the next world  *)
(* revision; nothing in the log ever changes, and the prefix only grows.     *)
EXTENDS Naturals

CONSTANTS Object, Writer   \* what commits: requests and maintenance

VARIABLES head, latest, log, mark, shown

cvars == <<head, latest, log, mark, shown>>

CInit ==
    /\ head = 0 /\ mark = 0
    /\ latest = [o \in Object |-> 0]
    /\ log = {} /\ shown = {}

AppendCommit(names, request) ==
    /\ head' = head + 1
    /\ latest' = [o \in Object |-> IF o \in names THEN latest[o] + 1 ELSE latest[o]]
    /\ log' = log \cup {<<o, latest[o] + 1, head + 1, request>> : o \in names}
    /\ UNCHANGED <<mark, shown>>

ShowPrefix(w) ==
    /\ mark < w
    /\ mark' = w
    /\ shown' = {<<row[1], row[2]>> : row \in {r \in log : r[3] <= w}}
    /\ UNCHANGED <<head, latest, log>>

CNext ==
    \/ \E names \in (SUBSET Object) \ {{}}, request \in Writer : AppendCommit(names, request)
    \/ \E w \in 1..head : ShowPrefix(w)

CSpec == CInit /\ [][CNext]_cvars
=============================================================================
