---------------------------- MODULE MCWorldStore ----------------------------
(* Claims a and b, and the dependencies d and e between their first         *)
(* revisions, in opposite directions. begin and begin2 share a key with     *)
(* different content; revise and early share an operation id, and early     *)
(* cites b before b was learned.                                            *)
EXTENDS WorldStore, TLC

CONSTANTS a, b, d, e, c1, c2, begin, begin2, link, back, revise, early

MCObject == {a, b, d, e}
MCIntent == {begin, begin2, link, back, revise, early}
MCClient == {c1, c2}
MCPrunable == {a}

Plain(refs, t) == [refs |-> refs, learned |-> t, cutoff |-> t, edge |-> None]
Edge(x, y) == [refs |-> {<<x, 1>>, <<y, 1>>}, learned |-> 2, cutoff |-> 2,
               edge |-> <<<<x, 1>>, <<y, 1>>>>]

MCWrites ==
    begin :> (a :> Plain({}, 1) @@ b :> Plain({<<a, Floating>>}, 2)) @@ begin2 :> (a :> Plain({}, 2))
    @@ link :> (d :> Edge(a, b)) @@ back :> (e :> Edge(b, a))
    @@ revise :> (a :> Plain({<<b, 1>>}, 2)) @@ early :> (a :> Plain({<<b, Floating>>}, 1))
MCKeyOf == [i \in MCIntent |-> IF i = begin2 THEN begin ELSE i]
MCOpOf == [i \in MCIntent |-> IF i = early THEN revise ELSE MCKeyOf[i]]
MCSymmetry == Permutations(MCClient)
MCFresh == {begin, begin2, link, back}
=============================================================================
