-------------------------- MODULE ProviderContract --------------------------
(***************************************************************************)
(* What the attempt ledger promises about paid calls to a model provider:  *)
(* an attempt sends one request, has at most one authentic reply, which is *)
(* never replaced, and is billed once, as is every provider request.       *)
(***************************************************************************)
CONSTANTS Attempt, Request, Directive, None

VARIABLES sent, reply, billed

cvars == <<sent, reply, billed>>

\* Requests sent by an earlier release are already on record.
CInit ==
    /\ sent \in [Attempt -> Request \cup {None}]
    /\ reply = [a \in Attempt |-> None]
    /\ billed = {}

Send(a, q) ==
    /\ sent[a] = None
    /\ sent' = [sent EXCEPT ![a] = q]
    /\ UNCHANGED <<reply, billed>>

Prove(a, d) ==
    /\ sent[a] # None
    /\ reply[a] = None
    /\ reply' = [reply EXCEPT ![a] = d]
    /\ UNCHANGED <<sent, billed>>

Bill(row) ==
    /\ sent[row.attempt] # None
    /\ \A r \in billed :
          /\ r.attempt # row.attempt
          /\ r.req = row.req => row.req = None
    /\ billed' = billed \cup {row}
    /\ UNCHANGED <<sent, reply>>

CNext ==
    \/ \E a \in Attempt, q \in Request : Send(a, q)
    \/ \E a \in Attempt, d \in Directive : Prove(a, d)
    \/ \E row \in billed' : Bill(row)

CSpec == CInit /\ [][CNext]_cvars
=============================================================================
