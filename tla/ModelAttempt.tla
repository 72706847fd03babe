---------------------------- MODULE ModelAttempt ----------------------------
(***************************************************************************)
(* The durable model-attempt ledger of runtime/background_attempt.py and   *)
(* the metering ledger of runtime/metering.py that closes its rows.        *)
(*                                                                         *)
(* Every operation of the two stores is one BEGIN IMMEDIATE transaction of *)
(* the shared SQLite file, so each is one action here; an operation that   *)
(* raises without writing is a disabled action, and one that writes before *)
(* raising (a dispatching row driven to in_doubt) is an action.            *)
(* AttachLateTrustedReturn commits before it calls StageExactResponse, so  *)
(* the two are separate actions with a crash window between them.          *)
(***************************************************************************)
EXTENDS Naturals

CONSTANTS
    Work,        \* work identities: user turns, wakes and reviews
    MaxRound,    \* bound: the last model round of a work item
    Request,     \* fingerprints of outbound requests
    Directive,   \* exact reply bytes a provider, a caller or a signer may supply
    Identity,    \* Directive -> its provider request id, None when it has no full identity
    Usage,       \* Directive -> the token usage it reports
    None         \* no row, NULL

Round == 0..MaxRound
Attempt == Work \X Round
RequestId == {Identity[d] : d \in Directive} \ {None}

ASSUME ConstantsOK ==
    /\ MaxRound \in Nat
    /\ None \notin Directive \cup Request
    /\ DOMAIN Identity = Directive
    /\ DOMAIN Usage = Directive

VARIABLES
    state,       \* background_model_attempts.state, "absent" when there is no row
    provenance,  \* provider, model, request id and response fingerprint of the row
    request,     \* background_model_request_bindings: the outbound fingerprint
    verifier,    \* background_model_return_verifiers
    receipt,     \* background_model_response_receipts
    handoff,     \* background_model_return_handoffs
    staged,      \* background_model_responses
    meterRows    \* metering_records

\* What happens outside the stores: the calls made to the provider, the replies
\* the external signer has signed, and the directives a runtime has in memory.
VARIABLES submissions, signed, held

rowVars   == <<state, provenance, request, verifier>>
trustVars == <<receipt, handoff, staged>>
envVars   == <<submissions, signed, held>>
vars      == <<rowVars, trustVars, meterRows, envVars>>

Stagable == {"dispatching", "in_doubt", "response_returned", "metered"}
Returned == {"response_returned", "metered"}
AttemptState == Stagable \cup {"absent", "admitted", "not_submitted"}

MeterRow == [attempt : Attempt, req : RequestId \cup {None}, usage : {Usage[d] : d \in Directive}]

TypeOK ==
    /\ state \in [Attempt -> AttemptState]
    /\ provenance \in [Attempt -> Directive \cup {None}]
    /\ request \in [Attempt -> Request \cup {None}]
    /\ verifier \in [Attempt -> {"absent", "bound", "consumed"}]
    /\ receipt \in [Attempt -> Directive \cup {None}]
    /\ handoff \in [Attempt -> Directive \cup {None}]
    /\ staged \in [Attempt -> Directive \cup {None}]
    /\ meterRows \subseteq MeterRow
    /\ submissions \in [Attempt -> Nat]
    /\ signed \subseteq Attempt \X Directive
    /\ held \subseteq Attempt \X Directive

-----------------------------------------------------------------------------
(* A database may hold rows an earlier release wrote: attempts that returned *)
(* to not_submitted, or were re-admitted, after a request had been bound.    *)

LegacyRow == {"absent", "not_submitted", "admitted"}

Init ==
    \E legacy \in [Attempt -> LegacyRow] :
        /\ state = legacy
        /\ \E q \in Request :
              request = [a \in Attempt |-> IF legacy[a] = "absent" THEN None ELSE q]
        /\ verifier = [a \in Attempt |-> "absent"]
        /\ submissions = [a \in Attempt |-> IF legacy[a] = "absent" THEN 0 ELSE 1]
        /\ provenance = [a \in Attempt |-> None]
        /\ receipt = [a \in Attempt |-> None]
        /\ handoff = [a \in Attempt |-> None]
        /\ staged = [a \in Attempt |-> None]
        /\ meterRows = {}
        /\ signed = {}
        /\ held = {}

\* Mistaken variant: only a returned reply counts as proof of submission.
ArtifactsWithoutBinding(a) == receipt[a] # None

\* A durable fact that makes "not submitted" mechanically false.
SubmissionArtifacts(a) ==
    \/ request[a] # None
    \/ verifier[a] # "absent"
    \/ receipt[a] # None

\* Mistaken variant: the failure kind is written where the state belongs.
RouteToFailureKind(a) ==
    state' = [state EXCEPT ![a] = IF @ = "dispatching" THEN "restart_after_dispatch" ELSE @]

RouteToInDoubt(a) ==
    state' = [state EXCEPT ![a] = IF @ = "dispatching" THEN "in_doubt" ELSE @]

-----------------------------------------------------------------------------
(* Admission and the provider boundary.                                    *)

\* Mistaken variant: a retry is admitted on the state alone.
CanAdmitOnState(a) == state[a] \in {"absent", "admitted", "not_submitted"}

CanAdmit(a) ==
    \/ state[a] \in {"absent", "admitted"}
    \/ state[a] = "not_submitted" /\ ~SubmissionArtifacts(a)

AdmitGranted(a) ==
    /\ CanAdmit(a)
    /\ state' = [state EXCEPT ![a] = "admitted"]
    /\ UNCHANGED <<provenance, request, verifier, trustVars, meterRows, envVars>>

\* A second admission of a row that already crossed the boundary: the row found
\* dispatching is driven to in_doubt, and the caller is refused in every case.
AdmitRefused(a) ==
    /\ ~CanAdmit(a)
    /\ RouteToInDoubt(a)
    /\ UNCHANGED <<provenance, request, verifier, trustVars, meterRows, envVars>>

\* Mistaken variant: the boundary is crossed on the state alone.
CanDispatchOnState(a) == state[a] = "admitted"

CanDispatch(a) ==
    /\ state[a] = "admitted"
    /\ ~SubmissionArtifacts(a)

\* The caller invokes the provider as soon as this transaction has committed.
MarkDispatching(a, q, withVerifier) ==
    /\ CanDispatch(a)
    /\ state' = [state EXCEPT ![a] = "dispatching"]
    /\ request' = [request EXCEPT ![a] = q]
    /\ verifier' = [verifier EXCEPT ![a] = IF withVerifier THEN "bound" ELSE @]
    /\ submissions' = [submissions EXCEPT ![a] = @ + 1]
    /\ UNCHANGED <<provenance, trustVars, meterRows, signed, held>>

AdoptLegacyInDoubt(a) ==
    /\ state[a] = "absent"
    /\ state' = [state EXCEPT ![a] = "in_doubt"]
    /\ UNCHANGED <<provenance, request, verifier, trustVars, meterRows, envVars>>

\* A non-submission claim is believed only before any durable dispatch fact.
ClaimNotSubmitted(a) ==
    IF CanDispatch(a)
    THEN state' = [state EXCEPT ![a] = "not_submitted"]
    ELSE RouteToInDoubt(a)

MarkFailure(a, definitelyNotSubmitted) ==
    /\ state[a] # "absent"
    /\ IF definitelyNotSubmitted
       THEN ClaimNotSubmitted(a)
       ELSE state' = [state EXCEPT ![a] =
                        IF @ \in {"admitted", "dispatching"} THEN "in_doubt" ELSE @]
    /\ UNCHANGED <<provenance, request, verifier, trustVars, meterRows, envVars>>

ReconcileNotSubmitted(a) ==
    /\ state[a] # "absent"
    /\ ClaimNotSubmitted(a)
    /\ UNCHANGED <<provenance, request, verifier, trustVars, meterRows, envVars>>

-----------------------------------------------------------------------------
(* Live responses, which are never trusted, and external trusted returns.  *)

TrustedRows(a) == {receipt[a], handoff[a], staged[a]} # {None}

CanRecord(a, d) ==
    /\ ~TrustedRows(a)
    /\ Identity[d] # None => request[a] # None
    /\ \/ state[a] = "dispatching"
       \/ state[a] \in Returned /\ provenance[a] = d

\* A live completion. It closes a dispatching row or replays an identical one.
RecordResponse(a, d) ==
    /\ CanRecord(a, d)
    /\ state' = [state EXCEPT ![a] = IF @ = "dispatching" THEN "response_returned" ELSE @]
    /\ provenance' = [provenance EXCEPT ![a] = d]
    /\ held' = held \cup {<<a, d>>}
    /\ UNCHANGED <<request, verifier, trustVars, meterRows, submissions, signed>>

\* The owner of the verifier's private key signs a reply for the scope it was
\* handed at dispatch; nothing in the ledger restricts which reply.
SignLateReturn(a, d) ==
    /\ verifier[a] # "absent"
    /\ Identity[d] # None
    /\ signed' = signed \cup {<<a, d>>}
    /\ UNCHANGED <<rowVars, trustVars, meterRows, submissions, held>>

\* The return is signed for this row, and a row already attached holds this very reply.
MayAttach(a, d) ==
    /\ state[a] \in Stagable
    /\ request[a] # None
    /\ verifier[a] # "absent"
    /\ <<a, d>> \in signed
    /\ verifier[a] = "consumed" => receipt[a] # None /\ handoff[a] # None
    /\ receipt[a] \in {None, d}
    /\ handoff[a] \in {None, d}

\* Mistaken variants: the last valid signature wins; the handoff row is left to
\* the staging transaction.
AttachReplacing(a, d) ==
    /\ state[a] \in Stagable
    /\ request[a] # None
    /\ verifier[a] # "absent"
    /\ <<a, d>> \in signed
    /\ receipt' = [receipt EXCEPT ![a] = d]
    /\ handoff' = [handoff EXCEPT ![a] = d]
    /\ verifier' = [verifier EXCEPT ![a] = "consumed"]
    /\ UNCHANGED <<state, provenance, request, staged, meterRows, envVars>>

AttachWithoutHandoff(a, d) ==
    /\ state[a] \in Stagable
    /\ request[a] # None
    /\ verifier[a] # "absent"
    /\ <<a, d>> \in signed
    /\ receipt[a] \in {None, d}
    /\ receipt' = [receipt EXCEPT ![a] = d]
    /\ verifier' = [verifier EXCEPT ![a] = "consumed"]
    /\ UNCHANGED <<state, provenance, request, handoff, staged, meterRows, envVars>>

\* First transaction of attach_late_trusted_return.
AttachLateTrustedReturn(a, d) ==
    /\ MayAttach(a, d)
    /\ receipt' = [receipt EXCEPT ![a] = d]
    /\ handoff' = [handoff EXCEPT ![a] = d]
    /\ verifier' = [verifier EXCEPT ![a] = "consumed"]
    /\ UNCHANGED <<state, provenance, request, staged, meterRows, envVars>>

\* The exact bytes are those of the verified receipt; what is staged is never replaced.
MayStage(a, d) ==
    /\ state[a] \in Stagable
    /\ request[a] # None
    /\ receipt[a] = d
    /\ staged[a] \in {None, d}

\* Mistaken variant: the provenance of a live completion is left in place.
StageKeepingProvenance(a, d) ==
    /\ MayStage(a, d)
    /\ staged' = [staged EXCEPT ![a] = d]
    /\ provenance' = [provenance EXCEPT ![a] = IF state[a] \in Returned THEN @ ELSE d]
    /\ state' = [state EXCEPT ![a] =
                    IF @ \in {"dispatching", "in_doubt"} THEN "response_returned" ELSE @]
    /\ UNCHANGED <<request, verifier, receipt, handoff, meterRows, envVars>>

\* Its second transaction, also reached from the recovery entry points. A verified
\* reply replaces provenance that only a live completion had written.
StageExactResponse(a, d) ==
    /\ MayStage(a, d)
    /\ staged' = [staged EXCEPT ![a] = d]
    /\ provenance' = [provenance EXCEPT ![a] = d]
    /\ state' = [state EXCEPT ![a] =
                    IF @ \in {"dispatching", "in_doubt"} THEN "response_returned" ELSE @]
    /\ UNCHANGED <<request, verifier, receipt, handoff, meterRows, envVars>>

Rows(w) == {r \in Round : state[<<w, r>>] # "absent"}
IsLatest(w, r) == r \in Rows(w) /\ \A s \in Rows(w) : s <= r
EarlierMetered(w, r) == \A s \in Rows(w) : s < r => state[<<w, s>>] = "metered"

\* Recovery promotes the handoff of the latest round only.
RecoverTrustedHandoff(w, r) ==
    /\ IsLatest(w, r)
    /\ EarlierMetered(w, r)
    /\ handoff[<<w, r>>] # None
    /\ staged[<<w, r>>] = None
    /\ StageExactResponse(<<w, r>>, handoff[<<w, r>>])

\* What recover_trusted_handoff or pending_exact_response hands to the runtime.
PendingExactResponse(w, r) ==
    /\ IsLatest(w, r)
    /\ EarlierMetered(w, r)
    /\ state[<<w, r>>] \in Stagable
    /\ staged[<<w, r>>] # None

\* The checks exact_response_directive repeats before the bytes are applied.
ExactResponseVerified(a) ==
    /\ staged[a] # None
    /\ state[a] \in Returned
    /\ provenance[a] = staged[a]
    /\ request[a] # None
    /\ receipt[a] = staged[a]

ExactResponseDirective(a) ==
    /\ ExactResponseVerified(a)
    /\ held' = held \cup {<<a, staged[a]>>}
    /\ UNCHANGED <<rowVars, trustVars, meterRows, submissions, signed>>

-----------------------------------------------------------------------------
(* Metering.                                                               *)

MeterRecord(a, d) == [attempt |-> a, req |-> Identity[d], usage |-> Usage[d]]

\* _record_id: the provider request when the reply names one, else the attempt.
RecordId(row) ==
    IF row.req = None THEN <<"attempt", row.attempt>> ELSE <<"request", row.req>>

\* Mistaken variant: no unique index on the attempt.
AfterInsertByRecordId(row) ==
    IF \E r \in meterRows : RecordId(r) = RecordId(row)
    THEN meterRows
    ELSE meterRows \cup {row}

\* INSERT OR IGNORE under the unique record id and the unique attempt index.
AfterInsert(row) ==
    IF \E r \in meterRows : RecordId(r) = RecordId(row) \/ r.attempt = row.attempt
    THEN meterRows
    ELSE meterRows \cup {row}

\* The row read back must be this very record, otherwise the call is rolled back.
MeterAccepts(a, d) == MeterRecord(a, d) \in AfterInsert(MeterRecord(a, d))

RecordModelCall(a, d) ==
    /\ <<a, d>> \in held
    /\ state[a] \in Returned
    /\ MeterAccepts(a, d)
    /\ meterRows' = AfterInsert(MeterRecord(a, d))
    /\ state' = [state EXCEPT ![a] = "metered"]
    /\ UNCHANGED <<provenance, request, verifier, trustVars, envVars>>

-----------------------------------------------------------------------------
AttemptNext(a) ==
    \/ AdmitGranted(a)
    \/ AdmitRefused(a)
    \/ \E q \in Request, v \in BOOLEAN : MarkDispatching(a, q, v)
    \/ AdoptLegacyInDoubt(a)
    \/ \E b \in BOOLEAN : MarkFailure(a, b)
    \/ ReconcileNotSubmitted(a)
    \/ ExactResponseDirective(a)
    \/ \E d \in Directive :
          \/ RecordResponse(a, d)
          \/ SignLateReturn(a, d)
          \/ AttachLateTrustedReturn(a, d)
          \/ StageExactResponse(a, d)
          \/ RecordModelCall(a, d)

Next ==
    \/ \E a \in Attempt : AttemptNext(a)
    \/ \E w \in Work, r \in Round : RecoverTrustedHandoff(w, r)

Spec == Init /\ [][Next]_vars

-----------------------------------------------------------------------------
(* Safety.                                                                 *)

\* The provider is called at most once for an attempt, whatever retries, legacy
\* rows, refused failures and late returns do to its row.
AtMostOneSubmission == \A a \in Attempt : submissions[a] <= 1

\* Receipt, handoff and consumed verifier stand or fall together, and a staged reply
\* is the receipted one: no interleaving leaves half of a trusted return.
TrustedReturnWhole ==
    \A a \in Attempt :
        /\ handoff[a] = receipt[a]
        /\ verifier[a] = "consumed" <=> receipt[a] # None
        /\ receipt[a] # None => state[a] \in Stagable /\ <<a, receipt[a]>> \in signed
        /\ staged[a] \in {None, receipt[a]}

\* Once the exact reply is staged, what recovery re-verifies never fails: the row
\* keeps a returned state and exactly that reply as its provenance.
StagedReplyStaysRecoverable ==
    \A a \in Attempt : staged[a] # None => ExactResponseVerified(a)

\* One meter row per closed attempt and one per provider request: a replay or a
\* duplicated reply is never billed twice, and no metered attempt lacks its row.
MeteredExactlyOnce ==
    /\ \A a \in Attempt : state[a] = "metered" <=> \E r \in meterRows : r.attempt = a
    /\ \A r, s \in meterRows :
          r.attempt = s.attempt \/ (r.req = s.req /\ r.req # None) => r = s

\* Non-submission is concluded only for an attempt whose request never left, and an
\* attempt whose request left is never re-admitted.
NonSubmissionIsProven ==
    [][\A a \in Attempt :
          state'[a] # state[a] /\ state'[a] \in {"not_submitted", "admitted"}
              => submissions[a] = 0]_vars

\* First writer wins: a bound request and a trusted return are never replaced, and
\* provenance does not move once it is externally proven.
FirstWriterWins ==
    [][\A a \in Attempt :
          /\ request[a] # None => request'[a] = request[a]
          /\ receipt[a] # None => receipt'[a] = receipt[a] /\ handoff'[a] = handoff[a]
          /\ staged[a] # None => staged'[a] = staged[a] /\ provenance'[a] = provenance[a]]_vars

\* The ledger keeps the promise made about provider calls.
Contract == INSTANCE ProviderContract WITH
    sent <- request, reply <- receipt, billed <- meterRows
ContractHolds == Contract!CSpec

\* A genuine trusted return can always be carried to its end: the reply staged for
\* an attempt is one the metering ledger accepts for it.
GenuineReturnNotPoisoned ==
    \A a \in Attempt : staged[a] # None => MeterAccepts(a, staged[a])
=============================================================================
