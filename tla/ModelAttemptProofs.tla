------------------------- MODULE ModelAttemptProofs -------------------------
(* Theorems about the attempt ledger, for every set of works, replies and   *)
(* requests. Ledger is the inductive invariant: the ties between the rows   *)
(* of the six tables that each transaction must re-establish.               *)
EXTENDS ModelAttempt, TLAPS

Crossed == {"dispatching", "response_returned", "metered"}

\* A request is bound exactly when it was sent, and a state that claims the
\* boundary was crossed has its binding.
BindingTie ==
    \A a \in Attempt :
        /\ submissions[a] = IF request[a] = None THEN 0 ELSE 1
        /\ state[a] \in Crossed => request[a] # None
        /\ state[a] = "absent" => request[a] = None

\* A trusted return is whole, signed, and only exists for a bound request.
TrustTie ==
    \A a \in Attempt :
        /\ handoff[a] = receipt[a]
        /\ verifier[a] = "consumed" <=> receipt[a] # None
        /\ verifier[a] # "absent" => request[a] # None /\ state[a] \in Stagable
        /\ receipt[a] # None => <<a, receipt[a]>> \in signed

StageTie ==
    \A a \in Attempt :
        staged[a] # None =>
            /\ state[a] \in Returned
            /\ staged[a] = receipt[a]
            /\ provenance[a] = receipt[a]

MeterTie ==
    /\ \A a \in Attempt : state[a] = "metered" <=> \E r \in meterRows : r.attempt = a
    /\ \A r, s \in meterRows :
          r.attempt = s.attempt \/ (r.req = s.req /\ r.req # None) => r = s

Ledger == TypeOK /\ BindingTie /\ TrustTie /\ StageTie /\ MeterTie

-----------------------------------------------------------------------------
LEMMA LedgerInit == Init => Ledger
  BY ConstantsOK DEF Init, LegacyRow, Ledger, TypeOK, BindingTie, TrustTie, StageTie, MeterTie,
     AttemptState, Stagable, Returned, Crossed

\* The row written by a metering call, and what the insert leaves in the table.
LEMMA MeterRecordType ==
    ASSUME NEW a \in Attempt, NEW d \in Directive
    PROVE  /\ MeterRecord(a, d) \in MeterRow
           /\ MeterRecord(a, d).attempt = a
  BY ConstantsOK DEF MeterRecord, MeterRow, RequestId

LEMMA SameRecordId ==
    ASSUME NEW r \in MeterRow, NEW s \in MeterRow
    PROVE  RecordId(r) = RecordId(s) <=>
              \/ r.req # None /\ s.req # None /\ r.req = s.req
              \/ r.req = None /\ s.req = None /\ r.attempt = s.attempt
  BY DEF RecordId, MeterRow

LEMMA InsertKeepsUnique ==
    ASSUME Ledger, NEW a \in Attempt, NEW d \in Directive, MeterAccepts(a, d)
    PROVE  LET rows == AfterInsert(MeterRecord(a, d)) IN
           /\ rows \subseteq MeterRow
           /\ meterRows \subseteq rows
           /\ \A b \in Attempt : (\E r \in rows : r.attempt = b) <=>
                                     (b = a \/ \E r \in meterRows : r.attempt = b)
           /\ \A r, s \in rows :
                 r.attempt = s.attempt \/ (r.req = s.req /\ r.req # None) => r = s
  <1> DEFINE row == MeterRecord(a, d)
             rows == AfterInsert(row)
  <1>1. row \in MeterRow /\ row.attempt = a
    BY MeterRecordType
  <1>2. meterRows \subseteq MeterRow
    BY DEF Ledger, TypeOK
  <1>3. CASE \E r \in meterRows : RecordId(r) = RecordId(row) \/ r.attempt = row.attempt
    <2>1. rows = meterRows
      BY <1>3 DEF AfterInsert
    <2>2. row \in meterRows
      BY <2>1 DEF MeterAccepts
    <2> QED
      BY <2>1, <2>2, <1>1, <1>2 DEF Ledger, MeterTie
  <1>4. CASE ~ \E r \in meterRows : RecordId(r) = RecordId(row) \/ r.attempt = row.attempt
    <2>1. rows = meterRows \cup {row}
      BY <1>4 DEF AfterInsert
    <2>2. ASSUME NEW r \in meterRows
          PROVE  r.attempt # row.attempt /\ ~(r.req = row.req /\ r.req # None)
      BY <2>2, <1>4, <1>1, <1>2, SameRecordId
    <2>3. \A r, s \in rows :
             r.attempt = s.attempt \/ (r.req = s.req /\ r.req # None) => r = s
      BY <2>1, <2>2 DEF Ledger, MeterTie
    <2> QED
      BY <2>1, <2>3, <1>1, <1>2
  <1> QED
    BY <1>3, <1>4

-----------------------------------------------------------------------------
LEMMA LedgerStep == Ledger /\ [Next]_vars => Ledger'
  <1> SUFFICES ASSUME Ledger, [Next]_vars PROVE Ledger'
    OBVIOUS
  <1> USE ConstantsOK DEF Ledger, TypeOK, BindingTie, TrustTie, StageTie, MeterTie,
        AttemptState, Stagable, Returned, Crossed
  <1>1. ASSUME NEW a \in Attempt, AdmitGranted(a) PROVE Ledger'
    BY <1>1 DEF AdmitGranted, CanAdmit, SubmissionArtifacts, trustVars, envVars
  <1>2. ASSUME NEW a \in Attempt, AdmitRefused(a) PROVE Ledger'
    BY <1>2 DEF AdmitRefused, CanAdmit, RouteToInDoubt, trustVars, envVars
  <1>3. ASSUME NEW a \in Attempt, NEW q \in Request, NEW v \in BOOLEAN,
               MarkDispatching(a, q, v)
        PROVE  Ledger'
    BY <1>3 DEF MarkDispatching, CanDispatch, SubmissionArtifacts, trustVars
  <1>4. ASSUME NEW a \in Attempt, AdoptLegacyInDoubt(a) PROVE Ledger'
    BY <1>4 DEF AdoptLegacyInDoubt, trustVars, envVars
  <1>5. ASSUME NEW a \in Attempt, NEW b \in BOOLEAN, MarkFailure(a, b) PROVE Ledger'
    BY <1>5 DEF MarkFailure, ClaimNotSubmitted, CanDispatch, SubmissionArtifacts,
                RouteToInDoubt, trustVars, envVars
  <1>6. ASSUME NEW a \in Attempt, ReconcileNotSubmitted(a) PROVE Ledger'
    BY <1>6 DEF ReconcileNotSubmitted, ClaimNotSubmitted, CanDispatch, SubmissionArtifacts,
                RouteToInDoubt, trustVars, envVars
  <1>7. ASSUME NEW a \in Attempt, ExactResponseDirective(a) PROVE Ledger'
    BY <1>7 DEF ExactResponseDirective, ExactResponseVerified, rowVars, trustVars
  <1>8. ASSUME NEW a \in Attempt, NEW d \in Directive, RecordResponse(a, d) PROVE Ledger'
    BY <1>8 DEF RecordResponse, CanRecord, TrustedRows, trustVars
  <1>9. ASSUME NEW a \in Attempt, NEW d \in Directive, SignLateReturn(a, d) PROVE Ledger'
    BY <1>9 DEF SignLateReturn, rowVars, trustVars
  <1>10. ASSUME NEW a \in Attempt, NEW d \in Directive, AttachLateTrustedReturn(a, d)
         PROVE  Ledger'
    BY <1>10 DEF AttachLateTrustedReturn, MayAttach, envVars
  <1>11. ASSUME NEW a \in Attempt, NEW d \in Directive, StageExactResponse(a, d) PROVE Ledger'
    BY <1>11 DEF StageExactResponse, MayStage, envVars
  <1>12. ASSUME NEW a \in Attempt, NEW d \in Directive, RecordModelCall(a, d) PROVE Ledger'
    <2>1. MeterAccepts(a, d) /\ meterRows' = AfterInsert(MeterRecord(a, d))
      BY <1>12 DEF RecordModelCall
    <2>2. /\ meterRows' \subseteq MeterRow
          /\ \A b \in Attempt : (\E r \in meterRows' : r.attempt = b) <=>
                                    (b = a \/ \E r \in meterRows : r.attempt = b)
          /\ \A r, s \in meterRows' :
                r.attempt = s.attempt \/ (r.req = s.req /\ r.req # None) => r = s
      BY <2>1, InsertKeepsUnique
    <2>3. \A b \in Attempt : state'[b] = IF b = a THEN "metered" ELSE state[b]
      BY <1>12 DEF RecordModelCall
    <2>4. MeterTie'
      BY <2>2, <2>3
    <2> QED
      BY <1>12, <2>2, <2>4 DEF RecordModelCall, rowVars, trustVars, envVars
  <1>13. ASSUME NEW w \in Work, NEW r \in Round, RecoverTrustedHandoff(w, r) PROVE Ledger'
    <2>1. <<w, r>> \in Attempt
      BY DEF Attempt
    <2>2. handoff[<<w, r>>] \in Directive
      BY <1>13, <2>1 DEF RecoverTrustedHandoff
    <2> QED
      BY <1>13, <1>11, <2>1, <2>2 DEF RecoverTrustedHandoff
  <1>14. CASE UNCHANGED vars
    BY <1>14 DEF vars, rowVars, trustVars, envVars
  <1> HIDE DEF Ledger
  <1> QED
    BY <1>1, <1>2, <1>3, <1>4, <1>5, <1>6, <1>7, <1>8, <1>9, <1>10, <1>11, <1>12, <1>13,
       <1>14 DEF Next, AttemptNext

\* The ledger's rows are well-typed and tied together in every reachable state.
THEOREM LedgerInvariant == Spec => []Ledger
  BY LedgerInit, LedgerStep, PTL DEF Spec
-----------------------------------------------------------------------------
(* The invariants the model-checking runs check follow from Ledger.        *)

\* The rows of the seven tables keep their types.
THEOREM LedgerTypeThm == Spec => []TypeOK
  <1>1. Ledger => TypeOK
    BY DEF Ledger
  <1> QED
    BY <1>1, LedgerInvariant, PTL

\* The provider is called at most once for an attempt.
THEOREM AtMostOneSubmissionThm == Spec => []AtMostOneSubmission
  <1>1. Ledger => AtMostOneSubmission
    BY DEF Ledger, BindingTie, TypeOK, AtMostOneSubmission
  <1> QED
    BY <1>1, LedgerInvariant, PTL

\* A trusted return is never half there.
THEOREM TrustedReturnWholeThm == Spec => []TrustedReturnWhole
  <1>1. Ledger => TrustedReturnWhole
    BY DEF Ledger, TypeOK, TrustTie, StageTie, TrustedReturnWhole
  <1> QED
    BY <1>1, LedgerInvariant, PTL

\* What recovery re-verifies about a staged reply never fails.
THEOREM StagedReplyThm == Spec => []StagedReplyStaysRecoverable
  <1>1. Ledger => StagedReplyStaysRecoverable
    BY DEF Ledger, TypeOK, BindingTie, TrustTie, StageTie, StagedReplyStaysRecoverable,
           ExactResponseVerified, Returned, Crossed
  <1> QED
    BY <1>1, LedgerInvariant, PTL

\* No attempt and no provider request is billed twice.
THEOREM MeteredExactlyOnceThm == Spec => []MeteredExactlyOnce
  <1>1. Ledger => MeteredExactlyOnce
    BY DEF Ledger, MeterTie, MeteredExactlyOnce
  <1> QED
    BY <1>1, LedgerInvariant, PTL

-----------------------------------------------------------------------------
(* Action properties.                                                      *)

\* How one step may move the row of an attempt: these are the only writes.
LEMMA StepMoves ==
    ASSUME Ledger, [Next]_vars, NEW a \in Attempt
    PROVE  /\ state'[a] # state[a] /\ state'[a] \in {"not_submitted", "admitted"}
                 => request[a] = None
           /\ request[a] # None => request'[a] = request[a]
           /\ receipt[a] # None => receipt'[a] = receipt[a] /\ handoff'[a] = handoff[a]
           /\ staged[a] # None => staged'[a] = staged[a] /\ provenance'[a] = provenance[a]
  <1> DEFINE Goal ==
         /\ state'[a] # state[a] /\ state'[a] \in {"not_submitted", "admitted"}
               => request[a] = None
         /\ request[a] # None => request'[a] = request[a]
         /\ receipt[a] # None => receipt'[a] = receipt[a] /\ handoff'[a] = handoff[a]
         /\ staged[a] # None => staged'[a] = staged[a] /\ provenance'[a] = provenance[a]
  <1> USE DEF Ledger, TypeOK, BindingTie, TrustTie, StageTie, AttemptState, Stagable, Returned,
          Crossed
  <1>1. ASSUME NEW b \in Attempt, AdmitGranted(b) \/ AdmitRefused(b) PROVE Goal
    <2>1. CASE AdmitGranted(b)
      BY <2>1 DEF AdmitGranted, CanAdmit, SubmissionArtifacts, trustVars, envVars
    <2>2. CASE AdmitRefused(b)
      BY <2>2 DEF AdmitRefused, RouteToInDoubt, trustVars, envVars
    <2> QED
      BY <1>1, <2>1, <2>2
  <1>2. ASSUME NEW b \in Attempt, NEW q \in Request, NEW v \in BOOLEAN,
               MarkDispatching(b, q, v)
        PROVE  Goal
    BY <1>2 DEF MarkDispatching, CanDispatch, SubmissionArtifacts, trustVars
  <1>3. ASSUME NEW b \in Attempt, AdoptLegacyInDoubt(b) PROVE Goal
    BY <1>3 DEF AdoptLegacyInDoubt, trustVars, envVars
  <1>4. ASSUME NEW b \in Attempt, NEW n \in BOOLEAN,
               MarkFailure(b, n) \/ ReconcileNotSubmitted(b)
        PROVE  Goal
    BY <1>4 DEF MarkFailure, ReconcileNotSubmitted, ClaimNotSubmitted, CanDispatch,
                SubmissionArtifacts, RouteToInDoubt, trustVars, envVars
  <1>5. ASSUME NEW b \in Attempt, ExactResponseDirective(b) PROVE Goal
    BY <1>5 DEF ExactResponseDirective, rowVars, trustVars
  <1>6. ASSUME NEW b \in Attempt, NEW d \in Directive, RecordResponse(b, d) PROVE Goal
    BY <1>6 DEF RecordResponse, CanRecord, TrustedRows, trustVars
  <1>7. ASSUME NEW b \in Attempt, NEW d \in Directive, SignLateReturn(b, d) PROVE Goal
    BY <1>7 DEF SignLateReturn, rowVars, trustVars
  <1>8. ASSUME NEW b \in Attempt, NEW d \in Directive, AttachLateTrustedReturn(b, d)
        PROVE  Goal
    BY <1>8 DEF AttachLateTrustedReturn, MayAttach, envVars
  <1>9. ASSUME NEW b \in Attempt, NEW d, StageExactResponse(b, d) PROVE Goal
    BY <1>9 DEF StageExactResponse, MayStage, envVars
  <1>10. ASSUME NEW b \in Attempt, NEW d \in Directive, RecordModelCall(b, d) PROVE Goal
    BY <1>10 DEF RecordModelCall, rowVars, trustVars, envVars
  <1>11. ASSUME NEW w \in Work, NEW r \in Round, RecoverTrustedHandoff(w, r) PROVE Goal
    BY <1>11, <1>9 DEF RecoverTrustedHandoff, Attempt
  <1>12. ASSUME UNCHANGED vars PROVE Goal
    BY <1>12 DEF vars, rowVars, trustVars, envVars
  <1> HIDE DEF Ledger, Goal
  <1>13. ASSUME NEW b \in Attempt, AttemptNext(b) PROVE Goal
    BY <1>13, <1>1, <1>2, <1>3, <1>4, <1>5, <1>6, <1>7, <1>8, <1>9, <1>10 DEF AttemptNext
  <1>14. Goal
    BY <1>11, <1>12, <1>13 DEF Next
  <1> QED
    BY <1>14 DEF Goal

\* Non-submission and re-admission are concluded only before anything was sent.
THEOREM NonSubmissionIsProvenThm == Spec => NonSubmissionIsProven
  <1>1. Ledger /\ [Next]_vars =>
          [\A a \in Attempt :
              state'[a] # state[a] /\ state'[a] \in {"not_submitted", "admitted"}
                  => submissions[a] = 0]_vars
    <2> SUFFICES ASSUME Ledger, [Next]_vars, NEW a \in Attempt,
                        state'[a] # state[a], state'[a] \in {"not_submitted", "admitted"}
                 PROVE  submissions[a] = 0
      OBVIOUS
    <2>1. request[a] = None
      BY StepMoves
    <2> QED
      BY <2>1 DEF Ledger, BindingTie
  <1> QED
    BY <1>1, LedgerInvariant, PTL DEF Spec, NonSubmissionIsProven

\* Bound requests, trusted returns and proven provenance are never replaced.
THEOREM FirstWriterWinsThm == Spec => FirstWriterWins
  <1>1. Ledger /\ [Next]_vars =>
          [\A a \in Attempt :
              /\ request[a] # None => request'[a] = request[a]
              /\ receipt[a] # None => receipt'[a] = receipt[a] /\ handoff'[a] = handoff[a]
              /\ staged[a] # None => staged'[a] = staged[a] /\ provenance'[a] = provenance[a]]_vars
    <2> SUFFICES ASSUME Ledger, [Next]_vars, NEW a \in Attempt
                 PROVE  /\ request[a] # None => request'[a] = request[a]
                        /\ receipt[a] # None =>
                              receipt'[a] = receipt[a] /\ handoff'[a] = handoff[a]
                        /\ staged[a] # None =>
                              staged'[a] = staged[a] /\ provenance'[a] = provenance[a]
      OBVIOUS
    <2> QED
      BY StepMoves
  <1> QED
    BY <1>1, LedgerInvariant, PTL DEF Spec, FirstWriterWins
-----------------------------------------------------------------------------
(* The ledger implements the contract about provider calls.                *)

Quiet == UNCHANGED <<request, receipt, meterRows>>

LEMMA ContractStep == Ledger /\ [Next]_vars => [Contract!CNext]_(Contract!cvars)
  <1> DEFINE Goal == Contract!CNext \/ Quiet
  <1> SUFFICES ASSUME Ledger, [Next]_vars PROVE Goal
    BY DEF Contract!cvars, Quiet
  <1>1. ASSUME NEW a \in Attempt, NEW q \in Request, NEW v \in BOOLEAN,
               MarkDispatching(a, q, v)
        PROVE  Goal
    <2>1. Contract!Send(a, q)
      BY <1>1 DEF MarkDispatching, CanDispatch, SubmissionArtifacts, trustVars, Contract!Send
    <2> QED
      BY <2>1 DEF Contract!CNext
  <1>2. ASSUME NEW a \in Attempt, NEW d \in Directive, AttachLateTrustedReturn(a, d)
        PROVE  Goal
    <2>1. CASE receipt[a] = d
      <3>1. receipt' = receipt
        BY <1>2, <2>1 DEF AttachLateTrustedReturn, MayAttach, Ledger, TypeOK
      <3> QED
        BY <1>2, <3>1 DEF AttachLateTrustedReturn, MayAttach, Quiet
    <2>2. CASE receipt[a] = None
      <3>1. Contract!Prove(a, d)
        BY <1>2, <2>2 DEF AttachLateTrustedReturn, MayAttach, Contract!Prove
      <3> QED
        BY <3>1 DEF Contract!CNext
    <2> QED
      BY <1>2, <2>1, <2>2 DEF AttachLateTrustedReturn, MayAttach
  <1>3. ASSUME NEW a \in Attempt, NEW d \in Directive, RecordModelCall(a, d) PROVE Goal
    <2> DEFINE row == MeterRecord(a, d)
    <2>1. /\ MeterAccepts(a, d)
          /\ meterRows' = AfterInsert(row)
          /\ UNCHANGED <<request, receipt>>
          /\ state[a] \in Returned
      BY <1>3 DEF RecordModelCall, trustVars
    <2>2. CASE \E r \in meterRows : RecordId(r) = RecordId(row) \/ r.attempt = row.attempt
      BY <2>1, <2>2 DEF AfterInsert, Quiet
    <2>3. CASE ~ \E r \in meterRows : RecordId(r) = RecordId(row) \/ r.attempt = row.attempt
      <3>1. meterRows' = meterRows \cup {row}
        BY <2>1, <2>3 DEF AfterInsert
      <3>2. row \in MeterRow /\ row.attempt = a
        BY MeterRecordType
      <3>3. \A r \in meterRows : r.attempt # row.attempt /\ (r.req = row.req => row.req = None)
        BY <2>3, <3>2, SameRecordId DEF Ledger, TypeOK
      <3>4. request[row.attempt] # None
        BY <2>1, <3>2 DEF Ledger, BindingTie, Returned, Crossed
      <3>5. Contract!Bill(row)
        BY <2>1, <3>1, <3>3, <3>4 DEF Contract!Bill
      <3> QED
        BY <3>1, <3>5 DEF Contract!CNext
    <2> QED
      BY <2>2, <2>3
  <1>4. ASSUME NEW a \in Attempt,
               \/ AdmitGranted(a) \/ AdmitRefused(a) \/ AdoptLegacyInDoubt(a)
               \/ (\E b \in BOOLEAN : MarkFailure(a, b)) \/ ReconcileNotSubmitted(a)
               \/ ExactResponseDirective(a)
        PROVE  Goal
    BY <1>4 DEF AdmitGranted, AdmitRefused, AdoptLegacyInDoubt, MarkFailure,
                ReconcileNotSubmitted, ExactResponseDirective, rowVars, trustVars, Quiet
  <1>5. ASSUME NEW a \in Attempt, NEW d,
               RecordResponse(a, d) \/ SignLateReturn(a, d) \/ StageExactResponse(a, d)
        PROVE  Goal
    BY <1>5 DEF RecordResponse, CanRecord, SignLateReturn, StageExactResponse, MayStage, rowVars, trustVars, Quiet
  <1>6. ASSUME NEW w \in Work, NEW r \in Round, RecoverTrustedHandoff(w, r) PROVE Goal
    BY <1>6, <1>5 DEF RecoverTrustedHandoff, Attempt
  <1>7. ASSUME UNCHANGED vars PROVE Goal
    BY <1>7 DEF vars, rowVars, trustVars, Quiet
  <1> HIDE DEF Goal
  <1>8. ASSUME NEW a \in Attempt, AttemptNext(a) PROVE Goal
    BY <1>8, <1>1, <1>2, <1>3, <1>4, <1>5 DEF AttemptNext
  <1> QED
    BY <1>6, <1>7, <1>8 DEF Next

\* Whatever callers, crashes and signers do, the ledger behaves as the contract says:
\* one request per attempt, one authentic reply, one bill.
THEOREM LedgerKeepsContract == Spec => ContractHolds
  <1>1. Init => Contract!CInit
    BY DEF Init, Contract!CInit
  <1> QED
    BY <1>1, ContractStep, LedgerInvariant, PTL DEF Spec, ContractHolds, Contract!CSpec
=============================================================================
