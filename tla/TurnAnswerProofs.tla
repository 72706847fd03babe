-------------------------- MODULE TurnAnswerProofs --------------------------
(* Theorems about the answer of a turn, for every set of turns, calls and   *)
(* replies: it is backed by a metered reply to the user's recorded words,   *)
(* and it is final. Rows and observations are only ever completed, never    *)
(* taken back; so what a call has made sure of stays true while it goes on. *)
EXTENDS TurnRuntimeProofs

Spoken == {"round", "admit", "dispatch", "provider", "meter", "apply", "output", "complete"}

\* A reply that was metered and held, or its exhausted budget, is this text.
BackedText(w, text) ==
    \E r \in Round, d \in Directive :
        state[<<w, r>>] = "metered" /\ <<<<w, r>>, d>> \in held /\ text \in {d, Blank}

\* What a call has made sure of at the place where it stands.
CallTie(p) ==
    /\ At(p, "say") \/ proc[p].pc \in Spoken =>
          /\ turn[WorkOf(p)].state # "absent" /\ turn[WorkOf(p)].protocol # "none"
          /\ turn[WorkOf(p)].input = proc[p].input
    /\ proc[p].pc \in Spoken => said[WorkOf(p)] = proc[p].input
    /\ At(p, "meter") \/ At(p, "apply") => <<AttemptOf(p), proc[p].reply>> \in held
    /\ At(p, "output") => BackedText(WorkOf(p), proc[p].text)
    /\ At(p, "complete") => output[WorkOf(p)] # None

RowTie(w) ==
    /\ turn[w].state = "completed" => output[w] # None /\ ~turn[w].retry
    /\ turn[w].protocol # "none" /\ output[w] # None =>
          said[w] # None /\ said[w] = turn[w].input /\ BackedText(w, output[w])

AnswerInv == TurnInv /\ (\A p \in Proc : CallTie(p)) /\ (\A w \in Work : RowTie(w))

-----------------------------------------------------------------------------
(* What a step may write.                                                   *)

LEMMA HeldGrows == Ledger /\ [Next]_vars => held \subseteq held'
  <1> SUFFICES ASSUME Ledger, [Next]_vars PROVE held \subseteq held'
    OBVIOUS
  <1>1. ASSUME NEW b \in Attempt, \/ AdmitGranted(b) \/ AdmitRefused(b) \/ AdoptLegacyInDoubt(b)
                                  \/ \E n \in BOOLEAN : MarkFailure(b, n)
                                  \/ ReconcileNotSubmitted(b)
        PROVE  held \subseteq held'
    BY <1>1 DEF AdmitGranted, AdmitRefused, AdoptLegacyInDoubt, MarkFailure, ReconcileNotSubmitted,
                envVars
  <1>2. ASSUME NEW b \in Attempt, NEW q, NEW v, MarkDispatching(b, q, v)
        PROVE  held \subseteq held'
    BY <1>2 DEF MarkDispatching
  <1>3. ASSUME NEW b \in Attempt, ExactResponseDirective(b) PROVE held \subseteq held'
    BY <1>3 DEF ExactResponseDirective
  <1>4. ASSUME NEW b, NEW d, \/ RecordResponse(b, d) \/ SignLateReturn(b, d)
                             \/ AttachLateTrustedReturn(b, d) \/ StageExactResponse(b, d)
                             \/ RecordModelCall(b, d)
        PROVE  held \subseteq held'
    BY <1>4 DEF RecordResponse, SignLateReturn, AttachLateTrustedReturn, StageExactResponse,
                RecordModelCall, envVars
  <1>5. ASSUME NEW w, NEW r, RecoverTrustedHandoff(w, r) PROVE held \subseteq held'
    BY <1>5, <1>4 DEF RecoverTrustedHandoff
  <1>6. ASSUME UNCHANGED vars PROVE held \subseteq held'
    BY <1>6 DEF vars, envVars
  <1>7. ASSUME NEW b \in Attempt, AttemptNext(b) PROVE held \subseteq held'
    BY <1>7, <1>1, <1>2, <1>3, <1>4 DEF AttemptNext
  <1> QED
    BY <1>5, <1>6, <1>7 DEF Next

\* The writes to a turn's row and observations, and who makes them.
RowIsWritten ==
    \/ UNCHANGED turn
    \/ \E w \in Work : AcknowledgeOutput(w) \/ AuthorizeRetry(w) \/ RecoverTurnCompletion(w)
    \/ \E p \in Proc : \/ ClaimGranted(p)
                       \/ MarkInitialAttemptAdmitted(p)
                       \/ Complete(p)

SomethingIsSaid ==
    /\ UNCHANGED said \/ \E p \in Proc : CommitUserInput(p)
    /\ UNCHANGED output \/ \E p \in Proc : CommitAssistantOutput(p)

LEMMA TurnWrites == TurnTypeOK /\ [TurnNext]_allVars => RowIsWritten /\ SomethingIsSaid
  <1> SUFFICES ASSUME TurnTypeOK, [TurnNext]_allVars PROVE RowIsWritten /\ SomethingIsSaid
    OBVIOUS
  <1>1. ASSUME NEW p \in Proc, NEW w \in Work, NEW i \in Input, Start(p, w, i)
        PROVE  RowIsWritten /\ SomethingIsSaid
    BY <1>1 DEF Start, RowIsWritten, SomethingIsSaid
  <1>2. ASSUME NEW p \in Proc, Step(p) PROVE RowIsWritten /\ SomethingIsSaid
    <2>1. CASE Claim(p)
      <3>1. WorkOf(p) \in Work
        BY CallAttempt
      <3> QED
        BY <2>1, <3>1 DEF Claim, RowIsWritten, SomethingIsSaid
    <2>2. CASE MarkInitialAttemptAdmitted(p) \/ Complete(p)
      BY <2>2 DEF MarkInitialAttemptAdmitted, Complete, RowIsWritten, SomethingIsSaid
    <2>3. CASE CommitUserInput(p) \/ CommitAssistantOutput(p)
      BY <2>3 DEF CommitUserInput, CommitAssistantOutput, RowIsWritten, SomethingIsSaid
    <2>4. CASE \/ StageHandoff(p) \/ FindExactResponse(p) \/ AuthorizeExactResponseRecovery(p)
               \/ AdmitInitialAttempt(p) \/ RecoverRound(p) \/ NothingToRecover(p)
               \/ AdmitRound(p) \/ Dispatch(p) \/ ProviderReturns(p) \/ ProviderFails(p)
               \/ MeterRound(p) \/ ApplyRound(p)
      BY <2>4 DEF StageHandoff, turnVars, FindExactResponse, AuthorizeExactResponseRecovery,
         AdmitInitialAttempt, RecoverRound, NothingToRecover, AdmitRound, Dispatch, ProviderReturns,
         ProviderFails, MeterRound, ApplyRound, RowIsWritten, SomethingIsSaid
    <2> QED
      BY <1>2, <2>1, <2>2, <2>3, <2>4 DEF Step
  <1>3. ASSUME NEW w \in Work, Operator(w) PROVE RowIsWritten /\ SomethingIsSaid
    BY <1>3 DEF Operator, AuthorizeRetry, RecoverTurnCompletion, ReconcileTurnModelNotSubmitted,
                turnVars, RowIsWritten, SomethingIsSaid
  <1>4. ASSUME \/ \E p \in Proc : Stop(p)
               \/ \E a \in Attempt, d \in Directive : External(a, d)
               \/ UNCHANGED allVars
        PROVE  RowIsWritten /\ SomethingIsSaid
    BY <1>4 DEF Stop, External, SignerReturns, IngressAttaches, IngressStages, turnVars, allVars,
                RowIsWritten, SomethingIsSaid
  <1> QED
    BY <1>1, <1>2, <1>3, <1>4 DEF TurnNext

\* What no step takes back.
RowKept(w) ==
    /\ turn[w].state # "absent" => turn'[w].state # "absent"
    /\ turn[w].state # "absent" /\ turn[w].protocol # "none" => turn'[w].protocol # "none"
    /\ turn[w].state # "absent" \/ output[w] # None => turn'[w].input = turn[w].input
    /\ output[w] # None /\ turn'[w].protocol # "none" => turn[w].protocol # "none"
    /\ turn[w].state = "completed" => turn'[w] = turn[w]
    /\ turn'[w].state = "completed" =>
          turn[w].state = "completed" \/ (output[w] # None /\ ~turn'[w].retry)

LEMMA RowsAreKept ==
    ASSUME AnswerInv, RowIsWritten, NEW w \in Work PROVE RowKept(w)
  <1>0. /\ turn \in [Work -> TurnRow]
        /\ \A p \in Proc : WorkOf(p) \in Work
        /\ RowTie(w)
    BY CallAttempt DEF AnswerInv, TurnInv, TurnTypeOK, TurnRow
  <1> USE <1>0 DEF RowKept, RowTie
  <1>1. CASE UNCHANGED turn
    BY <1>1
  <1>2. ASSUME NEW v \in Work, AcknowledgeOutput(v) PROVE RowKept(w)
    BY <1>2 DEF AcknowledgeOutput, TurnRow
  <1>3. ASSUME NEW v \in Work, AuthorizeRetry(v) PROVE RowKept(w)
    BY <1>3 DEF AuthorizeRetry, TurnRow
  <1>4. ASSUME NEW v \in Work, RecoverTurnCompletion(v) PROVE RowKept(w)
    <2>1. CASE v = w
      <3>1. /\ turn'[w] = [turn[w] EXCEPT !.state = "completed", !.retry = FALSE]
            /\ turn[w].state # "absent" /\ output[w] # None
        BY <1>4, <2>1 DEF RecoverTurnCompletion, TurnRow
      <3>2. turn[w] \in TurnRow
        OBVIOUS
      <3>3. turn[w].state = "completed" => turn'[w] = turn[w]
        BY <3>1, <3>2 DEF TurnRow
      <3> QED
        BY <3>1, <3>2, <3>3 DEF TurnRow
    <2>2. CASE v # w
      BY <1>4, <2>2 DEF RecoverTurnCompletion, TurnRow
    <2> QED
      BY <2>1, <2>2
  <1>5. ASSUME NEW p \in Proc, ClaimGranted(p) PROVE RowKept(w)
    BY <1>5 DEF ClaimGranted, NewClaim, TurnRow
  <1>6. ASSUME NEW p \in Proc, MarkInitialAttemptAdmitted(p) PROVE RowKept(w)
    BY <1>6 DEF MarkInitialAttemptAdmitted, MayPromote, TurnRow
  <1>7. ASSUME NEW p \in Proc, Complete(p) PROVE RowKept(w)
    <2>1. output[WorkOf(p)] # None
      BY <1>7 DEF AnswerInv, CallTie, Complete
    <2> QED
      BY <1>7, <2>1 DEF Complete, TurnRow
  <1> QED
    BY <1>1, <1>2, <1>3, <1>4, <1>5, <1>6, <1>7 DEF RowIsWritten

LEMMA ObservationsAreKept ==
    ASSUME AnswerInv, SomethingIsSaid, NEW w \in Work
    PROVE  /\ said[w] # None => said'[w] = said[w]
           /\ output[w] # None => output'[w] = output[w]
           /\ output'[w] # output[w] =>
                 \E p \in Proc : At(p, "output") /\ WorkOf(p) = w /\ output'[w] = proc[p].text
  <1>0. /\ said \in [Work -> Input \cup {None}] /\ output \in [Work -> Directive \cup {Blank, None}]
        /\ \A p \in Proc : WorkOf(p) \in Work
    BY CallAttempt DEF AnswerInv, TurnInv, TurnTypeOK
  <1>1. said[w] # None => said'[w] = said[w]
    BY <1>0 DEF SomethingIsSaid, CommitUserInput
  <1>2. output[w] # None => output'[w] = output[w]
    BY <1>0 DEF SomethingIsSaid, CommitAssistantOutput
  <1>3. output'[w] # output[w] =>
           \E p \in Proc : At(p, "output") /\ WorkOf(p) = w /\ output'[w] = proc[p].text
    BY <1>0 DEF SomethingIsSaid, CommitAssistantOutput
  <1> QED
    BY <1>1, <1>2, <1>3

LEMMA BackedIsKept ==
    ASSUME TurnInv, [TurnNext]_allVars, NEW w \in Work, NEW text, BackedText(w, text)
    PROVE  BackedText(w, text)'
  <1>1. held \subseteq held'
    BY HeldGrows, TurnStepIsLedgerStep DEF TurnInv
  <1>2. \A a \in Attempt : state[a] = "metered" => state'[a] = "metered"
    BY LedgerRowMoves, TurnStepIsLedgerStep DEF TurnInv
  <1> QED
    BY <1>1, <1>2 DEF BackedText, Attempt

-----------------------------------------------------------------------------
(* The invariant.                                                           *)

LEMMA AnswerInit == TurnInit => AnswerInv
  <1> SUFFICES ASSUME TurnInit PROVE AnswerInv
    OBVIOUS
  <1>1. TurnInv
    BY TurnInitInv
  <1>2. \A p \in Proc : proc[p].pc = "idle"
    BY DEF TurnInit
  <1>3. \A p \in Proc : CallTie(p)
    BY <1>2 DEF CallTie, Spoken, At
  <1>4. \A w \in Work : turn[w].state # "completed" /\ turn[w].protocol = "none"
    <2>1. PICK claimed \in SUBSET Work, i \in Input :
             turn = [w \in Work |->
                IF w \in claimed THEN [NoTurn EXCEPT !.state = "started", !.input = i] ELSE NoTurn]
      BY DEF TurnInit
    <2> QED
      BY <2>1 DEF NoTurn
  <1> QED
    BY <1>1, <1>3, <1>4 DEF AnswerInv, RowTie

\* A call that does not move has made sure of no less afterwards.
LEMMA CallTieStays ==
    ASSUME AnswerInv, [TurnNext]_allVars, NEW p \in Proc, CallTie(p),
           proc'[p] = proc[p]
    PROVE  CallTie(p)'
  <1>0. WorkOf(p) \in Work /\ proc[p].input \in Input
    BY CallAttempt DEF AnswerInv, TurnInv, TurnTypeOK, Call
  <1>1. RowIsWritten /\ SomethingIsSaid /\ held \subseteq held'
    BY TurnWrites, HeldGrows, TurnStepIsLedgerStep DEF AnswerInv, TurnInv
  <1>2. RowKept(WorkOf(p))
    BY <1>0, <1>1, RowsAreKept
  <1>3. /\ said[WorkOf(p)] # None => said'[WorkOf(p)] = said[WorkOf(p)]
        /\ output[WorkOf(p)] # None => output'[WorkOf(p)] = output[WorkOf(p)]
    BY <1>0, <1>1, ObservationsAreKept
  <1>4. /\ WorkOf(p)' = WorkOf(p) /\ AttemptOf(p)' = AttemptOf(p)
        /\ \A x : At(p, x)' <=> At(p, x)
    BY DEF WorkOf, AttemptOf, At
  <1>5. \A a \in Attempt : state[a] = "metered" => state'[a] = "metered"
    BY LedgerRowMoves, TurnStepIsLedgerStep DEF AnswerInv, TurnInv
  <1>6. At(p, "output") => BackedText(WorkOf(p), proc[p].text)'
    BY <1>0, <1>1, <1>4, <1>5 DEF CallTie, BackedText, Attempt
  <1>7. /\ At(p, "say") \/ proc[p].pc \in Spoken =>
              /\ turn'[WorkOf(p)].state # "absent" /\ turn'[WorkOf(p)].protocol # "none"
              /\ turn'[WorkOf(p)].input = proc[p].input
        /\ proc[p].pc \in Spoken => said'[WorkOf(p)] = proc[p].input
        /\ At(p, "meter") \/ At(p, "apply") => <<AttemptOf(p), proc[p].reply>> \in held'
        /\ At(p, "complete") => output'[WorkOf(p)] # None
    BY <1>0, <1>1, <1>2, <1>3, TurnConstantsOK DEF CallTie, RowKept
  <1> QED
    BY <1>4, <1>6, <1>7 DEF CallTie

LEMMA CallTieMoves ==
    ASSUME AnswerInv, [TurnNext]_allVars, NEW p \in Proc, Step(p)
    PROVE  CallTie(p)'
  <1>0. /\ proc \in [Proc -> Call] /\ WorkOf(p) \in Work /\ proc[p].input \in Input
        /\ AttemptOf(p) \in Attempt /\ proc[p].round \in Round /\ CallTie(p)
        /\ said \in [Work -> Input \cup {None}] /\ output \in [Work -> Directive \cup {Blank, None}]
        /\ turn \in [Work -> TurnRow]
        /\ None \notin Input \cup {Blank} \cup Directive
    BY CallAttempt, TurnConstantsOK, ConstantsOK DEF AnswerInv, TurnInv, TurnTypeOK, TurnRow, Call
  <1>l. ASSUME Leave(p) PROVE CallTie(p)'
    BY <1>0, <1>l DEF Leave, CallTie, At, Spoken, Call
  <1>s. ASSUME UNCHANGED proc PROVE CallTie(p)'
    BY <1>0, <1>s, CallTieStays
  <1>g. ASSUME NEW x, Goto(p, x)
        PROVE  /\ proc'[p].pc = x /\ WorkOf(p)' = WorkOf(p) /\ AttemptOf(p)' = AttemptOf(p)
               /\ proc'[p].input = proc[p].input /\ proc'[p].reply = proc[p].reply
               /\ proc'[p].text = proc[p].text
    BY <1>0, <1>g DEF Goto, WorkOf, AttemptOf, Call
  \* Places where nothing is held yet but the row and the user's words.
  <1>q. ASSUME NEW x \in {"round", "admit", "dispatch", "provider"}, proc[p].pc \in Spoken,
               proc'[p].pc = x, proc'[p].work = proc[p].work, proc'[p].input = proc[p].input,
               UNCHANGED <<turn, said>>
        PROVE  CallTie(p)'
    BY <1>0, <1>q DEF CallTie, At, Spoken, WorkOf
  <1>h. ASSUME NEW x \in {"recover", "claim", "authorize", "admit0", "promote"}, proc'[p].pc = x
        PROVE  CallTie(p)'
    BY <1>h DEF CallTie, At, Spoken
  <1>1. CASE StageHandoff(p)
    BY <1>1, <1>s DEF StageHandoff, turnVars
  <1>2. CASE FindExactResponse(p)
    BY <1>0, <1>2, <1>g, <1>h DEF FindExactResponse, Call
  <1>3. CASE Claim(p)
    BY <1>3, <1>g, <1>h, <1>l DEF Claim
  <1>4. CASE AuthorizeExactResponseRecovery(p)
    BY <1>4, <1>g, <1>h, <1>l DEF AuthorizeExactResponseRecovery
  <1>5. CASE AdmitInitialAttempt(p)
    BY <1>5, <1>g, <1>h, <1>l DEF AdmitInitialAttempt
  <1>6. CASE MarkInitialAttemptAdmitted(p)
    <2>1. ASSUME MayPromote(p), turn' = [turn EXCEPT ![WorkOf(p)].protocol = "model_attempt"],
                 Goto(p, "say")
          PROVE  CallTie(p)'
      BY <1>0, <1>g, <2>1 DEF MayPromote, RowMatches, CallTie, At, Spoken, TurnRow
    <2> QED
      BY <1>6, <1>l, <2>1 DEF MarkInitialAttemptAdmitted
  <1>7. CASE CommitUserInput(p)
    <2>1. ASSUME said' = [said EXCEPT ![WorkOf(p)] = proc[p].input], Goto(p, "round")
          PROVE  CallTie(p)'
      BY <1>0, <1>7, <1>g, <2>1 DEF CommitUserInput, CallTie, At, Spoken
    <2> QED
      BY <1>7, <1>l, <2>1 DEF CommitUserInput
  <1>8. CASE RecoverRound(p)
    <2>1. /\ proc'[p].pc = "meter" /\ WorkOf(p)' = WorkOf(p) /\ AttemptOf(p)' = AttemptOf(p)
          /\ proc'[p].input = proc[p].input /\ proc'[p].reply = staged[AttemptOf(p)]
      BY <1>0, <1>8 DEF RecoverRound, WorkOf, AttemptOf, Call
    <2> QED
      BY <1>0, <1>8, <2>1 DEF RecoverRound, ExactResponseDirective, CallTie, At, Spoken
  <1>9. CASE NothingToRecover(p)
    BY <1>9, <1>g, <1>q DEF NothingToRecover, At, Spoken, WorkOf
  <1>10. CASE AdmitRound(p)
    BY <1>10, <1>g, <1>l, <1>q DEF AdmitRound, At, Spoken, WorkOf
  <1>11. CASE Dispatch(p)
    BY <1>11, <1>g, <1>l, <1>q DEF Dispatch, At, Spoken, WorkOf
  <1>12. CASE ProviderReturns(p)
    <2>1. ASSUME NEW d, RecordResponse(AttemptOf(p), d),
                 proc' = [proc EXCEPT ![p].pc = "meter", ![p].reply = d]
          PROVE  CallTie(p)'
      <3>1. /\ proc'[p].pc = "meter" /\ WorkOf(p)' = WorkOf(p) /\ AttemptOf(p)' = AttemptOf(p)
            /\ proc'[p].input = proc[p].input /\ proc'[p].reply = d
        BY <1>0, <2>1 DEF WorkOf, AttemptOf, Call
      <3> QED
        BY <1>0, <1>12, <2>1, <3>1 DEF ProviderReturns, RecordResponse, CallTie, At, Spoken
    <2> QED
      BY <1>12, <1>l, <2>1 DEF ProviderReturns
  <1>13. CASE ProviderFails(p)
    BY <1>13, <1>l DEF ProviderFails
  <1>14. CASE MeterRound(p)
    <2>1. ASSUME RecordModelCall(AttemptOf(p), proc[p].reply), Goto(p, "apply") PROVE CallTie(p)'
      BY <1>0, <1>14, <1>g, <2>1 DEF MeterRound, RecordModelCall, envVars, CallTie, At, Spoken
    <2> QED
      BY <1>14, <1>l, <2>1 DEF MeterRound
  <1>15. CASE ApplyRound(p)
    <2>1. /\ state[AttemptOf(p)] = "metered" /\ <<AttemptOf(p), proc[p].reply>> \in held
          /\ proc[p].reply \in Directive
      BY <1>0, <1>15 DEF ApplyRound, AnswerInv, TurnInv, CallsInOrder, CallTie, Ledger, TypeOK, At
    <2>2. ASSUME NEW t \in {proc[p].reply, Blank},
                 proc' = [proc EXCEPT ![p].pc = "output", ![p].text = t]
          PROVE  CallTie(p)'
      <3>1. /\ proc'[p].pc = "output" /\ WorkOf(p)' = WorkOf(p) /\ proc'[p].text = t
            /\ proc'[p].input = proc[p].input
        BY <1>0, <2>2 DEF WorkOf, Call
      <3>2. BackedText(WorkOf(p), t)
        <4>1. AttemptOf(p) = <<WorkOf(p), proc[p].round>>
          BY DEF AttemptOf, WorkOf
        <4> QED
          BY <1>0, <2>1, <2>2, <4>1 DEF BackedText
      <3>3. UNCHANGED <<state, held, turn, said>>
        BY <1>15 DEF ApplyRound, vars, rowVars, envVars
      <3> QED
        BY <1>0, <1>15, <3>1, <3>2, <3>3 DEF ApplyRound, CallTie, At, Spoken, BackedText
    <2>3. ASSUME proc' = [proc EXCEPT ![p].pc = "round", ![p].round = @ + 1, ![p].reply = None]
          PROVE  CallTie(p)'
      BY <1>0, <1>15, <1>q, <2>3 DEF ApplyRound, At, Spoken, Call
    <2>4. CASE proc[p].reply \in Final
      BY <1>15, <2>2, <2>4 DEF ApplyRound
    <2>5. CASE proc[p].reply \notin Final /\ LastRound(p)
      BY <1>15, <2>2, <2>5 DEF ApplyRound
    <2>6. CASE proc[p].reply \notin Final /\ ~LastRound(p)
      BY <1>15, <2>3, <2>6 DEF ApplyRound
    <2> QED
      BY <2>4, <2>5, <2>6
  <1>16. CASE CommitAssistantOutput(p)
    <2>1. ASSUME output' = [output EXCEPT ![WorkOf(p)] = proc[p].text], Goto(p, "complete")
          PROVE  CallTie(p)'
      <3>1. proc[p].text # None
        BY <1>0, <1>16 DEF CommitAssistantOutput, CallTie, BackedText
      <3> QED
        BY <1>0, <1>16, <1>g, <2>1, <3>1 DEF CommitAssistantOutput, CallTie, At, Spoken
    <2> QED
      BY <1>16, <1>l, <2>1 DEF CommitAssistantOutput
  <1>17. CASE Complete(p)
    BY <1>17, <1>l DEF Complete
  <1> QED
    BY <1>1, <1>2, <1>3, <1>4, <1>5, <1>6, <1>7, <1>8, <1>9, <1>10, <1>11, <1>12, <1>13, <1>14,
       <1>15, <1>16, <1>17 DEF Step

\* The calls that do not move in a step.
LEMMA OneCallMoves ==
    ASSUME TurnInv, [TurnNext]_allVars, NEW p \in Proc
    PROVE  \/ proc'[p] = proc[p]
           \/ Step(p)
           \/ proc'[p].pc \in {"idle", "recover"}
  <1>0. proc \in [Proc -> Call]
    BY DEF TurnInv, TurnTypeOK
  <1>1. ASSUME NEW q \in Proc, NEW w, NEW i, Start(q, w, i)
        PROVE  proc'[p] = proc[p] \/ proc'[p].pc = "recover"
    BY <1>0, <1>1 DEF Start, Call
  <1>2. ASSUME NEW q \in Proc, Stop(q) PROVE proc'[p] = proc[p] \/ proc'[p].pc = "idle"
    BY <1>0, <1>2 DEF Stop, Leave, Call
  <1>3. ASSUME NEW q \in Proc, q # p, Step(q) PROVE proc'[p] = proc[p]
    <2>1. ASSUME Leave(q) PROVE proc'[p] = proc[p]
      BY <1>0, <1>3, <2>1 DEF Leave
    <2>2. ASSUME NEW x, Goto(q, x) PROVE proc'[p] = proc[p]
      BY <1>0, <1>3, <2>2 DEF Goto
    <2>3. CASE \/ StageHandoff(q) \/ FindExactResponse(q) \/ Claim(q)
               \/ AuthorizeExactResponseRecovery(q) \/ AdmitInitialAttempt(q)
               \/ MarkInitialAttemptAdmitted(q) \/ CommitUserInput(q) \/ RecoverRound(q)
      BY <1>0, <1>3, <2>1, <2>2, <2>3 DEF StageHandoff, turnVars, FindExactResponse, Claim,
         AuthorizeExactResponseRecovery, AdmitInitialAttempt, MarkInitialAttemptAdmitted,
         CommitUserInput, RecoverRound
    <2>4. CASE \/ NothingToRecover(q) \/ AdmitRound(q) \/ Dispatch(q) \/ ProviderReturns(q)
               \/ ProviderFails(q) \/ MeterRound(q) \/ CommitAssistantOutput(q) \/ Complete(q)
      BY <1>0, <1>3, <2>1, <2>2, <2>4 DEF NothingToRecover, AdmitRound, Dispatch, ProviderReturns,
         ProviderFails, MeterRound, CommitAssistantOutput, Complete
    <2>5. CASE ApplyRound(q)
      BY <1>0, <1>3, <2>5 DEF ApplyRound
    <2> QED
      BY <1>3, <2>3, <2>4, <2>5 DEF Step
  <1>4. ASSUME NEW w \in Work, Operator(w) PROVE proc'[p] = proc[p]
    BY <1>4 DEF Operator, AuthorizeRetry, RecoverTurnCompletion, ReconcileTurnModelNotSubmitted,
                turnVars
  <1>5. ASSUME NEW a \in Attempt, NEW d \in Directive, External(a, d) PROVE proc'[p] = proc[p]
    BY <1>5 DEF External, SignerReturns, IngressAttaches, IngressStages, turnVars
  <1>6. ASSUME UNCHANGED allVars PROVE proc'[p] = proc[p]
    BY <1>6 DEF allVars, turnVars
  <1> QED
    BY <1>1, <1>2, <1>3, <1>4, <1>5, <1>6 DEF TurnNext

LEMMA AnswerStep == AnswerInv /\ [TurnNext]_allVars => AnswerInv'
  <1> SUFFICES ASSUME AnswerInv, [TurnNext]_allVars PROVE AnswerInv'
    OBVIOUS
  <1>1. TurnInv'
    BY TurnStepInv DEF AnswerInv
  <1>2. ASSUME NEW p \in Proc PROVE CallTie(p)'
    <2>1. CASE proc'[p] = proc[p]
      BY <2>1, CallTieStays DEF AnswerInv
    <2>2. CASE Step(p)
      BY <2>2, CallTieMoves
    <2>3. CASE proc'[p].pc \in {"idle", "recover"}
      BY <2>3 DEF CallTie, At, Spoken
    <2> QED
      BY <2>1, <2>2, <2>3, OneCallMoves DEF AnswerInv
  <1>3. ASSUME NEW w \in Work PROVE RowTie(w)'
    <2>1. RowIsWritten /\ SomethingIsSaid
      BY TurnWrites DEF AnswerInv, TurnInv
    <2>2. RowKept(w) /\ RowTie(w)
      BY <2>1, RowsAreKept DEF AnswerInv
    <2>3. turn'[w].state = "completed" => output'[w] # None /\ ~turn'[w].retry
      BY <2>1, <2>2, ObservationsAreKept DEF RowKept, RowTie
    <2>4. ASSUME turn'[w].protocol # "none", output'[w] # None
          PROVE  /\ said'[w] # None /\ said'[w] = turn'[w].input
                 /\ BackedText(w, output[w])'
      <3>1. CASE output[w] # None
        <4>1. /\ said[w] # None /\ said[w] = turn[w].input /\ turn'[w].input = turn[w].input
              /\ BackedText(w, output[w])
          BY <2>2, <2>4, <3>1 DEF RowKept, RowTie
        <4>2. output'[w] = output[w] /\ said'[w] = said[w]
          BY <2>1, <3>1, <4>1, ObservationsAreKept
        <4>3. \A t : BackedText(w, t) => BackedText(w, t)'
          BY BackedIsKept DEF AnswerInv
        <4> QED
          BY <4>1, <4>2, <4>3
      <3>2. CASE output[w] = None
        <4>1. PICK p \in Proc : At(p, "output") /\ WorkOf(p) = w /\ output'[w] = proc[p].text
          BY <2>1, <2>4, <3>2, ObservationsAreKept
        <4>2. /\ turn[w].state # "absent" /\ turn[w].input = proc[p].input
              /\ said[w] = proc[p].input /\ BackedText(w, proc[p].text)
          BY <4>1 DEF AnswerInv, CallTie, Spoken, At
        <4>3. proc[p].input # None
          BY TurnConstantsOK DEF AnswerInv, TurnInv, TurnTypeOK, Call
        <4>4. turn'[w].input = turn[w].input /\ said'[w] = said[w]
          BY <2>1, <2>2, <4>2, <4>3, ObservationsAreKept DEF RowKept
        <4>5. \A t : BackedText(w, t) => BackedText(w, t)'
          BY BackedIsKept DEF AnswerInv
        <4> QED
          BY <4>1, <4>2, <4>3, <4>4, <4>5
      <3> QED
        BY <3>1, <3>2
    <2> QED
      BY <2>3, <2>4 DEF RowTie
  <1> QED
    BY <1>1, <1>2, <1>3 DEF AnswerInv

-----------------------------------------------------------------------------
(* Theorems.                                                                *)

THEOREM AnswerInvariant == TurnSpec => []AnswerInv
  BY AnswerInit, AnswerStep, PTL DEF TurnSpec

\* A claimed turn has an answer only after the user's words were recorded and the round
\* that produced it was metered and held.
THEOREM OutputBackedThm == TurnSpec => []OutputBacked
  <1>1. AnswerInv => OutputBacked
    BY ConstantsOK DEF AnswerInv, RowTie, BackedText, OutputBacked
  <1> QED
    BY <1>1, AnswerInvariant, PTL

\* A completed turn has its answer, and neither is ever taken back or replaced, whatever
\* calls, operators and late returns do.
THEOREM AnswerIsFinalThm == TurnSpec => AnswerIsFinal
  <1>1. AnswerInv => \A w \in Work : turn[w].state = "completed" => output[w] # None
    BY DEF AnswerInv, RowTie
  <1>2. AnswerInv /\ [TurnNext]_allVars =>
           [\A w \in Work : /\ output[w] # None => output'[w] = output[w]
                            /\ turn[w].state = "completed" => turn'[w] = turn[w]]_allVars
    <2> SUFFICES ASSUME AnswerInv, [TurnNext]_allVars, NEW w \in Work
                 PROVE  /\ output[w] # None => output'[w] = output[w]
                        /\ turn[w].state = "completed" => turn'[w] = turn[w]
      OBVIOUS
    <2>1. RowIsWritten /\ SomethingIsSaid
      BY TurnWrites DEF AnswerInv, TurnInv
    <2> QED
      BY <2>1, RowsAreKept, ObservationsAreKept DEF RowKept
  <1> QED
    BY <1>1, <1>2, AnswerInvariant, PTL DEF TurnSpec, AnswerIsFinal
=============================================================================
