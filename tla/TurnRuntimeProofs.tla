------------------------- MODULE TurnRuntimeProofs -------------------------
(* Theorems about user turns, for every set of turns, calls and replies.    *)
(* First: the composition only takes steps of the attempt ledger, so what   *)
(* is proved of the ledger holds in it. Then an invariant about the calls'  *)
(* places in the round order gives the order of the rounds, and one about   *)
(* rows that were never sent gives that retries are authorized on proof.    *)
EXTENDS TurnRuntime, ModelAttemptProofs

LEMMA CallAttempt ==
    ASSUME TurnTypeOK, NEW p \in Proc
    PROVE  WorkOf(p) \in Work /\ proc[p].round \in Round /\ AttemptOf(p) \in Attempt
  BY DEF TurnTypeOK, Call, WorkOf, AttemptOf, Attempt

LEMMA RoundZero == 0 \in Round
  BY ConstantsOK DEF Round

LEMMA TurnInitType == TurnInit => TurnTypeOK
  <1> SUFFICES ASSUME TurnInit PROVE TurnTypeOK
    OBVIOUS
  <1>1. proc \in [Proc -> Call]
    BY RoundZero DEF TurnInit, Call, PC
  <1>2. /\ turn \in [Work -> [state : {"absent", "started", "completed"}, protocol : Protocol,
                              retry : BOOLEAN, input : Input \cup {None}]]
        /\ said \in [Work -> Input \cup {None}]
        /\ output \in [Work -> Directive \cup {Blank, None}]
    <2>1. PICK claimed \in SUBSET Work, answered \in SUBSET Work, i \in Input :
             /\ turn = [w \in Work |->
                   IF w \in claimed THEN [NoTurn EXCEPT !.state = "started", !.input = i]
                                    ELSE NoTurn]
             /\ output = [w \in Work |-> IF w \in answered THEN Blank ELSE None]
             /\ said = [w \in Work |-> IF w \in claimed \cup answered THEN i ELSE None]
      BY DEF TurnInit
    <2> QED
      BY <2>1 DEF NoTurn, Protocol
  <1> QED
    BY <1>1, <1>2 DEF TurnTypeOK

-----------------------------------------------------------------------------
(* The composition and the ledger.                                          *)

LEMMA TurnStepIsLedgerStep == Ledger /\ TurnTypeOK /\ [TurnNext]_allVars => [Next]_vars
  <1> SUFFICES ASSUME Ledger, TurnTypeOK, [TurnNext]_allVars PROVE [Next]_vars
    OBVIOUS
  <1>1. ASSUME NEW a \in Attempt, AttemptNext(a) PROVE [Next]_vars
    BY <1>1 DEF Next
  <1>2. ASSUME NEW p \in Proc, Step(p) PROVE [Next]_vars
    <2>0. WorkOf(p) \in Work /\ AttemptOf(p) \in Attempt /\ <<WorkOf(p), 0>> \in Attempt
      BY CallAttempt, RoundZero DEF Attempt
    <2>1. CASE StageHandoff(p)
      BY <2>1, <2>0 DEF StageHandoff, Next
    <2>2. CASE AdmitInitialAttempt(p)
      BY <2>2, <2>0 DEF AdmitInitialAttempt, Next, AttemptNext
    <2>3. CASE AdmitRound(p)
      BY <2>3, <2>0 DEF AdmitRound, Next, AttemptNext
    <2>4. CASE RecoverRound(p)
      BY <2>4, <2>0 DEF RecoverRound, Next, AttemptNext
    <2>5. CASE Dispatch(p)
      BY <2>5, <2>0 DEF Dispatch, Next, AttemptNext
    <2>6. CASE ProviderReturns(p)
      <3>1. PICK d \in Reply[AttemptOf(p)] : RecordResponse(AttemptOf(p), d) \/ UNCHANGED vars
        BY <2>6 DEF ProviderReturns
      <3>2. d \in Directive
        BY <2>0, TurnConstantsOK
      <3> QED
        BY <3>1, <3>2, <2>0 DEF Next, AttemptNext
    <2>7. CASE ProviderFails(p)
      BY <2>7, <2>0 DEF ProviderFails, Next, AttemptNext
    <2>8. CASE MeterRound(p)
      <3>1. RecordModelCall(AttemptOf(p), proc[p].reply) \/ UNCHANGED vars
        BY <2>8 DEF MeterRound
      <3>2. CASE RecordModelCall(AttemptOf(p), proc[p].reply)
        <4>1. proc[p].reply \in Directive
          BY <3>2 DEF RecordModelCall, Ledger, TypeOK
        <4> QED
          BY <3>2, <4>1, <2>0 DEF Next, AttemptNext
      <3> QED
        BY <3>1, <3>2
    <2>9. CASE \/ FindExactResponse(p) \/ Claim(p) \/ AuthorizeExactResponseRecovery(p)
               \/ MarkInitialAttemptAdmitted(p) \/ CommitUserInput(p) \/ NothingToRecover(p)
               \/ ApplyRound(p) \/ CommitAssistantOutput(p) \/ Complete(p)
      BY <2>9 DEF FindExactResponse, Claim, AuthorizeExactResponseRecovery,
                  MarkInitialAttemptAdmitted, CommitUserInput, NothingToRecover, ApplyRound,
                  CommitAssistantOutput, Complete
    <2> QED
      BY <1>2, <2>1, <2>2, <2>3, <2>4, <2>5, <2>6, <2>7, <2>8, <2>9 DEF Step
  <1>3. ASSUME NEW w \in Work, Operator(w) PROVE [Next]_vars
    BY <1>3 DEF Operator, AuthorizeRetry, RecoverTurnCompletion, ReconcileTurnModelNotSubmitted,
                Next, AttemptNext, Attempt
  <1>4. ASSUME NEW a \in Attempt, NEW d \in Directive, External(a, d) PROVE [Next]_vars
    BY <1>4 DEF External, SignerReturns, IngressAttaches, IngressStages, Next, AttemptNext
  <1>5. ASSUME \/ \E p \in Proc, w \in Work, i \in Input : Start(p, w, i)
               \/ \E p \in Proc : Stop(p)
               \/ UNCHANGED allVars
        PROVE  [Next]_vars
    BY <1>5 DEF Start, Stop, allVars
  <1> QED
    BY <1>2, <1>3, <1>4, <1>5 DEF TurnNext

-----------------------------------------------------------------------------
(* Type correctness.                                                        *)

LEMMA CallUpdates ==
    ASSUME NEW c \in Call
    PROVE  /\ \A x \in PC : [c EXCEPT !.pc = x] \in Call
           /\ \A r \in Round : [c EXCEPT !.round = r] \in Call
           /\ \A r \in Round : [c EXCEPT !.offset = r] \in Call
           /\ \A d \in Directive \cup {None} : [c EXCEPT !.reply = d] \in Call
           /\ \A t \in Directive \cup {Blank, None} : [c EXCEPT !.text = t] \in Call
           /\ \A w \in Work : [c EXCEPT !.work = w] \in Call
           /\ \A i \in Input : [c EXCEPT !.input = i] \in Call
  BY DEF Call

LEMMA CallsStayTyped ==
    ASSUME TurnTypeOK, NEW p \in Proc
    PROVE  /\ \A x \in PC : Goto(p, x) => proc' \in [Proc -> Call]
           /\ Leave(p) => proc' \in [Proc -> Call]
  <1>1. proc[p] \in Call
    BY DEF TurnTypeOK
  <1>2. ASSUME NEW x \in PC, Goto(p, x) PROVE proc' \in [Proc -> Call]
    BY <1>2, <1>1, CallUpdates DEF Goto, TurnTypeOK
  <1>3. ASSUME Leave(p) PROVE proc' \in [Proc -> Call]
    <2>1. [proc[p] EXCEPT !.pc = "idle", !.offset = 0, !.round = 0, !.reply = None,
                          !.text = None] \in Call
      BY <1>1, RoundZero DEF Call, PC
    <2> QED
      BY <1>3, <2>1 DEF Leave, TurnTypeOK
  <1> QED
    BY <1>2, <1>3

TurnRow == [state : {"absent", "started", "completed"}, protocol : Protocol,
            retry : BOOLEAN, input : Input \cup {None}]

LEMMA RowUpdates ==
    ASSUME NEW t \in TurnRow
    PROVE  /\ \A b \in BOOLEAN : [t EXCEPT !.retry = b] \in TurnRow
           /\ [t EXCEPT !.state = "completed"] \in TurnRow
           /\ [t EXCEPT !.protocol = "model_attempt"] \in TurnRow
           /\ [t EXCEPT !.state = "completed", !.retry = FALSE] \in TurnRow
  BY DEF TurnRow, Protocol

LEMMA TurnStepType == Ledger /\ TurnTypeOK /\ [TurnNext]_allVars => TurnTypeOK'
  <1> SUFFICES ASSUME Ledger, TurnTypeOK, [TurnNext]_allVars PROVE TurnTypeOK'
    OBVIOUS
  <1> DEFINE Types(t, s, o, c) == /\ t \in [Work -> TurnRow]
                                  /\ s \in [Work -> Input \cup {None}]
                                  /\ o \in [Work -> Directive \cup {Blank, None}]
                                  /\ c \in [Proc -> Call]
  <1>0. Types(turn, said, output, proc)
    BY DEF TurnTypeOK, TurnRow
  <1> SUFFICES Types(turn', said', output', proc')
    BY DEF TurnTypeOK, TurnRow
  <1>a. ASSUME NEW w, w \in Work, AcknowledgeOutput(w) PROVE turn' \in [Work -> TurnRow]
    <2>1. [turn[w] EXCEPT !.state = "completed", !.retry = FALSE] \in TurnRow
      BY <1>0, <1>a, RowUpdates
    <2>2. [[turn EXCEPT ![w].state = "completed"] EXCEPT ![w].retry = FALSE] \in [Work -> TurnRow]
      BY <1>0, <1>a, <2>1, RowUpdates
    <2> QED
      BY <1>0, <1>a, <2>2 DEF AcknowledgeOutput
  <1>1. ASSUME NEW p \in Proc, NEW w \in Work, NEW i \in Input, Start(p, w, i)
        PROVE  Types(turn', said', output', proc')
    <2>1. CASE Over(w)
      BY <1>0, <1>1, <1>a, <2>1 DEF Start
    <2>2. CASE ~Over(w)
      <3>1. [proc[p] EXCEPT !.pc = "recover", !.work = w, !.input = i] \in Call
        BY <1>0 DEF Call, PC
      <3> QED
        BY <1>0, <1>1, <2>2, <3>1 DEF Start
    <2> QED
      BY <2>1, <2>2
  <1>2. ASSUME NEW p \in Proc, Step(p) PROVE Types(turn', said', output', proc')
    <2>0. WorkOf(p) \in Work /\ proc[p] \in Call /\ AttemptOf(p) \in Attempt
      BY CallAttempt, <1>0
    <2>g. \A x \in PC : Goto(p, x) => proc' \in [Proc -> Call]
      BY CallsStayTyped
    <2>l. Leave(p) => proc' \in [Proc -> Call]
      BY CallsStayTyped
    <2>1. CASE StageHandoff(p)
      BY <1>0, <2>1 DEF StageHandoff, turnVars
    <2>2. CASE FindExactResponse(p)
      <3>1. ASSUME NEW r \in Round,
                   proc' = [proc EXCEPT ![p].pc = "authorize", ![p].offset = r, ![p].round = r]
            PROVE  proc' \in [Proc -> Call]
        <4>1. [proc[p] EXCEPT !.pc = "authorize", !.offset = r, !.round = r] \in Call
          BY <2>0 DEF Call, PC
        <4> QED
          BY <1>0, <3>1, <4>1
      <3> QED
        BY <1>0, <2>2, <2>g, <3>1 DEF FindExactResponse, PC
    <2>3. CASE Claim(p)
      <3>1. NewClaim(p) \in TurnRow
        BY <2>0 DEF NewClaim, TurnRow, Protocol, Call
      <3>2. ClaimGranted(p) => turn' \in [Work -> TurnRow]
        <4>1. [turn EXCEPT ![WorkOf(p)] = NewClaim(p)] \in [Work -> TurnRow]
          BY <1>0, <2>0, <3>1
        <4>2. [turn EXCEPT ![WorkOf(p)].retry = FALSE] \in [Work -> TurnRow]
          BY <1>0, <2>0, RowUpdates
        <4> QED
          BY <4>1, <4>2 DEF ClaimGranted
      <3> QED
        BY <1>0, <1>a, <2>0, <2>3, <2>g, <2>l, <3>2 DEF Claim, PC
    <2>4. CASE AuthorizeExactResponseRecovery(p)
      BY <1>0, <2>4, <2>g, <2>l DEF AuthorizeExactResponseRecovery, PC
    <2>5. CASE AdmitInitialAttempt(p)
      BY <1>0, <2>5, <2>g, <2>l DEF AdmitInitialAttempt, PC
    <2>6. CASE MarkInitialAttemptAdmitted(p)
      <3>1. [turn EXCEPT ![WorkOf(p)].protocol = "model_attempt"] \in [Work -> TurnRow]
        BY <1>0, <2>0, RowUpdates
      <3> QED
        BY <1>0, <2>6, <2>g, <2>l, <3>1 DEF MarkInitialAttemptAdmitted, PC
    <2>7. CASE CommitUserInput(p)
      <3>1. [said EXCEPT ![WorkOf(p)] = proc[p].input] \in [Work -> Input \cup {None}]
        BY <1>0, <2>0, <2>7 DEF Call, CommitUserInput, At
      <3> QED
        BY <1>0, <2>7, <2>g, <2>l, <3>1 DEF CommitUserInput, PC
    <2>8. CASE RecoverRound(p)
      <3>1. staged[AttemptOf(p)] \in Directive \cup {None}
        BY <2>0 DEF Ledger, TypeOK
      <3>2. [proc[p] EXCEPT !.pc = "meter", !.reply = staged[AttemptOf(p)]] \in Call
        BY <2>0, <3>1 DEF Call, PC
      <3> QED
        BY <1>0, <2>8, <3>2 DEF RecoverRound
    <2>9. CASE NothingToRecover(p)
      BY <1>0, <2>9, <2>g DEF NothingToRecover, PC
    <2>10. CASE AdmitRound(p)
      BY <1>0, <2>10, <2>g, <2>l DEF AdmitRound, PC
    <2>11. CASE Dispatch(p)
      BY <1>0, <2>11, <2>g, <2>l DEF Dispatch, PC
    <2>12. CASE ProviderReturns(p)
      <3>1. ASSUME NEW d \in Reply[AttemptOf(p)]
            PROVE  [proc[p] EXCEPT !.pc = "meter", !.reply = d] \in Call
        <4>1. d \in Directive
          BY <2>0, TurnConstantsOK
        <4> QED
          BY <2>0, <4>1 DEF Call, PC
      <3> QED
        BY <1>0, <2>12, <2>l, <3>1 DEF ProviderReturns
    <2>13. CASE ProviderFails(p)
      BY <1>0, <2>13, <2>l DEF ProviderFails
    <2>14. CASE MeterRound(p)
      BY <1>0, <2>14, <2>g, <2>l DEF MeterRound, PC
    <2>15. CASE ApplyRound(p)
      <3>1. proc[p].reply \in Final =>
               [proc[p] EXCEPT !.pc = "output", !.text = proc[p].reply] \in Call
        BY <2>0, TurnConstantsOK DEF Call, PC
      <3>2. [proc[p] EXCEPT !.pc = "output", !.text = Blank] \in Call
        BY <2>0 DEF Call, PC
      <3>3. proc[p].round < MaxRound =>
               [proc[p] EXCEPT !.pc = "round", !.round = @ + 1, !.reply = None] \in Call
        <4>1. ASSUME proc[p].round < MaxRound PROVE proc[p].round + 1 \in Round
          BY <4>1, <2>0, ConstantsOK DEF Call, Round
        <4> QED
          BY <2>0, <4>1 DEF Call, PC
      <3>4. \E c \in Call : proc' = [proc EXCEPT ![p] = c]
        <4>1. CASE proc[p].reply \in Final
          BY <2>15, <3>1, <4>1 DEF ApplyRound
        <4>2. CASE proc[p].reply \notin Final /\ LastRound(p)
          BY <2>15, <3>2, <4>2 DEF ApplyRound
        <4>3. CASE proc[p].reply \notin Final /\ ~LastRound(p)
          BY <2>15, <3>3, <4>3 DEF ApplyRound
        <4> QED
          BY <4>1, <4>2, <4>3
      <3>5. UNCHANGED <<turn, said, output>>
        BY <2>15 DEF ApplyRound
      <3> QED
        BY <1>0, <3>4, <3>5
    <2>16. CASE CommitAssistantOutput(p)
      <3>1. [output EXCEPT ![WorkOf(p)] = proc[p].text] \in [Work -> Directive \cup {Blank, None}]
        BY <1>0, <2>0 DEF Call
      <3> QED
        BY <1>0, <2>16, <2>g, <2>l, <3>1 DEF CommitAssistantOutput, PC
    <2>17. CASE Complete(p)
      <3>1. [[turn EXCEPT ![WorkOf(p)].state = "completed"] EXCEPT ![WorkOf(p)].retry = FALSE]
               \in [Work -> TurnRow]
        BY <1>0, <2>0, RowUpdates
      <3> QED
        BY <1>0, <2>17, <2>l, <3>1 DEF Complete
    <2> HIDE DEF Types
    <2> QED
      BY <1>2, <2>1, <2>2, <2>3, <2>4, <2>5, <2>6, <2>7, <2>8, <2>9, <2>10, <2>11, <2>12, <2>13,
         <2>14, <2>15, <2>16, <2>17 DEF Step
  <1>3. ASSUME NEW p \in Proc, Stop(p) PROVE Types(turn', said', output', proc')
    BY <1>0, <1>3, CallsStayTyped DEF Stop
  <1>4. ASSUME NEW w \in Work, Operator(w) PROVE Types(turn', said', output', proc')
    <2>1. [turn EXCEPT ![w].retry = TRUE] \in [Work -> TurnRow]
      BY <1>0, RowUpdates
    <2>2. [[turn EXCEPT ![w].state = "completed"] EXCEPT ![w].retry = FALSE] \in [Work -> TurnRow]
      BY <1>0, RowUpdates
    <2> QED
      BY <1>0, <1>4, <2>1, <2>2 DEF Operator, AuthorizeRetry, RecoverTurnCompletion,
                                   ReconcileTurnModelNotSubmitted, turnVars
  <1>5. ASSUME NEW a \in Attempt, NEW d \in Directive, External(a, d)
        PROVE  Types(turn', said', output', proc')
    BY <1>0, <1>5 DEF External, SignerReturns, IngressAttaches, IngressStages, turnVars
  <1>6. ASSUME UNCHANGED allVars PROVE Types(turn', said', output', proc')
    BY <1>0, <1>6 DEF allVars, turnVars
  <1> HIDE DEF Types
  <1> QED
    BY <1>1, <1>2, <1>3, <1>4, <1>5, <1>6 DEF TurnNext

-----------------------------------------------------------------------------
(* The ledger rows under TurnNext.                                          *)

Unsent == {"absent", "admitted", "not_submitted"}

\* A row below the provider boundary was never sent: unlike the ledger alone, turns
\* start without rows of an earlier release.
Fresh == \A a \in Attempt : state[a] \in Unsent => request[a] = None

\* What no ledger step does, whoever takes it.
LEMMA LedgerRowMoves ==
    ASSUME Ledger, [Next]_vars, NEW a \in Attempt
    PROVE  /\ state[a] = "metered" => state'[a] = "metered"
           /\ (state[a] \in Unsent => request[a] = None)
                 => (state'[a] \in Unsent => request'[a] = None)
           /\ state[a] = "absent" /\ state'[a] # "absent"
                 => AdmitGranted(a) \/ AdoptLegacyInDoubt(a)
  <1> DEFINE Goal ==
         /\ state[a] = "metered" => state'[a] = "metered"
         /\ (state[a] \in Unsent => request[a] = None)
               => (state'[a] \in Unsent => request'[a] = None)
         /\ state[a] = "absent" /\ state'[a] # "absent"
               => AdmitGranted(a) \/ AdoptLegacyInDoubt(a)
  <1> USE DEF Ledger, TypeOK, BindingTie, Unsent, Stagable, Returned
  <1>1. ASSUME NEW b \in Attempt, AdmitGranted(b) PROVE Goal
    <2>1. CASE a = b
      BY <1>1, <2>1 DEF AdmitGranted, CanAdmit, SubmissionArtifacts
    <2>2. CASE a # b
      BY <1>1, <2>2 DEF AdmitGranted
    <2> QED
      BY <2>1, <2>2
  <1>2. ASSUME NEW b \in Attempt, AdmitRefused(b) PROVE Goal
    BY <1>2 DEF AdmitRefused, RouteToInDoubt
  <1>3. ASSUME NEW b \in Attempt, NEW q \in Request, NEW v \in BOOLEAN,
               MarkDispatching(b, q, v)
        PROVE  Goal
    BY <1>3 DEF MarkDispatching, CanDispatch
  <1>4. ASSUME NEW b \in Attempt, AdoptLegacyInDoubt(b) PROVE Goal
    <2>1. CASE a = b
      BY <1>4, <2>1 DEF AdoptLegacyInDoubt
    <2>2. CASE a # b
      BY <1>4, <2>2 DEF AdoptLegacyInDoubt
    <2> QED
      BY <2>1, <2>2
  <1>5. ASSUME NEW b \in Attempt, NEW n \in BOOLEAN,
               MarkFailure(b, n) \/ ReconcileNotSubmitted(b)
        PROVE  Goal
    BY <1>5 DEF MarkFailure, ReconcileNotSubmitted, ClaimNotSubmitted, CanDispatch,
                SubmissionArtifacts, RouteToInDoubt
  <1>6. ASSUME NEW b \in Attempt, ExactResponseDirective(b) PROVE Goal
    BY <1>6 DEF ExactResponseDirective, rowVars
  <1>7. ASSUME NEW b \in Attempt, NEW d \in Directive, RecordResponse(b, d) PROVE Goal
    BY <1>7 DEF RecordResponse, CanRecord
  <1>8. ASSUME NEW b \in Attempt, NEW d \in Directive,
               SignLateReturn(b, d) \/ AttachLateTrustedReturn(b, d)
        PROVE  Goal
    BY <1>8 DEF SignLateReturn, AttachLateTrustedReturn, MayAttach, rowVars
  <1>9. ASSUME NEW b \in Attempt, NEW d, StageExactResponse(b, d) PROVE Goal
    BY <1>9 DEF StageExactResponse, MayStage
  <1>10. ASSUME NEW b \in Attempt, NEW d \in Directive, RecordModelCall(b, d) PROVE Goal
    BY <1>10 DEF RecordModelCall
  <1>11. ASSUME NEW w \in Work, NEW r \in Round, RecoverTrustedHandoff(w, r) PROVE Goal
    BY <1>11, <1>9 DEF RecoverTrustedHandoff, Attempt
  <1>12. ASSUME UNCHANGED vars PROVE Goal
    BY <1>12 DEF vars, rowVars
  <1> HIDE DEF Ledger, Goal
  <1>13. ASSUME NEW b \in Attempt, AttemptNext(b) PROVE Goal
    BY <1>13, <1>1, <1>2, <1>3, <1>4, <1>5, <1>6, <1>7, <1>8, <1>9, <1>10 DEF AttemptNext
  <1>14. Goal
    BY <1>11, <1>12, <1>13 DEF Next
  <1> QED
    BY <1>14 DEF Goal

\* Only a call's own admission steps open an attempt.
LEMMA OnlyCallsOpenAttempts ==
    ASSUME Ledger, TurnTypeOK, [TurnNext]_allVars, NEW a \in Attempt,
           state[a] = "absent", state'[a] # "absent"
    PROVE  \E p \in Proc : \/ AdmitInitialAttempt(p) /\ a = <<WorkOf(p), 0>>
                           \/ AdmitRound(p) /\ a = AttemptOf(p)
  <1> USE DEF Ledger, TypeOK
  <1>1. ASSUME NEW b, AdmitGranted(b) PROVE a = b
    BY <1>1 DEF AdmitGranted
  <1>2. ASSUME NEW b, AdmitRefused(b) PROVE FALSE
    BY <1>2 DEF AdmitRefused, RouteToInDoubt
  <1>3. ASSUME NEW b, NEW q, NEW v, MarkDispatching(b, q, v) PROVE FALSE
    BY <1>3 DEF MarkDispatching, CanDispatch
  <1>4. ASSUME NEW b, NEW n, MarkFailure(b, n) \/ ReconcileNotSubmitted(b) PROVE FALSE
    BY <1>4 DEF MarkFailure, ReconcileNotSubmitted, ClaimNotSubmitted, CanDispatch,
                RouteToInDoubt
  <1>5. ASSUME NEW b, NEW d, \/ RecordResponse(b, d) \/ StageExactResponse(b, d)
                             \/ RecordModelCall(b, d)
        PROVE  FALSE
    BY <1>5 DEF RecordResponse, CanRecord, StageExactResponse, MayStage, RecordModelCall, Stagable, Returned
  <1>6. ASSUME NEW p \in Proc, Step(p)
        PROVE  \/ AdmitInitialAttempt(p) /\ a = <<WorkOf(p), 0>>
               \/ AdmitRound(p) /\ a = AttemptOf(p)
    <2>1. CASE StageHandoff(p)
      BY <2>1, <1>5 DEF StageHandoff, RecoverTrustedHandoff
    <2>2. CASE AdmitInitialAttempt(p)
      BY <2>2, <1>1, <1>2 DEF AdmitInitialAttempt
    <2>3. CASE AdmitRound(p)
      BY <2>3, <1>1, <1>2 DEF AdmitRound
    <2>4. CASE RecoverRound(p)
      BY <2>4 DEF RecoverRound, ExactResponseDirective, rowVars
    <2>5. CASE Dispatch(p)
      BY <2>5, <1>3 DEF Dispatch, vars, rowVars
    <2>6. CASE ProviderReturns(p)
      BY <2>6, <1>5 DEF ProviderReturns, vars, rowVars
    <2>7. CASE ProviderFails(p)
      BY <2>7, <1>4 DEF ProviderFails
    <2>8. CASE MeterRound(p)
      BY <2>8, <1>5 DEF MeterRound, vars, rowVars
    <2>9. CASE \/ FindExactResponse(p) \/ Claim(p) \/ AuthorizeExactResponseRecovery(p)
               \/ MarkInitialAttemptAdmitted(p) \/ CommitUserInput(p) \/ NothingToRecover(p)
               \/ ApplyRound(p) \/ CommitAssistantOutput(p) \/ Complete(p)
      BY <2>9 DEF FindExactResponse, Claim, AuthorizeExactResponseRecovery,
                  MarkInitialAttemptAdmitted, CommitUserInput, NothingToRecover, ApplyRound,
                  CommitAssistantOutput, Complete, vars, rowVars
    <2> QED
      BY <1>6, <2>1, <2>2, <2>3, <2>4, <2>5, <2>6, <2>7, <2>8, <2>9 DEF Step
  <1>7. ASSUME NEW w \in Work, Operator(w) PROVE FALSE
    BY <1>7, <1>4 DEF Operator, AuthorizeRetry, RecoverTurnCompletion,
                      ReconcileTurnModelNotSubmitted, vars, rowVars
  <1>8. ASSUME NEW b \in Attempt, NEW d \in Directive, External(b, d) PROVE FALSE
    BY <1>8, <1>5 DEF External, SignerReturns, SignLateReturn, IngressAttaches,
                      AttachLateTrustedReturn, MayAttach, IngressStages, rowVars
  <1>9. ASSUME \/ \E p \in Proc, w \in Work, i \in Input : Start(p, w, i)
               \/ \E p \in Proc : Stop(p)
               \/ UNCHANGED allVars
        PROVE  FALSE
    BY <1>9 DEF Start, Stop, allVars, vars, rowVars
  <1> QED
    BY <1>6, <1>7, <1>8, <1>9 DEF TurnNext

-----------------------------------------------------------------------------
(* The inductive invariant of a turn.                                       *)

Ordered(w, r) == \A s \in Round : s < r => state[<<w, s>>] = "metered"

\* Where a call stands in its turn: every round before its own is metered, and its own
\* is once the reply is applied. A call starts at round 0.
CallsInOrder ==
    \A p \in Proc :
        /\ Ordered(WorkOf(p), proc[p].round)
        /\ At(p, "apply") => state[AttemptOf(p)] = "metered"
        /\ proc[p].pc \in {"idle", "recover", "claim", "admit0"} => proc[p].round = 0

TurnInv == Ledger /\ TurnTypeOK /\ Fresh /\ RoundsInOrder /\ CallsInOrder

LEMMA TurnInitInv == TurnInit => TurnInv
  <1> SUFFICES ASSUME TurnInit PROVE TurnInv
    OBVIOUS
  <1>1. Ledger
    BY LedgerInit DEF TurnInit
  <1>2. TurnTypeOK
    BY TurnInitType
  <1>3. \A a \in Attempt : state[a] = "absent"
    BY DEF TurnInit
  <1>4. Fresh
    BY <1>1, <1>3 DEF Fresh, Ledger, BindingTie
  <1>5. RoundsInOrder
    BY <1>3 DEF RoundsInOrder, Attempt
  <1>6. \A p \in Proc : proc[p].pc = "idle" /\ proc[p].round = 0
    BY DEF TurnInit
  <1>7. CallsInOrder
    BY <1>6, ConstantsOK DEF CallsInOrder, Ordered, At, Round
  <1> QED
    BY <1>1, <1>2, <1>4, <1>5, <1>7 DEF TurnInv

\* Where a step may leave a call.
LEMMA CallMoves ==
    ASSUME TurnInv, [TurnNext]_allVars, NEW p \in Proc
    PROVE  \/ /\ proc'[p].work = proc[p].work
              /\ proc'[p].round = proc[p].round
              /\ proc'[p].pc \in {"idle", "recover", "claim", "admit0"}
                    => proc[p].pc \in {"idle", "recover", "claim", "admit0"}
              /\ proc'[p].pc = "apply" => At(p, "apply") \/ MeterRound(p)
           \/ proc'[p].round = 0 /\ proc'[p].pc # "apply"
           \/ /\ proc'[p].work = proc[p].work
              /\ proc'[p].round \in Round
              /\ PendingExactResponse(WorkOf(p), proc'[p].round)
              /\ proc'[p].pc = "authorize"
           \/ /\ proc'[p].work = proc[p].work
              /\ At(p, "apply")
              /\ proc'[p].round = proc[p].round + 1
              /\ proc'[p].pc = "round"
  <1> DEFINE Goal ==
         \/ /\ proc'[p].work = proc[p].work
            /\ proc'[p].round = proc[p].round
            /\ proc'[p].pc \in {"idle", "recover", "claim", "admit0"}
                  => proc[p].pc \in {"idle", "recover", "claim", "admit0"}
            /\ proc'[p].pc = "apply" => At(p, "apply") \/ MeterRound(p)
         \/ proc'[p].round = 0 /\ proc'[p].pc # "apply"
         \/ /\ proc'[p].work = proc[p].work
            /\ proc'[p].round \in Round
            /\ PendingExactResponse(WorkOf(p), proc'[p].round)
            /\ proc'[p].pc = "authorize"
         \/ /\ proc'[p].work = proc[p].work
            /\ At(p, "apply")
            /\ proc'[p].round = proc[p].round + 1
            /\ proc'[p].pc = "round"
  <1>0. proc \in [Proc -> Call]
    BY DEF TurnInv, TurnTypeOK
  <1>u. ASSUME UNCHANGED proc PROVE Goal
    BY <1>u DEF At
  <1>l. ASSUME NEW q \in Proc, Leave(q) PROVE Goal
    <2>1. CASE q = p
      BY <1>l, <1>0, <2>1 DEF Leave, Call
    <2>2. CASE q # p
      BY <1>l, <1>0, <2>2 DEF Leave, At
    <2> QED
      BY <2>1, <2>2
  <1>g. ASSUME NEW q \in Proc, NEW x, Goto(q, x),
               \/ x \notin {"idle", "recover", "claim", "admit0", "apply"}
               \/ x # "apply" /\ proc[q].pc \in {"idle", "recover", "claim", "admit0"}
        PROVE  Goal
    <2>1. CASE q = p
      BY <1>g, <1>0, <2>1 DEF Goto, At, Call
    <2>2. CASE q # p
      BY <1>g, <1>0, <2>2 DEF Goto, At
    <2> QED
      BY <2>1, <2>2
  <1>1. ASSUME NEW q \in Proc, NEW w \in Work, NEW i \in Input, Start(q, w, i) PROVE Goal
    <2>1. proc[q].round = 0
      BY <1>1 DEF Start, At, TurnInv, CallsInOrder
    <2>2. CASE q = p
      BY <1>1, <1>0, <1>u, <2>1, <2>2 DEF Start, Call
    <2>3. CASE q # p
      BY <1>1, <1>0, <2>3 DEF Start, At
    <2> QED
      BY <2>2, <2>3
  <1>2. ASSUME NEW q \in Proc, Step(q) PROVE Goal
    <2>1. CASE StageHandoff(q)
      BY <1>u, <2>1 DEF StageHandoff, turnVars
    <2>2. CASE FindExactResponse(q)
      <3>1. ASSUME NEW r \in Round, PendingExactResponse(WorkOf(q), r),
                   proc' = [proc EXCEPT ![q].pc = "authorize", ![q].offset = r, ![q].round = r]
            PROVE  Goal
        <4>1. CASE q = p
          BY <1>0, <3>1, <4>1 DEF Call
        <4>2. CASE q # p
          BY <1>0, <3>1, <4>2 DEF At
        <4> QED
          BY <4>1, <4>2
      <3> QED
        BY <1>g, <2>2, <3>1 DEF FindExactResponse, At
    <2>3. CASE Claim(q)
      BY <1>g, <1>l, <2>3 DEF Claim, At
    <2>4. CASE AuthorizeExactResponseRecovery(q)
      BY <1>g, <1>l, <2>4 DEF AuthorizeExactResponseRecovery, At
    <2>5. CASE AdmitInitialAttempt(q)
      BY <1>g, <1>l, <2>5 DEF AdmitInitialAttempt, At
    <2>6. CASE MarkInitialAttemptAdmitted(q)
      BY <1>g, <1>l, <2>6 DEF MarkInitialAttemptAdmitted, At
    <2>7. CASE CommitUserInput(q)
      BY <1>g, <1>l, <2>7 DEF CommitUserInput, At
    <2>8. CASE RecoverRound(q)
      <3>1. CASE q = p
        BY <1>0, <2>8, <3>1 DEF RecoverRound, Call
      <3>2. CASE q # p
        BY <1>0, <2>8, <3>2 DEF RecoverRound, At
      <3> QED
        BY <3>1, <3>2
    <2>9. CASE NothingToRecover(q)
      BY <1>g, <2>9 DEF NothingToRecover, At
    <2>10. CASE AdmitRound(q)
      BY <1>g, <1>l, <2>10 DEF AdmitRound, At
    <2>11. CASE Dispatch(q)
      BY <1>g, <1>l, <2>11 DEF Dispatch, At
    <2>12. CASE ProviderReturns(q)
      <3>1. ASSUME NEW d, proc' = [proc EXCEPT ![q].pc = "meter", ![q].reply = d] PROVE Goal
        <4>1. CASE q = p
          BY <1>0, <3>1, <4>1 DEF Call
        <4>2. CASE q # p
          BY <1>0, <3>1, <4>2 DEF At
        <4> QED
          BY <4>1, <4>2
      <3> QED
        BY <1>l, <2>12, <3>1 DEF ProviderReturns
    <2>13. CASE ProviderFails(q)
      BY <1>l, <2>13 DEF ProviderFails
    <2>14. CASE MeterRound(q)
      <3>1. CASE Goto(q, "apply") /\ q = p
        BY <1>0, <2>14, <3>1 DEF Goto, Call
      <3>2. CASE Goto(q, "apply") /\ q # p
        BY <1>0, <3>2 DEF Goto, At
      <3> QED
        BY <1>l, <2>14, <3>1, <3>2 DEF MeterRound
    <2>15. CASE ApplyRound(q)
      <3>1. CASE q # p
        BY <1>0, <2>15, <3>1 DEF ApplyRound, At
      <3>2. CASE q = p /\ proc[q].reply \in Final
        BY <1>0, <2>15, <3>2 DEF ApplyRound, Call
      <3>3. CASE q = p /\ proc[q].reply \notin Final /\ LastRound(q)
        BY <1>0, <2>15, <3>3 DEF ApplyRound, Call
      <3>4. CASE q = p /\ proc[q].reply \notin Final /\ ~LastRound(q)
        BY <1>0, <2>15, <3>4 DEF ApplyRound, Call, At
      <3> QED
        BY <3>1, <3>2, <3>3, <3>4
    <2>16. CASE CommitAssistantOutput(q)
      BY <1>g, <1>l, <2>16 DEF CommitAssistantOutput, At
    <2>17. CASE Complete(q)
      BY <1>l, <2>17 DEF Complete
    <2> HIDE DEF Goal
    <2> QED
      BY <1>2, <2>1, <2>2, <2>3, <2>4, <2>5, <2>6, <2>7, <2>8, <2>9, <2>10, <2>11, <2>12, <2>13,
         <2>14, <2>15, <2>16, <2>17 DEF Step
  <1>3. ASSUME NEW q \in Proc, Stop(q) PROVE Goal
    BY <1>3, <1>l DEF Stop
  <1>4. ASSUME NEW w \in Work, Operator(w) PROVE Goal
    BY <1>4, <1>u DEF Operator, AuthorizeRetry, RecoverTurnCompletion,
                      ReconcileTurnModelNotSubmitted, turnVars
  <1>5. ASSUME NEW a \in Attempt, NEW d \in Directive, External(a, d) PROVE Goal
    BY <1>5, <1>u DEF External, SignerReturns, IngressAttaches, IngressStages, turnVars
  <1>6. ASSUME UNCHANGED allVars PROVE Goal
    BY <1>6, <1>u DEF allVars, turnVars
  <1> HIDE DEF Goal
  <1>7. Goal
    BY <1>1, <1>2, <1>3, <1>4, <1>5, <1>6 DEF TurnNext
  <1> QED
    BY <1>7 DEF Goal

LEMMA TurnStepInv == TurnInv /\ [TurnNext]_allVars => TurnInv'
  <1> SUFFICES ASSUME TurnInv, [TurnNext]_allVars PROVE TurnInv'
    OBVIOUS
  <1>1. [Next]_vars
    BY TurnStepIsLedgerStep DEF TurnInv
  <1>2. Ledger'
    BY <1>1, LedgerStep DEF TurnInv
  <1>3. TurnTypeOK'
    BY TurnStepType DEF TurnInv
  <1>4. \A a \in Attempt : state[a] = "metered" => state'[a] = "metered"
    BY <1>1, LedgerRowMoves DEF TurnInv
  <1>5. Fresh'
    BY <1>1, LedgerRowMoves DEF TurnInv, Fresh
  <1>6. ASSUME NEW w \in Work, NEW r \in Round, Ordered(w, r) PROVE Ordered(w, r)'
    BY <1>4, <1>6 DEF Ordered, Attempt
  <1>7. RoundsInOrder'
    <2> SUFFICES ASSUME NEW w \in Work, NEW r \in Round, NEW s \in Round,
                        s < r, state'[<<w, r>>] # "absent"
                 PROVE  state'[<<w, s>>] = "metered"
      BY DEF RoundsInOrder
    <2>0. <<w, r>> \in Attempt /\ <<w, s>> \in Attempt
      BY DEF Attempt
    <2>1. CASE state[<<w, r>>] # "absent"
      BY <2>0, <2>1, <1>4 DEF TurnInv, RoundsInOrder
    <2>2. CASE state[<<w, r>>] = "absent"
      <3>1. PICK p \in Proc : \/ AdmitInitialAttempt(p) /\ <<w, r>> = <<WorkOf(p), 0>>
                              \/ AdmitRound(p) /\ <<w, r>> = AttemptOf(p)
        BY <2>0, <2>2, OnlyCallsOpenAttempts DEF TurnInv
      <3>2. r # 0
        BY ConstantsOK DEF Round
      <3>3. w = WorkOf(p) /\ r = proc[p].round
        BY <3>1, <3>2 DEF AttemptOf, WorkOf
      <3>4. Ordered(w, r)
        BY <3>3 DEF TurnInv, CallsInOrder
      <3> QED
        BY <2>0, <3>4, <1>4 DEF Ordered
    <2> QED
      BY <2>1, <2>2
  <1>8. CallsInOrder'
    <2> SUFFICES ASSUME NEW p \in Proc
                 PROVE  /\ Ordered(proc[p].work, proc[p].round)'
                        /\ proc'[p].pc = "apply" =>
                              state'[<<proc'[p].work, proc'[p].round>>] = "metered"
                        /\ proc'[p].pc \in {"idle", "recover", "claim", "admit0"}
                              => proc'[p].round = 0
      BY DEF CallsInOrder, At, WorkOf, AttemptOf
    <2>0. /\ proc[p].work \in Work /\ proc[p].round \in Round
          /\ proc'[p].work \in Work /\ proc'[p].round \in Round
      BY <1>3 DEF TurnInv, TurnTypeOK, Call
    <2>1. /\ Ordered(proc[p].work, proc[p].round)
          /\ At(p, "apply") => state[<<proc[p].work, proc[p].round>>] = "metered"
          /\ proc[p].pc \in {"idle", "recover", "claim", "admit0"} => proc[p].round = 0
      BY DEF TurnInv, CallsInOrder, WorkOf, AttemptOf
    <2>2. CASE /\ proc'[p].work = proc[p].work
               /\ proc'[p].round = proc[p].round
               /\ proc'[p].pc \in {"idle", "recover", "claim", "admit0"}
                     => proc[p].pc \in {"idle", "recover", "claim", "admit0"}
               /\ proc'[p].pc = "apply" => At(p, "apply") \/ MeterRound(p)
      <3>1. Ordered(proc[p].work, proc[p].round)'
        BY <2>0, <2>1, <2>2, <1>4 DEF Ordered, Attempt
      <3>2. ASSUME MeterRound(p), proc'[p].pc = "apply"
            PROVE  state'[<<proc[p].work, proc[p].round>>] = "metered"
        <4>1. proc \in [Proc -> Call]
          BY DEF TurnInv, TurnTypeOK
        <4>2. ASSUME Leave(p) PROVE proc'[p].pc = "idle"
          BY <4>1, <4>2 DEF Leave, Call
        <4>3. RecordModelCall(AttemptOf(p), proc[p].reply)
          BY <3>2, <4>2 DEF MeterRound, Goto
        <4> QED
          BY <4>3, <2>0 DEF RecordModelCall, AttemptOf, WorkOf, Attempt, TurnInv, Ledger, TypeOK
      <3>3. At(p, "apply") => state'[<<proc[p].work, proc[p].round>>] = "metered"
        BY <2>0, <2>1, <1>4 DEF Attempt
      <3> QED
        BY <2>1, <2>2, <3>1, <3>2, <3>3
    <2>3. CASE proc'[p].round = 0 /\ proc'[p].pc # "apply"
      BY <2>3, ConstantsOK DEF Ordered, Round
    <2>4. CASE /\ proc'[p].work = proc[p].work
               /\ proc'[p].round \in Round
               /\ PendingExactResponse(WorkOf(p), proc'[p].round)
               /\ proc'[p].pc = "authorize"
      <3>1. state[<<proc[p].work, proc'[p].round>>] # "absent"
        BY <2>4 DEF PendingExactResponse, IsLatest, Rows, WorkOf
      <3>2. Ordered(proc[p].work, proc[p].round)'
        BY <2>0, <2>4, <3>1, <1>4 DEF TurnInv, RoundsInOrder, Ordered, Attempt
      <3> QED
        BY <2>4, <3>2
    <2>5. CASE /\ proc'[p].work = proc[p].work
               /\ At(p, "apply")
               /\ proc'[p].round = proc[p].round + 1
               /\ proc'[p].pc = "round"
      <3>1. ASSUME NEW s \in Round, s < proc[p].round + 1
            PROVE  state'[<<proc[p].work, s>>] = "metered"
        <4>1. s < proc[p].round \/ s = proc[p].round
          BY <3>1, <2>0, ConstantsOK DEF Round
        <4>2. state[<<proc[p].work, s>>] = "metered"
          BY <4>1, <2>1, <2>5 DEF Ordered
        <4> QED
          BY <4>2, <2>0, <1>4 DEF Attempt
      <3>2. Ordered(proc[p].work, proc[p].round)'
        BY <2>5, <3>1 DEF Ordered
      <3> QED
        BY <2>5, <3>2
    <2> QED
      BY <2>2, <2>3, <2>4, <2>5, CallMoves
  <1> QED
    BY <1>2, <1>3, <1>5, <1>7, <1>8 DEF TurnInv

-----------------------------------------------------------------------------
(* Theorems.                                                                *)

THEOREM TurnInvariant == TurnSpec => []TurnInv
  BY TurnInitInv, TurnStepInv, PTL DEF TurnSpec

\* Rows, calls and observations keep their types.
THEOREM TurnTypeThm == TurnSpec => []TurnTypeOK
  <1>1. TurnInv => TurnTypeOK
    BY DEF TurnInv
  <1> QED
    BY <1>1, TurnInvariant, PTL

\* Rounds are opened in order: recovery of the latest round skips no unresolved one.
THEOREM RoundsInOrderThm == TurnSpec => []RoundsInOrder
  <1>1. TurnInv => RoundsInOrder
    BY DEF TurnInv
  <1> QED
    BY <1>1, TurnInvariant, PTL

\* Turns, operators and external returns only take steps the attempt ledger allows.
THEOREM LedgerKeptThm == TurnSpec => LedgerKept
  <1>1. TurnInit => Init
    BY DEF TurnInit
  <1>2. TurnInv /\ [TurnNext]_allVars => [Next]_vars
    BY TurnStepIsLedgerStep DEF TurnInv
  <1> QED
    BY <1>1, <1>2, TurnInvariant, PTL DEF TurnSpec, LedgerKept, Spec

\* So, through whatever retries and recoveries a turn goes, no model round of it is
\* sent to the provider twice.
THEOREM TurnSubmitsOnceThm == TurnSpec => []AtMostOneSubmission
  BY LedgerKeptThm, AtMostOneSubmissionThm, PTL DEF LedgerKept

\* A retry is authorized only while no request of the turn has ever been sent.
THEOREM RetryOnlyOnProofThm == TurnSpec => RetryOnlyOnProof
  <1>1. TurnInv /\ [TurnNext]_allVars =>
           [\A w \in Work :
               ~turn[w].retry /\ turn'[w].retry =>
                   \A r \in Round : submissions[<<w, r>>] = 0]_allVars
    <2> SUFFICES ASSUME TurnInv, [TurnNext]_allVars, NEW w \in Work,
                        ~turn[w].retry, turn'[w].retry, NEW r \in Round
                 PROVE  submissions[<<w, r>>] = 0
      OBVIOUS
    <2>0. turn \in [Work -> TurnRow] /\ <<w, r>> \in Attempt
      BY DEF TurnInv, TurnTypeOK, TurnRow, Attempt
    <2>1. AuthorizeRetry(w)
      <3>1. ASSUME NEW v, AcknowledgeOutput(v) PROVE FALSE
        BY <2>0, <3>1 DEF AcknowledgeOutput, TurnRow
      <3>2. ASSUME UNCHANGED turn PROVE FALSE
        BY <3>2
      <3>3. ASSUME NEW p \in Proc, Step(p) PROVE FALSE
        <4>1. CASE Claim(p)
          <5>1. CASE ClaimGranted(p)
            BY <2>0, <5>1 DEF ClaimGranted, NewClaim, TurnRow
          <5> QED
            BY <4>1, <5>1, <3>1, <3>2 DEF Claim
        <4>2. CASE MarkInitialAttemptAdmitted(p)
          BY <2>0, <4>2 DEF MarkInitialAttemptAdmitted, TurnRow
        <4>3. CASE Complete(p)
          BY <2>0, <4>3 DEF Complete, TurnRow
        <4>4. CASE \/ StageHandoff(p) \/ FindExactResponse(p) \/ AuthorizeExactResponseRecovery(p)
                   \/ AdmitInitialAttempt(p) \/ CommitUserInput(p) \/ RecoverRound(p)
                   \/ NothingToRecover(p) \/ AdmitRound(p) \/ Dispatch(p) \/ ProviderReturns(p)
                   \/ ProviderFails(p) \/ MeterRound(p) \/ ApplyRound(p)
                   \/ CommitAssistantOutput(p)
          BY <4>4, <3>2 DEF StageHandoff, turnVars, FindExactResponse,
             AuthorizeExactResponseRecovery, AdmitInitialAttempt, CommitUserInput, RecoverRound,
             NothingToRecover, AdmitRound, Dispatch, ProviderReturns, ProviderFails, MeterRound,
             ApplyRound, CommitAssistantOutput
        <4> QED
          BY <3>3, <4>1, <4>2, <4>3, <4>4 DEF Step
      <3>4. ASSUME \/ \E p \in Proc, v \in Work, i \in Input : Start(p, v, i)
                   \/ \E p \in Proc : Stop(p)
                   \/ \E a \in Attempt, d \in Directive : External(a, d)
                   \/ UNCHANGED allVars
            PROVE  FALSE
        BY <3>1, <3>2, <3>4 DEF Start, Stop, External, SignerReturns, IngressAttaches,
                                IngressStages, turnVars, allVars
      <3>5. PICK v \in Work : Operator(v)
        BY <3>3, <3>4 DEF TurnNext
      <3>6. AuthorizeRetry(v)
        <4>1. CASE RecoverTurnCompletion(v)
          BY <2>0, <4>1 DEF RecoverTurnCompletion, TurnRow
        <4> QED
          BY <3>5, <4>1, <3>2 DEF Operator, ReconcileTurnModelNotSubmitted, turnVars
      <3>7. v = w
        BY <2>0, <3>6 DEF AuthorizeRetry, TurnRow
      <3> QED
        BY <3>6, <3>7
    <2>2. state[<<w, r>>] \in Unsent
      <3>1. ProvenNotSent(w)
        BY <2>1 DEF AuthorizeRetry
      <3> QED
        BY <3>1 DEF ProvenNotSent, StatesOf, Unsent
    <2>3. request[<<w, r>>] = None
      BY <2>0, <2>2 DEF TurnInv, Fresh
    <2> QED
      BY <2>0, <2>3 DEF TurnInv, Ledger, BindingTie
  <1> QED
    BY <1>1, TurnInvariant, PTL DEF TurnSpec, RetryOnlyOnProof
=============================================================================
