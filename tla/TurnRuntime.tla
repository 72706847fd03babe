---------------------------- MODULE TurnRuntime ----------------------------
(***************************************************************************)
(* One user turn: FusedTurnRuntime.run_turn and its recovery surface over  *)
(* the TurnExecutionStore row, the attempt ledger and the conversation.    *)
(*                                                                         *)
(* Several run_turn calls (Proc) may be alive on one database: the first   *)
(* one, a client retry, a restarted process. Each step below is one        *)
(* transaction; what a call has read lives in proc. A call may stop at any *)
(* step: the process dies, or an exception it does not handle (a world     *)
(* revision conflict, a failing capability) unwinds it.                    *)
(***************************************************************************)
EXTENDS ModelAttempt

CONSTANTS
    Proc,         \* run_turn calls that may be alive at the same time
    Input,        \* digests of user input and time
    Reply,        \* Attempt -> the replies the provider may give to its request
    Final,        \* directives that end a turn: silence, or a response needing no reads
    Blank,        \* the empty text committed when the round budget runs out
    RoundBudget   \* max_tool_rounds + 1, the model rounds one call may run

ASSUME TurnConstantsOK ==
    /\ Reply \in [Attempt -> SUBSET Directive]
    /\ Final \subseteq Directive
    /\ None \notin Input \cup {Blank}
    /\ RoundBudget \in Nat \ {0}

VARIABLES
    turn,     \* runtime_turn_executions
    said,     \* the user observation of the turn
    output,   \* the assistant observation of the turn
    proc      \* the run_turn calls

turnVars == <<turn, said, output, proc>>
allVars  == <<vars, turnVars>>

Protocol == {"none", "pre_admission", "model_attempt"}

PC == {"idle", "recover", "claim", "authorize", "admit0", "promote", "say", "round",
       "admit", "dispatch", "provider", "meter", "apply", "output", "complete"}

Call == [pc : PC, work : Work, input : Input, offset : Round, round : Round,
         reply : Directive \cup {None}, text : Directive \cup {Blank, None}]

TurnTypeOK ==
    /\ turn \in [Work -> [state : {"absent", "started", "completed"}, protocol : Protocol,
                          retry : BOOLEAN, input : Input \cup {None}]]
    /\ said \in [Work -> Input \cup {None}]
    /\ output \in [Work -> Directive \cup {Blank, None}]
    /\ proc \in [Proc -> Call]

NoTurn == [state |-> "absent", protocol |-> "none", retry |-> FALSE, input |-> None]

\* Turns an earlier release left: a claim without a protocol, an output without a claim.
TurnInit ==
    /\ Init /\ \A a \in Attempt : state[a] = "absent"
    /\ \E claimed, answered \in SUBSET Work, i \in Input :
          /\ turn = [w \in Work |->
                IF w \in claimed THEN [NoTurn EXCEPT !.state = "started", !.input = i] ELSE NoTurn]
          /\ output = [w \in Work |-> IF w \in answered THEN Blank ELSE None]
          /\ said = [w \in Work |-> IF w \in claimed \cup answered THEN i ELSE None]
    /\ proc \in [Proc -> [pc : {"idle"}, work : Work, input : Input, offset : {0}, round : {0},
                          reply : {None}, text : {None}]]

-----------------------------------------------------------------------------
At(p, pc) == proc[p].pc = pc
WorkOf(p) == proc[p].work
AttemptOf(p) == <<proc[p].work, proc[p].round>>

Goto(p, pc) == proc' = [proc EXCEPT ![p].pc = pc]

\* The call ends, by returning or by raising.
Leave(p) == proc' = [proc EXCEPT ![p] = [@ EXCEPT !.pc = "idle", !.offset = 0, !.round = 0,
                                                  !.reply = None, !.text = None]]

RowMatches(p) == turn[WorkOf(p)].input = proc[p].input
Over(w) == turn[w].state = "completed" \/ output[w] # None

\* A durable output turns a started claim into a completed one; the caller is told.
AcknowledgeOutput(w) ==
    turn' = IF turn[w].state = "started" /\ output[w] # None
            THEN [turn EXCEPT ![w].state = "completed", ![w].retry = FALSE]
            ELSE turn

\* run_turn reads the row first; an answered turn is only acknowledged.
Start(p, w, i) ==
    /\ At(p, "idle")
    /\ turn[w].state = "absent" \/ turn[w].input = i
    /\ IF Over(w)
       THEN AcknowledgeOutput(w) /\ UNCHANGED proc
       ELSE /\ proc' = [proc EXCEPT ![p] = [@ EXCEPT !.pc = "recover", !.work = w, !.input = i]]
            /\ UNCHANGED turn
    /\ UNCHANGED <<vars, said, output>>

HandoffWaiting(w, r) ==
    IsLatest(w, r) /\ EarlierMetered(w, r) /\ handoff[<<w, r>>] # None /\ staged[<<w, r>>] = None

\* recover_trusted_handoff stages a waiting handoff before it answers.
StageHandoff(p) ==
    /\ At(p, "recover") \/ At(p, "round")
    /\ \E r \in Round : RecoverTrustedHandoff(WorkOf(p), r)
    /\ UNCHANGED turnVars

NoHandoffWaiting(w) == \A r \in Round : ~HandoffWaiting(w, r)

\* An exact reply fixes the round to resume; without one the turn must be claimed.
FindExactResponse(p) ==
    /\ At(p, "recover")
    /\ NoHandoffWaiting(WorkOf(p))
    /\ \/ \E r \in Round :
             /\ PendingExactResponse(WorkOf(p), r)
             /\ proc' = [proc EXCEPT ![p].pc = "authorize", ![p].offset = r, ![p].round = r]
       \/ /\ \A r \in Round : ~PendingExactResponse(WorkOf(p), r)
          /\ Goto(p, "claim")
    /\ UNCHANGED <<vars, turn, said, output>>

-----------------------------------------------------------------------------
(* TurnExecutionStore.                                                     *)

NewClaim(p) == [state |-> "started", protocol |-> "pre_admission", retry |-> FALSE,
                input |-> proc[p].input]

\* A fresh turn is claimed once; a started one only by consuming an authorized retry.
ClaimGranted(p) ==
    LET w == WorkOf(p) IN
    /\ output[w] = None
    /\ \/ turn[w].state = "absent" /\ turn' = [turn EXCEPT ![w] = NewClaim(p)]
       \/ /\ turn[w].state = "started" /\ RowMatches(p) /\ turn[w].retry
          /\ turn' = [turn EXCEPT ![w].retry = FALSE]

Claim(p) ==
    /\ At(p, "claim")
    /\ \/ ClaimGranted(p) /\ Goto(p, "admit0")
       \/ /\ \/ output[WorkOf(p)] # None
             \/ /\ turn[WorkOf(p)].state # "absent"
                /\ ~(RowMatches(p) /\ turn[WorkOf(p)].retry)
          /\ IF RowMatches(p) THEN AcknowledgeOutput(WorkOf(p)) ELSE UNCHANGED turn
          /\ Leave(p)
    /\ UNCHANGED <<vars, said, output>>

\* The states authorize_exact_response_recovery calls durable for this turn: its
\* latest staged attempt has returned.
StagedExactResponse(w) ==
    \E r \in Round :
        /\ staged[<<w, r>>] # None
        /\ \A s \in Round : staged[<<w, s>>] # None => s <= r
        /\ state[<<w, r>>] \in Returned

MayResume(p) ==
    LET w == WorkOf(p) IN
    /\ turn[w].state = "started" /\ RowMatches(p)
    /\ output[w] = None
    /\ ~turn[w].retry
    /\ StagedExactResponse(w)

AuthorizeExactResponseRecovery(p) ==
    /\ At(p, "authorize")
    /\ IF MayResume(p) THEN Goto(p, "promote") ELSE Leave(p)
    /\ UNCHANGED <<vars, turn, said, output>>

AdmitInitialAttempt(p) ==
    /\ At(p, "admit0")
    /\ \/ AdmitGranted(<<WorkOf(p), 0>>) /\ Goto(p, "promote")
       \/ AdmitRefused(<<WorkOf(p), 0>>) /\ Leave(p)
    /\ UNCHANGED <<turn, said, output>>

MayPromote(p) ==
    LET w == WorkOf(p) IN
    /\ turn[w].state = "started" /\ RowMatches(p)
    /\ output[w] = None
    /\ \/ turn[w].protocol = "model_attempt"
       \/ turn[w].protocol = "pre_admission" /\ state[<<w, 0>>] # "absent"

\* Mistaken variant: the rounds start before the user's words are committed.
PromoteAndInfer(p) ==
    /\ At(p, "promote")
    /\ IF MayPromote(p)
       THEN turn' = [turn EXCEPT ![WorkOf(p)].protocol = "model_attempt"] /\ Goto(p, "round")
       ELSE Leave(p) /\ UNCHANGED turn
    /\ UNCHANGED <<vars, said, output>>

MarkInitialAttemptAdmitted(p) ==
    /\ At(p, "promote")
    /\ IF MayPromote(p)
       THEN turn' = [turn EXCEPT ![WorkOf(p)].protocol = "model_attempt"] /\ Goto(p, "say")
       ELSE Leave(p) /\ UNCHANGED turn
    /\ UNCHANGED <<vars, said, output>>

\* The user's words enter the world before inference; a replay commits nothing new.
CommitUserInput(p) ==
    /\ At(p, "say")
    /\ IF said[WorkOf(p)] \in {None, proc[p].input}
       THEN said' = [said EXCEPT ![WorkOf(p)] = proc[p].input] /\ Goto(p, "round")
       ELSE Leave(p) /\ UNCHANGED said
    /\ UNCHANGED <<vars, turn, output>>

-----------------------------------------------------------------------------
(* The model rounds of CognitiveRuntime.run_turn.                          *)

\* A verified exact reply for this very round replaces admission, dispatch and call.
RecoverRound(p) ==
    /\ At(p, "round")
    /\ NoHandoffWaiting(WorkOf(p))
    /\ PendingExactResponse(WorkOf(p), proc[p].round)
    /\ ExactResponseDirective(AttemptOf(p))
    /\ proc' = [proc EXCEPT ![p].pc = "meter", ![p].reply = staged[AttemptOf(p)]]
    /\ UNCHANGED <<turn, said, output>>

NothingToRecover(p) ==
    /\ At(p, "round")
    /\ NoHandoffWaiting(WorkOf(p))
    /\ ~PendingExactResponse(WorkOf(p), proc[p].round)
    /\ Goto(p, "admit")
    /\ UNCHANGED <<vars, turn, said, output>>

AdmitRound(p) ==
    /\ At(p, "admit")
    /\ \/ AdmitGranted(AttemptOf(p)) /\ Goto(p, "dispatch")
       \/ AdmitRefused(AttemptOf(p)) /\ Leave(p)
    /\ UNCHANGED <<turn, said, output>>

\* Mistaken variant: a refused boundary is waited for.
DispatchWhenFree(p) ==
    /\ At(p, "dispatch")
    /\ \E q \in Request, v \in BOOLEAN : MarkDispatching(AttemptOf(p), q, v)
    /\ Goto(p, "provider")
    /\ UNCHANGED <<turn, said, output>>

\* A refused boundary raises outside the handler's try: nothing is recorded.
Dispatch(p) ==
    /\ At(p, "dispatch")
    /\ \/ /\ \E q \in Request, v \in BOOLEAN : MarkDispatching(AttemptOf(p), q, v)
          /\ Goto(p, "provider")
       \/ ~CanDispatch(AttemptOf(p)) /\ Leave(p) /\ UNCHANGED vars
    /\ UNCHANGED <<turn, said, output>>

\* Mistaken variants: the round is applied before it is metered; the reply is used
\* without being recorded.
ProviderReturnsUnmetered(p) ==
    /\ At(p, "provider")
    /\ \E d \in Reply[AttemptOf(p)] :
          /\ RecordResponse(AttemptOf(p), d)
          /\ proc' = [proc EXCEPT ![p].pc = "apply", ![p].reply = d]
    /\ UNCHANGED <<turn, said, output>>

ProviderReturnsUnrecorded(p) ==
    /\ At(p, "provider")
    /\ \E d \in Reply[AttemptOf(p)] :
          /\ held' = held \cup {<<AttemptOf(p), d>>}
          /\ proc' = [proc EXCEPT ![p].pc = "apply", ![p].reply = d]
    /\ UNCHANGED <<rowVars, trustVars, meterRows, submissions, signed, turn, said, output>>

\* The handler answers; a reply the ledger refuses is lost with the exception.
ProviderReturns(p) ==
    /\ At(p, "provider")
    /\ \E d \in Reply[AttemptOf(p)] :
          \/ /\ RecordResponse(AttemptOf(p), d)
             /\ proc' = [proc EXCEPT ![p].pc = "meter", ![p].reply = d]
          \/ ~CanRecord(AttemptOf(p), d) /\ Leave(p) /\ UNCHANGED vars
    /\ UNCHANGED <<turn, said, output>>

ProviderFails(p) ==
    /\ At(p, "provider")
    /\ \E claimed \in BOOLEAN : MarkFailure(AttemptOf(p), claimed)
    /\ Leave(p)
    /\ UNCHANGED <<turn, said, output>>

MeterRound(p) ==
    /\ At(p, "meter")
    /\ \/ RecordModelCall(AttemptOf(p), proc[p].reply) /\ Goto(p, "apply")
       \/ /\ ~(state[AttemptOf(p)] \in Returned /\ MeterAccepts(AttemptOf(p), proc[p].reply))
          /\ Leave(p)
          /\ UNCHANGED vars
    /\ UNCHANGED <<turn, said, output>>

LastRound(p) == proc[p].round - proc[p].offset >= RoundBudget - 1

\* A final directive is the answer; otherwise the capability results feed one more
\* round, or the budget is exhausted and the answer is empty.
ApplyRound(p) ==
    /\ At(p, "apply")
    /\ \/ /\ proc[p].reply \in Final
          /\ proc' = [proc EXCEPT ![p].pc = "output", ![p].text = proc[p].reply]
       \/ /\ proc[p].reply \notin Final
          /\ IF LastRound(p)
             THEN proc' = [proc EXCEPT ![p].pc = "output", ![p].text = Blank]
             ELSE /\ proc[p].round < MaxRound   \* bound
                  /\ proc' = [proc EXCEPT ![p].pc = "round", ![p].round = @ + 1,
                                          ![p].reply = None]
    /\ UNCHANGED <<vars, turn, said, output>>

\* Mistaken variant: the assistant observation is overwritten by a later run.
CommitAssistantOutputAgain(p) ==
    /\ At(p, "output")
    /\ output' = [output EXCEPT ![WorkOf(p)] = proc[p].text]
    /\ Goto(p, "complete")
    /\ UNCHANGED <<vars, turn, said>>

\* Same identity, same text: a replay. Same identity, other text: refused.
CommitAssistantOutput(p) ==
    /\ At(p, "output")
    /\ IF output[WorkOf(p)] \in {None, proc[p].text}
       THEN output' = [output EXCEPT ![WorkOf(p)] = proc[p].text] /\ Goto(p, "complete")
       ELSE Leave(p) /\ UNCHANGED output
    /\ UNCHANGED <<vars, turn, said>>

\* Mistaken variant: a state the table does not know.
CompleteUnknownState(p) ==
    /\ At(p, "complete")
    /\ turn' = [turn EXCEPT ![WorkOf(p)].state = "closed"]
    /\ Leave(p)
    /\ UNCHANGED <<vars, said, output>>

\* complete() raises when another call has already acknowledged the output.
Complete(p) ==
    /\ At(p, "complete")
    /\ turn' = IF turn[WorkOf(p)].state = "started"
               THEN [turn EXCEPT ![WorkOf(p)].state = "completed", ![WorkOf(p)].retry = FALSE]
               ELSE turn
    /\ Leave(p)
    /\ UNCHANGED <<vars, said, output>>

Stop(p) ==
    /\ ~At(p, "idle")
    /\ Leave(p)
    /\ UNCHANGED <<vars, turn, said, output>>

-----------------------------------------------------------------------------
(* The operator's recovery surface and the external return route.          *)

StatesOf(w) == {state[<<w, r>>] : r \in Round} \ {"absent"}

\* Mistaken variant: the latest attempt alone is looked at.
ProvenNotSentByLatest(w) ==
    \/ turn[w].protocol = "pre_admission" /\ StatesOf(w) = {}
    \/ \E r \in Round : IsLatest(w, r) /\ state[<<w, r>>] \in {"admitted", "not_submitted"}

ProvenNotSent(w) ==
    \/ turn[w].protocol = "pre_admission" /\ StatesOf(w) = {}
    \/ /\ turn[w].protocol # "none" /\ StatesOf(w) # {}
       /\ StatesOf(w) \subseteq {"admitted", "not_submitted"}

AuthorizeRetry(w) ==
    /\ turn[w].state = "started"
    /\ output[w] = None
    /\ ProvenNotSent(w)
    /\ turn' = [turn EXCEPT ![w].retry = TRUE]
    /\ UNCHANGED <<vars, said, output, proc>>

ReconcileTurnModelNotSubmitted(w, r) ==
    /\ turn[w].state # "absent"
    /\ ReconcileNotSubmitted(<<w, r>>)
    /\ UNCHANGED turnVars

RecoverTurnCompletion(w) ==
    /\ turn[w].state # "absent"
    /\ output[w] # None
    /\ turn' = [turn EXCEPT ![w].state = "completed", ![w].retry = FALSE]
    /\ UNCHANGED <<vars, said, output, proc>>

\* The signer observes a genuine return of a request that was sent.
SignerReturns(a, d) ==
    /\ submissions[a] > 0
    /\ d \in Reply[a]
    /\ SignLateReturn(a, d)
    /\ UNCHANGED turnVars

IngressAttaches(a, d) == AttachLateTrustedReturn(a, d) /\ UNCHANGED turnVars
IngressStages(a, d) == StageExactResponse(a, d) /\ UNCHANGED turnVars

-----------------------------------------------------------------------------
Step(p) ==
    \/ StageHandoff(p) \/ FindExactResponse(p)
    \/ Claim(p) \/ AuthorizeExactResponseRecovery(p)
    \/ AdmitInitialAttempt(p) \/ MarkInitialAttemptAdmitted(p) \/ CommitUserInput(p)
    \/ RecoverRound(p) \/ NothingToRecover(p) \/ AdmitRound(p) \/ Dispatch(p)
    \/ ProviderReturns(p) \/ ProviderFails(p) \/ MeterRound(p) \/ ApplyRound(p)
    \/ CommitAssistantOutput(p) \/ Complete(p)

Operator(w) ==
    \/ AuthorizeRetry(w)
    \/ RecoverTurnCompletion(w)
    \/ \E r \in Round : ReconcileTurnModelNotSubmitted(w, r)

External(a, d) == SignerReturns(a, d) \/ IngressAttaches(a, d) \/ IngressStages(a, d)

TurnNext ==
    \/ \E p \in Proc, w \in Work, i \in Input : Start(p, w, i)
    \/ \E p \in Proc : Step(p) \/ Stop(p)
    \/ \E w \in Work : Operator(w)
    \/ \E a \in Attempt, d \in Directive : External(a, d)

TurnSpec == TurnInit /\ [][TurnNext]_allVars

\* A call keeps running, and its provider answers or fails; nothing else is owed.
TurnFairSpec == TurnSpec /\ \A p \in Proc : WF_allVars(Step(p))

\* inspect reports exact_response_ready.
ExactResponseReady(w) ==
    /\ turn[w].state = "started" /\ output[w] = None
    /\ ~turn[w].retry
    /\ turn[w].protocol # "none"
    /\ ~ProvenNotSent(w)
    /\ StagedExactResponse(w)

-----------------------------------------------------------------------------
(* Properties.                                                             *)

\* A model round is opened only when every earlier round of the turn is metered, so
\* recovery of the latest round never skips an unresolved one.
RoundsInOrder ==
    \A w \in Work, r, s \in Round :
        s < r /\ state[<<w, r>>] # "absent" => state[<<w, s>>] = "metered"

\* A protocol-claimed turn has an answer only after the user's words entered the world
\* and after the round that produced it was metered and held as a recorded reply.
OutputBacked ==
    \A w \in Work :
        turn[w].protocol # "none" /\ output[w] # None =>
            /\ said[w] = turn[w].input
            /\ \E r \in Round :
                  /\ state[<<w, r>>] = "metered"
                  /\ \E d \in Directive \ {None} :
                        <<<<w, r>>, d>> \in held /\ output[w] \in {d, Blank}

\* A completed turn has its answer, and neither is ever taken back or replaced.
AnswerIsFinal ==
    /\ [](\A w \in Work : turn[w].state = "completed" => output[w] # None)
    /\ [][\A w \in Work :
            /\ output[w] # None => output'[w] = output[w]
            /\ turn[w].state = "completed" => turn'[w] = turn[w]]_allVars

\* A retry is authorized only while no request of the turn has ever been sent.
RetryOnlyOnProof ==
    [][\A w \in Work :
          ~turn[w].retry /\ turn'[w].retry =>
              \A r \in Round : submissions[<<w, r>>] = 0]_allVars

\* However calls, retries, recoveries and returns interleave, each step is one
\* the ledger allows.
LedgerKept == Spec

\* No run_turn call hangs: whatever the others do, it returns or raises.
EveryCallEnds == \A p \in Proc : ~At(p, "idle") ~> At(p, "idle")

NoCallAlive(w) == \A p \in Proc : At(p, "idle") \/ WorkOf(p) # w
Resumable(w) == \E r \in Round : HandoffWaiting(w, r) \/ PendingExactResponse(w, r)

\* When inspection of an interrupted turn reports exact_response_ready, the ordinary
\* entrypoint finds a reply to resume.
ReadyMeansResumable ==
    \A w \in Work : NoCallAlive(w) /\ ExactResponseReady(w) => Resumable(w)

\* An interrupted, unanswered turn whose exact reply is durable can be resumed: no
\* authorization stands in the way of the ordinary entrypoint.
ExactReplyResumable ==
    \A w \in Work :
        /\ NoCallAlive(w) /\ Resumable(w)
        /\ turn[w].state = "started" /\ output[w] = None
        => ~turn[w].retry
=============================================================================
