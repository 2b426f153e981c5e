--------------------------- MODULE RunStoreProofs ---------------------------
(* What every caller of the RunStore may rely on, proved for any graph, any  *)
(* number of decisions and native effects and any number of writes.          *)
EXTENDS RunStore, RunRecordProofs

\* Every write of every caller keeps the record well formed.
THEOREM TypeCorrect == Spec => []TypeOK
<1>1. Init => TypeOK
  BY NewRunType DEF Init, TypeOK
<1>2. ASSUME TypeOK, NEW next \in RunRecords, Write(next) PROVE TypeOK'
  <2>1. Commit(run, next) \in RunRecords
    BY <1>2 DEF Commit, RunRecords, TypeOK
  <2> QED BY <1>2, <2>1 DEF Write, TypeOK
<1>3. TypeOK /\ [Next]_vars => TypeOK'
  <2> SUFFICES ASSUME TypeOK, [Next]_vars PROVE TypeOK'
    OBVIOUS
  <2>0. run \in RunRecords
    BY DEF TypeOK
  <2>1. CASE DoSetBindingDigests
    BY <2>1, <2>0, <1>2, AdmissionTypes DEF DoSetBindingDigests
  <2>2. CASE DoSkip
    BY <2>2, <2>0, <1>2, AdmissionTypes DEF DoSkip
  <2>3. CASE DoDecide
    <3>1. PICK d \in Decisions, approve \in BOOLEAN, b \in Branches, n \in Waiting(run) :
            Write(Decide(run, n, d, approve, b))
      BY <2>3 DEF DoDecide
    <3>2. n \in Nodes
      BY NodesAssumption DEF Waiting
    <3> QED BY <3>1, <3>2, <2>0, <1>2, SettlementTypes
  <2>4. CASE DoRequestCancel
    BY <2>4, <2>0, <1>2, SettlementTypes DEF DoRequestCancel
  <2>5. CASE DoSettleTerminal
    BY <2>5, <2>0, <1>2, SettlementTypes DEF DoSettleTerminal, RUN_STATES
  <2>6. CASE Review
    BY <2>6 DEF Review, TypeOK
  <2>7. CASE DoReconcile
    BY <2>7, <2>0, <1>2, SettlementTypes DEF DoReconcile
  <2>8. CASE DoReconcileOnStart
    BY <2>8, <2>0, <1>2, StageTypes DEF DoReconcileOnStart
  <2>9. CASE DoBindTeamStage
    BY <2>9, <2>0, <1>2, StageTypes DEF DoBindTeamStage
  <2>10. CASE DoBindTeamTask
    BY <2>10, <2>0, <1>2, StageTypes DEF DoBindTeamTask
  <2>11. CASE DoUpdateTeamStage
    <3>1. PICK to \in STAGE_STATES : Write(UpdateTeamStage(run, to))
      BY <2>11 DEF DoUpdateTeamStage
    <3>2. UpdateTeamStage(run, to) \in RunRecords
      BY <2>0, StageTypes
    <3> QED BY <3>1, <3>2, <1>2
  <2>12. CASE DoRequestTeamStageCancel
    BY <2>12, <2>0, <1>2, StageTypes DEF DoRequestTeamStageCancel
  <2>13. CASE DoSettleTeamStageAttempt
    BY <2>13, <2>0, <1>2, StageTypes DEF DoSettleTeamStageAttempt, SettleTeamStageAttemptOk
  <2>14. CASE DoRecordTeamOutput
    BY <2>14, <2>0, <1>2, StageTypes DEF DoRecordTeamOutput
  <2>15. CASE SetArchived
    BY <2>15 DEF SetArchived, TypeOK
  <2>16. ASSUME NEW n \in Nodes, DoRecordIntent(n) PROVE TypeOK'
    BY <2>16, <2>0, <1>2, AdmissionTypes DEF DoRecordIntent
  <2>17. ASSUME NEW n \in Nodes, DoRecordResult(n) PROVE TypeOK'
    BY <2>17, <2>0, <1>2, SettlementTypes DEF DoRecordResult
  <2>18. ASSUME NEW n \in Nodes, DoWaitInput(n) \/ DoManagedWait(n) \/ DoManagedMessage(n)
         PROVE  TypeOK'
    BY <2>18, <2>0, <1>2, AdmissionTypes DEF DoWaitInput, DoManagedWait, DoManagedMessage
  <2>19. ASSUME NEW e \in Effects, DoEffect(e) PROVE TypeOK'
    BY <2>19, <2>0, <1>2, StageTypes DEF DoEffect, TEAM_EFFECT_STATES
  <2>20. CASE UNCHANGED vars
    BY <2>20 DEF vars, TypeOK
  <2> QED
    BY <2>1, <2>2, <2>3, <2>4, <2>5, <2>6, <2>7, <2>8, <2>9, <2>10, <2>11, <2>12, <2>13,
       <2>14, <2>15, <2>16, <2>17, <2>18, <2>19, <2>20 DEF Next
<1> QED BY <1>1, <1>3, PTL DEF Spec
-----------------------------------------------------------------------------
\* Every step of every caller commits one reducer to a Run that is not
\* terminal, or leaves the record alone.
LEMMA StepIsWrite ==
  ASSUME [Next]_vars
  PROVE  Review \/ SetArchived \/ UNCHANGED vars \/ \E next : Write(next)
<1>1. CASE DoSetBindingDigests \/ DoSkip \/ DoDecide \/ DoRequestCancel \/ DoSettleTerminal
  BY <1>1 DEF DoSetBindingDigests, DoSkip, DoDecide, DoRequestCancel, DoSettleTerminal
<1>2. CASE Review \/ SetArchived \/ UNCHANGED vars
  BY <1>2
<1>3. CASE DoReconcile \/ DoReconcileOnStart \/ DoBindTeamStage \/ DoBindTeamTask
  BY <1>3 DEF DoReconcile, DoReconcileOnStart, DoBindTeamStage, DoBindTeamTask
<1>4. CASE DoUpdateTeamStage \/ DoRequestTeamStageCancel \/ DoSettleTeamStageAttempt \/ DoRecordTeamOutput
  BY <1>4 DEF DoUpdateTeamStage, DoRequestTeamStageCancel, DoSettleTeamStageAttempt, DoRecordTeamOutput
<1>5. ASSUME NEW n \in Nodes, DoRecordIntent(n) \/ DoRecordResult(n) \/ DoWaitInput(n)
                              \/ DoManagedWait(n) \/ DoManagedMessage(n)
      PROVE  \E next : Write(next)
  BY <1>5 DEF DoRecordIntent, DoRecordResult, DoWaitInput, DoManagedWait, DoManagedMessage
<1>6. ASSUME NEW e \in Effects, DoEffect(e) PROVE \E next : Write(next)
  BY <1>6 DEF DoEffect
<1> QED BY <1>1, <1>2, <1>3, <1>4, <1>5, <1>6 DEF Next

\* So a step leaves the record alone or commits a reducer to it.
LEMMA StepWrites ==
  ASSUME [Next]_vars
  PROVE  run' = run \/ \E next : Write(next)
BY StepIsWrite DEF Review, SetArchived, vars

\* No operation of any caller changes a terminal Run: applyTransition's guard
\* stands before every reducer.
THEOREM TerminalRunsImmutable == Spec => TerminalImmutable
<1>1. [Next]_vars => [Terminal(run) => run' = run]_vars
  BY StepWrites DEF Write, Applies
<1> QED BY <1>1, PTL DEF Spec, TerminalImmutable

\* The two ends of a cancellation, and the way there.
CancelOutcome == {"cancelling", "cancelled", "recovery_required"}

\* Moving Attempts changes nothing else of the record.
LEMMA SetAttemptsFrame ==
  ASSUME NEW r \in RunRecords, NEW S, NEW st
  PROVE  SetAttempts(r, S, st).state = r.state /\ SetAttempts(r, S, st).stage = r.stage
BY DEF SetAttempts, RunRecords

\* What each reducer makes of a cancelling Run.  settleTerminal and
\* recordResult turn every other outcome into cancelled.
LEMMA CancellingStays ==
  ASSUME NEW r \in RunRecords, r.state = "cancelling"
  PROVE  /\ SetBindingDigests(r).state \in CancelOutcome
         /\ \A n \in Nodes, k \in RESULTS, b \in Branches \cup {None} :
              RecordResult(r, n, k, b).state \in CancelOutcome
         /\ \A n \in Nodes : WaitInput(r, n).state \in CancelOutcome
         /\ \A n \in Nodes : ManagedWait(r, n).state \in CancelOutcome
         /\ \A S \in SUBSET Nodes : Skip(r, S).state \in CancelOutcome
         /\ RequestCancel(r).state \in CancelOutcome
         /\ \A t \in RUN_STATES : SettleTerminal(r, t).state \in CancelOutcome
         /\ ReconcileOnStart(r).state \in CancelOutcome
<1>1. SetBindingDigests(r).state \in CancelOutcome
  BY DEF SetBindingDigests, RunRecords, CancelOutcome
<1>2. \A n \in Nodes, k \in RESULTS, b \in Branches \cup {None} :
        RecordResult(r, n, k, b).state \in CancelOutcome
  BY DEF RecordResult, RunRecords, CancelOutcome
<1>3. \A n \in Nodes : WaitInput(r, n).state \in CancelOutcome
  BY DEF WaitInput, CancelOutcome
<1>4. \A n \in Nodes : ManagedWait(r, n).state \in CancelOutcome
  BY DEF ManagedWait, CancelOutcome
<1>5. \A S \in SUBSET Nodes : Skip(r, S).state \in CancelOutcome
  BY DEF Skip, CancelOutcome
<1>6. RequestCancel(r).state \in CancelOutcome
  BY DEF RequestCancel, SetAttempts, RunRecords, CancelOutcome
<1>7. ASSUME NEW t \in RUN_STATES PROVE SettleTerminal(r, t).state \in CancelOutcome
  BY DEF SettleTerminal, SetAttempts, RunRecords, CancelOutcome
<1>8. ReconcileOnStart(r).state \in CancelOutcome
  <2>1. SettleTerminal(r, "recovery_required").state \in CancelOutcome
    BY <1>7 DEF RUN_STATES
  <2>2. TeamRecovery(r).state \in CancelOutcome
    BY DEF TeamRecovery, SetAttempts, RunRecords, CancelOutcome
  <2>3. [SetAttempts(r, Unsettled(r), "recovery_required")
           EXCEPT !.state = "recovery_required"].state \in CancelOutcome
    BY DEF SetAttempts, RunRecords, CancelOutcome
  <2> QED BY <2>1, <2>2, <2>3 DEF ReconcileOnStart, CancelOutcome
<1> QED BY <1>1, <1>2, <1>3, <1>4, <1>5, <1>6, <1>7, <1>8

\* The operations on the TeamStage leave the state of the Run alone.
LEMMA StageOpsKeepState ==
  ASSUME NEW r \in RunRecords
  PROVE  /\ \A n \in Team \cup {None} : BindTeamStage(r, n).state = r.state
         /\ BindTeamTask(r).state = r.state
         /\ \A to : UpdateTeamStage(r, to).state = r.state
         /\ RequestTeamStageCancel(r).state = r.state
         /\ \A e \in Effects, x \in TEAM_EFFECT_STATES : SetEffect(r, e, x).state = r.state
         /\ \A e \in Effects : EffectRecovery(r, e).state = r.state
         /\ SettleTeamStageAttempt(r).state = r.state
         /\ \A accept : RecordTeamOutput(r, accept).state = r.state
BY DEF BindTeamStage, BindTeamTask, UpdateTeamStage, RequestTeamStageCancel, SetEffect,
       EffectRecovery, SettleTeamStageAttempt, RecordTeamOutput, RunRecords

\* A cancelling Run ends cancelled or needs recovery, whichever caller writes
\* next: the result, settlement, recovery scan or TeamStage operation.
THEOREM CancellationWins == Spec => CancelWins
<1> DEFINE Kept == run'.state \in CancelOutcome
<1>1. TypeOK /\ [Next]_vars => [run.state = "cancelling" => Kept]_vars
  <2> SUFFICES ASSUME TypeOK, [Next]_vars, run.state = "cancelling" PROVE Kept
    OBVIOUS
  <2>0. run \in RunRecords
    BY DEF TypeOK
  <2>a. ASSUME NEW next \in RunRecords, Write(next), next.state \in CancelOutcome PROVE Kept
    BY <2>a DEF Write, Commit, RunRecords
  <2> HIDE DEF Kept
  <2>1. CASE DoSetBindingDigests
    BY <2>1, <2>0, <2>a, AdmissionTypes, CancellingStays DEF DoSetBindingDigests
  <2>2. CASE DoSkip
    BY <2>2, <2>0, <2>a, AdmissionTypes, CancellingStays DEF DoSkip
  <2>3. CASE DoDecide
    BY <2>3 DEF DoDecide, DecideOk
  <2>4. CASE DoRequestCancel
    BY <2>4, <2>0, <2>a, SettlementTypes, CancellingStays DEF DoRequestCancel
  <2>5. CASE DoSettleTerminal
    BY <2>5, <2>0, <2>a, SettlementTypes, CancellingStays DEF DoSettleTerminal, RUN_STATES
  <2>6. CASE Review \/ SetArchived \/ UNCHANGED vars
    BY <2>6 DEF Review, SetArchived, vars, Kept, CancelOutcome
  <2>7. CASE DoReconcile
    BY <2>7 DEF DoReconcile, ReconcileOk
  <2>8. CASE DoReconcileOnStart
    BY <2>8, <2>0, <2>a, StageTypes, CancellingStays DEF DoReconcileOnStart
  <2>9. CASE DoBindTeamStage
    BY <2>9, <2>0, <2>a, StageTypes, StageOpsKeepState DEF DoBindTeamStage, CancelOutcome
  <2>10. CASE DoBindTeamTask \/ DoRequestTeamStageCancel \/ DoRecordTeamOutput
    BY <2>10, <2>0, <2>a, StageTypes, StageOpsKeepState
       DEF DoBindTeamTask, DoRequestTeamStageCancel, DoRecordTeamOutput, CancelOutcome
  <2>11. CASE DoUpdateTeamStage
    <3>1. PICK to \in STAGE_STATES : Write(UpdateTeamStage(run, to))
      BY <2>11 DEF DoUpdateTeamStage
    <3>2. UpdateTeamStage(run, to) \in RunRecords
      BY <2>0, StageTypes
    <3> QED BY <3>1, <3>2, <2>0, <2>a, StageOpsKeepState DEF CancelOutcome
  <2>12. CASE DoSettleTeamStageAttempt
    BY <2>12 DEF DoSettleTeamStageAttempt, SettleTeamStageAttemptOk
  <2>13. ASSUME NEW n \in Nodes, DoRecordIntent(n) \/ DoManagedMessage(n) PROVE Kept
    BY <2>13 DEF DoRecordIntent, RecordIntentOk, DoManagedMessage, ManagedMessageOk
  <2>14. ASSUME NEW n \in Nodes, DoRecordResult(n) PROVE Kept
    BY <2>14, <2>0, <2>a, SettlementTypes, CancellingStays DEF DoRecordResult
  <2>15. ASSUME NEW n \in Nodes, DoWaitInput(n) \/ DoManagedWait(n) PROVE Kept
    BY <2>15, <2>0, <2>a, AdmissionTypes, CancellingStays DEF DoWaitInput, DoManagedWait
  <2>16. ASSUME NEW e \in Effects, DoEffect(e) PROVE Kept
    <3>1. PICK next : Write(next) /\ (next = EffectRecovery(run, e)
                                      \/ \E x \in TEAM_EFFECT_STATES : next = SetEffect(run, e, x))
      BY <2>16 DEF DoEffect, TEAM_EFFECT_STATES
    <3>2. CASE next = EffectRecovery(run, e)
      BY <3>1, <3>2, <2>0, <2>a, StageTypes, StageOpsKeepState DEF CancelOutcome
    <3>3. ASSUME NEW x \in TEAM_EFFECT_STATES, next = SetEffect(run, e, x) PROVE Kept
      <4>1. SetEffect(run, e, x) \in RunRecords
        BY <2>0, StageTypes
      <4>2. SetEffect(run, e, x).state = run.state
        BY <2>0, StageOpsKeepState
      <4> QED BY <3>1, <3>3, <4>1, <4>2, <2>a DEF CancelOutcome
    <3> QED BY <3>1, <3>2, <3>3
  <2> QED
    BY <2>1, <2>2, <2>3, <2>4, <2>5, <2>6, <2>7, <2>8, <2>9, <2>10, <2>11, <2>12, <2>13,
       <2>14, <2>15, <2>16 DEF Next
<1> QED BY <1>1, TypeCorrect, PTL DEF Spec, CancelWins, CancelOutcome
-----------------------------------------------------------------------------
\* StageCutoff as a predicate on records.
Cutoff(r) == r.stage.cancel => r.stage.st \in {"cancelling", "cancelled", "recovery_required"}

\* The operations on Run and Attempts keep the stage, except for the cutoff of
\* a cancellation and the recovery of the startup scan.
LEMMA RunOpsKeepCutoff ==
  ASSUME NEW r \in RunRecords, Cutoff(r)
  PROVE  /\ Cutoff(SetBindingDigests(r))
         /\ \A n \in Nodes : Cutoff(RecordIntent(r, n))
         /\ \A n \in Nodes : Cutoff(WaitInput(r, n))
         /\ \A n \in Nodes : Cutoff(ManagedWait(r, n)) /\ Cutoff(ManagedMessage(r, n))
         /\ \A S \in SUBSET Nodes : Cutoff(Skip(r, S))
         /\ \A n \in Nodes, k \in RESULTS, b \in Branches \cup {None} :
              Cutoff(RecordResult(r, n, k, b))
         /\ \A n \in Nodes, d \in Decisions, approve \in BOOLEAN, b \in Branches :
              Cutoff(Decide(r, n, d, approve, b))
         /\ Cutoff(RequestCancel(r))
         /\ \A t \in RUN_STATES : Cutoff(SettleTerminal(r, t))
         /\ \A a \in TERMINAL_RUN_STATES : Cutoff(Reconcile(r, a))
         /\ Cutoff(ReconcileOnStart(r))
<1>1. Cutoff(SetBindingDigests(r))
  BY DEF SetBindingDigests, Cutoff, RunRecords
<1>2. \A n \in Nodes : Cutoff(RecordIntent(r, n))
  BY DEF RecordIntent, Cutoff, RunRecords
<1>3. \A n \in Nodes : Cutoff(WaitInput(r, n))
  BY DEF WaitInput, SetAttempts, Cutoff, RunRecords
<1>4. \A n \in Nodes : Cutoff(ManagedWait(r, n)) /\ Cutoff(ManagedMessage(r, n))
  BY SetAttemptsFrame DEF ManagedWait, ManagedMessage, Cutoff
<1>5. \A S \in SUBSET Nodes : Cutoff(Skip(r, S))
  BY SetAttemptsFrame DEF Skip, Cutoff
<1>6. \A n \in Nodes, k \in RESULTS, b \in Branches \cup {None} : Cutoff(RecordResult(r, n, k, b))
  BY DEF RecordResult, Cutoff, RunRecords
<1>7. \A n \in Nodes, d \in Decisions, approve \in BOOLEAN, b \in Branches :
        Cutoff(Decide(r, n, d, approve, b))
  BY DEF Decide, Cutoff, RunRecords
<1>8. Cutoff(RequestCancel(r))
  BY DEF RequestCancel, SetAttempts, Cutoff, RunRecords, TeamStage
<1>9. \A t \in RUN_STATES : Cutoff(SettleTerminal(r, t))
  BY DEF SettleTerminal, SetAttempts, Cutoff, RunRecords
<1>10. \A a \in TERMINAL_RUN_STATES : Cutoff(Reconcile(r, a))
  BY DEF Reconcile, Cutoff, RunRecords
<1>11. Cutoff(ReconcileOnStart(r))
  <2>1. Cutoff(TeamRecovery(r))
    BY DEF TeamRecovery, SetAttempts, Cutoff, RunRecords, TeamStage
  <2>2. Cutoff([SetAttempts(r, Unsettled(r), "recovery_required") EXCEPT !.state = "recovery_required"])
    BY DEF SetAttempts, Cutoff, RunRecords
  <2> QED BY <1>9, <2>1, <2>2 DEF ReconcileOnStart, RUN_STATES
<1> QED BY <1>1, <1>2, <1>3, <1>4, <1>5, <1>6, <1>7, <1>8, <1>9, <1>10, <1>11

\* The operations on the stage keep the cutoff because their guards do: a Task
\* and an acceptance need an open stage, an update a legal transition.
LEMMA StageOpsKeepCutoff ==
  ASSUME NEW r \in RunRecords, Cutoff(r)
  PROVE  /\ \A n \in Team \cup {None} : Cutoff(BindTeamStage(r, n))
         /\ BindTeamTaskOk(r) => Cutoff(BindTeamTask(r))
         /\ \A to \in STAGE_STATES :
              UpdateTeamStageOk(r, to) => Cutoff(UpdateTeamStage(r, to))
         /\ Cutoff(RequestTeamStageCancel(r))
         /\ \A e \in Effects, x \in TEAM_EFFECT_STATES : Cutoff(SetEffect(r, e, x))
         /\ \A e \in Effects : Cutoff(EffectRecovery(r, e))
         /\ SettleTeamStageAttemptOk(r) => Cutoff(SettleTeamStageAttempt(r))
         /\ \A accept \in BOOLEAN : RecordTeamOutputOk(r, accept) => Cutoff(RecordTeamOutput(r, accept))
<1>1. \A n \in Team \cup {None} : Cutoff(BindTeamStage(r, n))
  BY DEF BindTeamStage, NoStage, Cutoff, RunRecords
<1>2. BindTeamTaskOk(r) => Cutoff(BindTeamTask(r))
  BY DEF BindTeamTaskOk, BindTeamTask, StageOpen, Cutoff, RunRecords, TeamStage
<1>3. ASSUME NEW to \in STAGE_STATES, UpdateTeamStageOk(r, to)
      PROVE  Cutoff(UpdateTeamStage(r, to))
  BY <1>3 DEF UpdateTeamStageOk, UpdateTeamStage, AllowedTeamStageTransition, Cutoff, RunRecords, TeamStage
<1>4. Cutoff(RequestTeamStageCancel(r))
  BY DEF RequestTeamStageCancel, Cutoff, RunRecords, TeamStage
<1>5. \A e \in Effects, x \in TEAM_EFFECT_STATES : Cutoff(SetEffect(r, e, x))
  BY DEF SetEffect, Cutoff, RunRecords, TeamStage
<1>6. \A e \in Effects : Cutoff(EffectRecovery(r, e))
  BY DEF EffectRecovery, SetEffect, Cutoff, RunRecords, TeamStage
<1>7. SettleTeamStageAttemptOk(r) => Cutoff(SettleTeamStageAttempt(r))
  BY DEF SettleTeamStageAttemptOk, SettleTeamStageAttempt, Cutoff, RunRecords, TeamStage
<1>8. \A accept \in BOOLEAN : RecordTeamOutputOk(r, accept) => Cutoff(RecordTeamOutput(r, accept))
  BY DEF RecordTeamOutputOk, RecordTeamOutput, StageOpen, Cutoff, RunRecords, TeamStage
<1> QED BY <1>1, <1>2, <1>3, <1>4, <1>5, <1>6, <1>7, <1>8

\* The first cancellation fact of a TeamStage cuts it off for good: no later
\* Task, update, acceptance or effect reopens, accepts, fails or times it out.
THEOREM CancelledStageStaysCutOff == Spec => []StageCutoff
<1>1. Init => Cutoff(run)
  BY DEF Init, NewRun, NoStage, Cutoff
<1>2. TypeOK /\ Cutoff(run) /\ [Next]_vars => Cutoff(run')
  <2> SUFFICES ASSUME TypeOK, Cutoff(run), [Next]_vars PROVE Cutoff(run')
    OBVIOUS
  <2>0. run \in RunRecords
    BY DEF TypeOK
  <2>a. ASSUME NEW next \in RunRecords, Write(next), Cutoff(next) PROVE Cutoff(run')
    BY <2>a DEF Write, Commit, Cutoff, RunRecords
  <2>1. CASE DoSetBindingDigests
    BY <2>1, <2>0, <2>a, AdmissionTypes, RunOpsKeepCutoff DEF DoSetBindingDigests
  <2>2. CASE DoSkip
    BY <2>2, <2>0, <2>a, AdmissionTypes, RunOpsKeepCutoff DEF DoSkip
  <2>3. CASE DoDecide
    <3>1. PICK d \in Decisions, approve \in BOOLEAN, b \in Branches, n \in Waiting(run) :
            Write(Decide(run, n, d, approve, b))
      BY <2>3 DEF DoDecide
    <3>2. n \in Nodes
      BY NodesAssumption DEF Waiting
    <3> QED BY <3>1, <3>2, <2>0, <2>a, SettlementTypes, RunOpsKeepCutoff
  <2>4. CASE DoRequestCancel
    BY <2>4, <2>0, <2>a, SettlementTypes, RunOpsKeepCutoff DEF DoRequestCancel
  <2>5. CASE DoSettleTerminal
    BY <2>5, <2>0, <2>a, SettlementTypes, RunOpsKeepCutoff DEF DoSettleTerminal, RUN_STATES
  <2>6. CASE Review \/ SetArchived \/ UNCHANGED vars
    BY <2>6 DEF Review, SetArchived, vars
  <2>7. CASE DoReconcile
    BY <2>7, <2>0, <2>a, SettlementTypes, RunOpsKeepCutoff DEF DoReconcile
  <2>8. CASE DoReconcileOnStart
    BY <2>8, <2>0, <2>a, StageTypes, RunOpsKeepCutoff DEF DoReconcileOnStart
  <2>9. CASE DoBindTeamStage
    BY <2>9, <2>0, <2>a, StageTypes, StageOpsKeepCutoff DEF DoBindTeamStage
  <2>10. CASE DoBindTeamTask \/ DoRequestTeamStageCancel
    BY <2>10, <2>0, <2>a, StageTypes, StageOpsKeepCutoff DEF DoBindTeamTask, DoRequestTeamStageCancel
  <2>11. CASE DoUpdateTeamStage
    BY <2>11, <2>0, <2>a, StageTypes, StageOpsKeepCutoff DEF DoUpdateTeamStage
  <2>12. CASE DoSettleTeamStageAttempt
    BY <2>12, <2>0, <2>a, StageTypes, StageOpsKeepCutoff
       DEF DoSettleTeamStageAttempt, SettleTeamStageAttemptOk
  <2>13. CASE DoRecordTeamOutput
    BY <2>13, <2>0, <2>a, StageTypes, StageOpsKeepCutoff DEF DoRecordTeamOutput
  <2>14. ASSUME NEW n \in Nodes, DoRecordIntent(n) \/ DoWaitInput(n) PROVE Cutoff(run')
    BY <2>14, <2>0, <2>a, AdmissionTypes, RunOpsKeepCutoff DEF DoRecordIntent, DoWaitInput
  <2>15. ASSUME NEW n \in Nodes, DoManagedWait(n) \/ DoManagedMessage(n) PROVE Cutoff(run')
    BY <2>15, <2>0, <2>a, AdmissionTypes, RunOpsKeepCutoff DEF DoManagedWait, DoManagedMessage
  <2>16. ASSUME NEW n \in Nodes, DoRecordResult(n) PROVE Cutoff(run')
    BY <2>16, <2>0, <2>a, SettlementTypes, RunOpsKeepCutoff DEF DoRecordResult
  <2>17. ASSUME NEW e \in Effects, DoEffect(e) PROVE Cutoff(run')
    <3>1. CASE Write(EffectRecovery(run, e))
      BY <3>1, <2>0, <2>a, StageTypes, StageOpsKeepCutoff
    <3>2. ASSUME NEW x \in TEAM_EFFECT_STATES, Write(SetEffect(run, e, x)) PROVE Cutoff(run')
      <4>1. SetEffect(run, e, x) \in RunRecords /\ Cutoff(SetEffect(run, e, x))
        BY <2>0, StageTypes, StageOpsKeepCutoff
      <4> QED BY <3>2, <4>1, <2>a
    <3> QED BY <2>17, <3>1, <3>2 DEF DoEffect, TEAM_EFFECT_STATES
  <2> QED
    BY <2>1, <2>2, <2>3, <2>4, <2>5, <2>6, <2>7, <2>8, <2>9, <2>10, <2>11, <2>12, <2>13,
       <2>14, <2>15, <2>16, <2>17 DEF Next
<1>3. Cutoff(run) <=> StageCutoff
  BY DEF Cutoff, StageCutoff
<1>4. StageCutoff /\ TypeOK /\ [Next]_vars => StageCutoff'
  BY <1>2 DEF Cutoff, StageCutoff
<1> QED BY <1>1, <1>3, <1>4, TypeCorrect, PTL DEF Spec
-----------------------------------------------------------------------------
\* An Attempt without a state has no result; a write is final for the Attempts
\* that are settled already.
Fresh(r) == \A n \in Nodes : r.att[n].st = "none" => r.att[n].res = "none"
Final(r, next) ==
  Fresh(next) /\ \A n \in Nodes : Settled(r, n) => next.att[n] = r.att[n]

\* Finality is about the Attempts alone.
LEMMA FinalByAttempts ==
  ASSUME NEW r, NEW s, NEW next, Final(r, s), next.att = s.att
  PROVE  Final(r, next)
BY DEF Final, Fresh

\* Moving open Attempts to a state leaves the settled ones alone.
LEMMA SetAttemptsFinal ==
  ASSUME NEW r \in RunRecords, Fresh(r), NEW S, NEW st \in ATTEMPT_STATES, st # "none",
         \A n \in S : n \in Nodes => ~Settled(r, n)
  PROVE  Final(r, SetAttempts(r, S, st))
BY DEF SetAttempts, Final, Fresh, RunRecords, Attempt

\* So does a write to one open Attempt.
LEMMA AttemptFinal ==
  ASSUME NEW r \in RunRecords, Fresh(r), NEW n \in Nodes, ~Settled(r, n), NEW a \in Attempt,
         a.st # "none", NEW next, next.att = [r.att EXCEPT ![n] = a]
  PROVE  Final(r, next)
BY DEF Final, Fresh, RunRecords

\* And a write that touches no Attempt.
LEMMA FrameFinal ==
  ASSUME NEW r \in RunRecords, Fresh(r), NEW next, next.att = r.att
  PROVE  Final(r, next)
BY DEF Final, Fresh

\* The operations of dispatch, decision and cancellation are final.
LEMMA RunOpsFinal ==
  ASSUME NEW r \in RunRecords, Fresh(r)
  PROVE  /\ Final(r, SetBindingDigests(r))
         /\ \A n \in Nodes : RecordIntentOk(r, n) => Final(r, RecordIntent(r, n))
         /\ \A n \in Nodes, k \in RESULTS \ {"none"}, b \in Branches \cup {None} :
              RecordResultOk(r, n) => Final(r, RecordResult(r, n, k, b))
         /\ \A n \in Nodes : ~Settled(r, n) => Final(r, WaitInput(r, n))
         /\ \A n \in Nodes : r.att[n].st = "running" => Final(r, ManagedWait(r, n))
         /\ \A n \in Nodes : ManagedMessageOk(r, n) => Final(r, ManagedMessage(r, n))
         /\ \A S \in SUBSET Nodes : Final(r, Skip(r, S))
         /\ \A n \in Waiting(r), d \in Decisions, approve \in BOOLEAN, b \in Branches :
              Final(r, Decide(r, n, d, approve, b))
         /\ Final(r, RequestCancel(r))
<1>0. \A n \in Nodes : r.att[n].st = "none" => ~Settled(r, n)
  BY DEF Fresh, Settled, TERMINAL_ATTEMPTS, TERMINAL_RUN_STATES
<1>1. Final(r, SetBindingDigests(r))
  BY FrameFinal DEF SetBindingDigests, RunRecords
<1>2. ASSUME NEW n \in Nodes, RecordIntentOk(r, n) PROVE Final(r, RecordIntent(r, n))
  <2> DEFINE a == [NoAttempt EXCEPT !.st = "running"]
  <2>1. a \in Attempt /\ a.st # "none"
    BY DEF NoAttempt, Attempt, ATTEMPT_STATES, RESULTS
  <2>2. RecordIntent(r, n).att = [r.att EXCEPT ![n] = a]
    BY DEF RecordIntent, RunRecords
  <2>3. ~Settled(r, n)
    BY <1>0, <1>2 DEF RecordIntentOk, Started
  <2> HIDE DEF a
  <2> QED BY <2>1, <2>2, <2>3, AttemptFinal
<1>3. ASSUME NEW n \in Nodes, NEW k \in RESULTS \ {"none"}, NEW b \in Branches \cup {None},
             RecordResultOk(r, n)
      PROVE  Final(r, RecordResult(r, n, k, b))
  <2> DEFINE a == [r.att[n] EXCEPT !.st = ResultState(r, k), !.res = k, !.branch = b]
  <2>1. ResultState(r, k) \in TERMINAL_RUN_STATES
    BY DEF ResultState, TERMINAL_RUN_STATES
  <2>2. a \in Attempt /\ a.st # "none"
    <3>1. r.att[n] \in Attempt
      BY AttemptsType
    <3>2. ResultState(r, k) \in ATTEMPT_STATES /\ ResultState(r, k) # "none"
      BY <2>1 DEF ATTEMPT_STATES, TERMINAL_ATTEMPTS, TERMINAL_RUN_STATES
    <3> QED BY <3>1, <3>2 DEF Attempt
  <2>3. RecordResult(r, n, k, b).att = [r.att EXCEPT ![n] = a]
    BY DEF RecordResult, RunRecords
  <2> HIDE DEF a
  <2> QED BY <1>3, <2>2, <2>3, AttemptFinal DEF RecordResultOk
<1>4. ASSUME NEW n \in Nodes, ~Settled(r, n) PROVE Final(r, WaitInput(r, n))
  <2>1. Final(r, SetAttempts(r, {n}, "waiting_input"))
    BY <1>4, SetAttemptsFinal DEF ATTEMPT_STATES
  <2>2. Final(r, r)
    BY FrameFinal
  <2>3. [SetAttempts(r, {n}, "waiting_input") EXCEPT !.state = "waiting_input"].att
          = SetAttempts(r, {n}, "waiting_input").att
    BY DEF SetAttempts, RunRecords
  <2> QED BY <2>1, <2>2, <2>3, FinalByAttempts DEF WaitInput
<1>5. ASSUME NEW n \in Nodes, r.att[n].st = "running" PROVE Final(r, ManagedWait(r, n))
  <2>1. CASE r.att[n].res = "none"
    <3>1. ~Settled(r, n)
      BY <1>5, <2>1 DEF Settled, TERMINAL_ATTEMPTS, TERMINAL_RUN_STATES
    <3> QED BY <3>1, SetAttemptsFinal, FrameFinal DEF ManagedWait, ATTEMPT_STATES
  <2> QED BY <2>1, FrameFinal DEF ManagedWait
<1>6. ASSUME NEW n \in Nodes, ManagedMessageOk(r, n) PROVE Final(r, ManagedMessage(r, n))
  <2>1. ~Settled(r, n)
    BY <1>6 DEF ManagedMessageOk, Settled, TERMINAL_ATTEMPTS, TERMINAL_RUN_STATES
  <2> QED BY <2>1, SetAttemptsFinal DEF ManagedMessage, ATTEMPT_STATES
<1>7. \A S \in SUBSET Nodes : Final(r, Skip(r, S))
  BY <1>0, SetAttemptsFinal, FrameFinal DEF Skip, Started, ATTEMPT_STATES, TERMINAL_ATTEMPTS
<1>8. ASSUME NEW n \in Waiting(r), NEW d \in Decisions, NEW approve \in BOOLEAN, NEW b \in Branches
      PROVE  Final(r, Decide(r, n, d, approve, b))
  <2> DEFINE a == [st |-> IF approve THEN "succeeded" ELSE "cancelled",
                   res |-> IF approve THEN "ok" ELSE "cancelled", branch |-> b, decision |-> d]
  <2>1. n \in Nodes /\ ~Settled(r, n)
    BY NodesAssumption DEF Waiting, Settled, TERMINAL_ATTEMPTS, TERMINAL_RUN_STATES
  <2>2. a \in Attempt /\ a.st # "none"
    BY DEF Attempt, ATTEMPT_STATES, TERMINAL_ATTEMPTS, TERMINAL_RUN_STATES, RESULTS
  <2>3. Decide(r, n, d, approve, b).att = [r.att EXCEPT ![n] = a]
    BY DEF Decide, RunRecords
  <2> HIDE DEF a
  <2> QED BY <2>1, <2>2, <2>3, AttemptFinal
<1>9. Final(r, RequestCancel(r))
  <2> DEFINE to == IF ActiveAttempt(r) \/ ~StageStopped(r) THEN "cancelling" ELSE "cancelled"
  <2>1. Final(r, SetAttempts(r, Unsettled(r), to))
    BY SetAttemptsFinal DEF Unsettled, ATTEMPT_STATES, TERMINAL_ATTEMPTS, TERMINAL_RUN_STATES
  <2>2. RequestCancel(r).att = SetAttempts(r, Unsettled(r), to).att
    BY DEF RequestCancel, SetAttempts, RunRecords
  <2> HIDE DEF to
  <2> QED BY <2>1, <2>2, FinalByAttempts
<1> QED BY <1>1, <1>2, <1>3, <1>4, <1>5, <1>6, <1>7, <1>8, <1>9

\* Settlement, recovery and the TeamStage operations are final.
LEMMA SettlementsFinal ==
  ASSUME NEW r \in RunRecords, Fresh(r)
  PROVE  /\ \A t \in TERMINAL_RUN_STATES \cup {"recovery_required"} :
              SettleTerminalOk(r, t) => Final(r, SettleTerminal(r, t))
         /\ \A a \in TERMINAL_RUN_STATES : Final(r, Reconcile(r, a))
         /\ ReconcileOnStartOk(r) => Final(r, ReconcileOnStart(r))
         /\ SettleTeamStageAttemptOk(r) => Final(r, SettleTeamStageAttempt(r))
<1>0. \A n \in Unsettled(r) : n \in Nodes /\ ~Settled(r, n)
  BY DEF Unsettled
<1>1. Final(r, SetAttempts(r, Unsettled(r), "recovery_required"))
  BY <1>0, SetAttemptsFinal DEF ATTEMPT_STATES
<1>2. Final(r, r)
  BY FrameFinal
<1>3. ASSUME NEW t \in TERMINAL_RUN_STATES \cup {"recovery_required"}, SettleTerminalOk(r, t)
      PROVE  Final(r, SettleTerminal(r, t))
  <2>1. CASE SettlesTeamCancel(r, t)
    <3> DEFINE m == r.stage.node
               a == [r.att[m] EXCEPT !.st = "cancelled", !.res = "cancelled"]
    <3>1. m \in Nodes /\ ~Settled(r, m)
      BY <1>3, <2>1, StageNodeType
         DEF SettleTerminalOk, SettlesTeamCancel, KnownTeamCancel, Settled, TERMINAL_ATTEMPTS, TERMINAL_RUN_STATES
    <3>2. a \in Attempt /\ a.st # "none"
      <4>1. r.att[m] \in Attempt
        BY <3>1 DEF RunRecords
      <4> HIDE DEF m
      <4> QED BY <4>1 DEF Attempt, ATTEMPT_STATES, TERMINAL_ATTEMPTS, TERMINAL_RUN_STATES, RESULTS
    <3>3. SettleTerminal(r, t).att = [r.att EXCEPT ![m] = a]
      BY <2>1 DEF SettleTerminal, SettlesTeamCancel, RunRecords
    <3> HIDE DEF m, a
    <3> QED BY <3>1, <3>2, <3>3, AttemptFinal
  <2>2. CASE ~SettlesTeamCancel(r, t) /\ t = "recovery_required"
    <3>1. SettleTerminal(r, t).att = SetAttempts(r, Unsettled(r), "recovery_required").att
      BY <2>2 DEF SettleTerminal, SetAttempts, RunRecords
    <3> QED BY <3>1, <1>1, FinalByAttempts
  <2>3. CASE ~SettlesTeamCancel(r, t) /\ t # "recovery_required"
    BY <2>3, FrameFinal DEF SettleTerminal, RunRecords
  <2> QED BY <2>1, <2>2, <2>3
<1>4. ASSUME NEW a \in TERMINAL_RUN_STATES PROVE Final(r, Reconcile(r, a))
  <2>1. a # "none"
    BY DEF TERMINAL_RUN_STATES
  <2>2. \A n \in Nodes : Reconcile(r, a).att[n] =
          IF n \in Unsettled(r) THEN [r.att[n] EXCEPT !.st = a, !.res = ResultOf(a)] ELSE r.att[n]
    BY DEF Reconcile, RunRecords
  <2>3. \A n \in Unsettled(r) : Reconcile(r, a).att[n].st = a
    <3>1. \A n \in Nodes : r.att[n] \in Attempt
      BY AttemptsType
    <3>2. \A n \in Nodes : [r.att[n] EXCEPT !.st = a, !.res = ResultOf(a)].st = a
      BY <3>1 DEF Attempt
    <3> HIDE DEF Reconcile, ResultOf
    <3> QED BY <1>0, <2>2, <3>2
  <2>4. \A n \in Nodes : Settled(r, n) => Reconcile(r, a).att[n] = r.att[n]
    BY <1>0, <2>2
  <2>5. \A n \in Unsettled(r) : Reconcile(r, a).att[n].st # "none"
    BY <2>1, <2>3
  <2>6. \A n \in Nodes \ Unsettled(r) : Reconcile(r, a).att[n] = r.att[n]
    BY <2>2
  <2> HIDE DEF Reconcile, ResultOf
  <2>7. Fresh(Reconcile(r, a))
    BY <2>5, <2>6 DEF Fresh
  <2> QED BY <2>4, <2>7 DEF Final
<1>5. ASSUME ReconcileOnStartOk(r) PROVE Final(r, ReconcileOnStart(r))
  <2>1. CASE StartSettles(r)
    BY <1>5, <1>3, <2>1 DEF ReconcileOnStart, ReconcileOnStartOk
  <2>2. Final(r, TeamRecovery(r))
    <3>1. Final(r, SetAttempts(r, Unsettled(r) \cap {r.stage.node}, "recovery_required"))
      BY <1>0, SetAttemptsFinal DEF ATTEMPT_STATES
    <3>2. TeamRecovery(r).att = SetAttempts(r, Unsettled(r) \cap {r.stage.node}, "recovery_required").att
      BY DEF TeamRecovery, SetAttempts, RunRecords
    <3> QED BY <3>1, <3>2, FinalByAttempts
  <2>3. [SetAttempts(r, Unsettled(r), "recovery_required") EXCEPT !.state = "recovery_required"].att
          = SetAttempts(r, Unsettled(r), "recovery_required").att
    BY DEF SetAttempts, RunRecords
  <2>4. Final(r, [SetAttempts(r, Unsettled(r), "recovery_required") EXCEPT !.state = "recovery_required"])
    BY <2>3, <1>1, FinalByAttempts
  <2> QED BY <2>1, <2>2, <2>4, <1>2 DEF ReconcileOnStart
<1>6. ASSUME SettleTeamStageAttemptOk(r) PROVE Final(r, SettleTeamStageAttempt(r))
  <2> DEFINE m == r.stage.node
             a == [r.att[m] EXCEPT !.st = "succeeded", !.res = "ok"]
  <2>1. m \in Nodes /\ ~Settled(r, m)
    BY <1>6, StageNodeType DEF SettleTeamStageAttemptOk, Settled, TERMINAL_ATTEMPTS, TERMINAL_RUN_STATES
  <2>2. a \in Attempt /\ a.st # "none"
    <3>1. r.att[m] \in Attempt
      BY <2>1 DEF RunRecords
    <3> HIDE DEF m
    <3> QED BY <3>1 DEF Attempt, ATTEMPT_STATES, TERMINAL_ATTEMPTS, TERMINAL_RUN_STATES, RESULTS
  <2>3. SettleTeamStageAttempt(r).att = [r.att EXCEPT ![m] = a]
    BY DEF SettleTeamStageAttempt, RunRecords
  <2> HIDE DEF m, a
  <2> QED BY <2>1, <2>2, <2>3, AttemptFinal
<1> QED BY <1>3, <1>4, <1>5, <1>6

\* The other TeamStage operations touch no Attempt.
LEMMA StageOpsFinal ==
  ASSUME NEW r \in RunRecords, Fresh(r)
  PROVE  /\ \A n \in Team \cup {None} : Final(r, BindTeamStage(r, n))
         /\ Final(r, BindTeamTask(r))
         /\ \A to \in STAGE_STATES : Final(r, UpdateTeamStage(r, to))
         /\ Final(r, RequestTeamStageCancel(r))
         /\ \A e \in Effects, x \in TEAM_EFFECT_STATES : Final(r, SetEffect(r, e, x))
         /\ \A e \in Effects : Final(r, EffectRecovery(r, e))
         /\ \A accept \in BOOLEAN : Final(r, RecordTeamOutput(r, accept))
<1>1. \A n \in Team \cup {None} : BindTeamStage(r, n).att = r.att
  BY DEF BindTeamStage, RunRecords
<1>2. BindTeamTask(r).att = r.att /\ RequestTeamStageCancel(r).att = r.att
  BY DEF BindTeamTask, RequestTeamStageCancel, RunRecords
<1>3. \A to \in STAGE_STATES : UpdateTeamStage(r, to).att = r.att
  BY DEF UpdateTeamStage, RunRecords
<1>4. \A e \in Effects, x \in TEAM_EFFECT_STATES : SetEffect(r, e, x).att = r.att
  BY DEF SetEffect, RunRecords
<1>5. \A e \in Effects : EffectRecovery(r, e).att = r.att
  BY DEF EffectRecovery, SetEffect, RunRecords
<1>6. \A accept \in BOOLEAN : RecordTeamOutput(r, accept).att = r.att
  BY DEF RecordTeamOutput, RunRecords
<1> QED BY <1>1, <1>2, <1>3, <1>4, <1>5, <1>6, FrameFinal

\* Every step of every caller is final.
LEMMA FinalStep ==
  ASSUME TypeOK, Fresh(run), [Next]_vars
  PROVE  Final(run, run')
<1>0. run \in RunRecords
  BY DEF TypeOK
<1>a. ASSUME NEW next, Write(next), next \in RunRecords, Final(run, next) PROVE Final(run, run')
  <2>1. run'.att = next.att
    BY <1>a DEF Write, Commit, RunRecords
  <2> QED BY <2>1, <1>a, FinalByAttempts
<1>1. CASE DoSetBindingDigests
  BY <1>1, <1>0, <1>a, AdmissionTypes, RunOpsFinal DEF DoSetBindingDigests
<1>2. CASE DoSkip
  BY <1>2, <1>0, <1>a, AdmissionTypes, RunOpsFinal DEF DoSkip
<1>3. CASE DoDecide
  <2>1. PICK d \in Decisions, approve \in BOOLEAN, b \in Branches, n \in Waiting(run) :
          Write(Decide(run, n, d, approve, b))
    BY <1>3 DEF DoDecide
  <2>2. n \in Nodes
    BY NodesAssumption DEF Waiting
  <2> QED BY <2>1, <2>2, <1>0, <1>a, SettlementTypes, RunOpsFinal
<1>4. CASE DoRequestCancel
  BY <1>4, <1>0, <1>a, SettlementTypes, RunOpsFinal DEF DoRequestCancel
<1>5. CASE DoSettleTerminal
  BY <1>5, <1>0, <1>a, SettlementTypes, SettlementsFinal DEF DoSettleTerminal, RUN_STATES
<1>6. CASE Review \/ SetArchived \/ UNCHANGED vars
  BY <1>6, <1>0, FrameFinal DEF Review, SetArchived, vars
<1>7. CASE DoReconcile
  BY <1>7, <1>0, <1>a, SettlementTypes, SettlementsFinal DEF DoReconcile
<1>8. CASE DoReconcileOnStart
  BY <1>8, <1>0, <1>a, StageTypes, SettlementsFinal DEF DoReconcileOnStart
<1>9. CASE DoBindTeamStage
  BY <1>9, <1>0, <1>a, StageTypes, StageOpsFinal DEF DoBindTeamStage
<1>10. CASE DoBindTeamTask \/ DoRequestTeamStageCancel
  BY <1>10, <1>0, <1>a, StageTypes, StageOpsFinal DEF DoBindTeamTask, DoRequestTeamStageCancel
<1>11. CASE DoUpdateTeamStage
  BY <1>11, <1>0, <1>a, StageTypes, StageOpsFinal DEF DoUpdateTeamStage
<1>12. CASE DoSettleTeamStageAttempt
  BY <1>12, <1>0, <1>a, StageTypes, SettlementsFinal
     DEF DoSettleTeamStageAttempt, SettleTeamStageAttemptOk
<1>13. CASE DoRecordTeamOutput
  BY <1>13, <1>0, <1>a, StageTypes, StageOpsFinal DEF DoRecordTeamOutput
<1>14. ASSUME NEW n \in Nodes, DoRecordIntent(n) \/ DoWaitInput(n) PROVE Final(run, run')
  BY <1>14, <1>0, <1>a, AdmissionTypes, RunOpsFinal DEF DoRecordIntent, DoWaitInput
<1>15. ASSUME NEW n \in Nodes, DoManagedWait(n) \/ DoManagedMessage(n) PROVE Final(run, run')
  BY <1>15, <1>0, <1>a, AdmissionTypes, RunOpsFinal DEF DoManagedWait, DoManagedMessage
<1>16. ASSUME NEW n \in Nodes, DoRecordResult(n) PROVE Final(run, run')
  BY <1>16, <1>0, <1>a, SettlementTypes, RunOpsFinal DEF DoRecordResult
<1>17. ASSUME NEW e \in Effects, DoEffect(e) PROVE Final(run, run')
  <2>1. CASE Write(EffectRecovery(run, e))
    BY <2>1, <1>0, <1>a, StageTypes, StageOpsFinal
  <2>2. ASSUME NEW x \in TEAM_EFFECT_STATES, Write(SetEffect(run, e, x)) PROVE Final(run, run')
    BY <2>2, <1>0, <1>a, StageTypes, StageOpsFinal
  <2> QED BY <1>17, <2>1, <2>2 DEF DoEffect, TEAM_EFFECT_STATES
<1> QED
  BY <1>1, <1>2, <1>3, <1>4, <1>5, <1>6, <1>7, <1>8, <1>9, <1>10, <1>11, <1>12, <1>13,
     <1>14, <1>15, <1>16, <1>17 DEF Next

\* A settled Attempt is final: no late result, cancellation, decision, skip,
\* recovery scan or operator resolution rewrites it.
THEOREM SettledAttemptsFinal == Spec => ResultsFinal
<1> DEFINE Kept == \A n \in Nodes : Settled(run, n) => run'.att[n] = run.att[n]
<1>1. Init => Fresh(run)
  BY DEF Init, NewRun, NoAttempt, Fresh
<1>2. TypeOK /\ Fresh(run) /\ [Next]_vars => Fresh(run)' /\ Kept
  BY FinalStep DEF Final, Fresh
<1>3. TypeOK /\ Fresh(run) /\ [Next]_vars => [Kept]_vars
  BY <1>2
<1> QED BY <1>1, <1>2, <1>3, TypeCorrect, PTL DEF Spec, ResultsFinal
-----------------------------------------------------------------------------
\* What an operator holds is a cut of this Run's own past, and the present cut
\* when no write was committed since: every commit advances seq.
Reviewed == review.seq \leq run.seq /\ (review.seq = run.seq => review = run)

\* A resolution is applied only to the cut its operator reviewed: any write
\* between the read and the submission makes the submitted seq stale.
THEOREM ResolutionsAreReviewed == Spec => ReviewedCutOnly
<1>1. Init /\ TypeOK => Reviewed
  BY DEF Init, Reviewed, TypeOK, RunRecords
<1>2. ASSUME TypeOK, TypeOK', NEW next, Write(next) PROVE run'.seq = run.seq + 1
  BY <1>2 DEF Write, Commit, TypeOK, RunRecords
<1>3. TypeOK /\ TypeOK' /\ Reviewed /\ [Next]_vars => Reviewed'
  <2> SUFFICES ASSUME TypeOK, TypeOK', Reviewed, [Next]_vars PROVE Reviewed'
    OBVIOUS
  <2>0. review.seq \in Nat /\ run.seq \in Nat
    BY DEF TypeOK, RunRecords
  <2>1. CASE Review
    BY <2>0, <2>1 DEF Review, Reviewed
  <2>2. ASSUME NEW next, Write(next) PROVE Reviewed'
    <3>1. review' = review /\ run'.seq = run.seq + 1
      BY <1>2, <2>2 DEF Write
    <3> QED BY <2>0, <3>1 DEF Reviewed
  <2>3. CASE SetArchived \/ UNCHANGED vars
    BY <2>3 DEF SetArchived, vars, Reviewed
  <2> QED BY <2>1, <2>2, <2>3, StepIsWrite
<1>4. Reviewed /\ [Next]_vars => [DoReconcile => run = review]_vars
  BY DEF DoReconcile, ReconcileOk, Reviewed
<1> QED BY <1>1, <1>3, <1>4, TypeCorrect, PTL DEF Spec, ReviewedCutOnly
-----------------------------------------------------------------------------
\* A write that keeps the owner of the stage and what it accepted, or leaves
\* nothing accepted, or no owner.
Owned(r, next) ==
  \/ next.stage.node = r.stage.node /\ next.stage.accepted = r.stage.accepted
  \/ ~next.stage.accepted
  \/ next.stage.node = None

\* AcceptedAtomically as a predicate on records.
Accepted(r) ==
  r.stage.accepted /\ r.stage.node # None =>
    r.att[r.stage.node].st = "succeeded" /\ r.att[r.stage.node].res = "ok"

\* The operations on Run and Attempts neither accept nor move the stage.
LEMMA RunOpsOwned ==
  ASSUME NEW r \in RunRecords
  PROVE  /\ Owned(r, SetBindingDigests(r))
         /\ \A n \in Nodes : Owned(r, RecordIntent(r, n))
         /\ \A n \in Nodes : Owned(r, WaitInput(r, n))
         /\ \A n \in Nodes : Owned(r, ManagedWait(r, n)) /\ Owned(r, ManagedMessage(r, n))
         /\ \A S \in SUBSET Nodes : Owned(r, Skip(r, S))
         /\ \A n \in Nodes, k \in RESULTS, b \in Branches \cup {None} :
              Owned(r, RecordResult(r, n, k, b))
         /\ \A n \in Nodes, d \in Decisions, approve \in BOOLEAN, b \in Branches :
              Owned(r, Decide(r, n, d, approve, b))
         /\ Owned(r, RequestCancel(r))
         /\ \A t \in RUN_STATES : Owned(r, SettleTerminal(r, t))
         /\ \A a \in TERMINAL_RUN_STATES : Owned(r, Reconcile(r, a))
         /\ Owned(r, ReconcileOnStart(r))
<1>0. Owned(r, r)
  BY DEF Owned
<1>1. Owned(r, SetBindingDigests(r))
  BY DEF SetBindingDigests, Owned, RunRecords
<1>2. \A n \in Nodes : Owned(r, RecordIntent(r, n))
  BY DEF RecordIntent, Owned, RunRecords
<1>3. \A n \in Nodes : Owned(r, WaitInput(r, n))
  BY DEF WaitInput, SetAttempts, Owned, RunRecords
<1>4. \A n \in Nodes : Owned(r, ManagedWait(r, n)) /\ Owned(r, ManagedMessage(r, n))
  BY SetAttemptsFrame DEF ManagedWait, ManagedMessage, Owned
<1>5. \A S \in SUBSET Nodes : Owned(r, Skip(r, S))
  BY SetAttemptsFrame DEF Skip, Owned
<1>6. \A n \in Nodes, k \in RESULTS, b \in Branches \cup {None} : Owned(r, RecordResult(r, n, k, b))
  BY DEF RecordResult, Owned, RunRecords
<1>7. \A n \in Nodes, d \in Decisions, approve \in BOOLEAN, b \in Branches :
        Owned(r, Decide(r, n, d, approve, b))
  BY DEF Decide, Owned, RunRecords
<1>8. Owned(r, RequestCancel(r))
  BY DEF RequestCancel, SetAttempts, Owned, RunRecords, TeamStage
<1>9. \A t \in RUN_STATES : Owned(r, SettleTerminal(r, t))
  BY DEF SettleTerminal, SetAttempts, Owned, RunRecords
<1>10. \A a \in TERMINAL_RUN_STATES : Owned(r, Reconcile(r, a))
  BY DEF Reconcile, Owned, RunRecords
<1>11. Owned(r, ReconcileOnStart(r))
  <2>1. Owned(r, TeamRecovery(r))
    BY DEF TeamRecovery, SetAttempts, Owned, RunRecords, TeamStage
  <2>2. Owned(r, [SetAttempts(r, Unsettled(r), "recovery_required") EXCEPT !.state = "recovery_required"])
    BY DEF SetAttempts, Owned, RunRecords
  <2> QED BY <1>0, <1>9, <2>1, <2>2 DEF ReconcileOnStart, RUN_STATES
<1> QED BY <1>1, <1>2, <1>3, <1>4, <1>5, <1>6, <1>7, <1>8, <1>9, <1>10, <1>11

\* Neither do those on the stage, but for an acceptance no Attempt owns.
LEMMA StageOpsOwned ==
  ASSUME NEW r \in RunRecords
  PROVE  /\ \A n \in Team \cup {None} : Owned(r, BindTeamStage(r, n))
         /\ Owned(r, BindTeamTask(r))
         /\ \A to \in STAGE_STATES : Owned(r, UpdateTeamStage(r, to))
         /\ Owned(r, RequestTeamStageCancel(r))
         /\ \A e \in Effects, x \in TEAM_EFFECT_STATES : Owned(r, SetEffect(r, e, x))
         /\ \A e \in Effects : Owned(r, EffectRecovery(r, e))
         /\ \A accept \in BOOLEAN :
              RecordTeamOutputOk(r, accept) => Owned(r, RecordTeamOutput(r, accept))
<1>1. \A n \in Team \cup {None} : Owned(r, BindTeamStage(r, n))
  BY DEF BindTeamStage, NoStage, Owned, RunRecords
<1>2. Owned(r, BindTeamTask(r)) /\ Owned(r, RequestTeamStageCancel(r))
  BY DEF BindTeamTask, RequestTeamStageCancel, Owned, RunRecords, TeamStage
<1>3. \A to \in STAGE_STATES : Owned(r, UpdateTeamStage(r, to))
  BY DEF UpdateTeamStage, Owned, RunRecords, TeamStage
<1>4. \A e \in Effects, x \in TEAM_EFFECT_STATES : Owned(r, SetEffect(r, e, x))
  BY DEF SetEffect, Owned, RunRecords, TeamStage
<1>5. \A e \in Effects : Owned(r, EffectRecovery(r, e))
  BY DEF EffectRecovery, SetEffect, Owned, RunRecords, TeamStage
<1>6. \A accept \in BOOLEAN :
        RecordTeamOutputOk(r, accept) => Owned(r, RecordTeamOutput(r, accept))
  BY DEF RecordTeamOutput, RecordTeamOutputOk, Owned, RunRecords, TeamStage
<1> QED BY <1>1, <1>2, <1>3, <1>4, <1>5, <1>6

\* Only settleTeamStageAttempt accepts for an Attempt.
LEMMA OwnedStep ==
  ASSUME TypeOK, [Next]_vars, ~DoSettleTeamStageAttempt
  PROVE  Owned(run, run')
<1>0. run \in RunRecords
  BY DEF TypeOK
<1>a. ASSUME NEW next, Write(next), next \in RunRecords, Owned(run, next) PROVE Owned(run, run')
  BY <1>a DEF Write, Commit, RunRecords, Owned
<1>1. CASE DoSetBindingDigests
  BY <1>1, <1>0, <1>a, AdmissionTypes, RunOpsOwned DEF DoSetBindingDigests
<1>2. CASE DoSkip
  BY <1>2, <1>0, <1>a, AdmissionTypes, RunOpsOwned DEF DoSkip
<1>3. CASE DoDecide
  <2>1. PICK d \in Decisions, approve \in BOOLEAN, b \in Branches, n \in Waiting(run) :
          Write(Decide(run, n, d, approve, b))
    BY <1>3 DEF DoDecide
  <2>2. n \in Nodes
    BY NodesAssumption DEF Waiting
  <2> QED BY <2>1, <2>2, <1>0, <1>a, SettlementTypes, RunOpsOwned
<1>4. CASE DoRequestCancel
  BY <1>4, <1>0, <1>a, SettlementTypes, RunOpsOwned DEF DoRequestCancel
<1>5. CASE DoSettleTerminal
  BY <1>5, <1>0, <1>a, SettlementTypes, RunOpsOwned DEF DoSettleTerminal, RUN_STATES
<1>6. CASE Review \/ SetArchived \/ UNCHANGED vars
  BY <1>6 DEF Review, SetArchived, vars, Owned
<1>7. CASE DoReconcile
  BY <1>7, <1>0, <1>a, SettlementTypes, RunOpsOwned DEF DoReconcile
<1>8. CASE DoReconcileOnStart
  BY <1>8, <1>0, <1>a, StageTypes, RunOpsOwned DEF DoReconcileOnStart
<1>9. CASE DoBindTeamStage
  BY <1>9, <1>0, <1>a, StageTypes, StageOpsOwned DEF DoBindTeamStage
<1>10. CASE DoBindTeamTask \/ DoRequestTeamStageCancel
  BY <1>10, <1>0, <1>a, StageTypes, StageOpsOwned DEF DoBindTeamTask, DoRequestTeamStageCancel
<1>11. CASE DoUpdateTeamStage
  BY <1>11, <1>0, <1>a, StageTypes, StageOpsOwned DEF DoUpdateTeamStage
<1>12. CASE DoRecordTeamOutput
  BY <1>12, <1>0, <1>a, StageTypes, StageOpsOwned DEF DoRecordTeamOutput
<1>13. ASSUME NEW n \in Nodes, DoRecordIntent(n) \/ DoWaitInput(n) PROVE Owned(run, run')
  BY <1>13, <1>0, <1>a, AdmissionTypes, RunOpsOwned DEF DoRecordIntent, DoWaitInput
<1>14. ASSUME NEW n \in Nodes, DoManagedWait(n) \/ DoManagedMessage(n) PROVE Owned(run, run')
  BY <1>14, <1>0, <1>a, AdmissionTypes, RunOpsOwned DEF DoManagedWait, DoManagedMessage
<1>15. ASSUME NEW n \in Nodes, DoRecordResult(n) PROVE Owned(run, run')
  BY <1>15, <1>0, <1>a, SettlementTypes, RunOpsOwned DEF DoRecordResult
<1>16. ASSUME NEW e \in Effects, DoEffect(e) PROVE Owned(run, run')
  <2>1. CASE Write(EffectRecovery(run, e))
    BY <2>1, <1>0, <1>a, StageTypes, StageOpsOwned
  <2>2. ASSUME NEW x \in TEAM_EFFECT_STATES, Write(SetEffect(run, e, x)) PROVE Owned(run, run')
    BY <2>2, <1>0, <1>a, StageTypes, StageOpsOwned
  <2> QED BY <1>16, <2>1, <2>2 DEF DoEffect, TEAM_EFFECT_STATES
<1> QED
  BY <1>1, <1>2, <1>3, <1>4, <1>5, <1>6, <1>7, <1>8, <1>9, <1>10, <1>11, <1>12, <1>13,
     <1>14, <1>15, <1>16 DEF Next

\* Acceptance of a graph-bound stage and success of its Attempt are one fact:
\* they are committed together, and finality keeps the Attempt as it is.
THEOREM AcceptanceIsAtomic == Spec => []AcceptedAtomically
<1>1. Init => Accepted(run) /\ Fresh(run)
  BY DEF Init, NewRun, NoStage, NoAttempt, Accepted, Fresh
<1>2. TypeOK /\ Fresh(run) /\ Accepted(run) /\ [Next]_vars => Accepted(run)'
  <2> SUFFICES ASSUME TypeOK, Fresh(run), Accepted(run), [Next]_vars PROVE Accepted(run')
    BY DEF Accepted
  <2>0. run \in RunRecords
    BY DEF TypeOK
  <2>1. CASE DoSettleTeamStageAttempt
    <3> DEFINE m == run.stage.node
    <3>1. m \in Nodes
      BY <2>0, <2>1, StageNodeType DEF DoSettleTeamStageAttempt, SettleTeamStageAttemptOk
    <3>2. run' = Commit(run, SettleTeamStageAttempt(run))
      BY <2>1 DEF DoSettleTeamStageAttempt, Write
    <3>3. run'.stage.node = m
      BY <2>0, <3>2 DEF SettleTeamStageAttempt, Commit, RunRecords, TeamStage
    <3>4. run'.att[m] = [run.att[m] EXCEPT !.st = "succeeded", !.res = "ok"]
      BY <2>0, <3>1, <3>2 DEF SettleTeamStageAttempt, Commit, RunRecords
    <3>5. run.att[m] \in Attempt
      BY <2>0, <3>1 DEF RunRecords
    <3> HIDE DEF m
    <3> QED BY <3>3, <3>4, <3>5 DEF Accepted, Attempt
  <2>2. CASE ~DoSettleTeamStageAttempt
    <3>1. Owned(run, run') /\ Final(run, run')
      BY <2>2, OwnedStep, FinalStep
    <3> QED BY <2>0, <3>1, StageNodeType DEF Owned, Final, Settled, Accepted
  <2> QED BY <2>1, <2>2
<1>3. TypeOK /\ Fresh(run) /\ [Next]_vars => Fresh(run)'
  BY FinalStep DEF Final, Fresh
<1>4. Accepted(run) <=> AcceptedAtomically
  BY DEF Accepted, AcceptedAtomically
<1> QED BY <1>1, <1>2, <1>3, <1>4, TypeCorrect, PTL DEF Spec
-----------------------------------------------------------------------------
\* Before the admission snapshot is complete nothing was dispatched: there are
\* skipped nodes at most.
Idle(r) == r.admission = "pending" => \A n \in Nodes : r.att[n].st \in {"none", "skipped"}

\* A write that completes the admission or leaves it, and with it the Attempts.
Quiet(r, next) ==
  next.admission = "captured" \/ (next.admission = r.admission /\ next.att = r.att)

\* Nothing of an idle Run is open: no Attempt carries an intent, waits for a
\* decision or a result, or belongs to a stage that could be settled.
LEMMA IdleIsSettled ==
  ASSUME NEW r \in RunRecords, r.admission = "pending", Idle(r)
  PROVE  /\ Unsettled(r) = {} /\ Waiting(r) = {}
         /\ \A n \in Nodes : ~HasIntent(r, n) /\ ~RecordResultOk(r, n) /\ ~ManagedMessageOk(r, n)
                             /\ r.att[n].st # "running"
         /\ ~StageAttemptOpen(r) /\ ~SettleTeamStageAttemptOk(r)
         /\ r.stage.node # None => ~KnownTeamCancel(r)
<1>1. \A n \in Nodes : Started(r, n) => Settled(r, n)
  BY DEF Idle, Started, Settled, TERMINAL_ATTEMPTS
<1>2. \A n \in Nodes : ~HasIntent(r, n) /\ r.att[n].st \notin {"running", "waiting_input", "cancelling"}
  BY DEF Idle, HasIntent
<1> QED
  BY <1>1, <1>2, StageNodeType, NodesAssumption
     DEF Unsettled, Waiting, RecordResultOk, ManagedMessageOk, StageAttemptOpen,
         SettleTeamStageAttemptOk, KnownTeamCancel

\* A write to no Attempt is quiet.
LEMMA SetNoAttempts ==
  ASSUME NEW r \in RunRecords, NEW st
  PROVE  SetAttempts(r, {}, st) = r
BY DEF SetAttempts, RunRecords

\* What the operations that may meet an idle Run make of it.
LEMMA IdleRunOps ==
  ASSUME NEW r \in RunRecords, Idle(r)
  PROVE  /\ Quiet(r, SetBindingDigests(r))
         /\ Quiet(r, RequestCancel(r)) \/ r.admission = "captured"
         /\ \A t \in RUN_STATES :
              SettleTerminalOk(r, t) => Quiet(r, SettleTerminal(r, t)) \/ r.admission = "captured"
         /\ \A a \in TERMINAL_RUN_STATES : Quiet(r, Reconcile(r, a)) \/ r.admission = "captured"
         /\ ReconcileOnStartOk(r) => Quiet(r, ReconcileOnStart(r)) \/ r.admission = "captured"
<1>1. Quiet(r, SetBindingDigests(r))
  BY DEF Quiet, SetBindingDigests, RunRecords
<1> SUFFICES ASSUME r.admission = "pending"
             PROVE  /\ Quiet(r, RequestCancel(r))
                    /\ \A t \in RUN_STATES : SettleTerminalOk(r, t) => Quiet(r, SettleTerminal(r, t))
                    /\ \A a \in TERMINAL_RUN_STATES : Quiet(r, Reconcile(r, a))
                    /\ ReconcileOnStartOk(r) => Quiet(r, ReconcileOnStart(r))
  BY <1>1 DEF RunRecords
<1>2. Unsettled(r) = {} /\ (r.stage.node # None => ~KnownTeamCancel(r))
  BY IdleIsSettled
<1>3. \A st : SetAttempts(r, Unsettled(r), st) = r
  BY <1>2, SetNoAttempts
<1>4. Quiet(r, RequestCancel(r))
  BY <1>3 DEF RequestCancel, Quiet, RunRecords
<1>5. ASSUME NEW t \in RUN_STATES, SettleTerminalOk(r, t) PROVE Quiet(r, SettleTerminal(r, t))
  <2>1. ~SettlesTeamCancel(r, t)
    BY <1>2, <1>5 DEF SettleTerminalOk, SettlesTeamCancel
  <2> QED BY <2>1, <1>3 DEF SettleTerminal, Quiet, RunRecords
<1>6. \A a \in TERMINAL_RUN_STATES : Quiet(r, Reconcile(r, a))
  BY <1>2 DEF Reconcile, Quiet, RunRecords
<1>7. ASSUME ReconcileOnStartOk(r) PROVE Quiet(r, ReconcileOnStart(r))
  <2>1. StartSettles(r) => Quiet(r, ReconcileOnStart(r))
    BY <1>5, <1>7 DEF ReconcileOnStart, ReconcileOnStartOk, RUN_STATES
  <2>2. SetAttempts(r, Unsettled(r) \cap {r.stage.node}, "recovery_required") = r
    BY <1>2, SetNoAttempts
  <2>3. Quiet(r, TeamRecovery(r))
    BY <2>2 DEF TeamRecovery, Quiet, RunRecords
  <2>4. Quiet(r, [r EXCEPT !.state = "recovery_required"]) /\ Quiet(r, r)
    BY DEF Quiet, RunRecords
  <2> QED BY <1>3, <2>1, <2>3, <2>4 DEF ReconcileOnStart
<1> QED BY <1>4, <1>5, <1>6, <1>7

\* The TeamStage operations that settle nothing are quiet.
LEMMA IdleStageOps ==
  ASSUME NEW r \in RunRecords
  PROVE  /\ \A n \in Team \cup {None} : Quiet(r, BindTeamStage(r, n))
         /\ Quiet(r, BindTeamTask(r))
         /\ \A to \in STAGE_STATES : Quiet(r, UpdateTeamStage(r, to))
         /\ Quiet(r, RequestTeamStageCancel(r))
         /\ \A e \in Effects, x \in TEAM_EFFECT_STATES : Quiet(r, SetEffect(r, e, x))
         /\ \A e \in Effects : Quiet(r, EffectRecovery(r, e))
         /\ \A accept \in BOOLEAN : Quiet(r, RecordTeamOutput(r, accept))
<1>1. \A n \in Team \cup {None} : Quiet(r, BindTeamStage(r, n))
  BY DEF BindTeamStage, Quiet, RunRecords
<1>2. Quiet(r, BindTeamTask(r)) /\ Quiet(r, RequestTeamStageCancel(r))
  BY DEF BindTeamTask, RequestTeamStageCancel, Quiet, RunRecords
<1>3. \A to \in STAGE_STATES : Quiet(r, UpdateTeamStage(r, to))
  BY DEF UpdateTeamStage, Quiet, RunRecords
<1>4. \A e \in Effects, x \in TEAM_EFFECT_STATES : Quiet(r, SetEffect(r, e, x))
  BY DEF SetEffect, Quiet, RunRecords
<1>5. \A e \in Effects : Quiet(r, EffectRecovery(r, e))
  BY DEF EffectRecovery, SetEffect, Quiet, RunRecords
<1>6. \A accept \in BOOLEAN : Quiet(r, RecordTeamOutput(r, accept))
  BY DEF RecordTeamOutput, Quiet, RunRecords
<1> QED BY <1>1, <1>2, <1>3, <1>4, <1>5, <1>6

\* No write to a captured Run takes its admission back.
LEMMA CapturedStays ==
  ASSUME TypeOK, TypeOK', [Next]_vars, run.admission = "captured"
  PROVE  run'.admission = "captured"
<1>0. run \in RunRecords
  BY DEF TypeOK
<1> DEFINE Same(next) == next.admission = "captured"
<1>a. ASSUME NEW next, Write(next), Same(next) PROVE run'.admission = "captured"
  <2>1. run' = [next EXCEPT !.seq = run.seq + 1] /\ run' \in RunRecords
    BY <1>a DEF Write, Commit, TypeOK
  <2> QED BY <2>1, <1>a DEF RunRecords
<1>s. \A S, st : Same(SetAttempts(run, S, st))
  BY <1>0 DEF SetAttempts, RunRecords
<1>1. Same(SetBindingDigests(run)) /\ Same(RequestCancel(run)) /\ Same(TeamRecovery(run))
  BY <1>0 DEF SetBindingDigests, RequestCancel, TeamRecovery, SetAttempts, RunRecords
<1>2. \A n \in Nodes : /\ Same(RecordIntent(run, n)) /\ Same(WaitInput(run, n))
                       /\ Same(ManagedWait(run, n)) /\ Same(ManagedMessage(run, n))
  BY <1>0 DEF RecordIntent, WaitInput, ManagedWait, ManagedMessage, SetAttempts, RunRecords
<1>3. \A n, k, b : Same(RecordResult(run, n, k, b))
  BY <1>0 DEF RecordResult, RunRecords
<1>4. \A n, d, approve, b : Same(Decide(run, n, d, approve, b))
  BY <1>0 DEF Decide, RunRecords
<1>5. \A S : Same(Skip(run, S))
  BY <1>0, <1>s DEF Skip
<1>6. \A t : Same(SettleTerminal(run, t)) /\ Same(Reconcile(run, t))
  BY <1>0 DEF SettleTerminal, Reconcile, SetAttempts, RunRecords
<1>7. Same(ReconcileOnStart(run))
  <2>1. Same([SetAttempts(run, Unsettled(run), "recovery_required") EXCEPT !.state = "recovery_required"])
    BY <1>0 DEF SetAttempts, RunRecords
  <2> HIDE DEF Same
  <2>2. Same(run)
    BY DEF Same
  <2> QED BY <1>1, <1>6, <2>1, <2>2 DEF ReconcileOnStart
<1>8. Same(SettleTeamStageAttempt(run))
  BY <1>0 DEF SettleTeamStageAttempt, RunRecords
<1>9. ASSUME NEW next, Quiet(run, next) PROVE Same(next)
  BY <1>9 DEF Quiet
<1> HIDE DEF Same
<1>10. CASE DoSetBindingDigests \/ DoRequestCancel \/ DoSkip \/ DoDecide \/ DoSettleTerminal
  BY <1>10, <1>a, <1>1, <1>4, <1>5, <1>6
     DEF DoSetBindingDigests, DoRequestCancel, DoSkip, DoDecide, DoSettleTerminal
<1>11. CASE Review \/ SetArchived \/ UNCHANGED vars
  BY <1>11 DEF Review, SetArchived, vars
<1>12. CASE DoReconcile \/ DoReconcileOnStart \/ DoSettleTeamStageAttempt
  BY <1>12, <1>a, <1>6, <1>7, <1>8 DEF DoReconcile, DoReconcileOnStart, DoSettleTeamStageAttempt
<1>13. CASE DoBindTeamStage \/ DoBindTeamTask \/ DoUpdateTeamStage \/ DoRequestTeamStageCancel
            \/ DoRecordTeamOutput
  BY <1>13, <1>0, <1>a, <1>9, IdleStageOps
     DEF DoBindTeamStage, DoBindTeamTask, DoUpdateTeamStage, DoRequestTeamStageCancel, DoRecordTeamOutput
<1>14. ASSUME NEW n \in Nodes, DoRecordIntent(n) \/ DoRecordResult(n) \/ DoWaitInput(n)
                               \/ DoManagedWait(n) \/ DoManagedMessage(n)
       PROVE  run'.admission = "captured"
  BY <1>14, <1>a, <1>2, <1>3 DEF DoRecordIntent, DoRecordResult, DoWaitInput, DoManagedWait, DoManagedMessage
<1>15. ASSUME NEW e \in Effects, DoEffect(e) PROVE run'.admission = "captured"
  BY <1>15, <1>0, <1>a, <1>9, IdleStageOps DEF DoEffect, TEAM_EFFECT_STATES
<1> QED BY <1>10, <1>11, <1>12, <1>13, <1>14, <1>15 DEF Next

\* An incomplete admission stays idle, whoever writes.
LEMMA IdleStep ==
  ASSUME TypeOK, TypeOK', Idle(run), [Next]_vars
  PROVE  Idle(run')
<1>0. run \in RunRecords
  BY DEF TypeOK
<1>1. CASE run.admission = "captured"
  BY <1>1, CapturedStays DEF Idle
<1> SUFFICES ASSUME run.admission = "pending" PROVE Idle(run')
  BY <1>0, <1>1 DEF RunRecords
<1>a. ASSUME NEW next, Write(next), Quiet(run, next) PROVE Idle(run')
  <2>1. run' = [next EXCEPT !.seq = run.seq + 1] /\ run' \in RunRecords
    BY <1>a DEF Write, Commit, TypeOK
  <2>2. run'.admission = next.admission /\ run'.att = next.att
    BY <2>1 DEF RunRecords
  <2> QED BY <2>2, <1>a DEF Quiet, Idle
<1>2. CASE DoSetBindingDigests \/ DoRequestCancel \/ DoSettleTerminal \/ DoReconcile \/ DoReconcileOnStart
  BY <1>2, <1>0, <1>a, IdleRunOps
     DEF DoSetBindingDigests, DoRequestCancel, DoSettleTerminal, DoReconcile, DoReconcileOnStart, RUN_STATES
<1>3. CASE DoSkip
  <2>1. PICK S \in SUBSET Nodes : Write(Skip(run, S))
    BY <1>3 DEF DoSkip
  <2>2. CASE run.state = "cancelling"
    BY <1>a, <2>1, <2>2 DEF Skip, Quiet
  <2>3. CASE run.state # "cancelling"
    <3>1. run'.att = [n \in Nodes |-> IF n \in {m \in S : ~Started(run, m)}
                                      THEN [run.att[n] EXCEPT !.st = "skipped"] ELSE run.att[n]]
      BY <1>0, <2>1, <2>3 DEF Skip, SetAttempts, Write, Commit, RunRecords
    <3>2. \A n \in Nodes : run'.att[n].st \in {"skipped", run.att[n].st}
      BY <1>0, <3>1 DEF RunRecords, Attempt
    <3> QED BY <3>2 DEF Idle
  <2> QED BY <2>2, <2>3
<1>4. CASE DoDecide \/ DoSettleTeamStageAttempt
  BY <1>4, <1>0, IdleIsSettled DEF DoDecide, DoSettleTeamStageAttempt
<1>5. CASE Review \/ SetArchived \/ UNCHANGED vars
  BY <1>5 DEF Review, SetArchived, vars
<1>6. CASE DoBindTeamStage \/ DoBindTeamTask \/ DoUpdateTeamStage \/ DoRequestTeamStageCancel
           \/ DoRecordTeamOutput
  BY <1>6, <1>0, <1>a, IdleStageOps
     DEF DoBindTeamStage, DoBindTeamTask, DoUpdateTeamStage, DoRequestTeamStageCancel, DoRecordTeamOutput
<1>7. ASSUME NEW n \in Nodes, DoRecordIntent(n) \/ DoRecordResult(n) \/ DoWaitInput(n)
                              \/ DoManagedWait(n) \/ DoManagedMessage(n)
      PROVE  Idle(run')
  BY <1>7, <1>0, IdleIsSettled
     DEF DoRecordIntent, DoRecordResult, DoWaitInput, DoManagedWait, DoManagedMessage
<1>8. ASSUME NEW e \in Effects, DoEffect(e) PROVE Idle(run')
  BY <1>8, <1>0, <1>a, IdleStageOps DEF DoEffect, TEAM_EFFECT_STATES
<1> QED BY <1>2, <1>3, <1>4, <1>5, <1>6, <1>7, <1>8 DEF Next

\* The startup scan settles every root Run it finds: settleTerminal throws on
\* an open Attempt of a provisioning stage only, and a root Run is settled by
\* it only while nothing was dispatched.
THEOREM RootRunsSettleOnStart == Spec => []RootStartupSettles
<1>1. Init => Idle(run)
  BY DEF Init, NewRun, NoAttempt, Idle
<1>2. TypeOK /\ TypeOK' /\ Idle(run) /\ [Next]_vars => Idle(run)'
  BY IdleStep DEF Idle
<1>3. TypeOK /\ Idle(run) => RootStartupSettles
  BY IdleIsSettled
     DEF TypeOK, RootStartupSettles, ReconcileOnStartOk, StartSettles, AdmissionIncomplete,
         OrphanedChild, SettleTerminalOk, SettlesTeamCancel
<1> QED BY <1>1, <1>2, <1>3, TypeCorrect, PTL DEF Spec
=============================================================================
