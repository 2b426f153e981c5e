-------------------------- MODULE RunRecordProofs --------------------------
(* Lemmas about the reducers of the Run aggregate: each of them maps well-   *)
(* formed records to well-formed records, for any graph.                     *)
EXTENDS RunRecord, TLAPS

\* A new Run is a well-formed record.
LEMMA NewRunType ==
  ASSUME NEW child \in BOOLEAN
  PROVE  NewRun(child) \in RunRecords
BY NodesAssumption DEF NewRun, RunRecords, NoAttempt, NoStage, Attempt, TeamStage, RUN_STATES,
   ATTEMPT_STATES, RESULTS, STAGE_STATES, TEAM_EFFECT_STATES

\* A record with other well-formed Attempts, or with one of them replaced, is
\* well formed.
LEMMA AttemptsType ==
  ASSUME NEW r \in RunRecords
  PROVE  /\ \A att \in [Nodes -> Attempt] : [r EXCEPT !.att = att] \in RunRecords
         /\ \A n \in Nodes, a \in Attempt : [r EXCEPT !.att[n] = a] \in RunRecords
         /\ \A n \in Nodes : r.att[n] \in Attempt
BY DEF RunRecords

\* Moving a set of Attempts to one state keeps the record well formed.
LEMMA SetAttemptsType ==
  ASSUME NEW r \in RunRecords, NEW S, NEW st \in ATTEMPT_STATES
  PROVE  SetAttempts(r, S, st) \in RunRecords
<1> DEFINE att == [n \in Nodes |-> IF n \in S THEN [r.att[n] EXCEPT !.st = st] ELSE r.att[n]]
<1>1. \A n \in Nodes : r.att[n] \in Attempt
  BY AttemptsType
<1>2. \A n \in Nodes : [r.att[n] EXCEPT !.st = st] \in Attempt
  BY <1>1 DEF Attempt
<1>3. att \in [Nodes -> Attempt]
  BY <1>1, <1>2
<1> HIDE DEF att
<1>4. [r EXCEPT !.att = att] \in RunRecords
  BY <1>3, AttemptsType
<1> QED BY <1>4 DEF SetAttempts, att

\* So does settling one of them.
LEMMA AttemptUpdateType ==
  ASSUME NEW r \in RunRecords, NEW n \in Nodes, NEW st \in ATTEMPT_STATES, NEW k \in RESULTS
  PROVE  [r EXCEPT !.att[n] = [@ EXCEPT !.st = st, !.res = k]] \in RunRecords
<1>1. r.att[n] \in Attempt
  BY AttemptsType
<1>2. [r.att[n] EXCEPT !.st = st, !.res = k] \in Attempt
  BY <1>1 DEF Attempt
<1> QED BY <1>2, AttemptsType

\* A stage is bound to a node of the graph or to none.
LEMMA StageNodeType ==
  ASSUME NEW r \in RunRecords
  PROVE  r.stage.node # None => r.stage.node \in Nodes
BY DEF RunRecords, TeamStage

\* Each reducer returns a well-formed record.
LEMMA AdmissionTypes ==
  ASSUME NEW r \in RunRecords
  PROVE  /\ SetBindingDigests(r) \in RunRecords
         /\ \A n \in Nodes : RecordIntent(r, n) \in RunRecords
         /\ \A n \in Nodes : WaitInput(r, n) \in RunRecords
         /\ \A n \in Nodes : ManagedWait(r, n) \in RunRecords
         /\ \A n \in Nodes : ManagedMessage(r, n) \in RunRecords
         /\ \A S \in SUBSET Nodes : Skip(r, S) \in RunRecords
<1>1. SetBindingDigests(r) \in RunRecords
  BY DEF SetBindingDigests, RunRecords
<1>2. \A n \in Nodes : RecordIntent(r, n) \in RunRecords
  BY DEF RecordIntent, RunRecords, Attempt, NoAttempt, ATTEMPT_STATES, RUN_STATES, RESULTS
<1>3. \A s \in RunRecords, st \in RUN_STATES : [s EXCEPT !.state = st] \in RunRecords
  BY DEF RunRecords
<1>4. \A n \in Nodes : WaitInput(r, n) \in RunRecords
  BY <1>3, SetAttemptsType DEF WaitInput, ATTEMPT_STATES, RUN_STATES
<1>5. \A n \in Nodes : ManagedWait(r, n) \in RunRecords /\ ManagedMessage(r, n) \in RunRecords
  BY SetAttemptsType DEF ManagedWait, ManagedMessage, ATTEMPT_STATES
<1>6. \A S \in SUBSET Nodes : Skip(r, S) \in RunRecords
  BY SetAttemptsType DEF Skip, ATTEMPT_STATES, TERMINAL_ATTEMPTS
<1> QED BY <1>1, <1>2, <1>4, <1>5, <1>6

\* A result, a decision and a cancellation return well-formed records.
LEMMA SettlementTypes ==
  ASSUME NEW r \in RunRecords
  PROVE  /\ \A n \in Nodes, k \in RESULTS, b \in Branches \cup {None} :
              RecordResult(r, n, k, b) \in RunRecords
         /\ \A n \in Nodes, d \in Decisions, approve \in BOOLEAN, b \in Branches :
              Decide(r, n, d, approve, b) \in RunRecords
         /\ RequestCancel(r) \in RunRecords
         /\ \A t \in RUN_STATES : SettleTerminal(r, t) \in RunRecords
         /\ \A a \in TERMINAL_RUN_STATES : Reconcile(r, a) \in RunRecords
<1>0. \A s \in RunRecords, st \in RUN_STATES : [s EXCEPT !.state = st] \in RunRecords
  BY DEF RunRecords
<1>1. ASSUME NEW n \in Nodes, NEW k \in RESULTS, NEW b \in Branches \cup {None}
      PROVE  RecordResult(r, n, k, b) \in RunRecords
  <2> DEFINE s == [r EXCEPT !.att[n] = [@ EXCEPT !.st = ResultState(r, k), !.res = k, !.branch = b]]
  <2>1. ResultState(r, k) \in ATTEMPT_STATES
    BY DEF ResultState, ATTEMPT_STATES, TERMINAL_ATTEMPTS, TERMINAL_RUN_STATES
  <2>2. s \in RunRecords
    <3>1. r.att[n] \in Attempt
      BY AttemptsType
    <3>2. [r.att[n] EXCEPT !.st = ResultState(r, k), !.res = k, !.branch = b] \in Attempt
      BY <2>1, <3>1 DEF Attempt
    <3> QED BY <3>2, AttemptsType
  <2> HIDE DEF s
  <2>3. [s EXCEPT !.state = "cancelled"] \in RunRecords
    BY <1>0, <2>2 DEF RUN_STATES, TERMINAL_RUN_STATES
  <2> QED BY <2>2, <2>3 DEF RecordResult, s
<1>2. ASSUME NEW n \in Nodes, NEW d \in Decisions, NEW approve \in BOOLEAN, NEW b \in Branches
      PROVE  Decide(r, n, d, approve, b) \in RunRecords
  BY DEF Decide, RunRecords, Attempt, RUN_STATES, ATTEMPT_STATES, TERMINAL_ATTEMPTS,
         TERMINAL_RUN_STATES, RESULTS
<1>3. RequestCancel(r) \in RunRecords
  <2> DEFINE to == IF ActiveAttempt(r) \/ ~StageStopped(r) THEN "cancelling" ELSE "cancelled"
             s  == SetAttempts(r, Unsettled(r), to)
             stage == IF StageStopped(r) THEN s.stage
                      ELSE [s.stage EXCEPT !.st = "cancelling", !.cancel = TRUE]
  <2>1. to \in ATTEMPT_STATES /\ to \in RUN_STATES
    BY DEF ATTEMPT_STATES, RUN_STATES, TERMINAL_ATTEMPTS, TERMINAL_RUN_STATES
  <2>2. s \in RunRecords
    BY <2>1, SetAttemptsType
  <2> HIDE DEF to, s
  <2>3. stage \in TeamStage
    BY <2>2 DEF RunRecords, TeamStage, STAGE_STATES
  <2>4. RequestCancel(r) = [s EXCEPT !.state = to, !.stage = stage]
    BY <2>2 DEF RequestCancel, s, to, RunRecords
  <2> HIDE DEF stage
  <2> QED BY <2>1, <2>2, <2>3, <2>4 DEF RunRecords
<1>4. ASSUME NEW t \in RUN_STATES PROVE SettleTerminal(r, t) \in RunRecords
  <2> DEFINE s == IF SettlesTeamCancel(r, t)
                  THEN [r EXCEPT !.att[r.stage.node] = [@ EXCEPT !.st = "cancelled", !.res = "cancelled"]]
                  ELSE r
             u == IF t = "recovery_required"
                  THEN SetAttempts(s, Unsettled(s), "recovery_required") ELSE s
  <2>1. s \in RunRecords
    BY AttemptUpdateType, StageNodeType
       DEF SettlesTeamCancel, ATTEMPT_STATES, TERMINAL_ATTEMPTS, TERMINAL_RUN_STATES, RESULTS
  <2> HIDE DEF s
  <2>2. u \in RunRecords
    BY <2>1, SetAttemptsType DEF ATTEMPT_STATES
  <2>3. SettleTerminal(r, t) =
          [u EXCEPT !.state = IF r.state = "cancelling" /\ t # "recovery_required"
                              THEN "cancelled" ELSE t]
    BY DEF SettleTerminal, s
  <2> HIDE DEF u
  <2> QED BY <1>0, <2>2, <2>3 DEF RUN_STATES, TERMINAL_RUN_STATES
<1>5. ASSUME NEW a \in TERMINAL_RUN_STATES PROVE Reconcile(r, a) \in RunRecords
  <2>1. ResultOf(a) \in RESULTS
    BY DEF ResultOf, RESULTS, TERMINAL_RUN_STATES
  <2>2. a \in ATTEMPT_STATES /\ a \in RUN_STATES
    BY DEF ATTEMPT_STATES, RUN_STATES, TERMINAL_ATTEMPTS
  <2> DEFINE att == [n \in Nodes |-> IF n \in Unsettled(r)
                                    THEN [r.att[n] EXCEPT !.st = a, !.res = ResultOf(a)] ELSE r.att[n]]
  <2>3. \A n \in Nodes : r.att[n] \in Attempt
    BY DEF RunRecords
  <2>4. \A n \in Nodes : [r.att[n] EXCEPT !.st = a, !.res = ResultOf(a)] \in Attempt
    BY <2>1, <2>2, <2>3 DEF Attempt
  <2>5. att \in [Nodes -> Attempt]
    BY <2>3, <2>4
  <2>6. Reconcile(r, a) = [r EXCEPT !.state = a, !.att = att]
    BY DEF Reconcile
  <2> HIDE DEF att
  <2> QED BY <2>2, <2>5, <2>6 DEF RunRecords
<1> QED BY <1>1, <1>2, <1>3, <1>4, <1>5

\* The startup scan and the TeamStage operations return well-formed records.
LEMMA StageTypes ==
  ASSUME NEW r \in RunRecords
  PROVE  /\ ReconcileOnStart(r) \in RunRecords
         /\ \A n \in Team \cup {None} : BindTeamStage(r, n) \in RunRecords
         /\ BindTeamTask(r) \in RunRecords
         /\ \A to \in STAGE_STATES : UpdateTeamStage(r, to) \in RunRecords
         /\ RequestTeamStageCancel(r) \in RunRecords
         /\ \A e \in Effects, x \in TEAM_EFFECT_STATES : SetEffect(r, e, x) \in RunRecords
         /\ \A e \in Effects : EffectRecovery(r, e) \in RunRecords
         /\ r.stage.node # None => SettleTeamStageAttempt(r) \in RunRecords
         /\ \A accept \in BOOLEAN : RecordTeamOutput(r, accept) \in RunRecords
<1>0. \A s \in RunRecords, st \in RUN_STATES : [s EXCEPT !.state = st] \in RunRecords
  BY DEF RunRecords
<1>1. \A s \in RunRecords, g \in TeamStage : [s EXCEPT !.stage = g] \in RunRecords
  BY DEF RunRecords
<1>2. ReconcileOnStart(r) \in RunRecords
  <2>1. SettleTerminal(r, "recovery_required") \in RunRecords
    BY SettlementTypes DEF RUN_STATES, ATTEMPT_STATES
  <2>2. \A S : SetAttempts(r, S, "recovery_required") \in RunRecords
    BY SetAttemptsType DEF ATTEMPT_STATES
  <2>3. \A s \in RunRecords : [s EXCEPT !.state = "recovery_required"] \in RunRecords
    BY <1>0 DEF RUN_STATES
  <2>4. \A s \in RunRecords :
          [s EXCEPT !.state = "recovery_required",
                    !.stage = [@ EXCEPT !.st = "recovery_required", !.recovery = TRUE]] \in RunRecords
    <3>1. \A g \in TeamStage : [g EXCEPT !.st = "recovery_required", !.recovery = TRUE] \in TeamStage
      BY DEF TeamStage, STAGE_STATES
    <3>2. \A s \in RunRecords : s.stage \in TeamStage
      BY DEF RunRecords
    <3>3. \A s \in RunRecords, g \in TeamStage :
            [s EXCEPT !.state = "recovery_required", !.stage = g] \in RunRecords
      BY DEF RunRecords, RUN_STATES
    <3> QED BY <3>1, <3>2, <3>3
  <2>5. TeamRecovery(r) \in RunRecords
    BY <2>2, <2>4 DEF TeamRecovery
  <2> QED BY <2>1, <2>2, <2>3, <2>5 DEF ReconcileOnStart
<1>3. \A n \in Team \cup {None} : BindTeamStage(r, n) \in RunRecords
  BY NodesAssumption DEF BindTeamStage, RunRecords, TeamStage, NoStage, STAGE_STATES, TEAM_EFFECT_STATES
<1>4. BindTeamTask(r) \in RunRecords
  BY DEF BindTeamTask, RunRecords, TeamStage, STAGE_STATES
<1>5. \A to \in STAGE_STATES : UpdateTeamStage(r, to) \in RunRecords
  BY DEF UpdateTeamStage, RunRecords, TeamStage
<1>6. RequestTeamStageCancel(r) \in RunRecords
  BY DEF RequestTeamStageCancel, RunRecords, TeamStage, STAGE_STATES
<1>7. \A e \in Effects, x \in TEAM_EFFECT_STATES : SetEffect(r, e, x) \in RunRecords
  BY DEF SetEffect, RunRecords, TeamStage
<1>8. ASSUME NEW e \in Effects PROVE EffectRecovery(r, e) \in RunRecords
  <2>1. SetEffect(r, e, "recovery_required") \in RunRecords
    BY <1>7 DEF TEAM_EFFECT_STATES
  <2>2. \A s \in RunRecords :
          [s EXCEPT !.stage = [@ EXCEPT !.st = "recovery_required", !.recovery = TRUE]] \in RunRecords
    BY DEF RunRecords, TeamStage, STAGE_STATES
  <2> QED BY <2>1, <2>2 DEF EffectRecovery
<1>9. ASSUME r.stage.node # None PROVE SettleTeamStageAttempt(r) \in RunRecords
  <2> DEFINE g == [r.stage EXCEPT !.st = "succeeded", !.accepted = TRUE]
             s == [r EXCEPT !.stage = g]
  <2>1. g \in TeamStage
    BY DEF RunRecords, TeamStage, STAGE_STATES, STAGE_SETTLED
  <2>2. g.node = r.stage.node
    BY DEF RunRecords, TeamStage
  <2>3. s \in RunRecords /\ s.stage = g
    BY <1>1, <2>1 DEF RunRecords
  <2>4. SettleTeamStageAttempt(r) =
          [s EXCEPT !.att[r.stage.node] = [@ EXCEPT !.st = "succeeded", !.res = "ok"]]
    BY DEF SettleTeamStageAttempt
  <2> HIDE DEF g, s
  <2>5. r.stage.node \in Nodes
    BY <1>9, StageNodeType
  <2>6. "succeeded" \in ATTEMPT_STATES /\ "ok" \in RESULTS
    BY DEF ATTEMPT_STATES, TERMINAL_ATTEMPTS, TERMINAL_RUN_STATES, RESULTS
  <2>7. [s EXCEPT !.att[r.stage.node] = [@ EXCEPT !.st = "succeeded", !.res = "ok"]] \in RunRecords
    BY <2>3, <2>5, <2>6, AttemptUpdateType
  <2> QED BY <2>4, <2>7
<1>10. \A accept \in BOOLEAN : RecordTeamOutput(r, accept) \in RunRecords
  BY DEF RecordTeamOutput, RunRecords, TeamStage, STAGE_STATES, STAGE_SETTLED
<1> QED BY <1>2, <1>3, <1>4, <1>5, <1>6, <1>7, <1>8, <1>9, <1>10
=============================================================================
