----------------------------- MODULE RunRecord -----------------------------
(* The durable Run aggregate of xuanling-blueprint and the reducers that     *)
(* RunStore.applyTransition commits to it, as operators on a record r.       *)
(* A reducer X comes with a guard XOk: the code throws, and writes nothing,  *)
(* exactly when the guard is false.  Node ids stand for Attempts: recordIntent *)
(* admits one Attempt per node, so an Attempt is identified by its node.     *)
EXTENDS Integers, FiniteSets

CONSTANTS
  Nodes,      \* node ids of the frozen definition graph
  Human,      \* the humanDecision nodes
  Team,       \* the agentTask nodes that declare a TeamStage
  Branches,   \* branch ids a decision or a condition can select
  Decisions,  \* decision ids callers may send
  Effects,    \* effect ids of native Team calls
  None        \* "no value": undefined or null in the code

ASSUME NodesAssumption ==
  /\ Human \subseteq Nodes
  /\ Team \subseteq Nodes \ Human
  /\ None \notin Nodes \cup Branches \cup Decisions

TERMINAL_RUN_STATES == {"succeeded", "failed", "cancelled", "timed_out"}
RUN_STATES == TERMINAL_RUN_STATES \cup
  {"queued", "running", "waiting_input", "cancelling", "recovery_required"}
TERMINAL_ATTEMPTS == TERMINAL_RUN_STATES \cup {"skipped"}
ATTEMPT_STATES == TERMINAL_ATTEMPTS \cup
  {"none", "running", "waiting_input", "cancelling", "recovery_required"}
\* Attempt outcomes the code tells apart; "none" is an Attempt without result.
RESULTS == {"none", "ok", "failed", "timeout", "cancelled"}
STAGE_SETTLED == {"succeeded", "failed", "cancelled", "timed_out"}
STAGE_STATES == STAGE_SETTLED \cup
  {"none", "provisioning", "active", "waiting_input", "cancelling", "recovery_required"}
TEAM_EFFECT_STATES == {"none", "pending", "succeeded", "failed", "recovery_required"}

Attempt == [st: ATTEMPT_STATES, res: RESULTS,
            branch: Branches \cup {None}, decision: Decisions \cup {None}]
TeamStage == [st: STAGE_STATES, node: Nodes \cup {None}, cancel: BOOLEAN,
              recovery: BOOLEAN, task: BOOLEAN, accepted: BOOLEAN,
              effects: [Effects -> TEAM_EFFECT_STATES]]
RunRecords == [state: RUN_STATES, admission: {"pending", "captured"},
               att: [Nodes -> Attempt], stage: TeamStage, child: BOOLEAN, seq: Nat]

NoAttempt == [st |-> "none", res |-> "none", branch |-> None, decision |-> None]
NoStage == [st |-> "none", node |-> None, cancel |-> FALSE, recovery |-> FALSE,
            task |-> FALSE, accepted |-> FALSE,
            effects |-> [e \in Effects |-> "none"]]

\* The record createRunSerial puts: queued, no Attempt, bindings not captured;
\* a child Run (blueprintCall) carries the identity of its parent.
NewRun(child) ==
  [state |-> "queued", admission |-> "pending", att |-> [n \in Nodes |-> NoAttempt],
   stage |-> NoStage, child |-> child, seq |-> 0]
-----------------------------------------------------------------------------
Terminal(r) == r.state \in TERMINAL_RUN_STATES
StartedOpen(r, n) ==
  r.att[n].st \in {"running", "waiting_input", "cancelling", "recovery_required"}
Started(r, n) == r.att[n].st # "none"
\* Every Attempt but a skipped one carries a dispatch intent.
HasIntent(r, n) == r.att[n].st \notin {"none", "skipped"}
Settled(r, n) == r.att[n].res # "none" \/ r.att[n].st \in TERMINAL_ATTEMPTS
Unsettled(r) == {n \in Nodes : HasIntent(r, n) /\ ~Settled(r, n)}
\* The dispatch cutoff of recordIntent and of the pre-dispatch check.
FailedSibling(r) == \E n \in Nodes : r.att[n].st \in {"failed", "timed_out", "cancelled"}
UnknownEffect(r) == \E e \in Effects : r.stage.effects[e] \in {"pending", "recovery_required"}
StageBound(r) == r.stage.st # "none"
\* requestCancel's stageTerminal: nothing left for a cancellation to stop.
StageStopped(r) == r.stage.st \in STAGE_SETTLED \cup {"none", "recovery_required"}

ALLOWED ==
  [queued |-> {"running", "cancelling", "recovery_required"} \cup TERMINAL_RUN_STATES,
   running |-> {"waiting_input", "cancelling", "recovery_required"} \cup TERMINAL_RUN_STATES,
   waiting_input |-> {"running", "cancelling", "cancelled", "recovery_required"},
   cancelling |-> TERMINAL_RUN_STATES \cup {"recovery_required"},
   recovery_required |-> TERMINAL_RUN_STATES,
   succeeded |-> {}, failed |-> {}, cancelled |-> {}, timed_out |-> {}]

CanTransitionRun(from, to) == from = to \/ to \in ALLOWED[from]

AppliesToTerminal(r, next) == CanTransitionRun(r.state, next.state)
\* applyTransition: the terminal guard runs before the reducer, the state
\* change must be legal, and every committed write advances seq.
Applies(r, next) == ~Terminal(r) /\ CanTransitionRun(r.state, next.state)
Commit(r, next) == [next EXCEPT !.seq = r.seq + 1]

\* The same update on every node of S.
SetAttempts(r, S, st) ==
  [r EXCEPT !.att = [n \in Nodes |-> IF n \in S THEN [r.att[n] EXCEPT !.st = st] ELSE r.att[n]]]
-----------------------------------------------------------------------------
(* Admission and dispatch. *)

\* setBindingDigests: completes the admission snapshot; an equal replay on a
\* captured Run is accepted.
SetBindingDigestsOk(r) ==
  r.admission = "captured" \/ (r.state = "queued" /\ \A n \in Nodes : ~Started(r, n))
SetBindingDigests(r) == [r EXCEPT !.admission = "captured"]

\* recordIntent: one Attempt per node, none after a sibling failed.
RecordIntentOk(r, n) ==
  /\ r.state \in {"queued", "running"}
  /\ ~FailedSibling(r)
  /\ ~Started(r, n)
RecordIntent(r, n) ==
  [r EXCEPT !.state = "running", !.att[n] = [NoAttempt EXCEPT !.st = "running"]]

\* recordResult: settles an open Attempt once, and never the Attempt of a
\* TeamStage that is still provisioning.
RecordResultOk(r, n) ==
  /\ Started(r, n)
  /\ ~(r.stage.st = "provisioning" /\ r.stage.node = n)
  /\ ~Settled(r, n)
ResultState(r, k) ==
  IF r.state = "cancelling" \/ k = "cancelled" THEN "cancelled"
  ELSE IF k = "timeout" THEN "timed_out" ELSE IF k = "ok" THEN "succeeded" ELSE "failed"
RecordResult(r, n, k, b) ==
  LET s == [r EXCEPT !.att[n] = [@ EXCEPT !.st = ResultState(r, k), !.res = k, !.branch = b]]
  IN  IF r.state = "cancelling" /\ \A m \in Nodes : Started(s, m) => Settled(s, m)
      THEN [s EXCEPT !.state = "cancelled"] ELSE s

\* The driver's reducer for a humanDecision node: the Run waits, unless a
\* cancellation was committed first (the reducer then changes nothing).
WaitInput(r, n) ==
  IF r.state = "cancelling" THEN r
  ELSE [SetAttempts(r, {n}, "waiting_input") EXCEPT !.state = "waiting_input"]

\* ManagedNodeSessions: an idle managed Agent waits for a message while its
\* Run goes on; an accepted message makes the Attempt run again.
ManagedWait(r, n) ==
  IF r.state = "running" /\ r.att[n].res = "none" THEN SetAttempts(r, {n}, "waiting_input") ELSE r
ManagedMessageOk(r, n) ==
  r.state = "running" /\ r.att[n].res = "none" /\ r.att[n].st \in {"running", "waiting_input"}
ManagedMessage(r, n) == SetAttempts(r, {n}, "running")

\* The driver's reducer for nodes on unselected paths.
Skip(r, S) ==
  IF r.state = "cancelling" THEN r ELSE SetAttempts(r, {n \in S : ~Started(r, n)}, "skipped")

\* decide: only a waiting Run has a decision to take.
DecisionMade(r, d) == \E n \in Nodes : r.att[n].decision = d
Waiting(r) == {n \in Human : r.att[n].st = "waiting_input" /\ r.att[n].res = "none"}
DecideOk(r, d) == ~DecisionMade(r, d) /\ r.state = "waiting_input" /\ Waiting(r) # {}
Decide(r, n, d, approve, b) ==
  [r EXCEPT !.state = IF approve THEN "running" ELSE "cancelled",
            !.att[n] = [st |-> IF approve THEN "succeeded" ELSE "cancelled",
                        res |-> IF approve THEN "ok" ELSE "cancelled",
                        branch |-> b, decision |-> d]]
-----------------------------------------------------------------------------
(* Cancellation, settlement and recovery. *)

\* requestCancel leaves settled Runs, and a cancellation already cut off, alone.
NeedsTeamCutoff(r) == ~StageStopped(r) /\ (r.stage.st # "cancelling" \/ ~r.stage.cancel)
RequestCancelOk(r) ==
  /\ r.state \notin TERMINAL_RUN_STATES \cup {"recovery_required"}
  /\ r.state = "cancelling" => NeedsTeamCutoff(r)
\* Something is still running: a waiting Attempt has no effect in flight.
ActiveAttempt(r) == \E n \in Unsettled(r) : r.att[n].st # "waiting_input"
RequestCancel(r) ==
  LET to == IF ActiveAttempt(r) \/ ~StageStopped(r) THEN "cancelling" ELSE "cancelled"
      s  == SetAttempts(r, Unsettled(r), to)
  IN  [s EXCEPT !.state = to,
                !.stage = IF StageStopped(r) THEN @ ELSE [@ EXCEPT !.st = "cancelling", !.cancel = TRUE]]

\* settleTerminal, and the two facts it refuses to overwrite.
StageAttemptOpen(r) ==
  /\ r.stage.st = "provisioning" /\ r.stage.node # None
  /\ Started(r, r.stage.node) /\ ~Settled(r, r.stage.node)
SettlesTeamCancel(r, t) == t = "cancelled" /\ r.state = "cancelling" /\ r.stage.node # None
KnownTeamCancel(r) ==
  /\ r.stage.st = "cancelled" /\ r.stage.cancel /\ ~r.stage.recovery
  /\ ~UnknownEffect(r)
  /\ r.att[r.stage.node].st = "cancelling" /\ r.att[r.stage.node].res = "none"
SettleTerminalOk(r, t) ==
  ~StageAttemptOpen(r) /\ (SettlesTeamCancel(r, t) => KnownTeamCancel(r))
SettleTerminalIgnoringCancel(r, t) ==
  LET u == IF t = "recovery_required" THEN SetAttempts(r, Unsettled(r), t) ELSE r
  IN  [u EXCEPT !.state = t]
SettleTerminal(r, t) ==
  LET s == IF SettlesTeamCancel(r, t)
           THEN [r EXCEPT !.att[r.stage.node] = [@ EXCEPT !.st = "cancelled", !.res = "cancelled"]]
           ELSE r
      u == IF t = "recovery_required" THEN SetAttempts(s, Unsettled(s), "recovery_required") ELSE s
  IN  [u EXCEPT !.state = IF r.state = "cancelling" /\ t # "recovery_required" THEN "cancelled" ELSE t]

\* reconcile: the operator's reviewed terminal settles every open Attempt.
TeamStageBlocksRecovery(r) == r.stage.st \notin STAGE_SETTLED \cup {"none"}
ReconcileAnyCut(r, expectedSeq) == r.state = "recovery_required" /\ ~TeamStageBlocksRecovery(r)
ReconcileOk(r, expectedSeq) ==
  r.state = "recovery_required" /\ r.seq = expectedSeq /\ ~TeamStageBlocksRecovery(r)
ResultOfRaw(a) == a
ResultOf(a) == CASE a = "succeeded" -> "ok" [] a = "timed_out" -> "timeout" [] OTHER -> a
ReconcileEveryAttempt(r, a) ==
  [r EXCEPT !.state = a,
            !.att = [n \in Nodes |-> IF HasIntent(r, n)
                                     THEN [r.att[n] EXCEPT !.st = a, !.res = ResultOf(a)]
                                     ELSE r.att[n]]]
Reconcile(r, a) ==
  [r EXCEPT !.state = a,
            !.att = [n \in Nodes |-> IF n \in Unsettled(r)
                                     THEN [r.att[n] EXCEPT !.st = a, !.res = ResultOf(a)]
                                     ELSE r.att[n]]]

\* reconcileOnStart: what a restart does to one Run, in the order of its tests.
AdmissionIncomplete(r) ==
  r.admission = "pending" /\ r.state \notin TERMINAL_RUN_STATES \cup {"recovery_required"}
TeamRecoveryNeeded(r) ==
  /\ ~Terminal(r) /\ StageBound(r) /\ UnknownEffect(r)
  /\ \/ r.state # "recovery_required"
     \/ r.stage.st # "recovery_required"
     \/ /\ r.stage.node # None /\ r.stage.node \in Unsettled(r)
        /\ r.att[r.stage.node].st # "recovery_required"
OrphanedChild(r) == r.child /\ r.state \notin TERMINAL_RUN_STATES \cup {"recovery_required"}
IntentWithoutResult(r) ==
  /\ r.state \notin TERMINAL_RUN_STATES \cup {"recovery_required", "waiting_input"}
  /\ Unsettled(r) # {}
TeamRecovery(r) ==
  [SetAttempts(r, Unsettled(r) \cap {r.stage.node}, "recovery_required")
     EXCEPT !.state = "recovery_required",
            !.stage = [@ EXCEPT !.st = "recovery_required", !.recovery = TRUE]]
StartSettles(r) == AdmissionIncomplete(r) \/ (~TeamRecoveryNeeded(r) /\ OrphanedChild(r))
\* The startup scan throws, and the runtime does not open, when this is false.
ReconcileOnStartByTerminal(r) ==
  StartSettles(r) \/ IntentWithoutResult(r) => SettleTerminalOk(r, "recovery_required")
ReconcileOnStartOk(r) == StartSettles(r) => SettleTerminalOk(r, "recovery_required")
ReconcileOnStart(r) ==
  IF StartSettles(r) THEN SettleTerminal(r, "recovery_required")
  ELSE IF TeamRecoveryNeeded(r) THEN TeamRecovery(r)
  ELSE IF IntentWithoutResult(r)
       THEN [SetAttempts(r, Unsettled(r), "recovery_required") EXCEPT !.state = "recovery_required"]
  ELSE r
-----------------------------------------------------------------------------
(* The TeamStage sidecar of the record. *)

\* bindTeamStage: once, on a running Attempt of the declared node (or on none,
\* for a stage owned by a conversation).
BindTeamStageOk(r, n) ==
  ~StageBound(r) /\ (n # None => r.att[n].st = "running" /\ r.att[n].res = "none")
BindTeamStage(r, n) == [r EXCEPT !.stage = [NoStage EXCEPT !.st = "provisioning", !.node = n]]

StageOpen(r) == r.stage.st \in {"provisioning", "active", "waiting_input"}
BindTeamTaskLate(r) == StageBound(r) /\ ~r.stage.task
BindTeamTaskOk(r) == StageOpen(r) /\ ~r.stage.task
BindTeamTask(r) == [r EXCEPT !.stage = [@ EXCEPT !.task = TRUE, !.st = "active"]]

AllowedTeamStageTransition(from, to) ==
  \/ from = to
  \/ to = "recovery_required"
  \/ from = "cancelling" /\ to = "cancelled"
  \/ from = "provisioning"
     /\ to \in {"active", "waiting_input", "cancelling", "cancelled", "failed", "timed_out"}
  \/ from \in {"active", "waiting_input"}
     /\ to \in {"active", "waiting_input", "cancelling", "succeeded", "failed", "timed_out"}

\* updateTeamStage: success of a graph-bound stage has its own settlement.
UpdateTeamStageOk(r, to) ==
  /\ StageBound(r) /\ r.stage.st # "succeeded"
  /\ to = "succeeded" => r.stage.node = None /\ r.stage.accepted
  /\ AllowedTeamStageTransition(r.stage.st, to)
\* Callers send a cancel fact exactly with "cancelling" and a recovery fact
\* exactly with "recovery_required".
UpdateTeamStage(r, to) ==
  [r EXCEPT !.stage = IF to = "cancelling" THEN [@ EXCEPT !.st = to, !.cancel = TRUE]
                      ELSE IF to = "recovery_required" THEN [@ EXCEPT !.st = to, !.recovery = TRUE]
                      ELSE [@ EXCEPT !.st = to]]

\* requestTeamStageCancel: the stage-only cutoff; Run and Attempts keep going.
RequestTeamStageCancelOk(r) == StageBound(r) /\ NeedsTeamCutoff(r)
RequestTeamStageCancel(r) ==
  [r EXCEPT !.stage = [@ EXCEPT !.st = "cancelling", !.cancel = TRUE]]

\* The runner's append: intent, then a result or an explicit unknown.
EffectIntentOk(r, e) == StageBound(r) /\ r.stage.effects[e] = "none"
EffectPending(r, e) == StageBound(r) /\ r.stage.effects[e] = "pending"
SetEffect(r, e, s) == [r EXCEPT !.stage.effects[e] = s]
EffectRecovery(r, e) ==
  [SetEffect(r, e, "recovery_required")
     EXCEPT !.stage = [@ EXCEPT !.st = "recovery_required", !.recovery = TRUE]]

SettleTeamStageOnly(r) == [r EXCEPT !.stage = [@ EXCEPT !.st = "succeeded", !.accepted = TRUE]]
\* settleTeamStageAttempt: accepted stage and Attempt success in one write.
SettleTeamStageAttemptOk(r) ==
  /\ r.state \notin {"cancelling", "recovery_required"}
  /\ r.stage.node # None /\ r.stage.task /\ ~r.stage.accepted
  /\ \A e \in Effects : r.stage.effects[e] # "pending"
  /\ StageOpen(r) /\ ~r.stage.cancel /\ ~r.stage.recovery
  /\ r.att[r.stage.node].res = "none"
  /\ r.att[r.stage.node].st \in {"running", "waiting_input"}
SettleTeamStageAttempt(r) ==
  [r EXCEPT !.stage = [@ EXCEPT !.st = "succeeded", !.accepted = TRUE],
            !.att[r.stage.node] = [@ EXCEPT !.st = "succeeded", !.res = "ok"]]

\* recordTeamOutputAcceptance: a rejection fails the stage; an acceptance is
\* only stored for a stage that no graph Attempt owns.
RecordTeamOutputOk(r, accept) ==
  /\ StageOpen(r) /\ r.stage.task /\ ~r.stage.accepted
  /\ accept => r.stage.node = None
RecordTeamOutput(r, accept) ==
  [r EXCEPT !.stage = IF accept THEN [@ EXCEPT !.accepted = TRUE] ELSE [@ EXCEPT !.st = "failed"]]
=============================================================================
