------------------------------ MODULE RunStore ------------------------------
(* The RunStore as its callers see it: every public operation is one atomic  *)
(* read-modify-write of the Run record (RunStore.serial plus the per-key     *)
(* queue of DirectoryTable), and any caller may invoke any operation at any  *)
(* time.  What holds here holds for every driver, client, recovery scan and  *)
(* interleaving of them; RunDriver adds what only the real caller guarantees. *)
EXTENDS RunRecord

CONSTANT MaxSeq   \* bound on the number of committed writes

ASSUME MaxSeqAssumption == MaxSeq \in Nat

VARIABLES
  run,       \* the durable RunRecord
  archived,  \* the RunLifecycleRecord kept beside it
  review     \* the cut an operator read before submitting a recovery

vars == <<run, archived, review>>

TypeOK ==
  /\ run \in RunRecords
  /\ archived \in BOOLEAN
  /\ review \in RunRecords

Init ==
  /\ \E child \in BOOLEAN : run = NewRun(child)
  /\ archived = FALSE
  /\ review = run

\* One committed transition whose reducer returns next.
Write(next) ==
  /\ run.seq < MaxSeq
  /\ Applies(run, next)
  /\ run' = Commit(run, next)
  /\ UNCHANGED <<archived, review>>
-----------------------------------------------------------------------------
DoSetBindingDigests == SetBindingDigestsOk(run) /\ Write(SetBindingDigests(run))

\* driveRun returns before any dispatch while the admission is incomplete.
DoRecordIntent(n) ==
  run.admission = "captured" /\ RecordIntentOk(run, n) /\ Write(RecordIntent(run, n))

DoRecordResult(n) ==
  /\ RecordResultOk(run, n)
  /\ \E k \in RESULTS \ {"none"}, b \in Branches \cup {None} : Write(RecordResult(run, n, k, b))

DoWaitInput(n) ==
  /\ n \in Human /\ HasIntent(run, n) /\ ~Settled(run, n)
  /\ Write(WaitInput(run, n))

DoManagedWait(n) ==
  /\ n \notin Human \cup Team
  /\ run.att[n].st = "running" /\ Write(ManagedWait(run, n))

DoManagedMessage(n) ==
  /\ n \notin Human \cup Team
  /\ ManagedMessageOk(run, n) /\ Write(ManagedMessage(run, n))

DoSkip == \E S \in SUBSET Nodes \ {{}} : Write(Skip(run, S))

DoDecide ==
  \E d \in Decisions, approve \in BOOLEAN, b \in Branches :
    /\ DecideOk(run, d)
    /\ \E n \in Waiting(run) : Write(Decide(run, n, d, approve, b))

DoRequestCancel == RequestCancelOk(run) /\ Write(RequestCancel(run))

DoSettleTerminal ==
  \E t \in TERMINAL_RUN_STATES \cup {"recovery_required"} :
    SettleTerminalOk(run, t) /\ Write(SettleTerminal(run, t))

\* resolveRecovery reads the Run first and submits the seq it read.
Review ==
  /\ run.state = "recovery_required" /\ review # run
  /\ review' = run
  /\ UNCHANGED <<run, archived>>

DoReconcile ==
  \E a \in TERMINAL_RUN_STATES :
    ReconcileOk(run, review.seq) /\ Write(Reconcile(run, a))

\* The startup scan after a crash or a takeover of the writer lease.
DoReconcileOnStart ==
  /\ ReconcileOnStartOk(run) /\ ReconcileOnStart(run) # run
  /\ Write(ReconcileOnStart(run))

DoBindTeamStage ==
  \E n \in Team \cup {None} : BindTeamStageOk(run, n) /\ Write(BindTeamStage(run, n))

DoBindTeamTask == BindTeamTaskOk(run) /\ Write(BindTeamTask(run))

DoUpdateTeamStage ==
  \E to \in STAGE_STATES \ {"none"} :
    UpdateTeamStageOk(run, to) /\ Write(UpdateTeamStage(run, to))

DoRequestTeamStageCancel == RequestTeamStageCancelOk(run) /\ Write(RequestTeamStageCancel(run))

DoEffect(e) ==
  \/ EffectIntentOk(run, e) /\ Write(SetEffect(run, e, "pending"))
  \/ EffectPending(run, e) /\ \E s \in {"succeeded", "failed"} : Write(SetEffect(run, e, s))
  \/ EffectPending(run, e) /\ Write(EffectRecovery(run, e))

DoSettleTeamStageAttempt == SettleTeamStageAttemptOk(run) /\ Write(SettleTeamStageAttempt(run))

DoRecordTeamOutput ==
  \E accept \in BOOLEAN : RecordTeamOutputOk(run, accept) /\ Write(RecordTeamOutput(run, accept))

\* setArchived: a reversible history action on terminal Runs only.
SetArchived ==
  /\ Terminal(run)
  /\ archived' = ~archived
  /\ UNCHANGED <<run, review>>

Next ==
  \/ DoSetBindingDigests \/ DoSkip \/ DoDecide \/ DoRequestCancel \/ DoSettleTerminal
  \/ Review \/ DoReconcile \/ DoReconcileOnStart
  \/ DoBindTeamStage \/ DoBindTeamTask \/ DoUpdateTeamStage \/ DoRequestTeamStageCancel
  \/ DoSettleTeamStageAttempt \/ DoRecordTeamOutput \/ SetArchived
  \/ \E n \in Nodes : DoRecordIntent(n) \/ DoRecordResult(n) \/ DoWaitInput(n)
                      \/ DoManagedWait(n) \/ DoManagedMessage(n)
  \/ \E e \in Effects : DoEffect(e)

Spec == Init /\ [][Next]_vars
-----------------------------------------------------------------------------
\* A terminal Run is immutable: once applyTransition has committed a terminal
\* state, no operation of any caller changes the record again.
TerminalImmutable == [][Terminal(run) => run' = run]_vars

\* A settled Attempt is final: no late result, cancellation, decision, skip,
\* recovery scan or operator resolution rewrites an Attempt that has a result
\* or a terminal state.
ResultsFinal == [][\A n \in Nodes : Settled(run, n) => run'.att[n] = run.att[n]]_vars

\* A cancellation wins every race with a settlement: a cancelling Run ends
\* cancelled or needs recovery, although the state table alone would also let
\* it succeed, fail or time out.
CancelWins ==
  [][run.state = "cancelling" =>
       run'.state \in {"cancelling", "cancelled", "recovery_required"}]_vars

\* An operator's resolution applies only to the cut that was reviewed: what
\* changed after the review (a late result, a Team effect) makes it stale.
ReviewedCutOnly == [][DoReconcile => run = review]_vars

\* The first cancellation fact of a TeamStage is a cutoff: from then on the
\* stage is never reopened, accepted, failed or timed out.
StageCutoff ==
  run.stage.cancel => run.stage.st \in {"cancelling", "cancelled", "recovery_required"}

\* Acceptance of a graph-bound TeamStage and success of its Attempt are one
\* fact: no crash or interleaving separates them.
AcceptedAtomically ==
  run.stage.accepted /\ run.stage.node # None =>
    run.att[run.stage.node].st = "succeeded" /\ run.att[run.stage.node].res = "ok"

\* The startup scan can settle every root Run it finds: reconcileOnStart does
\* not throw, so one unfinished Run cannot keep the runtime from opening.
RootStartupSettles == ~run.child => ReconcileOnStartOk(run)

\* recovery.ts promises the same of every Run whose last intent has no result,
\* child Runs included.
StartupSettles == ReconcileOnStartOk(run)
=============================================================================
