----------------------------- MODULE RunDriver -----------------------------
(* One Run from admission to settlement, as the coordinator process drives   *)
(* it: RunExecutionService.scheduleRun, driveRun and executeRunNode, the     *)
(* cancel and decide requests, the closing of the runtime, crashes and       *)
(* restarts.  An action is the code between two awaits that other tasks can  *)
(* observe; what a task read before an await it keeps in rec, exec or drv    *)
(* and uses later, stale or not.  The record is the one of RunRecord; its    *)
(* seq, which only reviews of recoveries read, stays 0 here.                 *)
EXTENDS Scheduler

CONSTANTS
  Capacity,       \* maxConcurrentNodes
  MaxExits,       \* bound on process exits, by crash or after a close
  MaxFaults,      \* bound on failing store writes
  FaultyRequests  \* which client requests' writes may fail: "cancel", "decide"

ASSUME DriverAssumption ==
  /\ Capacity \in Nat \ {0}
  /\ MaxExits \in Nat /\ MaxFaults \in Nat
  /\ FaultyRequests \subseteq {"cancel", "decide"}
  /\ Team = {}

VARIABLES
  run,      \* the durable RunRecord
  up,       \* the process and its runtime handle exist
  admitted, \* startRun has finished its admission
  drv,      \* the Run's job: where it is, its stop reason, a fatal error
  rec,      \* the record driveRun read last
  exec,     \* one executeRunNode call per node
  effect,   \* what really became of the node's external effect (ghost)
  calls,    \* how often that effect was started (ghost)
  rerun,    \* handle.rerun holds the Run
  asked,    \* requests between their store write and what follows it
  close,    \* progress of closing the runtime
  hung,     \* backgroundFailures names the Run
  exits,    \* process exits so far
  faults    \* failed writes so far

host == <<up, admitted, close, hung, exits>>
ghost == <<effect, calls>>
vars == <<run, host, drv, rec, rerun, exec, asked, ghost, faults>>

NoRecord == [state |-> "none"]
Idle == [pc |-> "none", abort |-> FALSE, out |-> "none"]
Off == [pc |-> "off", stop |-> "none", fatal |-> FALSE]

EXEC_PC == {"none", "prep", "intent", "check", "dispatch", "effect", "wait", "waited",
            "result", "done"}
\* out: the result to record, or how a finished call settles.
EXEC_OUT == RESULTS \cup {"drift", "unknown", "prepare-failed", "error"}
DRV_PC == {"off", "start", "top", "act", "race", "finally", "throw", "catch", "end"}
\* "quit": the Agent's turn was aborted, but not by the Run.
EFFECTS == {"none", "busy", "ok", "failed", "cancelled", "quit", "unknown"}

TypeOK ==
  /\ run \in [state: RUN_STATES, admission: {"pending", "captured"}, att: [Nodes -> Attempt],
              stage: {NoStage}, child: {FALSE}, seq: {0}]
  /\ {up, admitted, rerun, hung} \subseteq BOOLEAN
  /\ drv \in [pc: DRV_PC, stop: {"none", "failed", "timed_out", "cancelled", "recovery_required"}, fatal: BOOLEAN]
  /\ rec = NoRecord <=> drv.pc # "act"
  /\ exec \in [Nodes -> [pc: EXEC_PC, abort: BOOLEAN, out: EXEC_OUT]]
  /\ effect \in [Nodes -> EFFECTS] /\ calls \in [Nodes -> Nat]
  /\ asked \in [cancel: {"none", "cancelled", "cancelling"}, decide: BOOLEAN]
  /\ close \in {"open", "closing", "aborted", "closed"}
  /\ exits \in 0 .. MaxExits /\ faults \in 0 .. MaxFaults

NoRequests == [cancel |-> "none", decide |-> FALSE]

Init ==
  /\ run = NewRun(FALSE)
  /\ up = TRUE /\ admitted = FALSE
  /\ drv = Off /\ rec = NoRecord /\ rerun = FALSE /\ hung = FALSE
  /\ exec = [n \in Nodes |-> Idle]
  /\ effect = [n \in Nodes |-> "none"] /\ calls = [n \in Nodes |-> 0]
  /\ asked = NoRequests /\ close = "open"
  /\ exits = 0 /\ faults = 0
-----------------------------------------------------------------------------
Closing == close # "open"
Active == {n \in Nodes : exec[n].pc # "none"}
Completed == {n \in Nodes : exec[n].pc = "done"}
\* handle.jobs has the Run, and handle.controllers has it.
HasJob == drv.pc # "off"
HasControllers == drv.pc \in {"top", "act", "race", "finally", "throw"}

AbortNone == exec
AbortAll ==
  [n \in Nodes |-> IF n \in Active \ Completed THEN [exec[n] EXCEPT !.abort = TRUE] ELSE exec[n]]

\* scheduleRun: a Run that already has a job is driven once more after it.
ScheduleLost ==
  /\ drv' = IF Closing \/ HasJob THEN drv ELSE [Off EXCEPT !.pc = "start"]
  /\ rerun' = rerun
Schedule ==
  /\ drv' = IF Closing \/ HasJob THEN drv ELSE [Off EXCEPT !.pc = "start"]
  /\ rerun' = (rerun \/ (~Closing /\ HasJob))

\* What a reducer leaves behind: it throws, and writes nothing, on a terminal
\* Run and on a state change the table forbids.
Written(r, next) == IF Applies(r, next) THEN next ELSE r
\* A write that fails: DirectoryTable.update reports an error before it has
\* replaced the record file, or after, when it appends to the event log.
Fault(results) == faults < MaxFaults /\ faults' = faults + 1 /\ run' \in results
-----------------------------------------------------------------------------
(* startRun: capture the bindings, then schedule. *)

Capture ==
  /\ up /\ ~admitted
  /\ SetBindingDigestsOk(run) /\ Applies(run, SetBindingDigests(run))
  /\ run' = SetBindingDigests(run)
  /\ admitted' = TRUE /\ Schedule
  /\ UNCHANGED <<up, close, hung, exits, rec, exec, asked, ghost, faults>>

\* Freezing resources failed, or the Run was cancelled meanwhile.
CaptureFails ==
  /\ up /\ ~admitted
  /\ run' = Written(run, SettleTerminal(run, "failed"))
  /\ admitted' = TRUE
  /\ UNCHANGED <<up, close, hung, exits, drv, rec, rerun, exec, asked, ghost, faults>>
-----------------------------------------------------------------------------
(* driveRun. *)

JobFrame == UNCHANGED <<host, rerun, asked, ghost>>
\* Where a step of the loop leaves the job; the record read is forgotten.
Leave(pc) == drv' = [drv EXCEPT !.pc = pc] /\ rec' = NoRecord
\* A write of the job after an earlier one of the same step left the record r.
JobWrite(r, next, pc) ==
  \/ /\ run' = Written(r, next)
     /\ Leave(IF Applies(r, next) THEN pc ELSE "throw")
     /\ UNCHANGED faults
  \/ Fault({run, r, Written(r, next)}) /\ Leave("throw")

\* A Run whose admission is incomplete is settled and not driven.
Start ==
  /\ up /\ drv.pc = "start"
  /\ LET pending == run.admission = "pending" IN
     /\ run' = IF pending THEN Written(run, SettleTerminal(run, "recovery_required")) ELSE run
     /\ Leave(IF pending THEN "end" ELSE "top")
  /\ UNCHANGED <<exec, faults>> /\ JobFrame

\* The head of the loop: drain the finished calls, read the record, and derive
\* the stop reason.  An unknown effect outranks every other reason, a failed or
\* timed-out Attempt outranks a cancelled one.
Reasons == {exec[n].out : n \in Completed}
DrainedStop ==
  IF "unknown" \in Reasons THEN "recovery_required"
  ELSE IF drv.stop = "none" /\ "prepare-failed" \in Reasons THEN "failed"
  ELSE drv.stop
AttemptStates == {run.att[n].st : n \in Nodes}
StopByFirstFailure(stop) ==
  LET bad == AttemptStates \cap {"failed", "timed_out", "cancelled"}
  IN  IF stop # "none" THEN {stop} ELSE IF bad # {} THEN bad ELSE {"none"}
StopReasons(stop) ==
  LET bad == AttemptStates \cap {"failed", "timed_out"} IN
  IF stop # "none" THEN {stop}
  ELSE IF bad # {} THEN bad
  ELSE IF "cancelled" \in AttemptStates THEN {"cancelled"} ELSE {"none"}
Top ==
  /\ up /\ drv.pc = "top"
  /\ exec' = [n \in Nodes |-> IF n \in Completed THEN Idle ELSE exec[n]]
  /\ rec' = run
  /\ \E s \in StopReasons(DrainedStop) :
       drv' = [pc |-> "act", stop |-> s, fatal |-> drv.fatal \/ "error" \in Reasons]
  /\ UNCHANGED <<run, faults>> /\ JobFrame

Acting == up /\ drv.pc = "act"
RecSettled == rec.state \in TERMINAL_RUN_STATES \cup {"recovery_required"}
MustStop == drv.stop # "none" \/ drv.fatal \/ RecSettled \/ rec.state = "cancelling" \/ Closing
\* isClosing: the Run is cancelled first.
ClosingCancel ==
  IF Closing /\ ~RecSettled /\ RequestCancelOk(run) THEN RequestCancel(run) ELSE run

\* Something stops the Run while calls are in flight: abort them and wait.
ActAbort ==
  /\ Acting /\ MustStop /\ Active # {}
  /\ \/ run' = ClosingCancel /\ exec' = AbortAll /\ Leave("race") /\ UNCHANGED faults
     \/ ClosingCancel # run /\ Fault({run, ClosingCancel}) /\ Leave("throw") /\ UNCHANGED exec
  /\ JobFrame

\* Everything drained: settle the Run for the reason it stopped.
ActSettle ==
  /\ Acting /\ MustStop /\ Active = {} /\ ~drv.fatal
  /\ LET r == ClosingCancel
         t == IF drv.stop = "none" THEN "cancelled" ELSE drv.stop
     IN  IF drv.stop = "recovery_required" \/ ~RecSettled
         THEN JobWrite(r, SettleTerminal(r, t), "finally")
         ELSE run' = r /\ Leave("finally") /\ UNCHANGED faults
  /\ UNCHANGED exec /\ JobFrame

\* A call threw: the job throws its error on.
ActFatal ==
  /\ Acting /\ MustStop /\ Active = {} /\ drv.fatal
  /\ run' = ClosingCancel /\ Leave("throw")
  /\ UNCHANGED <<exec, faults>> /\ JobFrame

Driving == Acting /\ ~MustStop
ActWaiting ==
  /\ Driving /\ rec.state = "waiting_input"
  /\ Leave("finally")
  /\ UNCHANGED <<run, exec, faults>> /\ JobFrame

ActSkip ==
  /\ Driving /\ rec.state # "waiting_input" /\ SkippedNodes(rec) # {}
  /\ JobWrite(run, Skip(run, SkippedNodes(rec)), "top")
  /\ UNCHANGED exec /\ JobFrame

Exclusive(n) == n \in Human
Ready == ReadyNodes(rec) \ Active
\* A node that owns the Run alone waits for the others to drain, and nothing
\* is added beside it.
DispatchableBeside ==
  IF Cardinality(Active) >= Capacity \/ (\E m \in Active : Exclusive(m)) THEN {} ELSE Ready
Dispatchable ==
  IF \/ Cardinality(Active) >= Capacity
     \/ \E m \in Active : Exclusive(m)
     \/ Active # {} /\ \E n \in Ready : Exclusive(n)
  THEN {} ELSE Ready

Plain == Driving /\ rec.state # "waiting_input" /\ SkippedNodes(rec) = {}
ActDispatch ==
  /\ Plain
  /\ \E n \in Dispatchable : exec' = [exec EXCEPT ![n] = [Idle EXCEPT !.pc = "prep"]]
  /\ Leave("top")
  /\ UNCHANGED <<run, faults>> /\ JobFrame

ActRace ==
  /\ Plain /\ Dispatchable = {} /\ Active # {}
  /\ Leave("race")
  /\ UNCHANGED <<run, exec, faults>> /\ JobFrame

ActComplete ==
  /\ Plain /\ Dispatchable = {} /\ Active = {}
  /\ LET t == IF Complete(rec) THEN "succeeded" ELSE "recovery_required"
     IN  JobWrite(run, SettleTerminal(run, t), "finally")
  /\ UNCHANGED exec /\ JobFrame

\* Promise.race over the active calls.
Race ==
  /\ up /\ drv.pc = "race" /\ Completed # {}
  /\ Leave("top")
  /\ UNCHANGED <<run, exec, faults>> /\ JobFrame

\* The finally block: no call outlives the job.
FinallyAbort ==
  /\ up /\ drv.pc \in {"finally", "throw"} /\ AbortAll # exec
  /\ exec' = AbortAll
  /\ UNCHANGED <<run, drv, rec, faults>> /\ JobFrame

Finally ==
  /\ up /\ drv.pc \in {"finally", "throw"} /\ Active = Completed
  /\ exec' = [n \in Nodes |-> Idle]
  /\ Leave(IF drv.pc = "throw" THEN "catch" ELSE "end")
  /\ UNCHANGED <<run, faults>> /\ JobFrame

\* scheduleRun's catch: an Attempt without result makes the failure unknown.
\* When this settlement fails too, backgroundFailures names the Run.
CatchState == IF ActiveAttempt(run) THEN "recovery_required" ELSE "failed"
Catch ==
  /\ up /\ drv.pc = "catch"
  /\ LET settled == run.state \in TERMINAL_RUN_STATES \cup {"recovery_required"}
         next == SettleTerminal(run, CatchState)
     IN  \/ /\ run' = IF settled THEN run ELSE Written(run, next)
            /\ hung' = (hung \/ (~settled /\ ~Applies(run, next)))
            /\ UNCHANGED faults
         \/ ~settled /\ Fault({run, Written(run, next)}) /\ hung' = TRUE
  /\ Leave("end")
  /\ UNCHANGED <<up, admitted, close, exits, rerun, exec, asked, ghost>>

End ==
  /\ up /\ drv.pc = "end"
  /\ rerun' = FALSE
  /\ drv' = [Off EXCEPT !.pc = IF rerun /\ ~Closing THEN "start" ELSE "off"]
  /\ UNCHANGED <<run, host, rec, exec, asked, ghost, faults>>
-----------------------------------------------------------------------------
(* executeRunNode. *)

CallFrame == UNCHANGED <<host, drv, rec, rerun, asked>>
At(n, pc) == up /\ exec[n].pc = pc
Go(n, pc, out) == exec' = [exec EXCEPT ![n] = [@ EXCEPT !.pc = pc, !.out = out]]
\* The catch block of a call that threw: a settled Run needs nothing more; a
\* storage error is thrown on; without an intent only a Run that nothing else
\* stops fails for it.
ThrownOn(r) == IF Terminal(r) THEN "none" ELSE "error"
NoIntentOut(r) ==
  IF Terminal(r) \/ r.state = "cancelling" \/ FailedSibling(r) THEN "none" ELSE "prepare-failed"

\* Bind the inputs and prepare the frozen resources: they are intact, drifted
\* (settled after the intent) or damaged.
Prepare(n) ==
  /\ At(n, "prep") /\ ~Closing /\ ~exec[n].abort
  /\ Go(n, "intent", "none") \/ Go(n, "intent", "drift")
  /\ UNCHANGED <<run, ghost, faults>> /\ CallFrame
PrepareDamaged(n) ==
  /\ At(n, "prep") /\ n \in Agents
  /\ Go(n, "done", NoIntentOut(run))
  /\ UNCHANGED <<run, ghost, faults>> /\ CallFrame
PrepareStopped(n) ==
  /\ At(n, "prep") /\ (Closing \/ exec[n].abort)
  /\ LET next == IF Closing /\ RequestCancelOk(run) THEN RequestCancel(run) ELSE run IN
     \/ run' = next /\ Go(n, "done", "none") /\ UNCHANGED faults
     \/ next # run /\ Fault({run, next}) /\ Go(n, "done", ThrownOn(run'))
  /\ UNCHANGED ghost /\ CallFrame

\* The durable intent comes before any effect.
Intent(n) ==
  /\ At(n, "intent")
  /\ LET next == RecordIntent(run, n) IN
     IF RecordIntentOk(run, n)
     THEN \/ run' = next /\ Go(n, "check", exec[n].out) /\ UNCHANGED faults
          \/ Fault({run, next}) /\ Go(n, "done", ThrownOn(run'))
     ELSE Go(n, "done", NoIntentOut(run)) /\ UNCHANGED <<run, faults>>
  /\ UNCHANGED ghost /\ CallFrame

\* A cancellation or a failed sibling may have committed since: look again.
Check(n) ==
  /\ At(n, "check")
  /\ IF run.state = "cancelling" \/ FailedSibling(run) \/ exec[n].abort
     THEN Go(n, "result", "cancelled")
     ELSE IF exec[n].out = "drift" THEN Go(n, "result", "failed")
     ELSE IF n \in Human THEN Go(n, "wait", "none")
     ELSE IF n \in Agents THEN Go(n, "dispatch", "none")
     ELSE Go(n, "result", "ok")
  /\ UNCHANGED <<run, ghost, faults>> /\ CallFrame

\* Materialise the resources, take the workspace write lease if the tools need
\* it, and create the Agent unless the call was aborted.
Dispatch(n) ==
  /\ At(n, "dispatch") /\ ~exec[n].abort
  /\ Go(n, "effect", "none")
  /\ effect' = [effect EXCEPT ![n] = "busy"] /\ calls' = [calls EXCEPT ![n] = @ + 1]
  /\ UNCHANGED <<run, faults>> /\ CallFrame
DispatchFails(n) ==
  /\ At(n, "dispatch")
  /\ \/ exec[n].abort /\ Go(n, "result", "cancelled")
     \/ Go(n, "result", "failed")
     \/ Go(n, "done", "unknown")
  /\ UNCHANGED <<run, ghost, faults>> /\ CallFrame

\* The Agent: a turn that ends after an abort is cancelled whatever it says,
\* and one that does not come to rest in time is unknown.
AgentOutcomes(n) == IF exec[n].abort THEN {"cancelled", "failed", "unknown"}
                    ELSE {"ok", "failed", "cancelled", "unknown"}
EffectEnds(n) ==
  /\ At(n, "effect")
  /\ \E k \in AgentOutcomes(n) :
       /\ effect' = [effect EXCEPT ![n] = IF k = "cancelled" /\ ~exec[n].abort THEN "quit" ELSE k]
       /\ Go(n, IF k = "unknown" THEN "done" ELSE "result", k)
  /\ UNCHANGED <<run, calls, faults>> /\ CallFrame

Result(n) ==
  /\ At(n, "result")
  /\ \E b \in IF n \in Condition /\ exec[n].out = "ok" THEN Branches ELSE {None} :
       LET next == RecordResult(run, n, exec[n].out, b) IN
       IF RecordResultOk(run, n) /\ Applies(run, next)
       THEN \/ run' = next /\ Go(n, "done", "none") /\ UNCHANGED faults
            \/ Fault({run, next}) /\ Go(n, "done", ThrownOn(run'))
       ELSE Go(n, "done", ThrownOn(run)) /\ UNCHANGED <<run, faults>>
  /\ UNCHANGED ghost /\ CallFrame

Wait(n) ==
  /\ At(n, "wait")
  /\ LET next == WaitInput(run, n) IN
     IF Applies(run, next)
     THEN \/ run' = next /\ Go(n, "waited", "none") /\ UNCHANGED faults
          \/ Fault({run, next}) /\ Go(n, "done", ThrownOn(run'))
     ELSE Go(n, "done", ThrownOn(run)) /\ UNCHANGED <<run, faults>>
  /\ UNCHANGED ghost /\ CallFrame
Waited(n) ==
  /\ At(n, "waited")
  /\ IF run.state = "cancelling" THEN Go(n, "result", "cancelled") ELSE Go(n, "done", "none")
  /\ UNCHANGED <<run, ghost, faults>> /\ CallFrame

CallStep(n) ==
  \/ Prepare(n) \/ PrepareDamaged(n) \/ PrepareStopped(n) \/ Intent(n) \/ Check(n)
  \/ Dispatch(n) \/ DispatchFails(n) \/ Result(n) \/ Wait(n) \/ Waited(n)
-----------------------------------------------------------------------------
(* Client requests: a store write, then what follows it in the same call. *)

RequestFrame == UNCHANGED <<host, rec, ghost>>
Cancel ==
  /\ up /\ close # "closed" /\ asked.cancel = "none" /\ ~Terminal(run)
  /\ LET next == IF RequestCancelOk(run) THEN RequestCancel(run) ELSE run IN
     \/ /\ run' = next
        /\ asked' = [asked EXCEPT !.cancel = IF next.state = "cancelling" THEN "cancelling" ELSE "cancelled"]
        /\ UNCHANGED faults
     \/ "cancel" \in FaultyRequests /\ next # run /\ Fault({run, next}) /\ UNCHANGED asked
  /\ UNCHANGED <<drv, rerun, exec>> /\ RequestFrame
\* Abort what runs; a cancelling Run that nobody drives is scheduled to settle.
CancelFollows ==
  /\ up /\ asked.cancel # "none"
  /\ exec' = IF HasControllers THEN AbortAll ELSE exec
  /\ IF asked.cancel = "cancelling" /\ ~HasControllers THEN Schedule ELSE UNCHANGED <<drv, rerun>>
  /\ asked' = [asked EXCEPT !.cancel = "none"]
  /\ UNCHANGED <<run, faults>> /\ RequestFrame

\* An approval takes a branch that leaves the node, if any does.
ApprovedBranches(n) ==
  LET out == {e.branch : e \in {x \in Control : x.from = n}} \ {None}
  IN  IF out = {} THEN Branches ELSE out
\* A decision already in the record answers a retry and changes nothing.
DecideRun ==
  /\ up /\ close # "closed" /\ ~asked.decide
  /\ \E d \in Decisions, n \in Waiting(run), approve \in BOOLEAN :
       \E b \in ApprovedBranches(n) :
         LET next == Decide(run, n, d, approve, b) IN
         /\ DecideOk(run, d)
         /\ \/ run' = next /\ asked' = [asked EXCEPT !.decide = approve] /\ UNCHANGED faults
            \/ "decide" \in FaultyRequests /\ Fault({run, next}) /\ UNCHANGED asked
  /\ UNCHANGED <<drv, rerun, exec>> /\ RequestFrame
DecideFollows ==
  /\ up /\ asked.decide
  /\ Schedule
  /\ asked' = [asked EXCEPT !.decide = FALSE]
  /\ UNCHANGED <<run, exec, faults>> /\ RequestFrame
-----------------------------------------------------------------------------
(* Closing, crashing and restarting the process. *)

CloseFrame == UNCHANGED <<run, up, admitted, hung, exits, drv, rec, rerun, asked, ghost, faults>>
Close ==
  /\ up /\ close = "open"
  /\ close' = "closing"
  /\ UNCHANGED exec /\ CloseFrame
CloseAborts ==
  /\ up /\ close = "closing"
  /\ close' = "aborted"
  /\ exec' = IF HasControllers THEN AbortAll ELSE exec
  /\ CloseFrame
\* The store is closed and the lease released once every job has ended.
CloseWithoutJobs ==
  /\ up /\ close = "aborted" /\ admitted
  /\ close' = "closed"
  /\ UNCHANGED exec /\ CloseFrame
CloseDone ==
  /\ up /\ close = "aborted" /\ ~HasJob /\ admitted
  /\ close' = "closed"
  /\ UNCHANGED exec /\ CloseFrame

\* Memory is lost; an Agent that was working may have done anything.
Exit ==
  /\ up /\ exits < MaxExits
  /\ up' = FALSE /\ exits' = exits + 1
  /\ admitted' = TRUE /\ close' = "open" /\ hung' = FALSE
  /\ drv' = Off /\ rec' = NoRecord /\ rerun' = FALSE /\ asked' = NoRequests
  /\ exec' = [n \in Nodes |-> Idle]
  /\ effect' = [n \in Nodes |-> IF effect[n] = "busy" THEN "unknown" ELSE effect[n]]
  /\ UNCHANGED <<run, calls, faults>>

\* openRuntime: reconcile, then drive what is still open.
Restart ==
  /\ ~up /\ up' = TRUE
  /\ run' = ReconcileOnStart(run)
  /\ drv' = IF run'.state \in {"queued", "running", "cancelling"} THEN [Off EXCEPT !.pc = "start"] ELSE Off
  /\ UNCHANGED <<admitted, close, hung, exits, rec, rerun, exec, asked, ghost, faults>>
-----------------------------------------------------------------------------
JobStep ==
  \/ Start \/ Top \/ ActAbort \/ ActSettle \/ ActFatal \/ ActWaiting \/ ActSkip \/ ActDispatch
  \/ ActRace \/ ActComplete \/ Race \/ FinallyAbort \/ Finally \/ Catch \/ End
Next ==
  \/ Capture \/ CaptureFails \/ JobStep
  \/ \E n \in Nodes : CallStep(n) \/ EffectEnds(n)
  \/ Cancel \/ CancelFollows \/ DecideRun \/ DecideFollows
  \/ Close \/ CloseAborts \/ CloseDone \/ Exit \/ Restart

Spec == Init /\ [][Next]_vars

\* The event loop runs every task that can run, an operator restarts a process
\* that died, and an aborted Agent comes to rest or its grace period ends.  An
\* Agent that nobody aborts has no deadline, and clients owe no request.
Fairness ==
  /\ WF_vars(Capture \/ CaptureFails) /\ WF_vars(JobStep)
  /\ \A n \in Nodes : WF_vars(CallStep(n)) /\ WF_vars(exec[n].abort /\ EffectEnds(n))
  /\ WF_vars(CancelFollows) /\ WF_vars(DecideFollows)
  /\ WF_vars(CloseAborts) /\ WF_vars(CloseDone) /\ WF_vars(Restart)
FairSpec == Spec /\ Fairness
-----------------------------------------------------------------------------
\* At most once: whatever crashes, restarts, faults and cancellations happen,
\* driveRun never starts the external effect of a node twice.
AtMostOnce == \A n \in Nodes : calls[n] <= 1

\* No effect hides behind a settlement: while an Agent works, or nobody knows
\* what it did, its Attempt has no result and the Run is not terminal.
NoEffectBehindResult ==
  \A n \in Agents : effect[n] \in {"busy", "unknown"} => ~Terminal(run) /\ ~Settled(run, n)

\* Nothing runs before its inputs: when a node has a durable intent, each of
\* its parents has succeeded, or was skipped and the node is a join.
InputsFirst ==
  \A n \in Nodes, m \in Nodes :
    /\ HasIntent(run, n)
    /\ <<m, n>> \in Data \/ \E e \in ControlIn(n) : e.from = m
    => IsTerminalSuccess(run, m) \/ (n \in Join /\ IsTerminal(run, m))

\* External effects happen once, with their inputs, and never unaccounted for
\* (driveRun, executeRunNode, readyNodes).
EffectsInOrder == AtMostOnce /\ NoEffectBehindResult /\ InputsFirst

\* A Run succeeds exactly on its selected paths: the nodes that ran are those
\* the graph and the branches taken call for, and the others were skipped.
SucceededOnSelectedPaths ==
  run.state = "succeeded" =>
    LET S == {n \in Nodes : run.att[n].st = "succeeded"}
        branch == [n \in Nodes |-> run.att[n].branch]
    IN  \A n \in Nodes : IF OnSelectedPath(n, S, branch) THEN n \in S ELSE run.att[n].st = "skipped"

\* A human decision owns the Run: while the Run waits for it, no call of
\* another node is in flight, so a decision meets no late result.
WaitsAlone ==
  run.state = "waiting_input" => \A n \in Nodes \ Human : exec[n].pc = "none" /\ n \notin Unsettled(run)

\* The reason of a failure survives the siblings it interrupts: a running Run
\* that its own job settles does not end cancelled when an Attempt failed,
\* unless an Agent had quit by itself before.
FailureNotMasked ==
  [][run.state = "running" /\ run'.state = "cancelled" /\ drv' # drv /\ ~Closing
       => \/ \A n \in Nodes : run'.att[n].st \notin {"failed", "timed_out"}
          \/ \E n \in Agents : effect[n] = "quit"]_vars

\* A Run that is not settled and waits for nobody has a job, a request that is
\* about to schedule one, or a recorded background failure.
NeverStranded ==
  up /\ admitted /\ ~Closing /\ ~hung /\ run.state \in {"queued", "running", "cancelling"}
    => HasJob \/ asked # NoRequests

\* Once the runtime is closed and its lease released, this process changes
\* neither the record nor any effect.
QuietAfterClose == [][up /\ close = "closed" => UNCHANGED <<run, effect>>]_vars

\* A cancellation a client was told of settles the Run, however long its
\* Agents would have worked, unless the failure to settle it is on record.
CancelSettles ==
  asked.cancel = "cancelling"
    ~> run.state \in TERMINAL_RUN_STATES \cup {"recovery_required"} \/ hung
=============================================================================
