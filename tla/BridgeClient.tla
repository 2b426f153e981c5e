---------------------------- MODULE BridgeClient ----------------------------
(* The DeepSeek Harness side of the bridge: HarnessRuntime of                *)
(* bridge-client.mjs.  Every activation has a bridge process and a           *)
(* connection of its own.  A step ends at an await; the bridge (BridgeJobs)  *)
(* shows here only as the job it accepted, which runs, settles with or       *)
(* without a confirmed cleanup, and whose answers may be lost.               *)
EXTENDS Integers

CONSTANTS
  Ops,     \* activations
  MaxLost  \* bound on RPCs that fail in the transport or time out

ASSUME ClientAssumption == MaxLost \in Nat

VARIABLES
  op,       \* the closure state of start for each activation
  bridge,   \* external: the bridge's job and whether the connection is closed
  runtime,  \* HarnessRuntime: disposed, its active set, the disposals it awaits
  lost      \* failed RPCs so far

clVars == <<op, bridge, runtime, lost>>

Job == {"none", "running", "confirmed", "unconfirmed"}
Final == {"none", "confirmed", "unconfirmed"}
Op == [pc: {"new", "connect", "health", "submit", "ready", "rejected"},
       sent: BOOLEAN,           \* harness_submit was sent
       aborted: BOOLEAN, closing: BOOLEAN, uncertain: BOOLEAN,
       job: BOOLEAN,            \* identity.job_id is known
       final: Final,
       wait: {"off", "on", "failed"},
       cancel: {"none", "called", "done", "failed"},
       dispose: {"none", "startup", "cancel", "close", "ok", "failed"},
       unsure: BOOLEAN]         \* dispose will throw CLEANUP_UNCONFIRMED
NewOp == [pc |-> "new", sent |-> FALSE, aborted |-> FALSE, closing |-> FALSE, uncertain |-> FALSE,
          job |-> FALSE, final |-> "none", wait |-> "off", cancel |-> "none",
          dispose |-> "none", unsure |-> FALSE]

ClTypeOK ==
  /\ op \in [Ops -> Op]
  /\ bridge \in [Ops -> [job: Job, closed: BOOLEAN]]
  /\ runtime \in [disposed: BOOLEAN, active: SUBSET Ops, awaits: SUBSET Ops, end: {"none", "ok", "failed"}]
  /\ lost \in 0 .. MaxLost

ClInit ==
  /\ op = [o \in Ops |-> NewOp]
  /\ bridge = [o \in Ops |-> [job |-> "none", closed |-> FALSE]]
  /\ runtime = [disposed |-> FALSE, active |-> {}, awaits |-> {}, end |-> "none"]
  /\ lost = 0
-----------------------------------------------------------------------------
Loses == lost < MaxLost /\ lost' = lost + 1
Local == UNCHANGED <<bridge, runtime, lost>>
Stopping(o) == op[o].aborted \/ runtime.disposed \/ op[o].closing

(* operation.dispose, called by the host, by the runtime or by start itself. *)
Disposing(r) ==
  [r EXCEPT !.closing = TRUE, !.dispose = IF @ = "none" THEN "startup" ELSE @]
(* The catch of start: startup is resolved, then the operation is disposed.  *)
Rejected(r) == [Disposing(r) EXCEPT !.pc = "rejected"]
(* cancel(): nothing to do without a job or after a final result; one call.  *)
Cancelling(r) ==
  [r EXCEPT !.cancel = IF @ = "none" /\ r.job /\ r.final = "none" THEN "called" ELSE @]

Start(o) ==
  /\ op[o].pc = "new" /\ ~runtime.disposed /\ ~op[o].aborted
  /\ op' = [op EXCEPT ![o].pc = "connect"]
  /\ runtime' = [runtime EXCEPT !.active = @ \cup {o}]
  /\ UNCHANGED <<bridge, lost>>

(* connect and harness_health answer, or fail (not spawned, unavailable).    *)
Connected(o) ==
  /\ op[o].pc = "connect"
  /\ op' = [op EXCEPT ![o] = IF Stopping(o) THEN Rejected(@) ELSE [@ EXCEPT !.pc = "health"]]
  /\ Local

Healthy(o) ==
  /\ op[o].pc = "health"
  /\ op' = [op EXCEPT ![o] = IF Stopping(o) THEN Rejected(@)
                             ELSE [@ EXCEPT !.pc = "submit", !.sent = TRUE, !.uncertain = TRUE]]
  /\ Local

StartFails(o) ==
  /\ op[o].pc \in {"connect", "health"} /\ Loses
  /\ op' = [op EXCEPT ![o] = Rejected(@)]
  /\ UNCHANGED <<bridge, runtime>>

(* harness_submit: accepted; refused by the bridge; or the answer is lost or *)
(* malformed, which leaves open whether a job was accepted.                  *)
AfterSubmit(r, stopping) ==
  IF stopping THEN Rejected(r) ELSE [r EXCEPT !.pc = "ready", !.wait = "on"]

Accepted(o) ==
  /\ op[o].pc = "submit" /\ bridge[o].job # "none"
  /\ op' = [op EXCEPT ![o] = AfterSubmit([@ EXCEPT !.job = TRUE, !.uncertain = FALSE], Stopping(o))]
  /\ Local

Refused(o) ==
  /\ op[o].pc = "submit" /\ bridge[o].job = "none"
  /\ op' = [op EXCEPT ![o] = Rejected([@ EXCEPT !.sent = FALSE, !.uncertain = FALSE])]
  /\ Local

SubmitLost(o) ==
  /\ op[o].pc = "submit" /\ Loses
  /\ op' = [op EXCEPT ![o] = Rejected(@)]
  /\ UNCHANGED <<bridge, runtime>>
-----------------------------------------------------------------------------
(* The wait loop: a final answer ends it, a failure rejects the result.  A   *)
(* wait that was under way may still bring a final after a cancel did.       *)
WaitFinal(o) ==
  /\ op[o].wait = "on" /\ bridge[o].job \in {"confirmed", "unconfirmed"} /\ ~bridge[o].closed
  /\ op' = [op EXCEPT ![o].final = bridge[o].job, ![o].wait = "off"]
  /\ Local

WaitFails(o) ==
  /\ op[o].wait = "on"
  /\ Loses
  /\ op' = [op EXCEPT ![o].wait = IF op[o].final = "none" THEN "failed" ELSE "off"]
  /\ UNCHANGED <<bridge, runtime>>

(* The wait sees that a cancel brought the final, or loses its connection.   *)
WaitEnds(o) ==
  /\ op[o].wait = "on" /\ (op[o].final # "none" \/ bridge[o].closed)
  /\ op' = [op EXCEPT ![o].wait = IF op[o].final = "none" THEN "failed" ELSE "off"]
  /\ Local

(* The abort signal is listened to until the wait loop ends, with an answer  *)
(* or without, or the disposal has asked for its own cancel.                 *)
Listening(r) ==
  /\ r.pc # "new" /\ r.dispose \in {"none", "startup", "cancel"}
  /\ r.pc = "ready" => r.wait = "on"

Abort(o) ==
  /\ ~op[o].aborted
  /\ LET r == IF Listening(op[o]) THEN Cancelling(op[o]) ELSE op[o]
     IN op' = [op EXCEPT ![o] = [r EXCEPT !.aborted = TRUE]]
  /\ Local

CancelAnswered(o) ==
  /\ op[o].cancel = "called"
  /\ bridge[o].job \in {"confirmed", "unconfirmed"} /\ ~bridge[o].closed
  /\ op' = [op EXCEPT ![o].cancel = "done", ![o].final = bridge[o].job]
  /\ Local

(* CLEANUP_UNCONFIRMED of the bridge, or the answer is lost.                 *)
CancelFails(o) ==
  /\ op[o].cancel = "called"
  /\ IF bridge[o].closed THEN UNCHANGED lost ELSE Loses
  /\ op' = [op EXCEPT ![o].cancel = "failed"]
  /\ UNCHANGED <<bridge, runtime>>
-----------------------------------------------------------------------------
(* The handle's dispose, available once start returned.                      *)
Dispose(o) ==
  /\ op[o].pc = "ready" /\ op[o].dispose = "none"
  /\ op' = [op EXCEPT ![o] = Disposing(@)]
  /\ Local

(* What the disposal reports: a cancel it waited for has failed, or the job  *)
(* it knows of has no final answer with a confirmed cleanup.                 *)
CleanupUnsure(r) == r.uncertain \/ (r.job /\ r.final # "confirmed")
ReportAndClose(r, failed) == [r EXCEPT !.dispose = "close", !.unsure = failed \/ CleanupUnsure(r)]

(* startup.promise is resolved when start returned or threw.  With a final   *)
(* answer there is nothing to cancel, whatever became of an earlier cancel.  *)
AwaitStartup(o) == op[o].dispose = "startup" /\ op[o].pc \in {"ready", "rejected"}
DisposeCancels(o) ==
  /\ AwaitStartup(o)
  /\ op' = [op EXCEPT ![o] = IF @.job /\ @.final = "none"
                             THEN [Cancelling(@) EXCEPT !.dispose = "cancel"] ELSE ReportAndClose(@, FALSE)]
  /\ Local

DisposeCloses(o) ==
  /\ op[o].dispose = "cancel" /\ op[o].cancel # "called"
  /\ op' = [op EXCEPT ![o] = ReportAndClose(@, @.cancel = "failed")]
  /\ Local

(* connection.close ends the bridge process, which stops its own job.        *)
DisposeEnds(o) ==
  /\ op[o].dispose = "close"
  /\ \E failed \in BOOLEAN :
       /\ IF failed THEN Loses ELSE UNCHANGED lost
       /\ op' = [op EXCEPT ![o].dispose = IF failed \/ op[o].unsure THEN "failed" ELSE "ok"]
       /\ bridge' = [bridge EXCEPT ![o].closed = ~failed]
  /\ runtime' = [runtime EXCEPT !.active = @ \ {o}]

(* HarnessRuntime.dispose: every active operation, then the verdict.         *)
RuntimeDispose ==
  /\ ~runtime.disposed
  /\ runtime' = [runtime EXCEPT !.disposed = TRUE, !.awaits = runtime.active]
  /\ op' = [o \in Ops |-> IF o \in runtime.active THEN Disposing(op[o]) ELSE op[o]]
  /\ UNCHANGED <<bridge, lost>>

Ended(o) == op[o].dispose \in {"ok", "failed"}
Verdict == IF \E o \in runtime.awaits : op[o].dispose = "failed" THEN "failed" ELSE "ok"
RuntimeDisposed ==
  /\ runtime.disposed /\ runtime.end = "none"
  /\ \A o \in runtime.awaits : Ended(o)
  /\ runtime' = [runtime EXCEPT !.active = {}, !.end = Verdict]
  /\ UNCHANGED <<op, bridge, lost>>
-----------------------------------------------------------------------------
(* External: the bridge accepts what was sent, and a job settles.            *)
BridgeAccepts(o) ==
  /\ op[o].sent /\ bridge[o].job = "none" /\ ~bridge[o].closed
  /\ bridge' = [bridge EXCEPT ![o].job = "running"]
  /\ UNCHANGED <<op, runtime, lost>>

BridgeSettles(o) ==
  /\ bridge[o].job = "running"
  /\ \E j \in {"confirmed", "unconfirmed"} : bridge' = [bridge EXCEPT ![o].job = j]
  /\ UNCHANGED <<op, runtime, lost>>

(* A later cancel or the end of the last process confirms the cleanup.       *)
BridgeConfirms(o) ==
  /\ bridge[o].job = "unconfirmed"
  /\ bridge' = [bridge EXCEPT ![o].job = "confirmed"]
  /\ UNCHANGED <<op, runtime, lost>>
-----------------------------------------------------------------------------
Answered(o) ==
  \/ Connected(o) \/ Healthy(o) \/ StartFails(o)
  \/ Accepted(o) \/ Refused(o) \/ SubmitLost(o)
  \/ WaitFinal(o) \/ WaitFails(o) \/ WaitEnds(o)
  \/ CancelAnswered(o) \/ CancelFails(o)
Disposal(o) == DisposeCancels(o) \/ DisposeCloses(o) \/ DisposeEnds(o)
BridgeStep(o) == BridgeAccepts(o) \/ BridgeSettles(o) \/ BridgeConfirms(o)

ClNext ==
  \/ \E o \in Ops : Start(o) \/ Abort(o) \/ Dispose(o) \/ Answered(o) \/ Disposal(o) \/ BridgeStep(o)
  \/ RuntimeDispose \/ RuntimeDisposed

ClSpec == ClInit /\ [][ClNext]_clVars
-----------------------------------------------------------------------------
(* A disposal that succeeds leaves no job behind that was accepted and not   *)
(* seen to be cleaned up, whenever abort, dispose and the end of the runtime *)
(* meet the submission.                                                      *)
NothingLeftBehind ==
  \A o \in Ops : op[o].dispose = "ok" => bridge[o].job \in {"none", "confirmed"}

(* The same for the runtime: its disposal resolves only if every activation  *)
(* it still owned was disposed  without doubt.                                *)
RuntimeVouches ==
  runtime.end = "ok" => \A o \in runtime.awaits : bridge[o].job \in {"none", "confirmed"}

=============================================================================
