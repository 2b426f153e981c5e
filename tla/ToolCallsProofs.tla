--------------------------- MODULE ToolCallsProofs ---------------------------
(***************************************************************************)
(* Proofs about the callers and the called: the Harness client of the      *)
(* bridge, for any number of activations and lost answers, and the process *)
(* calls of the toolkit, for any number of calls, stages, sessions and     *)
(* closers and whatever the kernel refuses to signal (module ToolCalls);   *)
(* and the registry of the bridge, for any number of requests, concurrent  *)
(* calls, slots and retained jobs (module BridgeJobs).                     *)
(***************************************************************************)
EXTENDS ToolCalls, BridgeJobs, FiniteSetTheorems, TLAPS

-----------------------------------------------------------------------------
(* The client of the bridge. *)

\* How an activation r goes with the job b that the bridge has for it.
Fits(r, b) ==
    /\ ~r.uncertain /\ ~r.job => ~r.sent /\ b.job = "none"
    /\ r.final = "confirmed" => b.job = "confirmed"
    /\ r.dispose \in {"cancel", "close", "ok", "failed"} => r.pc \in {"ready", "rejected"}
    /\ r.dispose \in {"close", "ok"} /\ ~r.unsure =>
          b.job = "confirmed" \/ (~r.sent /\ b.job = "none")
    /\ r.dispose = "ok" => ~r.unsure

\* The runtime's verdict is that of the activations it waited for.
Vouched ==
    /\ ~runtime.disposed => runtime.end = "none"
    /\ runtime.end = "ok" => \A o \in runtime.awaits : op[o].dispose = "ok"

ClIInv == ClTypeOK /\ (\A o \in Ops : Fits(op[o], bridge[o])) /\ Vouched

BridgeJob == [job : Job, closed : BOOLEAN]

\* A step of one activation.
LEMMA OneActivation ==
    ASSUME ClIInv, NEW o \in Ops, NEW r \in Op, NEW b \in BridgeJob,
           op' = [op EXCEPT ![o] = r], bridge' = [bridge EXCEPT ![o] = b], Fits(r, b),
           op[o].dispose = "ok" => r.dispose = "ok",
           lost' \in 0 .. MaxLost,
           \/ runtime' = runtime
           \/ \E A \in SUBSET Ops : runtime' = [runtime EXCEPT !.active = A]
    PROVE  ClIInv'
<1>1. ClTypeOK /\ Vouched
  BY DEF ClIInv
<1>2. /\ runtime' \in [disposed : BOOLEAN, active : SUBSET Ops, awaits : SUBSET Ops, end : {"none", "ok", "failed"}]
      /\ runtime'.disposed = runtime.disposed /\ runtime'.end = runtime.end
      /\ runtime'.awaits = runtime.awaits
  BY <1>1 DEF ClTypeOK
<1>3. ClTypeOK'
  BY <1>1, <1>2 DEF ClTypeOK, BridgeJob
<1>4. \A p \in Ops : /\ op'[p] = IF p = o THEN r ELSE op[p]
                     /\ bridge'[p] = IF p = o THEN b ELSE bridge[p]
  BY <1>1 DEF ClTypeOK
<1>5. \A p \in Ops : Fits(op'[p], bridge'[p])
  BY <1>4 DEF ClIInv
<1>6. \A p \in runtime.awaits : op[p].dispose = "ok" => op'[p].dispose = "ok"
  BY <1>1, <1>4 DEF ClTypeOK
<1>7. Vouched'
  BY <1>1, <1>2, <1>6 DEF Vouched
<1> QED BY <1>3, <1>5, <1>7 DEF ClIInv

\* What start, the cancellation and the disposal make of an activation.
LEMMA Shapes ==
    ASSUME NEW r \in Op
    PROVE  /\ Disposing(r) \in Op /\ Rejected(r) \in Op /\ Cancelling(r) \in Op
           /\ \E c \in {"none", "called", "done", "failed"} : Cancelling(r) = [r EXCEPT !.cancel = c]
<1>1. Disposing(r) \in Op
  BY DEF Op, Disposing
<1>2. Rejected(r) \in Op
  BY <1>1 DEF Op, Rejected
<1>3. Cancelling(r) \in Op
  BY DEF Op, Cancelling
<1>4. \E c \in {"none", "called", "done", "failed"} : Cancelling(r) = [r EXCEPT !.cancel = c]
  BY DEF Op, Cancelling
<1> QED BY <1>1, <1>2, <1>3, <1>4

\* Leaving start and beginning a disposal say nothing new about the job.
LEMMA EndingFits ==
    ASSUME NEW r \in Op, NEW b \in BridgeJob, Fits(r, b)
    PROVE  /\ Rejected(r) \in Op /\ Fits(Rejected(r), b)
           /\ Disposing(r) \in Op /\ Fits(Disposing(r), b)
           /\ r.dispose = "ok" => Rejected(r).dispose = "ok" /\ Disposing(r).dispose = "ok"
<1>1. /\ r.dispose \in {"none", "startup", "cancel", "close", "ok", "failed"}
      /\ Rejected(r).dispose = (IF r.dispose = "none" THEN "startup" ELSE r.dispose)
      /\ Disposing(r).dispose = (IF r.dispose = "none" THEN "startup" ELSE r.dispose)
      /\ Rejected(r).pc = "rejected" /\ Disposing(r).pc = r.pc
  BY DEF Op, Rejected, Disposing
<1>2. \A q \in {Rejected(r), Disposing(r)} :
         /\ q.uncertain = r.uncertain /\ q.job = r.job /\ q.sent = r.sent
         /\ q.final = r.final /\ q.unsure = r.unsure
  BY DEF Op, Rejected, Disposing
<1>3. Fits(Rejected(r), b) /\ Fits(Disposing(r), b)
  BY <1>1, <1>2 DEF Fits
<1> QED BY <1>1, <1>3, Shapes

\* start, from the connection to the answer of harness_submit.
LEMMA StartKeeps ==
    ASSUME ClIInv, NEW o \in Ops,
           \/ Start(o) \/ Connected(o) \/ Healthy(o) \/ StartFails(o)
           \/ Accepted(o) \/ Refused(o) \/ SubmitLost(o)
    PROVE  ClIInv'
<1> DEFINE r == op[o]
           b == bridge[o]
<1>1. /\ r \in Op /\ b \in BridgeJob /\ Fits(r, b) /\ lost \in 0 .. MaxLost
      /\ bridge = [bridge EXCEPT ![o] = b]
      /\ runtime.active \in SUBSET Ops
  BY DEF ClIInv, ClTypeOK, BridgeJob
<1>2. lost' \in 0 .. MaxLost
  BY <1>1, ClientAssumption DEF Start, Connected, Healthy, StartFails, Accepted, Refused, SubmitLost, Local, Loses
<1>3. CASE Start(o)
  <2> DEFINE q == [r EXCEPT !.pc = "connect"]
  <2>1. op' = [op EXCEPT ![o] = q] /\ r.pc = "new"
    BY <1>3 DEF Start
  <2>2. q \in Op /\ q.pc = "connect" /\ q.dispose = r.dispose
        /\ q.uncertain = r.uncertain /\ q.job = r.job /\ q.sent = r.sent /\ q.final = r.final /\ q.unsure = r.unsure
    BY <1>1 DEF Op
  <2> HIDE DEF q
  <2>3. Fits(q, b)
    BY <1>1, <2>1, <2>2 DEF Fits
  <2> QED BY <1>1, <1>2, <1>3, <2>1, <2>2, <2>3, OneActivation DEF Start
<1>4. ASSUME NEW q \in Op, op' = [op EXCEPT ![o] = q], Fits(q, b), r.dispose = "ok" => q.dispose = "ok",
             UNCHANGED <<bridge, runtime>>
      PROVE  ClIInv'
  BY <1>1, <1>2, <1>4, OneActivation
<1>5. CASE Connected(o)
  <2>1. r.pc = "connect" /\ UNCHANGED <<bridge, runtime>>
    BY <1>5 DEF Connected, Local
  <2>2. CASE op' = [op EXCEPT ![o] = Rejected(r)]
    <3>1. Fits(Rejected(r), b) /\ Rejected(r) \in Op /\ (r.dispose = "ok" => Rejected(r).dispose = "ok")
      BY <1>1, EndingFits
    <3> QED BY <1>4, <2>1, <2>2, <3>1
  <2>3. CASE op' = [op EXCEPT ![o] = [r EXCEPT !.pc = "health"]]
    <3>1. [r EXCEPT !.pc = "health"] \in Op /\ Fits([r EXCEPT !.pc = "health"], b)
      BY <1>1, <2>1 DEF Op, Fits
    <3> QED BY <1>1, <1>4, <2>1, <2>3, <3>1 DEF Op
  <2> QED BY <1>5, <2>2, <2>3 DEF Connected
<1>6. CASE Healthy(o)
  <2> DEFINE q == [r EXCEPT !.pc = "submit", !.sent = TRUE, !.uncertain = TRUE]
  <2>1. r.pc = "health" /\ UNCHANGED <<bridge, runtime>>
    BY <1>6 DEF Healthy, Local
  <2>2. CASE op' = [op EXCEPT ![o] = Rejected(r)]
    <3>1. Fits(Rejected(r), b) /\ Rejected(r) \in Op /\ (r.dispose = "ok" => Rejected(r).dispose = "ok")
      BY <1>1, EndingFits
    <3> QED BY <1>4, <2>1, <2>2, <3>1
  <2>3. CASE op' = [op EXCEPT ![o] = q]
    <3>1. q \in Op /\ Fits(q, b) /\ q.dispose = r.dispose
      BY <1>1, <2>1 DEF Op, Fits
    <3> QED BY <1>4, <2>1, <2>3, <3>1
  <2> QED BY <1>6, <2>2, <2>3 DEF Healthy
<1>7. CASE StartFails(o) \/ SubmitLost(o)
  <2>1. /\ r.pc \in {"connect", "health", "submit"} /\ UNCHANGED <<bridge, runtime>>
        /\ op' = [op EXCEPT ![o] = Rejected(r)]
    BY <1>7 DEF StartFails, SubmitLost
  <2>2. Fits(Rejected(r), b) /\ Rejected(r) \in Op /\ (r.dispose = "ok" => Rejected(r).dispose = "ok")
    BY <1>1, EndingFits
  <2> QED BY <1>4, <2>1, <2>2
<1>8. CASE Accepted(o)
  <2> DEFINE q == [r EXCEPT !.job = TRUE, !.uncertain = FALSE]
  <2>1. r.pc = "submit" /\ UNCHANGED <<bridge, runtime>> /\ op' = [op EXCEPT ![o] = AfterSubmit(q, Stopping(o))]
    BY <1>8 DEF Accepted, Local
  <2>2. q \in Op /\ Fits(q, b) /\ q.dispose = r.dispose /\ q.pc = "submit"
    BY <1>1, <2>1 DEF Op, Fits
  <2> HIDE DEF q
  <2>3. Fits(Rejected(q), b) /\ Rejected(q) \in Op /\ (q.dispose = "ok" => Rejected(q).dispose = "ok")
    BY <1>1, <2>2, EndingFits
  <2>4. /\ Fits([q EXCEPT !.pc = "ready", !.wait = "on"], b) /\ [q EXCEPT !.pc = "ready", !.wait = "on"] \in Op
        /\ [q EXCEPT !.pc = "ready", !.wait = "on"].dispose = q.dispose
    BY <2>2 DEF Fits, Op
  <2> QED BY <1>4, <2>1, <2>2, <2>3, <2>4 DEF AfterSubmit
<1>9. CASE Refused(o)
  <2> DEFINE q == [r EXCEPT !.sent = FALSE, !.uncertain = FALSE]
  <2>1. r.pc = "submit" /\ b.job = "none" /\ UNCHANGED <<bridge, runtime>> /\ op' = [op EXCEPT ![o] = Rejected(q)]
    BY <1>9 DEF Refused, Local
  <2>2. q \in Op /\ Fits(q, b) /\ q.dispose = r.dispose /\ q.pc = "submit"
    BY <1>1, <2>1 DEF Op, Fits
  <2> HIDE DEF q
  <2>3. Fits(Rejected(q), b) /\ Rejected(q) \in Op /\ (q.dispose = "ok" => Rejected(q).dispose = "ok")
    BY <1>1, <2>2, EndingFits
  <2> QED BY <1>4, <2>1, <2>2, <2>3
<1> QED BY <1>3, <1>5, <1>6, <1>7, <1>8, <1>9

\* What Fits looks at, but for the final answer.
Alike(q, r) ==
    /\ q.uncertain = r.uncertain /\ q.job = r.job /\ q.sent = r.sent
    /\ q.pc = r.pc /\ q.dispose = r.dispose /\ q.unsure = r.unsure

\* The wait loop, the abort signal and the answer to a cancellation.
LEMMA WaitKeeps ==
    ASSUME ClIInv, NEW o \in Ops,
           \/ WaitFinal(o) \/ WaitFails(o) \/ WaitEnds(o)
           \/ Abort(o) \/ CancelAnswered(o) \/ CancelFails(o)
    PROVE  ClIInv'
<1> DEFINE r == op[o]
           b == bridge[o]
<1>1. /\ r \in Op /\ b \in BridgeJob /\ Fits(r, b) /\ lost \in 0 .. MaxLost
      /\ bridge = [bridge EXCEPT ![o] = b]
  BY DEF ClIInv, ClTypeOK, BridgeJob
<1>2. lost' \in 0 .. MaxLost /\ UNCHANGED <<bridge, runtime>>
  BY <1>1, ClientAssumption
     DEF WaitFinal, WaitFails, WaitEnds, Abort, CancelAnswered, CancelFails, Local, Loses
<1>3. ASSUME NEW q \in Op, op' = [op EXCEPT ![o] = q],
             Alike(q, r),
             q.final = r.final \/ q.final = b.job
      PROVE  ClIInv'
  <2>1. Fits(q, b)
    BY <1>1, <1>3 DEF Fits, Alike
  <2> QED BY <1>1, <1>2, <1>3, <2>1, OneActivation DEF Alike
<1>4. CASE WaitFinal(o)
  <2> DEFINE q == [r EXCEPT !.final = b.job, !.wait = "off"]
  <2>1. op' = [op EXCEPT ![o] = q] /\ b.job \in {"confirmed", "unconfirmed"}
    BY <1>1, <1>4 DEF WaitFinal
  <2>2. q \in Op
    BY <1>1, <2>1 DEF Op, Final
  <2>3. Alike(q, r) /\ q.final = b.job
    BY <1>1 DEF Op, Alike
  <2> HIDE DEF q
  <2> QED BY <1>3, <2>1, <2>2, <2>3
<1>5. CASE WaitFails(o) \/ WaitEnds(o)
  <2>1. PICK x \in {"off", "failed"} : op' = [op EXCEPT ![o].wait = x]
    BY <1>5 DEF WaitFails, WaitEnds
  <2> DEFINE q == [r EXCEPT !.wait = x]
  <2>2. q \in Op /\ Alike(q, r) /\ q.final = r.final
    BY <1>1 DEF Op, Alike
  <2>3. op' = [op EXCEPT ![o] = q]
    BY <2>1
  <2> HIDE DEF q
  <2> QED BY <1>3, <2>2, <2>3
<1>6. CASE Abort(o)
  <2>1. PICK c \in {"none", "called", "done", "failed"} :
           (IF Listening(r) THEN Cancelling(r) ELSE r) = [r EXCEPT !.cancel = c]
    <3>1. r = [r EXCEPT !.cancel = r.cancel] /\ r.cancel \in {"none", "called", "done", "failed"}
      BY <1>1 DEF Op
    <3> QED BY <1>1, <3>1, Shapes
  <2> DEFINE q == [[r EXCEPT !.cancel = c] EXCEPT !.aborted = TRUE]
  <2>2. op' = [op EXCEPT ![o] = q]
    BY <1>6, <2>1 DEF Abort
  <2>3. q \in Op /\ Alike(q, r) /\ q.final = r.final
    BY <1>1 DEF Op, Alike
  <2> HIDE DEF q
  <2> QED BY <1>3, <2>2, <2>3
<1>7. CASE CancelAnswered(o)
  <2> DEFINE q == [r EXCEPT !.cancel = "done", !.final = b.job]
  <2>1. op' = [op EXCEPT ![o] = q] /\ b.job \in {"confirmed", "unconfirmed"}
    BY <1>1, <1>7 DEF CancelAnswered
  <2>2. q \in Op
    BY <1>1, <2>1 DEF Op, Final
  <2>3. Alike(q, r) /\ q.final = b.job
    BY <1>1 DEF Op, Alike
  <2> HIDE DEF q
  <2> QED BY <1>3, <2>1, <2>2, <2>3
<1>8. CASE CancelFails(o)
  <2> DEFINE q == [r EXCEPT !.cancel = "failed"]
  <2>1. op' = [op EXCEPT ![o] = q]
    BY <1>8 DEF CancelFails
  <2>2. q \in Op /\ Alike(q, r) /\ q.final = r.final
    BY <1>1 DEF Op, Alike
  <2> HIDE DEF q
  <2> QED BY <1>3, <2>1, <2>2
<1> QED BY <1>4, <1>5, <1>6, <1>7, <1>8

\* A disposal goes on only when start has ended, and asks what is known of the job.
LEMMA DisposalKeeps ==
    ASSUME ClIInv, NEW o \in Ops, Dispose(o) \/ Disposal(o)
    PROVE  ClIInv'
<1> DEFINE r == op[o]
           b == bridge[o]
<1>1. /\ r \in Op /\ b \in BridgeJob /\ Fits(r, b) /\ lost \in 0 .. MaxLost
      /\ bridge = [bridge EXCEPT ![o] = b] /\ runtime.active \in SUBSET Ops
  BY DEF ClIInv, ClTypeOK, BridgeJob
<1>2. lost' \in 0 .. MaxLost
  <2>1. lost' = lost \/ (lost < MaxLost /\ lost' = lost + 1)
    <3>1. CASE Dispose(o) \/ DisposeCancels(o) \/ DisposeCloses(o)
      BY <3>1 DEF Dispose, DisposeCancels, DisposeCloses, Local
    <3>2. CASE DisposeEnds(o)
      BY <3>2 DEF DisposeEnds, Loses
    <3> QED BY <3>1, <3>2 DEF Disposal
  <2> QED BY <1>1, <2>1, ClientAssumption
<1>3. CASE Dispose(o)
  <2>1. Disposing(r) \in Op /\ Fits(Disposing(r), b) /\ r.dispose = "none"
    BY <1>1, <1>3, EndingFits DEF Dispose
  <2> QED BY <1>1, <1>2, <1>3, <2>1, OneActivation DEF Dispose, Local
<1>4. ASSUME NEW failed \in BOOLEAN, r.dispose \in {"startup", "cancel"}, r.pc \in {"ready", "rejected"}
      PROVE  ReportAndClose(r, failed) \in Op /\ Fits(ReportAndClose(r, failed), b)
  <2> DEFINE q == ReportAndClose(r, failed)
  <2>1. /\ (failed \/ CleanupUnsure(r)) \in BOOLEAN
        /\ q = [r EXCEPT !.dispose = "close", !.unsure = failed \/ CleanupUnsure(r)]
    BY <1>1 DEF CleanupUnsure, Op, ReportAndClose
  <2>2. /\ q \in Op /\ q.uncertain = r.uncertain /\ q.job = r.job /\ q.sent = r.sent /\ q.final = r.final
        /\ q.pc = r.pc /\ q.dispose = "close" /\ q.unsure = (failed \/ CleanupUnsure(r))
    BY <1>1, <2>1 DEF Op
  <2> HIDE DEF q
  <2>3. Fits(q, b)
    BY <1>1, <1>4, <2>2 DEF Fits, CleanupUnsure
  <2> QED BY <2>2, <2>3 DEF q
<1>5. CASE DisposeCancels(o)
  <2>1. r.dispose = "startup" /\ r.pc \in {"ready", "rejected"} /\ UNCHANGED <<bridge, runtime>>
    BY <1>5 DEF DisposeCancels, AwaitStartup, Local
  <2>2. CASE op' = [op EXCEPT ![o] = ReportAndClose(r, FALSE)]
    <3>1. ReportAndClose(r, FALSE) \in Op /\ Fits(ReportAndClose(r, FALSE), b)
      BY <1>4, <2>1
    <3> QED BY <1>1, <1>2, <2>1, <2>2, <3>1, OneActivation
  <2>3. CASE op' = [op EXCEPT ![o] = [Cancelling(r) EXCEPT !.dispose = "cancel"]]
    <3>1. PICK c \in {"none", "called", "done", "failed"} : Cancelling(r) = [r EXCEPT !.cancel = c]
      BY <1>1, Shapes
    <3> DEFINE q == [[r EXCEPT !.cancel = c] EXCEPT !.dispose = "cancel"]
    <3>2. q \in Op /\ Fits(q, b)
      BY <1>1, <2>1 DEF Op, Fits
    <3> QED BY <1>1, <1>2, <2>1, <2>3, <3>1, <3>2, OneActivation
  <2> QED BY <1>5, <2>2, <2>3 DEF DisposeCancels
<1>7. CASE DisposeCloses(o)
  <2>1. /\ op' = [op EXCEPT ![o] = ReportAndClose(r, r.cancel = "failed")]
        /\ r.dispose = "cancel" /\ r.pc \in {"ready", "rejected"} /\ UNCHANGED <<bridge, runtime>>
    BY <1>1, <1>7 DEF DisposeCloses, Local, Fits
  <2>2. ReportAndClose(r, r.cancel = "failed") \in Op /\ Fits(ReportAndClose(r, r.cancel = "failed"), b)
    BY <1>4, <2>1
  <2> QED BY <1>1, <1>2, <2>1, <2>2, OneActivation
<1>6. CASE DisposeEnds(o)
  <2>1. PICK failed \in BOOLEAN :
           /\ op' = [op EXCEPT ![o].dispose = IF failed \/ r.unsure THEN "failed" ELSE "ok"]
           /\ bridge' = [bridge EXCEPT ![o].closed = ~failed]
    BY <1>6 DEF DisposeEnds
  <2> DEFINE q == [r EXCEPT !.dispose = IF failed \/ r.unsure THEN "failed" ELSE "ok"]
             d == [b EXCEPT !.closed = ~failed]
  <2>2. q \in Op /\ d \in BridgeJob /\ d.job = b.job /\ r.dispose = "close"
    BY <1>1, <1>6 DEF Op, BridgeJob, DisposeEnds
  <2>3. Fits(q, d)
    BY <1>1, <2>2 DEF Op, Fits
  <2> QED BY <1>1, <1>2, <1>6, <2>1, <2>2, <2>3, OneActivation DEF DisposeEnds
<1> QED BY <1>3, <1>5, <1>6, <1>7 DEF Disposal

\* The bridge accepts only what was sent, and what it confirmed stays confirmed.
LEMMA BridgeKeeps ==
    ASSUME ClIInv, NEW o \in Ops, BridgeStep(o)
    PROVE  ClIInv'
<1> DEFINE r == op[o]
           b == bridge[o]
<1>1. /\ r \in Op /\ b \in BridgeJob /\ Fits(r, b) /\ lost \in 0 .. MaxLost
      /\ op = [op EXCEPT ![o] = r] /\ UNCHANGED <<op, runtime, lost>>
  BY DEF ClIInv, ClTypeOK, BridgeJob, BridgeStep, BridgeAccepts, BridgeSettles, BridgeConfirms
<1>2. PICK j \in {"running", "confirmed", "unconfirmed"} :
         /\ bridge' = [bridge EXCEPT ![o].job = j]
         /\ \/ b.job = "none" /\ r.sent
            \/ b.job = "running"
            \/ b.job = "unconfirmed" /\ j = "confirmed"
  BY DEF BridgeStep, BridgeAccepts, BridgeSettles, BridgeConfirms
<1>3. [b EXCEPT !.job = j] \in BridgeJob /\ [b EXCEPT !.job = j].job = j
  BY <1>1 DEF BridgeJob, Job
<1>4. Fits(r, [b EXCEPT !.job = j])
  BY <1>1, <1>2, <1>3 DEF Fits, Op
<1> QED BY <1>1, <1>2, <1>3, <1>4, OneActivation

\* The end of the runtime disposes what is active and waits for it.
LEMMA RuntimeKeeps ==
    ASSUME ClIInv, RuntimeDispose \/ RuntimeDisposed
    PROVE  ClIInv'
<1>1. ClTypeOK /\ Vouched
  BY DEF ClIInv
<1>2. CASE RuntimeDispose
  <2>1. /\ runtime' = [runtime EXCEPT !.disposed = TRUE, !.awaits = runtime.active]
        /\ op' = [o \in Ops |-> IF o \in runtime.active THEN Disposing(op[o]) ELSE op[o]]
        /\ ~runtime.disposed /\ UNCHANGED <<bridge, lost>>
    BY <1>2 DEF RuntimeDispose
  <2>2. /\ runtime' \in [disposed : BOOLEAN, active : SUBSET Ops, awaits : SUBSET Ops, end : {"none", "ok", "failed"}]
        /\ runtime'.end = "none"
    BY <1>1, <2>1 DEF ClTypeOK, Vouched
  <2>3. ASSUME NEW o \in Ops
        PROVE  Disposing(op[o]) \in Op /\ Fits(Disposing(op[o]), bridge[o])
    <3>1. op[o] \in Op /\ bridge[o] \in BridgeJob /\ Fits(op[o], bridge[o])
      BY <1>1 DEF ClIInv, ClTypeOK, BridgeJob
    <3> QED BY <3>1, EndingFits
  <2>4. ClTypeOK'
    BY <1>1, <2>1, <2>2, <2>3 DEF ClTypeOK
  <2>5. \A o \in Ops : Fits(op'[o], bridge'[o])
    BY <2>1, <2>3 DEF ClIInv
  <2> QED BY <2>2, <2>4, <2>5 DEF ClIInv, Vouched
<1>3. CASE RuntimeDisposed
  <2>1. /\ runtime' = [runtime EXCEPT !.active = {}, !.end = Verdict] /\ UNCHANGED <<op, bridge, lost>>
        /\ runtime.disposed /\ \A o \in runtime.awaits : Ended(o)
        /\ Verdict \in {"ok", "failed"}
    BY <1>3 DEF RuntimeDisposed, Verdict
  <2>2. /\ runtime' \in [disposed : BOOLEAN, active : SUBSET Ops, awaits : SUBSET Ops, end : {"none", "ok", "failed"}]
        /\ runtime'.disposed /\ runtime'.awaits = runtime.awaits /\ runtime'.end = Verdict
    BY <1>1, <2>1 DEF ClTypeOK
  <2>3. Verdict = "ok" => \A o \in runtime.awaits : op[o].dispose = "ok"
    BY <2>1 DEF Verdict, Ended
  <2>4. Vouched'
    BY <2>1, <2>2, <2>3 DEF Vouched
  <2> QED BY <1>1, <2>1, <2>2, <2>4 DEF ClIInv, ClTypeOK
<1> QED BY <1>2, <1>3

LEMMA ClInitHolds ==
    ASSUME ClInit
    PROVE  ClIInv
<1>1. NewOp \in Op
  BY DEF NewOp, Op, Final
<1>2. ClTypeOK
  BY <1>1, ClientAssumption DEF ClInit, ClTypeOK, Job
<1>3. \A o \in Ops : Fits(op[o], bridge[o])
  BY DEF ClInit, Fits, NewOp
<1> QED BY <1>2, <1>3 DEF ClInit, ClIInv, Vouched

LEMMA ClInductive ==
    ASSUME ClIInv, [ClNext]_clVars
    PROVE  ClIInv'
<1>1. CASE UNCHANGED clVars
  BY <1>1 DEF clVars, ClIInv, ClTypeOK, Vouched
<1>2. ASSUME NEW o \in Ops,
             Start(o) \/ Abort(o) \/ Dispose(o) \/ Answered(o) \/ Disposal(o) \/ BridgeStep(o)
      PROVE  ClIInv'
  BY <1>2, StartKeeps, WaitKeeps, DisposalKeeps, BridgeKeeps DEF Answered
<1> QED BY <1>1, <1>2, RuntimeKeeps DEF ClNext

\* A disposal that succeeds, of an activation or of the whole runtime, leaves no job behind
\* that was accepted and not seen to be cleaned up.
THEOREM ClientKept == ClSpec => [](ClTypeOK /\ NothingLeftBehind /\ RuntimeVouches)
<1>1. ClInit => ClIInv
  BY ClInitHolds
<1>2. ClIInv /\ [ClNext]_clVars => ClIInv'
  BY ClInductive
<1>3. ClIInv => ClTypeOK /\ NothingLeftBehind /\ RuntimeVouches
  <2> SUFFICES ASSUME ClIInv PROVE NothingLeftBehind /\ RuntimeVouches
    BY DEF ClIInv
  <2>1. \A o \in Ops : op[o].dispose = "ok" => bridge[o].job \in {"none", "confirmed"}
    BY DEF ClIInv, Fits
  <2>2. runtime.end = "ok" => \A o \in runtime.awaits : o \in Ops /\ op[o].dispose = "ok"
    BY DEF ClIInv, Vouched, ClTypeOK
  <2> QED BY <2>1, <2>2 DEF NothingLeftBehind, RuntimeVouches
<1> QED BY <1>1, <1>2, <1>3, PTL DEF ClSpec

-----------------------------------------------------------------------------
(* The process calls of the toolkit. *)

Tree == [child : {"none", "live", "gone"}, kids : BOOLEAN, held : BOOLEAN,
         task : {"none", "runs", "ended"}]
Attended == {"wait", "join", "settle", "failing"}
Late == Attended \union {"over"}
GaveUp == {"error", "cleanupError", "dropped"}
Invocation == [pc : {"idle", "spawn", "unattached"} \union Late, stage : Nat, cancelled : BOOLEAN,
               result : {"none", "refused", "ok", "cancelled"} \union GaveUp]
Entry == [state : {"unborn", "open", "closing", "gone"}, trees : SUBSET ExecCalls]
Closing == [pc : {"idle", "kill", "remove"}, session : Sessions \union {NoSession},
            todo : SUBSET ExecCalls, done : SUBSET ExecCalls, failed : BOOLEAN]

PrTypes ==
    /\ prCall \in [ExecCalls -> Invocation]
    /\ prTree = [c \in ExecCalls |-> prTree[c]]
    /\ \A c \in ExecCalls : prTree[c] \in [Stage(c) -> Tree] /\ prCall[c].stage \in Stage(c)
    /\ prSess \in [Sessions -> Entry]
    /\ prClose \in [Closers -> Closing]

\* A tree whose pipes nobody reads yet, and one whose drains end with it.
Contained(t) == t.child # "none" /\ t.held /\ t.task = "none"
Drained(t) == t.child # "none" /\ t.held /\ t.task # "none" /\ (t.task = "ended" => ~Alive(t))

\* Where a call is tells what its trees t are like.
CallShape(c, p, t) ==
    /\ p.pc = "idle" => p.stage = 1 /\ \A i \in Stage(c) : t[i] = NoTree
    /\ p.pc \in {"spawn", "unattached"} => \A i \in Stage(c) :
          /\ i < p.stage => Contained(t[i])
          /\ i > p.stage => t[i] = NoTree
          /\ i = p.stage => IF p.pc = "spawn" THEN t[i] = NoTree
                            ELSE t[i].child # "none" /\ ~t[i].held /\ t[i].task = "none"
    /\ p.pc \in Attended => \A i \in Stage(c) : Drained(t[i])
    /\ p.pc = "wait" => \A i \in Stage(c) : i < p.stage => ~Alive(t[i])
    /\ p.pc \in {"join", "settle"} => \A i \in Stage(c) : ~Alive(t[i])
    /\ p.pc = "over" => \A i \in Stage(c) :
          /\ ~t[i].held
          /\ t[i].task # "none" /\ Alive(t[i]) => p.result \in GaveUp /\ c \in Stubborn
          /\ p.result \in {"ok", "cancelled"} => ~Alive(t[i]) /\ t[i].task # "runs"
    /\ p.pc # "over" => p.result = "none"

\* The tree that session_close must find.
MustRegister(c, p, t) ==
    SessionOf[c] # NoSession /\ p.pc # "over" /\ t[1].held /\ Alive(t[1])

\* A session lists only its own running calls, and none before it opens or after it is closed.
SessionFits(s) ==
    /\ \A c \in prSess[s].trees : SessionOf[c] = s /\ s # NoSession /\ prCall[c].pc \in Attended
    /\ prSess[s].state \in {"unborn", "gone"} => prSess[s].trees = {}

\* A close works through the trees the session had; what it calls done is dead.
CloseFits(k) ==
    prClose[k].pc # "idle" =>
      /\ prClose[k].session \in Sessions
      /\ prSess[prClose[k].session].state \in {"closing", "gone"}
      /\ \A c \in prClose[k].todo \union prClose[k].done : prCall[c].pc \in Late
      /\ \A c \in prClose[k].done : ~Alive(prTree[c][1])
      /\ ~prClose[k].failed =>
           /\ prClose[k].pc = "kill" =>
                prSess[prClose[k].session].trees \subseteq prClose[k].todo \union prClose[k].done
           /\ prClose[k].pc = "remove" => prSess[prClose[k].session].trees = {}

PrIInv ==
    /\ PrTypes
    /\ \A c \in ExecCalls : CallShape(c, prCall[c], prTree[c])
    /\ LiveTreesRegistered
    /\ \A s \in Sessions : SessionFits(s)
    /\ \A k \in Closers : CloseFits(k)

\* What a termination can make u of a tree t.
Leaves(t, u) ==
    /\ u \in Tree /\ u.held = t.held /\ u.task = t.task
    /\ u.child = "none" <=> t.child = "none"
    /\ ~Alive(t) => ~Alive(u)

LEMMA KilledIsDead ==
    ASSUME NEW t \in Tree
    PROVE  Leaves(t, Killed(t)) /\ ~Alive(Killed(t)) /\ Leaves(t, t)
BY DEF Tree, Leaves, Killed, Alive

LEMMA TerminationLeaves ==
    ASSUME NEW c \in ExecCalls, NEW t \in Tree, NEW e \in Terminations(c, t)
    PROVE  /\ Leaves(t, e.tree) /\ e.ok \in BOOLEAN
           /\ e.ok => ~Alive(e.tree)
           /\ c \notin Stubborn => e.ok
<1>1. \/ e = [ok |-> TRUE, tree |-> Killed(t)]
      \/ e = [ok |-> FALSE, tree |-> t] /\ c \in Stubborn
  BY DEF Terminations
<1>2. \/ e.ok = TRUE /\ e.tree = Killed(t)
      \/ e.ok = FALSE /\ e.tree = t /\ c \in Stubborn
  BY <1>1
<1>3. Leaves(t, Killed(t)) /\ ~Alive(Killed(t)) /\ Leaves(t, t)
  BY KilledIsDead
<1> QED BY <1>2, <1>3

LEMMA TerminateAllLeaves ==
    ASSUME NEW c \in ExecCalls, NEW ts \in [Stage(c) -> Tree], NEW e \in TerminateAll(c, ts)
    PROVE  /\ e.trees \in [Stage(c) -> Tree] /\ e.ok \in BOOLEAN
           /\ \A i \in Stage(c) : Leaves(ts[i], e.trees[i])
           /\ e.ok \/ c \notin Stubborn => \A i \in Stage(c) : ~Alive(e.trees[i])
<1>1. PICK f \in [Stage(c) -> UNION { Terminations(c, ts[i]) : i \in Stage(c) }] :
         /\ \A i \in Stage(c) : f[i] \in Terminations(c, ts[i])
         /\ e = [ok |-> \A i \in Stage(c) : f[i].ok, trees |-> [i \in Stage(c) |-> f[i].tree]]
  BY DEF TerminateAll
<1>2. ASSUME NEW i \in Stage(c)
      PROVE  /\ Leaves(ts[i], f[i].tree)
             /\ f[i].ok => ~Alive(f[i].tree)
             /\ c \notin Stubborn => f[i].ok
  BY <1>1, TerminationLeaves
<1>3. e.trees = [i \in Stage(c) |-> f[i].tree] /\ e.ok = (\A i \in Stage(c) : f[i].ok)
  BY <1>1
<1>4. e.ok \/ c \notin Stubborn => \A i \in Stage(c) : ~Alive(e.trees[i])
  BY <1>2, <1>3
<1> QED BY <1>2, <1>3, <1>4 DEF Leaves

LEMMA DisarmedTree ==
    ASSUME NEW t \in Tree
    PROVE  /\ Disarmed(t) \in Tree /\ ~Disarmed(t).held /\ Disarmed(t).task = t.task
           /\ Alive(Disarmed(t)) <=> Alive(t)
BY DEF Disarmed, Tree, Alive

\* What a step of one call does to the registry of the sessions.
Registry(c, p, t) ==
    \/ /\ prSess' = prSess
       /\ prCall[c].pc \in Attended => p.pc \in Attended
       /\ MustRegister(c, p, t) => MustRegister(c, prCall[c], prTree[c])
    \/ Unregister(c) /\ p.pc = "over"
    \/ /\ Register(c) /\ p.pc \in Attended
       /\ SessionOf[c] # NoSession => prSess[SessionOf[c]].state = "open"

LEMMA RegistryStep ==
    ASSUME PrIInv, NEW c \in ExecCalls, NEW p \in Invocation, NEW t, Registry(c, p, t)
    PROVE  /\ prSess' \in [Sessions -> Entry]
           /\ \A s \in Sessions :
                /\ prSess'[s].state = prSess[s].state
                /\ \A d \in ExecCalls \ {c} : d \in prSess'[s].trees <=> d \in prSess[s].trees
                /\ c \in prSess'[s].trees => SessionOf[c] = s /\ s # NoSession /\ p.pc \in Attended
                /\ prSess[s].state # "open" => prSess'[s].trees \subseteq prSess[s].trees
           /\ MustRegister(c, p, t) => c \in prSess'[SessionOf[c]].trees
<1>1. /\ prSess \in [Sessions -> Entry]
      /\ SessionOf[c] \in Sessions \union {NoSession}
      /\ \A s \in Sessions : c \in prSess[s].trees =>
            SessionOf[c] = s /\ s # NoSession /\ prCall[c].pc \in Attended
  BY PrConstants DEF PrIInv, PrTypes, SessionFits
<1>2. MustRegister(c, prCall[c], prTree[c]) => c \in prSess[SessionOf[c]].trees
  BY DEF PrIInv, LiveTreesRegistered, MustRegister
<1>3. CASE /\ prSess' = prSess
           /\ prCall[c].pc \in Attended => p.pc \in Attended
           /\ MustRegister(c, p, t) => MustRegister(c, prCall[c], prTree[c])
  BY <1>1, <1>2, <1>3
<1>4. CASE Unregister(c) /\ p.pc = "over"
  <2>1. ~MustRegister(c, p, t)
    BY <1>4 DEF MustRegister
  <2>2. CASE SessionOf[c] = NoSession
    BY <1>1, <1>4, <2>1, <2>2 DEF Unregister
  <2>3. CASE SessionOf[c] # NoSession
    <3>1. prSess' = [prSess EXCEPT ![SessionOf[c]].trees = @ \ {c}] /\ SessionOf[c] \in Sessions
      BY <1>1, <1>4, <2>3 DEF Unregister
    <3>2. \A s \in Sessions : prSess'[s] = [prSess[s] EXCEPT !.trees = IF s = SessionOf[c] THEN @ \ {c} ELSE @]
      BY <1>1, <3>1 DEF Entry
    <3> QED BY <1>1, <2>1, <3>1, <3>2 DEF Entry
  <2> QED BY <2>2, <2>3
<1>5. CASE /\ Register(c) /\ p.pc \in Attended
           /\ SessionOf[c] # NoSession => prSess[SessionOf[c]].state = "open"
  <2>2. CASE SessionOf[c] = NoSession
    BY <1>1, <1>5, <2>2 DEF Register, MustRegister
  <2>3. CASE SessionOf[c] # NoSession
    <3>1. prSess' = [prSess EXCEPT ![SessionOf[c]].trees = @ \union {c}] /\ SessionOf[c] \in Sessions
      BY <1>1, <1>5, <2>3 DEF Register
    <3>2. \A s \in Sessions : prSess'[s] = [prSess[s] EXCEPT !.trees = IF s = SessionOf[c] THEN @ \union {c} ELSE @]
      BY <1>1, <3>1 DEF Entry
    <3> QED BY <1>1, <1>5, <2>3, <3>1, <3>2 DEF Entry
  <2> QED BY <2>2, <2>3
<1> QED BY <1>3, <1>4, <1>5 DEF Registry

\* A step of one call p with trees t.
LEMMA StepOfCall ==
    ASSUME PrIInv, NEW c \in ExecCalls, NEW p \in Invocation, NEW t \in [Stage(c) -> Tree],
           prCall' = [prCall EXCEPT ![c] = p], prTree' = [prTree EXCEPT ![c] = t],
           UNCHANGED prClose, p.stage \in Stage(c), CallShape(c, p, t),
           prCall[c].pc \in Late => p.pc \in Late /\ (~Alive(prTree[c][1]) => ~Alive(t[1])),
           Registry(c, p, t)
    PROVE  PrIInv'
<1>1. PrTypes
  BY DEF PrIInv
<1>2. /\ prSess' \in [Sessions -> Entry]
      /\ \A s \in Sessions :
           /\ prSess'[s].state = prSess[s].state
           /\ \A d \in ExecCalls \ {c} : d \in prSess'[s].trees <=> d \in prSess[s].trees
           /\ c \in prSess'[s].trees => SessionOf[c] = s /\ s # NoSession /\ p.pc \in Attended
           /\ prSess[s].state # "open" => prSess'[s].trees \subseteq prSess[s].trees
      /\ MustRegister(c, p, t) => c \in prSess'[SessionOf[c]].trees
  BY RegistryStep
<1>3. \A d \in ExecCalls : /\ prCall'[d] = IF d = c THEN p ELSE prCall[d]
                           /\ prTree'[d] = IF d = c THEN t ELSE prTree[d]
  BY <1>1 DEF PrTypes
<1>4. PrTypes'
  <2>1. prCall' \in [ExecCalls -> Invocation] /\ prTree' = [d \in ExecCalls |-> prTree'[d]]
    BY <1>1 DEF PrTypes
  <2>2. \A d \in ExecCalls : prTree'[d] \in [Stage(d) -> Tree] /\ prCall'[d].stage \in Stage(d)
    BY <1>1, <1>3 DEF PrTypes
  <2> QED BY <1>1, <1>2, <2>1, <2>2 DEF PrTypes
<1>5. \A d \in ExecCalls : CallShape(d, prCall'[d], prTree'[d])
  BY <1>3 DEF PrIInv
<1>6. LiveTreesRegistered'
  <2> SUFFICES ASSUME NEW d \in ExecCalls, MustRegister(d, prCall'[d], prTree'[d])
               PROVE  d \in prSess'[SessionOf[d]].trees
    BY DEF LiveTreesRegistered, MustRegister
  <2>1. CASE d = c
    BY <1>2, <1>3, <2>1
  <2>2. CASE d # c
    <3>1. MustRegister(d, prCall[d], prTree[d])
      BY <1>3, <2>2
    <3>2. d \in prSess[SessionOf[d]].trees /\ SessionOf[d] \in Sessions
      BY <3>1, PrConstants DEF PrIInv, LiveTreesRegistered, MustRegister
    <3> QED BY <1>2, <2>2, <3>2
  <2> QED BY <2>1, <2>2
<1>7. ASSUME NEW s \in Sessions
      PROVE  SessionFits(s)'
  <2>1. SessionFits(s) /\ prSess[s] \in Entry /\ prSess'[s] \in Entry
    BY <1>1, <1>2 DEF PrIInv, PrTypes
  <2>2. prSess[s].state # "open" => prSess'[s].trees \subseteq prSess[s].trees
    BY <1>2
  <2>3. prSess'[s].state = prSess[s].state
    BY <1>2
  <2>4. prSess'[s].state \in {"unborn", "gone"} => prSess'[s].trees = {}
    BY <2>1, <2>2, <2>3 DEF SessionFits
  <2>5. \A d \in prSess'[s].trees : SessionOf[d] = s /\ s # NoSession /\ prCall'[d].pc \in Attended
    <3> SUFFICES ASSUME NEW d \in prSess'[s].trees
                 PROVE  SessionOf[d] = s /\ s # NoSession /\ prCall'[d].pc \in Attended
      OBVIOUS
    <3>1. d \in ExecCalls
      BY <2>1 DEF Entry
    <3>2. CASE d = c
      BY <1>2, <1>3, <3>2
    <3>3. CASE d # c
      BY <1>2, <1>3, <2>1, <3>1, <3>3 DEF SessionFits
    <3> QED BY <3>2, <3>3
  <2> QED BY <2>4, <2>5 DEF SessionFits
<1>8. ASSUME NEW k \in Closers
      PROVE  CloseFits(k)'
  <2> SUFFICES ASSUME prClose[k].pc # "idle"
               PROVE  CloseFits(k)'
    BY DEF CloseFits
  <2> DEFINE s == prClose[k].session
  <2>1. CloseFits(k) /\ prClose[k] \in Closing
    BY <1>1 DEF PrIInv, PrTypes
  <2>2. s \in Sessions /\ prSess'[s].state \in {"closing", "gone"} /\ prSess'[s].trees \subseteq prSess[s].trees
    BY <1>2, <2>1 DEF CloseFits
  <2>3. \A d \in prClose[k].todo \union prClose[k].done : prCall'[d].pc \in Late
    BY <1>3, <2>1 DEF CloseFits, Closing
  <2>4. \A d \in prClose[k].done : ~Alive(prTree'[d][1])
    BY <1>3, <2>1 DEF CloseFits, Closing
  <2>5. ~prClose[k].failed =>
           /\ prClose[k].pc = "kill" => prSess'[s].trees \subseteq prClose[k].todo \union prClose[k].done
           /\ prClose[k].pc = "remove" => prSess'[s].trees = {}
    BY <2>1, <2>2 DEF CloseFits
  <2> QED BY <2>2, <2>3, <2>4, <2>5 DEF CloseFits
<1> QED BY <1>4, <1>5, <1>6, <1>7, <1>8 DEF PrIInv

LEMMA CallTypes ==
    ASSUME PrIInv, NEW c \in ExecCalls
    PROVE  /\ prCall[c] \in Invocation /\ prCall[c].stage \in Stage(c)
           /\ prTree[c] \in [Stage(c) -> Tree] /\ CallShape(c, prCall[c], prTree[c])
           /\ StagesOf[c] \in Nat \ {0} /\ 1 \in Stage(c)
           /\ SessionOf[c] # NoSession => StagesOf[c] = 1
BY PrConstants DEF PrIInv, PrTypes, Stage

\* Leaving with armed guards: nothing is left alive but what the kernel refused to signal.
LEMMA LeavingKeeps ==
    ASSUME PrIInv, NEW c \in ExecCalls, NEW ts \in [Stage(c) -> Tree], NEW result \in GaveUp,
           LeaveArmed(c, ts, result), UNCHANGED prClose,
           prCall[c].pc \in Late => (~Alive(prTree[c][1]) => ~Alive(ts[1]))
    PROVE  PrIInv'
<1> DEFINE as == [i \in Stage(c) |-> Aborted(ts[i])]
<1>1. as \in [Stage(c) -> Tree] /\ \A i \in Stage(c) : Alive(as[i]) <=> Alive(ts[i])
  BY DEF Aborted, Tree, Alive
<1> HIDE DEF as
<1>2. PICK e \in TerminateAll(c, as) : prTree' = [prTree EXCEPT ![c] = [i \in Stage(c) |-> Disarmed(e.trees[i])]]
  BY DEF LeaveArmed, as
<1>3. /\ e.trees \in [Stage(c) -> Tree]
      /\ \A i \in Stage(c) : Leaves(as[i], e.trees[i])
      /\ c \notin Stubborn => \A i \in Stage(c) : ~Alive(e.trees[i])
  BY <1>1, TerminateAllLeaves
<1> DEFINE t == [i \in Stage(c) |-> Disarmed(e.trees[i])]
           p == [prCall[c] EXCEPT !.pc = "over", !.result = result]
<1>4. t \in [Stage(c) -> Tree] /\ \A i \in Stage(c) : ~t[i].held /\ (Alive(t[i]) <=> Alive(e.trees[i]))
  <2>1. \A i \in Stage(c) : LET d == Disarmed(e.trees[i])
                            IN d \in Tree /\ ~d.held /\ (Alive(d) <=> Alive(e.trees[i]))
    BY <1>3, DisarmedTree
  <2> QED BY <2>1
<1>5. /\ p \in Invocation /\ p.stage \in Stage(c) /\ p.pc = "over" /\ p.result = result
      /\ prCall' = [prCall EXCEPT ![c] = p] /\ Unregister(c) /\ prTree' = [prTree EXCEPT ![c] = t]
  <2>1. prCall[c] \in Invocation /\ prCall[c].stage \in Stage(c)
    BY CallTypes
  <2>2. p \in Invocation /\ p.stage = prCall[c].stage /\ p.pc = "over" /\ p.result = result
    BY <2>1 DEF Invocation, Late
  <2>3. prCall' = [prCall EXCEPT ![c] = p] /\ Unregister(c)
    BY DEF LeaveArmed, Over
  <2> QED BY <1>2, <2>1, <2>2, <2>3
<1> HIDE DEF t, p
<1>6. CallShape(c, p, t)
  BY <1>3, <1>4, <1>5 DEF CallShape, Attended, GaveUp
<1>7. ~Alive(ts[1]) => ~Alive(t[1])
  BY <1>1, <1>3, <1>4, CallTypes DEF Leaves
<1> QED BY <1>4, <1>5, <1>6, <1>7, StepOfCall DEF Registry, Late

\* From the lookup of the session to the last spawn.
LEMMA SpawningKeeps ==
    ASSUME PrIInv, NEW c \in ExecCalls,
           Invoke(c) \/ Spawn(c) \/ SpawnRefused(c) \/ SpawnFails(c) \/ AttachFails(c)
    PROVE  PrIInv'
<1> DEFINE p == prCall[c]
           t == prTree[c]
           S == SessionOf[c]
<1>1. /\ p \in Invocation /\ p.stage \in Stage(c) /\ t \in [Stage(c) -> Tree] /\ CallShape(c, p, t)
      /\ StagesOf[c] \in Nat \ {0} /\ 1 \in Stage(c) /\ (S # NoSession => StagesOf[c] = 1)
      /\ prTree = [prTree EXCEPT ![c] = t]
  BY CallTypes DEF PrIInv, PrTypes
<1>2. p.pc \in {"idle", "spawn"} /\ UNCHANGED prClose /\ p.pc \notin Late
  BY DEF Invoke, Spawn, SpawnRefused, SpawnFails, AttachFails, At1, Late, Attended
<1>3. ASSUME NEW q \in Invocation, prCall' = [prCall EXCEPT ![c] = q], UNCHANGED <<prTree, prSess>>,
             q.stage = p.stage, CallShape(c, q, t), q.pc \in {"spawn", "over"}
      PROVE  PrIInv'
  <2>1. MustRegister(c, q, t) => MustRegister(c, p, t)
    BY <1>2 DEF MustRegister
  <2> QED BY <1>1, <1>2, <1>3, <2>1, StepOfCall DEF Registry, Late
<1>4. CASE Invoke(c)
  <2>1. p.pc = "idle" /\ UNCHANGED <<prTree, prSess>> /\ (Step(c, "spawn") \/ Over(c, "refused"))
    BY <1>4 DEF Invoke, At1
  <2>2. p.stage = 1 /\ (\A i \in Stage(c) : t[i] = NoTree) /\ p.result = "none"
    BY <1>1, <2>1 DEF CallShape
  <2>3. CASE Step(c, "spawn")
    <3> DEFINE q == [p EXCEPT !.pc = "spawn"]
    <3>1. /\ q \in Invocation /\ prCall' = [prCall EXCEPT ![c] = q]
          /\ q.stage = 1 /\ q.pc = "spawn" /\ q.result = "none"
      BY <1>1, <2>2, <2>3 DEF Step, Invocation
    <3> HIDE DEF q
    <3>2. CallShape(c, q, t)
      BY <2>2, <3>1 DEF CallShape, Attended, Stage
    <3> QED BY <1>3, <2>1, <2>2, <3>1, <3>2
  <2>4. CASE Over(c, "refused")
    <3> DEFINE q == [p EXCEPT !.pc = "over", !.result = "refused"]
    <3>1. /\ q \in Invocation /\ prCall' = [prCall EXCEPT ![c] = q]
          /\ q.stage = 1 /\ q.pc = "over" /\ q.result = "refused"
      BY <1>1, <2>2, <2>4 DEF Over, Invocation, Late
    <3> HIDE DEF q
    <3>2. CallShape(c, q, t)
      BY <2>2, <3>1 DEF CallShape, Attended, NoTree
    <3> QED BY <1>3, <2>1, <2>2, <3>1, <3>2
  <2> QED BY <2>1, <2>3, <2>4
<1>5. CASE SpawnRefused(c)
  <2>1. p.pc = "spawn" /\ UNCHANGED <<prTree, prSess>> /\ S # NoSession
    BY <1>5 DEF SpawnRefused, At1, SpawnAllowed
  <2>2. \A i \in Stage(c) : i = p.stage
    BY <1>1, <2>1 DEF Stage
  <2>3. \A i \in Stage(c) : t[i] = NoTree
    BY <1>1, <2>1, <2>2 DEF CallShape
  <2> DEFINE q == [p EXCEPT !.pc = "over", !.result = "refused"]
  <2>4. /\ q \in Invocation /\ prCall' = [prCall EXCEPT ![c] = q]
        /\ q.stage = p.stage /\ q.pc = "over" /\ q.result = "refused"
    BY <1>1, <1>5 DEF SpawnRefused, Over, Invocation, Late
  <2> HIDE DEF q
  <2>5. CallShape(c, q, t)
    BY <2>3, <2>4 DEF CallShape, Attended, NoTree
  <2> QED BY <1>3, <2>1, <2>4, <2>5
<1>6. CASE SpawnFails(c)
  BY <1>1, <1>2, <1>6, LeavingKeeps DEF SpawnFails, GaveUp
<1>7. CASE AttachFails(c)
  <2> DEFINE q == [p EXCEPT !.pc = "unattached"]
             u == [t EXCEPT ![p.stage] = [LiveTree EXCEPT !.held = FALSE]]
  <2>1. /\ p.pc = "spawn" /\ prSess' = prSess
        /\ prCall' = [prCall EXCEPT ![c] = q] /\ prTree' = [prTree EXCEPT ![c] = u]
    BY <1>7 DEF AttachFails, Step, At1
  <2>2. /\ q \in Invocation /\ q.pc = "unattached" /\ q.stage = p.stage /\ q.result = p.result
        /\ u \in [Stage(c) -> Tree]
        /\ \A i \in Stage(c) : u[i] = IF i = p.stage THEN [LiveTree EXCEPT !.held = FALSE] ELSE t[i]
    BY <1>1 DEF Invocation, Tree, LiveTree
  <2>3. \A i \in Stage(c) : i = p.stage => u[i].child # "none" /\ ~u[i].held /\ u[i].task = "none"
    BY <2>2 DEF LiveTree
  <2> HIDE DEF q, u
  <2>4. CallShape(c, q, u)
    <3>1. p.result = "none" /\ \A i \in Stage(c) : (i < p.stage => Contained(t[i])) /\ (i > p.stage => t[i] = NoTree)
      BY <1>1, <2>1 DEF CallShape
    <3>2. \A i \in Stage(c) : (i < p.stage => Contained(u[i])) /\ (i > p.stage => u[i] = NoTree)
      BY <1>1, <2>2, <3>1 DEF Stage
    <3> QED BY <2>2, <2>3, <3>1, <3>2 DEF CallShape, Attended
  <2>5. ~MustRegister(c, q, u)
    <3>1. S # NoSession => p.stage = 1
      BY <1>1 DEF Stage
    <3> QED BY <1>1, <2>3, <3>1 DEF MustRegister
  <2> QED BY <1>1, <1>2, <2>1, <2>2, <2>4, <2>5, StepOfCall DEF Registry, Late, Attended
<1>8. CASE Spawn(c)
  <2> DEFINE i0 == p.stage
             ts == [t EXCEPT ![i0] = LiveTree]
  <2>1. p.pc = "spawn" /\ Register(c) /\ (S # NoSession => prSess[S].state = "open")
    BY <1>8 DEF Spawn, At1, SpawnAllowed
  <2>2. /\ ts \in [Stage(c) -> Tree]
        /\ \A i \in Stage(c) : ts[i] = IF i = i0 THEN LiveTree ELSE t[i]
        /\ i0 \in Nat /\ p.result = "none"
    BY <1>1, <2>1 DEF LiveTree, Tree, CallShape, Invocation
  <2>3. \A i \in Stage(c) : (i <= i0 => Contained(ts[i])) /\ (i > i0 => ts[i] = NoTree)
    <3> SUFFICES ASSUME NEW i \in Stage(c)
                 PROVE  (i <= i0 => Contained(ts[i])) /\ (i > i0 => ts[i] = NoTree)
      OBVIOUS
    <3>1. (i < i0 => Contained(t[i])) /\ (i > i0 => t[i] = NoTree)
      BY <1>1, <2>1 DEF CallShape
    <3>2. Contained(LiveTree)
      BY DEF Contained, LiveTree
    <3> QED BY <2>2, <3>1, <3>2 DEF Stage
  <2>4. CASE i0 < StagesOf[c]
    <3> DEFINE q == [p EXCEPT !.stage = i0 + 1]
    <3>1. /\ prCall' = [prCall EXCEPT ![c] = q] /\ prTree' = [prTree EXCEPT ![c] = ts]
          /\ q \in Invocation /\ q.stage = i0 + 1 /\ q.pc = "spawn" /\ q.result = "none"
          /\ q.stage \in Stage(c)
      BY <1>1, <1>8, <2>1, <2>2, <2>4 DEF Spawn, Invocation, Stage
    <3>2. S = NoSession /\ prSess' = prSess
      BY <1>1, <2>1, <2>4 DEF Register, Stage
    <3> HIDE DEF q, ts
    <3>3. \A i \in Stage(c) : (i < q.stage <=> i <= i0) /\ (i >= q.stage <=> i > i0)
      BY <2>2, <3>1 DEF Stage
    <3>4. CallShape(c, q, ts)
      <4>1. \A i \in Stage(c) : /\ i < q.stage => Contained(ts[i])
                                /\ i > q.stage \/ i = q.stage => ts[i] = NoTree
        BY <2>3, <3>1, <3>3 DEF Stage
      <4> QED BY <3>1, <4>1 DEF CallShape, Attended
    <3>5. ~MustRegister(c, q, ts)
      BY <3>2 DEF MustRegister
    <3> QED BY <1>2, <2>1, <2>2, <3>1, <3>2, <3>4, <3>5, StepOfCall DEF Registry, Late, Attended
  <2>5. CASE ~(i0 < StagesOf[c])
    <3> DEFINE q == [p EXCEPT !.stage = 1, !.pc = "wait"]
               u == [k \in Stage(c) |-> [ts[k] EXCEPT !.task = "runs"]]
    <3>1. /\ prCall' = [prCall EXCEPT ![c] = q] /\ prTree' = [prTree EXCEPT ![c] = u]
      BY <1>8, <2>5 DEF Spawn
    <3>2. /\ q \in Invocation /\ q.stage = 1 /\ q.pc = "wait" /\ q.result = "none"
      BY <1>1, <2>2 DEF Invocation, Late, Attended
    <3>3. \A i \in Stage(c) : i <= i0
      BY <1>1, <2>2, <2>5 DEF Stage
    <3> HIDE DEF ts
    <3>4. /\ u \in [Stage(c) -> Tree]
          /\ \A i \in Stage(c) : u[i].child = ts[i].child /\ u[i].held = ts[i].held /\ u[i].task = "runs"
      BY <2>2 DEF Tree
    <3> HIDE DEF q, u
    <3>5. \A i \in Stage(c) : Drained(u[i])
      BY <2>3, <3>3, <3>4 DEF Contained, Drained
    <3>6. \A i \in Stage(c) : ~(i < q.stage)
      BY <3>2 DEF Stage
    <3>7. CallShape(c, q, u)
      BY <3>2, <3>5, <3>6 DEF CallShape, Attended
    <3> QED BY <1>1, <1>2, <2>1, <3>1, <3>2, <3>4, <3>7, StepOfCall DEF Registry, Late, Attended
  <2> QED BY <2>4, <2>5
<1> QED BY <1>4, <1>5, <1>6, <1>7, <1>8

\* A child without containment is killed together with the stages before it.
LEMMA KillUnattachedKeeps ==
    ASSUME PrIInv, NEW c \in ExecCalls, KillUnattached(c)
    PROVE  PrIInv'
<1> DEFINE p == prCall[c]
           t == prTree[c]
           held == [t EXCEPT ![p.stage] = NoTree]
<1>1. /\ p \in Invocation /\ p.stage \in Stage(c) /\ t \in [Stage(c) -> Tree] /\ CallShape(c, p, t)
      /\ p.pc = "unattached" /\ UNCHANGED <<prSess, prClose>>
  BY CallTypes DEF KillUnattached, At1
<1>2. held \in [Stage(c) -> Tree] /\ \A i \in Stage(c) : i # p.stage => held[i] = t[i]
  BY <1>1 DEF NoTree, Tree
<1>3. PICK e \in TerminateAll(c, held) :
         /\ prTree' = [prTree EXCEPT ![c] = [k \in Stage(c) |->
               IF k = p.stage THEN [t[k] EXCEPT !.child = "gone"] ELSE Disarmed(e.trees[k])]]
         /\ Over(c, IF e.ok THEN "error" ELSE "cleanupError")
  BY DEF KillUnattached
<1> HIDE DEF held
<1>4. e.trees \in [Stage(c) -> Tree] /\ \A i \in Stage(c) : Leaves(held[i], e.trees[i])
  BY <1>2, TerminateAllLeaves
<1> DEFINE u == [k \in Stage(c) |->
                    IF k = p.stage THEN [t[k] EXCEPT !.child = "gone"] ELSE Disarmed(e.trees[k])]
           result == IF e.ok THEN "error" ELSE "cleanupError"
           q == [p EXCEPT !.pc = "over", !.result = result]
<1>5. \A i \in Stage(c) : t[i].task = "none" /\ (i = p.stage => ~t[i].held)
  BY <1>1 DEF CallShape, Contained, NoTree, Stage
<1>6. ASSUME NEW i \in Stage(c)
      PROVE  u[i] \in Tree /\ ~u[i].held /\ u[i].task = "none"
  <2>1. CASE i = p.stage
    BY <1>1, <1>5, <2>1 DEF Tree
  <2>2. CASE i # p.stage
    <3>1. e.trees[i] \in Tree /\ e.trees[i].task = "none"
      BY <1>2, <1>4, <1>5, <2>2 DEF Leaves
    <3>2. Disarmed(e.trees[i]) \in Tree /\ ~Disarmed(e.trees[i]).held /\ Disarmed(e.trees[i]).task = "none"
      BY <3>1 DEF Disarmed, Tree
    <3> QED BY <2>2, <3>2
  <2> QED BY <2>1, <2>2
<1>7. u \in [Stage(c) -> Tree]
  BY <1>6
<1>8. /\ q \in Invocation /\ q.stage = p.stage /\ q.pc = "over" /\ q.result = result /\ result \in GaveUp
  BY <1>1 DEF Invocation, Late, GaveUp
<1>9. prCall' = [prCall EXCEPT ![c] = q] /\ prTree' = [prTree EXCEPT ![c] = u]
  BY <1>3 DEF Over
<1> HIDE DEF u, q, result
<1>10. CallShape(c, q, u)
  BY <1>6, <1>8 DEF CallShape, Attended, GaveUp
<1> QED BY <1>1, <1>7, <1>8, <1>9, <1>10, StepOfCall DEF Registry, MustRegister, Late, Attended

\* A step of a call that waits: its trees only lose processes, or gain descendants of a live child.
LEMMA AttendedStep ==
    ASSUME PrIInv, NEW c \in ExecCalls, NEW q \in Invocation, NEW u \in [Stage(c) -> Tree],
           prCall' = [prCall EXCEPT ![c] = q], prTree' = [prTree EXCEPT ![c] = u],
           UNCHANGED <<prSess, prClose>>, q.stage \in Stage(c), CallShape(c, q, u),
           prCall[c].pc \in Attended, q.pc \in Attended,
           \A i \in Stage(c) : u[i].held = prTree[c][i].held /\ (~Alive(prTree[c][i]) => ~Alive(u[i]))
    PROVE  PrIInv'
<1>1. 1 \in Stage(c) /\ prCall[c].pc # "over"
  BY CallTypes DEF Attended
<1>2. MustRegister(c, q, u) => MustRegister(c, prCall[c], prTree[c])
  BY <1>1 DEF MustRegister
<1> QED BY <1>1, <1>2, StepOfCall DEF Registry, Late

\* Waiting, cancelling, joining.
LEMMA WaitingKeeps ==
    ASSUME PrIInv, NEW c \in ExecCalls,
           Reap(c) \/ SeeCancel(c) \/ CancelFailed(c) \/ PrWaitFails(c) \/ Join(c) \/ DropCall(c)
    PROVE  PrIInv'
<1> DEFINE p == prCall[c]
           t == prTree[c]
<1>1. /\ p \in Invocation /\ p.stage \in Stage(c) /\ t \in [Stage(c) -> Tree] /\ CallShape(c, p, t)
      /\ StagesOf[c] \in Nat \ {0} /\ 1 \in Stage(c)
      /\ prTree = [prTree EXCEPT ![c] = t]
  BY CallTypes DEF PrIInv, PrTypes
<1>2. p.pc \in Attended /\ UNCHANGED prClose /\ p.pc # "over"
  BY DEF Reap, SeeCancel, CancelFailed, PrWaitFails, Join, DropCall, At1, Attended
<1>3. (\A i \in Stage(c) : Drained(t[i])) /\ p.result = "none"
  BY <1>1, <1>2 DEF CallShape
<1>4. ASSUME NEW result \in GaveUp, LeaveArmed(c, t, result)
      PROVE  PrIInv'
  BY <1>1, <1>2, <1>4, LeavingKeeps
<1>5. ASSUME NEW u \in [Stage(c) -> Tree], NEW i \in Stage(c), Leaves(t[i], u[i])
      PROVE  Drained(u[i])
  BY <1>3, <1>5 DEF Leaves, Drained
<1>6. CASE Reap(c)
  <2> DEFINE i0 == p.stage
  <2>1. p.pc = "wait" /\ t[i0].child = "gone"
    BY <1>6 DEF Reap, At1
  <2>2. PICK e \in Terminations(c, t[i0]) :
           IF e.ok
           THEN /\ prTree' = [prTree EXCEPT ![c] = [t EXCEPT ![i0] = e.tree]]
                /\ prCall' = IF i0 < StagesOf[c]
                             THEN [prCall EXCEPT ![c].stage = i0 + 1]
                             ELSE [prCall EXCEPT ![c].pc = "join"]
                /\ UNCHANGED prSess
           ELSE LeaveArmed(c, [t EXCEPT ![i0] = e.tree], "cleanupError")
    BY <1>6 DEF Reap
  <2>3. Leaves(t[i0], e.tree) /\ (e.ok => ~Alive(e.tree))
    BY <1>1, TerminationLeaves
  <2> DEFINE u == [t EXCEPT ![i0] = e.tree]
  <2>4. /\ u \in [Stage(c) -> Tree]
        /\ \A i \in Stage(c) : u[i] = IF i = i0 THEN e.tree ELSE t[i]
    BY <1>1, <2>3 DEF Leaves
  <2> HIDE DEF u
  <2>5. \A i \in Stage(c) : Leaves(t[i], u[i])
    BY <1>1, <2>3, <2>4, KilledIsDead
  <2>6. \A i \in Stage(c) : Drained(u[i])
    BY <1>5, <2>4, <2>5
  <2>7. \A i \in Stage(c) : u[i].held = t[i].held /\ (~Alive(t[i]) => ~Alive(u[i]))
    BY <2>5 DEF Leaves
  <2>8. i0 \in Nat /\ \A i \in Stage(c) : i < i0 => ~Alive(t[i])
    BY <1>1, <2>1 DEF CallShape, Invocation
  <2>9. e.ok => \A i \in Stage(c) : i <= i0 => ~Alive(u[i])
    BY <2>3, <2>4, <2>8 DEF Stage
  <2>10. CASE e.ok /\ i0 < StagesOf[c]
    <3> DEFINE q == [p EXCEPT !.stage = i0 + 1]
    <3>1. /\ q \in Invocation /\ q.stage = i0 + 1 /\ q.pc = "wait" /\ q.result = "none"
          /\ prCall' = [prCall EXCEPT ![c] = q] /\ prTree' = [prTree EXCEPT ![c] = u] /\ prSess' = prSess
      BY <1>1, <1>3, <2>1, <2>2, <2>8, <2>10 DEF Invocation, u
    <3>2. q.stage \in Stage(c) /\ \A i \in Stage(c) : i < q.stage => i <= i0
      BY <1>1, <2>8, <2>10, <3>1 DEF Stage
    <3> HIDE DEF q
    <3>3. CallShape(c, q, u)
      BY <2>6, <2>9, <2>10, <3>1, <3>2 DEF CallShape, Attended
    <3> QED BY <1>2, <2>4, <2>7, <3>1, <3>2, <3>3, AttendedStep DEF Attended
  <2>11. CASE e.ok /\ ~(i0 < StagesOf[c])
    <3> DEFINE q == [p EXCEPT !.pc = "join"]
    <3>1. /\ q \in Invocation /\ q.stage = i0 /\ q.pc = "join" /\ q.result = "none"
          /\ prCall' = [prCall EXCEPT ![c] = q] /\ prTree' = [prTree EXCEPT ![c] = u] /\ prSess' = prSess
      BY <1>1, <1>3, <2>2, <2>11 DEF Invocation, Late, Attended, u
    <3>2. \A i \in Stage(c) : i <= i0
      BY <1>1, <2>8, <2>11 DEF Stage
    <3> HIDE DEF q
    <3>3. CallShape(c, q, u)
      BY <2>6, <2>9, <2>11, <3>1, <3>2 DEF CallShape, Attended
    <3> QED BY <1>1, <1>2, <2>4, <2>7, <3>1, <3>3, AttendedStep DEF Attended
  <2>12. CASE ~e.ok
    <3>1. LeaveArmed(c, u, "cleanupError") /\ (~Alive(t[1]) => ~Alive(u[1]))
      BY <1>1, <2>2, <2>7, <2>12 DEF u
    <3> QED BY <1>2, <2>4, <3>1, LeavingKeeps DEF GaveUp
  <2> QED BY <2>10, <2>11, <2>12
<1>7. CASE SeeCancel(c)
  <2>1. PICK e \in TerminateAll(c, t) :
           /\ prTree' = [prTree EXCEPT ![c] = e.trees] /\ prSess' = prSess
           /\ Step(c, IF e.ok THEN "settle" ELSE "failing")
    BY <1>7 DEF SeeCancel
  <2>2. /\ e.trees \in [Stage(c) -> Tree] /\ \A i \in Stage(c) : Leaves(t[i], e.trees[i])
        /\ e.ok => \A i \in Stage(c) : ~Alive(e.trees[i])
    BY <1>1, TerminateAllLeaves
  <2>3. \A i \in Stage(c) : Drained(e.trees[i])
    BY <1>5, <2>2
  <2>4. \A i \in Stage(c) : e.trees[i].held = t[i].held /\ (~Alive(t[i]) => ~Alive(e.trees[i]))
    BY <2>2 DEF Leaves
  <2> DEFINE q == [p EXCEPT !.pc = IF e.ok THEN "settle" ELSE "failing"]
  <2>5. /\ q \in Invocation /\ q.stage = p.stage /\ q.result = "none"
        /\ q.pc = (IF e.ok THEN "settle" ELSE "failing") /\ prCall' = [prCall EXCEPT ![c] = q]
    BY <1>1, <1>3, <2>1 DEF Invocation, Late, Attended, Step
  <2> HIDE DEF q
  <2>6. CallShape(c, q, e.trees)
    BY <2>2, <2>3, <2>5 DEF CallShape, Attended
  <2> QED BY <1>1, <1>2, <2>1, <2>2, <2>4, <2>5, <2>6, AttendedStep DEF Attended
<1>8. CASE CancelFailed(c) \/ DropCall(c)
  BY <1>4, <1>8 DEF CancelFailed, DropCall, GaveUp
<1>9. CASE PrWaitFails(c)
  <2>1. PICK e \in TerminateAll(c, t) : LeaveArmed(c, e.trees, IF e.ok THEN "error" ELSE "cleanupError")
    BY <1>9 DEF PrWaitFails
  <2>2. e.trees \in [Stage(c) -> Tree] /\ (~Alive(t[1]) => ~Alive(e.trees[1]))
    BY <1>1, TerminateAllLeaves DEF Leaves
  <2> QED BY <1>2, <2>1, <2>2, LeavingKeeps DEF GaveUp
<1>10. CASE Join(c)
  <2>1. /\ p.pc \in {"join", "settle"} /\ \A i \in Stage(c) : t[i].task # "runs" /\ ~Alive(t[i])
    BY <1>1, <1>10 DEF Join, At1, TasksEnded, CallShape
  <2>2. CASE /\ prTree' = [prTree EXCEPT ![c] = [i \in Stage(c) |-> Disarmed(t[i])]]
             /\ Unregister(c) /\ Over(c, IF At1(c, "settle") THEN "cancelled" ELSE "ok")
    <3> DEFINE u == [i \in Stage(c) |-> Disarmed(t[i])]
               result == IF At1(c, "settle") THEN "cancelled" ELSE "ok"
               q == [p EXCEPT !.pc = "over", !.result = result]
    <3>1. \A i \in Stage(c) : Disarmed(t[i]) \in Tree /\ ~Disarmed(t[i]).held
                              /\ ~Alive(Disarmed(t[i])) /\ Disarmed(t[i]).task # "runs"
      BY <1>1, <2>1, DisarmedTree
    <3>2. u \in [Stage(c) -> Tree] /\ \A i \in Stage(c) : ~u[i].held /\ ~Alive(u[i]) /\ u[i].task # "runs"
      BY <3>1
    <3>3. /\ q \in Invocation /\ q.stage = p.stage /\ q.pc = "over"
          /\ prCall' = [prCall EXCEPT ![c] = q] /\ prTree' = [prTree EXCEPT ![c] = u]
      BY <1>1, <2>2 DEF Invocation, Late, Over
    <3> HIDE DEF u, q
    <3>4. CallShape(c, q, u)
      BY <3>2, <3>3 DEF CallShape, Attended
    <3> QED BY <1>1, <1>2, <2>2, <3>2, <3>3, <3>4, StepOfCall DEF Registry, Late
  <2>3. CASE LeaveArmed(c, t, "error")
    BY <1>4, <2>3 DEF GaveUp
  <2> QED BY <1>10, <2>2, <2>3 DEF Join
<1> QED BY <1>6, <1>7, <1>8, <1>9, <1>10

\* What the programs, the drains and a close can make u of a tree t while its call does nothing.
Drifts(t, u) ==
    /\ u \in Tree /\ u.held = t.held
    /\ u.child = "none" <=> t.child = "none"
    /\ u.task = "none" <=> t.task = "none"
    /\ u.task = "runs" => t.task = "runs"
    /\ u.task = "ended" => t.task = "ended" \/ ~Alive(u)
    /\ ~Alive(t) => ~Alive(u)
    /\ t = NoTree => u = NoTree

LEMMA ShapeDrifts ==
    ASSUME NEW c \in ExecCalls, NEW p, NEW t, NEW u, CallShape(c, p, t),
           \A i \in Stage(c) : Drifts(t[i], u[i])
    PROVE  CallShape(c, p, u)
<1>1. \A i \in Stage(c) : /\ t[i] = NoTree => u[i] = NoTree
                          /\ Contained(t[i]) => Contained(u[i])
                          /\ Drained(t[i]) => Drained(u[i])
                          /\ ~Alive(t[i]) => ~Alive(u[i])
                          /\ u[i].held = t[i].held
                          /\ u[i].child = "none" <=> t[i].child = "none"
                          /\ u[i].task = "none" <=> t[i].task = "none"
                          /\ u[i].task = "runs" => t[i].task = "runs"
  BY DEF Drifts, Contained, Drained, Tree
<1>2. p.pc \in {"spawn", "unattached"} => \A i \in Stage(c) :
          /\ i < p.stage => Contained(u[i])
          /\ i > p.stage => u[i] = NoTree
          /\ i = p.stage => IF p.pc = "spawn" THEN u[i] = NoTree
                            ELSE u[i].child # "none" /\ ~u[i].held /\ u[i].task = "none"
  BY <1>1 DEF CallShape
<1>3. p.pc = "over" => \A i \in Stage(c) :
          /\ ~u[i].held
          /\ u[i].task # "none" /\ Alive(u[i]) => p.result \in GaveUp /\ c \in Stubborn
          /\ p.result \in {"ok", "cancelled"} => ~Alive(u[i]) /\ u[i].task # "runs"
  BY <1>1 DEF CallShape
<1> QED BY <1>1, <1>2, <1>3 DEF CallShape

LEMMA TreeDrifts ==
    ASSUME NEW t \in Tree
    PROVE  /\ Drifts(t, t) /\ Drifts(t, Killed(t))
           /\ t.child = "live" => Drifts(t, [t EXCEPT !.child = "gone"]) /\ Drifts(t, [t EXCEPT !.kids = TRUE])
           /\ t.kids => Drifts(t, [t EXCEPT !.kids = FALSE])
           /\ t.task = "runs" /\ ~Alive(t) => Drifts(t, [t EXCEPT !.task = "ended"])
<1>1. Drifts(t, t)
  BY DEF Drifts, Tree
<1>2. Drifts(t, Killed(t))
  <2>1. /\ Killed(t) \in Tree /\ Killed(t).held = t.held /\ Killed(t).task = t.task
        /\ Killed(t).child = "none" <=> t.child = "none"
        /\ ~Alive(Killed(t))
    BY DEF Tree, Killed, Alive
  <2>2. t = NoTree => Killed(t) = NoTree
    <3>1. t = NoTree => /\ Killed(t).child = "none" /\ Killed(t).kids = FALSE
                        /\ t.held = FALSE /\ t.task = "none"
      BY DEF Killed, NoTree
    <3>2. Killed(t) = [child |-> Killed(t).child, kids |-> Killed(t).kids,
                       held |-> Killed(t).held, task |-> Killed(t).task]
      BY <2>1 DEF Tree
    <3> QED BY <2>1, <3>1, <3>2 DEF NoTree
  <2> QED BY <2>1, <2>2 DEF Drifts
<1>3. ASSUME NEW u \in Tree, u.held = t.held, u.task = t.task, u.child = "none" <=> t.child = "none",
             ~Alive(t) => ~Alive(u), t # NoTree
      PROVE  Drifts(t, u)
  BY <1>3 DEF Drifts
<1>4. ASSUME t.child = "live"
      PROVE  Drifts(t, [t EXCEPT !.child = "gone"]) /\ Drifts(t, [t EXCEPT !.kids = TRUE])
  <2> DEFINE g == [t EXCEPT !.child = "gone"]
             k == [t EXCEPT !.kids = TRUE]
  <2>1. g \in Tree /\ g.held = t.held /\ g.task = t.task /\ g.child = "gone"
    BY DEF Tree
  <2>2. k \in Tree /\ k.held = t.held /\ k.task = t.task /\ k.child = "live"
    BY <1>4 DEF Tree
  <2>3. Alive(t) /\ t # NoTree
    BY <1>4 DEF Alive, NoTree
  <2> HIDE DEF g, k
  <2> QED BY <1>3, <1>4, <2>1, <2>2, <2>3 DEF g, k
<1>5. ASSUME t.kids
      PROVE  Drifts(t, [t EXCEPT !.kids = FALSE])
  <2> DEFINE g == [t EXCEPT !.kids = FALSE]
  <2>1. g \in Tree /\ g.held = t.held /\ g.task = t.task /\ g.child = t.child
    BY DEF Tree
  <2>2. Alive(t) /\ t # NoTree
    BY <1>5 DEF Alive, NoTree
  <2> HIDE DEF g
  <2>3. Drifts(t, g)
    BY <1>3, <2>1, <2>2
  <2> QED BY <2>3 DEF g
<1>6. ASSUME t.task = "runs", ~Alive(t)
      PROVE  Drifts(t, [t EXCEPT !.task = "ended"])
  <2> DEFINE g == [t EXCEPT !.task = "ended"]
  <2>1. g \in Tree /\ g.held = t.held /\ g.task = "ended" /\ g.child = t.child /\ ~Alive(g)
    BY <1>6 DEF Tree, Alive
  <2>2. t # NoTree
    BY <1>6 DEF NoTree
  <2> HIDE DEF g
  <2>3. Drifts(t, g)
    BY <1>6, <2>1, <2>2 DEF Drifts
  <2> QED BY <2>3 DEF g
<1> QED BY <1>1, <1>2, <1>4, <1>5, <1>6

\* The programs, the drains, and a request to cancel.
LEMMA ProgramsKeep ==
    ASSUME PrIInv, NEW c \in ExecCalls,
           \/ Cancel(c)
           \/ \E i \in Stage(c) : Exit(c, i) \/ Fork(c, i) \/ KidsExit(c, i) \/ DrainEnds(c, i)
    PROVE  PrIInv'
<1> DEFINE p == prCall[c]
           t == prTree[c]
<1>1. /\ p \in Invocation /\ p.stage \in Stage(c) /\ t \in [Stage(c) -> Tree] /\ CallShape(c, p, t)
      /\ 1 \in Stage(c)
      /\ prTree = [prTree EXCEPT ![c] = t] /\ prCall = [prCall EXCEPT ![c] = p]
  BY CallTypes DEF PrIInv, PrTypes
<1>2. CASE Cancel(c)
  <2> DEFINE q == [p EXCEPT !.cancelled = TRUE]
  <2>1. prCall' = [prCall EXCEPT ![c] = q] /\ UNCHANGED <<prTree, prSess, prClose>>
    BY <1>2 DEF Cancel
  <2>2. q \in Invocation /\ q.pc = p.pc /\ q.stage = p.stage /\ q.result = p.result
    BY <1>1 DEF Invocation
  <2> HIDE DEF q
  <2>3. CallShape(c, q, t)
    BY <1>1, <2>2 DEF CallShape
  <2>4. MustRegister(c, q, t) => MustRegister(c, p, t)
    BY <2>2 DEF MustRegister
  <2> QED BY <1>1, <2>1, <2>2, <2>3, <2>4, StepOfCall DEF Registry
<1>3. ASSUME NEW i \in Stage(c), Exit(c, i) \/ Fork(c, i) \/ KidsExit(c, i) \/ DrainEnds(c, i)
      PROVE  PrIInv'
  <2>1. UNCHANGED <<prCall, prSess, prClose>>
    BY <1>3 DEF Exit, Fork, KidsExit, DrainEnds
  <2>2. \E x \in Tree : prTree' = [prTree EXCEPT ![c] = [t EXCEPT ![i] = x]] /\ Drifts(t[i], x)
    <3>1. CASE Exit(c, i)
      <4>1. prTree' = [prTree EXCEPT ![c] = [t EXCEPT ![i] = [t[i] EXCEPT !.child = "gone"]]]
        BY <3>1 DEF Exit
      <4>2. Drifts(t[i], [t[i] EXCEPT !.child = "gone"])
        BY <1>1, <3>1, TreeDrifts DEF Exit
      <4> QED BY <4>1, <4>2 DEF Drifts
    <3>2. CASE Fork(c, i)
      <4>1. prTree' = [prTree EXCEPT ![c] = [t EXCEPT ![i] = [t[i] EXCEPT !.kids = TRUE]]]
        BY <3>2 DEF Fork
      <4>2. Drifts(t[i], [t[i] EXCEPT !.kids = TRUE])
        BY <1>1, <3>2, TreeDrifts DEF Fork
      <4> QED BY <4>1, <4>2 DEF Drifts
    <3>3. CASE KidsExit(c, i)
      <4>1. prTree' = [prTree EXCEPT ![c] = [t EXCEPT ![i] = [t[i] EXCEPT !.kids = FALSE]]]
        BY <3>3 DEF KidsExit
      <4>2. Drifts(t[i], [t[i] EXCEPT !.kids = FALSE])
        BY <1>1, <3>3, TreeDrifts DEF KidsExit
      <4> QED BY <4>1, <4>2 DEF Drifts
    <3>4. CASE DrainEnds(c, i)
      <4>1. prTree' = [prTree EXCEPT ![c] = [t EXCEPT ![i] = [t[i] EXCEPT !.task = "ended"]]]
        BY <3>4 DEF DrainEnds
      <4>2. Drifts(t[i], [t[i] EXCEPT !.task = "ended"])
        BY <1>1, <3>4, TreeDrifts DEF DrainEnds
      <4> QED BY <4>1, <4>2 DEF Drifts
    <3> QED BY <1>3, <3>1, <3>2, <3>3, <3>4
  <2>3. PICK x \in Tree : prTree' = [prTree EXCEPT ![c] = [t EXCEPT ![i] = x]] /\ Drifts(t[i], x)
    BY <2>2
  <2> DEFINE u == [t EXCEPT ![i] = x]
  <2>4. u \in [Stage(c) -> Tree] /\ \A j \in Stage(c) : Drifts(t[j], u[j])
    BY <1>1, <2>3, TreeDrifts
  <2> HIDE DEF u
  <2>5. CallShape(c, p, u)
    BY <1>1, <2>4, ShapeDrifts
  <2>6. /\ MustRegister(c, p, u) => MustRegister(c, p, t)
        /\ ~Alive(t[1]) => ~Alive(u[1])
    BY <1>1, <2>4 DEF MustRegister, Drifts
  <2>7. prTree' = [prTree EXCEPT ![c] = u]
    BY <2>3 DEF u
  <2> QED BY <1>1, <2>1, <2>4, <2>5, <2>6, <2>7, StepOfCall DEF Registry
<1> QED BY <1>2, <1>3

-----------------------------------------------------------------------------
(* session_open and session_close. *)

\* Opening and closing do not touch a call.
LEMMA SessionStep ==
    ASSUME PrIInv, UNCHANGED <<prCall, prTree>>,
           prSess' \in [Sessions -> Entry], prClose' \in [Closers -> Closing],
           \A s \in Sessions : SessionFits(s)', \A k \in Closers : CloseFits(k)',
           \A s \in Sessions : \A c \in prSess[s].trees : c \in prSess'[s].trees \/ ~Alive(prTree[c][1])
    PROVE  PrIInv'
<1>1. PrTypes' /\ \A c \in ExecCalls : CallShape(c, prCall'[c], prTree'[c])
  BY DEF PrIInv, PrTypes
<1>2. LiveTreesRegistered'
  <2> SUFFICES ASSUME NEW c \in ExecCalls, MustRegister(c, prCall[c], prTree[c])
               PROVE  c \in prSess'[SessionOf[c]].trees
    BY DEF LiveTreesRegistered, MustRegister
  <2>1. c \in prSess[SessionOf[c]].trees /\ SessionOf[c] \in Sessions /\ Alive(prTree[c][1])
    BY PrConstants DEF PrIInv, LiveTreesRegistered, MustRegister
  <2> QED BY <2>1
<1> QED BY <1>1, <1>2 DEF PrIInv

LEMMA OpenKeeps ==
    ASSUME PrIInv, NEW s \in Sessions, SessionOpen(s)
    PROVE  PrIInv'
<1>1. /\ PrTypes /\ SessionFits(s) /\ prSess[s].state = "unborn"
      /\ prSess' = [prSess EXCEPT ![s].state = "open"] /\ UNCHANGED <<prCall, prTree, prClose>>
  BY DEF PrIInv, SessionOpen
<1>2. /\ prSess' \in [Sessions -> Entry]
      /\ \A z \in Sessions : prSess'[z].trees = prSess[z].trees
                             /\ prSess'[z].state = IF z = s THEN "open" ELSE prSess[z].state
  BY <1>1 DEF PrTypes, Entry
<1>3. \A z \in Sessions : SessionFits(z)'
  BY <1>1, <1>2 DEF PrIInv, SessionFits
<1>4. \A k \in Closers : CloseFits(k)'
  BY <1>1, <1>2 DEF PrIInv, CloseFits
<1> QED BY <1>1, <1>2, <1>3, <1>4, SessionStep DEF PrTypes

LEMMA MarkKeeps ==
    ASSUME PrIInv, NEW s \in Sessions, NEW k \in Closers, CloseMark(k, s)
    PROVE  PrIInv'
<1> DEFINE e == [IdleClose EXCEPT !.pc = "kill", !.session = s, !.todo = prSess[s].trees]
<1>1. /\ PrTypes /\ SessionFits(s) /\ prSess[s].state \in {"open", "closing"}
      /\ prSess' = [prSess EXCEPT ![s].state = "closing"] /\ UNCHANGED <<prCall, prTree>>
      /\ prClose' = [prClose EXCEPT ![k] = e]
  BY DEF PrIInv, CloseMark
<1>2. /\ prSess' \in [Sessions -> Entry]
      /\ \A z \in Sessions : prSess'[z].trees = prSess[z].trees
                             /\ prSess'[z].state = IF z = s THEN "closing" ELSE prSess[z].state
  BY <1>1 DEF PrTypes, Entry
<1>3. /\ e \in Closing /\ e.pc = "kill" /\ e.session = s /\ e.todo = prSess[s].trees /\ e.done = {}
  BY <1>1 DEF PrTypes, Entry, Closing, IdleClose
<1> HIDE DEF e
<1>4. prClose' \in [Closers -> Closing] /\ \A j \in Closers : prClose'[j] = IF j = k THEN e ELSE prClose[j]
  BY <1>1, <1>3 DEF PrTypes
<1>5. \A z \in Sessions : SessionFits(z)'
  BY <1>1, <1>2 DEF PrIInv, SessionFits
<1>6. ASSUME NEW j \in Closers
      PROVE  CloseFits(j)'
  <2>1. CASE j = k
    <3>1. \A c \in prSess[s].trees : prCall'[c].pc \in Late
      BY <1>1 DEF SessionFits, Late
    <3> QED BY <1>2, <1>3, <1>4, <2>1, <3>1 DEF CloseFits
  <2>2. CASE j # k
    <3>1. CloseFits(j) /\ prClose'[j] = prClose[j]
      BY <1>4, <2>2 DEF PrIInv
    <3> QED BY <1>1, <1>2, <3>1 DEF CloseFits
  <2> QED BY <2>1, <2>2
<1> QED BY <1>1, <1>2, <1>4, <1>5, <1>6, SessionStep

\* The close terminates a tree of its session, whatever the call does meanwhile.
LEMMA KillKeeps ==
    ASSUME PrIInv, NEW k \in Closers, CloseKill(k)
    PROVE  PrIInv'
<1>1. PrTypes /\ CloseFits(k) /\ prClose[k].pc = "kill" /\ prClose[k] \in Closing
      /\ UNCHANGED <<prCall, prSess>>
  BY DEF PrIInv, PrTypes, CloseKill
<1>9. PICK c \in prClose[k].todo : \E e \in Terminations(c, prTree[c][1]) :
         /\ prTree' = [prTree EXCEPT ![c][1] = e.tree]
         /\ prClose' = [prClose EXCEPT ![k].todo = @ \ {c},
                           ![k].done = IF e.ok THEN @ \union {c} ELSE @,
                           ![k].failed = @ \/ ~e.ok]
  BY DEF CloseKill
<1>2. PICK e \in Terminations(c, prTree[c][1]) :
         /\ prTree' = [prTree EXCEPT ![c][1] = e.tree]
         /\ prClose' = [prClose EXCEPT ![k].todo = @ \ {c},
                           ![k].done = IF e.ok THEN @ \union {c} ELSE @,
                           ![k].failed = @ \/ ~e.ok]
  BY <1>9
<1> DEFINE t == prTree[c]
           u == [t EXCEPT ![1] = e.tree]
           q == [prClose[k] EXCEPT !.todo = @ \ {c}, !.done = IF e.ok THEN @ \union {c} ELSE @,
                                   !.failed = @ \/ ~e.ok]
<1>3. /\ c \in ExecCalls /\ t \in [Stage(c) -> Tree] /\ 1 \in Stage(c) /\ t[1] \in Tree
      /\ prCall[c].pc \in Late
  BY <1>1, CallTypes DEF Closing, CloseFits
<1>4. /\ (e.tree = Killed(t[1]) /\ e.ok = TRUE) \/ (e.tree = t[1] /\ e.ok = FALSE)
      /\ e.ok => ~Alive(e.tree)
  <2>1. e = [ok |-> TRUE, tree |-> Killed(t[1])] \/ e = [ok |-> FALSE, tree |-> t[1]]
    BY <1>2 DEF Terminations
  <2>2. (e.tree = Killed(t[1]) /\ e.ok = TRUE) \/ (e.tree = t[1] /\ e.ok = FALSE)
    BY <2>1
  <2> QED BY <1>3, <2>2, KilledIsDead
<1>5. Drifts(t[1], e.tree) /\ e.tree \in Tree
  <2>1. Drifts(t[1], e.tree)
    BY <1>3, <1>4, TreeDrifts
  <2> QED BY <2>1 DEF Drifts
<1>6. u \in [Stage(c) -> Tree] /\ u[1] = e.tree /\ \A i \in Stage(c) : Drifts(t[i], u[i])
  BY <1>3, <1>5, TreeDrifts
<1>7. prTree' = [prTree EXCEPT ![c] = u] /\ prClose' = [prClose EXCEPT ![k] = q]
  BY <1>2
<1>8. /\ q \in Closing /\ q.pc = "kill" /\ q.session = prClose[k].session
      /\ q.todo = prClose[k].todo \ {c}
      /\ q.done = IF e.ok THEN prClose[k].done \union {c} ELSE prClose[k].done
      /\ q.failed = (prClose[k].failed \/ ~e.ok)
  BY <1>1, <1>2, <1>3, <1>4 DEF Closing
<1> HIDE DEF u, q
<1>10. \A d \in ExecCalls : prTree'[d] = IF d = c THEN u ELSE prTree[d]
  BY <1>1, <1>7 DEF PrTypes
<1>11. prClose' \in [Closers -> Closing] /\ \A j \in Closers : prClose'[j] = IF j = k THEN q ELSE prClose[j]
  BY <1>1, <1>7, <1>8 DEF PrTypes
<1>12. PrTypes'
  <2>1. prTree' = [d \in ExecCalls |-> prTree'[d]]
    BY <1>1, <1>7 DEF PrTypes
  <2> QED BY <1>1, <1>6, <1>10, <1>11, <2>1 DEF PrTypes
<1>13. \A d \in ExecCalls : CallShape(d, prCall'[d], prTree'[d])
  <2>1. CallShape(c, prCall[c], u)
    BY <1>3, <1>6, ShapeDrifts DEF PrIInv
  <2> QED BY <1>1, <1>10, <2>1 DEF PrIInv
<1>14. \A d \in ExecCalls : /\ ~Alive(prTree[d][1]) => ~Alive(prTree'[d][1])
                            /\ prTree'[d][1].held = prTree[d][1].held
  BY <1>5, <1>6, <1>10 DEF Drifts
<1>15. LiveTreesRegistered'
  BY <1>1, <1>14 DEF PrIInv, LiveTreesRegistered
<1>16. \A s \in Sessions : SessionFits(s)'
  BY <1>1 DEF PrIInv, SessionFits
<1>17. ASSUME NEW j \in Closers
       PROVE  CloseFits(j)'
  <2>1. CASE j = k
    <3>1. \A d \in q.done : ~Alive(prTree'[d][1])
      BY <1>1, <1>3, <1>4, <1>6, <1>8, <1>10, <1>14 DEF CloseFits, Closing
    <3>2. \A d \in q.todo \union q.done : prCall'[d].pc \in Late
      BY <1>1, <1>3, <1>8 DEF CloseFits
    <3>3. ~q.failed => prSess'[q.session].trees \subseteq q.todo \union q.done
      BY <1>1, <1>8 DEF CloseFits
    <3> QED BY <1>1, <1>8, <1>11, <2>1, <3>1, <3>2, <3>3 DEF CloseFits
  <2>2. CASE j # k
    <3>1. CloseFits(j) /\ prClose'[j] = prClose[j] /\ prClose[j] \in Closing
      BY <1>1, <1>11, <2>2 DEF PrIInv, PrTypes
    <3> QED BY <1>1, <1>14, <3>1 DEF CloseFits, Closing
  <2> QED BY <2>1, <2>2
<1> QED BY <1>12, <1>13, <1>15, <1>16, <1>17 DEF PrIInv

LEMMA RetainKeeps ==
    ASSUME PrIInv, NEW k \in Closers, CloseRetain(k) \/ CloseRemove(k)
    PROVE  PrIInv'
<1> DEFINE s == prClose[k].session
           E == prSess[s]
<1>1. /\ PrTypes /\ CloseFits(k) /\ prClose[k] \in Closing /\ prClose[k].pc \in {"kill", "remove"}
      /\ s \in Sessions /\ E \in Entry /\ E.state \in {"closing", "gone"} /\ SessionFits(s)
      /\ UNCHANGED <<prCall, prTree>>
  BY DEF PrIInv, PrTypes, CloseRetain, CloseRemove, CloseFits
<1>2. ASSUME NEW e \in Entry, NEW q \in Closing,
             prSess' = [prSess EXCEPT ![s] = e], prClose' = [prClose EXCEPT ![k] = q],
             e.state \in {E.state, "gone"}, e.trees \subseteq E.trees, e.state = "gone" => e.trees = {},
             \/ q.pc = "idle"
             \/ q = [prClose[k] EXCEPT !.pc = "remove"] /\ (~q.failed => e.trees = {}),
             \A c \in E.trees : c \in e.trees \/ ~Alive(prTree[c][1])
      PROVE  PrIInv'
  <2>1. /\ prSess' \in [Sessions -> Entry] /\ prClose' \in [Closers -> Closing]
        /\ \A z \in Sessions : prSess'[z] = IF z = s THEN e ELSE prSess[z]
        /\ \A j \in Closers : prClose'[j] = IF j = k THEN q ELSE prClose[j]
    BY <1>1, <1>2 DEF PrTypes
  <2>2. \A z \in Sessions : SessionFits(z)'
    BY <1>1, <1>2, <2>1 DEF PrIInv, SessionFits
  <2>3. ASSUME NEW j \in Closers
        PROVE  CloseFits(j)'
    <3>1. CASE j = k
      <4>1. CASE q.pc = "idle"
        BY <2>1, <3>1, <4>1 DEF CloseFits
      <4>2. CASE q = [prClose[k] EXCEPT !.pc = "remove"] /\ (~q.failed => e.trees = {})
        <5>1. /\ q.pc = "remove" /\ q.session = s /\ q.todo = prClose[k].todo /\ q.done = prClose[k].done
              /\ q.failed = prClose[k].failed
          BY <1>1, <4>2 DEF Closing
        <5> QED BY <1>1, <1>2, <2>1, <3>1, <4>2, <5>1 DEF CloseFits
      <4> QED BY <1>2, <4>1, <4>2
    <3>2. CASE j # k
      <4>1. CloseFits(j) /\ prClose'[j] = prClose[j]
        BY <2>1, <3>2 DEF PrIInv
      <4>2. CASE prClose[j].session = s
        BY <1>1, <1>2, <2>1, <4>1, <4>2 DEF CloseFits
      <4>3. CASE prClose[j].session # s
        BY <1>1, <2>1, <4>1, <4>3 DEF CloseFits
      <4> QED BY <4>2, <4>3
    <3> QED BY <3>1, <3>2
  <2>4. \A z \in Sessions : \A c \in prSess[z].trees : c \in prSess'[z].trees \/ ~Alive(prTree[c][1])
    BY <1>2, <2>1
  <2> QED BY <1>1, <2>1, <2>2, <2>3, <2>4, SessionStep
<1>3. CASE CloseRetain(k)
  <2> DEFINE e == [E EXCEPT !.trees = @ \ prClose[k].done]
             q == [prClose[k] EXCEPT !.pc = "remove"]
  <2>1. /\ prClose[k].pc = "kill" /\ prClose[k].todo = {}
        /\ prSess' = [prSess EXCEPT ![s] = e] /\ prClose' = [prClose EXCEPT ![k] = q]
    BY <1>3 DEF CloseRetain
  <2>2. e \in Entry /\ e.state = E.state /\ e.trees = E.trees \ prClose[k].done
    BY <1>1 DEF Entry
  <2>3. q \in Closing /\ q.pc = "remove" /\ q.failed = prClose[k].failed
    BY <1>1 DEF Closing
  <2>4. ~q.failed => e.trees = {}
    BY <1>1, <2>1, <2>2, <2>3 DEF CloseFits
  <2>5. \A c \in E.trees : c \in e.trees \/ ~Alive(prTree[c][1])
    BY <1>1, <2>1, <2>2 DEF CloseFits
  <2>6. e.state = "gone" => e.trees = {}
    BY <1>1, <2>2 DEF SessionFits
  <2> QED BY <1>1, <1>2, <2>1, <2>2, <2>3, <2>4, <2>5, <2>6
<1>4. CASE CloseRemove(k)
  <2>1. IdleClose \in Closing /\ IdleClose.pc = "idle"
    BY DEF IdleClose, Closing
  <2>2. prClose[k].pc = "remove" /\ prClose' = [prClose EXCEPT ![k] = IdleClose]
    BY <1>4 DEF CloseRemove
  <2>3. CASE prClose[k].failed
    <3>1. prSess' = [prSess EXCEPT ![s] = E]
      BY <1>1, <1>4, <2>3 DEF CloseRemove, PrTypes
    <3>2. E.state = "gone" => E.trees = {}
      BY <1>1 DEF SessionFits
    <3> QED BY <1>1, <1>2, <2>1, <2>2, <3>1, <3>2
  <2>4. CASE ~prClose[k].failed
    <3> DEFINE e == [state |-> "gone", trees |-> {}]
    <3>1. e \in Entry /\ e.state = "gone" /\ e.trees = {} /\ prSess' = [prSess EXCEPT ![s] = e]
      BY <1>4, <2>4 DEF CloseRemove, Entry
    <3>2. E.trees = {}
      BY <1>1, <2>2, <2>4 DEF CloseFits
    <3> HIDE DEF e
    <3> QED BY <1>1, <1>2, <2>1, <2>2, <3>1, <3>2
  <2> QED BY <2>3, <2>4
<1> QED BY <1>3, <1>4

-----------------------------------------------------------------------------

LEMMA PrInitHolds ==
    ASSUME PrInit
    PROVE  PrIInv
<1>1. PICK run \in Together : prCall = [c \in ExecCalls |-> IF c \in run THEN PrIdle
                                                             ELSE [PrIdle EXCEPT !.pc = "over"]]
  BY DEF PrInit
<1>2. \A c \in ExecCalls : /\ prCall[c] \in Invocation /\ prCall[c].stage = 1 /\ prCall[c].result = "none"
                           /\ prCall[c].pc \in {"idle", "over"}
  BY <1>1 DEF PrIdle, Invocation, Late
<1>3. /\ NoTree \in Tree /\ ~NoTree.held /\ NoTree.task = "none" /\ ~Alive(NoTree)
      /\ IdleClose \in Closing /\ IdleClose.pc = "idle"
  BY DEF NoTree, Tree, Alive, IdleClose, Closing
<1>4. \A c \in ExecCalls : 1 \in Stage(c)
  BY PrConstants DEF Stage
<1>5. /\ prTree = [c \in ExecCalls |-> [i \in Stage(c) |-> NoTree]]
      /\ prSess = [s \in Sessions |-> [state |-> "unborn", trees |-> {}]]
      /\ prClose = [k \in Closers |-> IdleClose]
  BY DEF PrInit
<1>6. \A c \in ExecCalls : prTree[c] \in [Stage(c) -> Tree] /\ \A i \in Stage(c) : prTree[c][i] = NoTree
  BY <1>3, <1>5
<1>7. PrTypes
  <2>1. prCall \in [ExecCalls -> Invocation] /\ prTree = [c \in ExecCalls |-> prTree[c]]
    BY <1>1, <1>2, <1>5
  <2>2. prSess \in [Sessions -> Entry] /\ prClose \in [Closers -> Closing]
    BY <1>3, <1>5 DEF Entry
  <2> QED BY <1>2, <1>4, <1>6, <2>1, <2>2 DEF PrTypes
<1>8. \A c \in ExecCalls : CallShape(c, prCall[c], prTree[c])
  BY <1>2, <1>3, <1>6 DEF CallShape, Attended
<1>9. LiveTreesRegistered
  BY <1>3, <1>4, <1>6 DEF LiveTreesRegistered
<1>10. \A s \in Sessions : SessionFits(s)
  BY <1>5 DEF SessionFits
<1>11. \A k \in Closers : CloseFits(k)
  BY <1>3, <1>5 DEF CloseFits
<1> QED BY <1>7, <1>8, <1>9, <1>10, <1>11 DEF PrIInv

LEMMA PrInductive ==
    ASSUME PrIInv, [PrNext]_prVars
    PROVE  PrIInv'
<1>1. CASE UNCHANGED prVars
  BY <1>1 DEF prVars, PrIInv, PrTypes, LiveTreesRegistered, SessionFits, CloseFits
<1>2. ASSUME NEW c \in ExecCalls,
             \/ Invoke(c) \/ PrCallStep(c) \/ CallFault(c) \/ DropCall(c) \/ Cancel(c)
             \/ \E i \in Stage(c) : Exit(c, i) \/ Fork(c, i) \/ KidsExit(c, i) \/ DrainEnds(c, i)
      PROVE  PrIInv'
  BY <1>2, SpawningKeeps, KillUnattachedKeeps, WaitingKeeps, ProgramsKeep DEF PrCallStep, CallFault
<1>3. ASSUME NEW s \in Sessions, SessionOpen(s) \/ \E k \in Closers : CloseMark(k, s)
      PROVE  PrIInv'
  BY <1>3, OpenKeeps, MarkKeeps
<1>4. ASSUME NEW k \in Closers, CloseStep(k)
      PROVE  PrIInv'
  BY <1>4, KillKeeps, RetainKeeps DEF CloseStep
<1> QED BY <1>1, <1>2, <1>3, <1>4 DEF PrNext

LEMMA PrConclusion ==
    ASSUME PrIInv
    PROVE  PrTypeOK /\ NothingOutlives /\ OnlyRefusedSurvive /\ ClosedMeansGone /\ LiveTreesRegistered
<1>1. \A c \in ExecCalls : /\ prCall[c] \in Invocation /\ prCall[c].stage \in Stage(c)
                           /\ prTree[c] \in [Stage(c) -> Tree] /\ CallShape(c, prCall[c], prTree[c])
                           /\ 1 \in Stage(c)
  BY CallTypes
<1>2. \A c \in ExecCalls : prCall[c].pc = "over" => \A i \in Stage(c) :
          /\ ~prTree[c][i].held
          /\ prTree[c][i].task # "none" /\ Alive(prTree[c][i]) => prCall[c].result \in GaveUp /\ c \in Stubborn
          /\ prCall[c].result \in {"ok", "cancelled"} => ~Alive(prTree[c][i]) /\ prTree[c][i].task # "runs"
  BY <1>1 DEF CallShape
<1>3. \A c \in ExecCalls : prCall[c].pc # "over" => prCall[c].result = "none"
  BY <1>1 DEF CallShape
<1>4. PrTypeOK
  <2>1. \A c \in ExecCalls :
          /\ prCall[c].pc \in {"idle", "spawn", "unattached", "wait", "join", "settle", "failing", "over"}
          /\ prTree[c] \in [Stage(c) -> [child : {"none", "live", "gone"}, kids : BOOLEAN,
                                         held : BOOLEAN, task : {"none", "runs", "ended"}]]
    BY <1>1 DEF Invocation, Late, Attended, Tree
  <2>2. \A s \in Sessions : prSess[s].trees \subseteq { c \in ExecCalls : SessionOf[c] = s }
    BY DEF PrIInv, PrTypes, Entry, SessionFits
  <2> QED BY <1>1, <1>2, <2>1, <2>2 DEF PrTypeOK
<1>5. NothingOutlives
  BY <1>2, <1>3 DEF NothingOutlives
<1>6. OnlyRefusedSurvive
  BY <1>2 DEF OnlyRefusedSurvive
<1>7. ClosedMeansGone
  <2> SUFFICES ASSUME NEW c \in ExecCalls, SessionOf[c] # NoSession, prTree[c][1].task # "none",
                      prSess[SessionOf[c]].state = "gone", Alive(prTree[c][1])
               PROVE  prCall[c].result \in GaveUp
    BY DEF ClosedMeansGone, GaveUp
  <2>1. CASE prCall[c].pc = "over"
    BY <1>1, <1>2, <2>1
  <2>2. CASE prCall[c].pc \in Attended
    <3>1. prTree[c][1].held
      BY <1>1, <2>2 DEF CallShape, Drained
    <3>2. c \in prSess[SessionOf[c]].trees /\ SessionOf[c] \in Sessions
      BY <2>2, <3>1, PrConstants DEF PrIInv, LiveTreesRegistered, Attended
    <3> QED BY <3>2 DEF PrIInv, SessionFits
  <2>3. CASE prCall[c].pc \in {"idle", "spawn", "unattached"}
    <3>1. \A i \in Stage(c) : prTree[c][i].task = "none"
      <4>1. prCall[c].stage \in Nat /\ \A i \in Stage(c) : i \in Nat
        BY <1>1 DEF Stage
      <4> QED BY <1>1, <2>3, <4>1 DEF CallShape, Contained, NoTree
    <3> QED BY <1>1, <3>1
  <2> QED BY <1>1, <2>1, <2>2, <2>3 DEF Invocation, Late
<1> QED BY <1>4, <1>5, <1>6, <1>7 DEF PrIInv

-----------------------------------------------------------------------------

\* Nothing runs on behind those who called for it: a process outlives its call or its
\* session only if the kernel refused to signal it, and then this is reported; the
\* bridge's client reports every job it cannot vouch for.
THEOREM CallersLeaveNothing == PrSpec /\ ClSpec => []CallersKept
<1>1. PrInit => PrIInv
  BY PrInitHolds
<1>2. PrIInv /\ [PrNext]_prVars => PrIInv'
  BY PrInductive
<1>3. PrIInv => PrTypeOK /\ NothingOutlives /\ OnlyRefusedSurvive /\ ClosedMeansGone /\ LiveTreesRegistered
  BY PrConclusion
<1>4. PrSpec => [](PrTypeOK /\ NothingOutlives /\ OnlyRefusedSurvive /\ ClosedMeansGone /\ LiveTreesRegistered)
  BY <1>1, <1>2, <1>3, PTL DEF PrSpec
<1>5. /\ PrTypeOK /\ NothingOutlives /\ OnlyRefusedSurvive /\ ClosedMeansGone /\ LiveTreesRegistered
      /\ ClTypeOK /\ NothingLeftBehind /\ RuntimeVouches
      => CallersKept
  BY DEF CallersKept
<1> QED BY <1>4, <1>5, ClientKept, PTL

-----------------------------------------------------------------------------
(* The registry of the bridge.  A step touches one job: its record, its      *)
(* supervisor and its processes.  JobFits says how these three go together,  *)
(* CallOK what a call under way knows of its job, Registered and Slots how   *)
(* the tables count the jobs.                                                *)


\* How a record, its supervisor and its live processes go together: nothing lives before
\* the spawn nor behind a confirmed cleanup or a released slot, and a supervisor is past
\* its work once its job is finished.
JobFits(job, s, live) ==
  /\ job.phase = "none" => s.pc = "none" /\ live = {} /\ ~job.released
  /\ job.released \/ (job.phase = "finished" /\ job.confirmed) => job.phase = "finished" /\ live = {}
  /\ job.version = 1 => job.phase = "finished"
  /\ job.phase = "finished" => s.pc \in {"notify", "done", "none"}
  /\ s.pc = "notify" => job.phase = "finished"
  /\ s.pc \in {"start", "plan", "spawn"} => live = {}
  /\ s.pc \in {"settle", "notify"} /\ s.confirmed => live = {}
JobsFit == \A j \in Jobs : JobFits(jobs[j], sup[j], os[j].live)

\* What a call under way knows of its job.
CallOK(c) ==
  /\ calls[c].pc = "freeze" => calls[c].req \in Requests
  /\ calls[c].pc \notin {"idle", "freeze"} => calls[c].job \in Known
  /\ calls[c].pc = "check" /\ calls[c].seen = 1 => Finished(calls[c].job)
  /\ calls[c].pc \in {"arm", "blocked"} => calls[c].seen = 0
  /\ calls[c].pc \in {"poll", "release"} => Finished(calls[c].job)
  /\ calls[c].pc = "release" => os[calls[c].job].live = {}
CallsOK == \A c \in Calls : CallOK(c)

\* Job numbers are given in order, each to one request.
Registered ==
  /\ Known = 1 .. Cardinality(Known)
  /\ \A j \in Known : jobs[j].req \in Requests /\ requests[jobs[j].req] = j

\* The slots in use are those of the jobs that have not released theirs.
Holders == {j \in Known : ~jobs[j].released}
Slots == active = Cardinality(Holders)

\* A shutdown that was not cut short ended after the jobs it found.
ShutdownOK == stop.pc = "ended" /\ ~stop.late => \A j \in stop.snap : Finished(j)

BridgeIInv == BrTypeOK /\ Registered /\ Slots /\ ShutdownOK /\ JobsFit /\ CallsOK
-----------------------------------------------------------------------------
\* The tables of jobs are finite.
LEMMA FiniteTables ==
  /\ IsFiniteSet(Jobs) /\ Cardinality(Jobs) = MaxRetained
  /\ IsFiniteSet(Known) /\ Cardinality(Known) \in Nat
  /\ IsFiniteSet(Holders) /\ Cardinality(Holders) \in Nat
  /\ 1 \in Jobs
<1>1. IsFiniteSet(Jobs) /\ Cardinality(Jobs) = MaxRetained /\ 1 \in Jobs
  <2>1. MaxRetained \in Int /\ 1 \in Int /\ MaxRetained >= 1
    BY BridgeAssumption
  <2> QED BY <2>1, FS_Interval DEF Jobs
<1>2. Known \in SUBSET Jobs /\ Holders \in SUBSET Jobs
  BY DEF Known, Holders
<1>3. \A T \in SUBSET Jobs : IsFiniteSet(T)
  BY <1>1, FS_Subset
<1> QED BY <1>1, <1>2, <1>3, FS_CardinalityType

\* A job that has not released its slot has one.
LEMMA SlotHeld ==
  ASSUME Slots, NEW j \in Holders
  PROVE  active \in Nat \ {0}
BY FiniteTables, FS_EmptySet DEF Slots

\* A step of one job, and what the calls see of it.
LEMMA StepKeeps ==
  ASSUME BridgeIInv, NEW j \in Jobs, NEW J \in JobRecord, NEW S \in Supervisor, NEW O \in ProcessTrees,
         jobs' = [jobs EXCEPT ![j] = J], sup' = [sup EXCEPT ![j] = S], os' = [os EXCEPT ![j] = O],
         requests' = requests, events' \in 0 .. MaxEvents,
         calls' \in [Calls -> Call], \A c \in Calls : calls'[c] = calls[c] \/ CallOK(c)',
         stop' \in Shutdowns, stop'.pc = "ended" => stop' = stop,
         J.phase = "none" <=> jobs[j].phase = "none", J.req = jobs[j].req,
         Finished(j) => J.phase = "finished" /\ (os[j].live = {} => O.live = {}),
         JobFits(J, S, O.live),
         \/ J.released = jobs[j].released /\ active' = active
         \/ j \in Holders /\ J.released /\ active' = active - 1
  PROVE  BridgeIInv'
<1>0. /\ jobs \in [Jobs -> JobRecord] /\ sup \in [Jobs -> Supervisor] /\ os \in [Jobs -> ProcessTrees]
      /\ active \in 0 .. MaxActive /\ BrTypeOK
  BY DEF BridgeIInv, BrTypeOK
<1>1. \A k \in Jobs : /\ jobs'[k] = IF k = j THEN J ELSE jobs[k]
                      /\ sup'[k] = IF k = j THEN S ELSE sup[k]
                      /\ os'[k] = IF k = j THEN O ELSE os[k]
  BY <1>0
<1>2. Known' = Known /\ Known \subseteq Jobs
  BY <1>1 DEF Known
<1>3. active' \in 0 .. MaxActive /\ Slots'
  <2>1. CASE J.released = jobs[j].released /\ active' = active
    <3>1. Holders' = Holders
      BY <1>1, <1>2, <2>1 DEF Holders
    <3> QED BY <1>0, <2>1, <3>1 DEF BridgeIInv, Slots
  <2>2. CASE j \in Holders /\ J.released /\ active' = active - 1
    <3>1. Holders' = Holders \ {j}
      BY <1>1, <1>2, <2>2 DEF Holders
    <3>2. active \in Nat \ {0} /\ active = Cardinality(Holders)
      BY <2>2, SlotHeld DEF BridgeIInv, Slots
    <3>3. Cardinality(Holders \ {j}) = Cardinality(Holders) - 1
      BY <2>2, FiniteTables, FS_RemoveElement
    <3> QED BY <1>0, <2>2, <3>1, <3>2, <3>3, BridgeAssumption DEF Slots
  <2> QED BY <2>1, <2>2
<1>4. BrTypeOK'
  <2>1. jobs' \in [Jobs -> JobRecord] /\ sup' \in [Jobs -> Supervisor] /\ os' \in [Jobs -> ProcessTrees]
    BY <1>0
  <2> QED BY <1>0, <1>3, <2>1 DEF BrTypeOK
<1>5. Registered'
  BY <1>1, <1>2 DEF BridgeIInv, Registered
<1>6. \A k \in Jobs : Finished(k) => Finished(k)' /\ (os[k].live = {} => os'[k].live = {})
  BY <1>1 DEF Finished
<1>7. ShutdownOK'
  BY <1>0, <1>6 DEF BridgeIInv, ShutdownOK, BrTypeOK, Shutdowns
<1>8. JobsFit'
  BY <1>1 DEF BridgeIInv, JobsFit
<1>9. ASSUME NEW c \in Calls, calls'[c] = calls[c] PROVE CallOK(c)'
  <2>1. CallOK(c) /\ (calls[c].pc \notin {"idle", "freeze"} => calls[c].job \in Jobs)
    BY <1>2 DEF BridgeIInv, CallsOK, CallOK
  <2> QED BY <1>2, <1>6, <1>9, <2>1 DEF CallOK
<1> QED BY <1>3, <1>4, <1>5, <1>7, <1>8, <1>9 DEF BridgeIInv, CallsOK

\* A step that leaves the processes, the phase and the slot of its job as they are.
LEMMA RecordKeeps ==
  ASSUME BridgeIInv, NEW j \in Jobs, NEW J \in JobRecord, NEW S \in Supervisor,
         jobs' = [jobs EXCEPT ![j] = J], sup' = [sup EXCEPT ![j] = S],
         calls' \in [Calls -> Call], \A c \in Calls : calls'[c] = calls[c] \/ CallOK(c)',
         UNCHANGED <<events, requests, active, os, stop>>,
         J.phase = jobs[j].phase, J.req = jobs[j].req, J.released = jobs[j].released,
         JobFits(J, S, os[j].live)
  PROVE  BridgeIInv'
<1>1. /\ os[j] \in ProcessTrees /\ os' = [os EXCEPT ![j] = os[j]]
      /\ stop' \in Shutdowns /\ events' \in 0 .. MaxEvents
  BY DEF BridgeIInv, BrTypeOK
<1>2. /\ requests' = requests /\ stop' = stop /\ active' = active
      /\ J.phase = "none" <=> jobs[j].phase = "none"
      /\ Finished(j) => J.phase = "finished"
  BY DEF Finished
<1> QED BY <1>1, <1>2, StepKeeps

\* The records a step may leave, and what they keep.
LEMMA CancelledType ==
  ASSUME NEW job \in JobRecord, NEW r \in Reasons
  PROVE  LET J == Cancelled(job, r)
         IN  /\ J \in JobRecord /\ J.phase = job.phase /\ J.req = job.req /\ J.released = job.released
             /\ J.version = job.version /\ J.confirmed = job.confirmed
BY DEF Cancelled, JobRecord, Optional

LEMMA SettledType ==
  ASSUME NEW job \in JobRecord, NEW st \in Optional(Statuses), NEW b \in BOOLEAN
  PROVE  LET J == Settled(job, st, b)
         IN  /\ J \in JobRecord /\ J.phase = "finished" /\ J.req = job.req /\ J.released = job.released
             /\ J.version = job.version /\ J.confirmed = b
BY DEF Settled, JobRecord

LEMMA NotifiedType ==
  ASSUME NEW job \in JobRecord, NEW b \in BOOLEAN
  PROVE  LET J == Notified(job, b)
         IN  /\ J \in JobRecord /\ J.phase = job.phase /\ J.req = job.req
             /\ (b => J.released) /\ (~b => J.released = job.released)
             /\ J.version = 1 /\ J.confirmed = job.confirmed
<1>1. CASE b
  <2>1. Notified(job, b) = [job EXCEPT !.version = 1, !.released = TRUE]
    BY <1>1 DEF Notified
  <2> DEFINE J == [job EXCEPT !.version = 1, !.released = TRUE]
             K == [job EXCEPT !.version = 1]
  <2>2. J \in JobRecord
    <3>1. K \in JobRecord
      BY DEF JobRecord
    <3>2. J = [K EXCEPT !.released = TRUE]
      OBVIOUS
    <3> HIDE DEF K, J
    <3> QED BY <3>1, <3>2 DEF JobRecord
  <2>3. J.phase = job.phase /\ J.req = job.req /\ J.version = 1 /\ J.confirmed = job.confirmed
    BY DEF JobRecord
  <2>4. J.released = TRUE
    BY DEF JobRecord
  <2> QED BY <1>1, <2>1, <2>2, <2>3, <2>4
<1>2. CASE ~b
  <2>1. Notified(job, b) = [job EXCEPT !.version = 1]
    BY <1>2 DEF Notified, JobRecord
  <2> QED BY <1>2, <2>1 DEF JobRecord
<1> QED BY <1>1, <1>2

LEMMA TreeTypes ==
  ASSUME NEW o \in ProcessTrees
  PROVE  /\ Terminate(o) \in ProcessTrees /\ Terminate(o).live = o.live
         /\ KillWorker(o) \in ProcessTrees /\ KillWorker(o).live = o.live
BY DEF Terminate, KillWorker, ProcessTrees

\* What the invariant says of one job.
LEMMA OneJob ==
  ASSUME BridgeIInv, NEW j \in Jobs
  PROVE  /\ jobs[j] \in JobRecord /\ sup[j] \in Supervisor /\ os[j] \in ProcessTrees
         /\ JobFits(jobs[j], sup[j], os[j].live)
         /\ [jobs EXCEPT ![j] = jobs[j]] = jobs /\ [sup EXCEPT ![j] = sup[j]] = sup
         /\ [os EXCEPT ![j] = os[j]] = os
         /\ calls \in [Calls -> Call] /\ stop \in Shutdowns /\ events \in 0 .. MaxEvents
BY DEF BridgeIInv, BrTypeOK, JobsFit

\* The bounded events.
LEMMA EventBound ==
  ASSUME BridgeIInv, Event
  PROVE  events' \in 0 .. MaxEvents
BY BridgeAssumption DEF Event, BridgeIInv, BrTypeOK

LEMMA StatusTypes ==
  /\ \A r : CancelStatus(r) \in Optional(Statuses)
  /\ \A s \in Supervisor : \A r : TerminalStatus(s, r) \in Optional(Statuses)
  /\ {"failed", "interrupted"} \subseteq Optional(Statuses)
BY DEF CancelStatus, TerminalStatus, Supervisor, Statuses, Outcomes, Optional
-----------------------------------------------------------------------------
\* The supervisor before and at the spawn, and its settlement.
LEMMA SupervisorStep ==
  ASSUME BridgeIInv, NEW j \in Jobs,
         \/ SupStart(j) \/ SupPlan(j) \/ SupPlanFails(j) \/ SupSpawnFails(j) \/ SupSpawn(j)
         \/ SupAttachFails(j) \/ SupReaped(j) \/ SupAttach(j) \/ Confirm(j)
  PROVE  BridgeIInv'
<1>0. /\ jobs[j] \in JobRecord /\ sup[j] \in Supervisor /\ os[j] \in ProcessTrees
      /\ JobFits(jobs[j], sup[j], os[j].live)
      /\ [jobs EXCEPT ![j] = jobs[j]] = jobs /\ [os EXCEPT ![j] = os[j]] = os
      /\ calls \in [Calls -> Call] /\ stop \in Shutdowns /\ events \in 0 .. MaxEvents
  BY OneJob
\* To settle with a status and the evidence that nothing lives, or without any.
<1>1. ASSUME NEW st \in Optional(Statuses), NEW b \in BOOLEAN, SupSettleAs(j, st, b),
             b => os[j].live = {}, sup[j].pc \notin {"none", "notify", "done"},
             UNCHANGED <<requests, jobs, active, os, calls, stop>>, events' \in 0 .. MaxEvents
      PROVE  BridgeIInv'
  <2> DEFINE S == [sup[j] EXCEPT !.pc = "settle", !.status = st, !.confirmed = b]
  <2>0. sup' = [sup EXCEPT ![j] = S]
    BY <1>1 DEF SupSettleAs
  <2>1. S \in Supervisor /\ S.pc = "settle" /\ S.confirmed = b
    BY <1>0, <1>1 DEF Supervisor, SupSteps
  <2> HIDE DEF S
  <2>2. JobFits(jobs[j], S, os[j].live) /\ ~Finished(j)
    BY <1>0, <1>1, <2>1 DEF JobFits, Finished
  <2> QED BY <1>0, <1>1, <2>0, <2>1, <2>2, StepKeeps
\* To go on, with nothing of the record changed.
<1>2. ASSUME NEW pc \in SupSteps, SupGo(j, pc), UNCHANGED <<requests, jobs, active, calls, stop>>,
             NEW O \in ProcessTrees, os' = [os EXCEPT ![j] = O], events' \in 0 .. MaxEvents,
             sup[j].pc \notin {"none", "notify", "done"},
             pc \notin {"none", "notify", "done", "settle"},
             pc \in {"start", "plan", "spawn"} => O.live = {}
      PROVE  BridgeIInv'
  <2> DEFINE S == [sup[j] EXCEPT !.pc = pc]
  <2>0. sup' = [sup EXCEPT ![j] = S]
    BY <1>2 DEF SupGo
  <2>1. S \in Supervisor /\ S.pc = pc
    BY <1>0, <1>2 DEF Supervisor
  <2> HIDE DEF S
  <2>2. JobFits(jobs[j], S, O.live) /\ ~Finished(j)
    BY <1>0, <1>2, <2>1 DEF JobFits, Finished
  <2> QED BY <1>0, <1>2, <2>0, <2>1, <2>2, StepKeeps
<1>3. CASE SupStart(j)
  <2>1. sup[j].pc = "start" /\ os[j].live = {} /\ UNCHANGED <<events, requests, active, os, calls, stop>>
    BY <1>0, <1>3 DEF SupStart, SupAt, JobFits
  <2>2. CASE jobs[j].cancel
    BY <1>0, <1>1, <1>3, <2>1, <2>2, StatusTypes DEF SupStart
  <2>3. CASE ~jobs[j].cancel
    <3> DEFINE S == [sup[j] EXCEPT !.pc = "plan"]
               J == [jobs[j] EXCEPT !.phase = "running"]
    <3>1. S \in Supervisor /\ S.pc = "plan" /\ sup' = [sup EXCEPT ![j] = S]
      BY <1>0, <1>3, <2>3 DEF SupStart, SupGo, Supervisor, SupSteps
    <3>2. J \in JobRecord /\ J.phase = "running" /\ J.req = jobs[j].req /\ J.released = jobs[j].released
          /\ J.version = jobs[j].version /\ jobs' = [jobs EXCEPT ![j] = J]
      BY <1>0, <1>3, <2>3 DEF SupStart, JobRecord
    <3> HIDE DEF S, J
    <3>3. JobFits(J, S, os[j].live) /\ ~Finished(j) /\ jobs[j].phase # "none"
      BY <1>0, <2>1, <3>1, <3>2 DEF JobFits, Finished
    <3> QED BY <1>0, <2>1, <3>1, <3>2, <3>3, StepKeeps
  <2> QED BY <2>2, <2>3
<1>4. CASE SupPlan(j)
  <2>1. sup[j].pc = "plan" /\ os[j].live = {} /\ UNCHANGED <<events, requests, jobs, active, os, calls, stop>>
    BY <1>0, <1>4 DEF SupPlan, SupAt, SupOnly, JobFits
  <2>2. CASE jobs[j].cancel
    BY <1>0, <1>1, <1>4, <2>1, <2>2, StatusTypes DEF SupPlan
  <2>3. CASE ~jobs[j].cancel
    BY <1>0, <1>2, <1>4, <2>1, <2>3 DEF SupPlan, SupSteps
  <2> QED BY <2>2, <2>3
<1>5. CASE SupPlanFails(j) \/ SupSpawnFails(j)
  <2>1. /\ sup[j].pc \in {"plan", "spawn"} /\ os[j].live = {} /\ Event
        /\ SupSettleAs(j, "failed", TRUE) /\ UNCHANGED <<requests, jobs, active, os, calls, stop>>
    BY <1>0, <1>5 DEF SupPlanFails, SupSpawnFails, SupAt, SupOnly, JobFits
  <2> QED BY <1>1, <2>1, EventBound, StatusTypes
<1>6. CASE SupSpawn(j)
  <2> DEFINE O == [os[j] EXCEPT !.live = {"worker"}]
  <2>1. O \in ProcessTrees /\ os' = [os EXCEPT ![j] = O]
    BY <1>0, <1>6 DEF SupSpawn, ProcessTrees, Procs
  <2> HIDE DEF O
  <2> QED BY <1>0, <1>2, <1>6, <2>1 DEF SupSpawn, SupAt, SupSteps
<1>7. CASE SupAttachFails(j)
  <2>1. KillWorker(os[j]) \in ProcessTrees /\ os' = [os EXCEPT ![j] = KillWorker(os[j])]
    BY <1>0, <1>7, TreeTypes DEF SupAttachFails
  <2> QED BY <1>0, <1>2, <1>7, <2>1, EventBound DEF SupAttachFails, SupAt, SupSteps
<1>8. CASE SupReaped(j)
  BY <1>0, <1>1, <1>8, StatusTypes DEF SupReaped, SupAt, SupOnly
<1>9. CASE SupAttach(j)
  <2> DEFINE S == [sup[j] EXCEPT !.pc = "loop", !.open = TRUE]
             J == [jobs[j] EXCEPT !.tree = TRUE]
  <2>1. S \in Supervisor /\ S.pc = "loop" /\ sup' = [sup EXCEPT ![j] = S]
    BY <1>0, <1>9 DEF SupAttach, Supervisor, SupSteps
  <2>2. J \in JobRecord /\ J.phase = jobs[j].phase /\ J.req = jobs[j].req /\ J.released = jobs[j].released
        /\ J.version = jobs[j].version /\ J.confirmed = jobs[j].confirmed /\ jobs' = [jobs EXCEPT ![j] = J]
    BY <1>0, <1>9 DEF SupAttach, JobRecord
  <2> HIDE DEF S, J
  <2>3. JobFits(J, S, os[j].live) /\ ~Finished(j)
    BY <1>0, <1>9, <2>1, <2>2 DEF JobFits, Finished, SupAttach, SupAt
  <2>4. UNCHANGED <<events, requests, active, os, calls, stop>>
    BY <1>9 DEF SupAttach
  <2>5. calls' \in [Calls -> Call] /\ \A c \in Calls : calls'[c] = calls[c]
    BY <1>0, <2>4
  <2> QED BY <2>1, <2>2, <2>3, <2>4, <2>5, RecordKeeps
<1>10. CASE Confirm(j)
  <2>1. TerminalStatus(sup[j], jobs[j].reason) \in Optional(Statuses)
    BY <1>0, StatusTypes
  <2>2. ~TreeAlive(j) => os[j].live = {}
    BY DEF TreeAlive
  <2> QED BY <1>0, <1>1, <1>10, <2>1, <2>2 DEF Confirm, SupAt, SupOnly
<1> QED BY <1>3, <1>4, <1>5, <1>6, <1>7, <1>8, <1>9, <1>10

\* The select loop.
LEMMA SelectStep ==
  ASSUME BridgeIInv, NEW j \in Jobs, LoopStep(j)
  PROVE  BridgeIInv'
<1>0. /\ jobs[j] \in JobRecord /\ sup[j] \in Supervisor /\ os[j] \in ProcessTrees
      /\ JobFits(jobs[j], sup[j], os[j].live)
      /\ [jobs EXCEPT ![j] = jobs[j]] = jobs /\ [os EXCEPT ![j] = os[j]] = os
      /\ calls \in [Calls -> Call] /\ stop \in Shutdowns /\ events \in 0 .. MaxEvents
  BY OneJob
<1>1. Terminate(os[j]) \in ProcessTrees /\ Terminate(os[j]).live = os[j].live
  BY <1>0, TreeTypes
<1>2. sup[j].pc = "loop" /\ ~Finished(j)
  BY <1>0 DEF LoopStep, LoopExit, LoopWaitFails, LoopCancel, LoopDeadline, LoopStreamsClose, LoopEnd,
              SupAt, JobFits, Finished
\* The supervisor stays in its loop or leaves it, and the record may be cancelled.
<1>3. ASSUME NEW S \in Supervisor, S.pc \in {"loop", "confirm"}, sup' = [sup EXCEPT ![j] = S],
             NEW O \in ProcessTrees, O.live = os[j].live, os' = [os EXCEPT ![j] = O],
             NEW J \in JobRecord, jobs' = [jobs EXCEPT ![j] = J],
             J.phase = jobs[j].phase, J.req = jobs[j].req, J.released = jobs[j].released,
             J.version = jobs[j].version, J.confirmed = jobs[j].confirmed,
             UNCHANGED <<requests, active, calls, stop>>, events' \in 0 .. MaxEvents
      PROVE  BridgeIInv'
  <2>1. JobFits(J, S, O.live)
    BY <1>0, <1>2, <1>3 DEF JobFits
  <2> QED BY <1>0, <1>2, <1>3, <2>1, StepKeeps
<1>4. CASE LoopExit(j)
  <2> DEFINE S == [sup[j] EXCEPT !.exit = TRUE, !.native = os[j].outcome]
             O == [Terminate(os[j]) EXCEPT !.outcome = None]
  <2>1. S \in Supervisor /\ S.pc = "loop"
    BY <1>0, <1>2 DEF Supervisor, ProcessTrees
  <2>2. O \in ProcessTrees /\ O.live = os[j].live
    BY <1>1 DEF ProcessTrees, Optional
  <2>3. sup' = [sup EXCEPT ![j] = S] /\ os' = [os EXCEPT ![j] = O]
        /\ UNCHANGED <<events, requests, jobs, active, calls, stop>>
    BY <1>4 DEF LoopExit
  <2> HIDE DEF S, O
  <2> QED BY <1>0, <1>3, <2>1, <2>2, <2>3
<1>5. CASE LoopWaitFails(j)
  <2> DEFINE S == [sup[j] EXCEPT !.pc = "confirm", !.native = "failed"]
  <2>1. S \in Supervisor /\ S.pc = "confirm"
    BY <1>0 DEF Supervisor, SupSteps, Optional, Outcomes
  <2>2. sup' = [sup EXCEPT ![j] = S] /\ os' = [os EXCEPT ![j] = Terminate(os[j])] /\ Event
        /\ UNCHANGED <<requests, jobs, active, calls, stop>>
    BY <1>5 DEF LoopWaitFails
  <2> HIDE DEF S
  <2> QED BY <1>0, <1>1, <1>3, <2>1, <2>2, EventBound
<1>6. CASE LoopCancel(j)
  <2> DEFINE S == [sup[j] EXCEPT !.seen = TRUE]
  <2>1. S \in Supervisor /\ S.pc = "loop"
    BY <1>0, <1>2 DEF Supervisor
  <2>2. sup' = [sup EXCEPT ![j] = S] /\ os' = [os EXCEPT ![j] = Terminate(os[j])]
        /\ UNCHANGED <<events, requests, jobs, active, calls, stop>>
    BY <1>6 DEF LoopCancel
  <2> HIDE DEF S
  <2> QED BY <1>0, <1>1, <1>3, <2>1, <2>2
<1>7. CASE LoopDeadline(j)
  <2> DEFINE S == [sup[j] EXCEPT !.fired = TRUE]
             J == Cancelled(jobs[j], "deadline")
  <2>1. S \in Supervisor /\ S.pc = "loop"
    BY <1>0, <1>2 DEF Supervisor
  <2>2. J \in JobRecord /\ J.phase = jobs[j].phase /\ J.req = jobs[j].req /\ J.released = jobs[j].released
        /\ J.version = jobs[j].version /\ J.confirmed = jobs[j].confirmed
    BY <1>0, CancelledType DEF Reasons
  <2>3. sup' = [sup EXCEPT ![j] = S] /\ os' = [os EXCEPT ![j] = Terminate(os[j])] /\ Event
        /\ jobs' = [jobs EXCEPT ![j] = J] /\ UNCHANGED <<requests, active, calls, stop>>
    BY <1>7 DEF LoopDeadline
  <2> HIDE DEF S, J
  <2> QED BY <1>0, <1>1, <1>3, <2>1, <2>2, <2>3, EventBound
<1>8. CASE LoopStreamsClose(j)
  <2> DEFINE S == [sup[j] EXCEPT !.open = FALSE]
  <2>1. S \in Supervisor /\ S.pc = "loop"
    BY <1>0, <1>2 DEF Supervisor
  <2>2. sup' = [sup EXCEPT ![j] = S] /\ UNCHANGED <<events, requests, jobs, active, os, calls, stop>>
    BY <1>8 DEF LoopStreamsClose, SupOnly
  <2> HIDE DEF S
  <2> QED BY <1>0, <1>3, <2>1, <2>2
<1>9. CASE LoopEnd(j)
  <2> DEFINE S == [sup[j] EXCEPT !.pc = "confirm"]
  <2>1. S \in Supervisor /\ S.pc = "confirm"
    BY <1>0 DEF Supervisor, SupSteps
  <2>2. sup' = [sup EXCEPT ![j] = S] /\ os' = [os EXCEPT ![j] = Terminate(os[j])]
        /\ UNCHANGED <<events, requests, jobs, active, calls, stop>>
    BY <1>9 DEF LoopEnd, SupGo
  <2> HIDE DEF S
  <2> QED BY <1>0, <1>1, <1>3, <2>1, <2>2
<1> QED BY <1>4, <1>5, <1>6, <1>7, <1>8, <1>9 DEF LoopStep

\* A settlement, its notification and a supervisor that is lost.
LEMMA SettlementStep ==
  ASSUME BridgeIInv, NEW j \in Jobs, Settle(j) \/ Notify(j) \/ SupPanics(j)
  PROVE  BridgeIInv'
<1>0. /\ jobs[j] \in JobRecord /\ sup[j] \in Supervisor /\ os[j] \in ProcessTrees
      /\ JobFits(jobs[j], sup[j], os[j].live)
      /\ [jobs EXCEPT ![j] = jobs[j]] = jobs /\ [os EXCEPT ![j] = os[j]] = os
      /\ calls \in [Calls -> Call] /\ stop \in Shutdowns /\ events \in 0 .. MaxEvents
  BY OneJob
<1>1. CASE Settle(j)
  <2> DEFINE S == [sup[j] EXCEPT !.pc = "notify"]
             J == Settled(jobs[j], sup[j].status, sup[j].confirmed)
  <2>1. S \in Supervisor /\ S.pc = "notify" /\ S.confirmed = sup[j].confirmed
    BY <1>0 DEF Supervisor, SupSteps
  <2>2. J \in JobRecord /\ J.phase = "finished" /\ J.req = jobs[j].req /\ J.released = jobs[j].released
        /\ J.version = jobs[j].version /\ J.confirmed = sup[j].confirmed
    <3>1. sup[j].status \in Optional(Statuses) /\ sup[j].confirmed \in BOOLEAN
      BY <1>0 DEF Supervisor
    <3> QED BY <1>0, <3>1, SettledType
  <2>3. sup[j].pc = "settle" /\ sup' = [sup EXCEPT ![j] = S] /\ jobs' = [jobs EXCEPT ![j] = J]
        /\ UNCHANGED <<events, requests, active, os, calls, stop>>
    BY <1>1 DEF Settle, SupGo, SupAt
  <2> HIDE DEF S, J
  <2>4. JobFits(J, S, os[j].live) /\ ~Finished(j) /\ jobs[j].phase # "none"
    BY <1>0, <2>1, <2>2, <2>3 DEF JobFits, Finished
  <2> QED BY <1>0, <2>1, <2>2, <2>3, <2>4, StepKeeps
<1>2. CASE Notify(j)
  <2> DEFINE S == [NoSupervisor EXCEPT !.pc = "done"]
             J == Notified(jobs[j], sup[j].confirmed)
  <2>1. S \in Supervisor /\ S.pc = "done"
    BY DEF Supervisor, SupSteps, NoSupervisor, Optional
  <2>2. J \in JobRecord /\ J.phase = jobs[j].phase /\ J.req = jobs[j].req
        /\ (sup[j].confirmed => J.released) /\ (~sup[j].confirmed => J.released = jobs[j].released)
        /\ J.version = 1 /\ J.confirmed = jobs[j].confirmed
    <3>1. sup[j].confirmed \in BOOLEAN
      BY <1>0 DEF Supervisor
    <3> QED BY <1>0, <3>1, NotifiedType
  <2>3. sup[j].pc = "notify" /\ sup' = [sup EXCEPT ![j] = S] /\ jobs' = [jobs EXCEPT ![j] = J]
        /\ UNCHANGED <<events, requests, os, calls, stop>>
    BY <1>2 DEF Notify, SupAt
  <2>4. jobs[j].phase = "finished" /\ j \in Known
    BY <1>0, <2>3 DEF JobFits, Known
  <2>5. \/ J.released = jobs[j].released /\ active' = active
        \/ j \in Holders /\ J.released /\ active' = active - 1
    <3>1. CASE sup[j].confirmed /\ ~jobs[j].released
      <4>1. j \in Holders
        BY <2>4, <3>1 DEF Holders
      <4>2. active > 0
        BY <4>1, SlotHeld DEF BridgeIInv
      <4> QED BY <1>2, <2>2, <3>1, <4>1, <4>2 DEF Notify, ReleaseSlotFor, MayRelease
    <3>2. CASE ~(sup[j].confirmed /\ ~jobs[j].released)
      <4>1. active' = active
        BY <1>2, <3>2 DEF Notify, ReleaseSlotFor, MayRelease
      <4>2. J.released \in BOOLEAN /\ jobs[j].released \in BOOLEAN
        BY <1>0, <2>2 DEF JobRecord
      <4>3. J.released = jobs[j].released
        BY <2>2, <3>2, <4>2
      <4> QED BY <4>1, <4>3
    <3> QED BY <3>1, <3>2
  <2> HIDE DEF S, J
  <2>6. JobFits(J, S, os[j].live)
    BY <1>0, <2>1, <2>2, <2>3, <2>4 DEF JobFits
  <2>7. J \in JobRecord /\ J.phase = "finished" /\ J.req = jobs[j].req /\ S \in Supervisor
        /\ jobs[j].phase # "none" /\ os[j] \in ProcessTrees
    BY <1>0, <2>1, <2>2, <2>4
  <2>8. /\ sup' = [sup EXCEPT ![j] = S] /\ jobs' = [jobs EXCEPT ![j] = J] /\ os' = [os EXCEPT ![j] = os[j]]
        /\ requests' = requests /\ events' \in 0 .. MaxEvents /\ stop' = stop /\ stop' \in Shutdowns
        /\ calls' \in [Calls -> Call] /\ \A c \in Calls : calls'[c] = calls[c]
    BY <1>0, <2>3
  <2> QED BY <2>5, <2>6, <2>7, <2>8, StepKeeps
<1>3. CASE SupPanics(j)
  <2> DEFINE S == [sup[j] EXCEPT !.pc = "notify", !.confirmed = FALSE]
             J == Settled(jobs[j], "interrupted", FALSE)
             O == KillWorker(os[j])
  <2>1. S \in Supervisor /\ S.pc = "notify" /\ S.confirmed = FALSE
    BY <1>0 DEF Supervisor, SupSteps
  <2>2. J \in JobRecord /\ J.phase = "finished" /\ J.req = jobs[j].req /\ J.released = jobs[j].released
        /\ J.version = jobs[j].version /\ J.confirmed = FALSE
    <3>1. "interrupted" \in Optional(Statuses)
      BY DEF Optional, Statuses
    <3> QED BY <1>0, <3>1 DEF Settled, JobRecord
  <2>3. O \in ProcessTrees /\ O.live = os[j].live
    BY <1>0, TreeTypes
  <2>4. sup[j].pc \in Supervising /\ sup' = [sup EXCEPT ![j] = S] /\ jobs' = [jobs EXCEPT ![j] = J]
        /\ os' = [os EXCEPT ![j] = O] /\ Event /\ UNCHANGED <<requests, active, calls, stop>>
    BY <1>3 DEF SupPanics
  <2> HIDE DEF S, J, O
  <2>5. JobFits(J, S, O.live) /\ ~Finished(j) /\ jobs[j].phase # "none"
    BY <1>0, <2>1, <2>2, <2>3, <2>4 DEF JobFits, Finished, Supervising
  <2> QED BY <1>0, <2>1, <2>2, <2>3, <2>4, <2>5, EventBound, StepKeeps
<1> QED BY <1>1, <1>2, <1>3

\* The operating system: a process ends, or forks while one that is not killed lives.
LEMMA ProcessStep ==
  ASSUME BridgeIInv, NEW j \in Jobs, OsStep(j)
  PROVE  BridgeIInv'
<1>0. /\ jobs[j] \in JobRecord /\ sup[j] \in Supervisor /\ os[j] \in ProcessTrees
      /\ JobFits(jobs[j], sup[j], os[j].live)
      /\ [jobs EXCEPT ![j] = jobs[j]] = jobs /\ [sup EXCEPT ![j] = sup[j]] = sup
      /\ calls \in [Calls -> Call] /\ stop \in Shutdowns /\ events \in 0 .. MaxEvents
  BY OneJob
<1>1. PICK p \in Procs : ProcessDies(j, p) \/ ProcessExits(j, p) \/ ProcessForks(j, p)
  BY DEF OsStep
<1>2. UNCHANGED <<events, requests, jobs, active, sup, calls, stop>>
  BY <1>1 DEF ProcessDies, ProcessExits, ProcessForks
<1>3. ASSUME NEW O \in ProcessTrees, os' = [os EXCEPT ![j] = O], os[j].live = {} => O.live = {}
      PROVE  BridgeIInv'
  <2>1. JobFits(jobs[j], sup[j], O.live)
    BY <1>0, <1>3 DEF JobFits
  <2> QED BY <1>0, <1>2, <1>3, <2>1, StepKeeps DEF Finished
<1>4. ASSUME NEW outcome \in Outcomes, os' = [os EXCEPT ![j] = Exits(os[j], p, outcome)]
      PROVE  BridgeIInv'
  <2>1. Exits(os[j], p, outcome) \in ProcessTrees /\ Exits(os[j], p, outcome).live = os[j].live \ {p}
    BY <1>0, <1>1 DEF Exits, ProcessTrees, Optional
  <2> QED BY <1>3, <1>4, <2>1
<1>5. CASE ProcessForks(j, p)
  <2> DEFINE O == [os[j] EXCEPT !.live = @ \cup {p}]
  <2>1. O \in ProcessTrees /\ os[j].live # {} /\ os' = [os EXCEPT ![j] = O]
    BY <1>0, <1>5 DEF ProcessForks, ProcessTrees
  <2> HIDE DEF O
  <2> QED BY <1>3, <2>1
<1> QED BY <1>1, <1>4, <1>5 DEF ProcessDies, ProcessExits, Outcomes
-----------------------------------------------------------------------------
\* A call that only moves on itself.
LEMMA CallKeeps ==
  ASSUME BridgeIInv, NEW c \in Calls, NEW K \in Call, calls' = [calls EXCEPT ![c] = K],
         UNCHANGED <<requests, jobs, active, sup, os, stop>>, events' \in 0 .. MaxEvents,
         K.pc = "freeze" => K.req \in Requests,
         K.pc \notin {"idle", "freeze"} => K.job \in Known,
         K.pc = "check" /\ K.seen = 1 => Finished(K.job),
         K.pc \in {"arm", "blocked"} => K.seen = 0,
         K.pc \in {"poll", "release"} => Finished(K.job),
         K.pc = "release" => os[K.job].live = {}
  PROVE  BridgeIInv'
<1>1. \A d \in Calls : calls'[d] = IF d = c THEN K ELSE calls[d]
  BY DEF BridgeIInv, BrTypeOK
<1>2. BrTypeOK'
  BY DEF BridgeIInv, BrTypeOK
<1>3. Known' = Known /\ Holders' = Holders /\ \A j : Finished(j)' = Finished(j)
  BY DEF Known, Holders, Finished
<1>4. Registered' /\ Slots' /\ ShutdownOK' /\ JobsFit'
  BY <1>3 DEF BridgeIInv, Registered, Slots, ShutdownOK, JobsFit
<1>5. CallsOK'
  BY <1>1, <1>3 DEF BridgeIInv, CallsOK, CallOK
<1> QED BY <1>2, <1>4, <1>5 DEF BridgeIInv

\* A waiting call as it subscribes to a job.
LEMMA SubscribedType ==
  ASSUME NEW j \in Jobs, jobs[j] \in JobRecord
  PROVE  LET K == Subscribed(j)
         IN  K \in Call /\ K.pc = "check" /\ K.job = j /\ K.seen = jobs[j].version
<1>1. jobs[j].version \in 0 .. 1
  BY DEF JobRecord
<1> QED BY <1>1 DEF Subscribed, IdleCall, Call, CallSteps, Optional

\* The steps of a call that change no job.
LEMMA CallMoves ==
  ASSUME BridgeIInv, NEW c \in Calls,
         \/ \E r \in Requests : SubmitCheck(c, r)
         \/ FreezeFails(c) \/ SubmitBeaten(c)
         \/ \E j \in Jobs : WaitCall(c, j) \/ CancelCall(c, j)
         \/ WaitCheck(c) \/ WaitBlock(c) \/ WaitWake(c) \/ WaitTimeout(c)
         \/ RetryConfirmed(c) \/ RetryUnconfirmed(c)
  PROVE  BridgeIInv'
<1>0. /\ calls[c] \in Call /\ CallOK(c) /\ events \in 0 .. MaxEvents /\ Known \subseteq Jobs
      /\ \A j \in Jobs : jobs[j] \in JobRecord /\ (jobs[j].version = 1 => Finished(j))
  BY DEF BridgeIInv, BrTypeOK, CallsOK, JobsFit, JobFits, Finished, Known
<1>1. IdleCall \in Call /\ IdleCall.pc = "idle"
  BY DEF IdleCall, Call, CallSteps, Optional
<1>2. ASSUME Answer(c), UNCHANGED <<events, requests, jobs, active, sup, os, stop>> PROVE BridgeIInv'
  BY <1>0, <1>1, <1>2, CallKeeps DEF Answer
<1>3. ASSUME NEW pc \in CallSteps, Go(c, pc), calls[c].pc \notin {"idle", "freeze"},
             UNCHANGED <<events, requests, jobs, active, sup, os, stop>>, pc # "freeze",
             pc = "check" /\ calls[c].seen = 1 => Finished(calls[c].job),
             pc \in {"arm", "blocked"} => calls[c].seen = 0,
             pc \in {"poll", "release"} => Finished(calls[c].job),
             pc = "release" => os[calls[c].job].live = {}
      PROVE  BridgeIInv'
  <2> DEFINE K == [calls[c] EXCEPT !.pc = pc]
  <2>1. K \in Call /\ K.pc = pc /\ K.job = calls[c].job /\ K.seen = calls[c].seen
    BY <1>0, <1>3 DEF Call
  <2>2. calls' = [calls EXCEPT ![c] = K]
    BY <1>3 DEF Go
  <2>3. calls[c].job \in Known
    BY <1>0, <1>3 DEF CallOK
  <2> HIDE DEF K
  <2> QED BY <1>0, <1>3, <2>1, <2>2, <2>3, CallKeeps
<1>4. ASSUME NEW r \in Requests, SubmitCheck(c, r) PROVE BridgeIInv'
  <2> DEFINE K == [IdleCall EXCEPT !.pc = "freeze", !.req = r]
  <2>1. K \in Call /\ K.pc = "freeze" /\ K.req = r
    BY <1>1 DEF Call, CallSteps, Optional
  <2>2. calls' = [calls EXCEPT ![c] = K] /\ UNCHANGED <<events, requests, jobs, active, sup, os, stop>>
    BY <1>4 DEF SubmitCheck, Begin
  <2> HIDE DEF K
  <2> QED BY <1>0, <2>1, <2>2, CallKeeps
<1>5. ASSUME NEW j \in Jobs, WaitCall(c, j) PROVE BridgeIInv'
  <2> DEFINE K == Subscribed(j)
  <2>1. K \in Call /\ K.pc = "check" /\ K.job = j /\ K.seen = jobs[j].version
    BY <1>0, SubscribedType
  <2>2. calls' = [calls EXCEPT ![c] = K] /\ UNCHANGED <<requests, jobs, active, sup, os, stop>>
        /\ j \in Known /\ Event
    BY <1>5 DEF WaitCall, Query, Begin
  <2> HIDE DEF K
  <2> QED BY <1>0, <2>1, <2>2, EventBound, CallKeeps
<1>6. ASSUME NEW j \in Jobs, CancelCall(c, j) PROVE BridgeIInv'
  <2>1. PICK at \in {"poll", "cancel"} :
          /\ at = "poll" => Finished(j)
          /\ calls' = [calls EXCEPT ![c] = [IdleCall EXCEPT !.pc = at, !.job = j]]
    BY <1>6 DEF CancelCall, Query, Begin
  <2>2. UNCHANGED <<requests, jobs, active, sup, os, stop>> /\ j \in Known /\ Event
    BY <1>6 DEF CancelCall, Query
  <2> DEFINE K == [IdleCall EXCEPT !.pc = at, !.job = j]
  <2>3. K \in Call /\ K.pc = at /\ K.job = j
    BY <1>1 DEF Call, CallSteps, Optional
  <2>4. calls' = [calls EXCEPT ![c] = K]
    BY <2>1
  <2> HIDE DEF K
  <2> QED BY <1>0, <2>1, <2>2, <2>3, <2>4, EventBound, CallKeeps
<1>7. CASE WaitCheck(c)
  <2>1. calls[c].pc = "check" /\ UNCHANGED <<events, requests, jobs, active, sup, os, stop>>
    BY <1>7 DEF WaitCheck
  <2>2. CASE Finished(calls[c].job)
    BY <1>2, <1>7, <2>1, <2>2 DEF WaitCheck
  <2>3. CASE ~Finished(calls[c].job)
    <3>1. calls[c].seen = 0
      BY <1>0, <2>1, <2>3 DEF CallOK, Call
    <3> QED BY <1>3, <1>7, <2>1, <2>3, <3>1 DEF WaitCheck, CallSteps
  <2> QED BY <2>2, <2>3
<1>8. CASE WaitBlock(c)
  BY <1>0, <1>3, <1>8 DEF WaitBlock, WaitArm, CallOK, CallSteps
<1>9. CASE WaitWake(c)
  <2> DEFINE v == jobs[calls[c].job].version
             K == [calls[c] EXCEPT !.pc = "check", !.seen = v]
  <2>1. calls[c].job \in Known /\ v \in 0 .. 1 /\ (v = 1 => Finished(calls[c].job))
    BY <1>0, <1>9 DEF WaitWake, CallOK, JobRecord
  <2>2. calls' = [calls EXCEPT ![c] = K] /\ UNCHANGED <<events, requests, jobs, active, sup, os, stop>>
    BY <1>9 DEF WaitWake
  <2> HIDE DEF v
  <2>3. K \in Call /\ K.pc = "check" /\ K.job = calls[c].job /\ K.seen = v
    BY <1>0, <2>1 DEF Call, CallSteps
  <2> HIDE DEF K
  <2> QED BY <1>0, <2>1, <2>2, <2>3, CallKeeps
<1>10. CASE RetryConfirmed(c)
  BY <1>0, <1>3, <1>10 DEF RetryConfirmed, Confirmable, TreeAlive, CallOK, CallSteps
<1>11. CASE FreezeFails(c) \/ SubmitBeaten(c) \/ WaitTimeout(c) \/ RetryUnconfirmed(c)
  BY <1>2, <1>11 DEF FreezeFails, SubmitBeaten, WaitTimeout, RetryUnconfirmed
<1> QED BY <1>4, <1>5, <1>6, <1>7, <1>8, <1>9, <1>10, <1>11

\* The steps of a call that change its job.
LEMMA CallActs ==
  ASSUME BridgeIInv, NEW c \in Calls, CancelRequest(c) \/ RetryRelease(c)
  PROVE  BridgeIInv'
<1>0. /\ calls[c] \in Call /\ CallOK(c) /\ Known \subseteq Jobs
      /\ \A k \in Jobs : jobs[k].version = 1 => Finished(k)
  BY DEF BridgeIInv, BrTypeOK, CallsOK, JobsFit, JobFits, Finished, Known
<1>1. PICK j \in Known : j = calls[c].job /\ j \in Jobs
  BY <1>0 DEF CancelRequest, RetryRelease, CallOK
<1>2. /\ jobs[j] \in JobRecord /\ sup[j] \in Supervisor /\ os[j] \in ProcessTrees
      /\ JobFits(jobs[j], sup[j], os[j].live)
      /\ [jobs EXCEPT ![j] = jobs[j]] = jobs /\ [sup EXCEPT ![j] = sup[j]] = sup
      /\ [os EXCEPT ![j] = os[j]] = os
      /\ calls \in [Calls -> Call] /\ stop \in Shutdowns /\ events \in 0 .. MaxEvents
  BY <1>1, OneJob
<1>3. CASE CancelRequest(c)
  <2> DEFINE J == IF Finished(j) THEN jobs[j] ELSE Cancelled(jobs[j], "user")
             K == Subscribed(j)
  <2>1. J \in JobRecord /\ J.phase = jobs[j].phase /\ J.req = jobs[j].req /\ J.released = jobs[j].released
        /\ J.version = jobs[j].version /\ J.confirmed = jobs[j].confirmed
    <3>1. CASE Finished(j)
      BY <1>2, <3>1
    <3>2. CASE ~Finished(j)
      BY <1>2, <3>2, CancelledType DEF Reasons
    <3> QED BY <3>1, <3>2
  <2>2. K \in Call /\ K.pc = "check" /\ K.job = j /\ K.seen = jobs[j].version
    BY <1>1, <1>2, SubscribedType
  <2>3. /\ jobs' = [jobs EXCEPT ![j] = J] /\ calls' = [calls EXCEPT ![c] = K]
        /\ UNCHANGED <<events, requests, active, sup, os, stop>>
    BY <1>1, <1>3 DEF CancelRequest
  <2> HIDE DEF J, K
  <2>4. calls' \in [Calls -> Call] /\ calls'[c] = K /\ \A d \in Calls : d # c => calls'[d] = calls[d]
    BY <1>2, <2>2, <2>3
  <2>5. jobs'[j] = J /\ j \in Known'
    BY <1>1, <1>2, <2>1, <2>3 DEF BridgeIInv, BrTypeOK, Known
  <2>6. CallOK(c)'
    BY <1>0, <1>1, <2>1, <2>2, <2>4, <2>5 DEF CallOK, Finished
  <2>7. JobFits(J, sup[j], os[j].live)
    BY <1>2, <2>1 DEF JobFits
  <2>8. \A d \in Calls : calls'[d] = calls[d] \/ CallOK(d)'
    BY <2>4, <2>6
  <2>9. sup' = [sup EXCEPT ![j] = sup[j]] /\ UNCHANGED <<events, requests, active, os, stop>>
    BY <1>2, <2>3
  <2>10. jobs' = [jobs EXCEPT ![j] = J]
    BY <2>3
  <2> QED BY <1>1, <1>2, <2>1, <2>4, <2>7, <2>8, <2>9, <2>10, RecordKeeps
<1>4. CASE RetryRelease(c)
  <2> DEFINE J == [jobs[j] EXCEPT !.confirmed = TRUE, !.released = TRUE]
  <2>1. J \in JobRecord /\ J.phase = jobs[j].phase /\ J.req = jobs[j].req /\ J.released = TRUE
        /\ J.version = jobs[j].version
    BY <1>2 DEF JobRecord
  <2>2. /\ jobs' = [jobs EXCEPT ![j] = J] /\ calls' = [calls EXCEPT ![c] = IdleCall]
        /\ UNCHANGED <<events, requests, sup, os, stop>> /\ calls[c].pc = "release"
    BY <1>1, <1>4 DEF RetryRelease, Answer
  <2>3. Finished(j) /\ os[j].live = {}
    BY <1>0, <1>1, <2>2 DEF CallOK
  <2>4. \/ J.released = jobs[j].released /\ active' = active
        \/ j \in Holders /\ J.released /\ active' = active - 1
    <3>1. active' = IF ~jobs[j].released /\ active > 0 THEN active - 1 ELSE active
      BY <1>1, <1>4 DEF RetryRelease, ReleaseSlotFor, MayRelease
    <3>2. CASE jobs[j].released
      BY <1>2, <2>1, <3>1, <3>2 DEF JobRecord
    <3>3. CASE ~jobs[j].released
      <4>1. j \in Holders
        BY <1>1, <3>3 DEF Holders
      <4>2. active > 0
        BY <4>1, SlotHeld DEF BridgeIInv
      <4> QED BY <2>1, <3>1, <3>3, <4>1, <4>2
    <3> QED BY <3>2, <3>3
  <2> HIDE DEF J
  <2>5. calls' \in [Calls -> Call] /\ calls'[c] = IdleCall /\ \A d \in Calls : d # c => calls'[d] = calls[d]
    BY <1>2, <2>2 DEF IdleCall, Call, CallSteps, Optional
  <2>6. CallOK(c)'
    BY <2>5 DEF CallOK, IdleCall
  <2>7. JobFits(J, sup[j], os[j].live) /\ J.phase = "finished"
    BY <1>2, <2>1, <2>3 DEF JobFits, Finished
  <2>8. \A d \in Calls : calls'[d] = calls[d] \/ CallOK(d)'
    BY <2>5, <2>6
  <2>9. sup' = [sup EXCEPT ![j] = sup[j]] /\ os' = [os EXCEPT ![j] = os[j]]
    BY <1>2, <2>2
  <2>10. jobs[j].phase # "none"
    BY <2>3 DEF Finished
  <2> QED BY <1>1, <1>2, <2>1, <2>2, <2>3, <2>4, <2>5, <2>7, <2>8, <2>9, <2>10, StepKeeps
<1> QED BY <1>3, <1>4

\* A new job takes the next number and a free slot.
LEMMA InsertStep ==
  ASSUME BridgeIInv, NEW c \in Calls, SubmitInsert(c)
  PROVE  BridgeIInv'
<1> DEFINE n == Cardinality(Known)
           j == n + 1
           r == calls[c].req
           J == [NoJob EXCEPT !.phase = "accepted", !.req = r]
           S == [sup[j] EXCEPT !.pc = "start"]
<1>0. BrTypeOK /\ Registered /\ Slots /\ ShutdownOK /\ JobsFit /\ CallsOK
  BY DEF BridgeIInv
<1>1. r \in Requests /\ requests[r] = None
  BY <1>0 DEF SubmitInsert, CallsOK, CallOK, Unclaimed
<1>2. n \in Nat /\ n < MaxRetained /\ active < MaxActive /\ IsFiniteSet(Known)
  BY FiniteTables DEF SubmitInsert, CheckCapacity
<1>3. j \in Jobs /\ j \notin Known /\ Known = 1 .. n
  BY <1>0, <1>2, BridgeAssumption DEF Registered, Jobs
<1>4. jobs[j].phase = "none" /\ sup[j].pc = "none" /\ os[j].live = {} /\ sup[j] \in Supervisor
  BY <1>0, <1>3 DEF Known, JobsFit, JobFits, BrTypeOK
<1>5. J \in JobRecord /\ J.phase = "accepted" /\ J.req = r /\ ~J.released /\ J.version = 0
  <2>1. NoJob \in JobRecord /\ ~NoJob.released /\ NoJob.version = 0
    BY DEF NoJob, JobRecord, Optional
  <2> QED BY <1>1, <2>1 DEF JobRecord, Optional
<1>6. S \in Supervisor /\ S.pc = "start"
  BY <1>4 DEF Supervisor, SupSteps
<1>7. /\ requests' = [requests EXCEPT ![r] = j] /\ jobs' = [jobs EXCEPT ![j] = J]
      /\ sup' = [sup EXCEPT ![j] = S] /\ active' = active + 1
      /\ calls' = [calls EXCEPT ![c] = IdleCall] /\ UNCHANGED <<events, os, stop>> /\ stop.pc # "ended"
  BY DEF SubmitInsert, Answer, Up
<1>8. IdleCall \in Call /\ IdleCall.pc = "idle"
  BY DEF IdleCall, Call, CallSteps, Optional
<1> HIDE DEF n, j, r, J, S
<1>9. \A k \in Jobs : /\ jobs'[k] = IF k = j THEN J ELSE jobs[k]
                      /\ sup'[k] = IF k = j THEN S ELSE sup[k]
  BY <1>0, <1>7 DEF BrTypeOK
<1>10. Known' = Known \cup {j} /\ Holders' = Holders \cup {j} /\ Known \subseteq Jobs
  BY <1>3, <1>5, <1>9 DEF Known, Holders
<1>11. Cardinality(Known') = n + 1 /\ Cardinality(Holders') = Cardinality(Holders) + 1
  <2>1. j \notin Holders /\ IsFiniteSet(Holders)
    BY <1>3, FiniteTables DEF Holders
  <2> QED BY <1>2, <1>3, <1>10, <2>1, FS_AddElement DEF n
<1>12. BrTypeOK'
  <2>1. active' \in 0 .. MaxActive
    BY <1>0, <1>2, <1>7, BridgeAssumption DEF BrTypeOK
  <2>2. requests' \in [Requests -> Optional(Jobs)]
    BY <1>0, <1>1, <1>3, <1>7 DEF BrTypeOK, Optional
  <2>3. jobs' \in [Jobs -> JobRecord] /\ sup' \in [Jobs -> Supervisor]
    BY <1>0, <1>3, <1>5, <1>6, <1>7 DEF BrTypeOK
  <2>4. calls' \in [Calls -> Call]
    BY <1>0, <1>7, <1>8 DEF BrTypeOK
  <2> QED BY <1>0, <1>7, <2>1, <2>2, <2>3, <2>4 DEF BrTypeOK
<1>13. Registered'
  <2>1. Known' = 1 .. Cardinality(Known')
    <3>1. Known \cup {n + 1} = 1 .. (n + 1)
      BY <1>2, <1>3
    <3> QED BY <1>10, <1>11, <3>1 DEF j
  <2>2. ASSUME NEW k \in Known PROVE jobs'[k].req \in Requests /\ requests'[jobs'[k].req] = k
    <3>1. jobs'[k] = jobs[k] /\ jobs[k].req \in Requests /\ requests[jobs[k].req] = k /\ k \in Jobs
      BY <1>0, <1>3, <1>9, <1>10 DEF Registered
    <3>2. jobs[k].req # r
      BY <1>1, <3>1, BridgeAssumption DEF Jobs
    <3> QED BY <1>0, <1>7, <3>1, <3>2 DEF BrTypeOK
  <2>3. jobs'[j].req \in Requests /\ requests'[jobs'[j].req] = j
    BY <1>0, <1>1, <1>3, <1>5, <1>7, <1>9 DEF BrTypeOK
  <2> QED BY <1>10, <2>1, <2>2, <2>3 DEF Registered
<1>14. Slots'
  BY <1>0, <1>7, <1>11 DEF Slots
<1>15. ShutdownOK'
  BY <1>7 DEF ShutdownOK
<1>16. JobsFit'
  <2>1. JobFits(J, S, os[j].live)
    BY <1>4, <1>5, <1>6 DEF JobFits
  <2> QED BY <1>0, <1>7, <1>9, <2>1 DEF JobsFit
<1>17. ASSUME NEW d \in Calls PROVE CallOK(d)'
  <2>1. CASE d = c
    <3>1. calls'[d].pc = "idle"
      BY <1>0, <1>7, <1>8, <2>1 DEF BrTypeOK
    <3> QED BY <3>1 DEF CallOK
  <2>2. CASE d # c
    <3>1. calls'[d] = calls[d] /\ CallOK(d)
      BY <1>0, <1>7, <2>2 DEF BrTypeOK, CallsOK
    <3>2. \A k \in Known : k \in Known' /\ Finished(k)' = Finished(k)
      BY <1>3, <1>9, <1>10 DEF Finished
    <3> QED BY <1>7, <3>1, <3>2 DEF CallOK
  <2> QED BY <2>1, <2>2
<1> QED BY <1>12, <1>13, <1>14, <1>15, <1>16, <1>17 DEF BridgeIInv, CallsOK
-----------------------------------------------------------------------------
\* The shutdown: it cancels what it found, one job at a time, and ends the process.
LEMMA StopStep ==
  ASSUME BridgeIInv, ShutdownStep
  PROVE  BridgeIInv'
\* A step that moves the shutdown and touches one job at most.
<1>1. ASSUME NEW j \in Jobs, NEW J \in JobRecord, NEW O \in ProcessTrees,
             jobs' = [jobs EXCEPT ![j] = J], os' = [os EXCEPT ![j] = O],
             J.phase = jobs[j].phase, J.req = jobs[j].req, J.released = jobs[j].released,
             J.version = jobs[j].version, J.confirmed = jobs[j].confirmed, O.live = os[j].live,
             stop' \in Shutdowns, stop'.pc # "ended", events' \in 0 .. MaxEvents,
             UNCHANGED <<requests, active, sup, calls>>
      PROVE  BridgeIInv'
  <2>0. /\ sup[j] \in Supervisor /\ JobFits(jobs[j], sup[j], os[j].live)
        /\ sup' = [sup EXCEPT ![j] = sup[j]] /\ calls \in [Calls -> Call]
    BY <1>1, OneJob
  <2>1. JobFits(J, sup[j], O.live) /\ (Finished(j) => J.phase = "finished")
    BY <1>1, <2>0 DEF JobFits, Finished
  <2> QED BY <1>1, <2>0, <2>1, StepKeeps
<1>2. stop \in Shutdowns /\ events \in 0 .. MaxEvents /\ Known \subseteq Jobs
  BY DEF BridgeIInv, BrTypeOK, Known
\* A step that touches no job.
<1>3. ASSUME UNCHANGED <<requests, jobs, active, sup, os, calls>>, events' \in 0 .. MaxEvents,
             stop' \in Shutdowns, stop'.pc # "ended"
      PROVE  BridgeIInv'
  <2>1. /\ 1 \in Jobs /\ jobs[1] \in JobRecord /\ os[1] \in ProcessTrees
        /\ jobs = [jobs EXCEPT ![1] = jobs[1]] /\ os = [os EXCEPT ![1] = os[1]]
    BY FiniteTables, OneJob
  <2> QED BY <1>1, <1>3, <2>1
<1>4. CASE ShutdownBegin
  <2> DEFINE open == {j \in Known : ~Finished(j)}
  <2>1. stop' = [stop EXCEPT !.pc = "cancelling", !.snap = open, !.todo = open] /\ open \subseteq Jobs
    BY <1>2, <1>4 DEF ShutdownBegin
  <2> HIDE DEF open
  <2>2. stop' \in Shutdowns /\ stop'.pc # "ended"
    BY <1>2, <2>1 DEF Shutdowns
  <2> QED BY <1>3, <1>4, <2>2, EventBound DEF ShutdownBegin
<1>5. ASSUME NEW j \in Jobs, ShutdownCancel(j) PROVE BridgeIInv'
  <2> DEFINE J == IF Finished(j) THEN jobs[j] ELSE Cancelled(jobs[j], "shutdown")
             O == IF jobs[j].tree THEN Terminate(os[j]) ELSE os[j]
  <2>0. jobs[j] \in JobRecord /\ os[j] \in ProcessTrees
    BY OneJob
  <2>1. J \in JobRecord /\ J.phase = jobs[j].phase /\ J.req = jobs[j].req /\ J.released = jobs[j].released
        /\ J.version = jobs[j].version /\ J.confirmed = jobs[j].confirmed
    <3>1. CASE Finished(j)
      BY <2>0, <3>1
    <3>2. CASE ~Finished(j)
      BY <2>0, <3>2, CancelledType DEF Reasons
    <3> QED BY <3>1, <3>2
  <2>2. O \in ProcessTrees /\ O.live = os[j].live
    BY <2>0, TreeTypes
  <2>3. jobs' = [jobs EXCEPT ![j] = J] /\ os' = [os EXCEPT ![j] = O]
        /\ UNCHANGED <<events, requests, active, sup, calls>>
    BY <1>5 DEF ShutdownCancel
  <2>4. stop' \in Shutdowns /\ stop'.pc # "ended"
    BY <1>2, <1>5 DEF ShutdownCancel, Shutdowns
  <2> HIDE DEF J, O
  <2> QED BY <1>1, <1>2, <2>1, <2>2, <2>3, <2>4
<1>6. CASE ShutdownAwait
  <2>1. stop' \in Shutdowns /\ stop'.pc # "ended"
    BY <1>2, <1>6 DEF ShutdownAwait, Shutdowns
  <2> QED BY <1>2, <1>3, <1>6, <2>1 DEF ShutdownAwait
<1>7. CASE ProcessEnds
  <2>0. BrTypeOK /\ Registered /\ Slots /\ JobsFit
    BY DEF BridgeIInv
  <2>1. UNCHANGED <<events, requests, jobs, active>> /\ Known' = Known /\ Holders' = Holders
        /\ \A k : Finished(k)' = Finished(k)
    BY <1>7 DEF ProcessEnds, Known, Holders, Finished
  <2>2. os' \in [Jobs -> ProcessTrees] /\ \A k \in Jobs : os'[k].live = os[k].live
    BY <1>7, <2>0, TreeTypes DEF ProcessEnds, BrTypeOK
  <2>3. sup' \in [Jobs -> Supervisor] /\ \A k \in Jobs : sup'[k].pc = "none"
    BY <1>7 DEF ProcessEnds, NoSupervisor, Supervisor, SupSteps, Optional
  <2>4. calls' \in [Calls -> Call] /\ \A c \in Calls : calls'[c].pc = "idle"
    BY <1>7 DEF ProcessEnds, IdleCall, Call, CallSteps, Optional
  <2>5. stop' \in Shutdowns /\ stop'.snap = stop.snap /\ (~stop'.late => \A k \in stop.snap : Finished(k))
    BY <1>2, <1>7 DEF ProcessEnds, ShutdownSettled, Shutdowns
  <2>6. BrTypeOK'
    BY <2>0, <2>1, <2>2, <2>3, <2>4, <2>5 DEF BrTypeOK
  <2>7. Registered' /\ Slots' /\ ShutdownOK'
    BY <2>0, <2>1, <2>5 DEF Registered, Slots, ShutdownOK
  <2>8. JobsFit'
    BY <2>0, <2>1, <2>2, <2>3 DEF JobsFit, JobFits
  <2>9. CallsOK'
    BY <2>4 DEF CallsOK, CallOK
  <2> QED BY <2>6, <2>7, <2>8, <2>9 DEF BridgeIInv
<1> QED BY <1>4, <1>5, <1>6, <1>7 DEF ShutdownStep
-----------------------------------------------------------------------------
LEMMA BridgeStarts == BrInit => BridgeIInv
<1> SUFFICES ASSUME BrInit PROVE BridgeIInv
  OBVIOUS
<1>1. BrTypeOK
  <2>1. NoJob \in JobRecord /\ NoSupervisor \in Supervisor /\ IdleCall \in Call
    BY DEF NoJob, JobRecord, NoSupervisor, Supervisor, SupSteps, IdleCall, Call, CallSteps, Optional
  <2>2. stop \in Shutdowns /\ os \in [Jobs -> ProcessTrees]
    BY DEF BrInit, Shutdowns, ProcessTrees, Optional
  <2>3. active \in 0 .. MaxActive /\ events \in 0 .. MaxEvents
    BY BridgeAssumption DEF BrInit
  <2> QED BY <2>1, <2>2, <2>3 DEF BrInit, BrTypeOK, Optional
<1>2. Known = {} /\ Holders = {}
  BY DEF BrInit, Known, Holders, NoJob
<1>3. Registered /\ Slots
  BY <1>2, FS_EmptySet DEF Registered, Slots, BrInit
<1>4. ShutdownOK /\ JobsFit /\ CallsOK
  BY DEF BrInit, ShutdownOK, JobsFit, JobFits, CallsOK, CallOK, NoJob, NoSupervisor, IdleCall
<1> QED BY <1>1, <1>3, <1>4 DEF BridgeIInv

LEMMA BridgeInductive ==
  ASSUME BridgeIInv, [BrNext]_brVars
  PROVE  BridgeIInv'
<1>1. CASE UNCHANGED brVars
  <2>1. BrTypeOK' /\ Known' = Known /\ Holders' = Holders /\ \A k : Finished(k)' = Finished(k)
    BY <1>1 DEF BridgeIInv, BrTypeOK, brVars, Known, Holders, Finished
  <2>2. Registered' /\ Slots' /\ ShutdownOK' /\ JobsFit' /\ CallsOK'
    BY <1>1, <2>1 DEF BridgeIInv, brVars, Registered, Slots, ShutdownOK, JobsFit, CallsOK, CallOK
  <2> QED BY <2>1, <2>2 DEF BridgeIInv
<1>2. ASSUME NEW c \in Calls, CallStep(c) PROVE BridgeIInv'
  BY <1>2, CallMoves, CallActs, InsertStep DEF CallStep
<1>3. ASSUME NEW j \in Jobs, SupStep(j) \/ SupPanics(j) \/ OsStep(j) PROVE BridgeIInv'
  BY <1>3, SupervisorStep, SelectStep, SettlementStep, ProcessStep DEF SupStep
<1> QED BY <1>1, <1>2, <1>3, StopStep DEF BrNext

\* Whatever calls, supervisors, processes and a shutdown do at the same time, the registry
\* keeps one job per request, live process trees within the slots in use and those within
\* max_active_jobs, no live process behind a confirmed cleanup, no waiter that sleeps through
\* a settlement, and a shutdown that accounts for the jobs it found (jobs.rs, supervisor.rs).
THEOREM RegistryKept == BrSpec => []BridgeInv
<1>1. BridgeIInv => BridgeInv
  <2> SUFFICES ASSUME BridgeIInv PROVE BridgeInv
    OBVIOUS
  <2>0. BrTypeOK /\ Registered /\ Slots /\ ShutdownOK /\ JobsFit /\ CallsOK
    BY DEF BridgeIInv
  <2>1. OneJobPerRequest
    BY <2>0 DEF Registered, OneJobPerRequest
  <2>2. ConfirmedMeansGone
    BY <2>0 DEF ConfirmedMeansGone, JobsFit, JobFits, Finished, TreeAlive
  <2>3. WorkersWithinLimit
    <3> DEFINE LiveJobs == {j \in Jobs : TreeAlive(j)}
    <3>1. LiveJobs \subseteq Holders
      BY <2>0 DEF JobsFit, JobFits, Known, Holders, TreeAlive
    <3>2. Cardinality(LiveJobs) <= Cardinality(Holders)
      BY <3>1, FiniteTables, FS_Subset
    <3> QED BY <2>0, <3>2 DEF Slots, BrTypeOK, WorkersWithinLimit
  <2>4. NoLostWakeup
    BY <2>0 DEF NoLostWakeup, CallsOK, CallOK
  <2>5. ShutdownAccounts
    BY <2>0, <2>2 DEF ShutdownAccounts, ShutdownOK, ConfirmedMeansGone, BrTypeOK, Shutdowns
  <2> QED BY <2>0, <2>1, <2>2, <2>3, <2>4, <2>5 DEF BridgeInv
<1> QED BY <1>1, BridgeStarts, BridgeInductive, PTL DEF BrSpec
-----------------------------------------------------------------------------
\* What a supervisor that is about to settle says of its job: "timed out" only without a
\* native success, "completed" only with one, "cancelled" only for a user's cancellation.
\* Before the worker runs there is no native result.
Told(reason, s) ==
  /\ s.pc \in {"none", "start", "plan", "spawn", "attach", "reap", "done"} => s.native = None
  /\ s.pc = "settle" => /\ s.status = "timed_out" => s.native # "completed"
                        /\ s.status = "completed" => s.native = "completed"
                        /\ s.status = "cancelled" => reason = "user"
ResultsTold == \A j \in Jobs : Told(jobs[j].reason, sup[j])

\* A step of one job.
LEMMA TellKeeps ==
  ASSUME BrTypeOK, ResultsTold, NEW j \in Jobs, NEW J, NEW S, jobs' = [jobs EXCEPT ![j] = J],
         sup' = [sup EXCEPT ![j] = S], Told(J.reason, S)
  PROVE  ResultsTold'
BY DEF BrTypeOK, ResultsTold

\* What a cancellation of a job, and the status drawn from it, keep.
LEMMA ReasonKept ==
  /\ \A job \in JobRecord : \A r \in Reasons : job.reason = "user" => Cancelled(job, r).reason = "user"
  /\ \A r : CancelStatus(r) # "completed" /\ (CancelStatus(r) = "cancelled" => r = "user")
  /\ \A s \in Supervisor : \A r :
       /\ TerminalStatus(s, r) = "timed_out" => s.native # "completed"
       /\ TerminalStatus(s, r) = "completed" => s.native = "completed"
       /\ TerminalStatus(s, r) = "cancelled" => r = "user"
<1>1. \A job \in JobRecord : \A r \in Reasons : job.reason = "user" => Cancelled(job, r).reason = "user"
  BY BridgeAssumption DEF Cancelled, JobRecord, Reasons
<1>2. \A r : CancelStatus(r) # "completed" /\ (CancelStatus(r) = "cancelled" => r = "user")
  BY DEF CancelStatus
<1>3. ASSUME NEW s \in Supervisor, NEW r
      PROVE  /\ TerminalStatus(s, r) = "timed_out" => s.native # "completed"
             /\ TerminalStatus(s, r) = "completed" => s.native = "completed"
             /\ TerminalStatus(s, r) = "cancelled" => r = "user"
  <2>1. s.native \in {"completed", "failed"} \/ s.native = None
    BY DEF Supervisor, Optional, Outcomes
  <2>2. None \notin {"completed", "cancelled", "timed_out"}
    BY BridgeAssumption DEF Statuses, Outcomes
  <2> QED BY <2>1, <2>2 DEF TerminalStatus, CancelStatus
<1> QED BY <1>1, <1>2, <1>3

\* The steps of a supervisor.
LEMMA SupervisorTells ==
  ASSUME BrTypeOK, ResultsTold, NEW j \in Jobs, SupStep(j) \/ SupPanics(j)
  PROVE  ResultsTold'
<1>0. /\ jobs[j] \in JobRecord /\ sup[j] \in Supervisor /\ Told(jobs[j].reason, sup[j])
      /\ [jobs EXCEPT ![j] = jobs[j]] = jobs
      /\ None # "completed"
  BY BridgeAssumption DEF BrTypeOK, ResultsTold, Statuses, Outcomes
\* Settling with a status that fits.
<1>1. ASSUME NEW st, NEW b, SupSettleAs(j, st, b), jobs' = jobs,
             st = "timed_out" => sup[j].native # "completed",
             st = "completed" => sup[j].native = "completed",
             st = "cancelled" => jobs[j].reason = "user"
      PROVE  ResultsTold'
  <2> DEFINE S == [sup[j] EXCEPT !.pc = "settle", !.status = st, !.confirmed = b]
  <2>1. sup' = [sup EXCEPT ![j] = S]
    BY <1>1 DEF SupSettleAs
  <2>2. S.pc = "settle" /\ S.status = st /\ S.native = sup[j].native
    BY <1>0 DEF Supervisor
  <2> HIDE DEF S
  <2>3. Told(jobs[j].reason, S)
    BY <1>1, <2>2 DEF Told
  <2> QED BY <1>0, <1>1, <2>1, <2>3, TellKeeps
\* Any other step: what is native is known only from the loop on.
<1>2. ASSUME NEW J \in JobRecord, NEW S \in Supervisor, jobs' = [jobs EXCEPT ![j] = J],
             sup' = [sup EXCEPT ![j] = S], S.pc # "settle",
             S.pc \in {"none", "start", "plan", "spawn", "attach", "reap", "done"} => S.native = None
      PROVE  ResultsTold'
  BY <1>2, TellKeeps DEF Told
<1>3. CASE SupStart(j) \/ SupPlan(j)
  <2>1. sup[j].pc \in {"start", "plan"} /\ sup[j].native = None
    BY <1>0, <1>3 DEF SupStart, SupPlan, SupAt, Told
  <2>2. CASE jobs[j].cancel
    BY <1>0, <1>1, <1>3, <2>1, <2>2, ReasonKept DEF SupStart, SupPlan, SupOnly
  <2>3. CASE ~jobs[j].cancel
    <3>1. PICK pc \in {"plan", "spawn"} : sup' = [sup EXCEPT ![j] = [sup[j] EXCEPT !.pc = pc]]
      BY <1>3, <2>3 DEF SupStart, SupPlan, SupGo
    <3> DEFINE S == [sup[j] EXCEPT !.pc = pc]
               J == [jobs[j] EXCEPT !.phase = "running"]
    <3>2. S \in Supervisor /\ S.pc = pc /\ S.native = sup[j].native
      BY <1>0 DEF Supervisor, SupSteps
    <3>3. J \in JobRecord
      BY <1>0 DEF JobRecord
    <3>4. jobs' = [jobs EXCEPT ![j] = J] \/ jobs' = [jobs EXCEPT ![j] = jobs[j]]
      BY <1>0, <1>3, <2>3 DEF SupStart, SupPlan, SupOnly
    <3> HIDE DEF S, J
    <3> QED BY <1>0, <1>2, <2>1, <3>1, <3>2, <3>3, <3>4 DEF S
  <2> QED BY <2>2, <2>3
<1>4. CASE SupPlanFails(j) \/ SupSpawnFails(j) \/ SupReaped(j)
  BY <1>1, <1>4 DEF SupPlanFails, SupSpawnFails, SupReaped, SupOnly
<1>5. CASE SupSpawn(j) \/ SupAttachFails(j)
  <2>1. PICK pc \in {"attach", "reap"} : sup' = [sup EXCEPT ![j] = [sup[j] EXCEPT !.pc = pc]]
    BY <1>5 DEF SupSpawn, SupAttachFails, SupGo
  <2>2. sup[j].native = None /\ jobs' = jobs
    BY <1>0, <1>5 DEF SupSpawn, SupAttachFails, SupAt, Told
  <2> DEFINE S == [sup[j] EXCEPT !.pc = pc]
  <2>3. S \in Supervisor /\ S.pc = pc /\ S.native = sup[j].native
    BY <1>0 DEF Supervisor, SupSteps
  <2> HIDE DEF S
  <2> QED BY <1>0, <1>2, <2>1, <2>2, <2>3 DEF S
<1>6. CASE SupAttach(j)
  <2> DEFINE S == [sup[j] EXCEPT !.pc = "loop", !.open = TRUE]
             J == [jobs[j] EXCEPT !.tree = TRUE]
  <2>1. S \in Supervisor /\ S.pc = "loop" /\ sup' = [sup EXCEPT ![j] = S]
    BY <1>0, <1>6 DEF SupAttach, Supervisor, SupSteps
  <2>2. J \in JobRecord /\ jobs' = [jobs EXCEPT ![j] = J]
    BY <1>0, <1>6 DEF SupAttach, JobRecord
  <2> HIDE DEF S, J
  <2> QED BY <1>2, <2>1, <2>2
<1>7. CASE LoopStep(j)
  <2>1. PICK S \in Supervisor : sup' = [sup EXCEPT ![j] = S] /\ S.pc \in {"loop", "confirm"}
    <3>0. os[j].outcome \in Optional(Outcomes) /\ "failed" \in Optional(Outcomes)
      BY DEF BrTypeOK, ProcessTrees, Optional, Outcomes
    <3>1. CASE LoopExit(j)
      <4>1. [sup[j] EXCEPT !.exit = TRUE, !.native = os[j].outcome] \in Supervisor
        BY <1>0, <3>0, <3>1 DEF Supervisor, SupSteps
      <4>2. sup' = [sup EXCEPT ![j] = [sup[j] EXCEPT !.exit = TRUE, !.native = os[j].outcome]]
        BY <3>1 DEF LoopExit
      <4> QED BY <1>0, <3>0, <3>1, <4>1, <4>2 DEF LoopExit, SupAt, Supervisor
    <3>2. CASE LoopWaitFails(j)
      <4>1. [sup[j] EXCEPT !.pc = "confirm", !.native = "failed"] \in Supervisor
        BY <1>0, <3>0, <3>2 DEF Supervisor, SupSteps
      <4>2. sup' = [sup EXCEPT ![j] = [sup[j] EXCEPT !.pc = "confirm", !.native = "failed"]]
        BY <3>2 DEF LoopWaitFails
      <4> QED BY <1>0, <3>0, <3>2, <4>1, <4>2 DEF LoopWaitFails, SupAt, Supervisor
    <3>3. CASE LoopCancel(j)
      <4>1. [sup[j] EXCEPT !.seen = TRUE] \in Supervisor
        BY <1>0, <3>3 DEF Supervisor, SupSteps
      <4>2. sup' = [sup EXCEPT ![j] = [sup[j] EXCEPT !.seen = TRUE]]
        BY <3>3 DEF LoopCancel
      <4> QED BY <1>0, <3>3, <4>1, <4>2 DEF LoopCancel, SupAt, Supervisor
    <3>4. CASE LoopDeadline(j)
      <4>1. [sup[j] EXCEPT !.fired = TRUE] \in Supervisor
        BY <1>0, <3>4 DEF Supervisor, SupSteps
      <4>2. sup' = [sup EXCEPT ![j] = [sup[j] EXCEPT !.fired = TRUE]]
        BY <3>4 DEF LoopDeadline
      <4> QED BY <1>0, <3>4, <4>1, <4>2 DEF LoopDeadline, SupAt, Supervisor
    <3>5. CASE LoopStreamsClose(j)
      <4>1. [sup[j] EXCEPT !.open = FALSE] \in Supervisor
        BY <1>0, <3>5 DEF Supervisor, SupSteps
      <4>2. sup' = [sup EXCEPT ![j] = [sup[j] EXCEPT !.open = FALSE]]
        BY <3>5 DEF LoopStreamsClose
      <4> QED BY <1>0, <3>5, <4>1, <4>2 DEF LoopStreamsClose, SupAt, Supervisor
    <3>6. CASE LoopEnd(j)
      <4>1. [sup[j] EXCEPT !.pc = "confirm"] \in Supervisor
        BY <1>0, <3>6 DEF Supervisor, SupSteps
      <4>2. sup' = [sup EXCEPT ![j] = [sup[j] EXCEPT !.pc = "confirm"]]
        BY <3>6 DEF LoopEnd, SupGo
      <4> QED BY <1>0, <3>6, <4>1, <4>2 DEF LoopEnd, SupAt, SupGo, Supervisor, SupSteps
    <3> QED BY <1>7, <3>1, <3>2, <3>3, <3>4, <3>5, <3>6 DEF LoopStep
  <2>2. jobs' = [jobs EXCEPT ![j] = jobs[j]] \/ jobs' = [jobs EXCEPT ![j] = Cancelled(jobs[j], "deadline")]
    BY <1>0, <1>7 DEF LoopStep, LoopExit, LoopWaitFails, LoopCancel, LoopDeadline, LoopStreamsClose,
                      LoopEnd, SupOnly
  <2>3. Cancelled(jobs[j], "deadline") \in JobRecord
    BY <1>0, CancelledType DEF Reasons
  <2> QED BY <1>0, <1>2, <2>1, <2>2, <2>3
<1>8. CASE Confirm(j)
  BY <1>0, <1>1, <1>8, ReasonKept DEF Confirm, SupOnly
<1>9. CASE Settle(j) \/ SupPanics(j)
  <2>1. PICK S \in Supervisor : sup' = [sup EXCEPT ![j] = S] /\ S.pc = "notify"
    <3>1. CASE Settle(j)
      <4>1. [sup[j] EXCEPT !.pc = "notify"] \in Supervisor
        BY <1>0, <3>1 DEF Supervisor, SupSteps
      <4>2. sup' = [sup EXCEPT ![j] = [sup[j] EXCEPT !.pc = "notify"]]
        BY <3>1 DEF Settle, SupGo
      <4> QED BY <1>0, <3>1, <4>1, <4>2 DEF Settle, SupGo, Supervisor, SupSteps
    <3>2. CASE SupPanics(j)
      <4>1. [sup[j] EXCEPT !.pc = "notify", !.confirmed = FALSE] \in Supervisor
        BY <1>0, <3>2 DEF Supervisor, SupSteps
      <4>2. sup' = [sup EXCEPT ![j] = [sup[j] EXCEPT !.pc = "notify", !.confirmed = FALSE]]
        BY <3>2 DEF SupPanics
      <4> QED BY <1>0, <3>2, <4>1, <4>2 DEF SupPanics, Supervisor, SupSteps
    <3> QED BY <1>9, <3>1, <3>2
  <2>2. PICK J : jobs' = [jobs EXCEPT ![j] = J]
    BY <1>9 DEF Settle, SupPanics
  <2> QED BY <2>1, <2>2, TellKeeps DEF Told
<1>10. CASE Notify(j)
  <2> DEFINE S == [NoSupervisor EXCEPT !.pc = "done"]
             J == Notified(jobs[j], sup[j].confirmed)
  <2>1. S.pc = "done" /\ S.native = None
    BY DEF NoSupervisor
  <2>2. sup' = [sup EXCEPT ![j] = S] /\ jobs' = [jobs EXCEPT ![j] = J]
    BY <1>10 DEF Notify
  <2> HIDE DEF S, J
  <2> QED BY <2>1, <2>2, TellKeeps DEF Told
<1> QED BY <1>3, <1>4, <1>5, <1>6, <1>7, <1>8, <1>9, <1>10 DEF SupStep

\* Every step.
LEMMA ResultsInductive ==
  ASSUME BridgeIInv, BrTypeOK, ResultsTold, [BrNext]_brVars
  PROVE  ResultsTold'
<1>1. ASSUME UNCHANGED <<jobs, sup>> PROVE ResultsTold'
  BY <1>1 DEF ResultsTold
\* Nobody but a supervisor moves it, and a reason once given stays.
<1>2. ASSUME NEW j \in Jobs, NEW J, jobs' = [jobs EXCEPT ![j] = J], sup' = sup,
             jobs[j].reason = "user" => J.reason = "user"
      PROVE  ResultsTold'
  <2>1. Told(J.reason, sup[j]) /\ sup' = [sup EXCEPT ![j] = sup[j]]
    BY <1>2 DEF BrTypeOK, ResultsTold, Told
  <2> QED BY <1>2, <2>1, TellKeeps
<1>3. \A j \in Jobs : jobs[j] \in JobRecord
  BY DEF BrTypeOK
<1>4. ASSUME NEW c \in Calls, CallStep(c) PROVE ResultsTold'
  <2>0. calls[c].pc \notin {"idle", "freeze"} => calls[c].job \in Jobs
    BY <1>4 DEF BridgeIInv, CallsOK, CallOK, Known
  <2>1. CASE SubmitInsert(c)
    <3>1. PICK j \in Jobs : sup' = [sup EXCEPT ![j].pc = "start"] /\ sup[j].pc = "none"
                            /\ \E J : jobs' = [jobs EXCEPT ![j] = J]
      <4>1. Cardinality(Known) \in Nat /\ Known = 1 .. Cardinality(Known)
        BY <1>4, FiniteTables DEF BridgeIInv, Registered
      <4>2. Cardinality(Known) + 1 \in Jobs /\ Cardinality(Known) + 1 \notin Known
        BY <2>1, <4>1, BridgeAssumption DEF SubmitInsert, CheckCapacity, Jobs
      <4>3. sup[Cardinality(Known) + 1].pc = "none"
        BY <1>4, <4>2 DEF BridgeIInv, JobsFit, JobFits, Known
      <4> QED BY <2>1, <4>2, <4>3 DEF SubmitInsert
    <3>2. PICK J : jobs' = [jobs EXCEPT ![j] = J]
      BY <3>1
    <3> DEFINE S == [sup[j] EXCEPT !.pc = "start"]
    <3>3. S.pc = "start" /\ S.native = None /\ sup' = [sup EXCEPT ![j] = S]
      BY <3>1 DEF BrTypeOK, ResultsTold, Told, Supervisor
    <3> HIDE DEF S
    <3> QED BY <3>2, <3>3, TellKeeps DEF Told
  <2>2. CASE CancelRequest(c)
    <3> DEFINE j == calls[c].job
               J == IF Finished(j) THEN jobs[j] ELSE Cancelled(jobs[j], "user")
    <3>1. j \in Jobs /\ jobs' = [jobs EXCEPT ![j] = J] /\ sup' = sup
      BY <2>0, <2>2 DEF CancelRequest
    <3>2. jobs[j].reason = "user" => J.reason = "user"
      BY <1>3, <3>1, ReasonKept DEF Reasons
    <3> HIDE DEF j, J
    <3> QED BY <1>2, <3>1, <3>2
  <2>3. CASE RetryRelease(c)
    <3> DEFINE j == calls[c].job
               J == [jobs[j] EXCEPT !.confirmed = TRUE, !.released = TRUE]
    <3>1. j \in Jobs /\ jobs' = [jobs EXCEPT ![j] = J] /\ sup' = sup
      BY <2>0, <2>3 DEF RetryRelease
    <3>2. J.reason = jobs[j].reason
      BY <1>3, <3>1 DEF JobRecord
    <3> HIDE DEF j, J
    <3> QED BY <1>2, <3>1, <3>2
  <2>4. CASE ~(SubmitInsert(c) \/ CancelRequest(c) \/ RetryRelease(c))
    BY <1>1, <1>4, <2>4 DEF CallStep, SubmitCheck, FreezeFails, SubmitBeaten, WaitCall, CancelCall, WaitCheck,
                            WaitBlock, WaitWake, WaitTimeout, RetryConfirmed, RetryUnconfirmed
  <2> QED BY <2>1, <2>2, <2>3, <2>4
<1>5. ASSUME NEW j \in Jobs, ShutdownCancel(j) PROVE ResultsTold'
  <2> DEFINE J == IF Finished(j) THEN jobs[j] ELSE Cancelled(jobs[j], "shutdown")
  <2>1. jobs' = [jobs EXCEPT ![j] = J] /\ sup' = sup
    BY <1>5 DEF ShutdownCancel
  <2>2. jobs[j].reason = "user" => J.reason = "user"
    BY <1>3, ReasonKept DEF Reasons
  <2> HIDE DEF J
  <2> QED BY <1>2, <2>1, <2>2
<1>6. CASE ProcessEnds
  <2>1. \A j \in Jobs : sup'[j].pc = "none" /\ sup'[j].native = None
    BY <1>6 DEF ProcessEnds, NoSupervisor
  <2> QED BY <2>1 DEF ResultsTold, Told
<1>7. CASE ShutdownBegin \/ ShutdownAwait \/ UNCHANGED brVars
  BY <1>1, <1>7 DEF ShutdownBegin, ShutdownAwait, brVars
<1>8. ASSUME NEW j \in Jobs, OsStep(j) PROVE ResultsTold'
  BY <1>1, <1>8 DEF OsStep, ProcessDies, ProcessExits, ProcessForks
<1> QED BY <1>4, <1>5, <1>6, <1>7, <1>8, SupervisorTells DEF BrNext, ShutdownStep

\* A job is finished by its own supervisor only.
LEMMA OnlySupervisorSettles ==
  ASSUME BridgeIInv, BrNext, NEW j \in Jobs, Finished(j)', ~Finished(j)
  PROVE  Settle(j) \/ SupPanics(j)
<1>0. \A k \in Jobs : jobs[k] \in JobRecord
  BY DEF BridgeIInv, BrTypeOK
<1>1. ASSUME NEW k, NEW J, jobs' = [jobs EXCEPT ![k] = J],
             J.phase = "finished" => jobs[k].phase = "finished"
      PROVE  FALSE
  BY <1>1 DEF BridgeIInv, BrTypeOK, Finished
<1>2. jobs' # jobs
  BY DEF Finished
<1>3. ASSUME NEW c \in Calls, CallStep(c) PROVE FALSE
  <2>0. calls[c].pc \notin {"idle", "freeze"} => calls[c].job \in Jobs
    BY DEF BridgeIInv, CallsOK, CallOK, Known
  <2>1. CASE SubmitInsert(c)
    <3> DEFINE J == [NoJob EXCEPT !.phase = "accepted", !.req = calls[c].req]
    <3>1. J.phase = "accepted"
      BY DEF NoJob
    <3>2. jobs' = [jobs EXCEPT ![Cardinality(Known) + 1] = J]
      BY <2>1 DEF SubmitInsert
    <3> HIDE DEF J
    <3> QED BY <1>1, <3>1, <3>2
  <2>2. CASE CancelRequest(c)
    <3> DEFINE k == calls[c].job
               J == IF Finished(k) THEN jobs[k] ELSE Cancelled(jobs[k], "user")
    <3>1. k \in Jobs /\ jobs' = [jobs EXCEPT ![k] = J]
      BY <2>0, <2>2 DEF CancelRequest
    <3>2. J.phase = jobs[k].phase
      BY <1>0, <3>1, CancelledType DEF Reasons
    <3> HIDE DEF k, J
    <3> QED BY <1>1, <3>1, <3>2
  <2>3. CASE RetryRelease(c)
    <3> DEFINE k == calls[c].job
               J == [jobs[k] EXCEPT !.confirmed = TRUE, !.released = TRUE]
    <3>1. k \in Jobs /\ jobs' = [jobs EXCEPT ![k] = J]
      BY <2>0, <2>3 DEF RetryRelease
    <3>2. J.phase = jobs[k].phase
      BY <1>0, <3>1 DEF JobRecord
    <3> HIDE DEF k, J
    <3> QED BY <1>1, <3>1, <3>2
  <2>4. CASE ~(SubmitInsert(c) \/ CancelRequest(c) \/ RetryRelease(c))
    BY <1>2, <1>3, <2>4 DEF CallStep, SubmitCheck, FreezeFails, SubmitBeaten, WaitCall, CancelCall, WaitCheck,
                            WaitBlock, WaitWake, WaitTimeout, RetryConfirmed, RetryUnconfirmed
  <2> QED BY <2>1, <2>2, <2>3, <2>4
<1>4. ASSUME NEW k \in Jobs, SupStep(k) \/ SupPanics(k) \/ OsStep(k)
      PROVE  k = j /\ (Settle(j) \/ SupPanics(j))
  <2>1. CASE Settle(k) \/ SupPanics(k)
    <3>1. PICK J : jobs' = [jobs EXCEPT ![k] = J]
      BY <2>1 DEF Settle, SupPanics
    <3>2. k = j
      BY <3>1 DEF BridgeIInv, BrTypeOK, Finished
    <3> QED BY <2>1, <3>2
  <2>2. CASE Notify(k)
    <3>1. Notified(jobs[k], sup[k].confirmed).phase = jobs[k].phase
      <4>1. sup[k].confirmed \in BOOLEAN
        BY OneJob DEF Supervisor
      <4> QED BY <1>0, <4>1, NotifiedType
    <3>2. jobs' = [jobs EXCEPT ![k] = Notified(jobs[k], sup[k].confirmed)]
      BY <2>2 DEF Notify
    <3> QED BY <1>1, <3>1, <3>2
  <2>3. CASE SupStart(k)
    <3> DEFINE J == [jobs[k] EXCEPT !.phase = "running"]
    <3>1. J.phase = "running" /\ (jobs' = jobs \/ jobs' = [jobs EXCEPT ![k] = J])
      BY <1>0, <2>3 DEF SupStart, JobRecord
    <3> HIDE DEF J
    <3> QED BY <1>1, <1>2, <3>1
  <2>4. CASE SupAttach(k)
    <3> DEFINE J == [jobs[k] EXCEPT !.tree = TRUE]
    <3>1. J.phase = jobs[k].phase /\ jobs' = [jobs EXCEPT ![k] = J]
      BY <1>0, <2>4 DEF SupAttach, JobRecord
    <3> HIDE DEF J
    <3> QED BY <1>1, <3>1
  <2>5. CASE LoopDeadline(k)
    <3>1. Cancelled(jobs[k], "deadline").phase = jobs[k].phase
      BY <1>0, CancelledType DEF Reasons
    <3> QED BY <1>1, <2>5, <3>1 DEF LoopDeadline
  <2>6. CASE ~(Settle(k) \/ SupPanics(k) \/ Notify(k) \/ SupStart(k) \/ SupAttach(k) \/ LoopDeadline(k))
    BY <1>2, <1>4, <2>6 DEF SupStep, SupPlan, SupPlanFails, SupSpawnFails, SupSpawn, SupAttachFails, SupReaped,
                            LoopStep, LoopExit, LoopWaitFails, LoopCancel, LoopStreamsClose, LoopEnd, Confirm,
                            SupOnly, OsStep, ProcessDies, ProcessExits, ProcessForks
  <2> QED BY <2>1, <2>2, <2>3, <2>4, <2>5, <2>6
<1>5. ASSUME ShutdownStep PROVE FALSE
  <2>1. ASSUME NEW k \in Jobs, ShutdownCancel(k) PROVE FALSE
    <3> DEFINE J == IF Finished(k) THEN jobs[k] ELSE Cancelled(jobs[k], "shutdown")
    <3>1. jobs' = [jobs EXCEPT ![k] = J]
      BY <2>1 DEF ShutdownCancel
    <3>2. J.phase = jobs[k].phase
      BY <1>0, CancelledType DEF Reasons
    <3> HIDE DEF J
    <3> QED BY <1>1, <3>1, <3>2
  <2> QED BY <1>2, <1>5, <2>1 DEF ShutdownStep, ShutdownBegin, ShutdownAwait, ProcessEnds
<1> QED BY <1>3, <1>4, <1>5 DEF BrNext

\* The status a job is given is the one of its own run: a deadline that fires beside a native
\* success does not rewrite it, only a worker that completed is reported as completed, and
\* only a user's cancellation as cancelled (supervisor.rs, terminal_status).
THEOREM ResultsAreNative == BrSpec => NativeResultKept
<1>1. BrInit => ResultsTold
  BY DEF BrInit, ResultsTold, Told, NoSupervisor
<1>2. BridgeIInv /\ ResultsTold /\ [BrNext]_brVars => ResultsTold'
  BY ResultsInductive DEF BridgeIInv
<1>3. ASSUME BridgeIInv, ResultsTold, [BrNext]_brVars
      PROVE  [\A j \in Jobs : Finished(j)' /\ ~Finished(j) =>
                 /\ jobs'[j].status = "timed_out" => sup[j].native # "completed"
                 /\ jobs'[j].status = "completed" => sup[j].native = "completed"
                 /\ jobs'[j].status = "cancelled" => jobs[j].reason = "user"]_brVars
  <2> SUFFICES ASSUME BrNext, NEW j \in Jobs, Finished(j)', ~Finished(j)
               PROVE  /\ jobs'[j].status = "timed_out" => sup[j].native # "completed"
                      /\ jobs'[j].status = "completed" => sup[j].native = "completed"
                      /\ jobs'[j].status = "cancelled" => jobs[j].reason = "user"
    BY <1>3
  <2>1. Settle(j) \/ SupPanics(j)
    BY <1>3, OnlySupervisorSettles
  <2>2. CASE Settle(j)
    <3>1. sup[j].pc = "settle" /\ jobs'[j].status = sup[j].status
      BY <1>3, <2>2, OneJob DEF Settle, SupAt, Settled, BridgeIInv, BrTypeOK, JobRecord
    <3> QED BY <1>3, <3>1 DEF ResultsTold, Told
  <2>3. CASE SupPanics(j)
    <3>1. jobs'[j].status = "interrupted"
      BY <1>3, <2>3, OneJob DEF SupPanics, Settled, BridgeIInv, BrTypeOK, JobRecord
    <3> QED BY <3>1
  <2> QED BY <2>1, <2>2, <2>3
<1> QED BY <1>1, <1>2, <1>3, BridgeStarts, BridgeInductive, PTL DEF BrSpec, NativeResultKept
==============================================================================
