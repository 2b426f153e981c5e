------------------------------ MODULE ChildRuns ------------------------------
(***************************************************************************)
(* A Blueprint node that calls another Blueprint (service/child-run-       *)
(* execution.ts) in a chain of Runs: Run 1 is the root, the one call of    *)
(* Run i executes as Run i + 1, and the last Run's node is an Agent or a   *)
(* human decision.  Each Run has the job that drives it                    *)
(* (service/run-execution.ts); its durable record is that of RunRecord,    *)
(* reduced to the Run's state and the state of its one Attempt.            *)
(*                                                                         *)
(* Concurrent: every Run's job, every call's execution, which waits for    *)
(* its child, the cancellations walking down the tree from the user, from  *)
(* a parent's walk and from a call's abort listener, the service closing,  *)
(* a crash with its startup reconciliation, and the operator.              *)
(***************************************************************************)
EXTENDS Integers, FiniteSets

CONSTANTS Depth,    \* length of the chain
          MaxCrash  \* bound: crashes

ASSUME ChildAssumption == Depth \in Nat \ {0} /\ MaxCrash \in Nat

Chain == 1..Depth
Callers == 1..(Depth - 1)
TerminalChild == {"succeeded", "failed", "cancelled"}
Over == TerminalChild \cup {"recovery_required"}
RunStates == Over \cup {"none", "queued", "running", "waiting_input", "cancelling"}
Walks == {"user", "parent", "listener"}
WalkSteps == {"none", "request", "descend", "join", "finish", "done"}

VARIABLES
    rec,     \* the Runs' durable states
    att,     \* each Run's Attempt: "none", "intent" (no result yet), "waiting_input" or "result"
    kept,    \* each call's durable childRunId: reserved or not
    drive,   \* each Run's job: "none", "scheduled" or "driving"
    call,    \* where the execution of a Run's node is
    gave,    \* what that execution returned: "none" before it does
    abort,   \* the node's AbortSignal
    heard,   \* the call's abort listener is attached
    snap,    \* the state the call last read of its child
    dirty,   \* the child changed since the call began its last read (generation)
    walk,    \* where each cancelTree of a Run is: "none", "request", "descend", "join", "finish", "done"
    closing, \* the service is closing
    crashes

childVars == <<rec, att, kept, drive, call, gave, abort, heard, snap, dirty, walk, closing, crashes>>

CallSteps == {"none", "reserve", "create", "bind", "check", "begin", "read", "decide", "wait",
              "join", "rescue", "leave", "work", "over"}

ChildTypeOK ==
    /\ rec \in [Chain -> RunStates] /\ att \in [Chain -> {"none", "intent", "waiting_input", "result"}]
    /\ kept \in [Chain -> BOOLEAN]
    /\ drive \in [Chain -> {"none", "scheduled", "driving"}]
    /\ call \in [Chain -> CallSteps]
    /\ gave \in [Chain -> {"none", "unknown"} \cup TerminalChild]
    /\ abort \in [Chain -> BOOLEAN] /\ heard \in [Chain -> BOOLEAN]
    /\ snap \in [Chain -> RunStates] /\ dirty \in [Chain -> BOOLEAN]
    /\ walk \in [Chain -> [Walks -> WalkSteps]]
    /\ closing \in BOOLEAN /\ crashes \in 0..MaxCrash
    \* A Run has a driver, an execution or a child only once it exists.
    /\ \A i \in Chain : rec[i] = "none" => drive[i] = "none" /\ call[i] = "none" /\ ~kept[i]

ChildInit ==
    /\ rec = [i \in Chain |-> IF i = 1 THEN "queued" ELSE "none"]
    /\ att = [i \in Chain |-> "none"] /\ kept = [i \in Chain |-> FALSE]
    /\ drive = [i \in Chain |-> IF i = 1 THEN "scheduled" ELSE "none"]
    /\ call = [i \in Chain |-> "none"] /\ gave = [i \in Chain |-> "none"]
    /\ abort = [i \in Chain |-> FALSE] /\ heard = [i \in Chain |-> FALSE]
    /\ snap = [i \in Chain |-> "none"] /\ dirty = [i \in Chain |-> FALSE]
    /\ walk = [i \in Chain |-> [w \in Walks |-> "none"]]
    /\ closing = FALSE /\ crashes = 0

-----------------------------------------------------------------------------
(* Every commit to a Run's record tells the call that observes it.           *)

Observes(i) == call[i] \in {"begin", "read", "decide", "wait", "join"}
Publish(i) == dirty' = IF i > 1 THEN [dirty EXCEPT ![i - 1] = @ \/ Observes(i - 1)] ELSE dirty
CommitChild(i, to) == rec' = [rec EXCEPT ![i] = to] /\ Publish(i)

\* scheduleRun: nothing while closing; a Run that has a job keeps it.
Scheduled(i) == [drive EXCEPT ![i] = IF closing \/ @ # "none" THEN @ ELSE "scheduled"]

\* requestCancel: a settled Run and one that is being cancelled keep their state.
CancelTo(i) ==
    IF rec[i] \in Over \cup {"cancelling", "none"} THEN rec[i]
    ELSE IF att[i] = "intent" THEN "cancelling" ELSE "cancelled"

-----------------------------------------------------------------------------
(* The job of a Run.                                                         *)

\* The job reads the record: a cancelled, settled or closing Run dispatches nothing.
JobStart(i) ==
    /\ drive[i] = "scheduled"
    /\ IF rec[i] \in {"queued", "running"} /\ att[i] = "none" /\ ~closing
       THEN /\ drive' = [drive EXCEPT ![i] = "driving"] /\ att' = [att EXCEPT ![i] = "intent"]
            /\ call' = [call EXCEPT ![i] = IF i < Depth THEN "reserve" ELSE "work"]
            /\ CommitChild(i, "running")
       ELSE /\ drive' = [drive EXCEPT ![i] = "none"] /\ UNCHANGED <<att, call>>
            /\ IF rec[i] \in Over \cup {"waiting_input"} THEN UNCHANGED <<rec, dirty>>
               ELSE CommitChild(i, "cancelled")
    /\ UNCHANGED <<kept, gave, abort, heard, snap, walk, closing, crashes>>

\* The execution came back: its result is recorded, or the Run needs the operator.
\* A Run that was settled meanwhile takes no result.
JobEnd(i) ==
    /\ drive[i] = "driving" /\ call[i] = "over"
    /\ drive' = [drive EXCEPT ![i] = "none"]
    /\ IF rec[i] \in TerminalChild THEN UNCHANGED <<rec, att, dirty>>
       ELSE IF gave[i] = "unknown" THEN CommitChild(i, "recovery_required") /\ UNCHANGED att
       ELSE CommitChild(i, IF rec[i] = "cancelling" THEN "cancelled" ELSE gave[i])
            /\ att' = [att EXCEPT ![i] = "result"]
    /\ UNCHANGED <<kept, call, gave, abort, heard, snap, walk, closing, crashes>>

\* The last Run's Agent ends: as it likes, or cancelled, or unknown once it was aborted.
AgentEnds(i, out) ==
    /\ call[i] = "work"
    /\ out \in (IF abort[i] THEN {"cancelled", "unknown"} ELSE {"succeeded", "failed"})
    /\ gave' = [gave EXCEPT ![i] = out] /\ call' = [call EXCEPT ![i] = "over"]
    /\ UNCHANGED <<rec, att, kept, drive, abort, heard, snap, dirty, walk, closing, crashes>>

\* ... or its node is a human decision: the Run waits, and its job ends.
AwaitInput(i) ==
    /\ call[i] = "work" /\ rec[i] = "running"
    /\ CommitChild(i, "waiting_input") /\ att' = [att EXCEPT ![i] = "waiting_input"]
    /\ call' = [call EXCEPT ![i] = "none"] /\ drive' = [drive EXCEPT ![i] = "none"]
    /\ UNCHANGED <<kept, gave, abort, heard, snap, walk, closing, crashes>>

\* The person decides, and that settles the waiting Run.
DecideChild(i) ==
    /\ rec[i] = "waiting_input" /\ ~closing
    /\ CommitChild(i, "succeeded") /\ att' = [att EXCEPT ![i] = "result"]
    /\ UNCHANGED <<kept, drive, call, gave, abort, heard, snap, walk, closing, crashes>>

-----------------------------------------------------------------------------
(* execute: the node that calls a Blueprint.                                 *)

To(i, pc) == call' = [call EXCEPT ![i] = pc]
Return(i, out) == gave' = [gave EXCEPT ![i] = out] /\ To(i, "leave")

\* The child's identity is reserved in the parent's record, before the child exists.
Reserve(i) ==
    /\ call[i] = "reserve"
    /\ IF rec[i] = "running" /\ ~abort[i]
       THEN kept' = [kept EXCEPT ![i] = TRUE] /\ To(i, "create") /\ Publish(i) /\ UNCHANGED gave
       ELSE Return(i, "cancelled") /\ UNCHANGED <<kept, dirty>>
    /\ UNCHANGED <<rec, att, drive, abort, heard, snap, walk, closing, crashes>>

\* createRun under the reserved identity, or the store fails.
CreateChild(i, fails) ==
    /\ call[i] = "create"
    /\ IF fails THEN To(i, "rescue") /\ UNCHANGED rec
       ELSE rec' = [rec EXCEPT ![i + 1] = "queued"] /\ To(i, "bind")
    /\ UNCHANGED <<att, kept, drive, gave, abort, heard, snap, dirty, walk, closing, crashes>>

\* The snapshot package and the binding digests, or one of them fails; the abort
\* listener is attached before the parent is read again.
BindChild(i, fails) ==
    /\ call[i] = "bind"
    /\ To(i, IF fails THEN "rescue" ELSE "check")
    /\ heard' = [heard EXCEPT ![i] = ~fails]
    /\ snap' = [snap EXCEPT ![i] = rec[i]]
    /\ UNCHANGED <<rec, att, kept, drive, gave, abort, dirty, walk, closing, crashes>>

\* cancel(): one walk down the child's tree, however often it is asked for.
StartWalkNever(i) == UNCHANGED walk
StartWalk(i) == walk' = [walk EXCEPT ![i + 1]["listener"] = IF @ = "none" THEN "request" ELSE @]

\* The parent as it was read decides: a cancelled parent starts no child.
MayStart(i) == ~abort[i] /\ ~closing /\ snap[i] = "running"
CheckParent(i) ==
    /\ call[i] = "check"
    /\ To(i, "begin")
    /\ IF MayStart(i) THEN drive' = Scheduled(i + 1) /\ UNCHANGED walk
       ELSE StartWalk(i) /\ UNCHANGED drive
    /\ UNCHANGED <<rec, att, kept, gave, abort, heard, snap, dirty, closing, crashes>>

\* The loop: subscribed before it reads, it remembers the generation, reads, and waits
\* only if nothing changed since.
BeginRead(i) ==
    /\ call[i] = "begin"
    /\ dirty' = [dirty EXCEPT ![i] = FALSE] /\ To(i, "read")
    /\ UNCHANGED <<rec, att, kept, drive, gave, abort, heard, snap, walk, closing, crashes>>
ReadChild(i) ==
    /\ call[i] = "read"
    /\ snap' = [snap EXCEPT ![i] = rec[i + 1]] /\ To(i, "decide")
    /\ UNCHANGED <<rec, att, kept, drive, gave, abort, heard, dirty, walk, closing, crashes>>
NextOf(i) == IF snap[i] \in Over THEN "join" ELSE IF dirty[i] THEN "begin" ELSE "wait"
DecideNextDeaf(i) ==
    /\ call[i] = "decide"
    /\ To(i, IF snap[i] \in Over THEN "join" ELSE "wait") /\ dirty' = [dirty EXCEPT ![i] = FALSE]
    /\ UNCHANGED <<rec, att, kept, drive, gave, abort, heard, snap, walk, closing, crashes>>
DecideNext(i) ==
    /\ call[i] = "decide" /\ To(i, NextOf(i))
    /\ UNCHANGED <<rec, att, kept, drive, gave, abort, heard, snap, dirty, walk, closing, crashes>>
WakeCall(i) ==
    /\ call[i] = "wait" /\ dirty[i]
    /\ To(i, "begin")
    /\ UNCHANGED <<rec, att, kept, drive, gave, abort, heard, snap, dirty, walk, closing, crashes>>

\* A settled child: its job is over before its state is read for the last time.
\* Outputs that do not fit the calling node fail the call.
JoinChild(i, fit) ==
    /\ call[i] = "join" /\ drive[i + 1] = "none"
    /\ Return(i, CASE rec[i + 1] = "recovery_required" -> "unknown"
                   [] rec[i + 1] = "succeeded" /\ ~fit -> "failed"
                   [] OTHER -> rec[i + 1])
    /\ UNCHANGED <<rec, att, kept, drive, abort, heard, snap, dirty, walk, closing, crashes>>

\* After a failure the child is cancelled, and only one that never ran is a known outcome.
Rescue(i) ==
    /\ call[i] = "rescue"
    /\ CASE walk[i + 1]["listener"] = "none" -> StartWalk(i) /\ UNCHANGED <<call, gave>>
         [] walk[i + 1]["listener"] = "done" ->
               Return(i, IF abort[i] /\ rec[i + 1] = "cancelled" /\ att[i + 1] = "none"
                         THEN "cancelled" ELSE "unknown") /\ UNCHANGED walk
         [] OTHER -> FALSE
    /\ UNCHANGED <<rec, att, kept, drive, abort, heard, snap, dirty, closing, crashes>>

\* finally: the listener goes, and a walk it started is awaited.
Leave(i) ==
    /\ call[i] = "leave"
    /\ heard' = [heard EXCEPT ![i] = FALSE]
    /\ walk[i + 1]["listener"] \in {"none", "done"}
    /\ To(i, "over")
    /\ UNCHANGED <<rec, att, kept, drive, gave, abort, snap, dirty, walk, closing, crashes>>

-----------------------------------------------------------------------------
(* Cancellation.                                                             *)

\* The controllers of a Run's nodes abort; a listening call walks down its child.
Aborting(i) == call[i] \notin {"none", "over"}
ListenerWalk(i, ws) ==
    IF heard[i] /\ ~abort[i]
    THEN [ws EXCEPT ![i + 1]["listener"] = IF @ = "none" THEN "request" ELSE @] ELSE ws

Cancel ==
    /\ walk[1]["user"] = "none"
    /\ walk' = [walk EXCEPT ![1]["user"] = "request"]
    /\ UNCHANGED <<rec, att, kept, drive, call, gave, abort, heard, snap, dirty, closing, crashes>>

\* cancelTree: the cutoff is committed.
WalkRequest(i, w) ==
    /\ walk[i][w] = "request"
    /\ walk' = [walk EXCEPT ![i][w] = IF rec[i] = "none" THEN "done" ELSE "descend"]
    /\ IF CancelTo(i) = rec[i] THEN UNCHANGED <<rec, att, dirty>>
       ELSE /\ CommitChild(i, CancelTo(i))
            /\ att' = IF CancelTo(i) = "cancelled" /\ att[i] # "none" THEN [att EXCEPT ![i] = "result"] ELSE att
    /\ UNCHANGED <<kept, drive, call, gave, abort, heard, snap, closing, crashes>>

\* Then its nodes abort, and the walk goes on to a child that exists.
WalkDescend(i, w) ==
    /\ walk[i][w] = "descend"
    /\ abort' = [abort EXCEPT ![i] = @ \/ Aborting(i)]
    /\ LET below == i < Depth /\ kept[i] /\ rec[i + 1] # "none"
           here == [walk EXCEPT ![i][w] = IF below THEN "join" ELSE "finish"]
           down == IF below THEN [here EXCEPT ![i + 1]["parent"] = IF @ \in {"none", "done"} THEN "request" ELSE @] ELSE here
       IN  walk' = IF Aborting(i) THEN ListenerWalk(i, down) ELSE down
    /\ UNCHANGED <<rec, att, kept, drive, call, gave, heard, snap, dirty, closing, crashes>>
WalkJoin(i, w) ==
    /\ walk[i][w] = "join" /\ walk[i + 1]["parent"] = "done"
    /\ walk' = [walk EXCEPT ![i][w] = "finish"]
    /\ UNCHANGED <<rec, att, kept, drive, call, gave, abort, heard, snap, dirty, closing, crashes>>

\* A cancelling Run that nobody drives gets a job to settle it.
WalkFinish(i, w) ==
    /\ walk[i][w] = "finish"
    /\ walk' = [walk EXCEPT ![i][w] = "done"]
    /\ drive' = IF rec[i] = "cancelling" THEN Scheduled(i) ELSE drive
    /\ UNCHANGED <<rec, att, kept, call, gave, abort, heard, snap, dirty, closing, crashes>>

\* The service closes: every controller aborts, nothing new is scheduled.
Close ==
    /\ ~closing /\ closing' = TRUE
    /\ abort' = [i \in Chain |-> abort[i] \/ Aborting(i)]
    /\ walk' = [i \in Chain |-> IF i = 1 THEN walk[i] ELSE ListenerWalk(i - 1, walk)[i]]
    /\ UNCHANGED <<rec, att, kept, drive, call, gave, heard, snap, dirty, crashes>>

-----------------------------------------------------------------------------
(* A crash loses every job, execution and walk; startup leaves a child       *)
(* without its supervisor, and an Attempt without a result, to the operator. *)

Restart ==
    /\ crashes < MaxCrash /\ crashes' = crashes + 1
    /\ rec' = [i \in Chain |->
           IF rec[i] \in Over \cup {"none"} THEN rec[i]
           ELSE IF i > 1 \/ att[i] = "intent" THEN "recovery_required" ELSE rec[i]]
    /\ drive' = [i \in Chain |-> IF i = 1 /\ rec[1] = "queued" THEN "scheduled" ELSE "none"]
    /\ call' = [i \in Chain |-> "none"] /\ gave' = [i \in Chain |-> "none"]
    /\ abort' = [i \in Chain |-> FALSE] /\ heard' = [i \in Chain |-> FALSE]
    /\ snap' = [i \in Chain |-> "none"] /\ dirty' = [i \in Chain |-> FALSE]
    /\ walk' = [i \in Chain |-> [w \in Walks |-> "none"]]
    /\ closing' = FALSE
    /\ UNCHANGED <<att, kept>>

\* resolveRecovery: a call's child settles first, and a success needs its success.
ChildAllowsAny(i, as) == TRUE
ChildAllows(i, as) ==
    (i \in Callers /\ kept[i]) =>
        IF rec[i + 1] = "none" THEN as # "succeeded"
        ELSE rec[i + 1] \in TerminalChild /\ (as = "succeeded" => rec[i + 1] = "succeeded")
Resolve(i, as) ==
    /\ rec[i] = "recovery_required" /\ ~closing
    /\ as \in {"succeeded", "failed"} /\ ChildAllows(i, as)
    /\ CommitChild(i, as) /\ att' = [att EXCEPT ![i] = "result"]
    /\ UNCHANGED <<kept, drive, call, gave, abort, heard, snap, walk, closing, crashes>>

ChildSteps ==
    \/ \E i \in Chain : JobStart(i) \/ JobEnd(i) \/ (\E out \in {"succeeded", "failed", "cancelled", "unknown"} : AgentEnds(i, out))
    \/ \E i \in Callers :
        \/ Reserve(i) \/ CheckParent(i) \/ BeginRead(i) \/ ReadChild(i) \/ DecideNext(i) \/ WakeCall(i)
        \/ Rescue(i) \/ Leave(i)
        \/ \E b \in BOOLEAN : CreateChild(i, b) \/ BindChild(i, b) \/ JoinChild(i, b)
    \/ \E i \in Chain, w \in Walks : WalkRequest(i, w) \/ WalkDescend(i, w) \/ WalkJoin(i, w) \/ WalkFinish(i, w)
ChildNext ==
    \/ ChildSteps
    \/ \E i \in Chain : (i = Depth /\ AwaitInput(i)) \/ DecideChild(i)
    \/ \E i \in Chain, as \in TerminalChild : Resolve(i, as)
    \/ Cancel \/ Close \/ Restart

ChildSpec == ChildInit /\ [][ChildNext]_childVars

-----------------------------------------------------------------------------
(* Properties.                                                               *)

\* A Run is terminal only once the child it called is: neither a cancellation racing the
\* child's creation, nor a failure between the reservation and the wait, nor an operator
\* settles a parent above a live or unknown child (execute, cancelTree and the child
\* check of resolveRecovery together).
ParentOutlivesChild == \A i \in Callers :
    (rec[i] \in TerminalChild /\ kept[i]) => rec[i + 1] \in TerminalChild \cup {"none"}

\* What a chain of calls keeps: well formed records and executions, and no settled
\* parent above an open child (execute, cancelTree, resolveRecovery).
ChildInv == ChildTypeOK /\ ParentOutlivesChild

\* No child starts below a parent that is settled: at the moment a child's job commits
\* its first intent the parent still runs, or its cancellation is on its way down to
\* the child (the recheck of the parent, the abort listener, cancelTree).
NoStartBelowSettled == [][\A i \in Callers :
    (att[i + 1] = "none" /\ att'[i + 1] = "intent")
        => \/ rec[i] = "running" /\ ~abort[i]
           \/ \E w \in Walks : walk[i + 1][w] # "none" \/ walk[i][w] \in {"request", "descend"}]_childVars

=============================================================================
