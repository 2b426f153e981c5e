--------------------------- MODULE WorkspaceFence ---------------------------
(***************************************************************************)
(* The workspace write fence (service/workspace-write-lease.ts) and the    *)
(* places that use it: the node execution that acquires and finishes it    *)
(* (service/run-execution.ts), the Agent's tool guard                      *)
(* (host/agent-executor.ts) and the operator's recovery (index.ts).        *)
(*                                                                         *)
(* A writer is one Attempt that may write to the project checkout.  Its    *)
(* tools are external: an effect runs from its dispatch until it ends, and *)
(* outlives the Agent, the Run and the Host process that dispatched it.    *)
(* The writer lease of the fence's directory is the component of module    *)
(* WriterLease: here its holder, which only dies with its process.         *)
(***************************************************************************)
EXTENDS Integers, Sequences, FiniteSets, Functions

CONSTANTS Writers,        \* the Attempts that may write
          Nobody,
          RunOf, HostOf,  \* an Attempt's Run and the process that executes it
          KindOf,         \* "agent" or "team": what executes it
          MaxTools,       \* bound: tool calls of all writers
          MaxOutside,     \* bound: edits nobody coordinates (a person's editor)
          MaxCrashes      \* bound: Host crashes

WRuns == {RunOf[w] : w \in Writers}
Hosts == {HostOf[w] : w \in Writers}
OperatorOf(p) == <<"operator", p>>
Operators == {OperatorOf(p) : p \in Hosts}

ASSUME FenceAssumption ==
    /\ \A w \in Writers : w \in DOMAIN RunOf /\ w \in DOMAIN HostOf
    /\ Nobody \notin Writers \cup Operators /\ Writers \cap Operators = {}
    /\ KindOf \in [Writers -> {"agent", "team"}]
    /\ \A v, w \in Writers : RunOf[v] = RunOf[w] => HostOf[v] = HostOf[w]
    /\ {MaxTools, MaxOutside, MaxCrashes} \subseteq Nat

VARIABLES
    step,    \* where each writer is: "new", "queued", "held", "working", "closing", "done"
    guard,   \* its WorkspaceWriteLease: conflicted, toolsActive, observed, quiescent
    settled, \* its durable outcome: Nobody yet, "result" or "recovery"
    line,    \* per process: the queue's tickets, a writer and whether it released
    holder,  \* the writer lease: a writer, a process's operator, or Nobody
    dead,    \* the lease file names a process that crashed
    fence,   \* intent.json: the writer that put it there, or Nobody
    content, \* the project's sources, as a version
    effects, \* per writer: its tool effects that really run
    verdict, \* per Run: "running", "recovery_required", "ended" or "resolved"
    review,  \* per process: the Run an operator is settling under the lease, or Nobody
    edited,  \* writers whose project changed under them between two of their tools
    count    \* what the bounds count

fenceVars == <<step, guard, settled, line, holder, dead, fence, content,
               effects, verdict, review, edited, count>>

NoGuard == [conflicted |-> FALSE, active |-> 0, observed |-> 0, quiescent |-> TRUE]
OfHost(p) == {w \in Writers : HostOf[w] = p}
OfRun(r) == {w \in Writers : RunOf[w] = r}
LeaseHolders == Writers \cup Operators \cup {Nobody}

WriteGuards == [conflicted : BOOLEAN, active : 0..1, observed : Nat, quiescent : BOOLEAN]
Tickets(p) == [of : OfHost(p), released : BOOLEAN]
Counts == [tools : [Writers -> Nat], outside : 0..MaxOutside, crashes : 0..MaxCrashes]
LineOK == DOMAIN line = Hosts /\ \A p \in Hosts : line[p] \in Seq(Tickets(p))

FenceTypeOK ==
    /\ step \in [Writers -> {"new", "queued", "held", "working", "closing", "done"}]
    /\ guard \in [Writers -> WriteGuards]
    /\ settled \in [Writers -> {Nobody, "result", "recovery"}]
    /\ LineOK
    /\ holder \in LeaseHolders /\ dead \in BOOLEAN
    /\ fence \in Writers \cup {Nobody}
    /\ content \in Nat /\ effects \in [Writers -> Nat]
    /\ verdict \in [WRuns -> {"running", "recovery_required", "ended", "resolved"}]
    /\ review \in [Hosts -> WRuns \cup {Nobody}]
    /\ edited \subseteq Writers
    /\ count \in Counts

FenceInit ==
    /\ step = [w \in Writers |-> "new"]
    /\ guard = [w \in Writers |-> NoGuard] /\ settled = [w \in Writers |-> Nobody]
    /\ line = [p \in Hosts |-> <<>>] /\ holder = Nobody /\ dead = FALSE
    /\ fence = Nobody /\ content = 0 /\ effects = [w \in Writers |-> 0]
    /\ verdict = [r \in WRuns |-> "running"] /\ review = [p \in Hosts |-> Nobody]
    /\ edited = {}
    /\ count = [tools |-> [w \in Writers |-> 0], outside |-> 0, crashes |-> 0]

-----------------------------------------------------------------------------
(* The queue of one process.  A ticket's turn comes when every earlier one   *)
(* has been released: tail = previous.then(() => own).                       *)

TicketOf(w) == CHOOSE i \in DOMAIN line[HostOf[w]] : line[HostOf[w]][i].of = w
Turn(w) == \A i \in 1..(TicketOf(w) - 1) : line[HostOf[w]][i].released
Release(w) == line' = [line EXCEPT ![HostOf[w]][TicketOf(w)].released = TRUE]

\* executeRunNode reaches the acquisition with its intent recorded and takes a ticket.
Enqueue(w) ==
    /\ step[w] = "new" /\ verdict[RunOf[w]] = "running"
    /\ step' = [step EXCEPT ![w] = "queued"]
    /\ line' = [line EXCEPT ![HostOf[w]] = Append(@, [of |-> w, released |-> FALSE])]
    /\ UNCHANGED <<guard, settled, holder, dead, fence, content, effects, verdict, review, edited, count>>

\* The acquisition is refused: the ticket and a lease just taken are released, and the
\* Attempt settles.  A refused Team's Attempt is left to the operator unless its Run's
\* cancellation settles it.
Refused(w, as) ==
    /\ Release(w)
    /\ step' = [step EXCEPT ![w] = "done"] /\ settled' = [settled EXCEPT ![w] = as]
    /\ UNCHANGED <<guard, fence, content, effects, verdict, review, edited, count>>
RefusedAs(w) == IF KindOf[w] = "team" THEN "recovery" ELSE "result"
StoppedAs(w) == {"result", RefusedAs(w)}
LeaseFree == holder = Nobody \/ dead
GiveBack == holder' = Nobody /\ dead' = FALSE

\* The Run's cancellation wins over the wait for the turn.
AbortQueued(w) ==
    /\ step[w] = "queued"
    /\ \E as \in StoppedAs(w) : Refused(w, as)
    /\ UNCHANGED <<holder, dead>>

\* Another process's writer, or an operator's recovery, holds the lease; a crashed
\* holder's lease is still fresh.
AcquireBusy(w) ==
    /\ step[w] = "queued" /\ Turn(w) /\ holder # Nobody
    /\ Refused(w, RefusedAs(w))
    /\ UNCHANGED <<holder, dead>>

\* An intent somebody left: the Attempt needs the operator too.
AcquireFenced(w) ==
    /\ step[w] = "queued" /\ Turn(w) /\ LeaseFree /\ fence # Nobody
    /\ Refused(w, "recovery") /\ GiveBack

\* The sources cannot be observed (too many entries, an unreadable or a special file):
\* the lease just taken is given back before an intent was written.
AcquireUnobservable(w) ==
    /\ step[w] = "queued" /\ Turn(w) /\ LeaseFree /\ fence = Nobody
    /\ Refused(w, RefusedAs(w)) /\ GiveBack

\* Lease, preimage and intent, in one synchronous stretch.
Acquire(w) ==
    /\ step[w] = "queued" /\ Turn(w) /\ LeaseFree /\ fence = Nobody
    /\ holder' = w /\ dead' = FALSE /\ fence' = w
    /\ guard' = [guard EXCEPT ![w] = [NoGuard EXCEPT !.observed = content]]
    /\ step' = [step EXCEPT ![w] = "held"]
    /\ UNCHANGED <<settled, line, content, effects, verdict, review, edited, count>>

-----------------------------------------------------------------------------
(* The writer at work.                                                       *)

\* An abort seen right after the acquisition, a missing registry, a Team identity that
\* is not there: nothing was dispatched, and the fence is quiescent.
StopHeld(w) ==
    /\ step[w] = "held"
    /\ step' = [step EXCEPT ![w] = "closing"]
    /\ \E as \in StoppedAs(w) : settled' = [settled EXCEPT ![w] = as]
    /\ UNCHANGED <<guard, line, holder, dead, fence, content, effects, verdict, review, edited, count>>

\* writeQuiescent = false, and the Agent or the Team starts.
Dispatch(w) ==
    /\ step[w] = "held"
    /\ step' = [step EXCEPT ![w] = "working"]
    /\ guard' = [guard EXCEPT ![w].quiescent = FALSE]
    /\ UNCHANGED <<settled, line, holder, dead, fence, content, effects, verdict, review, edited, count>>

ToolsLeft == FoldFunction(+, 0, count.tools) < MaxTools

\* beforeTool refuses: an earlier conflict, a tool still running, changed sources.
ClashesBlindly(w) == guard[w].conflicted \/ guard[w].active > 0
Clashes(w) == guard[w].conflicted \/ guard[w].active > 0 \/ content # guard[w].observed
\* The Agent calls a business tool: the guard refuses it (also when the sources cannot
\* be observed), or the effect starts.
BeforeTool(w, observable) ==
    /\ step[w] = "working" /\ KindOf[w] = "agent" /\ ToolsLeft
    /\ count' = [count EXCEPT !.tools[w] = @ + 1]
    /\ IF Clashes(w) \/ ~observable
       THEN guard' = [guard EXCEPT ![w].conflicted = TRUE] /\ UNCHANGED effects
       ELSE guard' = [guard EXCEPT ![w].active = @ + 1] /\ effects' = [effects EXCEPT ![w] = @ + 1]
    /\ UNCHANGED <<step, settled, line, holder, dead, fence, content, verdict, review, edited>>

\* A Team's members call their tools without this guard.
TeamTool(w) ==
    /\ step[w] = "working" /\ KindOf[w] = "team" /\ ToolsLeft
    /\ count' = [count EXCEPT !.tools[w] = @ + 1]
    /\ effects' = [effects EXCEPT ![w] = @ + 1]
    /\ UNCHANGED <<step, guard, settled, line, holder, dead, fence, content, verdict, review, edited>>

\* An effect ends, having written.  afterTool observes the sources again, if the Host
\* that dispatched the tool is still there to hear its result.
AfterTool(w, observable) ==
    /\ effects[w] > 0
    /\ effects' = [effects EXCEPT ![w] = @ - 1]
    /\ content' = content + 1
    /\ guard' = IF guard[w].active = 0 THEN guard
                ELSE IF observable THEN [guard EXCEPT ![w].active = @ - 1, ![w].observed = content + 1]
                ELSE [guard EXCEPT ![w].active = @ - 1, ![w].conflicted = TRUE]
    /\ UNCHANGED <<step, settled, line, holder, dead, fence, verdict, review, edited, count>>

\* Somebody edits the project outside Blueprint.
EditOutside ==
    /\ count.outside < MaxOutside
    /\ count' = [count EXCEPT !.outside = @ + 1]
    /\ content' = content + 1
    /\ edited' = edited \cup {w \in Writers : step[w] \in {"held", "working"} /\ guard[w].active = 0}
    /\ UNCHANGED <<step, guard, settled, line, holder, dead, fence, effects, verdict, review>>

\* How the execution ends, with what the writer's Attempt is settled as and whether its
\* effects are known to be over: a quiescent Agent or Team, a creation the Host
\* rejected and a Team failure of a known kind or a cancelled one (both leave
\* writeQuiescent false), and effects nobody can vouch for.
Endings(w) ==
    {e \in [as : {"result", "recovery"}, quiescent : BOOLEAN] :
        \/ e.as = "result" /\ e.quiescent /\ effects[w] = 0
        \/ e.as = "result" /\ ~e.quiescent /\ effects[w] = 0 /\ (KindOf[w] = "team" \/ count.tools[w] = 0)
        \/ e.as = "recovery" /\ ~e.quiescent}
EndWork(w, e) ==
    /\ step[w] = "working"
    /\ step' = [step EXCEPT ![w] = "closing"]
    /\ settled' = [settled EXCEPT ![w] = e.as]
    /\ guard' = [guard EXCEPT ![w].quiescent = e.quiescent]
    /\ UNCHANGED <<line, holder, dead, fence, content, effects, verdict, review, edited, count>>

\* finish(quiescent): the intent goes only with the effects, the lease and the turn always.
NeverFenced(w) == Nobody
StillFenced(w) == IF guard[w].quiescent /\ guard[w].active = 0 THEN Nobody ELSE fence
FinishWriter(w) ==
    /\ step[w] = "closing"
    /\ fence' = StillFenced(w)
    /\ holder' = Nobody /\ Release(w)
    /\ step' = [step EXCEPT ![w] = "done"]
    /\ UNCHANGED <<guard, settled, dead, content, effects, verdict, review, edited, count>>

\* The Run's loop ends once none of its Attempts is in flight.
EndRun(r) ==
    /\ verdict[r] = "running" /\ \A w \in OfRun(r) : step[w] \in {"new", "done"} /\ (step[w] = "done" => settled[w] # Nobody)
    /\ \E w \in OfRun(r) : step[w] = "done"
    /\ verdict' = [verdict EXCEPT ![r] =
           IF \E w \in OfRun(r) : settled[w] = "recovery" THEN "recovery_required" ELSE "ended"]
    /\ UNCHANGED <<step, guard, settled, line, holder, dead, fence, content, effects, review, edited, count>>

-----------------------------------------------------------------------------
(* A process crashes and its runtime starts again: what it held in memory is *)
(* gone, the lease file names a dead process, the intent and the effects     *)
(* stay; startup leaves an Attempt without a result to the operator.         *)

Unresolved(w) == step[w] # "new" /\ settled[w] # "result"
CrashHost(p) ==
    /\ count.crashes < MaxCrashes
    /\ count' = [count EXCEPT !.crashes = @ + 1]
    /\ step' = [w \in Writers |-> IF HostOf[w] = p /\ step[w] # "new" THEN "done" ELSE step[w]]
    /\ guard' = [w \in Writers |-> IF HostOf[w] = p THEN NoGuard ELSE guard[w]]
    /\ line' = [line EXCEPT ![p] = <<>>]
    /\ dead' = (dead \/ holder = OperatorOf(p) \/ holder \in OfHost(p))
    /\ review' = [review EXCEPT ![p] = Nobody]
    /\ settled' = [w \in Writers |-> IF HostOf[w] = p /\ Unresolved(w) THEN "recovery" ELSE settled[w]]
    /\ verdict' = [r \in WRuns |->
           IF verdict[r] = "running" /\ \E w \in OfRun(r) : HostOf[w] = p /\ Unresolved(w)
           THEN "recovery_required" ELSE verdict[r]]
    /\ edited' = edited \ OfHost(p)
    /\ UNCHANGED <<holder, fence, content, effects>>

-----------------------------------------------------------------------------
(* resolveRecovery under the fence.  The operator of a process reviews one   *)
(* of its Runs, attests that its effects are over when they are, and the     *)
(* lease is held from the check of the intent until it is cleared.           *)

Settleable(r) == verdict[r] \in {"recovery_required", "resolved"}
Settle(r) == verdict' = [verdict EXCEPT ![r] = "resolved"]
Quiet(r) == \A w \in OfRun(r) : effects[w] = 0
HostOfRun(r) == HostOf[CHOOSE w \in Writers : RunOf[w] = r]

\* No intent, or somebody else's: the Run is settled and the fence left alone.
ResolveUnfenced(r) ==
    /\ review[HostOfRun(r)] = Nobody /\ verdict[r] = "recovery_required"
    /\ \/ fence = Nobody /\ UNCHANGED <<holder, dead>>
       \/ fence # Nobody /\ RunOf[fence] # r /\ LeaseFree /\ holder' = Nobody /\ dead' = FALSE
    /\ Settle(r)
    /\ UNCHANGED <<step, guard, settled, line, fence, content, effects, review, edited, count>>

\* The Run's own intent, with the operator's word that its effects are over.
OpenReview(r) ==
    LET p == HostOfRun(r) IN
    /\ review[p] = Nobody /\ fence # Nobody /\ RunOf[fence] = r /\ LeaseFree /\ Quiet(r)
    /\ holder' = OperatorOf(p) /\ dead' = FALSE
    /\ review' = [review EXCEPT ![p] = r]
    /\ UNCHANGED <<step, guard, settled, line, fence, content, effects, verdict, edited, count>>

\* The settlement commits (or was committed before: the same resolution replayed).
SettleReview(p) ==
    /\ review[p] # Nobody /\ verdict[review[p]] = "recovery_required"
    /\ Settle(review[p])
    /\ UNCHANGED <<step, guard, settled, line, holder, dead, fence, content, effects, review, edited, count>>

\* Then the receipt, the intent's removal and the lease's release; a Run that is not
\* waiting for recovery is refused, and only the lease is released.
CloseReview(p) ==
    /\ review[p] # Nobody /\ verdict[review[p]] # "recovery_required"
    /\ fence' = IF Settleable(review[p]) THEN Nobody ELSE fence
    /\ holder' = Nobody /\ review' = [review EXCEPT ![p] = Nobody]
    /\ UNCHANGED <<step, guard, settled, line, dead, content, effects, verdict, edited, count>>

FenceNext ==
    \/ \E w \in Writers :
        \/ Enqueue(w) \/ AbortQueued(w) \/ AcquireBusy(w) \/ AcquireUnobservable(w)
        \/ AcquireFenced(w) \/ Acquire(w) \/ StopHeld(w) \/ Dispatch(w)
        \/ TeamTool(w) \/ FinishWriter(w)
        \/ \E observable \in BOOLEAN : BeforeTool(w, observable) \/ AfterTool(w, observable)
        \/ \E e \in Endings(w) : EndWork(w, e)
    \/ \E r \in WRuns : EndRun(r) \/ ResolveUnfenced(r) \/ OpenReview(r)
    \/ \E p \in Hosts : CrashHost(p) \/ SettleReview(p) \/ CloseReview(p)
    \/ EditOutside

FenceSpec == FenceInit /\ [][FenceNext]_fenceVars

-----------------------------------------------------------------------------
(* Properties.                                                               *)

\* A tool effect that may still be writing to the project is fenced: the intent on disk
\* names its Attempt, whatever became of the Agent, the Run, the process or an operator's
\* review since.  So no second writer is let in beside it (acquire's check of the intent,
\* finish's and reconcile's removal of it).
EffectsAreFenced == \A w \in Writers : effects[w] > 0 => fence = w

\* What the write lease keeps: its files and queues are well formed, and what may write
\* is fenced (acquire, finish, reconcile of workspace-write-lease.ts).
FenceInv == FenceTypeOK /\ EffectsAreFenced

\* Within a process a writer waits for its turn and is never refused as busy by another
\* queued writer: the queue's tail waits for the earlier tickets even after one of them
\* was aborted.  Only another process or an operator's review makes it busy.
NotBusyWithItself == [][\A w \in Writers :
    (step[w] = "queued" /\ step'[w] = "done" /\ Turn(w) /\ line'[HostOf[w]] # <<>>)
        => holder \notin OfHost(HostOf[w]) \/ dead]_fenceVars

\* What somebody changed in the project between two of an Attempt's tools is not written
\* over by it: beforeTool compares the sources with the ones it last observed, and no
\* later tool of the Attempt starts.
OutsideEditKept == [][\A w \in Writers :
    (w \in edited /\ KindOf[w] = "agent") => effects'[w] <= effects[w]]_fenceVars
=============================================================================
