----------------------------- MODULE TeamStage ------------------------------
(* One TeamStage from admission to settlement: the driver that creates the   *)
(* native task, spawns the members, captures their outputs and settles the   *)
(* Attempt; the members' own Team tools; the cancellation coordinator; and   *)
(* the external native Team they all act on.  The canonical facts are the    *)
(* record r of RunRecord and its sidecar (rev, members, caps); one step is   *)
(* one store transaction, or one native call taking effect.                  *)
EXTENDS RunRecord, Sequences

CONSTANTS
  Members,    \* member ids; a member's spawn effect is named by its id
  Declared,   \* the declared members in order, the primary producer first
  Values,     \* structured outputs a member can report
  Tools,      \* the mutating Team tools members call in this instance
  MaxRev,     \* bound: native task revisions
  Rooms       \* bounds: how often the Lead wakes a member after a finished turn, and
              \* which of the Tools members call, in one behaviour

TaskTools == Tools \cap {"claim", "complete"}

ASSUME TeamAssumption ==
  /\ Tools \subseteq {"claim", "complete", "message"}
  /\ Effects = Members \cup Tools \cup {"create", "drain", "delete"}
  /\ Declared \in Seq(Members) /\ Len(Declared) = Cardinality(Members)
  /\ {Declared[i] : i \in DOMAIN Declared} = Members
  /\ Cardinality(Team) = 1 /\ None \notin Values /\ MaxRev \in Nat
  /\ Rooms \subseteq [wakes : Nat, tools : SUBSET Tools]

VARIABLES
  r,        \* the Run record with its stage and effect ledger
  rev,      \* the stage's task revision; 0 when no task is bound
  members,  \* the member snapshots: "none", "provisioning", "running", "inactive"
  caps,     \* the output artifact bound for each member
  native,   \* the native Team: task status and revision, agents
  calls,    \* how far each native call is, as its caller sees it
  got,      \* revision a task tool sent, then received; and the stage's at dispatch
  comp,     \* each member scope: completion proof, captured and last reported value
  sig,      \* the stage's abort signal
  ctl,      \* the Run's abort controller
  room,     \* what is left of the bounds
  drv,      \* the driver
  can       \* the cancellation coordinator

scopes == <<sig, comp>>
vars == <<r, rev, members, caps, native, calls, got, scopes, ctl, room, drv, can>>
canonical == <<rev, members, caps>>
outside == <<native, calls, got, room>>

Node == CHOOSE n \in Team : TRUE
Primary == Declared[1]
\* Collaborators are launched before the primary.
SpawnOrder == Tail(Declared) \o <<Primary>>
CALL_STATES == {"none", "sent", "ok", "error", "observed", "settled"}
Bound(m) == members[m] # "none"
\* The facts a verification reads and settleTeamStageAttempt compares again.
Snapshot == [effects |-> r.stage.effects, rev |-> rev, members |-> members, caps |-> caps]
NoSnapshot == [effects |-> [e \in Effects |-> "none"], rev |-> 0,
               members |-> [m \in Members |-> "none"], caps |-> [m \in Members |-> None]]
NoDriver == [pc |-> "done", e |-> "create", i |-> 1, known |-> FALSE, rev |-> 0, seen |-> NoSnapshot]
NoProof == [st |-> "none", value |-> None, last |-> None]
BadProof == [NoProof EXCEPT !.st = "bad"]
NoTask == [rev |-> 0, prev |-> 0]
NoCancel == [pc |-> "idle", settle |-> FALSE, rev |-> 0, targets |-> {}]

\* A Run whose TeamStage node has just recorded its dispatch intent.
TeamInit ==
  /\ r = RecordIntent(SetBindingDigests(NewRun(FALSE)), Node)
  /\ rev = 0 /\ members = [m \in Members |-> "none"] /\ caps = [m \in Members |-> None]
  /\ native = [task |-> "none", rev |-> 0, agent |-> [m \in Members |-> "none"]]
  /\ calls = [e \in Effects |-> "none"] /\ got = [t \in TaskTools |-> NoTask]
  /\ comp = [m \in Members |-> NoProof]
  /\ sig = FALSE /\ ctl = FALSE /\ room \in Rooms
  /\ drv = [NoDriver EXCEPT !.pc = "bind"] /\ can = NoCancel

\* Aborting the stage also rejects every completion a scope still proves.
Abort == sig' = TRUE /\ comp' = [m \in Members |-> BadProof]

\* A store transaction: refused, and nothing written, unless it applies.
CanPut(ok, next) == ok /\ Applies(r, next)
Put(next) == r' = next
-----------------------------------------------------------------------------
(* The effect ledger around a native call: intent before, result after.      *)

CanSend(e) == ~Terminal(r) /\ EffectIntentOk(r, e)
Send(e) == Put(SetEffect(r, e, "pending")) /\ calls' = [calls EXCEPT ![e] = "sent"]
\* The outcome is only recorded on an intent that is still unresolved; an
\* unknown one moves the whole stage to recovery_required.
CanRecord(e) == ~Terminal(r) /\ EffectPending(r, e)
RecoverEffectQuietly(e) == Put(IF CanRecord(e) THEN SetEffect(r, e, "recovery_required") ELSE r)
RecoverEffect(e) == Put(IF CanRecord(e) THEN EffectRecovery(r, e) ELSE r)

\* The native Team executes calls it has received, in any order, and even
\* after their caller gave up; a failed call may or may not have taken effect.
Wake(m) ==
  /\ native' = [native EXCEPT !.agent[m] = "running"]
  /\ comp' = [comp EXCEPT ![m].st = IF @ \in {"flushing", "verified"} THEN "bad" ELSE @]
NoWake == UNCHANGED <<native, comp>>

NativeCreate ==
  /\ calls["create"] = "sent"
  /\ \E answer \in {"ok", "error"} : calls' = [calls EXCEPT !["create"] = answer]
  /\ \/ native' = [native EXCEPT !.task = "pending", !.rev = 1]
     \/ calls'["create"] = "error" /\ UNCHANGED native
  /\ UNCHANGED <<r, rev, members, caps, got, scopes, ctl, room, drv, can>>

\* requireArtifactStageWritable.
Writable == r.state \in {"queued", "running", "waiting_input"} /\ StageOpen(r)
            /\ ~r.stage.cancel /\ ~r.stage.recovery /\ r.att[Node].res = "none"

\* spawnTeammate: the awaited creation listener binds the member, or vetoes
\* the creation and aborts the stage.
NativeSpawn(m) ==
  /\ calls[m] = "sent"
  /\ IF ~sig /\ Writable /\ r.stage.effects[m] \in {"pending", "succeeded"} /\ ~Bound(m)
     THEN /\ native' = [native EXCEPT !.agent[m] = "running"]
          /\ members' = [members EXCEPT ![m] = "provisioning"]
          /\ \E answer \in {"ok", "error"} : calls' = [calls EXCEPT ![m] = answer]
          /\ UNCHANGED scopes
     ELSE /\ calls' = [calls EXCEPT ![m] = "error"]
          /\ Abort
          /\ UNCHANGED <<native, members>>
  /\ UNCHANGED <<r, rev, caps, got, ctl, room, drv, can>>

\* A claim or a completion: a compare-and-swap on the native revision.
NativeTask(t) ==
  /\ calls[t] = "sent"
  /\ \/ /\ native.rev = got[t].rev /\ native.rev < MaxRev
        /\ native.task \in IF t = "claim" THEN {"pending"} ELSE {"pending", "in_progress"}
        /\ native' = [native EXCEPT !.rev = @ + 1,
                        !.task = IF t = "claim" THEN "in_progress" ELSE "completed"]
        /\ got' = [got EXCEPT ![t].rev = @ + 1]
        /\ \E answer \in {"ok", "error"} : calls' = [calls EXCEPT ![t] = answer]
     \/ calls' = [calls EXCEPT ![t] = "error"] /\ UNCHANGED <<native, got>>
  /\ UNCHANGED <<r, rev, members, caps, scopes, ctl, room, drv, can>>

\* A message wakes the peer it reaches.
NativeMessage ==
  /\ "message" \in Tools /\ calls["message"] = "sent"
  /\ \/ /\ calls' = [calls EXCEPT !["message"] = "ok"]
        /\ \E m \in Members : IF native.agent[m] = "idle" THEN Wake(m) ELSE NoWake
     \/ calls' = [calls EXCEPT !["message"] = "error"] /\ NoWake
  /\ UNCHANGED <<r, rev, members, caps, got, sig, ctl, room, drv, can>>

NativeDrain ==
  /\ calls["drain"] = "sent"
  /\ \/ /\ calls' = [calls EXCEPT !["drain"] = "ok"]
        /\ native' = [native EXCEPT !.agent =
                        [m \in Members |-> IF m \in can.targets THEN "none" ELSE @[m]]]
     \/ calls' = [calls EXCEPT !["drain"] = "error"] /\ UNCHANGED native
  /\ UNCHANGED <<r, rev, members, caps, got, scopes, ctl, room, drv, can>>

NativeDelete ==
  /\ calls["delete"] = "sent"
  /\ \/ /\ native.rev = can.rev /\ native.task # "deleted"
        /\ native' = [native EXCEPT !.task = "deleted", !.rev = @ + 1]
        /\ \E answer \in {"ok", "error"} : calls' = [calls EXCEPT !["delete"] = answer]
     \/ calls' = [calls EXCEPT !["delete"] = "error"] /\ UNCHANGED native
  /\ UNCHANGED <<r, rev, members, caps, got, scopes, ctl, room, drv, can>>

\* The Lead and other Team tools share the native Team: they may edit the task
\* and wake a member that finished its turn.
OutsideEdit ==
  /\ native.task \in {"pending", "in_progress", "completed"} /\ native.rev < MaxRev
  /\ native' = [native EXCEPT !.rev = @ + 1]
  /\ UNCHANGED <<r, rev, members, caps, calls, got, scopes, ctl, room, drv, can>>
LeadWakes(m) ==
  /\ native.agent[m] = "idle" /\ room.wakes > 0 /\ ~sig
  /\ room' = [room EXCEPT !.wakes = @ - 1] /\ Wake(m)
  /\ UNCHANGED <<r, rev, members, caps, calls, got, sig, ctl, drv, can>>

Native ==
  \/ NativeCreate \/ NativeMessage \/ NativeDrain \/ NativeDelete
  \/ \E m \in Members : NativeSpawn(m)
  \/ \E t \in TaskTools : NativeTask(t)
-----------------------------------------------------------------------------
(* A member: its turns, its durable Team tools and the scope that watches it. *)

\* A turn ends with a structured output (v) or without one (None).  The first
\* completed output starts the scope's completion proof.  After an abort no
\* output is read any more.
MemberEnds(m, v) ==
  /\ native.agent[m] = "running" /\ (sig => v = None)
  /\ native' = [native EXCEPT !.agent[m] = "idle"]
  /\ comp' = IF sig THEN comp
             ELSE IF v # None /\ comp[m].st = "none"
             THEN [comp EXCEPT ![m] = [st |-> "flushing", value |-> v, last |-> v]]
             ELSE [comp EXCEPT ![m].last = v]
  /\ UNCHANGED <<r, rev, members, caps, calls, got, sig, ctl, room, drv, can>>

\* The session flush returns: the proof holds if the agent is still idle and
\* its log unchanged, and fails otherwise or when the flush is unverified.
MemberFlushed(m) ==
  /\ comp[m].st = "flushing" /\ ~sig
  /\ \E st \in {"verified", "bad"} :
       /\ st = "verified" => native.agent[m] = "idle"
       /\ comp' = [comp EXCEPT ![m].st = st]
  /\ UNCHANGED <<r, rev, members, caps, native, calls, got, sig, ctl, room, drv, can>>

\* The around-dispatch layer of a member's mutating Team tool.
ToolSends(m, t) ==
  /\ native.agent[m] = "running" /\ Bound(m) /\ ~sig
  /\ t \in room.tools /\ (t \in TaskTools => m = Primary)
  /\ CanSend(t) /\ Send(t)
  /\ got' = IF t \in TaskTools THEN [got EXCEPT ![t] = [rev |-> native.rev, prev |-> rev]] ELSE got
  /\ UNCHANGED <<rev, members, caps, native, scopes, ctl, room, drv, can>>

\* observeTeamTaskRevision: a local compare-and-swap, refused after the cutoff.
ObserveOk(seen, expected) ==
  ~Terminal(r) /\ StageOpen(r) /\ rev = expected /\ seen >= expected
ToolObserves(t) ==
  /\ calls[t] = "ok" /\ ObserveOk(got[t].rev, got[t].prev)
  /\ rev' = got[t].rev /\ calls' = [calls EXCEPT ![t] = "observed"]
  /\ UNCHANGED <<r, members, caps, native, got, scopes, ctl, room, drv, can>>
ToolRecords(t) ==
  /\ calls[t] = IF t \in TaskTools THEN "observed" ELSE "ok"
  /\ CanRecord(t) /\ Put(SetEffect(r, t, "succeeded"))
  /\ calls' = [calls EXCEPT ![t] = "settled"]
  /\ got' = IF t \in TaskTools THEN [got EXCEPT ![t] = NoTask] ELSE got
  /\ UNCHANGED <<rev, members, caps, native, scopes, ctl, room, drv, can>>
\* An error, a refused observation or a refused result: the effect is unknown
\* and the stage is aborted.
ToolFails(t) ==
  /\ \/ calls[t] = "error"
     \/ t \in TaskTools /\ calls[t] = "ok" /\ ~ObserveOk(got[t].rev, got[t].prev)
     \/ calls[t] = (IF t \in TaskTools THEN "observed" ELSE "ok") /\ ~CanRecord(t)
  /\ RecoverEffect(t) /\ calls' = [calls EXCEPT ![t] = "settled"] /\ Abort
  /\ got' = IF t \in TaskTools THEN [got EXCEPT ![t] = NoTask] ELSE got
  /\ UNCHANGED <<rev, members, caps, native, ctl, room, drv, can>>

MemberStep ==
  \/ \E m \in Members : \/ \E v \in Values \cup {None} : MemberEnds(m, v)
                        \/ MemberFlushed(m)
                        \/ \E t \in Tools : ToolSends(m, t)
  \/ \E t \in TaskTools : ToolObserves(t)
  \/ \E t \in Tools : ToolRecords(t) \/ ToolFails(t)
-----------------------------------------------------------------------------
(* The driver: TeamStageDriver.execute and the catch of executeRunNode.      *)

Goto(pc) == drv' = IF pc = "done" THEN NoDriver ELSE [drv EXCEPT !.pc = pc]
\* Leaving execute aborts the stage's signal for every surviving continuation.
Fail(known) == drv' = [NoDriver EXCEPT !.pc = "fail", !.known = known] /\ Abort
FailNoEffect(known) == Fail(known) /\ UNCHANGED <<r, canonical, outside, ctl, can>>
SetMember(m, st) == members' = [members EXCEPT ![m] = st]
Pass(pc) == Goto(pc) /\ UNCHANGED <<r, canonical, outside, scopes, ctl, can>>

DrvBind ==
  /\ drv.pc = "bind"
  /\ IF ~sig /\ CanPut(BindTeamStageOk(r, Node), BindTeamStage(r, Node))
     THEN /\ Put(BindTeamStage(r, Node)) /\ Goto("gate")
          /\ UNCHANGED <<canonical, outside, scopes, ctl, can>>
     ELSE FailNoEffect(FALSE)

\* assertDispatch, before every external step of the driver.
Dispatching == ~sig /\ r.state = "running" /\ r.stage.st \in {"provisioning", "active"}
DrvGate ==
  /\ drv.pc = "gate"
  /\ IF Dispatching THEN Pass("send") ELSE FailNoEffect(FALSE)

\* The intent is a transaction of its own: the cutoff may fall before it.
DrvSend ==
  /\ drv.pc = "send"
  /\ IF CanSend(drv.e)
     THEN Send(drv.e) /\ Goto("wait") /\ UNCHANGED <<canonical, native, got, room, scopes, ctl, can>>
     ELSE FailNoEffect(FALSE)

\* The native call races the abort signal; every exception is an unknown.
DrvAnswer ==
  /\ drv.pc = "wait"
  /\ \/ /\ calls[drv.e] = "ok" /\ CanRecord(drv.e)
        /\ Put(SetEffect(r, drv.e, "succeeded"))
        /\ Goto(IF drv.e = "create" THEN "bindTask" ELSE "member")
        /\ calls' = [calls EXCEPT ![drv.e] = "settled"]
        /\ UNCHANGED <<canonical, native, got, room, scopes, ctl, can>>
     \/ /\ calls[drv.e] = "error" \/ sig \/ (calls[drv.e] = "ok" /\ ~CanRecord(drv.e))
        /\ RecoverEffect(drv.e) /\ Fail(FALSE)
        /\ UNCHANGED <<canonical, outside, ctl, can>>

\* bindTeamTask, then the reservation of every declared member.
DrvBindTask ==
  /\ drv.pc = "bindTask"
  /\ IF CanPut(BindTeamTaskOk(r), BindTeamTask(r))
     THEN /\ Put(BindTeamTask(r)) /\ rev' = 1
          /\ drv' = [drv EXCEPT !.pc = "gate", !.e = SpawnOrder[1], !.i = 1]
          /\ UNCHANGED <<members, caps, outside, scopes, ctl, can>>
     ELSE FailNoEffect(FALSE)

\* upsertTeamMember after a spawn; the next member, or the completion barrier.
DrvMember ==
  /\ drv.pc = "member"
  /\ IF ~Terminal(r) /\ StageOpen(r)
     THEN /\ SetMember(drv.e, IF native.agent[drv.e] = "running" THEN "running" ELSE "inactive")
          /\ drv' = IF drv.i < Len(SpawnOrder)
                    THEN [drv EXCEPT !.pc = "gate", !.e = SpawnOrder[drv.i + 1], !.i = @ + 1]
                    ELSE [drv EXCEPT !.pc = "finish"]
          /\ UNCHANGED <<r, rev, caps, outside, scopes, ctl, can>>
     ELSE FailNoEffect(FALSE)

\* finish of every member scope: all idle and proved, or the first rejection in
\* declaration order decides how the stage fails.
Finished(m) == native.agent[m] # "running" /\ comp[m].st # "flushing"
FirstRejected == CHOOSE i \in DOMAIN Declared :
  /\ comp[Declared[i]].st # "verified"
  /\ \A j \in 1..(i - 1) : comp[Declared[j]].st = "verified"
DrvFinish ==
  /\ drv.pc = "finish" /\ (sig \/ \A m \in Members : Finished(m))
  /\ IF ~sig /\ \A m \in Members : comp[m].st = "verified"
     THEN /\ drv' = [drv EXCEPT !.pc = "quiesce", !.i = 1]
          /\ UNCHANGED <<r, canonical, outside, scopes, ctl, can>>
     ELSE FailNoEffect(~sig /\ comp[Declared[FirstRejected]].st = "none")

AssertQuiescent(m) == ~sig /\ comp[m].st = "verified" /\ native.agent[m] # "running"
\* The roster row is inactive and the scope still quiescent: the member's
\* snapshot is refreshed and the artifact's binding facts are read.
DrvQuiesce ==
  /\ drv.pc = "quiesce"
  /\ LET m == Declared[drv.i] IN
     IF Dispatching /\ StageOpen(r) /\ AssertQuiescent(m)
     THEN /\ SetMember(m, "inactive") /\ drv' = [drv EXCEPT !.pc = "capture", !.rev = rev]
          /\ UNCHANGED <<r, rev, caps, outside, scopes, ctl, can>>
     ELSE FailNoEffect(FALSE)

\* commitCapture: the bytes are published first; then the reference is bound
\* if the stage is writable and nothing it was computed from has changed.
CaptureOk(m) == Writable /\ rev = drv.rev /\ members[m] = "inactive" /\ r.stage.effects[m] = "succeeded"
DrvCapture ==
  /\ drv.pc = "capture"
  /\ LET m == Declared[drv.i] IN
     \/ /\ CaptureOk(m)
        /\ caps' = [caps EXCEPT ![m] = comp[m].value]
        /\ drv' = IF drv.i < Len(Declared) THEN [drv EXCEPT !.pc = "quiesce", !.i = @ + 1]
                  ELSE [drv EXCEPT !.pc = "task"]
        /\ UNCHANGED <<r, rev, members, outside, scopes, ctl, can>>
     \/ FailNoEffect(TRUE)

\* The native task must be completed; its revision is then observed.
DrvTask ==
  /\ drv.pc = "task"
  /\ IF ~Dispatching THEN FailNoEffect(FALSE)
     ELSE IF native.task # "completed" THEN FailNoEffect(TRUE)
     ELSE /\ drv' = [drv EXCEPT !.pc = "observe", !.rev = native.rev, !.seen.rev = rev]
          /\ UNCHANGED <<r, canonical, outside, scopes, ctl, can>>
DrvObserve ==
  /\ drv.pc = "observe"
  /\ IF ObserveOk(drv.rev, drv.seen.rev)
     THEN rev' = drv.rev /\ Goto("verify") /\ UNCHANGED <<r, members, caps, outside, scopes, ctl, can>>
     ELSE FailNoEffect(FALSE)

\* verifyStage: every reserved member captured, all captures equal, the task
\* observation current and no effect unresolved.
Agreement == \A m \in Members : caps[m] # None /\ caps[m] = caps[Primary]
VerifyOk ==
  /\ rev = drv.rev /\ Agreement /\ ~UnknownEffect(r)
  /\ ~r.stage.cancel /\ ~r.stage.recovery /\ (StageOpen(r) \/ r.stage.st = "succeeded")
  /\ r.state \in {"queued", "running", "waiting_input", "succeeded"}
DrvVerify ==
  /\ drv.pc = "verify"
  /\ IF VerifyOk THEN Pass("quiet") ELSE FailNoEffect(TRUE)
DrvQuiet ==
  /\ drv.pc = "quiet"
  /\ IF \A m \in Members : AssertQuiescent(m) THEN Pass("accept") ELSE FailNoEffect(FALSE)
\* acceptTeamOutput verifies again and keeps the stage it read.
DrvAccept ==
  /\ drv.pc = "accept"
  /\ IF VerifyOk /\ \A m \in Members : members[m] = "inactive"
     THEN /\ drv' = [drv EXCEPT !.pc = "settle", !.seen = Snapshot]
          /\ UNCHANGED <<r, canonical, outside, scopes, ctl, can>>
     ELSE FailNoEffect(TRUE)
DrvSettle ==
  /\ drv.pc = "settle"
  /\ IF SettleTeamStageAttemptOk(r) /\ ~Terminal(r) /\ Snapshot = drv.seen
     THEN Put(SettleTeamStageAttempt(r)) /\ Goto("leave")
          /\ UNCHANGED <<canonical, outside, scopes, ctl, can>>
     ELSE FailNoEffect(TRUE)
\* The finally of execute, one step after the settlement committed.
DrvLeave ==
  /\ drv.pc = "leave" /\ Goto("close") /\ Abort
  /\ UNCHANGED <<r, canonical, outside, ctl, can>>

\* cancelTeamRun: one coordinator per Run, joined by later callers.
JoinCancel ==
  can' = IF can.pc = "idle" THEN [NoCancel EXCEPT !.pc = "begin", !.settle = TRUE]
         ELSE [can EXCEPT !.settle = TRUE]

\* The catch of executeRunNode: a cancellation that owns the settlement is
\* joined; otherwise the failure is known, or the stage needs recovery.
DrvFail ==
  /\ drv.pc = "fail"
  /\ IF Terminal(r) THEN Pass("done")
     ELSE IF r.state = "cancelling" /\ r.stage.cancel /\ ctl
     THEN JoinCancel /\ Goto("joined") /\ UNCHANGED <<r, canonical, outside, scopes, ctl>>
     ELSE LET known == drv.known /\ ~UnknownEffect(r) /\ r.state # "cancelling" /\ ~ctl
          IN  /\ drv' = [drv EXCEPT !.known = known,
                           !.pc = IF StageBound(r) /\ r.stage.st # "recovery_required"
                                  THEN "mark" ELSE "close"]
              /\ UNCHANGED <<r, canonical, outside, scopes, ctl, can>>
DrvMark ==
  /\ drv.pc = "mark"
  /\ LET to == IF drv.known THEN "failed" ELSE "recovery_required" IN
     IF ~Terminal(r) /\ UpdateTeamStageOk(r, to)
     THEN Put(UpdateTeamStage(r, to)) /\ Goto("close") /\ UNCHANGED <<canonical, outside, scopes, ctl, can>>
     ELSE drv' = [drv EXCEPT !.pc = "close", !.known = FALSE]
          /\ UNCHANGED <<r, canonical, outside, scopes, ctl, can>>
\* Back in driveRun: the Attempt's result and the Run's terminal.
DrvClose ==
  /\ drv.pc = "close" /\ Goto("done")
  /\ LET failed == RecordResult(r, Node, "failed", None)
         to == IF r.att[Node].st = "succeeded" THEN "succeeded"
               ELSE IF drv.known THEN "failed" ELSE "recovery_required"
         s  == IF to = "failed" /\ RecordResultOk(r, Node) THEN failed ELSE r
     IN  IF ~Terminal(r) /\ SettleTerminalOk(s, to) /\ CanTransitionRun(s.state, SettleTerminal(s, to).state)
         THEN Put(SettleTerminal(s, to)) ELSE Put(r)
  /\ UNCHANGED <<canonical, outside, scopes, ctl, can>>
\* After a joined cancellation driveRun looks at the Run again: it joins once
\* more, or settles a Run whose stage has stopped.
DrvJoined ==
  /\ drv.pc = "joined" /\ can.pc = "idle"
  /\ IF Terminal(r) \/ r.state = "recovery_required" THEN Pass("done")
     ELSE IF StageStopped(r)
     THEN /\ Put(SettleTerminal(r, IF SettleTerminalOk(r, "cancelled") THEN "cancelled"
                                   ELSE "recovery_required"))
          /\ Goto("done") /\ UNCHANGED <<canonical, outside, scopes, ctl, can>>
     ELSE JoinCancel /\ UNCHANGED <<r, canonical, outside, scopes, ctl, drv>>

DriverStep ==
  \/ DrvBind \/ DrvGate \/ DrvSend \/ DrvAnswer \/ DrvBindTask \/ DrvMember \/ DrvFinish
  \/ DrvQuiesce \/ DrvCapture \/ DrvTask \/ DrvObserve \/ DrvVerify \/ DrvQuiet \/ DrvAccept
  \/ DrvSettle \/ DrvLeave \/ DrvFail \/ DrvMark \/ DrvClose \/ DrvJoined
-----------------------------------------------------------------------------
(* Cancellation: the two requests, cancelTeamRun and cancelOwnedTeamStage.    *)

drvAndStage == <<canonical, native, got, room, drv>>
CanGoto(pc) == can' = [can EXCEPT !.pc = pc]
CanPass(pc) == CanGoto(pc) /\ UNCHANGED <<r, calls, scopes, ctl, drvAndStage>>

\* cancelRun commits the Run's cutoff first; the controllers are aborted after.
CancelRun ==
  /\ can.pc = "idle" /\ drv.pc # "done" /\ RequestCancelOk(r) /\ Applies(r, RequestCancel(r))
  /\ Put(RequestCancel(r))
  /\ can' = [NoCancel EXCEPT !.pc = "abort", !.settle = TRUE]
  /\ UNCHANGED <<calls, scopes, ctl, drvAndStage>>
CanAbort ==
  /\ can.pc = "abort" /\ Abort /\ ctl' = TRUE
  /\ CanGoto(IF StageBound(r) THEN "begin" ELSE "idle")
  /\ UNCHANGED <<r, calls, drvAndStage>>
\* cancelTeamStage: a stage-only cutoff, or a retry of one already requested;
\* the driver keeps running.
CancelStage ==
  /\ can.pc = "idle" /\ ~Terminal(r) /\ StageBound(r) /\ ~StageStopped(r)
  /\ Put(IF RequestTeamStageCancelOk(r) THEN RequestTeamStageCancel(r) ELSE r)
  /\ can' = [NoCancel EXCEPT !.pc = "begin"]
  /\ UNCHANGED <<calls, scopes, ctl, drvAndStage>>
\* A cancelRun that finds a stage-only cancellation under way joins it.
JoinRun ==
  /\ can.pc \notin {"idle", "abort"} /\ ~can.settle /\ drv.pc # "done"
  /\ RequestCancelOk(r) /\ Applies(r, RequestCancel(r))
  /\ Put(RequestCancel(r)) /\ Abort /\ ctl' = TRUE
  /\ can' = [can EXCEPT !.settle = TRUE]
  /\ UNCHANGED <<calls, drvAndStage>>

\* performTeamCancellation: a stopped stage is only settled; a Lead that is no
\* longer the live one makes the stage unrecoverable by this process.
CanLostLead ==
  /\ can.pc = "begin" /\ ~StageStopped(r) /\ ~Terminal(r)
  /\ Put(UpdateTeamStage(r, "recovery_required")) /\ CanGoto("end")
  /\ UNCHANGED <<calls, scopes, ctl, drvAndStage>>
\* cancelOwnedTeamStage: the targets and the task revision of the cutoff.
CanCutoff ==
  /\ can.pc = "begin"
  /\ IF StageStopped(r) \/ Terminal(r) THEN CanPass("end")
     ELSE /\ Put(UpdateTeamStage(r, "cancelling"))
          /\ can' = [can EXCEPT !.pc = "interrupt", !.rev = rev, !.targets = {m \in Members : Bound(m)}]
          /\ UNCHANGED <<calls, scopes, ctl, drvAndStage>>

\* recoverUnknown and recoverPending: every pending effect becomes unknown,
\* and the stage requires recovery.
RecoverPending(rec) ==
  [rec EXCEPT !.stage = [@ EXCEPT !.st = "recovery_required", !.recovery = TRUE,
     !.effects = [e \in Effects |-> IF @[e] = "pending" THEN "recovery_required" ELSE @[e]]]]
CanRecover ==
  /\ Put(IF Terminal(r) \/ r.stage.st = "succeeded" THEN r ELSE RecoverPending(r)) /\ CanGoto("end")
  /\ UNCHANGED <<calls, scopes, ctl, drvAndStage>>

\* interrupt stops the current turn of each owned member.
Interrupted == {m \in can.targets : native.agent[m] = "running"}
CanInterrupt ==
  /\ can.pc = "interrupt"
  /\ \/ /\ native' = [native EXCEPT !.agent =
                [m \in Members |-> IF m \in Interrupted THEN "idle" ELSE @[m]]]
        /\ comp' = [m \in Members |-> IF m \in Interrupted THEN BadProof ELSE comp[m]]
        /\ CanGoto("check") /\ UNCHANGED <<r, calls, got, sig, ctl, canonical, room, drv>>
     \/ CanRecover
CanCheck ==
  /\ can.pc = "check"
  /\ IF \E e \in Effects : r.stage.effects[e] = "pending" THEN CanRecover
     ELSE CanPass(IF can.targets # {} THEN "drain" ELSE "drift")

\* A cancellation effect is dispatched once; a replay continues past one that
\* succeeded and gives up on any other.
CanDispatch(e, wait, next) ==
  IF r.stage.effects[e] = "none"
  THEN IF CanSend(e) THEN Send(e) /\ CanGoto(wait) /\ UNCHANGED <<scopes, ctl, drvAndStage>>
       ELSE CanPass("end")
  ELSE IF r.stage.effects[e] = "succeeded" THEN CanPass(next) ELSE CanRecover
CanAnswer(e, next) ==
  /\ calls[e] \in {"ok", "error"}
  /\ IF calls[e] = "ok" /\ CanRecord(e)
     THEN Put(SetEffect(r, e, "succeeded")) /\ CanGoto(next)
     ELSE RecoverEffect(e) /\ CanGoto("end")
  /\ calls' = [calls EXCEPT ![e] = "settled"]
  /\ UNCHANGED <<scopes, ctl, drvAndStage>>
CanDrain == can.pc = "drain" /\ CanDispatch("drain", "drainWait", "drift")
CanDrained == can.pc = "drainWait" /\ CanAnswer("drain", "drift")
CanDrift ==
  /\ can.pc = "drift"
  /\ IF can.rev = 0 THEN CanPass("finish") ELSE IF rev # can.rev THEN CanRecover ELSE CanPass("delete")
CanDelete == can.pc = "delete" /\ CanDispatch("delete", "deleteWait", "finish")
CanDeleted == can.pc = "deleteWait" /\ CanAnswer("delete", "finish")
\* The last update may be refused: another actor required recovery meanwhile.
CanFinish ==
  /\ can.pc = "finish" /\ CanGoto("end")
  /\ Put(IF Terminal(r) THEN r
         ELSE UpdateTeamStage(r, IF UpdateTeamStageOk(r, "cancelled") THEN "cancelled"
                                 ELSE "recovery_required"))
  /\ UNCHANGED <<calls, scopes, ctl, drvAndStage>>
\* The caller that owns the Run settles it by what the stage became.
CanEnd ==
  /\ can.pc = "end" /\ can' = NoCancel
  /\ LET to == IF r.stage.st = "recovery_required" THEN "recovery_required" ELSE "cancelled"
         settles == can.settle /\ r.state = "cancelling" /\ r.stage.st \in STAGE_SETTLED \cup {"recovery_required"}
     IN  Put(IF ~settles THEN r
             ELSE IF SettleTerminalOk(r, to) THEN SettleTerminal(r, to)
             ELSE SettleTerminal(UpdateTeamStage(r, "recovery_required"), "recovery_required"))
  /\ UNCHANGED <<calls, scopes, ctl, drvAndStage>>

CancelStep ==
  \/ CanAbort \/ CanCutoff \/ CanInterrupt \/ CanCheck \/ CanDrain \/ CanDrained
  \/ CanDrift \/ CanDelete \/ CanDeleted \/ CanFinish \/ CanEnd

\* The host process stops: both actors and every agent are gone, calls end
\* unanswered.  The next start reconciles the Run; its driver is not resumed.
Crash ==
  /\ drv.pc # "done" \/ can.pc # "idle"
  /\ drv' = NoDriver /\ can' = NoCancel /\ Abort /\ ctl' = TRUE
  /\ calls' = [e \in Effects |-> IF calls[e] = "none" THEN "none" ELSE "settled"]
  /\ native' = [native EXCEPT !.agent = [m \in Members |-> IF @[m] = "none" THEN "none" ELSE "idle"]]
  /\ Put(IF Terminal(r) THEN r ELSE ReconcileOnStart(r))
  /\ got' = [t \in TaskTools |-> NoTask] /\ UNCHANGED <<canonical, room>>

Request == CancelRun \/ CancelStage \/ JoinRun \/ CanLostLead
SteadyNext ==
  \/ DriverStep \/ CancelStep \/ MemberStep \/ Native \/ Request \/ OutsideEdit
  \/ \E m \in Members : LeadWakes(m)
TeamNext == SteadyNext \/ Crash
TeamSpec == TeamInit /\ [][TeamNext]_vars
-----------------------------------------------------------------------------
TeamTypeOK ==
  /\ r \in RunRecords /\ rev \in 0..MaxRev
  /\ members \in [Members -> {"none", "provisioning", "running", "inactive"}]
  /\ caps \in [Members -> Values \cup {None}]
  /\ calls \in [Effects -> CALL_STATES] /\ sig \in BOOLEAN /\ ctl \in BOOLEAN
  /\ comp \in [Members -> [st: {"none", "flushing", "verified", "bad"}, value: Values \cup {None},
                          last: Values \cup {None}]]

\* An effect whose outcome is unknown keeps its stage in recovery_required: no
\* cancellation, late answer, failure or restart turns the stage into a settled one.
UnknownNeverSettles ==
  (\E e \in Effects : r.stage.effects[e] = "recovery_required") => r.stage.st = "recovery_required"

\* A Run that reports "cancelled" has nothing of its stage left running: no
\* native call is in flight, the members it bound are released, and the task it
\* bound is deleted.
CancelledIsClean ==
  r.state = "cancelled" /\ StageBound(r) =>
    /\ \A e \in Effects : calls[e] # "sent"
    /\ r.stage.st = "cancelled" =>
         /\ \A m \in Members : Bound(m) => native.agent[m] = "none"
         /\ rev # 0 => native.task = "deleted"

\* No native effect is sent a second time: not by a retried cancellation, not
\* by a coordinator that starts after a restart, not by a second actor.
NeverResent ==
  [][\A e \in DOMAIN calls : calls[e] # "none" => (calls'[e] = "sent" => calls[e] = "sent")]_vars

\* Once the cutoff is committed the stage's task revision, members and captures
\* stay what the cancellation was given, whatever members and driver still do.
CutoffFreezes == [][r.stage.cancel => UNCHANGED canonical]_vars

\* When the driver passes its last quiescence check every capture is the last
\* thing its member said: a member woken after its capture is noticed.
QuietIsCurrent ==
  [][drv.pc = "quiet" /\ drv'.pc = "accept" =>
       \A m \in DOMAIN caps : caps[m] = comp[m].last /\ native.agent[m] # "running"]_vars

\* An accepted stage has an exact ledger: every native call that was ever sent
\* is recorded as succeeded, and all members agreed on the one value.
AcceptedExactly ==
  [][r.stage.st # "succeeded" /\ r'.stage.st = "succeeded" =>
       /\ \A e \in DOMAIN calls : calls[e] # "none" <=> r.stage.effects[e] = "succeeded"
       /\ Agreement]_vars

=============================================================================
