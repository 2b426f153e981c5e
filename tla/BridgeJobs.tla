----------------------------- MODULE BridgeJobs -----------------------------
(* One harness-bridge process: the job registry (jobs.rs), the supervisor    *)
(* task of each job (supervisor.rs), the MCP calls that submit, await and    *)
(* cancel jobs, process shutdown (main.rs), and the operating system's       *)
(* processes.  The runtime has several threads: a step is one critical       *)
(* section or one await point, and any task may run between two steps.       *)
EXTENDS Integers, FiniteSets

CONSTANTS
  Requests,    \* request ids chosen by controllers
  Calls,       \* MCP calls under way at the same time
  MaxActive,   \* config.max_active_jobs
  MaxRetained, \* config.max_retained_jobs
  MaxEvents,   \* bound on wait and cancel calls, faults and shutdowns
  MaxWork,     \* bound on these and the jobs together
  None

Reasons == {"user", "deadline", "shutdown"}
Outcomes == {"completed", "failed"}  \* needs_input is reported like a failure
Statuses == Outcomes \cup {"cancelled", "timed_out", "interrupted"}

ASSUME BridgeAssumption ==
  /\ MaxActive \in Nat \ {0} /\ MaxRetained \in Nat \ {0} /\ {MaxEvents, MaxWork} \subseteq Nat
  /\ None \notin Requests /\ None \notin 1 .. MaxRetained /\ None \notin Reasons \cup Statuses

Jobs == 1 .. MaxRetained

VARIABLES
  requests, \* State.requests: the job of a request id
  jobs,     \* State.jobs with the fields of Job
  active,   \* State.active: the slots in use
  sup,      \* the supervisor task of a job
  os,       \* processes of a job: alive, signalled, and how the worker ended
  calls,    \* the MCP calls under way
  events,   \* wait and cancel calls, faults and shutdowns so far
  stop      \* Registry.shutdown and the end of the process

brVars == <<requests, jobs, active, sup, os, calls, events, stop>>

(* A worker and a descendant in its process group.  One that left the group  *)
(* shows only by holding the output pipes open until the drain timer.        *)
Procs == {"worker", "helper"}
Optional(S) == S \cup {None}

JobRecord == [phase: {"none", "accepted", "running", "finished"},
              req: Optional(Requests), status: Optional(Statuses), confirmed: BOOLEAN,
              reason: Optional(Reasons), cancel: BOOLEAN, tree: BOOLEAN,
              released: BOOLEAN, version: 0 .. 1]
NoJob == [phase |-> "none", req |-> None, status |-> None, confirmed |-> FALSE,
          reason |-> None, cancel |-> FALSE, tree |-> FALSE, released |-> FALSE, version |-> 0]

SupSteps == {"none", "start", "plan", "spawn", "attach", "reap", "loop", "confirm",
             "settle", "notify", "done"}
Supervisor == [pc: SupSteps, exit: BOOLEAN, open: BOOLEAN, seen: BOOLEAN, fired: BOOLEAN,
               native: Optional(Outcomes), status: Optional(Statuses), confirmed: BOOLEAN]
NoSupervisor == [pc |-> "none", exit |-> FALSE, open |-> FALSE, seen |-> FALSE, fired |-> FALSE,
                 native |-> None, status |-> None, confirmed |-> FALSE]

CallSteps == {"idle", "freeze", "check", "arm", "blocked", "cancel", "poll", "release"}
Call == [pc: CallSteps, req: Optional(Requests), job: Optional(Jobs), seen: 0 .. 1]
IdleCall == [pc |-> "idle", req |-> None, job |-> None, seen |-> 0]

ProcessTrees == [live: SUBSET Procs, sig: SUBSET Procs, outcome: Optional(Outcomes)]
Shutdowns == [pc: {"serving", "cancelling", "waiting", "ended"}, snap: SUBSET Jobs,
              todo: SUBSET Jobs, late: BOOLEAN]

BrTypeOK ==
  /\ requests \in [Requests -> Optional(Jobs)]
  /\ jobs \in [Jobs -> JobRecord]
  /\ active \in 0 .. MaxActive
  /\ sup \in [Jobs -> Supervisor]
  /\ os \in [Jobs -> ProcessTrees]
  /\ calls \in [Calls -> Call] /\ events \in 0 .. MaxEvents
  /\ stop \in Shutdowns

BrInit ==
  /\ requests = [r \in Requests |-> None]
  /\ jobs = [j \in Jobs |-> NoJob]
  /\ active = 0
  /\ sup = [j \in Jobs |-> NoSupervisor]
  /\ os = [j \in Jobs |-> [live |-> {}, sig |-> {}, outcome |-> None]]
  /\ calls = [c \in Calls |-> IdleCall] /\ events = 0
  /\ stop = [pc |-> "serving", snap |-> {}, todo |-> {}, late |-> FALSE]
-----------------------------------------------------------------------------
Known == {j \in Jobs : jobs[j].phase # "none"}
Finished(j) == jobs[j].phase = "finished"
Up == stop.pc # "ended"

(* ProcessTree::terminate: SIGKILL to what is in the group now.              *)
Terminate(o) == [o EXCEPT !.sig = @ \cup o.live]
(* Child::start_kill and kill_on_drop reach the direct child only.           *)
KillWorker(o) == [o EXCEPT !.sig = @ \cup (o.live \cap {"worker"})]
TreeAlive(j) == os[j].live # {}

(* Job::request_cancel on a job that is not finished.                        *)
Cancelled(job, reason) ==
  [job EXCEPT !.reason = IF @ = None THEN reason ELSE @, !.cancel = TRUE]

(* Registry::check_capacity.                                                 *)
CheckCapacity == active < MaxActive /\ Cardinality(Known) < MaxRetained

Room == events + Cardinality(Known) < MaxWork
Event == Room /\ events < MaxEvents /\ events' = events + 1

(* A bounded event; a free call slot takes up a request of a controller.                      *)
Begin(c, call) == Up /\ calls[c].pc = "idle" /\ calls' = [calls EXCEPT ![c] = call]
Query(c, call) == Event /\ Begin(c, call)
Go(c, pc) == calls' = [calls EXCEPT ![c].pc = pc]
Answer(c) == calls' = [calls EXCEPT ![c] = IdleCall]
-----------------------------------------------------------------------------
(* Registry::submit.  The first critical section answers a repeated request, *)
(* a conflicting payload and a full instance; otherwise the input is frozen  *)
(* outside the lock.                                                         *)
SubmitCheck(c, r) ==
  /\ requests[r] = None /\ Room
  /\ CheckCapacity
  /\ Begin(c, [IdleCall EXCEPT !.pc = "freeze", !.req = r])
  /\ UNCHANGED <<events, requests, jobs, active, sup, os, stop>>

(* freeze validates the request and reads a task file, or refuses.           *)
FreezeFails(c) ==
  /\ Up /\ calls[c].pc = "freeze"
  /\ Answer(c)
  /\ UNCHANGED <<events, requests, jobs, active, sup, os, stop>>

(* The second critical section finds the request taken by a concurrent       *)
(* duplicate (reused, or refused for another payload), or the instance full. *)
UnclaimedAtFirstCheck(c) == TRUE
Unclaimed(c) == requests[calls[c].req] = None

SubmitBeaten(c) ==
  /\ Up /\ calls[c].pc = "freeze"
  /\ ~Unclaimed(c) \/ ~CheckCapacity
  /\ Answer(c)
  /\ UNCHANGED <<events, requests, jobs, active, sup, os, stop>>

(* The second critical section admits the job and BridgeServer::submit       *)
(* spawns its supervisor.                                                    *)
SubmitInsert(c) ==
  /\ Up /\ calls[c].pc = "freeze"
  /\ Unclaimed(c)
  /\ CheckCapacity
  /\ LET j == Cardinality(Known) + 1 IN
       /\ requests' = [requests EXCEPT ![calls[c].req] = j]
       /\ jobs' = [jobs EXCEPT ![j] = [NoJob EXCEPT !.phase = "accepted", !.req = calls[c].req]]
       /\ sup' = [sup EXCEPT ![j].pc = "start"]
  /\ active' = active + 1
  /\ Answer(c)
  /\ UNCHANGED <<events, os, stop>>
-----------------------------------------------------------------------------
(* Registry::wait and Job::wait_finished: subscribe, check the phase, and    *)
(* block until the version changes.                                          *)
Subscribed(j) == [IdleCall EXCEPT !.pc = "check", !.job = j, !.seen = jobs[j].version]

WaitCall(c, j) ==
  /\ j \in Known
  /\ Query(c, Subscribed(j))
  /\ UNCHANGED <<requests, jobs, active, sup, os, stop>>

WaitCheck(c) ==
  /\ Up /\ calls[c].pc = "check"
  /\ IF Finished(calls[c].job) THEN Answer(c) ELSE Go(c, "arm")
  /\ UNCHANGED <<events, requests, jobs, active, sup, os, stop>>

WaitArm(c) == Go(c, "blocked")

WaitBlock(c) ==
  /\ Up /\ calls[c].pc = "arm"
  /\ WaitArm(c)
  /\ UNCHANGED <<events, requests, jobs, active, sup, os, stop>>

WaitWake(c) ==
  /\ Up /\ calls[c].pc = "blocked"
  /\ jobs[calls[c].job].version # calls[c].seen
  /\ calls' = [calls EXCEPT ![c] = [@ EXCEPT !.pc = "check", !.seen = jobs[calls[c].job].version]]
  /\ UNCHANGED <<events, requests, jobs, active, sup, os, stop>>

(* The window of a wait ends: pending, or the result if the job settled      *)
(* meanwhile.  A cancel gives up: cancellation requested, not settled.       *)
WaitTimeout(c) ==
  /\ Up /\ calls[c].pc = "blocked"
  /\ Answer(c)
  /\ UNCHANGED <<events, requests, jobs, active, sup, os, stop>>
-----------------------------------------------------------------------------
(* Registry::cancel.  A finished job with a confirmed cleanup is answered at *)
(* once and needs no step.                                                   *)
CancelCall(c, j) ==
  /\ j \in Known /\ ~(Finished(j) /\ jobs[j].confirmed)
  /\ Query(c, [IdleCall EXCEPT !.pc = IF Finished(j) THEN "poll" ELSE "cancel", !.job = j])
  /\ UNCHANGED <<requests, jobs, active, sup, os, stop>>

(* Job::request_cancel, unless the job settled meanwhile, and wait_finished. *)
CancelRequest(c) ==
  /\ Up /\ calls[c].pc = "cancel"
  /\ LET j == calls[c].job IN
       /\ jobs' = [jobs EXCEPT ![j] = IF Finished(j) THEN @ ELSE Cancelled(@, "user")]
       /\ calls' = [calls EXCEPT ![c] = Subscribed(j)]
  /\ UNCHANGED <<events, requests, active, sup, os, stop>>

(* Registry::retry_cleanup: poll the containment unit, without signalling.   *)
Confirmable(j) == jobs[j].tree /\ ~TreeAlive(j)

RetryConfirmed(c) ==
  /\ Up /\ calls[c].pc = "poll" /\ Confirmable(calls[c].job)
  /\ Go(c, "release")
  /\ UNCHANGED <<events, requests, jobs, active, sup, os, stop>>

RetryUnconfirmed(c) ==
  /\ Up /\ calls[c].pc = "poll" /\ ~Confirmable(calls[c].job)
  /\ Answer(c)
  /\ UNCHANGED <<events, requests, jobs, active, sup, os, stop>>

(* Job::release_slot_once, a compare-exchange, and Registry::release_slot,   *)
(* by whoever won the exchange.                                              *)
MayRelease(j) == ~jobs[j].released
ReleaseSlotFor(j) ==
  active' = IF MayRelease(j) /\ active > 0 THEN active - 1 ELSE active

RetryRelease(c) ==
  /\ Up /\ calls[c].pc = "release"
  /\ LET j == calls[c].job IN
       /\ jobs' = [jobs EXCEPT ![j] = [@ EXCEPT !.confirmed = TRUE, !.released = TRUE]]
       /\ ReleaseSlotFor(j)
  /\ Answer(c)
  /\ UNCHANGED <<events, requests, sup, os, stop>>
-----------------------------------------------------------------------------
(* supervisor::run.  SupGo moves a supervisor on; SupSettleAs leads it to    *)
(* its settlement with a status and the cleanup evidence.                    *)
SupAt(j, pc) == Up /\ sup[j].pc = pc
SupGo(j, pc) == sup' = [sup EXCEPT ![j].pc = pc]
SupSettleAs(j, status, confirmed) ==
  sup' = [sup EXCEPT ![j] = [@ EXCEPT !.pc = "settle", !.status = status, !.confirmed = confirmed]]
SupOnly == UNCHANGED <<requests, jobs, active, os, calls, stop>>

CancelStatus(reason) ==
  CASE reason = "user" -> "cancelled"
    [] reason = "deadline" -> "timed_out"
    [] OTHER -> "interrupted"

(* Cancelled before the start, or marked running.  Nothing but its own       *)
(* supervisor moves a job on from accepted, so mark_running succeeds.        *)
SupStart(j) ==
  /\ SupAt(j, "start")
  /\ IF jobs[j].cancel
       THEN SupSettleAs(j, CancelStatus(jobs[j].reason), TRUE) /\ UNCHANGED jobs
       ELSE SupGo(j, "plan") /\ jobs' = [jobs EXCEPT ![j].phase = "running"]
  /\ UNCHANGED <<events, requests, active, os, calls, stop>>

(* adapter.plan fails; or it yields the command, and the last check before   *)
(* the spawn decides.                                                        *)
SupPlanFails(j) == SupAt(j, "plan") /\ Event /\ SupSettleAs(j, "failed", TRUE) /\ SupOnly

SupPlan(j) ==
  /\ SupAt(j, "plan")
  /\ IF jobs[j].cancel THEN SupSettleAs(j, CancelStatus(jobs[j].reason), TRUE) ELSE SupGo(j, "spawn")
  /\ SupOnly /\ UNCHANGED events

SupSpawnFails(j) == SupAt(j, "spawn") /\ Event /\ SupSettleAs(j, "failed", TRUE) /\ SupOnly

SupSpawn(j) ==
  /\ SupAt(j, "spawn")
  /\ SupGo(j, "attach")
  /\ os' = [os EXCEPT ![j].live = {"worker"}]
  /\ UNCHANGED <<events, requests, jobs, active, calls, stop>>

(* ProcessTree::attach fails: only the direct child is killed and reaped, and *)
(* its descendants stay unverified.                                          *)
SupAttachFails(j) ==
  /\ SupAt(j, "attach")
  /\ SupGo(j, "reap")
  /\ os' = [os EXCEPT ![j] = KillWorker(@)]
  /\ Event /\ UNCHANGED <<requests, jobs, active, calls, stop>>

SupReaped(j) ==
  /\ SupAt(j, "reap") /\ "worker" \notin os[j].live
  /\ SupSettleAs(j, "failed", FALSE)
  /\ SupOnly /\ UNCHANGED events

SupAttach(j) ==
  /\ SupAt(j, "attach")
  /\ sup' = [sup EXCEPT ![j] = [@ EXCEPT !.pc = "loop", !.open = TRUE]]
  /\ jobs' = [jobs EXCEPT ![j].tree = TRUE]
  /\ UNCHANGED <<events, requests, active, os, calls, stop>>
-----------------------------------------------------------------------------
(* The select loop.  The worker exited: stop the rest of its tree.           *)
LoopExit(j) ==
  /\ SupAt(j, "loop") /\ ~sup[j].exit /\ "worker" \notin os[j].live
  /\ sup' = [sup EXCEPT ![j] = [@ EXCEPT !.exit = TRUE, !.native = os[j].outcome]]
  /\ os' = [os EXCEPT ![j] = [Terminate(@) EXCEPT !.outcome = None]]
  /\ UNCHANGED <<events, requests, jobs, active, calls, stop>>

(* Reaping failed: the loop ends, and the tree is terminated for cleanup.    *)
LoopWaitFails(j) ==
  /\ SupAt(j, "loop") /\ ~sup[j].exit
  /\ sup' = [sup EXCEPT ![j] = [@ EXCEPT !.pc = "confirm", !.native = "failed"]]
  /\ os' = [os EXCEPT ![j] = Terminate(@)]
  /\ Event /\ UNCHANGED <<requests, jobs, active, calls, stop>>

LoopCancelDeaf(j) ==
  /\ SupAt(j, "loop") /\ jobs[j].cancel /\ ~sup[j].seen
  /\ sup' = [sup EXCEPT ![j].seen = TRUE]
  /\ UNCHANGED <<events, requests, jobs, active, os, calls, stop>>
LoopCancel(j) ==
  /\ SupAt(j, "loop") /\ jobs[j].cancel /\ ~sup[j].seen
  /\ sup' = [sup EXCEPT ![j].seen = TRUE]
  /\ os' = [os EXCEPT ![j] = Terminate(@)]
  /\ UNCHANGED <<events, requests, jobs, active, calls, stop>>

LoopDeadline(j) ==
  /\ SupAt(j, "loop") /\ ~sup[j].fired /\ ~sup[j].exit
  /\ sup' = [sup EXCEPT ![j].fired = TRUE]
  /\ jobs' = [jobs EXCEPT ![j] = Cancelled(@, "deadline")]
  /\ os' = [os EXCEPT ![j] = Terminate(@)]
  /\ Event /\ UNCHANGED <<requests, active, calls, stop>>

(* End of file once nobody holds the pipes, or the drain timer after exit.   *)
LoopStreamsClose(j) ==
  /\ SupAt(j, "loop") /\ sup[j].open
  /\ os[j].live = {} \/ sup[j].exit
  /\ sup' = [sup EXCEPT ![j].open = FALSE]
  /\ SupOnly /\ UNCHANGED events

LoopEnd(j) ==
  /\ SupAt(j, "loop") /\ sup[j].exit /\ ~sup[j].open
  /\ SupGo(j, "confirm")
  /\ os' = [os EXCEPT ![j] = Terminate(@)]
  /\ UNCHANGED <<events, requests, jobs, active, calls, stop>>

(* The status a supervised run ends with.                                    *)
TerminalStatusByReason(s, reason) ==
  IF reason # None THEN CancelStatus(reason) ELSE s.native
TerminalStatus(s, reason) ==
  IF reason \in {"user", "shutdown"} THEN CancelStatus(reason)
  ELSE IF s.native = "completed" THEN "completed"
  ELSE IF reason = "deadline" \/ s.fired THEN "timed_out"
  ELSE s.native

(* cleanup::terminate_and_confirm polls until the tree is gone or its time   *)
(* is over; then the reason of a cancellation is read and the status fixed.  *)
Confirm(j) ==
  /\ SupAt(j, "confirm")
  /\ SupSettleAs(j, TerminalStatus(sup[j], jobs[j].reason), ~TreeAlive(j))
  /\ SupOnly /\ UNCHANGED events
-----------------------------------------------------------------------------
(* SettleGuard::settle and Registry::settle: the phase, then the version,    *)
(* then, if the cleanup is confirmed, the slot.                              *)
Settled(job, status, confirmed) ==
  [job EXCEPT !.phase = "finished", !.status = status, !.confirmed = confirmed]
Notified(job, confirmed) ==
  [job EXCEPT !.version = 1, !.released = IF confirmed THEN TRUE ELSE @]

Settle(j) ==
  /\ SupAt(j, "settle")
  /\ jobs' = [jobs EXCEPT ![j] = Settled(@, sup[j].status, sup[j].confirmed)]
  /\ SupGo(j, "notify")
  /\ UNCHANGED <<events, requests, active, os, calls, stop>>

Notify(j) ==
  /\ SupAt(j, "notify")
  /\ jobs' = [jobs EXCEPT ![j] = Notified(@, sup[j].confirmed)]
  /\ IF sup[j].confirmed THEN ReleaseSlotFor(j) ELSE UNCHANGED active
  /\ sup' = [sup EXCEPT ![j] = [NoSupervisor EXCEPT !.pc = "done"]]
  /\ UNCHANGED <<events, requests, os, calls, stop>>

(* The supervisor ends without a result (a panic in adapter or collector     *)
(* code): the child is dropped, hence killed, and SettleGuard settles.       *)
Supervising == {"plan", "attach", "loop", "confirm"}
SupPanics(j) ==
  /\ Up /\ sup[j].pc \in Supervising
  /\ os' = [os EXCEPT ![j] = KillWorker(@)]
  /\ jobs' = [jobs EXCEPT ![j] = Settled(@, "interrupted", FALSE)]
  /\ sup' = [sup EXCEPT ![j] = [@ EXCEPT !.pc = "notify", !.confirmed = FALSE]]
  /\ Event /\ UNCHANGED <<requests, active, calls, stop>>
-----------------------------------------------------------------------------
(* Registry::shutdown, after the transport closed or on a signal.  Calls     *)
(* under way and, on a signal, new ones are still served.                    *)
ShutdownBegin ==
  /\ stop.pc = "serving" /\ Event
  /\ LET open == {j \in Known : ~Finished(j)} IN
       stop' = [stop EXCEPT !.pc = "cancelling", !.snap = open, !.todo = open]
  /\ UNCHANGED <<requests, jobs, active, sup, os, calls>>

ShutdownCancel(j) ==
  /\ stop.pc = "cancelling" /\ j \in stop.todo
  /\ stop' = [stop EXCEPT !.todo = @ \ {j}]
  /\ jobs' = [jobs EXCEPT ![j] = IF Finished(j) THEN @ ELSE Cancelled(@, "shutdown")]
  /\ os' = [os EXCEPT ![j] = IF jobs[j].tree THEN Terminate(@) ELSE @]
  /\ UNCHANGED <<events, requests, active, sup, calls>>

ShutdownAwait ==
  /\ stop.pc = "cancelling" /\ stop.todo = {}
  /\ stop' = [stop EXCEPT !.pc = "waiting"]
  /\ UNCHANGED <<events, requests, jobs, active, sup, os, calls>>

(* The jobs of the snapshot settled, or the deadline passed.  main returns   *)
(* and the runtime drops every task, and with a task its child.              *)
ShutdownSettled == \A j \in stop.snap : Finished(j)
ProcessEnds ==
  /\ stop.pc = "waiting"
  /\ \E late \in BOOLEAN :
       /\ late \/ ShutdownSettled
       /\ stop' = [stop EXCEPT !.pc = "ended", !.late = late]
  /\ os' = [j \in Jobs |-> IF sup[j].pc \in Supervising \cup {"reap"} THEN KillWorker(os[j]) ELSE os[j]]
  /\ sup' = [j \in Jobs |-> NoSupervisor]
  /\ calls' = [c \in Calls |-> IdleCall]
  /\ UNCHANGED <<events, requests, jobs, active>>
-----------------------------------------------------------------------------
(* The operating system.                                                     *)
Exits(o, p, outcome) ==
  [o EXCEPT !.live = @ \ {p}, !.sig = @ \ {p},
            !.outcome = IF p = "worker" THEN outcome ELSE @]

ProcessDies(j, p) ==
  /\ p \in os[j].sig
  /\ os' = [os EXCEPT ![j] = Exits(@, p, "failed")]
  /\ UNCHANGED <<events, requests, jobs, active, sup, calls, stop>>

ProcessExits(j, p) ==
  /\ p \in os[j].live
  /\ \E outcome \in Outcomes : os' = [os EXCEPT ![j] = Exits(@, p, outcome)]
  /\ UNCHANGED <<events, requests, jobs, active, sup, calls, stop>>

(* A process that was not killed forks; a killed one no longer runs.         *)
ProcessForks(j, p) ==
  /\ p # "worker" /\ p \notin os[j].live
  /\ os[j].live \ os[j].sig # {}
  /\ os' = [os EXCEPT ![j].live = @ \cup {p}]
  /\ UNCHANGED <<events, requests, jobs, active, sup, calls, stop>>
-----------------------------------------------------------------------------
CallStep(c) ==
  \/ \E r \in Requests : SubmitCheck(c, r)
  \/ FreezeFails(c) \/ SubmitBeaten(c) \/ SubmitInsert(c)
  \/ \E j \in Jobs : WaitCall(c, j) \/ CancelCall(c, j)
  \/ WaitCheck(c) \/ WaitBlock(c) \/ WaitWake(c) \/ WaitTimeout(c)
  \/ CancelRequest(c)
  \/ RetryConfirmed(c) \/ RetryUnconfirmed(c) \/ RetryRelease(c)

LoopStep(j) ==
  \/ LoopExit(j) \/ LoopWaitFails(j) \/ LoopCancel(j) \/ LoopDeadline(j)
  \/ LoopStreamsClose(j) \/ LoopEnd(j)

SupStep(j) ==
  \/ SupStart(j) \/ SupPlan(j) \/ SupPlanFails(j) \/ SupSpawnFails(j) \/ SupSpawn(j)
  \/ SupAttachFails(j) \/ SupReaped(j) \/ SupAttach(j)
  \/ LoopStep(j)
  \/ Confirm(j) \/ Settle(j) \/ Notify(j)

OsStep(j) == \E p \in Procs : ProcessDies(j, p) \/ ProcessExits(j, p) \/ ProcessForks(j, p)

ShutdownStep ==
  \/ ShutdownBegin
  \/ \E j \in Jobs : ShutdownCancel(j)
  \/ ShutdownAwait
  \/ ProcessEnds

BrNext ==
  \/ \E c \in Calls : CallStep(c)
  \/ \E j \in Jobs : SupStep(j) \/ SupPanics(j) \/ OsStep(j)
  \/ ShutdownStep

BrSpec == BrInit /\ [][BrNext]_brVars

-----------------------------------------------------------------------------
(* Two concurrent submissions of one request id get one job: submit looks    *)
(* the id up again after it froze the input outside the lock.                *)
OneJobPerRequest ==
  \A j, k \in Known : jobs[j].req = jobs[k].req => j = k

(* The slots count every job whose process tree may still be alive, so the   *)
(* number of worker trees stays within max_active_jobs, whatever cancels,    *)
(* cleanup retries and settlements do at the same time.                      *)
WorkersWithinLimit ==
  Cardinality({j \in Jobs : TreeAlive(j)}) <= active /\ active <= MaxActive

(* cleanup.confirmed is reported only when no contained process is left.     *)
ConfirmedMeansGone ==
  \A j \in Jobs : Finished(j) /\ jobs[j].confirmed => ~TreeAlive(j)

(* A deadline that fires beside a native success does not rewrite it, and    *)
(* only a worker that completed is reported as completed.                    *)
NativeResultKept ==
  [][\A j \in Jobs : Finished(j)' /\ ~Finished(j) =>
       /\ jobs'[j].status = "timed_out" => sup[j].native # "completed"
       /\ jobs'[j].status = "completed" => sup[j].native = "completed"
       /\ jobs'[j].status = "cancelled" => jobs[j].reason = "user"]_brVars

(* No call sleeps through a settlement: one that is blocked on a job whose   *)
(* supervisor has notified its waiters has that notification still to see.   *)
NoLostWakeup ==
  \A c \in Calls : calls[c].pc = "blocked" => calls[c].seen = 0

(* Shutdown that was not cut short leaves, of the jobs it found, none        *)
(* without a result, and none with live processes that the result hides.     *)
ShutdownAccounts ==
  stop.pc = "ended" /\ ~stop.late =>
    \A j \in stop.snap : Finished(j) /\ (TreeAlive(j) => ~jobs[j].confirmed)

(* What the registry keeps: one job per request, live trees within the limit *)
(* and never behind a confirmed cleanup, no lost wake-up, and a shutdown that*)
(* accounts for what it found (jobs.rs, supervisor.rs).                      *)
BridgeInv ==
  /\ BrTypeOK /\ OneJobPerRequest /\ ConfirmedMeansGone /\ WorkersWithinLimit
  /\ NoLostWakeup /\ ShutdownAccounts

=============================================================================
