----------------------------- MODULE MCToolsLive -----------------------------
(* What must eventually happen in the writer lease, the Harness bridge, its  *)
(* client and the process calls of the toolkit.  A behaviour chooses one of  *)
(* them and the others rest.                                                 *)
EXTENDS Integers, TLC

CONSTANTS p1, p2, c1, r1, o1, exec1, exec2, pipe, ses, k1, None, NoOwner, NoSession

VARIABLES
  part,
  lease, guard, alive, pc, tok, saw, retry, crashes,
  requests, jobs, active, sup, os, calls, events, stop,
  op, bridge, runtime, lost,
  prCall, prTree, prSess, prClose

leaseVars == <<lease, guard, alive, pc, tok, saw, retry, crashes>>
bridgeVars == <<requests, jobs, active, sup, os, calls, events, stop>>
clientVars == <<op, bridge, runtime, lost>>
processVars == <<prCall, prTree, prSess, prClose>>
toolVars == <<part, leaseVars, bridgeVars, clientVars, processVars>>

\* Two processes that share a volume but not a pid namespace, with a guard that
\* a crash may leave behind.
L == INSTANCE WriterLease WITH
       Procs <- {p1, p2}, PidOf <- [p \in {p1, p2} |-> 1], MaxCrashes <- 1,
       LinkSupported <- TRUE, GuardAges <- TRUE
B == INSTANCE BridgeJobs WITH
       Requests <- {r1}, Calls <- {c1}, MaxActive <- 1, MaxRetained <- 1, MaxEvents <- 2, MaxWork <- 3
C == INSTANCE BridgeClient WITH Ops <- {o1}, MaxLost <- 2
\* A session with two calls, one of whose trees the kernel may refuse to signal;
\* and, on its own, a pipeline of two stages.
P == INSTANCE Processes WITH
       ExecCalls <- {exec1, exec2, pipe}, Sessions <- {ses}, Closers <- {k1}, Stubborn <- {exec2},
       StagesOf <- exec1 :> 1 @@ exec2 :> 1 @@ pipe :> 2,
       SessionOf <- exec1 :> ses @@ exec2 :> ses @@ pipe :> NoSession,
       Together <- {{exec1, exec2}, {pipe}}

ToolsInit ==
  /\ part \in {"lease", "bridge", "client", "processes"}
  /\ L!LsInit /\ B!BrInit /\ C!ClInit /\ P!PrInit
  \* one resting state for the process calls, which have two initial ones
  /\ part # "processes" => prCall[pipe].pc = "over"

InLease == part = "lease" /\ UNCHANGED <<part, bridgeVars, clientVars, processVars>>
InBridge == part = "bridge" /\ UNCHANGED <<part, leaseVars, clientVars, processVars>>
InClient == part = "client" /\ UNCHANGED <<part, leaseVars, bridgeVars, processVars>>
InCalls == part = "processes" /\ UNCHANGED <<part, leaseVars, bridgeVars, clientVars>>

ToolsNext ==
  \/ InLease /\ L!LsNext
  \/ InBridge /\ B!BrNext
  \/ InClient /\ C!ClNext
  \/ InCalls /\ P!PrNext

\* The fairness of the four components.  Lease: processes run, heartbeats fire,
\* crashed processes come back and ask again, the clock advances.  Bridge:
\* supervisors are polled, killed processes die, calls run to their next await.
\* Client: every RPC answers or times out, and a job whose cancel was called
\* settles.  Processes: calls and their drains are polled; programs may run for
\* ever.  As part never changes, fairness of a disjunction over the parts is
\* fairness of each.
ToolsSpec ==
  /\ ToolsInit /\ [][ToolsNext]_toolVars
  /\ WF_toolVars((InLease /\ L!Proceed(p1)) \/ (InBridge /\ B!SupStep(1))
                 \/ (InClient /\ C!Answered(o1)) \/ (InCalls /\ P!PrCallStep(exec1)))
  /\ WF_toolVars((InLease /\ L!Proceed(p2)) \/ (InBridge /\ B!ProcessDies(1, "worker"))
                 \/ (InClient /\ C!Disposal(o1)) \/ (InCalls /\ P!PrCallStep(exec2)))
  /\ WF_toolVars((InLease /\ L!Heartbeat(p1)) \/ (InBridge /\ B!ProcessDies(1, "helper"))
                 \/ (InClient /\ op[o1].cancel = "called" /\ C!BridgeSettles(o1))
                 \/ (InCalls /\ P!PrCallStep(pipe)))
  /\ WF_toolVars((InLease /\ L!Heartbeat(p2))
                 \/ (InBridge /\ (B!WaitCheck(c1) \/ B!WaitBlock(c1) \/ B!WaitWake(c1)))
                 \/ (InCalls /\ P!DrainEnds(exec1, 1)))
  /\ WF_toolVars((InLease /\ L!Acquire(p1)) \/ (InCalls /\ P!DrainEnds(exec2, 1)))
  /\ WF_toolVars((InLease /\ L!Acquire(p2)) \/ (InCalls /\ P!DrainEnds(pipe, 1)))
  /\ WF_toolVars((InLease /\ L!RestartProc(p1)) \/ (InCalls /\ P!DrainEnds(pipe, 2)))
  /\ WF_toolVars((InLease /\ L!RestartProc(p2)) \/ (InCalls /\ P!CloseStep(k1)))
  /\ WF_toolVars(InLease /\ L!AgeLease) /\ WF_toolVars(InLease /\ L!AgeGuard)
-----------------------------------------------------------------------------
\* What is told to stop stops: a writer whose lease was replaced notices and
\* retires (the heartbeat of lease.ts), a cancelled bridge job settles wherever
\* its supervisor was (supervisor.rs), an abort that races the submission or the
\* wait still stops the job, unless the wait has failed and nobody listens any
\* more (bridge client), and a cancelled process call ends whatever its programs
\* do (process_run, process_pipeline).
Told(i) ==
  \/ part = "lease" /\ L!Superseded(<<p1, p2>>[i])
  \/ part = "bridge" /\ i = 1 /\ jobs[1].cancel
  \/ part = "client" /\ i = 1 /\ op[o1].aborted /\ op[o1].job /\ op[o1].wait # "failed"
  \/ part = "processes" /\ LET c == <<exec1, pipe>>[i] IN prCall[c].pc = "wait" /\ prCall[c].cancelled
Stopped(i) ==
  \/ part = "lease" /\ ~L!Superseded(<<p1, p2>>[i])
  \/ part = "bridge" /\ (B!Finished(1) \/ ~B!Up)
  \/ part = "client" /\ (bridge[o1].job # "running" \/ op[o1].cancel = "failed")
  \/ part = "processes" /\ prCall[<<exec1, pipe>>[i]].pc = "over"
StopsWhenTold == \A i \in {1, 2} : Told(i) ~> Stopped(i)

\* Nobody waits for ever: while somebody asks, some process holds the lease again
\* and again, so a crash never locks the runtime root (claimTakeover); a disposal
\* ends although answers are lost (dispose of the bridge client); and a call ends
\* once its direct children have exited, although their descendants hold the
\* pipes it drains (process_run, process_pipeline, session_exec).
Waits(i) ==
  \/ part = "lease" /\ i = 1
  \/ part = "client" /\ i = 1 /\ op[o1].closing
  \/ part = "processes" /\ LET c == <<exec2, pipe>>[i] IN
       prCall[c].pc = "wait" /\ \A s \in P!Stage(c) : prTree[c][s].child = "gone"
Returned(i) ==
  \/ part = "lease" /\ \E p \in {p1, p2} : pc[p] \in L!Holding
  \/ part = "client" /\ C!Ended(o1)
  \/ part = "processes" /\ prCall[<<exec2, pipe>>[i]].pc = "over"
WaitsEnd == \A i \in {1, 2} : Waits(i) ~> Returned(i)
=============================================================================
