---------------------------- MODULE MCServiceLive ----------------------------
(* What must eventually happen to the work of a Run: a TeamStage, a chain of *)
(* child Runs and a node's Agent.  A behaviour chooses one of them and the   *)
(* others rest.                                                              *)
EXTENDS Integers, Sequences

CONSTANTS p1, n1, m1, None

VARIABLES
  part,
  r, rev, members, caps, native, calls, got, comp, sig, ctl, room, drv, can,
  rec, att, kept, drive, call, gave, abort, heard, snap, dirty, walk, closing, crashes,
  mode, node, agent, entry, exec, letter, used

teamVars == <<r, rev, members, caps, native, calls, got, comp, sig, ctl, room, drv, can>>
chainVars == <<rec, att, kept, drive, call, gave, abort, heard, snap, dirty, walk, closing, crashes>>
nodeVars == <<mode, node, agent, entry, exec, letter, used>>
serviceVars == <<part, teamVars, chainVars, nodeVars>>

\* A stage with its primary producer only.
T == INSTANCE TeamStage WITH
       Nodes <- {n1}, Human <- {}, Team <- {n1}, Branches <- {}, Decisions <- {},
       Effects <- {p1, "claim", "complete", "create", "drain", "delete"},
       Members <- {p1}, Declared <- <<p1>>, Values <- {"x"}, Tools <- {"claim", "complete"},
       MaxRev <- 2, Rooms <- {[wakes |-> 0, tools |-> {t}] : t \in {"claim", "complete"}}
R == INSTANCE ChildRuns WITH Depth <- 2, MaxCrash <- 1
A == INSTANCE NodeAgent WITH Letters <- {m1}, MaxAsks <- 1, MaxTurns <- 2

ServiceInit ==
  /\ part \in {"team", "children", "agent"}
  /\ T!TeamInit /\ R!ChildInit /\ A!AgentInit
  \* without a source session, and with one resting state for the Agent
  /\ ~mode.source /\ (part # "agent" => ~mode.schema)
  /\ part # "team" => room.tools = {"complete"}

InTeam == part = "team" /\ UNCHANGED <<part, chainVars, nodeVars>>
InChain == part = "children" /\ UNCHANGED <<part, teamVars, nodeVars>>
InNode == part = "agent" /\ UNCHANGED <<part, teamVars, chainVars>>

\* A TeamStage is followed while its process keeps running.
ServiceNext ==
  \/ InTeam /\ T!SteadyNext
  \/ InChain /\ R!ChildNext
  \/ InNode /\ A!AgentNext

\* The fairness of the three components: the TeamStage's driver, coordinator and
\* native calls go on; so do jobs, executions and walks of the chain; so do the
\* execution of a node and its timer, and an aborted creation or composition
\* ends.  As part never changes, fairness of a disjunction over the parts is
\* fairness of each.
ServiceSpec ==
  /\ ServiceInit /\ [][ServiceNext]_serviceVars
  /\ WF_serviceVars((InTeam /\ T!DriverStep) \/ (InChain /\ R!ChildSteps) \/ (InNode /\ A!AgentSteps))
  /\ WF_serviceVars((InTeam /\ T!CancelStep) \/ (InNode /\ A!Grace))
  /\ WF_serviceVars((InTeam /\ T!Native) \/ (InNode /\ A!CreateStops))
  /\ WF_serviceVars(InNode /\ A!ComposeStops)
-----------------------------------------------------------------------------
\* What is cancelled comes to an end: a stage is cancelled or left to an operator
\* (cancellation.ts), a Run ends with the whole tree of Runs it called
\* (cancelTree), and an Agent's execution returns through creations, turns,
\* flushes and waits that never end (agent-executor.ts).
Cancelled ==
  \/ part = "team" /\ r.stage.cancel
  \/ part = "children" /\ rec[1] = "cancelling"
  \/ part = "agent" /\ exec.aborted
CancelOver ==
  \/ part = "team" /\ r.stage.st \in {"cancelled", "recovery_required"}
  \/ part = "children" /\ \A i \in {1, 2} : rec[i] \in R!Over \cup {"none"}
  \/ part = "agent" /\ exec.at = "done"
CancelledWorkEnds == Cancelled ~> CancelOver

\* Nobody sleeps through the end they wait for: a call hears that its child
\* settled (child-run-execution.ts: subscribe before read, generation before
\* wait), and an execution hears the turn that settles its node
\* (agent-executor.ts: changes counted before the wait).
Asleep ==
  \/ part = "children" /\ call[1] = "wait" /\ rec[2] \in R!Over
  \/ part = "agent" /\ exec.at = "change" /\ agent.captured /\ ~agent.busy
EndIsHeard == Asleep ~> ~(call[1] = "wait" \/ exec.at = "change")
=============================================================================
