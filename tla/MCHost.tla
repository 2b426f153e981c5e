------------------------------- MODULE MCHost -------------------------------
(* The work of a Run inside its Host: the union of the state spaces of a     *)
(* TeamStage, the workspace write fence, a node's Agent and a chain of child *)
(* Runs.  A behaviour chooses one of them and the others rest.               *)
EXTENDS TeamStage, WorkspaceFence, NodeAgent, ChildRuns

CONSTANTS n1, lead, mate, x, w1, w2, w3, m1, m2

\* The stage: a primary producer and a collaborator.
MCDeclared == <<lead, mate>>
MCEffects == {lead, mate, "complete", "message", "create", "drain", "delete"}

\* Members complete the task, or talk.
MCRooms == {[wakes |-> 1, tools |-> {"complete"}], [wakes |-> 0, tools |-> {"message"}]}

\* The fence: an Agent and a TeamStage of one Run, and an Agent of another
\* process.
Fence_Run == [w \in Writers |-> IF w = w3 THEN "r2" ELSE "r1"]
Fence_Host == [w \in Writers |-> IF w = w3 THEN "q" ELSE "p"]
Fence_Kind == [w \in Writers |-> IF w = w2 THEN "team" ELSE "agent"]

VARIABLE part
hostVars == <<part, vars, fenceVars, agentVars, childVars>>

HostInit ==
  /\ part \in {"team", "fence", "agent", "children"}
  /\ TeamInit /\ FenceInit /\ ChildInit
  \* one resting state for the components with several initial ones, and a source
  \* session only for nodes that are not managed
  /\ part # "team" => room.wakes = 1
  /\ AgentInit /\ (mode.source => ~mode.managed /\ part = "agent") /\ (mode.schema => part = "agent")

HostNext ==
  /\ UNCHANGED part
  /\ \/ part = "team" /\ TeamNext /\ UNCHANGED <<fenceVars, agentVars, childVars>>
     \/ part = "fence" /\ FenceNext /\ UNCHANGED <<vars, agentVars, childVars>>
     \/ part = "agent" /\ AgentNext /\ UNCHANGED <<vars, fenceVars, childVars>>
     \/ part = "children" /\ ChildNext /\ UNCHANGED <<vars, fenceVars, agentVars>>

HostSpec == HostInit /\ [][HostNext]_hostVars
-----------------------------------------------------------------------------
\* A node's own work.  A TeamStage: an effect with an unknown outcome keeps its
\* stage with the operator, and a Run that reports cancelled has nothing of its
\* stage left running (driver.ts, member-scope.ts, cancellation.ts).  An Agent: its
\* messages reach it at most once, one that nobody confirmed leaves the outcome to
\* the operator, and a node says it waits only while its Agent is idle
\* (agent-executor.ts, managed-node-session.ts).
NodeWorkKept ==
  /\ part = "team" => TeamTypeOK /\ UnknownNeverSettles /\ CancelledIsClean
  /\ part = "agent" => AgentTypeOK /\ MessageOnce /\ UnknownMailIsUnknown /\ WaitingMeansIdle

\* Step by step: no native effect of a TeamStage is sent twice, a committed cutoff
\* freezes the stage, the last check before acceptance sees what every member
\* said last, and what is accepted is exactly what was sent and agreed on
\* (driver.ts, member-scope.ts, cancellation.ts); no writer is refused as busy
\* because of its own process's queue, and what somebody else changed between
\* two tools of an Attempt is not written over (acquire and beforeTool of
\* workspace-write-lease.ts); no child Run starts below a parent that is settled
\* (child-run-execution.ts).
NodeSteps ==
  /\ NeverResent /\ CutoffFreezes /\ QuietIsCurrent /\ AcceptedExactly
  /\ NotBusyWithItself /\ OutsideEditKept /\ NoStartBelowSettled
=============================================================================
