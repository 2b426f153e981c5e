------------------------------- MODULE MCTools -------------------------------
(* The artifact store and the process calls of the toolkit, the Harness      *)
(* bridge and its client: the union of their state spaces.  A behaviour      *)
(* chooses one of them and the others rest.                                  *)
EXTENDS Artifacts, ToolCalls, BridgeJobs, TLC

CONSTANTS s1, s2, ca, exec, exec2, pipe, ses, k1, k2, c1, c2, r1, r2, o1, o2

\* Two servers, each with one capture of the same content.
MCOwnerOf == 1 :> s1 @@ 2 :> s2
MCContentOf == 1 :> ca @@ 2 :> ca
MCSizeOf == ca :> 1

\* Two calls in one session, one of them with a tree the kernel may refuse to
\* signal; and, on its own, a pipeline of two stages.
MCStagesOf == exec :> 1 @@ exec2 :> 1 @@ pipe :> 2
MCSessionOf == exec :> ses @@ exec2 :> ses @@ pipe :> NoSession
MCTogether == {{exec, exec2}, {pipe}}

\* Nothing tells these apart; the properties are all of safety.
Interchangeable == Permutations(Requests) \cup Permutations(Calls)

VARIABLE part
toolVars == <<part, artVars, prVars, brVars, clVars>>

ToolsInit ==
  /\ part \in {"artifacts", "processes", "bridge", "client"}
  /\ ArtInit /\ BrInit /\ ClInit
  \* one resting state for the process calls, which have two initial ones
  /\ PrInit /\ (part # "processes" => prCall[pipe].pc = "over")

ToolsNext ==
  /\ UNCHANGED part
  /\ \/ part = "artifacts" /\ ArtNext /\ UNCHANGED <<prVars, brVars, clVars>>
     \/ part = "processes" /\ PrNext /\ UNCHANGED <<artVars, brVars, clVars>>
     \/ part = "bridge" /\ BrNext /\ UNCHANGED <<artVars, prVars, clVars>>
     \/ part = "client" /\ ClNext /\ UNCHANGED <<artVars, prVars, brVars>>

ToolsSpec == ToolsInit /\ [][ToolsNext]_toolVars
-----------------------------------------------------------------------------
\* A capture is admitted only to a store without the residue of a crash
\* (artifact.rs), and a job's terminal status never replaces the result its
\* worker wrote (supervisor.rs).
ToolSteps == ResidueReclaimed /\ NativeResultKept
==============================================================================
