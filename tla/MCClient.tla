------------------------------ MODULE MCClient ------------------------------
(* The Blueprint client: the union of the state spaces of the editing        *)
(* session, the graph editor, the view of a Session's Runs and the view of   *)
(* the Run a workspace is bound to.  A behaviour chooses one of them and the *)
(* others rest.                                                              *)
EXTENDS Workspace, ClientViews, TLC

CONSTANTS L1, L2, e, a, i1, i2, s1, s2, r1, r2, r3

\* Two Runs of one Session and one of another.
MCSessionOf == [run \in SRuns |-> IF run = r3 THEN s2 ELSE s1]

\* Runs of one Session are interchangeable.
Interchangeable == Permutations({r1, r2})

\* What is opened: nothing yet, or one node that feeds another, with the feeding
\* port side hidden all the same and a group without nodes.
Blank == [nodes |-> [n \in {} |-> NewNode(0)], edges |-> {}, groups |-> {}]
Overruled ==
  [nodes |-> [n \in {<<1>>, <<2>>} |-> [NewNode(0) EXCEPT !.show["outputs"] = IF n = <<1>> THEN "hide" ELSE "auto"]],
   edges |-> {Edge("data", <<1>>, <<2>>)}, groups |-> {{}}]
MCDocuments == {Blank, Overruled}

VARIABLE part
clientVars == <<part, wsVars, canvasVars, convVars, runVars>>

ClientInit ==
  /\ part \in {"workspace", "canvas", "conversation", "run"}
  /\ RunViewInit
  \* one resting state for the components with several initial ones
  /\ WsInit /\ (part # "workspace" => host.docs[<<FirstLib, X>>] = None)
  /\ CanvasInit /\ (part # "canvas" => graph = Blank)
  /\ ConvInit /\ (part # "conversation" => seat.session = s1)

ClientNext ==
  /\ UNCHANGED part
  /\ \/ part = "workspace" /\ WsNext /\ UNCHANGED <<canvasVars, convVars, runVars>>
     \/ part = "canvas" /\ CanvasNext /\ UNCHANGED <<wsVars, convVars, runVars>>
     \/ part = "conversation" /\ ConvNext /\ UNCHANGED <<wsVars, canvasVars, runVars>>
     \/ part = "run" /\ RunViewNext /\ UNCHANGED <<wsVars, canvasVars, convVars>>

ClientSpec == ClientInit /\ [][ClientNext]_clientVars
-----------------------------------------------------------------------------
\* The editing session shows the document that was asked for last, a check of
\* what it shows and the Run it started; an uncertain start or creation is
\* repeated as it was sent, and unsaved edits are kept
\* (workspace-controller.ts and its use cases).  Excepted, and kept in the
\* histories crossed, orphans and raced: a Run recorded by the answer of another
\* library's start, a creation whose session lost its libraries, and edits that
\* a restored draft or a late deletion has replaced.
WorkspaceKept ==
  part = "workspace" =>
    /\ WsTypeOK /\ ShownIsAsked /\ CheckIsOfShown /\ StartedOnce
    /\ CreationRepeatable /\ RunIsOfShown /\ DraftKept
=============================================================================
