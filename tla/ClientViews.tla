----------------------------- MODULE ClientViews -----------------------------
(* What a user sees and edits beside the workspace's own state: the canvas,   *)
(* the conversation seat and the Run a workspace is bound to, together.       *)
EXTENDS Canvas, ConversationView, RunView

\* The graph editor's document is well formed after every edit, undo and redo: no
\* edge hangs loose, data flows in no cycle, and a port side is connected while it
\* is hidden only where an opened document had it so (commands, graph-editing and
\* history of the canvas).
CanvasKept == CanvasTypeOK /\ Attached /\ DataAcyclic /\ HiddenWasOpened

\* What the two Run views show is of the Session or the Run they are bound to,
\* however late it was answered; a button pressed again on the gate that is shown
\* settles one gate; and a decision settles a later gate than the one shown only
\* after another client, another loading of the document or the other button
\* (conversation-controller.ts, client-model.ts, the decide use case).
ViewsKept ==
  /\ ConvTypeOK /\ ShowsItsSession /\ AttemptIsShown /\ PausedIsStale
  /\ RunViewTypeOK /\ ViewIsOfBound /\ RepeatedDecisionSettlesOnce /\ DecisionMissesOnlyForOthers

\* A client's picture never moves backwards: neither view replaces a Run by an
\* older answer about it (conversation-controller.ts, client-model.ts), and a
\* cut removes only what it has copied (the clipboard of the canvas).
PictureSteps == NeverGoesBack /\ RunNeverGoesBack /\ CutIsCopied
==============================================================================
