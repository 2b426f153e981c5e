------------------------------ MODULE ToolCalls ------------------------------
(* Those who call for work: the process calls of the toolkit and the Harness *)
(* side of the bridge.  What both promise is that nothing is left running    *)
(* behind a call that says it is over.                                       *)
EXTENDS Processes, BridgeClient

\* No process outlives the call or the session that owns its tree, except one the
\* kernel refused to signal, and such a one is reported; a session that says it
\* is closed has no live tree (run.rs, tree.rs, session.rs).  The bridge's client
\* leaves no running job behind unreported and vouches for no cleanup that the
\* bridge did not confirm (bridge-client.mjs).
CallersKept ==
  /\ PrTypeOK /\ NothingOutlives /\ OnlyRefusedSurvive /\ ClosedMeansGone /\ LiveTreesRegistered
  /\ ClTypeOK /\ NothingLeftBehind /\ RuntimeVouches
==============================================================================
