------------------------------ MODULE Processes ------------------------------
(***************************************************************************)
(* The process tools of the toolkit: process_run, process_pipeline and     *)
(* session_open / session_exec / session_close (process/run.rs,            *)
(* session.rs, tree.rs).                                                   *)
(* The three ways to run a program are one protocol: a call spawns its     *)
(* stages, each the root of a contained process tree, waits for the direct *)
(* children in order, terminates what each one left behind, joins the      *)
(* tasks that drain the pipes and disarms its guards.  process_run and     *)
(* session_exec have one stage; session_exec registers its tree in the     *)
(* session, so that session_close can end it from another thread.          *)
(***************************************************************************)
EXTENDS Integers, FiniteSets

CONSTANTS ExecCalls,   \* invocations of process_run, process_pipeline, session_exec
          StagesOf,    \* [ExecCalls -> number of stages]
          SessionOf,   \* [ExecCalls -> Sessions \union {NoSession}]
          Sessions, NoSession,
          Closers,     \* invocations of session_close
          Stubborn,    \* calls whose trees the kernel may refuse to signal
          Together     \* the sets of calls that run at the same time

ASSUME PrConstants ==
    /\ StagesOf \in [ExecCalls -> Nat \ {0}]
    /\ SessionOf \in [ExecCalls -> Sessions \union {NoSession}]
    /\ \A c \in ExecCalls : SessionOf[c] # NoSession => StagesOf[c] = 1
    /\ Together \subseteq SUBSET ExecCalls

VARIABLES prCall,    \* [ExecCalls -> the invocation]
          prTree,    \* [ExecCalls -> [stage -> its process tree]]
          prSess,    \* [Sessions -> the entry of the session registry]
          prClose    \* [Closers -> the session_close invocation]

prVars == <<prCall, prTree, prSess, prClose>>

Stage(c) == 1..StagesOf[c]

\* child: the direct child; kids: its descendants in the group; held: a
\* ProcessTreeGuard is armed; task: the drains of its pipes.
NoTree == [child |-> "none", kids |-> FALSE, held |-> FALSE, task |-> "none"]
LiveTree == [child |-> "live", kids |-> FALSE, held |-> TRUE, task |-> "none"]
Alive(t) == t.child = "live" \/ t.kids
PrIdle == [pc |-> "idle", stage |-> 1, cancelled |-> FALSE, result |-> "none"]
IdleClose == [pc |-> "idle", session |-> NoSession, todo |-> {}, done |-> {}, failed |-> FALSE]

----------------------------------------------------------------------------
(* Terminating. *)

Killed(t) == [t EXCEPT !.child = IF @ = "live" THEN "gone" ELSE @, !.kids = FALSE]

\* ProcessTree::terminate signals the whole group; the kernel may refuse.
Terminations(c, t) ==
    {[ok |-> TRUE, tree |-> Killed(t)]}
    \union (IF c \in Stubborn /\ Alive(t) THEN {[ok |-> FALSE, tree |-> t]} ELSE {})

\* terminate_pipeline_children goes through all trees and keeps the first error.
TerminateAll(c, trees) ==
    { [ok |-> \A i \in Stage(c) : f[i].ok, trees |-> [i \in Stage(c) |-> f[i].tree]] :
        f \in { g \in [Stage(c) -> UNION { Terminations(c, trees[i]) : i \in Stage(c) }] :
                   \A i \in Stage(c) : g[i] \in Terminations(c, trees[i]) } }

Aborted(t) == [t EXCEPT !.task = IF @ = "runs" THEN "ended" ELSE @]

Disarmed(t) == [t EXCEPT !.held = FALSE]

Unregister(c) ==
    prSess' = IF SessionOf[c] = NoSession THEN prSess
              ELSE [prSess EXCEPT ![SessionOf[c]].trees = @ \ {c}]

Over(c, result) ==
    prCall' = [prCall EXCEPT ![c].pc = "over", ![c].result = result]

At1(c, pc) == prCall[c].pc = pc
Step(c, pc) == prCall' = [prCall EXCEPT ![c].pc = pc]

\* Leaving a call with armed guards: tasks are aborted, every armed guard
\* terminates once more, and the session forgets the tree either way.
LeaveArmed(c, trees, result) ==
    /\ \E t \in TerminateAll(c, [i \in Stage(c) |-> Aborted(trees[i])]) :
          prTree' = [prTree EXCEPT ![c] = [i \in Stage(c) |-> Disarmed(t.trees[i])]]
    /\ Unregister(c)
    /\ Over(c, result)

----------------------------------------------------------------------------
(* Starting a call. *)

SpawnAllowedUnchecked(c) == TRUE

\* No session, or one that is there and not closing.
SpawnAllowed(c) ==
    IF SessionOf[c] = NoSession THEN TRUE ELSE prSess[SessionOf[c]].state = "open"

\* session_exec looks the session up a first time; the others just start.
Invoke(c) ==
    /\ At1(c, "idle")
    /\ IF SessionOf[c] = NoSession THEN Step(c, "spawn")
       ELSE IF prSess[SessionOf[c]].state = "open" THEN Step(c, "spawn")
       ELSE Over(c, "refused")
    /\ UNCHANGED <<prTree, prSess, prClose>>

\* The second look, the spawn and the registration are one critical section.
Register(c) ==
    prSess' = IF SessionOf[c] = NoSession THEN prSess
              ELSE [prSess EXCEPT ![SessionOf[c]].trees = @ \union {c}]

SpawnRefused(c) ==
    /\ At1(c, "spawn") /\ ~SpawnAllowed(c)
    /\ Over(c, "refused")
    /\ UNCHANGED <<prTree, prSess, prClose>>

Spawn(c) ==
    /\ At1(c, "spawn") /\ SpawnAllowed(c)
    /\ LET i == prCall[c].stage
           trees == [prTree[c] EXCEPT ![i] = LiveTree]
       IN IF i < StagesOf[c]
          THEN /\ prCall' = [prCall EXCEPT ![c].stage = i + 1]
               /\ prTree' = [prTree EXCEPT ![c] = trees]
          ELSE /\ prCall' = [prCall EXCEPT ![c].stage = 1, ![c].pc = "wait"]
               /\ prTree' = [prTree EXCEPT ![c] =
                                [k \in Stage(c) |-> [trees[k] EXCEPT !.task = "runs"]]]
    /\ Register(c)
    /\ UNCHANGED prClose

\* spawn fails: the stages that run already are terminated.
SpawnFails(c) ==
    /\ At1(c, "spawn") /\ SpawnAllowed(c)
    /\ LeaveArmed(c, prTree[c], "error")
    /\ UNCHANGED prClose

\* attach fails: the new child has no containment.  It is killed directly, in
\* a later step, because its descendants may have started by then.
AttachFails(c) ==
    /\ At1(c, "spawn") /\ SpawnAllowed(c)
    /\ prTree' = [prTree EXCEPT ![c][prCall[c].stage] = [LiveTree EXCEPT !.held = FALSE]]
    /\ Step(c, "unattached")
    /\ UNCHANGED <<prSess, prClose>>

KillUnattached(c) ==
    /\ At1(c, "unattached")
    /\ LET i == prCall[c].stage
           held == [prTree[c] EXCEPT ![i] = NoTree]
       IN \E t \in TerminateAll(c, held) :
            /\ prTree' = [prTree EXCEPT ![c] = [k \in Stage(c) |->
                  IF k = i THEN [prTree[c][k] EXCEPT !.child = "gone"] ELSE Disarmed(t.trees[k])]]
            /\ Over(c, IF t.ok THEN "error" ELSE "cleanupError")
    /\ UNCHANGED <<prSess, prClose>>

----------------------------------------------------------------------------
(* Waiting, cancelling, reaping and joining. *)

\* The direct child of the stage in turn has exited: what it left behind is
\* terminated before anything is joined.
Reap(c) ==
    /\ At1(c, "wait")
    /\ LET i == prCall[c].stage
       IN /\ prTree[c][i].child = "gone"
          /\ \E t \in Terminations(c, prTree[c][i]) :
                LET trees == [prTree[c] EXCEPT ![i] = t.tree]
                IN IF t.ok
                   THEN /\ prTree' = [prTree EXCEPT ![c] = trees]
                        /\ prCall' = IF i < StagesOf[c]
                                     THEN [prCall EXCEPT ![c].stage = i + 1]
                                     ELSE [prCall EXCEPT ![c].pc = "join"]
                        /\ UNCHANGED prSess
                   ELSE LeaveArmed(c, trees, "cleanupError")
    /\ UNCHANGED prClose

\* A cancellation seen between two waits: all trees, then the direct children,
\* which are waited for; the tasks are joined if the trees are known to be gone.
\* A child the kernel would not signal keeps the call waiting until it exits.
SeeCancel(c) ==
    /\ At1(c, "wait") /\ prCall[c].cancelled
    /\ \E t \in TerminateAll(c, prTree[c]) :
          /\ prTree' = [prTree EXCEPT ![c] = t.trees]
          /\ Step(c, IF t.ok THEN "settle" ELSE "failing")
    /\ UNCHANGED <<prSess, prClose>>

CancelFailed(c) ==
    /\ At1(c, "failing")
    /\ \A i \in Stage(c) : prTree[c][i].child = "gone"
    /\ LeaveArmed(c, prTree[c], "cleanupError")
    /\ UNCHANGED prClose

PrWaitFails(c) ==
    /\ At1(c, "wait")
    /\ \E t \in TerminateAll(c, prTree[c]) :
          LeaveArmed(c, t.trees, IF t.ok THEN "error" ELSE "cleanupError")
    /\ UNCHANGED prClose

TasksEnded(c) == \A i \in Stage(c) : prTree[c][i].task # "runs"

\* All drains are joined, then the guards are disarmed and the session forgets
\* the tree; a drain that failed leaves the guards armed.
Join(c) ==
    /\ At1(c, "join") \/ At1(c, "settle")
    /\ TasksEnded(c)
    /\ \/ /\ prTree' = [prTree EXCEPT ![c] = [i \in Stage(c) |-> Disarmed(prTree[c][i])]]
          /\ Unregister(c)
          /\ Over(c, IF At1(c, "settle") THEN "cancelled" ELSE "ok")
       \/ /\ At1(c, "join")
          /\ LeaveArmed(c, prTree[c], "error")
    /\ UNCHANGED prClose

\* The client goes away: the future is dropped at one of its awaits, and with
\* it the guards, the tasks and the children (kill_on_drop).
DropCall(c) ==
    /\ prCall[c].pc \in {"wait", "join", "settle", "failing"}
    /\ LeaveArmed(c, prTree[c], "dropped")
    /\ UNCHANGED prClose

Cancel(c) ==
    /\ prCall[c].pc \in {"spawn", "wait"} /\ ~prCall[c].cancelled
    /\ prCall' = [prCall EXCEPT ![c].cancelled = TRUE]
    /\ UNCHANGED <<prTree, prSess, prClose>>

----------------------------------------------------------------------------
(* The programs themselves, and the tasks that read their pipes. *)

Exit(c, i) ==
    /\ prTree[c][i].child = "live"
    /\ prTree' = [prTree EXCEPT ![c][i].child = "gone"]
    /\ UNCHANGED <<prCall, prSess, prClose>>

Fork(c, i) ==
    /\ prTree[c][i].child = "live" /\ ~prTree[c][i].kids
    /\ prTree' = [prTree EXCEPT ![c][i].kids = TRUE]
    /\ UNCHANGED <<prCall, prSess, prClose>>

KidsExit(c, i) ==
    /\ prTree[c][i].kids
    /\ prTree' = [prTree EXCEPT ![c][i].kids = FALSE]
    /\ UNCHANGED <<prCall, prSess, prClose>>

\* drain_stream reads to end of file: until no process of the tree holds the pipe.
DrainEnds(c, i) ==
    /\ prTree[c][i].task = "runs" /\ ~Alive(prTree[c][i])
    /\ prTree' = [prTree EXCEPT ![c][i].task = "ended"]
    /\ UNCHANGED <<prCall, prSess, prClose>>

----------------------------------------------------------------------------
(* session_open and session_close. *)

SessionOpen(s) ==
    /\ prSess[s].state = "unborn"
    /\ prSess' = [prSess EXCEPT ![s].state = "open"]
    /\ UNCHANGED <<prCall, prTree, prClose>>

\* First critical section: mark, and take a copy of the trees.
CloseMark(k, s) ==
    /\ prClose[k].pc = "idle"
    /\ prSess[s].state \in {"open", "closing"}
    /\ prSess' = [prSess EXCEPT ![s].state = "closing"]
    /\ prClose' = [prClose EXCEPT ![k] =
          [IdleClose EXCEPT !.pc = "kill", !.session = s, !.todo = prSess[s].trees]]
    /\ UNCHANGED <<prCall, prTree>>

CloseKill(k) ==
    /\ prClose[k].pc = "kill"
    /\ \E c \in prClose[k].todo : \E t \in Terminations(c, prTree[c][1]) :
          /\ prTree' = [prTree EXCEPT ![c][1] = t.tree]
          /\ prClose' = [prClose EXCEPT ![k].todo = @ \ {c},
                            ![k].done = IF t.ok THEN @ \union {c} ELSE @,
                            ![k].failed = @ \/ ~t.ok]
    /\ UNCHANGED <<prCall, prSess>>

\* Second critical section: forget the trees that were terminated.
CloseRetain(k) ==
    /\ prClose[k].pc = "kill" /\ prClose[k].todo = {}
    /\ prSess' = [prSess EXCEPT ![prClose[k].session].trees = @ \ prClose[k].done]
    /\ prClose' = [prClose EXCEPT ![k].pc = "remove"]
    /\ UNCHANGED <<prCall, prTree>>

\* Third: remove the session, unless one tree could not be terminated; then the
\* session stays closing and the caller may close it again.
CloseRemove(k) ==
    /\ prClose[k].pc = "remove"
    /\ prSess' = IF prClose[k].failed THEN prSess
                 ELSE [prSess EXCEPT ![prClose[k].session] = [state |-> "gone", trees |-> {}]]
    /\ prClose' = [prClose EXCEPT ![k] = IdleClose]
    /\ UNCHANGED <<prCall, prTree>>

----------------------------------------------------------------------------

PrInit ==
    /\ \E run \in Together :
          prCall = [c \in ExecCalls |-> IF c \in run THEN PrIdle
                                        ELSE [PrIdle EXCEPT !.pc = "over"]]
    /\ prTree = [c \in ExecCalls |-> [i \in Stage(c) |-> NoTree]]
    /\ prSess = [s \in Sessions |-> [state |-> "unborn", trees |-> {}]]
    /\ prClose = [k \in Closers |-> IdleClose]

\* What a polled call does on its own, and what only a fault makes it do.
PrCallStep(c) ==
    \/ Spawn(c) \/ SpawnRefused(c) \/ KillUnattached(c)
    \/ Reap(c) \/ SeeCancel(c) \/ CancelFailed(c) \/ Join(c)

CallFault(c) == SpawnFails(c) \/ AttachFails(c) \/ PrWaitFails(c)

CloseStep(k) == CloseKill(k) \/ CloseRetain(k) \/ CloseRemove(k)

PrNext ==
    \/ \E c \in ExecCalls :
          \/ Invoke(c) \/ PrCallStep(c) \/ CallFault(c) \/ DropCall(c) \/ Cancel(c)
          \/ \E i \in Stage(c) : Exit(c, i) \/ Fork(c, i) \/ KidsExit(c, i) \/ DrainEnds(c, i)
    \/ \E s \in Sessions : SessionOpen(s) \/ \E k \in Closers : CloseMark(k, s)
    \/ \E k \in Closers : CloseStep(k)

PrSpec == PrInit /\ [][PrNext]_prVars

----------------------------------------------------------------------------

\* The parts of the state have their types, and no guard outlives its call.
PrTypeOK ==
    /\ \A c \in ExecCalls :
          /\ prCall[c].pc \in {"idle", "spawn", "unattached", "wait", "join", "settle",
                               "failing", "over"}
          /\ prCall[c].stage \in Stage(c)
          /\ prTree[c] \in [Stage(c) -> [child : {"none", "live", "gone"}, kids : BOOLEAN,
                                         held : BOOLEAN, task : {"none", "runs", "ended"}]]
          /\ \A i \in Stage(c) : prTree[c][i].held => prCall[c].pc # "over"
    /\ \A s \in Sessions : prSess[s].trees \subseteq { c \in ExecCalls : SessionOf[c] = s }

\* A call that answers with a result or with "cancelled" leaves no process of
\* its trees behind and no task that still reads a pipe or writes an artifact.
NothingOutlives ==
    \A c \in ExecCalls : prCall[c].result \in {"ok", "cancelled"} =>
        \A i \in Stage(c) : ~Alive(prTree[c][i]) /\ prTree[c][i].task # "runs"

\* Whatever a call answers, a contained tree that is still alive after it is
\* one that the kernel refused to signal.
OnlyRefusedSurvive ==
    \A c \in ExecCalls \ Stubborn : prCall[c].pc = "over" =>
        \A i \in Stage(c) : prTree[c][i].task # "none" => ~Alive(prTree[c][i])

\* While a session_exec runs, its live tree is in the registry: session_close,
\* now or in a retry after a failure, finds it.
LiveTreesRegistered ==
    \A c \in ExecCalls : SessionOf[c] # NoSession /\ prCall[c].pc # "over"
                         /\ prTree[c][1].held /\ Alive(prTree[c][1]) =>
        c \in prSess[SessionOf[c]].trees

\* A session that was closed has no process: none of its calls has a live tree,
\* and none can spawn one later, unless the call itself had to give up on it.
ClosedMeansGone ==
    \A c \in ExecCalls : SessionOf[c] # NoSession /\ prTree[c][1].task # "none"
                         /\ prSess[SessionOf[c]].state = "gone" =>
        ~Alive(prTree[c][1]) \/ prCall[c].result \in {"cleanupError", "dropped", "error"}

==============================================================================
