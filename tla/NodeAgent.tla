------------------------------ MODULE NodeAgent ------------------------------
(***************************************************************************)
(* One Agent Attempt: BlueprintAgentExecutor.execute (host/agent-          *)
(* executor.ts) and the inbox of a managed node (service/managed-node-     *)
(* session.ts), over the Attempt's durable record.                         *)
(*                                                                         *)
(* The Agent, its inbox, the session flush and the catalog are the Host's  *)
(* (external): a turn may end in any way or never, a flush or a catalog    *)
(* write may fail or never return, a call may throw after it was accepted. *)
(* An await is a step of its own, so everything else may happen there.     *)
(***************************************************************************)
EXTENDS Integers, Sequences, FiniteSets

CONSTANTS Letters,   \* request ids of the messages people send to the node
          MaxAsks,   \* bound: message calls, retries of one request included
          MaxTurns   \* bound: Agent turns

ASSUME AgentAssumption == {MaxAsks, MaxTurns} \subseteq Nat

VARIABLES
    mode,   \* the node: managed or not, with an output schema or not, with a source session or not
    node,   \* the durable record: the Run's and the Attempt's state, the messages
    agent,  \* the Host's Agent
    entry,  \* the managed binding: bound, accepting, the tasks of its serial tail
    exec,   \* the execution: its step and its flags
    letter, \* per request: where its message call is
    used    \* what the bounds count

agentVars == <<mode, node, agent, entry, exec, letter, used>>

LetterSteps == {"idle", "asked", "queued", "write", "send", "flush", "confirm", "accepted", "replayed", "refused", "unknown"}
ExecSteps == {"start", "create", "bind", "compose", "loop", "idle", "ended", "waiting", "change",
              "drain", "caught", "cleanup", "dispose", "done"}
Outcomes == {"recovery_required", "succeeded", "failed", "cancelled", "timeout", "thrown"}
Reasons == {"none", "completed", "aborted", "error", "stopped"}

AgentTypeOK ==
    /\ mode \in [managed : BOOLEAN, schema : BOOLEAN, source : BOOLEAN]
    /\ node \in [run : {"running", "cancelling", "over"},
                 attempt : {"running", "waiting_input", "cancelling", "settled"},
                 mail : [Letters -> {"none", "pending", "accepted"}]]
    /\ agent \in [made : BOOLEAN, busy : BOOLEAN, end : Reasons, captured : BOOLEAN,
                  took : [Letters -> 0..1]]
    /\ entry.bound \in BOOLEAN /\ entry.accepting \in BOOLEAN
    /\ entry.tail \in Seq(Letters \cup {"waiting"})
    /\ exec \in [at : ExecSteps, aborted : BOOLEAN, timedOut : BOOLEAN, cancelSent : BOOLEAN,
                 unknown : BOOLEAN, changed : BOOLEAN, quiescent : BOOLEAN, submitted : BOOLEAN,
                 listening : BOOLEAN, out : Outcomes]
    /\ letter \in [Letters -> LetterSteps]
    /\ used \in [asks : 0..MaxAsks, turns : 0..MaxTurns]

AgentInit ==
    /\ mode \in {m \in [managed : BOOLEAN, schema : BOOLEAN, source : BOOLEAN] : m.managed => m.schema}
    /\ node = [run |-> "running", attempt |-> "running", mail |-> [m \in Letters |-> "none"]]
    /\ agent = [made |-> FALSE, busy |-> FALSE, end |-> "none", captured |-> FALSE,
                took |-> [m \in Letters |-> 0]]
    /\ entry = [bound |-> FALSE, accepting |-> FALSE, tail |-> <<>>]
    /\ exec = [at |-> "start", aborted |-> FALSE, timedOut |-> FALSE, cancelSent |-> FALSE,
               unknown |-> FALSE, changed |-> FALSE, quiescent |-> FALSE, submitted |-> FALSE,
               listening |-> FALSE, out |-> "recovery_required"]
    /\ letter = [m \in Letters |-> "idle"] /\ used = [asks |-> 0, turns |-> 0]

-----------------------------------------------------------------------------
(* The Agent.                                                                *)

\* A new turn, or input for the turn that runs; each status change is an event to a
\* managed execution.
Event(e) == [e EXCEPT !.changed = @ \/ mode.managed]

\* A structured output is accepted during a turn, and closes the node to messages.
Capture ==
    /\ agent.busy /\ mode.schema /\ ~agent.captured
    /\ agent' = [agent EXCEPT !.captured = TRUE]
    /\ entry' = [entry EXCEPT !.accepting = FALSE]
    /\ UNCHANGED <<mode, node, exec, letter, used>>

\* A turn ends; the Agent is idle until the next input.
EndTurn(why) ==
    /\ agent.busy /\ why \in Reasons \ {"none"} /\ (why = "aborted" => exec.cancelSent)
    /\ agent' = [agent EXCEPT !.busy = FALSE, !.end = why]
    /\ exec' = Event(exec)
    /\ UNCHANGED <<mode, node, entry, letter, used>>

-----------------------------------------------------------------------------
(* Cancellation of the execution: the published Agent is cancelled once, the *)
(* node takes no more messages, and a timer bounds the wait for quiescence.  *)

Cancelled(e, throws) ==
    IF e.cancelSent THEN e ELSE [e EXCEPT !.cancelSent = TRUE, !.unknown = @ \/ throws]
Closed(on) == [entry EXCEPT !.accepting = @ /\ ~on]

\* The Run is cancelled: the node is closed and the cutoff committed; an Attempt that
\* waits for input has nothing in flight and settles here.
CancelNode ==
    /\ node.run = "running" /\ node.attempt # "settled"
    /\ entry' = Closed(TRUE)
    /\ node' = IF node.attempt = "waiting_input" THEN [node EXCEPT !.run = "over", !.attempt = "settled"]
               ELSE [node EXCEPT !.run = "cancelling", !.attempt = "cancelling"]
    /\ UNCHANGED <<mode, agent, exec, letter, used>>

\* The signal: the Run's controller, or the execution's own deadline.
AbortNode(deadline, throws) ==
    /\ ~exec.aborted /\ exec.at # "done" /\ (deadline \/ node.run # "running")
    /\ LET e == [exec EXCEPT !.aborted = TRUE, !.timedOut = deadline] IN
       exec' = IF exec.listening THEN Cancelled(e, throws) ELSE e
    /\ entry' = Closed(exec.listening)
    /\ UNCHANGED <<mode, node, agent, letter, used>>

\* AGENT_CANCEL_QUIESCENCE_MS after the cancellation its effects are unknown.
Grace ==
    /\ exec.cancelSent /\ ~exec.unknown /\ exec.at # "done"
    /\ exec' = [exec EXCEPT !.unknown = TRUE]
    /\ UNCHANGED <<mode, node, agent, entry, letter, used>>

-----------------------------------------------------------------------------
(* execute.                                                                  *)

Goes(e, pc) == [e EXCEPT !.at = pc]
Stopped(e) == IF e.timedOut THEN "timeout" ELSE "cancelled"

\* A signal that already fired creates nothing.
Start ==
    /\ exec.at = "start"
    /\ exec' = IF exec.aborted THEN [exec EXCEPT !.at = "done", !.out = "cancelled"] ELSE Goes(exec, "create")
    /\ UNCHANGED <<mode, node, agent, entry, letter, used>>

\* The creation races the signal.  An Agent published after the race was lost gets no
\* input: it is cancelled, awaited and disposed off to the side.
Create(rejected) ==
    /\ exec.at = "create"
    /\ \/ /\ ~rejected
          /\ agent' = [agent EXCEPT !.made = TRUE] /\ exec' = Goes(exec, "bind")
       \/ /\ rejected /\ ~exec.aborted
          /\ exec' = [exec EXCEPT !.at = "done", !.out = "thrown"] /\ UNCHANGED agent
       \/ /\ exec.aborted
          /\ exec' = [exec EXCEPT !.at = "done", !.out = Stopped(exec)] /\ UNCHANGED agent
    /\ UNCHANGED <<mode, node, entry, letter, used>>

\* The abort listener, then the managed binding.  A signal that fired before is caught up.
Bind(throws) ==
    /\ exec.at = "bind"
    /\ LET e == [exec EXCEPT !.listening = TRUE, !.at = "compose"] IN
       exec' = IF exec.aborted THEN Cancelled(e, throws) ELSE e
    /\ entry' = [entry EXCEPT !.bound = mode.managed, !.accepting = mode.managed /\ ~exec.aborted]
    /\ UNCHANGED <<mode, node, agent, letter, used>>

\* The catalog entry of a sourced session (which cancellation need not wait for), the
\* injected skills and the input; the input may throw after it was accepted.
Compose(fails, sent) ==
    /\ exec.at = "compose"
    /\ IF exec.aborted
       THEN /\ exec' = Goes(exec, IF mode.source THEN "caught" ELSE "loop")
            /\ UNCHANGED <<agent, used>>
       ELSE /\ used.turns < MaxTurns
            /\ fails => (sent \/ mode.source)
            /\ exec' = [Goes(IF sent THEN Event(exec) ELSE exec, IF fails THEN "caught" ELSE "loop")
                           EXCEPT !.submitted = sent]
            /\ fails \/ sent
            /\ IF sent THEN agent' = [agent EXCEPT !.busy = TRUE] /\ used' = [used EXCEPT !.turns = @ + 1]
               ELSE UNCHANGED <<agent, used>>
    /\ UNCHANGED <<mode, node, entry, letter>>

\* The loop remembers the changes it has seen and waits for the Agent.
Loop(throws) ==
    /\ exec.at = "loop"
    /\ LET e == [exec EXCEPT !.changed = FALSE, !.quiescent = FALSE, !.at = "idle"] IN
       exec' = IF exec.aborted THEN Cancelled(e, throws) ELSE e
    /\ entry' = Closed(exec.aborted)
    /\ UNCHANGED <<mode, node, agent, letter, used>>
WhenIdle ==
    /\ exec.at = "idle" /\ ~agent.busy /\ ~exec.unknown
    /\ exec' = [exec EXCEPT !.quiescent = TRUE, !.at = "ended"]
    /\ UNCHANGED <<mode, node, agent, entry, letter, used>>

\* A plain node, a cancelled one, a turn that did not complete and a captured output end
\* the loop and close the node; otherwise the node stays open for people.
LoopEnds == ~mode.managed \/ exec.aborted \/ agent.end # "completed" \/ agent.captured
EndLoop ==
    /\ exec.at = "ended" /\ LoopEnds
    /\ exec' = Goes(exec, "drain") /\ entry' = Closed(TRUE)
    /\ UNCHANGED <<mode, node, agent, letter, used>>
StayOpen ==
    /\ exec.at = "ended" /\ ~LoopEnds
    /\ exec' = Goes(exec, "waiting")
    /\ entry' = IF entry.accepting THEN [entry EXCEPT !.tail = Append(@, "waiting")] ELSE entry
    /\ UNCHANGED <<mode, node, agent, letter, used>>

\* waiting() came back, or the cancellation did; then a change is awaited that was not
\* seen before.
Tasks == {entry.tail[k] : k \in DOMAIN entry.tail}
Waited ==
    /\ exec.at = "waiting" /\ ("waiting" \notin Tasks \/ exec.cancelSent)
    /\ exec' = Goes(exec, IF exec.changed \/ exec.aborted THEN "loop" ELSE "change")
    /\ UNCHANGED <<mode, node, agent, entry, letter, used>>
Changed ==
    /\ exec.at = "change" /\ (exec.changed \/ exec.cancelSent)
    /\ exec' = Goes(exec, "loop")
    /\ UNCHANGED <<mode, node, agent, entry, letter, used>>

\* Unknown effects end every wait, with the outcome they started from.
GiveUp ==
    /\ exec.unknown /\ exec.at \in {"idle", "waiting", "change", "drain", "caught"}
    /\ exec' = Goes(exec, "cleanup")
    /\ UNCHANGED <<mode, node, agent, entry, letter, used>>

\* The messages in the tail are over: the last turn says what the outcome is.
Verdict(e) ==
    CASE e.timedOut -> "timeout"
      [] ~e.timedOut /\ (e.aborted \/ agent.end = "aborted") -> "cancelled"
      [] ~e.timedOut /\ ~e.aborted /\ agent.end = "completed" ->
             IF ~mode.schema \/ agent.captured THEN "succeeded" ELSE "failed"
      [] ~e.timedOut /\ ~e.aborted /\ agent.end \in {"error", "stopped"} -> "failed"
      [] OTHER -> "recovery_required"
DrainedFirst == entry.tail = <<>>
Drained ==
    /\ exec.at = "drain" /\ DrainedFirst /\ ~exec.unknown
    /\ exec' = [exec EXCEPT !.at = "cleanup", !.out = Verdict(exec)]
    /\ UNCHANGED <<mode, node, agent, entry, letter, used>>

\* An exception cancels the Agent; what it did is known only if nothing was submitted.
Caught(throws) ==
    /\ exec.at = "caught" /\ ~exec.cancelSent
    /\ exec' = Cancelled(exec, throws) /\ entry' = Closed(TRUE)
    /\ UNCHANGED <<mode, node, agent, letter, used>>
CaughtIdle ==
    /\ exec.at = "caught" /\ exec.cancelSent /\ ~agent.busy /\ ~exec.unknown
    /\ exec' = [exec EXCEPT !.at = "cleanup", !.quiescent = TRUE,
                    !.out = IF exec.submitted THEN @ ELSE IF exec.aborted THEN Stopped(exec) ELSE "failed"]
    /\ UNCHANGED <<mode, node, agent, entry, letter, used>>

\* finally: close, drain or give up on it, unbind; a quiescent Agent is disposed now,
\* another one when it ends.
Cleanup ==
    /\ exec.at = "cleanup" /\ (entry.tail = <<>> \/ exec.unknown)
    /\ entry' = [entry EXCEPT !.accepting = FALSE, !.bound = FALSE]
    /\ exec' = [exec EXCEPT !.at = "done", !.listening = FALSE]
    /\ UNCHANGED <<mode, node, agent, letter, used>>

\* The caller records the result, or leaves unknown effects to the operator.
SettleAttempt ==
    /\ exec.at = "done" /\ node.attempt # "settled"
    /\ node' = [node EXCEPT !.attempt = "settled", !.run = "over"]
    /\ UNCHANGED <<mode, agent, entry, exec, letter, used>>

-----------------------------------------------------------------------------
(* message, and the waiting task.  The tail runs one task at a time.         *)

Active == node.run = "running" /\ node.attempt \in {"running", "waiting_input"}
Alive == entry.accepting /\ ~exec.aborted
Head1 == IF entry.tail = <<>> THEN "none" ELSE entry.tail[1]
Says(m, pc) == letter' = [letter EXCEPT ![m] = pc]
PopTail == [entry EXCEPT !.tail = Tail(@)]

\* A person sends a message, or sends the same request again after its answer was lost.
Ask(m) ==
    /\ letter[m] \in {"idle", "accepted", "replayed", "refused", "unknown"} /\ used.asks < MaxAsks
    /\ mode.managed /\ exec.at # "start"
    /\ used' = [used EXCEPT !.asks = @ + 1]
    /\ Says(m, "asked")
    /\ UNCHANGED <<mode, node, agent, entry, exec>>
Admit(m) ==
    /\ letter[m] = "asked"
    /\ IF Active /\ entry.bound
       THEN entry' = [entry EXCEPT !.tail = Append(@, m)] /\ Says(m, "queued")
       ELSE UNCHANGED entry /\ Says(m, "refused")
    /\ UNCHANGED <<mode, node, agent, exec, used>>

\* Its turn: a request the record knows is answered from it and not sent again.
Known(m) == node.mail[m] # "none"
Lookup(m) ==
    /\ letter[m] = "queued" /\ Head1 = m
    /\ CASE ~(Alive /\ Active) -> Says(m, "refused") /\ entry' = PopTail
         [] Alive /\ Active /\ Known(m) ->
               Says(m, IF node.mail[m] = "accepted" THEN "replayed" ELSE "unknown") /\ entry' = PopTail
         [] OTHER -> Says(m, "write") /\ UNCHANGED entry
    /\ UNCHANGED <<mode, node, agent, exec, used>>

\* The pending message is durable before the inbox sees it, and the Attempt runs again.
WritePending(m) ==
    /\ letter[m] = "write"
    /\ IF Alive /\ Active
       THEN node' = [node EXCEPT !.mail[m] = "pending", !.attempt = "running"] /\ Says(m, "send") /\ UNCHANGED entry
       ELSE Says(m, "refused") /\ entry' = PopTail /\ UNCHANGED node
    /\ UNCHANGED <<mode, agent, exec, used>>

\* After the dispatch an error leaves the message unknown: the node closes and the
\* execution gives up knowing its effects.
Uncertain(m, throws) ==
    /\ Says(m, "unknown") /\ entry' = [PopTail EXCEPT !.accepting = FALSE]
    /\ exec' = [Cancelled(exec, throws) EXCEPT !.unknown = TRUE]
SendMail(m, throws) ==
    /\ letter[m] = "send"
    /\ IF Alive /\ Active
       THEN /\ used.turns < MaxTurns \/ agent.busy
            /\ agent' = [agent EXCEPT !.busy = TRUE, !.took[m] = @ + 1]
            /\ used' = IF agent.busy THEN used ELSE [used EXCEPT !.turns = @ + 1]
            /\ IF throws THEN Uncertain(m, FALSE)
               ELSE Says(m, "flush") /\ exec' = Event(exec) /\ UNCHANGED entry
       ELSE Says(m, "refused") /\ entry' = PopTail /\ UNCHANGED <<agent, exec, used>>
    /\ UNCHANGED <<mode, node>>

\* The session is flushed (or that fails, or never returns), and the message accepted.
Flush(m, fails) ==
    /\ letter[m] = "flush"
    /\ IF fails THEN Uncertain(m, FALSE) ELSE Says(m, "confirm") /\ UNCHANGED <<entry, exec>>
    /\ UNCHANGED <<mode, node, agent, used>>
Confirm(m, fails) ==
    /\ letter[m] = "confirm"
    /\ IF fails \/ node.run = "over" THEN Uncertain(m, FALSE) /\ UNCHANGED node
       ELSE /\ node' = [node EXCEPT !.mail[m] = "accepted"] /\ Says(m, "accepted")
            /\ entry' = PopTail /\ UNCHANGED exec
    /\ UNCHANGED <<mode, agent, used>>

\* The waiting task: the Attempt waits for input if the node is open and the Agent idle
\* when the record is written.
MayWait == Alive /\ node.run = "running" /\ ~agent.busy
MarkWaiting ==
    /\ Head1 = "waiting"
    /\ node' = IF MayWait /\ node.attempt = "running" THEN [node EXCEPT !.attempt = "waiting_input"] ELSE node
    /\ entry' = PopTail
    /\ UNCHANGED <<mode, agent, exec, letter, used>>

AgentSteps ==
    \/ Start \/ WhenIdle \/ EndLoop \/ StayOpen \/ Waited \/ Changed \/ GiveUp \/ Drained
    \/ CaughtIdle \/ Cleanup \/ MarkWaiting
    \/ \E throws \in BOOLEAN : Bind(throws) \/ Loop(throws) \/ Caught(throws)
    \/ \E m \in Letters : Lookup(m) \/ WritePending(m) \/ \E throws \in BOOLEAN : SendMail(m, throws) \/ Confirm(m, throws)
HostSteps ==
    \/ Capture \/ SettleAttempt
    \/ \E why \in Reasons : EndTurn(why)
    \/ \E b, c \in BOOLEAN : Compose(b, c)
    \/ \E b \in BOOLEAN : Create(b)
    \/ \E m \in Letters, b \in BOOLEAN : Flush(m, b)
AgentNext ==
    \/ AgentSteps \/ HostSteps \/ Grace \/ CancelNode
    \/ \E d, t \in BOOLEAN : AbortNode(d, t)
    \/ \E m \in Letters : Ask(m) \/ Admit(m)

AgentSpec == AgentInit /\ [][AgentNext]_agentVars
\* The execution's own steps and its timer run; the Host's Agent, catalog and flush may
\* hang, except that a creation and a composition lose their race to the signal.
CreateStops == exec.aborted /\ (\E b \in BOOLEAN : Create(b))
ComposeStops == exec.aborted /\ (\E b, c \in BOOLEAN : Compose(b, c))

-----------------------------------------------------------------------------
(* Properties.                                                               *)

\* A request reaches the Agent's inbox at most once, however often it is sent again and
\* whatever failed in between, and a receipt is only given for one that did.
MessageOnce == \A m \in Letters :
    /\ agent.took[m] <= 1
    /\ (node.mail[m] = "accepted" \/ letter[m] \in {"accepted", "replayed"}) => agent.took[m] = 1

\* An Attempt whose own input was submitted, with a message that reached the inbox and was
\* not confirmed, has no known outcome: it is left to the operator (dispatched, uncertain,
\* the drain before the verdict).
UnknownMailIsUnknown ==
    (exec.at = "done" /\ exec.submitted /\ \E m \in Letters : agent.took[m] = 1 /\ node.mail[m] = "pending")
        => exec.out = "recovery_required"

\* The record says that an Attempt waits for input only while its Agent is idle and its
\* node open: a message puts it back to running before the Agent sees it.
WaitingMeansIdle == (node.attempt = "waiting_input" /\ Alive) => ~agent.busy

=============================================================================
