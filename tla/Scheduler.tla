----------------------------- MODULE Scheduler -----------------------------
(* orchestration/scheduler.ts: which nodes of the frozen graph are ready,    *)
(* skipped or blocked, computed from the Attempts of a Run record r.         *)
EXTENDS RunRecord

CONSTANTS
  Agents,     \* the agentTask nodes
  Condition,  \* the condition nodes
  Join,       \* the join nodes
  Data,       \* data edges <<from, to>>
  Control     \* control edges [from, to, branch]; branch None: unconditional

ASSUME GraphAssumption ==
  /\ Agents \subseteq Nodes \ Human
  /\ Condition \subseteq Nodes \ (Human \cup Agents)
  /\ Join \subseteq Nodes \ (Human \cup Agents \cup Condition)
  /\ Data \subseteq Nodes \X Nodes
  /\ Control \subseteq [from: Nodes, to: Nodes, branch: Branches \cup {None}]

IsTerminal(r, n) == r.att[n].st \in TERMINAL_ATTEMPTS
IsTerminalSuccess(r, n) == r.att[n].st = "succeeded"

\* A control parent seen from one of its edges: not settled or not in favour
\* yet, on an unselected path, or succeeded on a selected one.
Chooses(r, e) ==
  e.branch # None /\ e.from \in Human \cup Condition /\ IsTerminalSuccess(r, e.from)
UnselectedBySkip(r, e) == r.att[e.from].st = "skipped"
Unselected(r, e) ==
  \/ r.att[e.from].st = "skipped"
  \/ Chooses(r, e) /\ r.att[e.from].branch \notin {None, e.branch}
Undecided(r, e) == Chooses(r, e) /\ r.att[e.from].branch = None
Favourable(r, e) == ~Unselected(r, e) /\ ~Undecided(r, e) /\ IsTerminalSuccess(r, e.from)
Pending(r, e) == ~Unselected(r, e) /\ (Undecided(r, e) \/ ~IsTerminal(r, e.from))

ControlIn(n) == {e \in Control : e.to = n}
DataIn(n) == {m \in Nodes : <<m, n>> \in Data}

\* A join merges the parents on selected paths and waits for each of them.
SelectedData(r, n) == {m \in DataIn(n) : r.att[m].st # "skipped"}
SelectedControl(r, n) == {e \in ControlIn(n) : ~Unselected(r, e)}
JoinReady(r, n) ==
  /\ SelectedControl(r, n) # {} \/ SelectedData(r, n) # {}
  /\ \A e \in SelectedControl(r, n) : Favourable(r, e)
  /\ \A m \in SelectedData(r, n) : IsTerminalSuccess(r, m)
JoinPending(r, n) ==
  \/ \E e \in SelectedControl(r, n) : Pending(r, e)
  \/ \E m \in SelectedData(r, n) : ~IsTerminal(r, m)

\* Any other node needs every control edge in its favour and all of its data.
PlainSkipped(r, n) ==
  \/ \E e \in ControlIn(n) : Unselected(r, e)
  \/ \E m \in DataIn(n) : r.att[m].st = "skipped"
PlainReady(r, n) ==
  /\ ~PlainSkipped(r, n)
  /\ \A e \in ControlIn(n) : Favourable(r, e)
  /\ \A m \in DataIn(n) : IsTerminalSuccess(r, m)

ReadyNodes(r) ==
  {n \in Nodes : ~Started(r, n) /\ IF n \in Join THEN JoinReady(r, n) ELSE PlainReady(r, n)}
SkippedNodes(r) ==
  {n \in Nodes : ~Started(r, n) /\ IF n \in Join THEN ~JoinReady(r, n) /\ ~JoinPending(r, n)
                                   ELSE PlainSkipped(r, n)}

\* driveRun: every node of the graph ended on a selected or a skipped path.
Complete(r) == \A n \in Nodes : r.att[n].st \in {"succeeded", "skipped"}
-----------------------------------------------------------------------------
\* What "only actually selected paths execute" means for a finished Run,
\* stated on the graph and the branches taken and not on the order of events:
\* S is the set of nodes that ran, branch the branch each decider took.
Taken(e, S, branch) ==
  e.from \in S /\ (e.branch # None /\ e.from \in Human \cup Condition => branch[e.from] = e.branch)
OnSelectedPath(n, S, branch) ==
  IF n \in Join
  THEN (\E e \in ControlIn(n) : Taken(e, S, branch)) \/ DataIn(n) \cap S # {}
  ELSE (\A e \in ControlIn(n) : Taken(e, S, branch)) /\ DataIn(n) \subseteq S
=============================================================================
