---------------------------- MODULE MCRunDriver ----------------------------
(* Two definition graphs for TLC.                                            *)
EXTENDS RunDriver

Edge(from, to, branch) == [from |-> from, to |-> to, branch |-> branch]

\* Two Agents in parallel, merged by a join over data edges.
ParallelData == {<<"a1", "j">>, <<"a2", "j">>}

\* A condition that selects an Agent, a human decision beside them, and a join.
MixedControl == {Edge("c", "a", "yes"), Edge("a", "j", None), Edge("h", "j", None)}
=============================================================================
