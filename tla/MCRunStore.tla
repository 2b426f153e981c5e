----------------------------- MODULE MCRunStore -----------------------------
(* A small instance of RunStore: an Agent node a, a human decision h and a   *)
(* TeamStage node t with one native effect.                                  *)
EXTENDS RunStore
CONSTANTS a, h, t, yes, d1, e1

MCNodes == {a, h, t}
MCHuman == {h}
MCTeam == {t}
MCBranches == {yes}
MCDecisions == {d1}
MCEffects == {e1}
=============================================================================
