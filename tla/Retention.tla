------------------------------ MODULE Retention ------------------------------
(***************************************************************************)
(* What the artifact store promises its callers: an artifact that was      *)
(* published can be read until its retention ends, whatever crashes,       *)
(* cleanups and other captures happen; after that it is withdrawn once and *)
(* never comes back.                                                       *)
(***************************************************************************)
CONSTANT Artifacts
VARIABLES shelf,   \* [Artifacts -> "unborn" | "readable" | "withdrawn"]
          lapsed   \* the artifacts whose retention has ended

Init == /\ shelf = [a \in Artifacts |-> "unborn"]
        /\ lapsed = {}

Publish(a) == /\ shelf[a] = "unborn"
              /\ shelf' = [shelf EXCEPT ![a] = "readable"]
              /\ UNCHANGED lapsed

Lapse(a) == /\ shelf[a] = "readable"
            /\ lapsed' = lapsed \union {a}
            /\ UNCHANGED shelf

Withdraw(a) == /\ shelf[a] = "readable"
               /\ a \in lapsed
               /\ shelf' = [shelf EXCEPT ![a] = "withdrawn"]
               /\ UNCHANGED lapsed

Next == \E a \in Artifacts : Publish(a) \/ Lapse(a) \/ Withdraw(a)

Spec == Init /\ [][Next]_<<shelf, lapsed>>
==============================================================================
