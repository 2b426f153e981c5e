--------------------------- MODULE LinearHistory ---------------------------
(***************************************************************************)
(* What undo and redo promise: one line of versions.  A change goes on     *)
(* from the present and drops the future; undo and redo walk the line      *)
(* without changing any version on it; only the Cap newest versions of the *)
(* past are kept.                                                          *)
(***************************************************************************)
EXTENDS Naturals, Sequences, SequencesExt

CONSTANTS Cap, Versions

VARIABLES past, present, future

Newest(s) == IF Len(s) > Cap THEN Tail(s) ELSE s

Change(v) ==
  /\ past' = Newest(Append(past, present))
  /\ present' = v
  /\ future' = <<>>

Undo ==
  /\ past # <<>>
  /\ past' = Front(past)
  /\ present' = Last(past)
  /\ future' = Append(future, present)

Redo ==
  /\ future # <<>>
  /\ future' = Front(future)
  /\ present' = Last(future)
  /\ past' = Append(past, present)

\* Another document is opened.
Open(v) == past' = <<>> /\ present' = v /\ future' = <<>>

Init == past = <<>> /\ present \in Versions /\ future = <<>>

\* present' is the version a step changes to or opens.
Next == Change(present') \/ Undo \/ Redo \/ Open(present')

Spec == Init /\ [][Next]_<<past, present, future>>
============================================================================
