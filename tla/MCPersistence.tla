--------------------------- MODULE MCPersistence ---------------------------
(* What the runtime keeps on disk: the union of the state spaces of command  *)
(* admission, the writer lease, the definition library and the memory        *)
(* database.  A behaviour chooses one of them and the others rest.           *)
EXTENDS RunAdmission, WriterLease, Definitions, MemoryStore, TLC

CONSTANTS p1, p2, p3, k1, k2, f1, f2, r1, r2, n, c1, c2, h1, NoContent

\* The writer lease: a dead owner and two contenders.
OwnPids == [p \in Procs |-> p]

\* The library: definitions with a body and a layout.
D(body, layout) == [body |-> body, layout |-> layout]
ThreeDefinitions == {D("a", 1), D("a", 2), D("b", 1)}
OneUpload == {{"p"}}

\* A package saved twice, the second time with another layout only; one of the
\* requests is spent.
First == [def |-> D("a", 1), files |-> {"p"}]
Second == [def |-> D("a", 2), files |-> {"p"}]
Seeded ==
  /\ root = [EmptyRoot EXCEPT !.def = Second.def, !.files = {"p"}, !.dir = TRUE]
  /\ hist = [index |-> <<[revision |-> First, parent |-> Nothing],
                         [revision |-> Second, parent |-> First]>>,
             entry |-> First :> [parent |-> Nothing, files |-> {"p"}]
                       @@ Second :> [parent |-> First, files |-> Nothing]]
  /\ queue = [h \in Hosts |-> <<>>]
  /\ section = [h \in Hosts |-> IdleRequest]
  /\ defLease = Nothing /\ current = Second
  /\ requests = 1 /\ broke = 0

\* The memory database: two creates of one text, in one scope or with the copy
\* in the nearer one, and a replacement and an archive of the same revision.
MCScopes == "workspace" :> 0 @@ "global" :> 1
MCDedupeKey == "text" :> "k" @@ "text " :> "k" @@ "other" :> "o"
Suggest(id, key, op, scope, target, trev, content) ==
  [id |-> id, key |-> key, op |-> op, scope |-> scope, target |-> target, trev |-> trev, content |-> content]
Create(id, key, scope, content) == Suggest(id, key, "create", scope, id, 0, content)
MCRequests == {
  Create("p1", "i1", "global", "text"),
  Create("p2", "i2", "global", "text "),
  Suggest("p3", "i3", "replace", "global", "p1", 1, "other"),
  Suggest("p4", "i4", "archive", "global", "p1", 1, NoContent)}
MCReviews == {[id |-> p, key |-> p, decision |-> "approve"] : p \in {"p1", "p2", "p3", "p4"}}
             \cup {[id |-> "p1", key |-> "p2", decision |-> "reject"]}
MCFeedbacks == {[event |-> "e1", key |-> "f1", id |-> "p1", rev |-> 1]}
MCQueries == {{"text"}, {"text", "text "}, {"other"}}

\* Processes and callers of the database are interchangeable.
Alike == Permutations({p1, p2, p3}) \cup Permutations({c1, c2})

VARIABLE part
persistVars == <<part, vars, lsVars, defVars, memVars>>

PersistenceInit ==
  /\ part \in {"admission", "lease", "library", "memory"}
  /\ Init /\ LsInit /\ MemInit
  /\ IF part = "library" THEN DefInit \/ Seeded ELSE DefInit

PersistenceNext ==
  /\ UNCHANGED part
  /\ \/ part = "admission" /\ Next /\ UNCHANGED <<lsVars, defVars, memVars>>
     \/ part = "lease" /\ LsNext /\ UNCHANGED <<vars, defVars, memVars>>
     \/ part = "library" /\ DefNext /\ UNCHANGED <<vars, lsVars, memVars>>
     \/ part = "memory" /\ MemNext /\ UNCHANGED <<vars, lsVars, defVars>>

PersistenceSpec == PersistenceInit /\ [][PersistenceNext]_persistVars

\* No step loses what was stored: a document is replaced only for a request
\* that expected it and stays deleted once it is (applyInternal,
\* saveDefinitionDocument), and a record version or a decided proposal is never
\* rewritten (store/v2.rs).
StoreSteps == NoLostSave /\ DeletedStays /\ HistoryKept
=============================================================================
