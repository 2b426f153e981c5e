------------------------------ MODULE MCFiles --------------------------------
(* The filesystem tools: the union of the state spaces of the guarded        *)
(* writes, the moves and the diffs of the toolkit, and of the filesystem     *)
(* facade of the replacement bundle.  A behaviour chooses one of them and    *)
(* the others rest.                                                          *)
EXTENDS FsChanges, FsMoves, LineDiff, FileFacade

CONSTANTS srcA, srcB, destD, destE,   \* places
          c1, c2, t1, t2, f1, f2

Req(op, files, expect, after, reversible) ==
    [op |-> op, files |-> files, expect |-> [p \in Paths |-> expect],
     after |-> [p \in Paths |-> after], reversible |-> reversible,
     dry |-> FALSE, create |-> FALSE, target |-> "none"]
On(op, target) == [Req(op, <<>>, "any", "v1", FALSE) EXCEPT !.target = target]

RequestDef == [
    edit |-> Req("edit", <<"p">>, "any", "v1", TRUE),
    cas |-> Req("write", <<"p">>, "v0", "v2", FALSE),
    patch |-> Req("patch", <<"p">>, "v0", "v2", FALSE),
    replace |-> Req("replace", <<"q">>, "v0", "v2", FALSE),
    batch |-> Req("batch", <<"p", "q">>, "v0", "v1", TRUE),
    multi |-> Req("multi", <<"p", "q">>, "any", "v2", FALSE),
    dry |-> [Req("batch", <<"p", "q">>, "v0", "v1", FALSE) EXCEPT !.dry = TRUE],
    create |-> [Req("write", <<"q">>, "any", "v2", FALSE) EXCEPT !.create = TRUE],
    undoEdit |-> On("rollback", "edit"),
    commit |-> On("commit", "batch"),
    undo1 |-> On("rollback", "batch"),
    undo2 |-> On("rollback", "batch")]

TogetherDef == {{"edit", "cas", "undoEdit"}, {"cas", "create", "multi"}, {"batch", "patch", "dry"},
                {"batch", "replace"}, {"batch", "commit", "undo1", "undo2"},
                {"batch", "undo1", "undo2", "replace"}}

Ask(op, from, to, overwrite) ==
    [op |-> op, from |-> from, to |-> to, overwrite |-> overwrite, recursive |-> overwrite]

MvRequestDef == [
    replace |-> Ask("move", srcA, destD, TRUE),
    away |-> Ask("move", srcA, destE, FALSE),
    rival |-> Ask("move", srcB, destD, TRUE),
    copyOver |-> Ask("copy", srcA, destD, TRUE),
    copyNew |-> Ask("copy", srcA, destE, FALSE),
    remove |-> Ask("remove", srcA, destD, TRUE),
    rmdir |-> Ask("remove", srcB, destD, FALSE),
    tidy |-> Ask("remove", srcB, srcA, TRUE)]

LayoutsDef ==
    {[p \in Places |-> CASE p = srcA -> kind [] p = srcB -> "file" [] p = destD -> old [] p = destE -> "none"] :
        kind \in Kinds, old \in {"none", "file", "dir"}}

\* No two calls install into one destination.
MvApart == {{"replace", "away"}, {"replace", "copyNew"}, {"copyOver", "tidy"}, {"copyOver", "away"},
            {"copyNew", "tidy"}, {"remove", "away"}, {"rmdir", "copyNew"}}

\* Two lines, one of them also as a text with CRLF line ends has it.
MCLines == {[text |-> "x", cr |-> FALSE], [text |-> "y", cr |-> FALSE], [text |-> "x", cr |-> TRUE]}

\* A caller in each of two sessions, and an edit that matches once.
MCTalkOf == [caller \in Callers |-> IF caller = c1 THEN t1 ELSE t2]
MCEdits == {[from |-> "v0", to |-> "v1", planned |-> "v1"]}

VARIABLE part
filesVars == <<part, fsVars, mvVars, dfVars, facadeVars>>

FsRest ==
    /\ fsFile = [p \in Paths |-> Empty] /\ fsLock = Whatever
    /\ fsCall = [c \in FsCalls |-> [IdleFsCall EXCEPT !.pc = "done"]]
    /\ fsChange = [c \in FsCalls |-> NoChange]
    /\ fsRoom = [outside |-> 0, faults |-> 0]

MvRest ==
    /\ mvAt = [s \in Slots |-> Nothing]
    /\ mvCall = [c \in MvCalls |-> [IdleMv EXCEPT !.pc = "done"]]
    /\ mvDisk = [cross |-> FALSE, had |-> {}]
    /\ mvUp = TRUE /\ mvRoom = 0

DfRest ==
    /\ dfOld = <<>> /\ dfNew = <<>> /\ dfPhase = "done"
    /\ dfReach = <<>> /\ dfTrace = <<>> /\ dfAt = [x |-> 0, y |-> 0]
    /\ dfOps = <<>> /\ dfHunks = <<>> /\ dfOut = <<>>

FilesInit ==
    /\ part \in {"changes", "moves", "diffs", "facade"}
    /\ IF part = "changes" THEN FsInit ELSE FsRest
    /\ IF part = "moves" THEN MvInit ELSE MvRest
    /\ IF part = "diffs" THEN DfInit ELSE DfRest
    /\ FacadeInit /\ (part # "facade" => Content(f1) = "v0")

FilesNext ==
    /\ UNCHANGED part
    /\ \/ part = "changes" /\ FsNext /\ UNCHANGED <<mvVars, dfVars, facadeVars>>
       \/ part = "moves" /\ MvNext /\ UNCHANGED <<fsVars, dfVars, facadeVars>>
       \/ part = "diffs" /\ DfNext /\ UNCHANGED <<fsVars, mvVars, facadeVars>>
       \/ part = "facade" /\ FacadeNext /\ UNCHANGED <<fsVars, mvVars, dfVars>>

FilesSpec == FilesInit /\ [][FilesNext]_filesVars
-----------------------------------------------------------------------------
\* The files of the toolkit and of the facade: a call completes a change at most
\* once (change.rs); a move or a copy loses no content, and one that failed
\* puts back what it displaced (copy_move_remove.rs); a diff is a shortest
\* script and applying it to the old text gives the new one (write.rs); a body
\* the facade remembers is the one its digest is of, and a call that failed
\* alone did nothing (filesystem-facade.mjs).
FilesKept ==
    /\ part = "changes" => FsTypeOK /\ OneCompletion
    /\ part = "moves" => MvTypeOK /\ NothingLost /\ FailedMoveRestores
    /\ part = "diffs" => ScriptShortest /\ PatchReproduces
    /\ part = "facade" => FacadeTypeOK /\ BodyIsOfDigest /\ FailedAloneIsClean

\* Step by step: a change of several files is applied as a whole or taken back, a
\* write or a rollback spares what somebody else has written, and replaces only
\* the content it was told to expect (change.rs, edit_batch.rs); the facade
\* overwrites only a preimage its session observed, and tells the Host a version
\* that had the observed content (filesystem-facade.mjs).
FileSteps ==
    /\ AllOrNothing /\ SparesOutsideWrites /\ ExpectedIsReplaced /\ RolledBackIsRestored
    /\ OverwritesWhatItSaw /\ VersionIsOfContent
=============================================================================
