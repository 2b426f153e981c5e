------------------------------ MODULE FsChanges ------------------------------
(***************************************************************************)
(* The guarded writes of the toolkit: fs_write_text, fs_replace_text,      *)
(* fs_patch, fs_edit (fs/write.rs), fs_edit_batch (fs/edit_batch.rs),      *)
(* apply_multi and the ChangeSets that commit or roll back what a          *)
(* reversible edit applied (fs/change.rs).                                 *)
(* Every one of them holds the process-wide mutation lock from the read of *)
(* the preimage to the last rename; writers outside the lock (an editor,   *)
(* another process, fs_copy, fs_move, fs_remove) do not.  A content stands *)
(* for its bytes and for their SHA-256.                                    *)
(***************************************************************************)
EXTENDS Integers, Sequences, FiniteSets

CONSTANTS Paths, Values, Empty, Absent, Whatever,
          FsCalls,       \* invocations
          Request,       \* [FsCalls -> the request]
          FsTogether,    \* the sets of calls that run at the same time
          MaxOutside,    \* bound: writes by somebody who does not take the lock
          MaxFaults      \* bound: failing reads and writes

VARIABLES fsFile,     \* [Paths -> content]
          fsLock,     \* the holder of mutation_lock, or Whatever
          fsCall,     \* [FsCalls -> the invocation]
          fsChange,   \* [FsCalls -> the ChangeSet the call registered]
          fsRoom      \* what is left of the bounds

fsVars == <<fsFile, fsLock, fsCall, fsChange, fsRoom>>

ASSUME FsConstants ==
    /\ Empty \in Values
    /\ {Absent, Whatever} \cap Values = {}
    /\ FsTogether \subseteq SUBSET FsCalls

Editing == {"write", "replace", "patch", "edit", "batch", "multi"}
Editors == {c \in FsCalls : Request[c].op \in Editing}

\* before: the recovery buffers; done: how many files are applied; undo: the
\* files still to restore, last first; failed: a restore did not work.
\* Two marks for the properties: touched, the paths somebody else wrote while
\* the call ran; fresh, the ones written since the call last read them.
IdleFsCall == [pc |-> "idle", before |-> [p \in Paths |-> Absent], done |-> 0, undo |-> <<>>,
               failed |-> FALSE, result |-> "none", touched |-> {}, fresh |-> {}]

NoChange == [state |-> "none", stored |-> FALSE]

Files(c) == Request[c].files
Filled(c) == {Files(c)[i] : i \in 1..Len(Files(c))}
After(c) == Request[c].after
Cursor(c) == Files(c)[fsCall[c].done + 1]
Buffer(t) == fsCall[t].before

\* The call returns and drops its guard.
Returned(c, result) ==
    /\ fsCall' = [fsCall EXCEPT ![c].pc = "done", ![c].result = result]
    /\ fsLock' = IF fsLock = c THEN Whatever ELSE fsLock

Fault == fsRoom.faults > 0
SpendFault == fsRoom' = [fsRoom EXCEPT !.faults = @ - 1]

----------------------------------------------------------------------------
(* Preflight. *)

\* The content an expected_sha256 is compared with: fs_write_text takes an
\* absent file for an empty one.
Preimage(c, p) ==
    IF Request[c].op = "write" /\ fsFile[p] = Absent THEN Empty ELSE fsFile[p]

Unguarded(c) == TRUE

Guarded(c) ==
    \A p \in Filled(c) : Request[c].expect[p] = Whatever \/ Preimage(c, p) = Request[c].expect[p]
AllPresent(c) == \A p \in Filled(c) : fsFile[p] # Absent

WriteTextAccepts(c) == Guarded(c) /\ (Request[c].create => ~AllPresent(c))
ReplaceTextAccepts(c) == AllPresent(c) /\ Guarded(c)
PatchAccepts(c) == AllPresent(c) /\ Guarded(c)
EditAccepts(c) == AllPresent(c) /\ Guarded(c)
BatchAccepts(c) == AllPresent(c) /\ Guarded(c)
MultiAccepts(c) == Guarded(c)

Preflight(c) ==
    CASE Request[c].op = "write" -> WriteTextAccepts(c)
      [] Request[c].op = "replace" -> ReplaceTextAccepts(c)
      [] Request[c].op = "patch" -> PatchAccepts(c)
      [] Request[c].op = "edit" -> EditAccepts(c)
      [] Request[c].op = "batch" -> BatchAccepts(c)
      [] Request[c].op = "multi" -> MultiAccepts(c)

\* The old text may be missing or ambiguous, the context of a hunk may differ.
MayNotMatch(c) == Request[c].op \in {"replace", "patch", "edit", "batch"}

\* After the preflight, a batch reads each file again before it writes it.
NextPc(c, n) == IF n = Len(Files(c)) THEN "finish"
                ELSE IF Request[c].op = "batch" THEN "check" ELSE "write"

\* A dry run takes no lock and stops after the preflight.
FsBegin(c) ==
    /\ fsCall[c].pc = "idle" /\ c \in Editors
    /\ Request[c].dry \/ fsLock = Whatever
    /\ \E matches \in {TRUE, ~MayNotMatch(c)} :
       IF ~Preflight(c) \/ ~matches THEN Returned(c, "refused")
       ELSE IF Request[c].dry THEN Returned(c, "dry_run")
       ELSE /\ fsLock' = c
            /\ fsCall' = [fsCall EXCEPT ![c].pc = NextPc(c, 0), ![c].before = fsFile]
    /\ UNCHANGED <<fsFile, fsChange, fsRoom>>

----------------------------------------------------------------------------
(* Applying. *)

\* Restore what is applied, in reverse.
Recover(c) ==
    fsCall' = [fsCall EXCEPT ![c].pc = "recover",
                             ![c].undo = SubSeq(Files(c), 1, fsCall[c].done)]

FsCheck(c) ==
    /\ fsCall[c].pc = "check"
    /\ IF fsFile[Cursor(c)] # fsCall[c].before[Cursor(c)]
       THEN Recover(c)
       ELSE fsCall' = [fsCall EXCEPT ![c].pc = "write", ![c].fresh = @ \ {Cursor(c)}]
    /\ UNCHANGED <<fsFile, fsLock, fsChange, fsRoom>>

\* atomic_write_file: the rename happens, or it does not.
FsWrite(c) ==
    /\ fsCall[c].pc = "write"
    /\ fsFile' = [fsFile EXCEPT ![Cursor(c)] = After(c)[Cursor(c)]]
    /\ fsCall' = [fsCall EXCEPT ![c].done = @ + 1, ![c].pc = NextPc(c, fsCall[c].done + 1)]
    /\ UNCHANGED <<fsLock, fsChange, fsRoom>>

FsWriteFails(c) ==
    /\ fsCall[c].pc \in {"check", "write"} /\ Fault
    /\ Recover(c)
    /\ SpendFault
    /\ UNCHANGED <<fsFile, fsLock, fsChange>>

\* register_applied_group: the ChangeSet exists once everything is applied.
FsFinish(c) ==
    /\ fsCall[c].pc = "finish"
    /\ Returned(c, "applied")
    /\ fsChange' = IF Request[c].reversible
                   THEN [fsChange EXCEPT ![c] = [state |-> "applied", stored |-> TRUE]]
                   ELSE fsChange
    /\ UNCHANGED <<fsFile, fsRoom>>

----------------------------------------------------------------------------
(* Recovering: recover_after_failure and rollback_buffer. *)

UndoPath(c) == fsCall[c].undo[Len(fsCall[c].undo)]
Popped(s) == SubSeq(s, 1, Len(s) - 1)

\* Only a file that still holds what this call wrote is restored.
FsRecover(c) ==
    /\ fsCall[c].pc = "recover" /\ fsCall[c].undo # <<>>
    /\ fsCall' = IF fsFile[UndoPath(c)] # After(c)[UndoPath(c)]
                 THEN [fsCall EXCEPT ![c].undo = Popped(@), ![c].failed = TRUE]
                 ELSE [fsCall EXCEPT ![c].pc = "restore", ![c].fresh = @ \ {UndoPath(c)}]
    /\ UNCHANGED <<fsFile, fsLock, fsChange, fsRoom>>

FsRestore(c) ==
    /\ fsCall[c].pc = "restore"
    /\ fsFile' = [fsFile EXCEPT ![UndoPath(c)] = fsCall[c].before[UndoPath(c)]]
    /\ fsCall' = [fsCall EXCEPT ![c].pc = "recover", ![c].undo = Popped(@)]
    /\ UNCHANGED <<fsLock, fsChange, fsRoom>>

FsRestoreFails(c) ==
    /\ fsCall[c].pc = "restore" /\ Fault
    /\ fsCall' = [fsCall EXCEPT ![c].pc = "recover", ![c].undo = Popped(@), ![c].failed = TRUE]
    /\ SpendFault
    /\ UNCHANGED <<fsFile, fsLock, fsChange>>

\* A batch classifies the final state of its files, apply_multi has kept the
\* failures of its restores.
RecoveryComplete(c) ==
    IF Request[c].op = "batch"
    THEN \A i \in 1..fsCall[c].done : fsFile[Files(c)[i]] = fsCall[c].before[Files(c)[i]]
    ELSE ~fsCall[c].failed

FsRecovered(c) ==
    /\ fsCall[c].pc = "recover" /\ fsCall[c].undo = <<>>
    /\ Returned(c, IF RecoveryComplete(c) THEN "recovered" ELSE "recovery_failed")
    /\ UNCHANGED <<fsFile, fsChange, fsRoom>>

----------------------------------------------------------------------------
(* ChangeSets: commit and rollback of the change that call t registered. *)

Target(c) == Request[c].target
Registered(c) == fsChange[Target(c)].state # "none"

SetState(t, state) == fsChange' = [fsChange EXCEPT ![t] = [state |-> state, stored |-> TRUE]]

\* commit_impl takes the store's mutex, not the mutation lock; while a rollback
\* has taken the entry out of the store there is no such change.
FsCommit(c) ==
    /\ fsCall[c].pc = "idle" /\ Request[c].op = "commit" /\ Registered(c)
    /\ IF ~fsChange[Target(c)].stored
       THEN Returned(c, "not_found") /\ UNCHANGED fsChange
       ELSE IF fsChange[Target(c)].state # "applied"
       THEN Returned(c, "refused") /\ UNCHANGED fsChange
       ELSE Returned(c, "committed") /\ SetState(Target(c), "committed")
    /\ UNCHANGED <<fsFile, fsRoom>>

\* validate_registered_target: the caller's capability does not hold the target.
FsDenied(c) ==
    /\ fsCall[c].pc = "idle" /\ Request[c].op \in {"commit", "rollback"} /\ Registered(c)
    /\ fsChange[Target(c)].stored
    /\ Request[c].op = "rollback" => fsLock = Whatever
    /\ Returned(c, "denied")
    /\ UNCHANGED <<fsFile, fsChange, fsRoom>>

\* rollback_impl takes the entry out of the store for as long as it runs.
FsTake(c) ==
    /\ fsCall[c].pc = "idle" /\ Request[c].op = "rollback" /\ Registered(c)
    /\ fsLock = Whatever
    /\ IF fsChange[Target(c)].state \in {"applied", "recovery_failed"}
       THEN /\ fsLock' = c
            /\ fsCall' = [fsCall EXCEPT ![c].pc = "compare"]
            /\ fsChange' = [fsChange EXCEPT ![Target(c)].stored = FALSE]
       ELSE Returned(c, "refused") /\ UNCHANGED fsChange
    /\ UNCHANGED <<fsFile, fsRoom>>

StillApplied(t, p) == fsFile[p] = After(t)[p]
AlreadyRestored(t, p) ==
    fsChange[t].state = "recovery_failed" /\ fsFile[p] = Buffer(t)[p]

\* Every member still holds what the change wrote; a retry of a half-done
\* rollback also accepts what the first attempt restored.
FsCompare(c) ==
    LET t == Target(c)
    IN /\ fsCall[c].pc = "compare"
       /\ IF \A p \in Filled(t) : fsFile[p] # Absent /\ (StillApplied(t, p) \/ AlreadyRestored(t, p))
          THEN /\ fsCall' = [fsCall EXCEPT
                     ![c].pc = "rollback", ![c].fresh = {},
                     ![c].undo = SelectSeq(Files(t), LAMBDA p : StillApplied(t, p))]
               /\ UNCHANGED <<fsLock, fsChange>>
          ELSE Returned(c, "conflict") /\ SetState(t, "conflict")
       /\ UNCHANGED <<fsFile, fsRoom>>

\* A target that cannot be read leaves the change as it was.
FsCompareFails(c) ==
    /\ fsCall[c].pc = "compare" /\ Fault
    /\ Returned(c, "io_error")
    /\ SetState(Target(c), fsChange[Target(c)].state)
    /\ SpendFault
    /\ UNCHANGED fsFile

FsRollback(c) ==
    /\ fsCall[c].pc = "rollback" /\ fsCall[c].undo # <<>>
    /\ fsFile' = [fsFile EXCEPT ![UndoPath(c)] = Buffer(Target(c))[UndoPath(c)]]
    /\ fsCall' = [fsCall EXCEPT ![c].undo = Popped(@)]
    /\ UNCHANGED <<fsLock, fsChange, fsRoom>>

RollbackFailure(t) == IF Len(Files(t)) = 1 THEN fsChange[t].state ELSE "recovery_failed"

FsRollbackFails(c) ==
    /\ fsCall[c].pc = "rollback" /\ fsCall[c].undo # <<>> /\ Fault
    /\ Returned(c, "io_error")
    /\ SetState(Target(c), RollbackFailure(Target(c)))
    /\ SpendFault
    /\ UNCHANGED fsFile

FsRolledBack(c) ==
    /\ fsCall[c].pc = "rollback" /\ fsCall[c].undo = <<>>
    /\ Returned(c, "rolled_back")
    /\ SetState(Target(c), "rolled_back")
    /\ UNCHANGED <<fsFile, fsRoom>>

----------------------------------------------------------------------------
(* The environment. *)

Running(c) == fsCall[c].pc \notin {"idle", "done"}

\* Somebody who does not take the lock writes, creates or deletes a file.
FsOutside(p, v) ==
    /\ fsRoom.outside > 0 /\ v # fsFile[p]
    /\ fsFile' = [fsFile EXCEPT ![p] = v]
    /\ fsRoom' = [fsRoom EXCEPT !.outside = @ - 1]
    /\ fsCall' = [c \in FsCalls |->
                    IF Running(c) THEN [fsCall[c] EXCEPT !.touched = @ \union {p},
                                                         !.fresh = @ \union {p}]
                    ELSE fsCall[c]]
    /\ UNCHANGED <<fsLock, fsChange>>

FsInit ==
    /\ fsFile \in [Paths -> {Empty, Absent}]
    /\ fsLock = Whatever
    /\ \E together \in FsTogether :
          fsCall = [c \in FsCalls |-> IF c \in together THEN IdleFsCall
                                      ELSE [IdleFsCall EXCEPT !.pc = "done"]]
    /\ fsChange = [c \in FsCalls |-> NoChange]
    /\ fsRoom = [outside |-> MaxOutside, faults |-> MaxFaults]

FsNext ==
    \/ \E c \in FsCalls : \/ FsBegin(c) \/ FsCheck(c) \/ FsWrite(c) \/ FsWriteFails(c)
                          \/ FsFinish(c) \/ FsRecover(c) \/ FsRestore(c) \/ FsRestoreFails(c)
                          \/ FsRecovered(c) \/ FsCommit(c) \/ FsDenied(c) \/ FsTake(c)
                          \/ FsCompare(c) \/ FsCompareFails(c) \/ FsRollback(c)
                          \/ FsRollbackFails(c) \/ FsRolledBack(c)
    \/ \E p \in Paths, v \in Values \union {Absent} : FsOutside(p, v)

FsSpec == FsInit /\ [][FsNext]_fsVars

----------------------------------------------------------------------------
(* Properties. *)

Results == {"none", "refused", "dry_run", "applied", "recovered", "recovery_failed", "committed",
            "not_found", "denied", "io_error", "conflict", "rolled_back"}

\* The type invariant: one call at most holds the mutation lock, and an entry is
\* outside the store only while the rollback that took it runs.
FsTypeOK ==
    /\ fsFile \in [Paths -> Values \union {Absent}]
    /\ \A c \in FsCalls :
          /\ fsCall[c].result \in Results
          /\ Running(c) <=> fsLock = c
          /\ fsCall[c].done \in 0..Len(Files(c))
    /\ \A t \in FsCalls :
          fsChange[t].state # "none" /\ ~fsChange[t].stored
             <=> \E c \in FsCalls : Running(c) /\ Request[c].op = "rollback" /\ Target(c) = t

\* What a call reports about its files is what it leaves on disk, whichever
\* write failed and however recovery went: "applied" means that every file holds
\* the new bytes, "recovered" that every file holds the bytes it held before.
\* Files somebody else wrote while the call ran are excepted.  (edit_batch.rs recover_after_failure,
\* change.rs apply_multi: "never a partial apply".)
AllOrNothing ==
    [][\A c \in Editors : fsCall[c].pc # "done" /\ fsCall'[c].pc = "done" =>
          \A p \in Filled(c) \ fsCall[c].touched :
             /\ fsCall'[c].result = "applied" => fsFile'[p] = After(c)[p]
             /\ fsCall'[c].result = "recovered" => fsFile'[p] = fsCall[c].before[p]]_fsVars

\* A write made outside the lock is never overwritten by a call that has read
\* the file since: what the call replaces is the preimage it checked when it
\* applies, its own bytes when it recovers or rolls back.  Only a write that
\* lands between that read and the rename is lost.
SparesOutsideWrites ==
    [][\A c \in FsCalls, p \in Paths :
          ( /\ fsFile'[p] # fsFile[p] /\ fsCall'[c] # fsCall[c]
            /\ fsRoom'.outside = fsRoom.outside
            /\ p \notin fsCall[c].fresh )
          => fsFile[p] = CASE fsCall[c].pc = "write" -> fsCall[c].before[p]
                           [] fsCall[c].pc = "restore" -> After(c)[p]
                           [] fsCall[c].pc = "rollback" -> After(Target(c))[p]]_fsVars

\* The expected_sha256 contract is linear among the calls of one server: a
\* guarded write replaces the content its caller expected, unless somebody
\* outside the lock wrote the file meanwhile (mod.rs mutation_lock).
ExpectedIsReplaced ==
    [][\A c \in Editors : fsCall[c].pc = "write" /\ fsCall'[c].done = fsCall[c].done + 1 =>
          LET p == Cursor(c)
          IN \/ Request[c].expect[p] = Whatever
             \/ p \in fsCall[c].touched
             \/ Preimage(c, p) = Request[c].expect[p]]_fsVars

\* A change is committed or rolled back, never both: while a rollback runs no
\* commit of the same change succeeds, and a committed change is never restored.
OneCompletion ==
    \A c \in FsCalls :
       Request[c].op = "commit" /\ fsCall[c].result = "committed" =>
          /\ fsChange[Target(c)].state = "committed"
          /\ \A r \in FsCalls : Request[r].op = "rollback" /\ Target(r) = Target(c) =>
                ~Running(r) /\ fsCall[r].result # "rolled_back"

\* A rollback that reports rolled_back leaves every member as it was before the
\* change, also when it finishes what an earlier failed attempt began; a file
\* written from outside while it ran is excepted.
RolledBackIsRestored ==
    [][\A c \in FsCalls : fsCall[c].pc = "rollback" /\ fsCall'[c].result = "rolled_back" =>
          \A p \in Filled(Target(c)) \ fsCall[c].touched :
             fsFile'[p] = Buffer(Target(c))[p]]_fsVars
=============================================================================
