------------------------------- MODULE FsMoves -------------------------------
(***************************************************************************)
(* fs_move, fs_copy and fs_remove (fs/copy_move_remove.rs).  They take no  *)
(* lock, so each system call is a step.  An entry is a file, a directory,  *)
(* a link or a special file; its parts (halves of a file, members of a     *)
(* directory) each carry the name of the entry they come from, so that a   *)
(* torn copy, a merge of two directories and a half-removed tree are all   *)
(* visible.  The process may die between any two steps.                    *)
(***************************************************************************)
EXTENDS Integers, FiniteSets

CONSTANTS Places,       \* the paths the requests name
          Parts,        \* the parts of an entry
          Nothing,      \* no entry
          Layouts,      \* the trees to start from: [Places -> kind, or "none"]
          MvCalls, MvRequest, MvTogether,
          MvFaults      \* bound: system calls that fail

VARIABLES mvAt,       \* [Slots -> entry]: places, and a backup and a staging name per call
          mvCall,     \* [MvCalls -> the invocation]
          mvDisk,     \* cross: a rename between two places fails with EXDEV; had: what was there
          mvUp,       \* the process runs
          mvRoom      \* faults left

mvVars == <<mvAt, mvCall, mvDisk, mvUp, mvRoom>>

ASSUME MvConstants == MvTogether \subseteq SUBSET MvCalls

Backup(c) == <<"backup", c>>
Staged(c) == <<"staged", c>>
Slots == Places \union {Backup(c) : c \in MvCalls} \union {Staged(c) : c \in MvCalls}
Kinds == {"file", "dir", "link", "special"}

Entry(kind, origin) == [kind |-> kind, items |-> [i \in Parts |-> origin]]
Exists(s) == mvAt[s] # Nothing
KindAt(s) == IF Exists(s) THEN mvAt[s].kind ELSE "none"
Put(s, e) == [mvAt EXCEPT ![s] = e]

From(c) == MvRequest[c].from
To(c) == MvRequest[c].to
IsMove(c) == MvRequest[c].op = "move"

\* into: where a copy goes; source: what its open handle reads; over: the kind of
\* entry at the destination when the call began; saved: it was moved aside.
\* victims (their origins) and stuck are marks for the properties.
IdleMv == [pc |-> "idle", into |-> Nothing, source |-> Nothing, victims |-> {},
           saved |-> FALSE, over |-> "none", stuck |-> FALSE, warned |-> FALSE, result |-> "none"]

Goto(c, pc) == mvCall' = [mvCall EXCEPT ![c].pc = pc]
MvReturn(c, result) == mvCall' = [mvCall EXCEPT ![c].pc = "done", ![c].result = result]
MvFault == mvRoom > 0 /\ mvRoom' = mvRoom - 1
At(c, pc) == mvUp /\ mvCall[c].pc = pc
OriginsAt(s) == IF Exists(s) THEN {mvAt[s].items[i] : i \in DOMAIN mvAt[s].items} ELSE {}

\* rename(2): onto nothing, or onto an entry that is not a directory by one
\* that is not either.
Replaceable(a, b) == Exists(a) /\ (Exists(b) => KindAt(a) # "dir" /\ KindAt(b) # "dir")
Renamed(a, b) == [mvAt EXCEPT ![a] = Nothing, ![b] = mvAt[a]]

\* What the call is removing: the source it has copied, its backup, what a failed
\* install left, the directory a file replaces, the path of fs_remove.
Removing(c) == CASE mvCall[c].pc = "unlink" -> From(c)
                 [] mvCall[c].pc = "cleanup" -> Backup(c)
                 [] OTHER -> To(c)
Emptied(s) == KindAt(s) = "dir" => DOMAIN mvAt[s].items = {}

\* remove_dir_all: members go one by one, the directory last.
RemoveMember(c) ==
    /\ \/ At(c, "unlink") \/ At(c, "cleanup") \/ At(c, "clear")
       \/ At(c, "restore") /\ mvCall[c].saved
       \/ At(c, "remove") /\ MvRequest[c].recursive
    /\ ~Emptied(Removing(c))
    /\ \E i \in DOMAIN mvAt[Removing(c)].items :
          mvAt' = [mvAt EXCEPT ![Removing(c)].items = [j \in DOMAIN @ \ {i} |-> @[j]]]
    /\ mvCall' = [mvCall EXCEPT ![c].stuck = @ \/ mvCall[c].pc = "clear"]
    /\ UNCHANGED <<mvDisk, mvUp, mvRoom>>

----------------------------------------------------------------------------
(* fs_move. *)

MvBegin(c) ==
    /\ At(c, "idle") /\ IsMove(c)
    /\ IF ~Exists(From(c)) \/ From(c) = To(c) \/ (Exists(To(c)) /\ ~MvRequest[c].overwrite)
       THEN MvReturn(c, "refused")
       ELSE mvCall' = [mvCall EXCEPT ![c].pc = IF Exists(To(c)) THEN "aside" ELSE "install",
                                     ![c].victims = OriginsAt(To(c))]
    /\ UNCHANGED <<mvAt, mvDisk, mvUp, mvRoom>>

MvAside(c) ==
    /\ At(c, "aside")
    /\ IF Exists(To(c))
       THEN /\ mvAt' = Renamed(To(c), Backup(c))
            /\ mvCall' = [mvCall EXCEPT ![c].pc = "install", ![c].saved = TRUE]
       ELSE MvReturn(c, "failed") /\ UNCHANGED mvAt
    /\ UNCHANGED <<mvDisk, mvUp, mvRoom>>

MvAsideFails(c) ==
    /\ At(c, "aside") /\ MvFault
    /\ MvReturn(c, "failed")
    /\ UNCHANGED <<mvAt, mvDisk, mvUp>>

\* Between two devices the rename fails and the entry is copied.
MvInstall(c) ==
    /\ At(c, "install")
    /\ CASE ~Replaceable(From(c), To(c)) -> Goto(c, "restore") /\ UNCHANGED mvAt
         [] Replaceable(From(c), To(c)) /\ mvDisk.cross ->
              /\ mvCall' = [mvCall EXCEPT ![c].pc = "open", ![c].into = To(c)]
              /\ UNCHANGED mvAt
         [] OTHER -> mvAt' = Renamed(From(c), To(c)) /\ Goto(c, "cleanup")
    /\ UNCHANGED <<mvDisk, mvUp, mvRoom>>

MvInstallFails(c) ==
    /\ At(c, "install") /\ MvFault
    /\ Goto(c, "restore")
    /\ UNCHANGED <<mvAt, mvDisk, mvUp>>

\* remove_any of the source.
MvUnlink(c) ==
    /\ At(c, "unlink") /\ Emptied(From(c))
    /\ mvAt' = Put(From(c), Nothing)
    /\ mvCall' = [mvCall EXCEPT ![c].pc = "cleanup", ![c].warned = @ \/ ~Exists(From(c))]
    /\ UNCHANGED <<mvDisk, mvUp, mvRoom>>

MvUnlinkFails(c) ==
    /\ At(c, "unlink") /\ MvFault
    /\ mvCall' = [mvCall EXCEPT ![c].pc = "cleanup", ![c].warned = TRUE]
    /\ UNCHANGED <<mvAt, mvDisk, mvUp>>

MvCleanup(c) ==
    /\ At(c, "cleanup") /\ Emptied(Backup(c))
    /\ mvAt' = Put(Backup(c), Nothing)
    /\ MvReturn(c, "moved")
    /\ UNCHANGED <<mvDisk, mvUp, mvRoom>>

MvCleanupFails(c) ==
    /\ At(c, "cleanup") /\ mvCall[c].saved /\ MvFault
    /\ mvCall' = [mvCall EXCEPT ![c].pc = "done", ![c].result = "moved", ![c].warned = TRUE]
    /\ UNCHANGED <<mvAt, mvDisk, mvUp>>

\* The install failed: whatever is at the destination is removed ...
MvRestore(c) ==
    /\ At(c, "restore")
    /\ IF mvCall[c].saved
       THEN Emptied(To(c)) /\ mvAt' = Put(To(c), Nothing) /\ Goto(c, "putback")
       ELSE MvReturn(c, "failed") /\ UNCHANGED mvAt
    /\ UNCHANGED <<mvDisk, mvUp, mvRoom>>

MvRestoreFails(c) ==
    /\ At(c, "restore") /\ mvCall[c].saved /\ Exists(To(c)) /\ MvFault
    /\ mvCall' = [mvCall EXCEPT ![c].pc = "putback", ![c].stuck = TRUE]
    /\ UNCHANGED <<mvAt, mvDisk, mvUp>>

\* ... and the backup is renamed back; the error returned is the install's.
MvPutBack(c) ==
    /\ At(c, "putback")
    /\ mvAt' = IF Replaceable(Backup(c), To(c)) THEN Renamed(Backup(c), To(c)) ELSE mvAt
    /\ MvReturn(c, "failed")
    /\ UNCHANGED <<mvDisk, mvUp, mvRoom>>

MvPutBackFails(c) ==
    /\ At(c, "putback") /\ MvFault
    /\ mvCall' = [mvCall EXCEPT ![c].pc = "done", ![c].result = "failed", ![c].stuck = TRUE]
    /\ UNCHANGED <<mvAt, mvDisk, mvUp>>

----------------------------------------------------------------------------
(* Copying one entry: std::fs::copy, copy_symlink, copy_dir_recursive. *)

\* The entry a copy has made when it starts: a file is truncated, a directory
\* keeps what it has, a link is made whole.
Opened(source, into) ==
    IF source.kind = "dir"
    THEN IF Exists(into) THEN mvAt[into] ELSE [source EXCEPT !.items = [i \in {} |-> ""]]
    ELSE IF source.kind = "link" THEN source
    ELSE [source EXCEPT !.items = [i \in {} |-> ""]]

Copyable(c) ==
    LET into == mvCall[c].into
    IN /\ Exists(From(c)) /\ KindAt(From(c)) # "special"
       /\ KindAt(From(c)) = "dir" => KindAt(into) \in {"none", "dir"}
       /\ KindAt(From(c)) = "link" => ~Exists(into)
       /\ KindAt(From(c)) = "file" => KindAt(into) # "dir"

CopyFailed(c) == IF IsMove(c) THEN Goto(c, "restore") ELSE MvReturn(c, "failed")

\* A failed copy into a staging file removes the staging file.
Unstaged(c) == [mvAt EXCEPT ![Staged(c)] = Nothing]

CpOpen(c) ==
    /\ At(c, "open")
    /\ IF Copyable(c)
       THEN LET source == IF IsMove(c) THEN mvAt[From(c)]
                          ELSE [mvAt[From(c)] EXCEPT !.kind = IF @ = "link" THEN "file" ELSE @]
            IN /\ mvAt' = Put(mvCall[c].into, Opened(source, mvCall[c].into))
               /\ mvCall' = [mvCall EXCEPT ![c].pc = "copy", ![c].source = source]
       ELSE CopyFailed(c) /\ UNCHANGED mvAt
    /\ UNCHANGED <<mvDisk, mvUp, mvRoom>>

\* A file is read through its handle, a directory entry by entry as it is now.
SourceItems(c) ==
    IF mvCall[c].source.kind = "dir"
    THEN IF KindAt(From(c)) = "dir" THEN mvAt[From(c)].items ELSE [i \in {} |-> ""]
    ELSE mvCall[c].source.items

Copied(c) == IF Exists(mvCall[c].into) THEN mvAt[mvCall[c].into].items ELSE [i \in {} |-> ""]
LeftToCopy(c) ==
    {i \in DOMAIN SourceItems(c) : i \notin DOMAIN Copied(c) \/ Copied(c)[i] # SourceItems(c)[i]}
WithItem(c, i) ==
    [j \in DOMAIN Copied(c) \union {i} |-> IF j = i THEN SourceItems(c)[i] ELSE Copied(c)[j]]

Vanished(c) == mvCall[c].source.kind = "dir" /\ ~Exists(From(c))

CpPart(c) ==
    /\ At(c, "copy") /\ Exists(mvCall[c].into)
    /\ \E i \in LeftToCopy(c) : mvAt' = [mvAt EXCEPT ![mvCall[c].into].items = WithItem(c, i)]
    /\ UNCHANGED <<mvCall, mvDisk, mvUp, mvRoom>>

CpEndAnyway(c) ==
    /\ At(c, "copy") /\ IsMove(c)
    /\ Goto(c, "unlink")
    /\ UNCHANGED <<mvAt, mvDisk, mvUp, mvRoom>>

CpEnd(c) ==
    /\ At(c, "copy") /\ ~Vanished(c) /\ LeftToCopy(c) = {}
    /\ CASE IsMove(c) -> Goto(c, "unlink")
         [] ~IsMove(c) /\ mvCall[c].into = Staged(c) ->
              Goto(c, IF mvCall[c].over = "dir" THEN "clear" ELSE "swap")
         [] OTHER -> MvReturn(c, "copied")
    /\ UNCHANGED <<mvAt, mvDisk, mvUp, mvRoom>>

\* An unreadable entry, a full disk, a cancellation, a source that went away.
CpFails(c) ==
    /\ At(c, "open") \/ At(c, "copy")
    /\ IF mvCall[c].pc = "copy" /\ Vanished(c) THEN UNCHANGED mvRoom ELSE MvFault
    /\ mvAt' = Unstaged(c)
    /\ CopyFailed(c)
    /\ UNCHANGED <<mvDisk, mvUp>>

----------------------------------------------------------------------------
(* fs_copy. *)

Source(c) == KindAt(From(c))

CpBegin(c) ==
    /\ At(c, "idle") /\ MvRequest[c].op = "copy"
    /\ IF \/ ~Exists(From(c)) \/ From(c) = To(c)
          \/ Exists(To(c)) /\ ~MvRequest[c].overwrite
          \/ Source(c) = "dir" /\ ~MvRequest[c].recursive
       THEN MvReturn(c, "refused")
       ELSE mvCall' = [mvCall EXCEPT
              ![c].pc = "open", ![c].victims = OriginsAt(To(c)), ![c].over = KindAt(To(c)),
              ![c].into = IF Source(c) # "dir" /\ Exists(To(c)) THEN Staged(c) ELSE To(c)]
    /\ UNCHANGED <<mvAt, mvDisk, mvUp, mvRoom>>

\* stage_copy_over_remove_dest: a file replaces a directory.
CpClear(c) ==
    /\ At(c, "clear") /\ Emptied(To(c))
    /\ mvAt' = Put(To(c), Nothing)
    /\ mvCall' = [mvCall EXCEPT ![c].pc = "swap", ![c].stuck = TRUE]
    /\ UNCHANGED <<mvDisk, mvUp, mvRoom>>

CpSwap(c) ==
    /\ At(c, "swap")
    /\ IF Replaceable(Staged(c), To(c))
       THEN mvAt' = Renamed(Staged(c), To(c)) /\ MvReturn(c, "copied")
       ELSE mvAt' = Unstaged(c) /\ MvReturn(c, "failed")
    /\ UNCHANGED <<mvDisk, mvUp, mvRoom>>

CpClearFails(c) ==
    /\ At(c, "clear") /\ Exists(To(c)) /\ MvFault
    /\ mvAt' = Unstaged(c)
    /\ mvCall' = [mvCall EXCEPT ![c].pc = "done", ![c].result = "failed", ![c].stuck = TRUE]
    /\ UNCHANGED <<mvDisk, mvUp>>

CpSwapFails(c) ==
    /\ At(c, "swap") /\ MvFault
    /\ mvAt' = Unstaged(c)
    /\ MvReturn(c, "failed")
    /\ UNCHANGED <<mvDisk, mvUp>>

----------------------------------------------------------------------------
(* fs_remove. *)

RmBegin(c) ==
    /\ At(c, "idle") /\ MvRequest[c].op = "remove"
    /\ IF ~Exists(To(c)) \/ (~Emptied(To(c)) /\ ~MvRequest[c].recursive)
       THEN MvReturn(c, "refused")
       ELSE mvCall' = [mvCall EXCEPT ![c].pc = "remove", ![c].victims = OriginsAt(To(c))]
    /\ UNCHANGED <<mvAt, mvDisk, mvUp, mvRoom>>

\* Whoever empties the directory or takes it away meanwhile makes it fail.
RmEnd(c) ==
    /\ At(c, "remove")
    /\ IF Exists(To(c))
       THEN Emptied(To(c)) /\ mvAt' = Put(To(c), Nothing) /\ MvReturn(c, "removed")
       ELSE MvReturn(c, "failed") /\ UNCHANGED mvAt
    /\ UNCHANGED <<mvDisk, mvUp, mvRoom>>

\* What is removed by then stays removed.
RmFails(c) ==
    /\ At(c, "remove") /\ MvFault
    /\ MvReturn(c, "failed")
    /\ UNCHANGED <<mvAt, mvDisk, mvUp>>

----------------------------------------------------------------------------

\* The process dies; nothing runs at the next start that would clean up.
MvCrash ==
    /\ mvUp /\ \E c \in MvCalls : mvCall[c].pc \notin {"idle", "done"}
    /\ mvUp' = FALSE
    /\ UNCHANGED <<mvAt, mvCall, mvDisk, mvRoom>>

MvInit ==
    /\ \E layout \in Layouts :
          /\ mvAt = [s \in Slots |-> IF s \notin Places THEN Nothing
                                   ELSE IF layout[s] = "none" THEN Nothing
                                   ELSE Entry(layout[s], s)]
          /\ mvDisk \in [cross : BOOLEAN, had : {{p \in Places : layout[p] # "none"}}]
    /\ \E together \in MvTogether :
          mvCall = [c \in MvCalls |-> IF c \in together THEN IdleMv
                                      ELSE [IdleMv EXCEPT !.pc = "done"]]
    /\ mvUp = TRUE
    /\ mvRoom = MvFaults

MvNext ==
    \/ \E c \in MvCalls : \/ MvBegin(c) \/ MvAside(c) \/ MvAsideFails(c) \/ MvInstall(c)
                          \/ MvInstallFails(c) \/ MvUnlink(c) \/ MvUnlinkFails(c) \/ MvCleanup(c)
                          \/ MvCleanupFails(c) \/ MvRestore(c) \/ MvRestoreFails(c)
                          \/ MvPutBack(c) \/ MvPutBackFails(c) \/ CpOpen(c) \/ CpPart(c)
                          \/ CpEnd(c) \/ CpFails(c) \/ CpBegin(c) \/ CpClear(c) \/ CpSwap(c)
                          \/ CpClearFails(c) \/ CpSwapFails(c) \/ RmBegin(c) \/ RmEnd(c)
                          \/ RmFails(c) \/ RemoveMember(c)
    \/ MvCrash

MvSpec == MvInit /\ [][MvNext]_mvVars

----------------------------------------------------------------------------
(* Properties. *)

MvResults == {"none", "refused", "failed", "moved", "copied", "removed"}

\* The type invariant; staging names and backups are empty once no call runs
\* that owns them, except a backup whose restore or cleanup failed.
MvTypeOK ==
    \A c \in MvCalls :
       /\ mvCall[c].result \in MvResults
       /\ mvCall[c].pc = "done" => ~Exists(Staged(c))
       /\ mvCall[c].pc = "done" /\ Exists(Backup(c)) => mvCall[c].stuck \/ mvCall[c].warned

Intact(o) == \E s \in Slots : Exists(s) /\ mvAt[s].items = [i \in Parts |-> o]

\* The call has gone past the point where it gives up what it replaces; a file
\* copied over a directory gives it up before the rename ("only the narrow
\* window can lose the destination"), a directory copied over another merges.
Discards(c) ==
    \/ mvCall[c].pc = "cleanup" \/ mvCall[c].result \in {"moved", "copied"}
    \/ MvRequest[c].op = "remove"
    \/ MvRequest[c].op = "copy" /\ (mvCall[c].into = To(c) \/ mvCall[c].stuck)

\* No entry is lost: what was there at the start is whole somewhere (its place,
\* its destination, a backup), at every step, after every failed system call and
\* after a crash, unless a call that was told to replace or remove it has done
\* so.  In particular the source of a move between devices goes only once its
\* copy is complete, a replaced destination only once its replacement is there.
NothingLost ==
    \A o \in mvDisk.had :
       Intact(o) \/ \E c \in MvCalls : o \in mvCall[c].victims /\ Discards(c)

\* A move that fails puts the old destination back where it was, unless the
\* restore itself fails; it then survives under its backup name, which the error
\* the caller gets does not mention.
FailedMoveRestores ==
    \A c \in MvCalls : IsMove(c) /\ mvCall[c].result = "failed" /\ ~mvCall[c].stuck =>
       \A o \in mvCall[c].victims :
          mvAt[To(c)] # Nothing /\ mvAt[To(c)].items = [i \in Parts |-> o]
=============================================================================
