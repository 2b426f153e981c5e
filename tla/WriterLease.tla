---------------------------- MODULE WriterLease ----------------------------
(* persistence/lease.ts: the writer lease of one runtime root, as contending *)
(* operating-system processes run it.  One step is one filesystem operation; *)
(* everything else of a process runs without yielding.  A lease file names   *)
(* its owner token and pid; "old" says that its mtime is older than the      *)
(* takeover threshold.  Time is nondeterministic: a file may age at any      *)
(* moment, and only a heartbeat or a new file makes it fresh again.          *)
EXTENDS Integers, FiniteSets

CONSTANTS
  Procs,          \* processes that may open the runtime root
  PidOf,          \* the pid each process sees itself under
  MaxCrashes,     \* bound on the number of crashes
  LinkSupported,  \* the filesystem has hard links
  GuardAges,      \* a guard left by a crash grows older than the threshold
  NoOwner

\* randomUUID is modelled by some token that nothing carries any more:
\* tokens are only compared with the ones still around.
Tokens == 1 .. (2 * Cardinality(Procs) + 2)

ASSUME LeaseAssumption ==
  /\ IsFiniteSet(Procs)
  /\ MaxCrashes \in Nat
  /\ {LinkSupported, GuardAges} \subseteq BOOLEAN
  /\ NoOwner \notin Procs \cup Tokens

VARIABLES
  lease,    \* coordinator-lease.json
  guard,    \* coordinator-lease.json.takeover
  alive,    \* the processes that are running
  pc,       \* what each process does next
  tok,      \* its owner token, from acquire on
  saw,      \* the "old" bit its last statSync of the lease returned
  retry,    \* claimTakeover is in its second attempt
  crashes   \* number of crashes so far

lsVars == <<lease, guard, alive, pc, tok, saw, retry, crashes>>

NoFile == [kind |-> "absent", owner |-> NoOwner, by |-> NoOwner, old |-> FALSE]
Lease(t, p) == [kind |-> "valid", owner |-> t, by |-> p, old |-> FALSE]
EmptyLease == [NoFile EXCEPT !.kind = "empty"]
Guard(t) == [kind |-> "valid", owner |-> t, by |-> NoOwner, old |-> FALSE]

PC == {"idle", "fill", "stat", "read", "claim", "statGuard", "rmGuard",
       "create", "stat2", "read2", "create2", "fill2", "replace", "verify",
       "readGuard", "dropGuard", "readGuardFail", "dropGuardFail",
       "held", "write", "remove"}
\* installed() has registered the token and nobody has reported its loss.
Holding == {"held", "write", "remove", "readGuard", "dropGuard"}

LeaseFiles == [kind: {"absent", "valid", "empty"}, owner: Tokens \cup {NoOwner},
               by: Procs \cup {NoOwner}, old: BOOLEAN]
GuardFiles == [kind: {"absent", "valid"}, owner: Tokens \cup {NoOwner}, by: {NoOwner}, old: BOOLEAN]

LsTypeOK ==
  /\ lease \in LeaseFiles /\ guard \in GuardFiles
  /\ alive \subseteq Procs
  /\ pc \in [Procs -> PC]
  /\ tok \in [Procs -> Tokens \cup {NoOwner}]
  /\ saw \in [Procs -> BOOLEAN] /\ retry \in [Procs -> BOOLEAN]
  /\ crashes \in 0 .. MaxCrashes
  /\ \A p \in Procs : tok[p] = NoOwner <=> pc[p] = "idle"
  /\ \A p \in Procs \ alive : pc[p] = "idle"

LsInit ==
  /\ lease = NoFile /\ guard = NoFile
  /\ alive = Procs
  /\ pc = [p \in Procs |-> "idle"]
  /\ tok = [p \in Procs |-> NoOwner]
  /\ saw = [p \in Procs |-> FALSE] /\ retry = [p \in Procs |-> FALSE]
  /\ crashes = 0

UsedTokens == {lease.owner, guard.owner} \cup {tok[p] : p \in Procs}
FreshToken == CHOOSE t \in Tokens : t \notin UsedTokens

\* heldOwners: the tokens of this process that are installed.
Held(p) == IF pc[p] \in Holding THEN {tok[p]} ELSE {}
OwnerAliveByPid(p) == \E q \in alive : PidOf[q] = PidOf[lease.by]
\* A pid that is this process's own proves nothing about another incarnation.
OwnerAlive(p) ==
  IF PidOf[lease.by] = PidOf[p] THEN lease.owner \in Held(p)
  ELSE \E q \in alive : PidOf[q] = PidOf[lease.by]
Stale(p) == lease.kind = "valid" /\ ~OwnerAlive(p) /\ saw[p]

LsGoto(p, next) == pc' = [pc EXCEPT ![p] = next]
\* The acquisition, or the ownership, is over: the object is dropped.
Drop(p) ==
  /\ pc' = [pc EXCEPT ![p] = "idle"]
  /\ tok' = [tok EXCEPT ![p] = NoOwner]
  /\ saw' = [saw EXCEPT ![p] = FALSE] /\ retry' = [retry EXCEPT ![p] = FALSE]
Locals == <<tok, saw, retry>>
-----------------------------------------------------------------------------
\* writeExclusive: link(2) creates the lease with its payload or fails because
\* it exists; without hard links an empty file is created first and filled by
\* the next step.
CreateLease(p, t, linked, opened, exists) ==
  \/ lease.kind = "absent" /\ LinkSupported /\ lease' = Lease(t, p) /\ linked
  \/ lease.kind = "absent" /\ ~LinkSupported /\ lease' = EmptyLease /\ opened
  \/ lease.kind # "absent" /\ UNCHANGED lease /\ exists

Acquire(p) ==
  /\ p \in alive /\ pc[p] = "idle"
  /\ tok' = [tok EXCEPT ![p] = FreshToken]
  /\ CreateLease(p, FreshToken, LsGoto(p, "held"), LsGoto(p, "fill"), LsGoto(p, "stat"))
  /\ UNCHANGED <<guard, alive, saw, retry, crashes>>

\* acquireExisting found no file any more: under the guard a lease created
\* meanwhile by another process is left alone and the guard released.
CreateLate(p) ==
  /\ p \in alive
  /\ \/ /\ pc[p] = "create"
        /\ \/ CreateLease(p, tok[p], LsGoto(p, "held"), LsGoto(p, "fill"), FALSE) /\ UNCHANGED Locals
           \/ CreateLease(p, tok[p], FALSE, FALSE, Drop(p))
     \/ /\ pc[p] = "create2"
        /\ CreateLease(p, tok[p], LsGoto(p, "verify"), LsGoto(p, "fill2"), LsGoto(p, "readGuardFail"))
        /\ UNCHANGED Locals
  /\ UNCHANGED <<guard, alive, crashes>>

\* writeExclusiveInPlace: the payload reaches the file created empty.
Fill(p) ==
  /\ p \in alive /\ pc[p] \in {"fill", "fill2"}
  /\ lease' = Lease(tok[p], p)
  /\ LsGoto(p, IF pc[p] = "fill" THEN "held" ELSE "verify")
  /\ UNCHANGED <<guard, alive, crashes, Locals>>

\* readExisting: statSync, then readFileSync; either can find no file.
StatLease(p) ==
  /\ p \in alive /\ pc[p] \in {"stat", "stat2"}
  /\ saw' = [saw EXCEPT ![p] = lease.old]
  /\ LsGoto(p, IF pc[p] = "stat" THEN IF lease.kind = "absent" THEN "create" ELSE "read"
             ELSE IF lease.kind = "absent" THEN "create2" ELSE "read2")
  /\ UNCHANGED <<lease, guard, alive, tok, retry, crashes>>

\* The first look at an existing lease: not stale is a typed refusal.
ReadLease(p) ==
  /\ p \in alive /\ pc[p] = "read"
  /\ \/ lease.kind = "absent" /\ LsGoto(p, "create") /\ UNCHANGED Locals
     \/ lease.kind # "absent" /\ Stale(p) /\ LsGoto(p, "claim") /\ UNCHANGED Locals
     \/ lease.kind # "absent" /\ ~Stale(p) /\ Drop(p)
  /\ UNCHANGED <<lease, guard, alive, crashes>>

ClaimNoGuard(p) ==
  /\ p \in alive /\ pc[p] = "claim"
  /\ LsGoto(p, "stat2") /\ UNCHANGED <<lease, guard, alive, crashes, Locals>>
\* claimTakeover: open(guard, wx).
Claim(p) ==
  /\ p \in alive /\ pc[p] = "claim"
  /\ \/ guard.kind = "absent" /\ guard' = Guard(tok[p]) /\ LsGoto(p, "stat2")
     \/ guard.kind # "absent" /\ LsGoto(p, "statGuard") /\ UNCHANGED guard
  /\ UNCHANGED <<lease, alive, crashes, Locals>>

\* claimTakeover: statSync(guard).  A guard that vanished is retried once, an
\* old one is reclaimed once, a fresh one is another contender's.
StatGuard(p) ==
  /\ p \in alive /\ pc[p] = "statGuard"
  /\ \/ /\ guard.kind = "absent" /\ ~retry[p]
        /\ LsGoto(p, "claim") /\ retry' = [retry EXCEPT ![p] = TRUE]
        /\ UNCHANGED <<tok, saw>>
     \/ /\ guard.kind # "absent" /\ ~retry[p] /\ guard.old
        /\ LsGoto(p, "rmGuard") /\ UNCHANGED Locals
     \/ /\ retry[p] \/ (guard.kind # "absent" /\ ~guard.old)
        /\ Drop(p)
  /\ UNCHANGED <<lease, guard, alive, crashes>>

\* claimTakeover: rmSync(guard, force) removes whatever guard is there now.
RemoveGuard(p) ==
  /\ p \in alive /\ pc[p] = "rmGuard"
  /\ guard' = NoFile
  /\ LsGoto(p, "claim") /\ retry' = [retry EXCEPT ![p] = TRUE]
  /\ UNCHANGED <<lease, alive, tok, saw, crashes>>

\* acquireExisting under the guard: the owner must still be stale.
Revalidate(p) ==
  /\ p \in alive /\ pc[p] = "read2"
  /\ LsGoto(p, IF lease.kind = "absent" THEN "create2"
             ELSE IF Stale(p) THEN "replace" ELSE "readGuardFail")
  /\ UNCHANGED <<lease, guard, alive, crashes, Locals>>

\* writeAtomic: the rename replaces whatever lease is there now.
Replace(p) ==
  /\ p \in alive /\ pc[p] = "replace"
  /\ lease' = Lease(tok[p], p)
  /\ LsGoto(p, "verify")
  /\ UNCHANGED <<guard, alive, crashes, Locals>>

Owned(p) == lease.kind = "valid" /\ lease.owner = tok[p]

\* verifyInstalled, then installed().
Verify(p) ==
  /\ p \in alive /\ pc[p] = "verify"
  /\ LsGoto(p, IF Owned(p) THEN "readGuard" ELSE "readGuardFail")
  /\ UNCHANGED <<lease, guard, alive, crashes, Locals>>

\* releaseTakeover: reads the guard, then removes it when the token matched.
ReadGuard(p) ==
  /\ p \in alive /\ pc[p] \in {"readGuard", "readGuardFail"}
  /\ \/ /\ guard.owner = tok[p]
        /\ LsGoto(p, IF pc[p] = "readGuard" THEN "dropGuard" ELSE "dropGuardFail")
        /\ UNCHANGED Locals
     \/ guard.owner # tok[p] /\ pc[p] = "readGuard" /\ LsGoto(p, "held") /\ UNCHANGED Locals
     \/ guard.owner # tok[p] /\ pc[p] = "readGuardFail" /\ Drop(p)
  /\ UNCHANGED <<lease, guard, alive, crashes>>

DropGuard(p) ==
  /\ p \in alive
  /\ guard' = NoFile
  /\ \/ pc[p] = "dropGuard" /\ LsGoto(p, "held") /\ UNCHANGED Locals
     \/ pc[p] = "dropGuardFail" /\ Drop(p)
  /\ UNCHANGED <<lease, alive, crashes>>
-----------------------------------------------------------------------------
\* heartbeat: refreshes the mtime of the file it read through one descriptor;
\* a lost lease is reported and the runtime handle retired (leaseLost).
Heartbeat(p) ==
  /\ p \in alive /\ pc[p] = "held"
  /\ \/ /\ Owned(p)
        /\ lease' = [lease EXCEPT !.old = FALSE]
        /\ UNCHANGED <<guard, alive, crashes, pc, Locals>>
     \/ /\ ~Owned(p)
        /\ Drop(p)
        /\ UNCHANGED <<lease, guard, alive, crashes>>

\* DirectoryTable.put/update/delete: fence() reads the lease, the next
\* filesystem operation changes the store.
Fence(p) ==
  /\ p \in alive /\ pc[p] = "held"
  /\ \/ Owned(p) /\ LsGoto(p, "write") /\ UNCHANGED Locals
     \/ ~Owned(p) /\ Drop(p)
  /\ UNCHANGED <<lease, guard, alive, crashes>>

DurableWrite(p) ==
  /\ p \in alive /\ pc[p] = "write"
  /\ LsGoto(p, "held")
  /\ UNCHANGED <<lease, guard, alive, crashes, Locals>>

\* release: existsSync and readOwned, then rmSync.
ReleaseCheck(p) ==
  /\ p \in alive /\ pc[p] = "held"
  /\ \/ Owned(p) /\ LsGoto(p, "remove") /\ UNCHANGED Locals
     \/ ~Owned(p) /\ Drop(p)
  /\ UNCHANGED <<lease, guard, alive, crashes>>

Remove(p) ==
  /\ p \in alive /\ pc[p] = "remove"
  /\ lease' = NoFile
  /\ Drop(p)
  /\ UNCHANGED <<guard, alive, crashes>>
-----------------------------------------------------------------------------
CrashProc(p) ==
  /\ p \in alive /\ crashes < MaxCrashes
  /\ alive' = alive \ {p} /\ crashes' = crashes + 1
  /\ Drop(p)
  /\ UNCHANGED <<lease, guard>>

\* A new incarnation, under the same pid.
RestartProc(p) ==
  /\ p \notin alive
  /\ alive' = alive \cup {p}
  /\ UNCHANGED <<lease, guard, pc, crashes, Locals>>

AgeLease ==
  /\ lease.kind # "absent" /\ ~lease.old
  /\ lease' = [lease EXCEPT !.old = TRUE]
  /\ UNCHANGED <<guard, alive, pc, crashes, Locals>>

\* claimTakeover's premise: a guard is held for a few synchronous operations,
\* so only a guard whose writer crashed grows old.
AgeGuard ==
  /\ GuardAges /\ guard.kind # "absent" /\ ~guard.old
  /\ \A p \in alive : tok[p] # guard.owner
  /\ guard' = [guard EXCEPT !.old = TRUE]
  /\ UNCHANGED <<lease, alive, pc, crashes, Locals>>

\* The synchronous steps of an acquisition or a release under way.
Proceed(p) ==
  \/ Fill(p) \/ StatLease(p) \/ ReadLease(p) \/ Claim(p) \/ StatGuard(p) \/ RemoveGuard(p)
  \/ Revalidate(p) \/ CreateLate(p) \/ Replace(p) \/ Verify(p) \/ ReadGuard(p)
  \/ DropGuard(p) \/ DurableWrite(p) \/ Remove(p)

LsNext ==
  \/ \E p \in Procs : Acquire(p) \/ Proceed(p) \/ Heartbeat(p) \/ Fence(p) \/ ReleaseCheck(p)
                      \/ CrashProc(p) \/ RestartProc(p)
  \/ AgeLease \/ AgeGuard

LsSpec == LsInit /\ [][LsNext]_lsVars

-----------------------------------------------------------------------------
\* While no takeover guard is reclaimed, whoever believes to hold the lease is
\* the owner the file names, so two live processes never both coordinate the
\* runtime, whatever crashes, restarts and takeovers interleave; a durable
\* write lands while the file still names its writer, and a release removes no
\* lease but its own, although both check the file one operation earlier.
HolderOwnsFile == \A p \in Procs : pc[p] \in Holding => Owned(p)

\* The lease file, the guard and every process agree on who may write
\* (acquire, claimTakeover, the heartbeat and release of lease.ts).
LeaseInv == LsTypeOK /\ HolderOwnsFile

\* A writer whose lease was replaced and who has not noticed: its heartbeat retires
\* it (StopsWhenTold of MCToolsLive).
Superseded(p) == pc[p] \in Holding /\ ~Owned(p)

=============================================================================
