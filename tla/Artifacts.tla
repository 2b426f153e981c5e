------------------------------ MODULE Artifacts ------------------------------
(***************************************************************************)
(* The artifact store of the toolkit (process/artifact.rs): captured       *)
(* output in a directory that several servers share.  Every operation      *)
(* holds the file lock .store.lock; a server may die between any two of    *)
(* its file operations, which frees the lock and every staging lease.      *)
(* One step is one file operation (or several of which a crash in between  *)
(* leaves nothing another server could tell apart).                        *)
(* An artifact is named by its writer, a UUID v7, hence the number order.  *)
(***************************************************************************)
EXTENDS Integers, FiniteSets, FiniteSetsExt

CONSTANTS ArtProcs,     \* the server processes
          Writers,      \* the captures: numbers, in the order of their ids
          OwnerOf,      \* [Writers -> ArtProcs]
          ContentOf,    \* what each capture writes, by content address
          SizeOf,       \* bytes of a content; a chunk is one byte
          Limits        \* the values XUANLING_ARTIFACT_MAX_TOTAL_BYTES may have

ASSUME ArtConstants ==
    /\ Writers \subseteq Nat
    /\ OwnerOf \in [Writers -> ArtProcs]
    /\ \A w \in Writers : SizeOf[ContentOf[w]] \in Nat
    /\ Limits \subseteq Nat

VARIABLES artDisk,     \* the store's directories and projections
          artLock,     \* who holds .store.lock, and where it is in its operation
          artWriter,   \* [Writers -> state of the ArtifactWriter]
          artConf      \* [ArtProcs -> configured limit, or Down]

artVars == <<artDisk, artLock, artWriter, artConf>>

Absent == -1       \* no such file
Torn == -2         \* a projection that does not parse
Down == -3         \* the process does not run
NoProc == "nobody"

Contents == { ContentOf[w] : w \in Writers }
Free == [proc |-> NoProc, op |-> "none", w |-> 0, pc |-> "none", todo |-> {}]

----------------------------------------------------------------------------
(* Reading the store. *)

Staged(d) == { w \in Writers : d.staging[w] # Absent }

\* directory_file_usage: objects, and staging files that are still leased.
Usage(d) == SumFunctionOnSet(SizeOf, d.objects)
            + SumFunctionOnSet(d.staging, Staged(d) \cap d.leases)

ReconciledBlind(d) ==
    [d EXCEPT !.staging = [w \in Writers |-> Absent],
              !.ledger = SumFunctionOnSet(SizeOf, d.objects)]

\* reconcile_quota removes staging nobody has a lease on and rewrites the ledger.
Reconciled(d) ==
    [d EXCEPT !.staging = [w \in Writers |-> IF w \in d.leases THEN @[w] ELSE Absent],
              !.ledger = Usage(d)]

References(d, dir) == { ContentOf[w] : w \in dir }

\* has_other_object_reference: any record of the three directories but this one.
OtherReference(d, w, own) ==
    \/ ContentOf[w] \in References(d, d.records)
    \/ ContentOf[w] \in References(d, d.quarantine \ (IF own = "quarantine" THEN {w} ELSE {}))
    \/ ContentOf[w] \in References(d, d.purging \ (IF own = "purging" THEN {w} ELSE {}))

Unreferenced(d) ==
    d.objects \ (References(d, d.records) \union References(d, d.quarantine)
                 \union References(d, d.purging))

\* store_is_empty_for_quota_reconfiguration counts entries, not bytes.
StoreIsEmpty(d) ==
    /\ Staged(d) = {}
    /\ d.objects = {}
    /\ d.records \union d.quarantine \union d.purging = {}

\* artifact_read finds an active record whose object verifies (and refuses it once expired).
Published(d, w) == w \in d.records /\ ContentOf[w] \in d.objects

----------------------------------------------------------------------------
(* The lock. *)

Acquire(p, op, w, pc, todo) ==
    /\ artConf[p] # Down
    /\ artLock = Free
    /\ artLock' = [proc |-> p, op |-> op, w |-> w, pc |-> pc, todo |-> todo]

At(op, pc) == artLock.op = op /\ artLock.pc = pc
GoTo(pc, todo) == artLock' = [artLock EXCEPT !.pc = pc, !.todo = todo]
GoOn == UNCHANGED artLock
Release == artLock' = Free
Head1 == Min(artLock.todo)
Skip == artLock' = [artLock EXCEPT !.todo = @ \ {Head1}]
Becomes(w, s) == artWriter' = [artWriter EXCEPT ![w] = s]
Conf == artConf[artLock.proc]

----------------------------------------------------------------------------
(* ArtifactWriter::create and artifact_cleanup: the maintenance sweep. *)

Create(w) == /\ artWriter[w] = "new"
             /\ Acquire(OwnerOf[w], "create", w, "limit", {})
             /\ UNCHANGED <<artDisk, artWriter, artConf>>

Cleanup(p) == /\ Acquire(p, "cleanup", 0, "limit", {})
              /\ UNCHANGED <<artDisk, artWriter, artConf>>

LimitAdoptable(d) ==
    \/ d.limit = Absent /\ Staged(d) \cap d.leases = {}
    \/ d.limit # Absent /\ StoreIsEmpty(d)

\* ensure_quota_limit: the limit is the identity of the shared store.
EnsureLimit ==
    /\ artLock.pc = "limit"
    /\ \/ /\ artDisk.limit = Conf \/ LimitAdoptable(artDisk)
          /\ artDisk' = [artDisk EXCEPT !.limit = Conf]
          /\ GoTo("expire", artDisk.records)
          /\ UNCHANGED artWriter
       \/ /\ artDisk.limit # Conf /\ ~LimitAdoptable(artDisk)
          /\ Release
          /\ artWriter' = IF artLock.op = "create"
                          THEN [artWriter EXCEPT ![artLock.w] = "over"] ELSE artWriter
          /\ UNCHANGED artDisk
    /\ UNCHANGED artConf

\* Expired records: publish the quarantine copy, then remove the active one.
Quarantine(d, w) ==
    IF w \in d.quarantine THEN [d EXCEPT !.records = @ \ {w}]
    ELSE [d EXCEPT !.quarantine = @ \union {w}]

ExpireStepEarly ==
    /\ artLock.pc = "expire"
    /\ \/ /\ artLock.todo = {}
          /\ GoTo("age", artDisk.quarantine)
          /\ UNCHANGED artDisk
       \/ /\ artLock.todo # {}
          /\ artDisk' = Quarantine(artDisk, Head1)
          /\ IF Head1 \in artDisk'.quarantine /\ Head1 \notin artDisk'.records
             THEN Skip ELSE GoOn
    /\ UNCHANGED <<artWriter, artConf>>

ExpireStep ==
    /\ artLock.pc = "expire"
    /\ \/ /\ artLock.todo = {}
          /\ GoTo("age", artDisk.quarantine)
          /\ UNCHANGED artDisk
       \/ /\ artLock.todo # {}
          /\ IF Head1 \in artDisk.expired
             THEN /\ artDisk' = Quarantine(artDisk, Head1)
                  /\ IF Head1 \in artDisk'.quarantine /\ Head1 \notin artDisk'.records
                     THEN Skip ELSE GoOn
             ELSE Skip /\ UNCHANGED artDisk
    /\ UNCHANGED <<artWriter, artConf>>

\* complete_purge: the object unless it is still referenced, its quota, and
\* then the purge intent itself.
PurgeStep(d, w) ==
    IF ~OtherReference(d, w, "purging") /\ ContentOf[w] \in d.objects
    THEN [d EXCEPT !.objects = @ \ {ContentOf[w]}]
    ELSE [(IF OtherReference(d, w, "purging") THEN d ELSE Reconciled(d))
             EXCEPT !.purging = @ \ {w}]

\* Old quarantine: begin_purge renames the record to a durable delete intent,
\* unless another record still needs the object.
AgeStep ==
    /\ artLock.pc = "age"
    /\ LET d == artDisk
           w == Head1
       IN \/ /\ artLock.todo = {}
             /\ GoTo("purge", d.purging)
             /\ UNCHANGED artDisk
          \/ /\ artLock.todo # {} /\ w \in d.quarantine
             /\ \/ w \notin d.aged /\ Skip /\ UNCHANGED artDisk
                \/ /\ w \in d.aged /\ OtherReference(d, w, "quarantine")
                   /\ artDisk' = [d EXCEPT !.quarantine = @ \ {w}]
                   /\ Skip
                \/ /\ w \in d.aged /\ ~OtherReference(d, w, "quarantine")
                   /\ ContentOf[w] \in d.objects /\ w \notin d.purging
                   /\ artDisk' = [d EXCEPT !.quarantine = @ \ {w}, !.purging = @ \union {w}]
                   /\ GoOn
          \/ /\ artLock.todo # {} /\ w \notin d.quarantine /\ w \in d.purging
             /\ artDisk' = PurgeStep(d, w)
             /\ IF w \in artDisk'.purging THEN GoOn ELSE Skip
    /\ UNCHANGED <<artWriter, artConf>>

\* Purge intents that a crash left behind.
PurgeIntentStep ==
    /\ artLock.pc = "purge"
    /\ \/ /\ artLock.todo = {}
          /\ UNCHANGED artDisk
          /\ IF artLock.op = "create"
             THEN GoTo("orphans", {}) ELSE Release
       \/ /\ artLock.todo # {}
          /\ artDisk' = PurgeStep(artDisk, Head1)
          /\ IF Head1 \in artDisk'.purging THEN GoOn ELSE Skip
    /\ UNCHANGED <<artWriter, artConf>>

\* remove_unreferenced_objects, then reconcile_quota.
OrphanStep ==
    /\ At("create", "orphans")
    /\ LET orphans == Unreferenced(artDisk)
       IN \/ /\ orphans # {}
             /\ \E c \in orphans : artDisk' = [artDisk EXCEPT !.objects = @ \ {c}]
             /\ GoOn
          \/ /\ orphans = {}
             /\ artDisk' = Reconciled(artDisk)
             /\ GoTo("stage", {})
    /\ UNCHANGED <<artWriter, artConf>>

\* The staging file is created, and then locked as a liveness lease.
StageStep ==
    /\ At("create", "stage")
    /\ LET w == artLock.w
       IN \/ /\ artDisk.staging[w] = Absent
             /\ artDisk' = [artDisk EXCEPT !.staging[w] = 0]
             /\ GoOn
             /\ UNCHANGED artWriter
          \/ /\ artDisk.staging[w] # Absent
             /\ artDisk' = [artDisk EXCEPT !.leases = @ \union {w}]
             /\ Becomes(w, "open")
             /\ Release
    /\ UNCHANGED artConf

----------------------------------------------------------------------------
(* write_chunk. *)

WriteChunk(w) ==
    /\ artWriter[w] = "open"
    /\ artDisk.staging[w] < SizeOf[ContentOf[w]]
    /\ Acquire(OwnerOf[w], "write", w, "reserve", {})
    /\ UNCHANGED <<artDisk, artWriter, artConf>>

\* reserve_quota: before it denies, it reconciles, so that a reservation of a
\* dead writer is not held against a healthy one.
Counted(d) ==
    IF d.ledger = Torn \/ (d.limit > 0 /\ d.ledger + 1 > d.limit) THEN Reconciled(d) ELSE d

Reserve ==
    /\ At("write", "reserve")
    /\ LET d == Counted(artDisk)
       IN \/ /\ artDisk.limit # Conf
             /\ Becomes(artLock.w, "drop") /\ Release /\ UNCHANGED artDisk
          \/ /\ artDisk.limit = Conf /\ d.limit > 0 /\ d.ledger + 1 > d.limit
             /\ artDisk' = d
             /\ Becomes(artLock.w, "drop") /\ Release
          \/ /\ artDisk.limit = Conf /\ (d.limit = 0 \/ d.ledger + 1 <= d.limit)
             /\ artDisk' = [d EXCEPT !.ledger = @ + 1]
             /\ GoTo("append", {})
             /\ UNCHANGED artWriter
    /\ UNCHANGED artConf

\* A failed write discards the whole capture under the same lock.
Append1 ==
    /\ At("write", "append")
    /\ \/ /\ artDisk' = [artDisk EXCEPT !.staging[artLock.w] = @ + 1]
          /\ Release
          /\ UNCHANGED artWriter
       \/ /\ artDisk' = [artDisk EXCEPT !.leases = @ \ {artLock.w}]
          /\ Becomes(artLock.w, "drop")
          /\ artLock' = [artLock EXCEPT !.op = "drop", !.pc = "discard"]
    /\ UNCHANGED artConf

----------------------------------------------------------------------------
(* finalize. *)

Finalize(w) ==
    /\ artWriter[w] = "open"
    /\ artDisk.staging[w] = SizeOf[ContentOf[w]]
    /\ Acquire(OwnerOf[w], "finalize", w, "unlock", {})
    /\ UNCHANGED <<artDisk, artWriter, artConf>>

\* The lease ends under the store lock, so nobody sees the file without it.
UnlockStaging ==
    /\ At("finalize", "unlock")
    /\ artDisk' = [artDisk EXCEPT !.leases = @ \ {artLock.w}]
    /\ GoTo("link", {})
    /\ UNCHANGED <<artWriter, artConf>>

\* The hard link publishes the object if it is absent; an object that exists
\* is verified and the capture's own bytes are given back.
Link ==
    /\ At("finalize", "link")
    /\ IF ContentOf[artLock.w] \in artDisk.objects
       THEN UNCHANGED artDisk /\ GoTo("duplicate", {})
       ELSE /\ artDisk' = [artDisk EXCEPT !.objects = @ \union {ContentOf[artLock.w]}]
            /\ GoTo("linked", {})
    /\ UNCHANGED <<artWriter, artConf>>

RemoveStaging ==
    /\ artLock.op = "finalize" /\ artLock.pc \in {"linked", "duplicate"}
    /\ LET d == [artDisk EXCEPT !.staging[artLock.w] = Absent]
       IN artDisk' = IF artLock.pc = "duplicate" THEN Reconciled(d) ELSE d
    /\ artLock' = [artLock EXCEPT !.pc = IF @ = "linked" THEN "record" ELSE "recordShared"]
    /\ UNCHANGED <<artWriter, artConf>>

\* A record that was not published takes its object with it, unless the object
\* was there before; a record that became visible keeps it.
Rollback(d, w, pc) ==
    IF pc = "record" THEN Reconciled([d EXCEPT !.objects = @ \ {ContentOf[w]}]) ELSE d

WriteRecord ==
    /\ artLock.op = "finalize" /\ artLock.pc \in {"record", "recordShared"}
    /\ LET w == artLock.w
           published == [artDisk EXCEPT !.records = @ \union {w}]
       IN \/ artDisk' = published /\ Becomes(w, "over")
          \/ artDisk' = published /\ Becomes(w, "drop")
          \/ artDisk' = Rollback(artDisk, w, artLock.pc) /\ Becomes(w, "drop")
    /\ Release
    /\ UNCHANGED artConf

----------------------------------------------------------------------------
(* Drop of an unfinished writer, crash, restart and the passing of time. *)

\* A capture may be abandoned at any time its writer is not in a call.
DropWriter(w) ==
    /\ artWriter[w] \in {"open", "drop"}
    /\ Acquire(OwnerOf[w], "drop", w, "discard", {})
    /\ UNCHANGED <<artDisk, artWriter, artConf>>

\* discard_staging_locked closes the handle before it removes the file.
Discard ==
    /\ At("drop", "discard")
    /\ LET d == [artDisk EXCEPT !.leases = @ \ {artLock.w}, !.staging[artLock.w] = Absent]
       IN artDisk' = Reconciled(d)
    /\ Becomes(artLock.w, "over")
    /\ Release
    /\ UNCHANGED artConf

\* The ledger is truncated and then written: a crash in between tears it.
WritesLedger == artLock.pc \in {"age", "purge", "orphans", "reserve", "duplicate",
                                "record", "discard"}

ArtCrash(p) ==
    /\ artConf[p] # Down
    /\ LET own == { w \in Writers : OwnerOf[w] = p }
           d == [artDisk EXCEPT !.leases = @ \ own]
       IN /\ \/ artDisk' = d
             \/ artLock.proc = p /\ WritesLedger /\ artDisk' = [d EXCEPT !.ledger = Torn]
          /\ artWriter' = [w \in Writers |->
                IF w \in own /\ artWriter[w] # "new" THEN "over" ELSE artWriter[w]]
    /\ artLock' = IF artLock.proc = p THEN Free ELSE artLock
    /\ artConf' = [artConf EXCEPT ![p] = Down]

ArtStart(p) ==
    /\ artConf[p] = Down
    /\ \E l \in Limits : artConf' = [artConf EXCEPT ![p] = l]
    /\ UNCHANGED <<artDisk, artLock, artWriter>>

Expire(w) ==
    /\ w \in artDisk.records \ artDisk.expired
    /\ artDisk' = [artDisk EXCEPT !.expired = @ \union {w}]
    /\ UNCHANGED <<artLock, artWriter, artConf>>

Age(w) ==
    /\ w \in artDisk.quarantine \ artDisk.aged
    /\ artDisk' = [artDisk EXCEPT !.aged = @ \union {w}]
    /\ UNCHANGED <<artLock, artWriter, artConf>>

ArtInit ==
    /\ artDisk = [objects |-> {}, staging |-> [w \in Writers |-> Absent], leases |-> {},
                  records |-> {}, quarantine |-> {}, purging |-> {},
                  expired |-> {}, aged |-> {}, ledger |-> Torn, limit |-> Absent]
    /\ artLock = Free
    /\ artWriter = [w \in Writers |-> "new"]
    /\ artConf = [p \in ArtProcs |-> Down]

LockedStep ==
    \/ EnsureLimit \/ ExpireStep \/ AgeStep \/ PurgeIntentStep \/ OrphanStep \/ StageStep
    \/ Reserve \/ Append1
    \/ UnlockStaging \/ Link \/ RemoveStaging \/ WriteRecord
    \/ Discard

ArtNext ==
    \/ LockedStep
    \/ \E p \in ArtProcs : Cleanup(p) \/ ArtCrash(p) \/ ArtStart(p)
    \/ \E w \in Writers : Create(w) \/ WriteChunk(w) \/ Finalize(w) \/ DropWriter(w)
                          \/ Expire(w) \/ Age(w)

ArtSpec == ArtInit /\ [][ArtNext]_artVars

----------------------------------------------------------------------------

\* The directories hold what their names say, and the ledger and the limit are
\* numbers, torn or missing.
ArtTypeOK ==
    /\ artDisk.objects \subseteq Contents
    /\ artDisk.staging \in [Writers -> Nat \union {Absent}]
    /\ artDisk.leases \subseteq Staged(artDisk)
    /\ artDisk.records \union artDisk.quarantine \union artDisk.purging \subseteq Writers
    /\ artDisk.ledger \in Nat \union {Torn}
    /\ artDisk.limit \in Limits \union {Absent}
    /\ artLock.todo \subseteq Writers

\* What reconcile_quota would count never exceeds the limit of the store
\* (reserve_quota), across crashes that tear the ledger, duplicates that give
\* their bytes back, and servers with another configured limit.
QuotaKept == artDisk.limit > 0 => Usage(artDisk) <= artDisk.limit

\* The ledger never counts less than is there: a reservation is written before
\* its bytes, and bytes leave the disk before the ledger.
LedgerCovers == artDisk.ledger # Torn => Usage(artDisk) <= artDisk.ledger

\* artifact_cleanup can always go on: a quarantined record still has its object
\* (ensure_object_present_for_purge), and never a purge intent beside it
\* (begin_purge).  Either would make every later cleanup fail.
CleanupNeverStuck ==
    \A w \in artDisk.quarantine :
        ContentOf[w] \in artDisk.objects /\ w \notin artDisk.purging

\* A capture that is running keeps its staging file and its lease: no other
\* server takes it for the residue of a crash (directory_file_usage).
LeaseRespected ==
    \A w \in Writers : artWriter[w] = "open" =>
        \/ w \in artDisk.leases
        \/ artLock.w = w /\ artLock.op \in {"finalize", "drop"}

\* When the sweep of ArtifactWriter::create ends, everything a crash left behind
\* is gone: no staging without a lease, no object without a record, no purge
\* intent, and the ledger is true.
SweptClean(d) ==
    /\ Staged(d) \subseteq d.leases
    /\ Unreferenced(d) = {}
    /\ d.purging = {}
    /\ d.ledger = Usage(d)

ResidueReclaimed ==
    [][artLock.pc # "stage" /\ artLock'.pc = "stage" => SweptClean(artDisk')]_artVars

\* All running captures were admitted under the limit the store has now: it
\* cannot change under them (ensure_quota_limit).
OneLimit ==
    \A w \in Writers : artWriter[w] = "open" => artConf[OwnerOf[w]] = artDisk.limit

\* The artifact store keeps within its quota and its ledger covers what is on the
\* disk, across crashes of any server: a staging file in use is never swept,
\* captures agree on one limit, and a half-done cleanup can always be taken up
\* again (artifact.rs).
ArtifactsKept ==
    ArtTypeOK /\ QuotaKept /\ LedgerCovers /\ CleanupNeverStuck /\ LeaseRespected /\ OneLimit

\* The store implements Retention: what was published stays readable until its
\* time is over, is withdrawn once, and never comes back.
Promise == INSTANCE Retention WITH
    Artifacts <- Writers,
    shelf <- [w \in Writers |-> IF Published(artDisk, w) THEN "readable"
                                ELSE IF w \in artDisk.expired THEN "withdrawn" ELSE "unborn"],
    lapsed <- artDisk.expired

RetentionKept == Promise!Spec
==============================================================================
