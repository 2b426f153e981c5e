--------------------------- MODULE ArtifactsProofs ---------------------------
(***************************************************************************)
(* Proofs about the artifact store of the toolkit (module Artifacts), for  *)
(* any number of servers, captures, contents and configured limits: the    *)
(* store implements Retention, a cleanup can always go on, a running       *)
(* capture keeps its staging file, its lease and its limit, what is on the *)
(* disk stays within the quota, and a sweep leaves nothing behind.         *)
(***************************************************************************)
EXTENDS Artifacts, FiniteSetTheorems, WellFoundedInduction, TLAPS

Sweep == {"limit", "expire", "age", "purge", "orphans", "stage"}
Publishing == {"unlock", "link", "linked", "duplicate", "record", "recordShared"}

DiskFields == {"objects", "staging", "leases", "records", "quarantine", "purging",
               "expired", "aged", "ledger", "limit"}
LockFields == {"proc", "op", "w", "pc", "todo"}

Shape ==
    /\ DOMAIN artDisk = DiskFields
    /\ artDisk.staging \in [Writers -> Nat \cup {Absent}]
    /\ artDisk.leases \subseteq Staged(artDisk)
    /\ artDisk.records \subseteq Writers /\ artDisk.quarantine \subseteq Writers
    /\ artDisk.purging \subseteq Writers /\ artDisk.expired \subseteq Writers
    /\ artDisk.limit \in Limits \cup {Absent}
    /\ DOMAIN artLock = LockFields /\ artLock.todo \subseteq Writers
    /\ artWriter \in [Writers -> {"new", "open", "drop", "over"}]
    /\ artConf \in [ArtProcs -> Limits \cup {Down}]

\* Whoever holds the lock runs, and works for a capture of its own that is in the right state.
Held ==
    /\ artLock.op \in {"none", "create", "cleanup", "write", "finalize", "drop"}
    /\ artLock.op \in {"create", "cleanup"} <=> artLock.pc \in Sweep
    /\ artLock.op = "write" <=> artLock.pc \in {"reserve", "append"}
    /\ artLock.op = "finalize" <=> artLock.pc \in Publishing
    /\ artLock.op = "drop" <=> artLock.pc = "discard"
    /\ artLock.op # "none" => artLock.proc \in ArtProcs /\ artConf[artLock.proc] # Down
    /\ artLock.op \in {"create", "write", "finalize", "drop"}
          => artLock.w \in Writers /\ artLock.proc = OwnerOf[artLock.w]
    /\ artLock.op = "create" => artWriter[artLock.w] = "new"
    /\ artLock.op \in {"write", "finalize"} => artWriter[artLock.w] = "open"
    /\ artLock.op = "drop" => artWriter[artLock.w] \in {"open", "drop"}

\* Only a capture that is over leaves a record, and only once.
Past == \A w \in artDisk.records \cup artDisk.quarantine \cup artDisk.purging \cup artDisk.expired :
            artWriter[w] \in {"drop", "over"}

\* A record has its object until begin_purge, and is not kept and purged at once.
Backed == \A w \in artDisk.records \cup artDisk.quarantine : ContentOf[w] \in artDisk.objects
Apart == \A w \in artDisk.purging : w \notin artDisk.records /\ w \notin artDisk.quarantine

\* A capture that links its object has it until the record is written; an object it made
\* itself has no other record.
Fresh ==
    /\ artLock.pc \in {"linked", "duplicate", "record", "recordShared"}
          => ContentOf[artLock.w] \in artDisk.objects
    /\ artLock.pc \in {"linked", "record"}
          => \A v \in artDisk.records \cup artDisk.quarantine : ContentOf[v] # ContentOf[artLock.w]

\* The sweep looks at records that are still there.
Sweeping == artLock.pc = "expire" => artLock.todo \subseteq artDisk.records

Leased ==
    /\ LeaseRespected
    /\ artLock.pc \in Publishing \ {"unlock"} => artLock.w \notin artDisk.leases

Limited ==
    /\ OneLimit
    /\ artLock.pc \in Sweep \ {"limit"} => artConf[artLock.proc] = artDisk.limit

ArtIInv == Shape /\ Held /\ Past /\ Backed /\ Apart /\ Fresh /\ Sweeping /\ Leased /\ Limited

-----------------------------------------------------------------------------
\* A set of naturals has a least element.
LEMMA LeastExists ==
    ASSUME NEW T, T \subseteq Nat, T # {}
    PROVE  \E x \in T : \A y \in T : x <= y
<1> DEFINE R == OpToRel(<, Nat)
<1>1. IsWellFoundedOn(R, Nat)
  BY NatLessThanWellFounded
<1>2. \A x, y \in Nat : x < y => <<x, y>> \in R
  BY DEF OpToRel
<1> HIDE DEF R
<1>3. PICK x \in T : \A y \in T : ~ (<<y, x>> \in R)
  BY <1>1, WFMin
<1>4. ASSUME NEW y \in T PROVE x <= y
  <2>1. ~(y < x)
    BY <1>2, <1>3
  <2> QED BY <2>1
<1> QED BY <1>4

LEMMA LeastOfSet ==
    ASSUME NEW T, T \subseteq Nat, T # {}
    PROVE  Min(T) \in T
BY LeastExists DEF Min

-----------------------------------------------------------------------------
(* The invariant of the store. *)

\* How the lock moves.
LockBecomes(p, op, w, pc, todo) ==
    /\ DOMAIN artLock' = LockFields
    /\ artLock'.proc = p /\ artLock'.op = op /\ artLock'.w = w /\ artLock'.pc = pc /\ artLock'.todo = todo
LEMMA LockMoves ==
    ASSUME Shape
    PROVE  /\ \A pc, todo : GoTo(pc, todo) => LockBecomes(artLock.proc, artLock.op, artLock.w, pc, todo)
           /\ Release => LockBecomes(NoProc, "none", 0, "none", {})
           /\ GoOn => LockBecomes(artLock.proc, artLock.op, artLock.w, artLock.pc, artLock.todo)
           /\ Skip => LockBecomes(artLock.proc, artLock.op, artLock.w, artLock.pc, artLock.todo \ {Head1})
<1>1. ASSUME NEW pc, NEW todo, GoTo(pc, todo)
      PROVE  LockBecomes(artLock.proc, artLock.op, artLock.w, pc, todo)
  BY <1>1 DEF Shape, GoTo, LockBecomes, LockFields
<1>2. Release => LockBecomes(NoProc, "none", 0, "none", {})
  BY DEF Release, LockBecomes, LockFields, Free
<1>3. GoOn => LockBecomes(artLock.proc, artLock.op, artLock.w, artLock.pc, artLock.todo)
  BY DEF Shape, GoOn, LockBecomes, LockFields
<1>4. Skip => LockBecomes(artLock.proc, artLock.op, artLock.w, artLock.pc, artLock.todo \ {Head1})
  BY DEF Shape, Skip, LockBecomes, LockFields
<1> QED BY <1>1, <1>2, <1>3, <1>4

\* reconcile_quota touches nothing but staging without a lease, and the ledger.
LEMMA ReconciledFields ==
    ASSUME NEW d, DOMAIN d = DiskFields
    PROVE  /\ DOMAIN Reconciled(d) = DiskFields
           /\ Reconciled(d).objects = d.objects /\ Reconciled(d).leases = d.leases
           /\ Reconciled(d).records = d.records /\ Reconciled(d).quarantine = d.quarantine
           /\ Reconciled(d).purging = d.purging /\ Reconciled(d).expired = d.expired
           /\ Reconciled(d).limit = d.limit
           /\ Reconciled(d).staging = [w \in Writers |-> IF w \in d.leases THEN d.staging[w] ELSE Absent]
BY DEF Reconciled, DiskFields

-----------------------------------------------------------------------------
\* A step that touches no record leaves the records as they were.
SameRecords ==
    /\ artDisk'.records = artDisk.records /\ artDisk'.quarantine = artDisk.quarantine
    /\ artDisk'.purging = artDisk.purging /\ artDisk'.expired = artDisk.expired
WritersGoOn == \A w \in Writers : artWriter[w] \in {"drop", "over"} => artWriter'[w] \in {"drop", "over"}
LEMMA RecordsKept ==
    ASSUME ArtIInv, SameRecords, artDisk.objects \subseteq artDisk'.objects, WritersGoOn
    PROVE  Past' /\ Backed' /\ Apart'
<1>1. Shape /\ Past /\ Backed /\ Apart
  BY DEF ArtIInv
<1> QED BY <1>1 DEF Shape, Past, Backed, Apart, SameRecords, WritersGoOn

\* The store lock is taken.
Begins(op, w, pc) ==
    \/ op = "create" /\ pc = "limit" /\ w \in Writers /\ artWriter[w] = "new"
    \/ op = "cleanup" /\ pc = "limit"
    \/ op = "write" /\ pc = "reserve" /\ w \in Writers /\ artWriter[w] = "open"
    \/ op = "finalize" /\ pc = "unlock" /\ w \in Writers /\ artWriter[w] = "open"
    \/ op = "drop" /\ pc = "discard" /\ w \in Writers /\ artWriter[w] \in {"open", "drop"}
LEMMA AcquireKeeps ==
    ASSUME ArtIInv, NEW p \in ArtProcs, NEW op, NEW w, NEW pc, Begins(op, w, pc),
           Acquire(p, op, w, pc, {}), op # "cleanup" => p = OwnerOf[w],
           UNCHANGED <<artDisk, artWriter, artConf>>
    PROVE  ArtIInv'
<1>1. /\ artLock.op = "none" /\ artLock.pc = "none" /\ artConf[p] # Down
      /\ LockBecomes(p, op, w, pc, {})
  BY DEF Acquire, Free, LockBecomes, LockFields
<1>2. Past' /\ Backed' /\ Apart'
  BY RecordsKept DEF SameRecords, WritersGoOn
<1>3. Shape'
  BY <1>1 DEF ArtIInv, Shape, LockBecomes, Staged
<1>4. Held'
  BY <1>1 DEF Held, LockBecomes, Begins, Sweep, Publishing
<1>5. Fresh' /\ Sweeping'
  BY <1>1 DEF Fresh, Sweeping, LockBecomes, Begins
<1>6. Leased' /\ Limited'
  BY <1>1 DEF ArtIInv, Leased, Limited, LeaseRespected, OneLimit, LockBecomes, Begins, Publishing, Sweep
<1> QED BY <1>2, <1>3, <1>4, <1>5, <1>6 DEF ArtIInv

LEMMA CallsKeep ==
    ASSUME ArtIInv, NEW w \in Writers, Create(w) \/ WriteChunk(w) \/ Finalize(w) \/ DropWriter(w)
    PROVE  ArtIInv'
<1>0. OwnerOf[w] \in ArtProcs
  BY ArtConstants
<1>1. CASE Create(w)
  BY <1>0, <1>1, AcquireKeeps DEF Create, Begins
<1>2. CASE WriteChunk(w)
  BY <1>0, <1>2, AcquireKeeps DEF WriteChunk, Begins
<1>3. CASE Finalize(w)
  BY <1>0, <1>3, AcquireKeeps DEF Finalize, Begins
<1>4. CASE DropWriter(w)
  BY <1>0, <1>4, AcquireKeeps DEF DropWriter, Begins
<1> QED BY <1>1, <1>2, <1>3, <1>4

LEMMA CleanupKeeps ==
    ASSUME ArtIInv, NEW p \in ArtProcs, Cleanup(p)
    PROVE  ArtIInv'
BY AcquireKeeps DEF Cleanup, Begins

\* A step of the sweep: records only go, and nothing about the captures changes.
LEMMA SweepKeeps ==
    ASSUME ArtIInv, artLock.pc \in Sweep \ {"limit"}, UNCHANGED <<artWriter, artConf>>,
           DOMAIN artDisk' = DiskFields, artDisk'.leases = artDisk.leases,
           artDisk'.limit = artDisk.limit, artDisk'.expired = artDisk.expired,
           artDisk'.staging \in [Writers -> Nat \cup {Absent}],
           \A w \in artDisk.leases : artDisk'.staging[w] = artDisk.staging[w],
           artDisk'.records \subseteq artDisk.records,
           artDisk'.quarantine \subseteq artDisk.records \cup artDisk.quarantine,
           artDisk'.purging \subseteq artDisk.quarantine \cup artDisk.purging,
           Backed', Apart',
           NEW pc \in Sweep \ {"limit"}, NEW todo, todo \subseteq Writers,
           \/ LockBecomes(NoProc, "none", 0, "none", {})
           \/ /\ LockBecomes(artLock.proc, artLock.op, artLock.w, pc, todo)
              /\ pc = "expire" => todo \subseteq artDisk'.records
    PROVE  ArtIInv'
<1>1. Shape /\ Held /\ Past /\ Leased /\ Limited
  BY DEF ArtIInv
<1>2. artLock.op \in {"create", "cleanup"} /\ artLock.pc \notin Publishing
  BY <1>1 DEF Held, Sweep, Publishing
<1>3. Shape'
  BY <1>1 DEF Shape, LockBecomes, Staged
<1>4. Held'
  BY <1>1, <1>2 DEF Held, LockBecomes, Sweep, Publishing
<1>5. Past'
  BY <1>1 DEF Past, Shape
<1>6. Fresh' /\ Sweeping'
  BY DEF Fresh, Sweeping, LockBecomes, Sweep
<1>7. Leased' /\ Limited'
  BY <1>1, <1>2 DEF Leased, Limited, LeaseRespected, OneLimit, LockBecomes, Sweep, Publishing
<1> QED BY <1>3, <1>4, <1>5, <1>6, <1>7 DEF ArtIInv

\* ensure_quota_limit: the limit changes only when no capture is running.
LEMMA EnsureLimitKeeps ==
    ASSUME ArtIInv, EnsureLimit
    PROVE  ArtIInv'
<1>1. Shape /\ Held /\ Leased /\ Limited
  BY DEF ArtIInv
<1>2. artLock.op \in {"create", "cleanup"} /\ artLock.pc = "limit" /\ artLock.proc \in ArtProcs
      /\ Conf \in Limits /\ UNCHANGED artConf
  BY <1>1 DEF Held, EnsureLimit, Sweep, Conf, Shape
<1>3. CASE /\ artDisk.limit = Conf \/ LimitAdoptable(artDisk)
           /\ artDisk' = [artDisk EXCEPT !.limit = Conf]
           /\ GoTo("expire", artDisk.records)
           /\ UNCHANGED artWriter
  <2>1. LockBecomes(artLock.proc, artLock.op, artLock.w, "expire", artDisk.records)
    BY <1>1, <1>3, LockMoves
  <2>2. /\ DOMAIN artDisk' = DiskFields /\ SameRecords /\ artDisk'.limit = Conf
        /\ artDisk'.objects = artDisk.objects /\ artDisk'.staging = artDisk.staging
        /\ artDisk'.leases = artDisk.leases
    BY <1>1, <1>3 DEF Shape, DiskFields, SameRecords
  <2>3. Past' /\ Backed' /\ Apart'
    BY <1>3, <2>2, RecordsKept DEF WritersGoOn
  <2>4. Shape'
    BY <1>1, <1>2, <1>3, <2>1, <2>2 DEF Shape, Staged, SameRecords, LockBecomes
  <2>5. Held'
    BY <1>1, <1>2, <1>3, <2>1 DEF Held, LockBecomes, Sweep, Publishing
  <2>6. Fresh' /\ Sweeping'
    BY <2>1, <2>2 DEF Fresh, Sweeping, LockBecomes, SameRecords
  <2>7. Leased'
    BY <1>1, <1>2, <1>3, <2>1, <2>2 DEF Leased, LeaseRespected, LockBecomes, Publishing
  <2>8. Limited'
    <3>1. ASSUME NEW w \in Writers, artWriter[w] = "open", artDisk.limit # Conf
          PROVE  FALSE
      <4>1. w \in artDisk.leases /\ w \in Staged(artDisk)
        BY <1>1, <1>2, <3>1 DEF Leased, LeaseRespected, Shape
      <4> QED BY <1>3, <3>1, <4>1 DEF LimitAdoptable, StoreIsEmpty
    <3>2. ASSUME NEW w \in Writers, artWriter[w] = "open"
          PROVE  artConf[OwnerOf[w]] = Conf
      BY <1>1, <3>1, <3>2 DEF Limited, OneLimit
    <3> QED BY <1>2, <1>3, <2>1, <2>2, <3>2 DEF Limited, OneLimit, LockBecomes, Conf
  <2> QED BY <2>3, <2>4, <2>5, <2>6, <2>7, <2>8 DEF ArtIInv
<1>4. CASE /\ Release
           /\ artWriter' = IF artLock.op = "create"
                           THEN [artWriter EXCEPT ![artLock.w] = "over"] ELSE artWriter
           /\ UNCHANGED artDisk
  <2>1. LockBecomes(NoProc, "none", 0, "none", {})
    BY <1>1, <1>4, LockMoves
  <2>2. artWriter' \in [Writers -> {"new", "open", "drop", "over"}]
    BY <1>1, <1>4 DEF Shape
  <2>3. \A w \in Writers : artWriter'[w] = artWriter[w] \/ artWriter'[w] = "over"
    BY <1>1, <1>4 DEF Shape, Held
  <2>4. Past' /\ Backed' /\ Apart'
    BY <1>4, <2>3, RecordsKept DEF WritersGoOn, SameRecords
  <2>5. Shape'
    BY <1>1, <1>2, <1>4, <2>1, <2>2 DEF Shape, Staged, LockBecomes
  <2>6. Held'
    BY <2>1 DEF Held, LockBecomes, Sweep, Publishing
  <2>7. Fresh' /\ Sweeping'
    BY <2>1 DEF Fresh, Sweeping, LockBecomes
  <2>8. Leased' /\ Limited'
    BY <1>1, <1>2, <1>4, <2>1, <2>3 DEF Leased, Limited, LeaseRespected, OneLimit, LockBecomes, Publishing, Sweep
  <2> QED BY <2>4, <2>5, <2>6, <2>7, <2>8 DEF ArtIInv
<1> QED BY <1>3, <1>4 DEF EnsureLimit

\* An expired record is copied to the quarantine before it goes.
LEMMA ExpireKeeps ==
    ASSUME ArtIInv, ExpireStep
    PROVE  ArtIInv'
<1>1. Shape /\ Held /\ Backed /\ Apart /\ Sweeping
  BY DEF ArtIInv
<1>2. artLock.pc = "expire" /\ UNCHANGED <<artWriter, artConf>> /\ artLock.todo \subseteq artDisk.records
  BY <1>1 DEF ExpireStep, Sweeping
<1>3. \A w \in artDisk.leases : w \in Writers
  BY <1>1 DEF Shape, Staged
<1>4. CASE artLock.todo = {} /\ GoTo("age", artDisk.quarantine) /\ UNCHANGED artDisk
  <2>1. LockBecomes(artLock.proc, artLock.op, artLock.w, "age", artDisk.quarantine)
    BY <1>1, <1>4, LockMoves
  <2> QED BY <1>1, <1>2, <1>4, <2>1, SweepKeeps DEF Sweep, Shape, Backed, Apart
<1>5. CASE artLock.todo # {}
  <2>1. Head1 \in artLock.todo /\ Head1 \in artDisk.records /\ Head1 \in Writers
    BY <1>1, <1>2, <1>5, ArtConstants, LeastOfSet DEF Head1, Shape
  <2>2. CASE Head1 \notin artDisk.expired
    <3>1. Skip /\ UNCHANGED artDisk
      BY <1>5, <2>2 DEF ExpireStep
    <3>2. LockBecomes(artLock.proc, artLock.op, artLock.w, artLock.pc, artLock.todo \ {Head1})
      BY <1>1, <3>1, LockMoves
    <3> QED BY <1>1, <1>2, <3>1, <3>2, SweepKeeps DEF Sweep, Shape, Backed, Apart
  <2>3. CASE Head1 \in artDisk.expired
    <3>1. /\ artDisk' = Quarantine(artDisk, Head1)
          /\ IF Head1 \in artDisk'.quarantine /\ Head1 \notin artDisk'.records THEN Skip ELSE GoOn
      BY <1>5, <2>3 DEF ExpireStep
    <3>2. /\ DOMAIN artDisk' = DiskFields
          /\ artDisk'.objects = artDisk.objects /\ artDisk'.staging = artDisk.staging
          /\ artDisk'.leases = artDisk.leases /\ artDisk'.limit = artDisk.limit
          /\ artDisk'.expired = artDisk.expired /\ artDisk'.purging = artDisk.purging
          /\ \/ artDisk'.records = artDisk.records \ {Head1} /\ artDisk'.quarantine = artDisk.quarantine
                /\ Head1 \in artDisk.quarantine
             \/ artDisk'.records = artDisk.records /\ artDisk'.quarantine = artDisk.quarantine \cup {Head1}
      BY <1>1, <3>1 DEF Quarantine, Shape, DiskFields
    <3>3. \/ LockBecomes(artLock.proc, artLock.op, artLock.w, artLock.pc, artLock.todo \ {Head1})
          \/ LockBecomes(artLock.proc, artLock.op, artLock.w, artLock.pc, artLock.todo)
             /\ artDisk'.records = artDisk.records
      BY <1>1, <3>1, <3>2, LockMoves
    <3>4. Backed' /\ Apart'
      BY <1>1, <2>1, <3>2 DEF Backed, Apart
    <3>5. artDisk'.staging \in [Writers -> Nat \cup {Absent}]
      BY <1>1, <3>2 DEF Shape
    <3>6. CASE LockBecomes(artLock.proc, artLock.op, artLock.w, artLock.pc, artLock.todo \ {Head1})
      <4>1. artLock.todo \ {Head1} \subseteq artDisk'.records
        BY <1>2, <3>2
      <4> HIDE DEF Head1
      <4> DEFINE todo == artLock.todo \ {Head1}
      <4>0. todo \subseteq Writers
        BY <1>1 DEF Shape
      <4>2. todo \subseteq artDisk'.records /\ LockBecomes(artLock.proc, artLock.op, artLock.w, "expire", todo)
        BY <1>2, <3>6, <4>1
      <4> HIDE DEF todo
      <4> QED BY <1>2, <2>1, <3>2, <3>4, <3>5, <4>0, <4>2, SweepKeeps DEF Sweep
    <3>7. CASE LockBecomes(artLock.proc, artLock.op, artLock.w, artLock.pc, artLock.todo)
               /\ artDisk'.records = artDisk.records
      <4>0. artLock.todo \subseteq Writers
        BY <1>1 DEF Shape
      <4> QED BY <1>2, <2>1, <3>2, <3>4, <3>5, <3>7, <4>0, SweepKeeps DEF Sweep
    <3> QED BY <3>3, <3>6, <3>7
  <2> QED BY <2>2, <2>3
<1> QED BY <1>4, <1>5 DEF ExpireStep

\* What complete_purge may do to the store: the object goes only when no record
\* needs it, and then the intent.
Purged(w) ==
    /\ DOMAIN artDisk' = DiskFields
    /\ artDisk'.leases = artDisk.leases /\ artDisk'.limit = artDisk.limit
    /\ artDisk'.expired = artDisk.expired
    /\ artDisk'.records = artDisk.records /\ artDisk'.quarantine = artDisk.quarantine
    /\ artDisk'.purging \subseteq artDisk.purging
    /\ artDisk'.staging \in [Writers -> Nat \cup {Absent}]
    /\ \A v \in artDisk.leases : artDisk'.staging[v] = artDisk.staging[v]
    /\ Backed' /\ Apart'
LEMMA PurgeStepDoes ==
    ASSUME ArtIInv, NEW w \in Writers, artDisk' = PurgeStep(artDisk, w)
    PROVE  Purged(w)
<1>1. Shape /\ Backed /\ Apart
  BY DEF ArtIInv
<1>2. \A v \in artDisk.leases : v \in Writers
  BY <1>1 DEF Shape, Staged
<1>3. DOMAIN artDisk = DiskFields
  BY <1>1 DEF Shape
<1>4. CASE /\ ~OtherReference(artDisk, w, "purging")
           /\ artDisk' = [artDisk EXCEPT !.objects = @ \ {ContentOf[w]}]
  <2>1. \A v \in artDisk.records \cup artDisk.quarantine : ContentOf[v] # ContentOf[w]
    BY <1>4 DEF OtherReference, References
  <2>2. Backed'
    BY <1>1, <1>3, <1>4, <2>1 DEF Backed, DiskFields
  <2> QED BY <1>1, <1>3, <1>4, <2>2 DEF Purged, DiskFields, Shape, Apart
<1>5. CASE artDisk' = [artDisk EXCEPT !.purging = @ \ {w}]
  BY <1>1, <1>3, <1>5 DEF Purged, DiskFields, Shape, Apart, Backed
<1>6. CASE artDisk' = [Reconciled(artDisk) EXCEPT !.purging = @ \ {w}]
  <2> DEFINE d == Reconciled(artDisk)
  <2>1. /\ DOMAIN d = DiskFields /\ d.objects = artDisk.objects /\ d.leases = artDisk.leases
        /\ d.records = artDisk.records /\ d.quarantine = artDisk.quarantine
        /\ d.purging = artDisk.purging /\ d.expired = artDisk.expired /\ d.limit = artDisk.limit
        /\ d.staging = [v \in Writers |-> IF v \in artDisk.leases THEN artDisk.staging[v] ELSE Absent]
    BY <1>3, ReconciledFields
  <2>2. artDisk' = [d EXCEPT !.purging = @ \ {w}]
    BY <1>6
  <2> HIDE DEF d
  <2>3. /\ d.staging \in [Writers -> Nat \cup {Absent}]
        /\ \A v \in artDisk.leases : d.staging[v] = artDisk.staging[v]
    BY <1>1, <1>2, <2>1 DEF Shape
  <2>4. /\ DOMAIN artDisk' = DiskFields /\ artDisk'.objects = d.objects /\ artDisk'.leases = d.leases
        /\ artDisk'.records = d.records /\ artDisk'.quarantine = d.quarantine
        /\ artDisk'.purging = d.purging \ {w} /\ artDisk'.expired = d.expired
        /\ artDisk'.limit = d.limit /\ artDisk'.staging = d.staging
    BY <2>1, <2>2 DEF DiskFields
  <2> QED BY <1>1, <2>1, <2>3, <2>4 DEF Purged, Apart, Backed
<1> QED BY <1>4, <1>5, <1>6 DEF PurgeStep

\* So a step of the sweep that completes a purge, and then goes on.
LEMMA PurgeKeeps ==
    ASSUME ArtIInv, artLock.pc \in {"age", "purge"}, artLock.todo # {},
           UNCHANGED <<artWriter, artConf>>,
           artDisk' = PurgeStep(artDisk, Head1), Skip \/ GoOn
    PROVE  ArtIInv'
<1>1. Shape
  BY DEF ArtIInv
<1>2. Head1 \in Writers
  BY <1>1, ArtConstants, LeastOfSet DEF Head1, Shape
<1>3. Purged(Head1)
  BY <1>2, PurgeStepDoes
<1>4. PICK todo : todo \subseteq Writers /\ LockBecomes(artLock.proc, artLock.op, artLock.w, artLock.pc, todo)
  BY <1>1, LockMoves DEF Shape
<1> QED BY <1>3, <1>4, SweepKeeps DEF Purged, Sweep

LEMMA AgeKeeps ==
    ASSUME ArtIInv, AgeStep
    PROVE  ArtIInv'
<1>1. Shape /\ Held /\ Backed /\ Apart
  BY DEF ArtIInv
<1>2. artLock.pc = "age" /\ UNCHANGED <<artWriter, artConf>>
  BY DEF AgeStep
<1>3. \A v \in artDisk.leases : v \in Writers
  BY <1>1 DEF Shape, Staged
<1>4. CASE artLock.todo = {} /\ GoTo("purge", artDisk.purging) /\ UNCHANGED artDisk
  <2>1. LockBecomes(artLock.proc, artLock.op, artLock.w, "purge", artDisk.purging)
    BY <1>1, <1>4, LockMoves
  <2> QED BY <1>1, <1>2, <1>4, <2>1, SweepKeeps DEF Sweep, Shape, Backed, Apart
<1>5. CASE Skip /\ UNCHANGED artDisk
  <2>1. PICK todo : todo \subseteq Writers /\ LockBecomes(artLock.proc, artLock.op, artLock.w, artLock.pc, todo)
    BY <1>1, <1>5, LockMoves DEF Shape
  <2> QED BY <1>1, <1>2, <1>5, <2>1, SweepKeeps DEF Sweep, Shape, Backed, Apart
<1>6. CASE artDisk' = [artDisk EXCEPT !.quarantine = @ \ {Head1}] /\ Skip
  <2>1. PICK todo : todo \subseteq Writers /\ LockBecomes(artLock.proc, artLock.op, artLock.w, artLock.pc, todo)
    BY <1>1, <1>6, LockMoves DEF Shape
  <2>2. /\ DOMAIN artDisk' = DiskFields /\ artDisk'.quarantine = artDisk.quarantine \ {Head1}
        /\ artDisk'.objects = artDisk.objects /\ artDisk'.staging = artDisk.staging
        /\ artDisk'.leases = artDisk.leases /\ artDisk'.records = artDisk.records
        /\ artDisk'.purging = artDisk.purging /\ artDisk'.expired = artDisk.expired
        /\ artDisk'.limit = artDisk.limit
    BY <1>1, <1>6 DEF Shape, DiskFields
  <2>3. Backed' /\ Apart'
    BY <1>1, <2>2 DEF Backed, Apart
  <2>4. artDisk'.staging \in [Writers -> Nat \cup {Absent}]
    BY <1>1, <2>2 DEF Shape
  <2> QED BY <1>2, <2>1, <2>2, <2>3, <2>4, SweepKeeps DEF Sweep
\* begin_purge: no active record of this capture either, for it would be another reference.
<1>7. CASE /\ ~OtherReference(artDisk, Head1, "quarantine")
           /\ artDisk' = [artDisk EXCEPT !.quarantine = @ \ {Head1}, !.purging = @ \cup {Head1}]
           /\ Head1 \in artDisk.quarantine
           /\ GoOn
  <2>1. LockBecomes(artLock.proc, artLock.op, artLock.w, artLock.pc, artLock.todo) /\ artLock.todo \subseteq Writers
    BY <1>1, <1>7, LockMoves DEF Shape
  <2>2. /\ DOMAIN artDisk' = DiskFields /\ artDisk'.quarantine = artDisk.quarantine \ {Head1}
        /\ artDisk'.objects = artDisk.objects /\ artDisk'.staging = artDisk.staging
        /\ artDisk'.leases = artDisk.leases /\ artDisk'.records = artDisk.records
        /\ artDisk'.purging = artDisk.purging \cup {Head1} /\ artDisk'.expired = artDisk.expired
        /\ artDisk'.limit = artDisk.limit
    BY <1>1, <1>7 DEF Shape, DiskFields
  <2>3. Head1 \notin artDisk.records
    BY <1>7 DEF OtherReference, References
  <2>4. Backed' /\ Apart'
    BY <1>1, <2>2, <2>3 DEF Backed, Apart
  <2>5. artDisk'.staging \in [Writers -> Nat \cup {Absent}]
    BY <1>1, <2>2 DEF Shape
  <2>6. artDisk'.purging \subseteq artDisk.quarantine \cup artDisk.purging
    BY <1>7, <2>2
  <2> QED BY <1>2, <2>1, <2>2, <2>4, <2>5, <2>6, SweepKeeps DEF Sweep
<1>8. CASE artLock.todo # {} /\ artDisk' = PurgeStep(artDisk, Head1) /\ (Skip \/ GoOn)
  BY <1>2, <1>8, PurgeKeeps
<1> QED BY <1>4, <1>5, <1>6, <1>7, <1>8 DEF AgeStep

LEMMA PurgeIntentKeeps ==
    ASSUME ArtIInv, PurgeIntentStep
    PROVE  ArtIInv'
<1>1. Shape /\ Held /\ Backed /\ Apart
  BY DEF ArtIInv
<1>2. artLock.pc = "purge" /\ UNCHANGED <<artWriter, artConf>>
  BY DEF PurgeIntentStep
<1>3. CASE UNCHANGED artDisk /\ (GoTo("orphans", {}) \/ Release)
  <2>1. \/ LockBecomes(artLock.proc, artLock.op, artLock.w, "orphans", {})
        \/ LockBecomes(NoProc, "none", 0, "none", {})
    BY <1>1, <1>3, LockMoves
  <2> QED BY <1>1, <1>2, <1>3, <2>1, SweepKeeps DEF Sweep, Shape, Backed, Apart
<1>4. CASE artLock.todo # {} /\ artDisk' = PurgeStep(artDisk, Head1) /\ (Skip \/ GoOn)
  BY <1>2, <1>4, PurgeKeeps
<1> QED BY <1>3, <1>4 DEF PurgeIntentStep

\* remove_unreferenced_objects takes no object of an active or quarantined record.
LEMMA OrphanKeeps ==
    ASSUME ArtIInv, OrphanStep
    PROVE  ArtIInv'
<1>1. Shape /\ Held /\ Backed /\ Apart
  BY DEF ArtIInv
<1>2. artLock.pc = "orphans" /\ UNCHANGED <<artWriter, artConf>> /\ DOMAIN artDisk = DiskFields
  BY <1>1 DEF OrphanStep, At, Shape
<1>3. \A v \in artDisk.leases : v \in Writers
  BY <1>1 DEF Shape, Staged
<1>4. ASSUME NEW c \in Unreferenced(artDisk), artDisk' = [artDisk EXCEPT !.objects = @ \ {c}], GoOn
      PROVE  ArtIInv'
  <2>1. LockBecomes(artLock.proc, artLock.op, artLock.w, artLock.pc, artLock.todo) /\ artLock.todo \subseteq Writers
    BY <1>1, <1>4, LockMoves DEF Shape
  <2>2. /\ DOMAIN artDisk' = DiskFields /\ artDisk'.objects = artDisk.objects \ {c}
        /\ artDisk'.quarantine = artDisk.quarantine /\ artDisk'.staging = artDisk.staging
        /\ artDisk'.leases = artDisk.leases /\ artDisk'.records = artDisk.records
        /\ artDisk'.purging = artDisk.purging /\ artDisk'.expired = artDisk.expired
        /\ artDisk'.limit = artDisk.limit
    BY <1>2, <1>4 DEF DiskFields
  <2>3. \A v \in artDisk.records \cup artDisk.quarantine : ContentOf[v] # c
    BY <1>4 DEF Unreferenced, References
  <2>4. Backed' /\ Apart'
    BY <1>1, <2>2, <2>3 DEF Backed, Apart
  <2>5. artDisk'.staging \in [Writers -> Nat \cup {Absent}]
    BY <1>1, <2>2 DEF Shape
  <2> QED BY <1>2, <2>1, <2>2, <2>4, <2>5, SweepKeeps DEF Sweep
<1>5. CASE artDisk' = Reconciled(artDisk) /\ GoTo("stage", {})
  <2>1. LockBecomes(artLock.proc, artLock.op, artLock.w, "stage", {})
    BY <1>1, <1>5, LockMoves
  <2>2. /\ DOMAIN artDisk' = DiskFields /\ artDisk'.objects = artDisk.objects
        /\ artDisk'.quarantine = artDisk.quarantine
        /\ artDisk'.leases = artDisk.leases /\ artDisk'.records = artDisk.records
        /\ artDisk'.purging = artDisk.purging /\ artDisk'.expired = artDisk.expired
        /\ artDisk'.limit = artDisk.limit
        /\ artDisk'.staging = [v \in Writers |-> IF v \in artDisk.leases THEN artDisk.staging[v] ELSE Absent]
    BY <1>2, <1>5, ReconciledFields
  <2>3. Backed' /\ Apart'
    BY <1>1, <2>2 DEF Backed, Apart
  <2>4. /\ artDisk'.staging \in [Writers -> Nat \cup {Absent}]
        /\ \A v \in artDisk.leases : artDisk'.staging[v] = artDisk.staging[v]
    BY <1>1, <1>3, <2>2 DEF Shape
  <2> QED BY <1>2, <2>1, <2>2, <2>3, <2>4, SweepKeeps DEF Sweep
<1> QED BY <1>4, <1>5 DEF OrphanStep

\* The staging file and then its lease: from here the capture is running.
LEMMA StageKeeps ==
    ASSUME ArtIInv, StageStep
    PROVE  ArtIInv'
<1>1. Shape /\ Held /\ Backed /\ Apart /\ Leased /\ Limited /\ Past
  BY DEF ArtIInv
<1>2. artLock.pc = "stage" /\ artLock.op = "create" /\ UNCHANGED artConf /\ DOMAIN artDisk = DiskFields
      /\ artLock.w \in Writers /\ artLock.proc = OwnerOf[artLock.w] /\ artWriter[artLock.w] = "new"
  BY <1>1 DEF StageStep, At, Shape, Held
<1>3. CASE /\ artDisk.staging[artLock.w] = Absent
           /\ artDisk' = [artDisk EXCEPT !.staging[artLock.w] = 0]
           /\ GoOn /\ UNCHANGED artWriter
  <2>1. LockBecomes(artLock.proc, artLock.op, artLock.w, artLock.pc, artLock.todo) /\ artLock.todo \subseteq Writers
    BY <1>1, <1>3, LockMoves DEF Shape
  <2>2. /\ DOMAIN artDisk' = DiskFields /\ artDisk'.objects = artDisk.objects
        /\ artDisk'.quarantine = artDisk.quarantine
        /\ artDisk'.leases = artDisk.leases /\ artDisk'.records = artDisk.records
        /\ artDisk'.purging = artDisk.purging /\ artDisk'.expired = artDisk.expired
        /\ artDisk'.limit = artDisk.limit
        /\ artDisk'.staging = [artDisk.staging EXCEPT ![artLock.w] = 0]
    BY <1>2, <1>3 DEF DiskFields
  <2>3. Backed' /\ Apart'
    BY <1>1, <2>2 DEF Backed, Apart
  <2>4. /\ artDisk'.staging \in [Writers -> Nat \cup {Absent}]
        /\ \A v \in artDisk.leases : artDisk'.staging[v] = artDisk.staging[v]
    BY <1>1, <1>2, <1>3, <2>2 DEF Shape, Staged
  <2> QED BY <1>2, <1>3, <2>1, <2>2, <2>3, <2>4, SweepKeeps DEF Sweep
<1>4. CASE /\ artDisk.staging[artLock.w] # Absent
           /\ artDisk' = [artDisk EXCEPT !.leases = @ \cup {artLock.w}]
           /\ Becomes(artLock.w, "open")
           /\ Release
  <2>1. LockBecomes(NoProc, "none", 0, "none", {})
    BY <1>1, <1>4, LockMoves
  <2>2. /\ DOMAIN artDisk' = DiskFields /\ artDisk'.objects = artDisk.objects /\ SameRecords
        /\ artDisk'.leases = artDisk.leases \cup {artLock.w} /\ artDisk'.limit = artDisk.limit
        /\ artDisk'.staging = artDisk.staging
    BY <1>2, <1>4 DEF DiskFields, SameRecords
  <2>3. artWriter' \in [Writers -> {"new", "open", "drop", "over"}]
        /\ \A v \in Writers : artWriter'[v] = IF v = artLock.w THEN "open" ELSE artWriter[v]
    BY <1>1, <1>2, <1>4 DEF Becomes, Shape
  <2>4. Past' /\ Backed' /\ Apart'
    BY <1>2, <2>2, <2>3, RecordsKept DEF WritersGoOn
  <2>5. Shape'
    <3>1. artDisk'.leases \subseteq Staged(artDisk)'
      BY <1>1, <1>2, <1>4, <2>2 DEF Shape, Staged
    <3> QED BY <1>1, <1>2, <2>1, <2>2, <2>3, <3>1 DEF Shape, SameRecords, LockBecomes
  <2>6. Held'
    BY <2>1 DEF Held, LockBecomes, Sweep, Publishing
  <2>7. Fresh' /\ Sweeping'
    BY <2>1 DEF Fresh, Sweeping, LockBecomes
  <2>8. Leased' /\ Limited'
    BY <1>1, <1>2, <2>1, <2>2, <2>3 DEF Leased, Limited, LeaseRespected, OneLimit, LockBecomes, Publishing, Sweep
  <2> QED BY <2>4, <2>5, <2>6, <2>7, <2>8 DEF ArtIInv
<1> QED BY <1>3, <1>4 DEF StageStep

-----------------------------------------------------------------------------
\* A step of write_chunk, finalize or drop: it touches the files of its own capture only.
LEMMA CaptureKeeps ==
    ASSUME ArtIInv, artLock.op \in {"write", "finalize", "drop"}, UNCHANGED artConf,
           DOMAIN artDisk' = DiskFields, artDisk'.limit = artDisk.limit,
           artDisk'.records \subseteq Writers, artDisk'.quarantine \subseteq Writers,
           artDisk'.purging \subseteq Writers, artDisk'.expired \subseteq Writers,
           artDisk'.staging \in [Writers -> Nat \cup {Absent}],
           artDisk'.leases = artDisk.leases \/ artDisk'.leases = artDisk.leases \ {artLock.w},
           \A v \in artDisk'.leases : artDisk'.staging[v] # Absent,
           artWriter' \in [Writers -> {"new", "open", "drop", "over"}],
           \A v \in Writers \ {artLock.w} : artWriter'[v] = artWriter[v],
           Past', Backed', Apart', Fresh',
           NEW op, NEW pc, NEW todo, todo \subseteq Writers,
           \/ /\ LockBecomes(NoProc, "none", 0, "none", {})
              /\ artWriter'[artLock.w] = "open" => artLock.w \in artDisk'.leases
           \/ /\ LockBecomes(artLock.proc, op, artLock.w, pc, todo)
              /\ \/ op = "write" /\ pc = "append" /\ artLock.w \in artDisk'.leases
                    /\ artWriter'[artLock.w] = "open"
                 \/ op = "finalize" /\ pc \in Publishing \ {"unlock"} /\ artLock.w \notin artDisk'.leases
                    /\ artWriter'[artLock.w] = "open"
                 \/ op = "drop" /\ pc = "discard" /\ artWriter'[artLock.w] \in {"open", "drop"},
           artWriter'[artLock.w] = "open" => artWriter[artLock.w] = "open"
    PROVE  ArtIInv'
<1>1. Shape /\ Held /\ Leased /\ Limited
  BY DEF ArtIInv
<1>2. artLock.w \in Writers /\ artLock.proc = OwnerOf[artLock.w] /\ artLock.proc \in ArtProcs
      /\ artConf[artLock.proc] # Down
  BY <1>1 DEF Held
<1>3. \A v \in artDisk'.leases : v \in Writers
  BY <1>1 DEF Shape, Staged
<1>4. artDisk'.leases \subseteq Staged(artDisk)'
  BY <1>3 DEF Staged
<1>5. Shape'
  BY <1>1, <1>4 DEF Shape, LockBecomes
<1>6. Held'
  <2>1. CASE LockBecomes(NoProc, "none", 0, "none", {})
    BY <2>1 DEF Held, LockBecomes, Sweep, Publishing
  <2>2. CASE LockBecomes(artLock.proc, op, artLock.w, pc, todo)
             /\ op = "write" /\ pc = "append" /\ artWriter'[artLock.w] = "open"
    BY <1>2, <2>2 DEF Held, LockBecomes, Sweep, Publishing
  <2>3. CASE LockBecomes(artLock.proc, op, artLock.w, pc, todo)
             /\ op = "finalize" /\ pc \in Publishing \ {"unlock"} /\ artWriter'[artLock.w] = "open"
    BY <1>2, <2>3 DEF Held, LockBecomes, Sweep, Publishing
  <2>4. CASE LockBecomes(artLock.proc, op, artLock.w, pc, todo)
             /\ op = "drop" /\ pc = "discard" /\ artWriter'[artLock.w] \in {"open", "drop"}
    BY <1>2, <2>4 DEF Held, LockBecomes, Sweep, Publishing
  <2> QED BY <2>1, <2>2, <2>3, <2>4
<1>7. Sweeping'
  BY DEF Sweeping, LockBecomes, Publishing
<1>8. Leased'
  <2>1. \A v \in Writers \ {artLock.w} : artWriter'[v] = "open" => v \in artDisk'.leases
    BY <1>1 DEF Leased, LeaseRespected
  <2>2. artWriter'[artLock.w] = "open" =>
           \/ artLock.w \in artDisk'.leases
           \/ artLock'.w = artLock.w /\ artLock'.op \in {"finalize", "drop"}
    BY DEF LockBecomes
  <2>3. artLock'.pc \in Publishing \ {"unlock"} => artLock'.w \notin artDisk'.leases
    BY DEF LockBecomes, Publishing
  <2> QED BY <2>1, <2>2, <2>3 DEF Leased, LeaseRespected
<1>9. Limited'
  <2>1. OneLimit'
    BY <1>1, <1>2 DEF Limited, OneLimit
  <2>2. artLock'.pc \notin Sweep
    BY DEF LockBecomes, Publishing, Sweep
  <2> QED BY <2>1, <2>2 DEF Limited
<1> QED BY <1>5, <1>6, <1>7, <1>8, <1>9 DEF ArtIInv

\* What a step under the lock of a capture starts from.
LEMMA Capturing ==
    ASSUME ArtIInv, artLock.op \in {"write", "finalize", "drop"}
    PROVE  /\ artLock.w \in Writers
           /\ artLock.op \in {"write", "finalize"} => artWriter[artLock.w] = "open"
              /\ artLock.w \notin artDisk.records \cup artDisk.quarantine \cup artDisk.purging \cup artDisk.expired
           /\ artLock.op = "write" => artLock.w \in artDisk.leases
           /\ artLock.op = "finalize" /\ artLock.pc # "unlock" => artLock.w \notin artDisk.leases
           /\ \A v \in artDisk.leases : v \in Writers /\ artDisk.staging[v] # Absent
           /\ DOMAIN artDisk = DiskFields
           /\ artDisk.staging \in [Writers -> Nat \cup {Absent}]
           /\ artLock.op = "finalize" => artLock.pc \in Publishing
           /\ artLock.op = "drop" => artWriter[artLock.w] \in {"open", "drop"}
<1>1. Shape /\ Held /\ Leased /\ Past
  BY DEF ArtIInv
<1>2. /\ artLock.w \in Writers
      /\ artLock.op \in {"write", "finalize"} => artWriter[artLock.w] = "open"
      /\ artLock.op = "drop" => artWriter[artLock.w] \in {"open", "drop"}
      /\ artLock.op = "finalize" => artLock.pc \in Publishing
  BY <1>1 DEF Held
<1>3. artLock.op \in {"write", "finalize"} =>
         artLock.w \notin artDisk.records \cup artDisk.quarantine \cup artDisk.purging \cup artDisk.expired
  BY <1>1, <1>2 DEF Past
<1>4. /\ artLock.op = "write" => artLock.w \in artDisk.leases
      /\ artLock.op = "finalize" /\ artLock.pc # "unlock" => artLock.w \notin artDisk.leases
  BY <1>1, <1>2 DEF Leased, LeaseRespected
<1>5. \A v \in artDisk.leases : v \in Writers /\ artDisk.staging[v] # Absent
  BY <1>1 DEF Shape, Staged
<1> QED BY <1>1, <1>2, <1>3, <1>4, <1>5 DEF Shape

\* A store in which nothing but the ledger and unleased staging differs.
Same(d) ==
    /\ DOMAIN d = DiskFields
    /\ d.objects = artDisk.objects /\ d.leases = artDisk.leases /\ d.limit = artDisk.limit
    /\ d.records = artDisk.records /\ d.quarantine = artDisk.quarantine
    /\ d.purging = artDisk.purging /\ d.expired = artDisk.expired
    /\ d.staging \in [Writers -> Nat \cup {Absent}]
    /\ \A v \in artDisk.leases : d.staging[v] = artDisk.staging[v]
LEMMA CountedSame ==
    ASSUME ArtIInv
    PROVE  Same(Counted(artDisk))
<1>1. Shape
  BY DEF ArtIInv
<1>2. \A v \in artDisk.leases : v \in Writers
  BY <1>1 DEF Shape, Staged
<1>3. Same(artDisk)
  BY <1>1 DEF Same, Shape
<1>4. Same(Reconciled(artDisk))
  <2> DEFINE d == Reconciled(artDisk)
  <2>1. /\ DOMAIN d = DiskFields /\ d.objects = artDisk.objects /\ d.leases = artDisk.leases
        /\ d.records = artDisk.records /\ d.quarantine = artDisk.quarantine
        /\ d.purging = artDisk.purging /\ d.expired = artDisk.expired /\ d.limit = artDisk.limit
        /\ d.staging = [v \in Writers |-> IF v \in artDisk.leases THEN artDisk.staging[v] ELSE Absent]
    BY <1>1, ReconciledFields DEF Shape
  <2> HIDE DEF d
  <2>2. Same(d)
    BY <1>1, <1>2, <2>1 DEF Same, Shape
  <2> QED BY <2>2 DEF d
<1> QED BY <1>3, <1>4 DEF Counted

\* reserve_quota: a denied capture only asks to be discarded.
LEMMA ReserveKeeps ==
    ASSUME ArtIInv, Reserve
    PROVE  ArtIInv'
<1> DEFINE d == Counted(artDisk)
<1>1. Shape /\ Held /\ Backed /\ Apart /\ Past
  BY DEF ArtIInv
<1>2. artLock.op = "write" /\ artLock.pc = "reserve" /\ UNCHANGED artConf
  BY DEF Reserve, At
<1>3. /\ artLock.w \in Writers /\ artLock.w \in artDisk.leases /\ artWriter[artLock.w] = "open"
      /\ \A v \in artDisk.leases : v \in Writers /\ artDisk.staging[v] # Absent
      /\ DOMAIN artDisk = DiskFields
  BY <1>2, Capturing
<1>4. Same(d)
  BY CountedSame
<1>5. Same(artDisk)
  BY <1>1 DEF Same, Shape
<1>6. \/ Becomes(artLock.w, "drop") /\ Release /\ (artDisk' = artDisk \/ artDisk' = d)
      \/ artDisk' = [d EXCEPT !.ledger = @ + 1] /\ GoTo("append", {}) /\ UNCHANGED artWriter
  BY DEF Reserve
<1> HIDE DEF d
<1>7. Same(artDisk')
  <2>1. CASE artDisk' = artDisk \/ artDisk' = d
    BY <1>4, <1>5, <2>1
  <2>2. CASE artDisk' = [d EXCEPT !.ledger = @ + 1]
    BY <1>4, <2>2 DEF Same, DiskFields
  <2> QED BY <1>6, <2>1, <2>2
<1>8. SameRecords /\ artDisk'.objects = artDisk.objects
  BY <1>7 DEF Same, SameRecords
<1>9. CASE Becomes(artLock.w, "drop") /\ Release
  <2>1. LockBecomes(NoProc, "none", 0, "none", {})
    BY <1>1, <1>9, LockMoves
  <2>2. artWriter' \in [Writers -> {"new", "open", "drop", "over"}]
        /\ \A v \in Writers : artWriter'[v] = IF v = artLock.w THEN "drop" ELSE artWriter[v]
    BY <1>1, <1>3, <1>9 DEF Becomes, Shape
  <2>3. Past' /\ Backed' /\ Apart'
    BY <1>8, <2>2, RecordsKept DEF WritersGoOn
  <2>4. Fresh'
    BY <2>1 DEF Fresh, LockBecomes
  <2> QED BY <1>1, <1>2, <1>3, <1>7, <1>8, <2>1, <2>2, <2>3, <2>4, CaptureKeeps DEF Same, SameRecords, Shape
<1>10. CASE GoTo("append", {}) /\ UNCHANGED artWriter
  <2>1. LockBecomes(artLock.proc, "write", artLock.w, "append", {})
    BY <1>1, <1>2, <1>10, LockMoves
  <2>3. Past' /\ Backed' /\ Apart'
    BY <1>8, <1>10, RecordsKept DEF WritersGoOn
  <2>4. Fresh'
    BY <2>1 DEF Fresh, LockBecomes
  <2> QED BY <1>1, <1>2, <1>3, <1>7, <1>8, <1>10, <2>1, <2>3, <2>4, CaptureKeeps DEF Same, SameRecords, Shape
<1> QED BY <1>6, <1>9, <1>10

LEMMA AppendKeeps ==
    ASSUME ArtIInv, Append1
    PROVE  ArtIInv'
<1>1. Shape /\ Held /\ Backed /\ Apart /\ Past
  BY DEF ArtIInv
<1>2. artLock.op = "write" /\ artLock.pc = "append" /\ UNCHANGED artConf
  BY DEF Append1, At
<1>3. /\ artLock.w \in Writers /\ artLock.w \in artDisk.leases /\ artWriter[artLock.w] = "open"
      /\ \A v \in artDisk.leases : v \in Writers /\ artDisk.staging[v] # Absent
      /\ DOMAIN artDisk = DiskFields /\ artDisk.staging \in [Writers -> Nat \cup {Absent}]
  BY <1>2, Capturing
<1>4. CASE /\ artDisk' = [artDisk EXCEPT !.staging[artLock.w] = @ + 1]
           /\ Release /\ UNCHANGED artWriter
  <2>1. LockBecomes(NoProc, "none", 0, "none", {})
    BY <1>1, <1>4, LockMoves
  <2>2. /\ DOMAIN artDisk' = DiskFields /\ artDisk'.objects = artDisk.objects /\ SameRecords
        /\ artDisk'.leases = artDisk.leases /\ artDisk'.limit = artDisk.limit
        /\ artDisk'.staging = [artDisk.staging EXCEPT ![artLock.w] = @ + 1]
    BY <1>3, <1>4 DEF DiskFields, SameRecords
  <2>3. artDisk.staging[artLock.w] + 1 \in Nat
    BY <1>3 DEF Absent
  <2>4. artDisk'.staging \in [Writers -> Nat \cup {Absent}]
        /\ \A v \in artDisk'.leases : artDisk'.staging[v] # Absent
    BY <1>3, <2>2, <2>3 DEF Absent
  <2>5. Past' /\ Backed' /\ Apart'
    BY <1>4, <2>2, RecordsKept DEF WritersGoOn
  <2>6. Fresh'
    BY <2>1 DEF Fresh, LockBecomes
  <2> QED BY <1>1, <1>2, <1>3, <1>4, <2>1, <2>2, <2>4, <2>5, <2>6, CaptureKeeps DEF SameRecords, Shape
<1>5. CASE /\ artDisk' = [artDisk EXCEPT !.leases = @ \ {artLock.w}]
           /\ Becomes(artLock.w, "drop")
           /\ artLock' = [artLock EXCEPT !.op = "drop", !.pc = "discard"]
  <2>1. DOMAIN artLock' = LockFields /\ artLock'.op = "drop" /\ artLock'.pc = "discard"
        /\ artLock'.w = artLock.w /\ artLock'.proc = artLock.proc /\ artLock'.todo = artLock.todo
    BY <1>1, <1>5 DEF LockFields, Shape
  <2>2. /\ DOMAIN artDisk' = DiskFields /\ artDisk'.objects = artDisk.objects /\ SameRecords
        /\ artDisk'.leases = artDisk.leases \ {artLock.w} /\ artDisk'.limit = artDisk.limit
        /\ artDisk'.staging = artDisk.staging
    BY <1>3, <1>5 DEF DiskFields, SameRecords
  <2>3. artWriter' \in [Writers -> {"new", "open", "drop", "over"}]
        /\ \A v \in Writers : artWriter'[v] = IF v = artLock.w THEN "drop" ELSE artWriter[v]
    BY <1>1, <1>3, <1>5 DEF Becomes, Shape
  <2>4. Past' /\ Backed' /\ Apart'
    BY <2>2, <2>3, RecordsKept DEF WritersGoOn
  <2>5. Fresh'
    BY <2>1 DEF Fresh
  <2>6. LockBecomes(artLock.proc, "drop", artLock.w, "discard", artLock.todo)
    BY <2>1 DEF LockBecomes
  <2> QED BY <1>1, <1>2, <1>3, <2>2, <2>3, <2>4, <2>5, <2>6, CaptureKeeps DEF SameRecords, Shape
<1> QED BY <1>4, <1>5 DEF Append1

LEMMA UnlockKeeps ==
    ASSUME ArtIInv, UnlockStaging
    PROVE  ArtIInv'
<1>1. Shape /\ Held
  BY DEF ArtIInv
<1>2. artLock.op = "finalize" /\ artLock.pc = "unlock" /\ UNCHANGED <<artConf, artWriter>>
      /\ artDisk' = [artDisk EXCEPT !.leases = @ \ {artLock.w}] /\ GoTo("link", {})
  BY DEF UnlockStaging, At
<1>3. /\ artLock.w \in Writers /\ artWriter[artLock.w] = "open"
      /\ \A v \in artDisk.leases : v \in Writers /\ artDisk.staging[v] # Absent
      /\ DOMAIN artDisk = DiskFields /\ artDisk.staging \in [Writers -> Nat \cup {Absent}]
  BY <1>2, Capturing
<1>4. LockBecomes(artLock.proc, "finalize", artLock.w, "link", {})
  BY <1>1, <1>2, LockMoves
<1>5. /\ DOMAIN artDisk' = DiskFields /\ artDisk'.objects = artDisk.objects /\ SameRecords
      /\ artDisk'.leases = artDisk.leases \ {artLock.w} /\ artDisk'.limit = artDisk.limit
      /\ artDisk'.staging = artDisk.staging
  BY <1>2, <1>3 DEF DiskFields, SameRecords
<1>6. Past' /\ Backed' /\ Apart'
  BY <1>2, <1>5, RecordsKept DEF WritersGoOn
<1>7. Fresh'
  BY <1>4 DEF Fresh, LockBecomes
<1> QED BY <1>1, <1>2, <1>3, <1>4, <1>5, <1>6, <1>7, CaptureKeeps DEF SameRecords, Shape, Publishing

\* The object is linked when no record can have it, for every record has its object.
LEMMA LinkKeeps ==
    ASSUME ArtIInv, Link
    PROVE  ArtIInv'
<1>1. Shape /\ Held /\ Backed
  BY DEF ArtIInv
<1>2. artLock.op = "finalize" /\ artLock.pc = "link" /\ UNCHANGED <<artConf, artWriter>>
  BY DEF Link, At
<1>3. /\ artLock.w \in Writers /\ artWriter[artLock.w] = "open" /\ artLock.w \notin artDisk.leases
      /\ \A v \in artDisk.leases : v \in Writers /\ artDisk.staging[v] # Absent
      /\ DOMAIN artDisk = DiskFields /\ artDisk.staging \in [Writers -> Nat \cup {Absent}]
  BY <1>2, Capturing
<1>4. CASE ContentOf[artLock.w] \in artDisk.objects
  <2>1. UNCHANGED artDisk /\ GoTo("duplicate", {})
    BY <1>4 DEF Link
  <2>2. LockBecomes(artLock.proc, "finalize", artLock.w, "duplicate", {})
    BY <1>1, <1>2, <2>1, LockMoves
  <2>3. Past' /\ Backed' /\ Apart'
    BY <1>2, <2>1, RecordsKept DEF WritersGoOn, SameRecords
  <2>4. Fresh'
    BY <1>4, <2>1, <2>2 DEF Fresh, LockBecomes
  <2> QED BY <1>1, <1>2, <1>3, <2>1, <2>2, <2>3, <2>4, CaptureKeeps DEF Shape, Publishing
<1>5. CASE ContentOf[artLock.w] \notin artDisk.objects
  <2>1. artDisk' = [artDisk EXCEPT !.objects = @ \cup {ContentOf[artLock.w]}] /\ GoTo("linked", {})
    BY <1>5 DEF Link
  <2>2. LockBecomes(artLock.proc, "finalize", artLock.w, "linked", {})
    BY <1>1, <1>2, <2>1, LockMoves
  <2>3. /\ DOMAIN artDisk' = DiskFields /\ SameRecords
        /\ artDisk'.objects = artDisk.objects \cup {ContentOf[artLock.w]}
        /\ artDisk'.leases = artDisk.leases /\ artDisk'.limit = artDisk.limit
        /\ artDisk'.staging = artDisk.staging
    BY <1>3, <2>1 DEF DiskFields, SameRecords
  <2>4. Past' /\ Backed' /\ Apart'
    BY <1>2, <2>3, RecordsKept DEF WritersGoOn
  <2>5. \A v \in artDisk.records \cup artDisk.quarantine : ContentOf[v] # ContentOf[artLock.w]
    BY <1>1, <1>5 DEF Backed
  <2>6. Fresh'
    BY <2>2, <2>3, <2>5 DEF Fresh, LockBecomes, SameRecords
  <2> QED BY <1>1, <1>2, <1>3, <2>2, <2>3, <2>4, <2>6, CaptureKeeps DEF SameRecords, Shape, Publishing
<1> QED BY <1>4, <1>5

LEMMA RemoveKeeps ==
    ASSUME ArtIInv, RemoveStaging
    PROVE  ArtIInv'
<1>1. Shape /\ Held /\ Backed /\ Fresh
  BY DEF ArtIInv
<1>2. artLock.op = "finalize" /\ artLock.pc \in {"linked", "duplicate"} /\ UNCHANGED <<artConf, artWriter>>
  BY DEF RemoveStaging
<1>3. /\ artLock.w \in Writers /\ artWriter[artLock.w] = "open" /\ artLock.w \notin artDisk.leases
      /\ \A v \in artDisk.leases : v \in Writers /\ artDisk.staging[v] # Absent
      /\ DOMAIN artDisk = DiskFields /\ artDisk.staging \in [Writers -> Nat \cup {Absent}]
  BY <1>2, Capturing
<1> DEFINE d == [artDisk EXCEPT !.staging[artLock.w] = Absent]
<1>4. /\ DOMAIN d = DiskFields /\ d.objects = artDisk.objects /\ d.leases = artDisk.leases
      /\ d.records = artDisk.records /\ d.quarantine = artDisk.quarantine
      /\ d.purging = artDisk.purging /\ d.expired = artDisk.expired /\ d.limit = artDisk.limit
      /\ d.staging = [artDisk.staging EXCEPT ![artLock.w] = Absent]
  BY <1>3 DEF DiskFields
<1>5. artDisk' = Reconciled(d) \/ artDisk' = d
  BY DEF RemoveStaging
<1> HIDE DEF d
<1>6. /\ DOMAIN artDisk' = DiskFields /\ SameRecords /\ artDisk'.objects = artDisk.objects
      /\ artDisk'.leases = artDisk.leases /\ artDisk'.limit = artDisk.limit
      /\ \/ artDisk'.staging = d.staging
         \/ artDisk'.staging = [v \in Writers |-> IF v \in d.leases THEN d.staging[v] ELSE Absent]
  <2>1. CASE artDisk' = d
    BY <1>4, <2>1 DEF SameRecords
  <2>2. CASE artDisk' = Reconciled(d)
    BY <1>4, <2>2, ReconciledFields DEF SameRecords
  <2> QED BY <1>5, <2>1, <2>2
<1>7. d.staging \in [Writers -> Nat \cup {Absent}] /\ \A v \in artDisk.leases : d.staging[v] # Absent
  BY <1>3, <1>4
<1>8. artDisk'.staging \in [Writers -> Nat \cup {Absent}]
      /\ \A v \in artDisk'.leases : artDisk'.staging[v] # Absent
  BY <1>3, <1>4, <1>6, <1>7
<1>9. DOMAIN artLock' = LockFields /\ artLock'.op = artLock.op
      /\ artLock'.pc = (IF artLock.pc = "linked" THEN "record" ELSE "recordShared")
      /\ artLock'.w = artLock.w /\ artLock'.proc = artLock.proc /\ artLock'.todo = artLock.todo
  BY <1>1 DEF LockFields, Shape, RemoveStaging
<1>10. Past' /\ Backed' /\ Apart'
  BY <1>2, <1>6, RecordsKept DEF WritersGoOn
<1>11. Fresh'
  BY <1>1, <1>2, <1>6, <1>9 DEF Fresh, SameRecords
<1>12. PICK pc \in {"record", "recordShared"} :
          LockBecomes(artLock.proc, "finalize", artLock.w, pc, artLock.todo)
  BY <1>2, <1>9 DEF LockBecomes
<1> QED BY <1>1, <1>2, <1>3, <1>6, <1>8, <1>10, <1>11, <1>12, CaptureKeeps DEF SameRecords, Shape, Publishing

\* The record appears, or the capture that made the object takes it back.
LEMMA RecordKeeps ==
    ASSUME ArtIInv, WriteRecord
    PROVE  ArtIInv'
<1>1. Shape /\ Held /\ Backed /\ Apart /\ Past /\ Fresh
  BY DEF ArtIInv
<1>2. artLock.op = "finalize" /\ artLock.pc \in {"record", "recordShared"} /\ UNCHANGED artConf /\ Release
  BY DEF WriteRecord
<1>3. /\ artLock.w \in Writers /\ artWriter[artLock.w] = "open" /\ artLock.w \notin artDisk.leases
      /\ \A v \in artDisk.leases : v \in Writers /\ artDisk.staging[v] # Absent
      /\ DOMAIN artDisk = DiskFields /\ artDisk.staging \in [Writers -> Nat \cup {Absent}]
      /\ artLock.w \notin artDisk.purging
  BY <1>2, Capturing
<1>4. LockBecomes(NoProc, "none", 0, "none", {})
  BY <1>1, <1>2, LockMoves
<1>5. PICK s \in {"drop", "over"} : artWriter' = [artWriter EXCEPT ![artLock.w] = s]
  BY DEF WriteRecord, Becomes
<1>6. artWriter \in [Writers -> {"new", "open", "drop", "over"}]
  BY <1>1 DEF Shape
<1>7. artWriter' \in [Writers -> {"new", "open", "drop", "over"}]
      /\ \A v \in Writers : artWriter'[v] = IF v = artLock.w THEN s ELSE artWriter[v]
  BY <1>3, <1>5, <1>6
<1>8. artWriter'[artLock.w] # "open" /\ \A v \in Writers \ {artLock.w} : artWriter'[v] = artWriter[v]
  BY <1>3, <1>7
<1>9. Fresh'
  BY <1>4 DEF Fresh, LockBecomes
<1>10. CASE artDisk' = [artDisk EXCEPT !.records = @ \cup {artLock.w}]
  <2>1. /\ DOMAIN artDisk' = DiskFields /\ artDisk'.objects = artDisk.objects
        /\ artDisk'.records = artDisk.records \cup {artLock.w} /\ artDisk'.quarantine = artDisk.quarantine
        /\ artDisk'.purging = artDisk.purging /\ artDisk'.expired = artDisk.expired
        /\ artDisk'.leases = artDisk.leases /\ artDisk'.limit = artDisk.limit
        /\ artDisk'.staging = artDisk.staging
    BY <1>3, <1>10 DEF DiskFields
  <2>2. Past'
    BY <1>1, <1>3, <1>7, <2>1 DEF Past, Shape
  <2>3. ContentOf[artLock.w] \in artDisk.objects
    BY <1>1, <1>2 DEF Fresh
  <2>4. Backed' /\ Apart'
    BY <1>1, <1>3, <2>1, <2>3 DEF Backed, Apart
  <2>5. /\ artDisk'.records \subseteq Writers /\ artDisk'.quarantine \subseteq Writers
        /\ artDisk'.purging \subseteq Writers /\ artDisk'.expired \subseteq Writers
    BY <1>1, <1>3, <2>1 DEF Shape
  <2> QED BY <1>2, <1>3, <1>4, <1>7, <1>8, <1>9, <2>1, <2>2, <2>4, <2>5, CaptureKeeps
<1>11. CASE artDisk' = Rollback(artDisk, artLock.w, artLock.pc)
  <2> DEFINE d == [artDisk EXCEPT !.objects = @ \ {ContentOf[artLock.w]}]
  <2>1. /\ DOMAIN d = DiskFields /\ d.objects = artDisk.objects \ {ContentOf[artLock.w]}
        /\ d.leases = artDisk.leases
        /\ d.records = artDisk.records /\ d.quarantine = artDisk.quarantine
        /\ d.purging = artDisk.purging /\ d.expired = artDisk.expired /\ d.limit = artDisk.limit
        /\ d.staging = artDisk.staging
    BY <1>3 DEF DiskFields
  <2>2. \/ artDisk' = Reconciled(d) /\ artLock.pc = "record"
        \/ artDisk' = artDisk
    BY <1>11 DEF Rollback
  <2> HIDE DEF d
  <2>3. /\ DOMAIN artDisk' = DiskFields /\ SameRecords
        /\ artDisk'.leases = artDisk.leases /\ artDisk'.limit = artDisk.limit
        /\ \/ artDisk'.staging = artDisk.staging
           \/ artDisk'.staging = [v \in Writers |-> IF v \in d.leases THEN d.staging[v] ELSE Absent]
        /\ \/ artDisk'.objects = artDisk.objects
           \/ artDisk'.objects = artDisk.objects \ {ContentOf[artLock.w]} /\ artLock.pc = "record"
    BY <1>3, <2>1, <2>2, ReconciledFields DEF SameRecords
  <2>4. artDisk'.staging \in [Writers -> Nat \cup {Absent}]
        /\ \A v \in artDisk'.leases : artDisk'.staging[v] # Absent
    BY <1>3, <2>1, <2>3
  <2>5. Backed'
    BY <1>1, <2>3 DEF Backed, Fresh, SameRecords
  <2>6. Past' /\ Apart'
    BY <1>1, <1>7, <2>3 DEF Past, Apart, SameRecords, Shape
  <2>7. /\ artDisk'.records \subseteq Writers /\ artDisk'.quarantine \subseteq Writers
        /\ artDisk'.purging \subseteq Writers /\ artDisk'.expired \subseteq Writers
    BY <1>1, <2>3 DEF Shape, SameRecords
  <2> QED BY <1>2, <1>3, <1>4, <1>7, <1>8, <1>9, <2>3, <2>4, <2>5, <2>6, <2>7, CaptureKeeps
<1> QED BY <1>10, <1>11 DEF WriteRecord

LEMMA DiscardKeeps ==
    ASSUME ArtIInv, Discard
    PROVE  ArtIInv'
<1>1. Shape /\ Held
  BY DEF ArtIInv
<1>2. artLock.op = "drop" /\ UNCHANGED artConf /\ Release /\ Becomes(artLock.w, "over")
  BY DEF Discard, At
<1>3. /\ artLock.w \in Writers
      /\ \A v \in artDisk.leases : v \in Writers /\ artDisk.staging[v] # Absent
      /\ DOMAIN artDisk = DiskFields /\ artDisk.staging \in [Writers -> Nat \cup {Absent}]
  BY <1>2, Capturing
<1> DEFINE d == [artDisk EXCEPT !.leases = @ \ {artLock.w}, !.staging[artLock.w] = Absent]
<1>4. /\ DOMAIN d = DiskFields /\ d.objects = artDisk.objects
      /\ d.leases = artDisk.leases \ {artLock.w}
      /\ d.records = artDisk.records /\ d.quarantine = artDisk.quarantine
      /\ d.purging = artDisk.purging /\ d.expired = artDisk.expired /\ d.limit = artDisk.limit
      /\ d.staging = [artDisk.staging EXCEPT ![artLock.w] = Absent]
  BY <1>3 DEF DiskFields
<1>5. artDisk' = Reconciled(d)
  BY DEF Discard
<1> HIDE DEF d
<1>6. /\ DOMAIN artDisk' = DiskFields /\ SameRecords /\ artDisk'.objects = artDisk.objects
      /\ artDisk'.leases = artDisk.leases \ {artLock.w} /\ artDisk'.limit = artDisk.limit
      /\ artDisk'.staging = [v \in Writers |-> IF v \in d.leases THEN d.staging[v] ELSE Absent]
  BY <1>4, <1>5, ReconciledFields DEF SameRecords
<1>7. d.staging \in [Writers -> Nat \cup {Absent}] /\ \A v \in d.leases : d.staging[v] # Absent
  BY <1>3, <1>4
<1>8. artDisk'.staging \in [Writers -> Nat \cup {Absent}]
      /\ \A v \in artDisk'.leases : artDisk'.staging[v] # Absent
  BY <1>3, <1>4, <1>6, <1>7
<1>9. LockBecomes(NoProc, "none", 0, "none", {})
  BY <1>1, <1>2, LockMoves
<1>10. artWriter' \in [Writers -> {"new", "open", "drop", "over"}]
       /\ \A v \in Writers : artWriter'[v] = IF v = artLock.w THEN "over" ELSE artWriter[v]
  BY <1>1, <1>2, <1>3 DEF Becomes, Shape
<1>11. Past' /\ Backed' /\ Apart'
  BY <1>6, <1>10, RecordsKept DEF WritersGoOn
<1>12. Fresh'
  BY <1>9 DEF Fresh, LockBecomes
<1> QED BY <1>1, <1>2, <1>3, <1>6, <1>8, <1>9, <1>10, <1>11, <1>12, CaptureKeeps DEF SameRecords, Shape

-----------------------------------------------------------------------------
\* A crash takes the leases and the lock of the server with it, and nothing else.
LEMMA CrashKeeps ==
    ASSUME ArtIInv, NEW p \in ArtProcs, ArtCrash(p)
    PROVE  ArtIInv'
<1> DEFINE own == { w \in Writers : OwnerOf[w] = p }
           d == [artDisk EXCEPT !.leases = @ \ own]
<1>1. Shape /\ Held /\ Fresh /\ Sweeping /\ Leased /\ Limited
  BY DEF ArtIInv
<1>2. DOMAIN artDisk = DiskFields
  BY <1>1 DEF Shape
<1>3. /\ DOMAIN d = DiskFields /\ d.objects = artDisk.objects /\ d.leases = artDisk.leases \ own
      /\ d.records = artDisk.records /\ d.quarantine = artDisk.quarantine
      /\ d.purging = artDisk.purging /\ d.expired = artDisk.expired /\ d.limit = artDisk.limit
      /\ d.staging = artDisk.staging
  BY <1>2 DEF DiskFields
<1>4. /\ artDisk' = d \/ artDisk' = [d EXCEPT !.ledger = Torn]
      /\ artWriter' = [w \in Writers |-> IF w \in own /\ artWriter[w] # "new" THEN "over" ELSE artWriter[w]]
      /\ artLock' = IF artLock.proc = p THEN Free ELSE artLock
      /\ artConf' = [artConf EXCEPT ![p] = Down]
  BY DEF ArtCrash
<1> HIDE DEF d
<1>5. /\ DOMAIN artDisk' = DiskFields /\ SameRecords /\ artDisk'.objects = artDisk.objects
      /\ artDisk'.leases = artDisk.leases \ own /\ artDisk'.limit = artDisk.limit
      /\ artDisk'.staging = artDisk.staging
  <2>1. CASE artDisk' = d
    BY <1>3, <2>1 DEF SameRecords
  <2>2. CASE artDisk' = [d EXCEPT !.ledger = Torn]
    BY <1>3, <2>2 DEF SameRecords, DiskFields
  <2> QED BY <1>4, <2>1, <2>2
<1>6. /\ artWriter \in [Writers -> {"new", "open", "drop", "over"}]
      /\ artConf \in [ArtProcs -> Limits \cup {Down}]
  BY <1>1 DEF Shape
<1>7. /\ artWriter' \in [Writers -> {"new", "open", "drop", "over"}]
      /\ artConf' \in [ArtProcs -> Limits \cup {Down}]
      /\ \A w \in Writers : OwnerOf[w] # p => artWriter'[w] = artWriter[w]
      /\ \A w \in Writers : OwnerOf[w] = p => artWriter'[w] # "open"
      /\ \A w \in Writers : artWriter'[w] \in {artWriter[w], "over"}
      /\ \A q \in ArtProcs \ {p} : artConf'[q] = artConf[q]
  BY <1>4, <1>6
<1>8. Past' /\ Backed' /\ Apart'
  <2>1. WritersGoOn
    BY <1>7 DEF WritersGoOn
  <2> QED BY <1>5, <2>1, RecordsKept
<1>9. \A w \in Writers : OwnerOf[w] \in ArtProcs
  BY ArtConstants
<1>10. CASE artLock.proc = p
  <2>1. LockBecomes(NoProc, "none", 0, "none", {})
    BY <1>4, <1>10 DEF LockBecomes, LockFields, Free
  <2>2. Shape'
    BY <1>1, <1>5, <1>7, <2>1 DEF Shape, SameRecords, LockBecomes, Staged
  <2>3. Held'
    BY <2>1 DEF Held, LockBecomes, Sweep, Publishing
  <2>4. Fresh' /\ Sweeping'
    BY <2>1 DEF Fresh, Sweeping, LockBecomes
  <2>5. Leased'
    <3>1. ASSUME NEW w \in Writers, artWriter'[w] = "open"
          PROVE  w \in artDisk'.leases
      <4>1. OwnerOf[w] # p /\ artWriter[w] = "open"
        BY <1>7, <3>1
      <4>2. w \in artDisk.leases
        BY <1>1, <1>10, <4>1 DEF Leased, LeaseRespected, Held
      <4> QED BY <1>5, <4>1, <4>2
    <3> QED BY <2>1, <3>1 DEF Leased, LeaseRespected, LockBecomes, Publishing
  <2>6. Limited'
    <3>1. ASSUME NEW w \in Writers, artWriter'[w] = "open"
          PROVE  artConf'[OwnerOf[w]] = artDisk'.limit
      BY <1>1, <1>5, <1>7, <1>9, <3>1 DEF Limited, OneLimit
    <3> QED BY <2>1, <3>1 DEF Limited, OneLimit, LockBecomes, Sweep
  <2> QED BY <1>8, <2>2, <2>3, <2>4, <2>5, <2>6 DEF ArtIInv
<1>11. CASE artLock.proc # p
  <2>1. artLock' = artLock
    BY <1>4, <1>11
  <2>2. Shape'
    BY <1>1, <1>5, <1>7, <2>1 DEF Shape, SameRecords, Staged
  <2>3. artLock.op \in {"create", "write", "finalize", "drop"} => artWriter'[artLock.w] = artWriter[artLock.w]
    BY <1>1, <1>7, <1>11 DEF Held
  <2>4. artLock.op # "none" => artConf'[artLock.proc] = artConf[artLock.proc]
    BY <1>1, <1>7, <1>11 DEF Held
  <2>5. Held'
    BY <1>1, <2>1, <2>3, <2>4 DEF Held
  <2>6. Fresh' /\ Sweeping'
    BY <1>1, <1>5, <2>1 DEF Fresh, Sweeping, SameRecords
  <2>7. Leased'
    <3>1. ASSUME NEW w \in Writers, artWriter'[w] = "open"
          PROVE  w \in artDisk'.leases \/ (artLock'.w = w /\ artLock'.op \in {"finalize", "drop"})
      <4>1. OwnerOf[w] # p /\ artWriter[w] = "open"
        BY <1>7, <3>1
      <4>2. LeaseRespected
        BY <1>1 DEF Leased
      <4>3. w \in artDisk.leases \/ (artLock.w = w /\ artLock.op \in {"finalize", "drop"})
        BY <4>1, <4>2 DEF LeaseRespected
      <4>4. w \in artDisk.leases => w \in artDisk'.leases
        BY <1>5, <4>1
      <4> QED BY <2>1, <4>3, <4>4
    <3>2. artLock'.pc \in Publishing \ {"unlock"} => artLock'.w \notin artDisk'.leases
      BY <1>1, <1>5, <2>1 DEF Leased
    <3> QED BY <3>1, <3>2 DEF Leased, LeaseRespected
  <2>8. Limited'
    <3>1. ASSUME NEW w \in Writers, artWriter'[w] = "open"
          PROVE  artConf'[OwnerOf[w]] = artDisk'.limit
      BY <1>1, <1>5, <1>7, <1>9, <3>1 DEF Limited, OneLimit
    <3>2. artLock'.pc \in Sweep \ {"limit"} => artConf'[artLock'.proc] = artDisk'.limit
      BY <1>1, <1>5, <2>1, <2>4 DEF Limited, Held
    <3> QED BY <3>1, <3>2 DEF Limited, OneLimit
  <2> QED BY <1>8, <2>2, <2>5, <2>6, <2>7, <2>8 DEF ArtIInv
<1> QED BY <1>10, <1>11

\* A server starts with any limit: no capture of its own is running.
LEMMA StartKeeps ==
    ASSUME ArtIInv, NEW p \in ArtProcs, ArtStart(p)
    PROVE  ArtIInv'
<1>1. Shape /\ Held /\ Fresh /\ Sweeping /\ Leased /\ Limited
  BY DEF ArtIInv
<1>2. PICK l \in Limits : artConf' = [artConf EXCEPT ![p] = l]
  BY DEF ArtStart
<1>3. artConf[p] = Down /\ UNCHANGED <<artDisk, artLock, artWriter>>
  BY DEF ArtStart
<1>4. artConf \in [ArtProcs -> Limits \cup {Down}]
  BY <1>1 DEF Shape
<1>5. artConf' \in [ArtProcs -> Limits \cup {Down}] /\ \A q \in ArtProcs \ {p} : artConf'[q] = artConf[q]
  BY <1>2, <1>4
<1>6. artDisk.limit # Down
  BY <1>1, ArtConstants DEF Shape, Down, Absent
<1>7. Past' /\ Backed' /\ Apart'
  BY <1>3, RecordsKept DEF SameRecords, WritersGoOn
<1>8. Shape'
  BY <1>1, <1>3, <1>5 DEF Shape, Staged
<1>9. artLock.op # "none" => artConf'[artLock.proc] = artConf[artLock.proc]
  BY <1>1, <1>3, <1>5 DEF Held
<1>10. Held' /\ Fresh' /\ Sweeping' /\ Leased'
  BY <1>1, <1>3, <1>9 DEF Held, Fresh, Sweeping, Leased, LeaseRespected
<1>11. Limited'
  <2>1. ASSUME NEW w \in Writers, artWriter'[w] = "open"
        PROVE  artConf'[OwnerOf[w]] = artDisk'.limit
    BY <1>1, <1>3, <1>5, <1>6, <2>1, ArtConstants DEF Limited, OneLimit
  <2>2. artLock'.pc \in Sweep \ {"limit"} => artConf'[artLock'.proc] = artDisk'.limit
    BY <1>1, <1>3, <1>9 DEF Limited, Held
  <2> QED BY <2>1, <2>2 DEF Limited, OneLimit
<1> QED BY <1>7, <1>8, <1>10, <1>11 DEF ArtIInv

\* Time passes.
LEMMA TimeKeeps ==
    ASSUME ArtIInv, NEW w \in Writers, Expire(w) \/ Age(w)
    PROVE  ArtIInv'
<1>1. Shape /\ Held /\ Past /\ Backed /\ Apart /\ Fresh /\ Sweeping /\ Leased /\ Limited
  BY DEF ArtIInv
<1>2. UNCHANGED <<artLock, artWriter, artConf>> /\ DOMAIN artDisk = DiskFields
  BY <1>1 DEF Expire, Age, Shape
<1>3. /\ DOMAIN artDisk' = DiskFields /\ artDisk'.objects = artDisk.objects
      /\ artDisk'.leases = artDisk.leases
      /\ artDisk'.records = artDisk.records /\ artDisk'.quarantine = artDisk.quarantine
      /\ artDisk'.purging = artDisk.purging /\ artDisk'.limit = artDisk.limit
      /\ artDisk'.staging = artDisk.staging
      /\ \/ artDisk'.expired = artDisk.expired
         \/ artDisk'.expired = artDisk.expired \cup {w} /\ w \in artDisk.records
  <2>1. CASE Expire(w)
    <3>1. artDisk' = [artDisk EXCEPT !.expired = @ \cup {w}] /\ w \in artDisk.records
      BY <2>1 DEF Expire
    <3> QED BY <1>2, <3>1 DEF DiskFields
  <2>2. CASE Age(w)
    <3>1. artDisk' = [artDisk EXCEPT !.aged = @ \cup {w}]
      BY <2>2 DEF Age
    <3>2. /\ DOMAIN artDisk' = DiskFields /\ artDisk'.objects = artDisk.objects
          /\ artDisk'.leases = artDisk.leases /\ artDisk'.expired = artDisk.expired
          /\ artDisk'.records = artDisk.records /\ artDisk'.quarantine = artDisk.quarantine
          /\ artDisk'.purging = artDisk.purging /\ artDisk'.limit = artDisk.limit
          /\ artDisk'.staging = artDisk.staging
      BY <1>2, <3>1 DEF DiskFields
    <3> QED BY <3>2
  <2> QED BY <2>1, <2>2
<1>4. Shape'
  BY <1>1, <1>2, <1>3 DEF Shape, Staged
<1>5. Past' /\ Backed' /\ Apart'
  BY <1>1, <1>2, <1>3 DEF Past, Backed, Apart
<1>6. Held' /\ Fresh' /\ Sweeping'
  BY <1>1, <1>2, <1>3 DEF Held, Fresh, Sweeping
<1>7. Leased' /\ Limited'
  BY <1>1, <1>2, <1>3 DEF Leased, Limited, LeaseRespected, OneLimit
<1> QED BY <1>4, <1>5, <1>6, <1>7 DEF ArtIInv

LEMMA ArtInitHolds ==
    ASSUME ArtInit
    PROVE  ArtIInv
<1>1. /\ DOMAIN artDisk = DiskFields /\ artDisk.leases = {} /\ artDisk.records = {}
      /\ artDisk.quarantine = {} /\ artDisk.purging = {} /\ artDisk.expired = {}
      /\ artDisk.staging = [w \in Writers |-> Absent] /\ artDisk.limit = Absent
  BY DEF ArtInit, DiskFields
<1>2. DOMAIN artLock = LockFields /\ artLock.op = "none" /\ artLock.pc = "none" /\ artLock.todo = {}
  BY DEF ArtInit, Free, LockFields
<1>3. Shape
  BY <1>1, <1>2 DEF ArtInit, Shape
<1>4. Held /\ Past /\ Backed /\ Apart /\ Fresh /\ Sweeping
  BY <1>1, <1>2 DEF Held, Past, Backed, Apart, Fresh, Sweeping, Sweep, Publishing
<1>5. Leased /\ Limited
  BY <1>1, <1>2 DEF ArtInit, Leased, Limited, LeaseRespected, OneLimit, Sweep, Publishing
<1> QED BY <1>3, <1>4, <1>5 DEF ArtIInv

LEMMA ArtInductive ==
    ASSUME ArtIInv, [ArtNext]_artVars
    PROVE  ArtIInv'
<1>1. CASE LockedStep
  BY <1>1, EnsureLimitKeeps, ExpireKeeps, AgeKeeps, PurgeIntentKeeps, OrphanKeeps, StageKeeps, ReserveKeeps,
     AppendKeeps, UnlockKeeps, LinkKeeps, RemoveKeeps, RecordKeeps, DiscardKeeps DEF LockedStep
<1>2. ASSUME NEW p \in ArtProcs, Cleanup(p) \/ ArtCrash(p) \/ ArtStart(p)
      PROVE  ArtIInv'
  BY <1>2, CleanupKeeps, CrashKeeps, StartKeeps
<1>3. ASSUME NEW w \in Writers, \/ Create(w) \/ WriteChunk(w) \/ Finalize(w) \/ DropWriter(w)
                                \/ Expire(w) \/ Age(w)
      PROVE  ArtIInv'
  BY <1>3, CallsKeep, TimeKeeps
<1>4. CASE UNCHANGED artVars
  BY <1>4 DEF artVars, ArtIInv, Shape, Held, Past, Backed, Apart, Fresh, Sweeping, Leased, Limited,
              LeaseRespected, OneLimit, Staged
<1> QED BY <1>1, <1>2, <1>3, <1>4 DEF ArtNext

THEOREM ArtInvariant == ArtSpec => []ArtIInv
<1>1. ArtInit => ArtIInv
  BY ArtInitHolds
<1>2. ArtIInv /\ [ArtNext]_artVars => ArtIInv'
  BY ArtInductive
<1> QED BY <1>1, <1>2, PTL DEF ArtSpec

-----------------------------------------------------------------------------
(* The store implements Retention. *)

Shelf == [w \in Writers |-> IF Published(artDisk, w) THEN "readable"
                            ELSE IF w \in artDisk.expired THEN "withdrawn" ELSE "unborn"]

\* Which records are there and which have expired is all the shelf depends on.
LEMMA ShelfIs ==
    ASSUME ArtIInv
    PROVE  Shelf = [w \in Writers |-> IF w \in artDisk.records THEN "readable"
                                      ELSE IF w \in artDisk.expired THEN "withdrawn" ELSE "unborn"]
<1>1. \A w \in Writers : Published(artDisk, w) <=> w \in artDisk.records
  BY DEF ArtIInv, Backed, Published
<1> QED BY <1>1 DEF Shelf

\* What a step may do to the records.
Publishes(w) == /\ w \in Writers /\ w \notin artDisk.records \cup artDisk.expired
                /\ artDisk'.records = artDisk.records \cup {w} /\ artDisk'.expired = artDisk.expired
Lapses(w) == /\ w \in Writers /\ w \in artDisk.records
             /\ artDisk'.records = artDisk.records /\ artDisk'.expired = artDisk.expired \cup {w}
Withdraws(w) == /\ w \in Writers /\ w \in artDisk.records \cap artDisk.expired
                /\ artDisk'.records = artDisk.records \ {w} /\ artDisk'.expired = artDisk.expired
KeepsShelf == artDisk'.records = artDisk.records /\ artDisk'.expired = artDisk.expired

LEMMA ShelfSteps ==
    ASSUME ArtIInv, [ArtNext]_artVars
    PROVE  KeepsShelf \/ \E w \in Writers : Publishes(w) \/ Lapses(w) \/ Withdraws(w)
<1>1. Shape /\ DOMAIN artDisk = DiskFields /\ artLock.todo \subseteq Writers
  BY DEF ArtIInv, Shape
<1>2. UNCHANGED artDisk => KeepsShelf
  BY DEF KeepsShelf
<1>3. CASE EnsureLimit
  BY <1>1, <1>3 DEF EnsureLimit, KeepsShelf, DiskFields
<1>4. CASE ExpireStep
  <2>1. CASE UNCHANGED artDisk
    BY <2>1 DEF KeepsShelf
  <2>2. CASE artLock.todo # {} /\ Head1 \in artDisk.expired /\ artDisk' = Quarantine(artDisk, Head1)
    <3>1. Head1 \in artLock.todo
      BY <1>1, <2>2, ArtConstants, LeastOfSet DEF Head1
    <3>2. Head1 \in artDisk.records /\ Head1 \in Writers
      BY <1>1, <1>4, <3>1 DEF ExpireStep, ArtIInv, Sweeping
    <3>3. CASE artDisk' = [artDisk EXCEPT !.records = @ \ {Head1}]
      <4>1. Withdraws(Head1)
        BY <1>1, <2>2, <3>2, <3>3 DEF Withdraws, DiskFields
      <4> QED BY <3>2, <4>1
    <3>4. CASE artDisk' = [artDisk EXCEPT !.quarantine = @ \cup {Head1}]
      BY <1>1, <3>4 DEF KeepsShelf, DiskFields
    <3> QED BY <2>2, <3>3, <3>4 DEF Quarantine
  <2> QED BY <1>4, <2>1, <2>2 DEF ExpireStep
<1>5. ASSUME artLock.todo # {}, artDisk' = PurgeStep(artDisk, Head1)
      PROVE  KeepsShelf
  <2>1. Head1 \in Writers
    BY <1>1, <1>5, ArtConstants, LeastOfSet DEF Head1
  <2> QED BY <1>5, <2>1, PurgeStepDoes DEF Purged, KeepsShelf
<1>6. CASE AgeStep
  <2>1. CASE artDisk' = [artDisk EXCEPT !.quarantine = @ \ {Head1}]
    BY <1>1, <2>1 DEF KeepsShelf, DiskFields
  <2>2. CASE artDisk' = [artDisk EXCEPT !.quarantine = @ \ {Head1}, !.purging = @ \cup {Head1}]
    BY <1>1, <2>2 DEF KeepsShelf, DiskFields
  <2> QED BY <1>2, <1>5, <1>6, <2>1, <2>2 DEF AgeStep
<1>7. CASE PurgeIntentStep
  BY <1>2, <1>5, <1>7 DEF PurgeIntentStep
<1>8. CASE OrphanStep
  <2>1. ASSUME NEW c, artDisk' = [artDisk EXCEPT !.objects = @ \ {c}]
        PROVE  KeepsShelf
    BY <1>1, <2>1 DEF KeepsShelf, DiskFields
  <2>2. CASE artDisk' = Reconciled(artDisk)
    BY <1>1, <2>2, ReconciledFields DEF KeepsShelf
  <2> QED BY <1>8, <2>1, <2>2 DEF OrphanStep
<1>9. CASE StageStep
  BY <1>1, <1>9 DEF StageStep, KeepsShelf, DiskFields
<1>10. CASE Reserve
  <2> DEFINE d == Counted(artDisk)
  <2>1. Same(d)
    BY CountedSame
  <2>2. artDisk' = artDisk \/ artDisk' = d \/ artDisk' = [d EXCEPT !.ledger = @ + 1]
    BY <1>10 DEF Reserve
  <2> HIDE DEF d
  <2> QED BY <2>1, <2>2 DEF Same, KeepsShelf, DiskFields
<1>11. CASE Append1
  BY <1>1, <1>11 DEF Append1, KeepsShelf, DiskFields
<1>12. CASE UnlockStaging \/ Link
  BY <1>1, <1>12 DEF UnlockStaging, Link, KeepsShelf, DiskFields
<1>13. CASE RemoveStaging
  <2> DEFINE d == [artDisk EXCEPT !.staging[artLock.w] = Absent]
  <2>1. DOMAIN d = DiskFields /\ d.records = artDisk.records /\ d.expired = artDisk.expired
    BY <1>1 DEF DiskFields
  <2>2. artDisk' = d \/ artDisk' = Reconciled(d)
    BY <1>13 DEF RemoveStaging
  <2> HIDE DEF d
  <2>3. Reconciled(d).records = d.records /\ Reconciled(d).expired = d.expired
    BY <2>1, ReconciledFields
  <2> QED BY <2>1, <2>2, <2>3 DEF KeepsShelf
<1>14. CASE WriteRecord
  <2>1. artLock.w \in Writers /\ artLock.w \notin artDisk.records \cup artDisk.expired
    BY <1>14, Capturing DEF WriteRecord
  <2>2. CASE artDisk' = [artDisk EXCEPT !.records = @ \cup {artLock.w}]
    <3>1. Publishes(artLock.w)
      BY <1>1, <2>1, <2>2 DEF Publishes, DiskFields
    <3> QED BY <2>1, <3>1
  <2>3. CASE artDisk' = Rollback(artDisk, artLock.w, artLock.pc)
    <3> DEFINE d == [artDisk EXCEPT !.objects = @ \ {ContentOf[artLock.w]}]
    <3>1. DOMAIN d = DiskFields /\ d.records = artDisk.records /\ d.expired = artDisk.expired
      BY <1>1 DEF DiskFields
    <3>2. artDisk' = artDisk \/ artDisk' = Reconciled(d)
      BY <2>3 DEF Rollback
    <3> HIDE DEF d
    <3>3. Reconciled(d).records = d.records /\ Reconciled(d).expired = d.expired
      BY <3>1, ReconciledFields
    <3> QED BY <1>2, <3>1, <3>2, <3>3 DEF KeepsShelf
  <2> QED BY <1>14, <2>2, <2>3 DEF WriteRecord
<1>15. CASE Discard
  <2> DEFINE d == [artDisk EXCEPT !.leases = @ \ {artLock.w}, !.staging[artLock.w] = Absent]
  <2>1. DOMAIN d = DiskFields /\ d.records = artDisk.records /\ d.expired = artDisk.expired
    BY <1>1 DEF DiskFields
  <2>2. artDisk' = Reconciled(d)
    BY <1>15 DEF Discard
  <2> HIDE DEF d
  <2> QED BY <2>1, <2>2, ReconciledFields DEF KeepsShelf
<1>16. ASSUME NEW p \in ArtProcs, Cleanup(p) \/ ArtCrash(p) \/ ArtStart(p)
       PROVE  KeepsShelf
  <2>1. CASE ArtCrash(p)
    BY <1>1, <2>1 DEF ArtCrash, KeepsShelf, DiskFields
  <2> QED BY <1>2, <1>16, <2>1 DEF Cleanup, ArtStart
<1>17. ASSUME NEW w \in Writers, \/ Create(w) \/ WriteChunk(w) \/ Finalize(w) \/ DropWriter(w)
                                 \/ Expire(w) \/ Age(w)
       PROVE  KeepsShelf \/ Lapses(w)
  <2>1. CASE Expire(w)
    <3>1. artDisk' = [artDisk EXCEPT !.expired = @ \cup {w}] /\ w \in artDisk.records
      BY <2>1 DEF Expire
    <3> QED BY <1>1, <3>1 DEF Lapses, DiskFields
  <2>2. CASE Age(w)
    <3>1. artDisk' = [artDisk EXCEPT !.aged = @ \cup {w}]
      BY <2>2 DEF Age
    <3> QED BY <1>1, <3>1 DEF KeepsShelf, DiskFields
  <2> QED BY <1>2, <1>17, <2>1, <2>2 DEF Create, WriteChunk, Finalize, DropWriter
<1> QED BY <1>2, <1>3, <1>4, <1>6, <1>7, <1>8, <1>9, <1>10, <1>11, <1>12, <1>13, <1>14, <1>15, <1>16, <1>17
        DEF ArtNext, LockedStep, artVars

\* What was published can be read until its retention ends, and is withdrawn once:
\* every step publishes one artifact, ends or withdraws one, or changes nothing a reader sees.
THEOREM RetentionImplemented == ArtSpec => RetentionKept
<1>1. ASSUME ArtInit
      PROVE  Promise!Init
  <2>1. ArtIInv /\ artDisk.records = {} /\ artDisk.expired = {}
    BY <1>1, ArtInitHolds DEF ArtInit
  <2>2. Shelf = [w \in Writers |-> "unborn"]
    BY <2>1, ShelfIs
  <2> QED BY <2>1, <2>2 DEF Promise!Init, Shelf
<1>2. ASSUME ArtIInv, ArtIInv', [ArtNext]_artVars
      PROVE  [Promise!Next]_<<Shelf, artDisk.expired>>
  <2>1. Shelf = [w \in Writers |-> IF w \in artDisk.records THEN "readable"
                                   ELSE IF w \in artDisk.expired THEN "withdrawn" ELSE "unborn"]
    BY <1>2, ShelfIs
  <2>2. Shelf' = [w \in Writers |-> IF w \in artDisk'.records THEN "readable"
                                    ELSE IF w \in artDisk'.expired THEN "withdrawn" ELSE "unborn"]
    <3>1. \A w \in Writers : Published(artDisk', w) <=> w \in artDisk'.records
      BY <1>2 DEF ArtIInv, Backed, Published
    <3> QED BY <3>1 DEF Shelf
  <2>3. CASE KeepsShelf
    BY <2>1, <2>2, <2>3 DEF KeepsShelf
  <2>4. ASSUME NEW w \in Writers, Publishes(w)
        PROVE  Promise!Publish(w)
    <3>1. Shelf[w] = "unborn"
      BY <2>1, <2>4 DEF Publishes
    <3>2. Shelf' = [Shelf EXCEPT ![w] = "readable"]
      BY <2>1, <2>2, <2>4 DEF Publishes
    <3> QED BY <2>4, <3>1, <3>2 DEF Promise!Publish, Shelf, Publishes
  <2>5. ASSUME NEW w \in Writers, Lapses(w)
        PROVE  Promise!Lapse(w)
    <3>1. Shelf[w] = "readable" /\ Shelf' = Shelf
      BY <2>1, <2>2, <2>5 DEF Lapses
    <3> QED BY <2>5, <3>1 DEF Promise!Lapse, Shelf, Lapses
  <2>6. ASSUME NEW w \in Writers, Withdraws(w)
        PROVE  Promise!Withdraw(w)
    <3>1. Shelf[w] = "readable"
      BY <2>1, <2>6 DEF Withdraws
    <3>2. Shelf' = [Shelf EXCEPT ![w] = "withdrawn"]
      BY <2>1, <2>2, <2>6 DEF Withdraws
    <3> QED BY <2>6, <3>1, <3>2 DEF Promise!Withdraw, Shelf, Withdraws
  <2> QED BY <1>2, <2>3, <2>4, <2>5, <2>6, ShelfSteps DEF Promise!Next
<1>3. ArtIInv /\ ArtIInv' /\ [ArtNext]_artVars => [Promise!Next]_<<Shelf, artDisk.expired>>
  BY <1>2
<1> QED BY <1>1, <1>3, ArtInvariant, PTL DEF ArtSpec, RetentionKept, Promise!Spec, Shelf
-----------------------------------------------------------------------------
(* Sums over finite sets.  SumFunctionOnSet is a recursive function of the subsets: that *)
(* there is one, and what it returns, is shown by the smallest counterexample.           *)
Pick(s) == CHOOSE x \in s : TRUE
SumStep(f, g, s) == IF s = {} THEN 0 ELSE f[Pick(s)] + g[s \ {Pick(s)}]
Sums(f, S, g) == g = [s \in SUBSET S |-> SumStep(f, g, s)]

LEMMA SumIs ==
   ASSUME NEW f, NEW S
   PROVE SumFunctionOnSet(f, S) = (CHOOSE g : Sums(f, S, g))[S]
BY DEF SumFunctionOnSet, FoldFunctionOnSet, MapThenFoldSet, Sums, SumStep, Pick

\* A set of sets that holds every set all of whose smaller subsets it holds, holds them all.
LEMMA SmallestCounterexample ==
    ASSUME NEW S, IsFiniteSet(S), NEW G,
           \A T \in SUBSET S : (\A U \in SUBSET T : U # T => U \in G) => T \in G
    PROVE  \A T \in SUBSET S : T \in G
<1> SUFFICES ASSUME NEW T0 \in SUBSET S, T0 \notin G PROVE FALSE
  OBVIOUS
<1> DEFINE Bad == {T \in SUBSET S : T \notin G}
           C == {Cardinality(T) : T \in Bad}
<1>1. \A T \in SUBSET S : IsFiniteSet(T) /\ Cardinality(T) \in Nat
  BY FS_Subset, FS_CardinalityType
<1>2. C \subseteq Nat /\ C # {}
  BY <1>1
<1>3. PICK T \in Bad : \A U \in Bad : Cardinality(T) <= Cardinality(U)
  <2> HIDE DEF C
  <2>1. PICK x \in C : \A y \in C : x <= y
    BY <1>2, LeastExists
  <2> QED BY <2>1 DEF C
<1>4. ASSUME NEW U \in SUBSET T, U # T, U \notin G PROVE FALSE
  <2>1. Cardinality(U) < Cardinality(T) /\ U \in Bad
    BY <1>1, <1>4, FS_Subset
  <2> QED BY <1>1, <1>3, <2>1
<1> QED BY <1>3, <1>4

LEMMA SumsExist ==
    ASSUME NEW f, NEW S, IsFiniteSet(S)
    PROVE  \E g : Sums(f, S, g)
<1> DEFINE D(n) == {s \in SUBSET S : Cardinality(s) <= n}
           Good(n, g) == g = [s \in D(n) |-> SumStep(f, g, s)]
           Bad == {n \in Nat : ~ \E g : Good(n, g)}
<1>1. \A s \in SUBSET S : IsFiniteSet(s) /\ Cardinality(s) \in Nat
  BY FS_Subset, FS_CardinalityType
<1>2. \A s \in SUBSET S : s # {} => /\ s \ {Pick(s)} \in SUBSET S
                                    /\ Cardinality(s \ {Pick(s)}) = Cardinality(s) - 1
  BY <1>1, FS_RemoveElement DEF Pick
<1>3. \A s \in SUBSET S : Cardinality(s) <= 0 => s = {}
  BY <1>1, FS_EmptySet
<1>4. Good(0, [s \in D(0) |-> 0])
  BY <1>3 DEF SumStep
<1>5. ASSUME NEW n \in Nat, NEW g, Good(n, g)
      PROVE  \E h : Good(n + 1, h)
  <2> DEFINE h == [s \in D(n + 1) |-> SumStep(f, g, s)]
  <2>1. \A s \in D(n) : s \in D(n + 1) /\ h[s] = g[s]
    BY <1>1, <1>5
  <2>2. \A s \in D(n + 1) : s # {} => s \ {Pick(s)} \in D(n)
    BY <1>1, <1>2
  <2>3. \A s \in D(n + 1) : SumStep(f, g, s) = SumStep(f, h, s)
    BY <2>1, <2>2 DEF SumStep
  <2>4. h = [s \in D(n + 1) |-> SumStep(f, h, s)]
    BY <2>3
  <2> QED BY <2>4
<1> HIDE DEF Good
<1>6. Bad = {}
  <2> SUFFICES ASSUME Bad # {} PROVE FALSE
    OBVIOUS
  <2>1. PICK n \in Bad : \A m \in Bad : n <= m
    BY LeastExists
  <2>2. n \in Nat /\ n # 0
    BY <1>4, <2>1
  <2>3. n - 1 \in Nat /\ n - 1 \notin Bad
    BY <2>1, <2>2
  <2>4. PICK g : Good(n - 1, g)
    BY <2>3
  <2>5. (n - 1) + 1 = n
    BY <2>2
  <2> QED BY <1>5, <2>1, <2>3, <2>4, <2>5
<1>7. PICK g : Good(Cardinality(S), g)
  BY <1>1, <1>6
<1>8. D(Cardinality(S)) = SUBSET S
  BY FS_Subset
<1> QED BY <1>7, <1>8 DEF Good, Sums

\* A function of subsets is what the sum says of each of them, whatever it was declared for.
LEMMA SumsAgree ==
    ASSUME NEW f, NEW S, IsFiniteSet(S), NEW T \in SUBSET S, NEW g, NEW h, Sums(f, S, g), Sums(f, T, h)
    PROVE  g[T] = h[T]
<1> DEFINE G == {s \in SUBSET T : g[s] = h[s]}
<1>1. IsFiniteSet(T)
  BY FS_Subset
<1>2. ASSUME NEW s \in SUBSET T, \A U \in SUBSET s : U # s => U \in G
      PROVE  s \in G
  <2>1. g[s] = SumStep(f, g, s) /\ h[s] = SumStep(f, h, s)
    BY DEF Sums
  <2>2. s # {} => s \ {Pick(s)} \in G
    BY <1>2 DEF Pick
  <2> QED BY <2>1, <2>2 DEF SumStep
<1>3. \A s \in SUBSET T : s \in G
  <2> HIDE DEF G
  <2> QED BY <1>1, <1>2, SmallestCounterexample
<1> QED BY <1>3

LEMMA SumUnfolds ==
    ASSUME NEW f, NEW S, IsFiniteSet(S)
    PROVE  SumFunctionOnSet(f, S) =
             IF S = {} THEN 0 ELSE f[Pick(S)] + SumFunctionOnSet(f, S \ {Pick(S)})
<1> DEFINE sum(T) == CHOOSE g : Sums(f, T, g)
<1>1. \A T : IsFiniteSet(T) => Sums(f, T, sum(T))
  BY SumsExist
<1>2. \A T : SumFunctionOnSet(f, T) = sum(T)[T]
  BY SumIs
<1> HIDE DEF sum
<1>3. sum(S)[S] = SumStep(f, sum(S), S)
  BY <1>1 DEF Sums
<1>4. CASE S # {}
  <2> DEFINE T == S \ {Pick(S)}
  <2>1. T \in SUBSET S /\ IsFiniteSet(T)
    BY FS_Subset
  <2>2. sum(S)[T] = sum(T)[T]
    BY <1>1, <2>1, SumsAgree
  <2> QED BY <1>2, <1>3, <1>4, <2>2 DEF SumStep
<1> QED BY <1>2, <1>3, <1>4 DEF SumStep

\* The order does not matter: any element may be taken first.
LEMMA SumTakesAny ==
    ASSUME NEW f, NEW S, IsFiniteSet(S), \A x \in S : f[x] \in Nat
    PROVE  /\ SumFunctionOnSet(f, S) \in Nat
           /\ \A x \in S : SumFunctionOnSet(f, S) = f[x] + SumFunctionOnSet(f, S \ {x})
<1> DEFINE sum(T) == SumFunctionOnSet(f, T)
           G == {T \in SUBSET S : sum(T) \in Nat /\ \A x \in T : sum(T) = f[x] + sum(T \ {x})}
<1>1. \A T \in SUBSET S : IsFiniteSet(T)
  BY FS_Subset
<1>2. \A T \in SUBSET S : sum(T) = IF T = {} THEN 0 ELSE f[Pick(T)] + sum(T \ {Pick(T)})
  BY <1>1, SumUnfolds
<1> HIDE DEF sum
<1>3. ASSUME NEW T \in SUBSET S, \A U \in SUBSET T : U # T => U \in G
      PROVE  T \in G
  <2>1. CASE T = {}
    BY <1>2, <2>1
  <2>2. CASE T # {}
    <3> DEFINE c == Pick(T)
    <3>1. c \in T
      BY <2>2 DEF Pick
    <3> HIDE DEF c
    <3>2. sum(T) = f[c] + sum(T \ {c}) /\ T \ {c} \in G /\ f[c] \in Nat
      BY <1>2, <1>3, <2>2, <3>1 DEF c
    <3>3. sum(T) \in Nat
      BY <3>2
    <3>4. ASSUME NEW x \in T, x # c
          PROVE  sum(T) = f[x] + sum(T \ {x})
      <4>1. T \ {x} \in G /\ f[x] \in Nat /\ c \in T \ {x} /\ x \in T \ {c}
        BY <1>3, <3>1, <3>4
      <4>2. (T \ {c}) \ {x} = (T \ {x}) \ {c}
        OBVIOUS
      <4>3. sum(T \ {c}) = f[x] + sum((T \ {c}) \ {x})
        BY <3>2, <4>1
      <4>4. sum(T \ {x}) = f[c] + sum((T \ {c}) \ {x})
        BY <4>1, <4>2
      <4>5. (T \ {c}) \ {x} \in G
        BY <1>3, <3>1
      <4>6. sum((T \ {c}) \ {x}) \in Nat
        BY <4>5
      <4> QED BY <3>2, <4>1, <4>3, <4>4, <4>6
    <3> QED BY <3>2, <3>3, <3>4
  <2> QED BY <2>1, <2>2
<1>4. \A T \in SUBSET S : T \in G
  <2> HIDE DEF G
  <2> QED BY <1>3, SmallestCounterexample
<1>5. S \in G
  BY <1>4
<1> QED BY <1>5 DEF sum

\* The sum depends on the values in the set only.
LEMMA SumSame ==
    ASSUME NEW f, NEW h, NEW S, IsFiniteSet(S), \A x \in S : f[x] = h[x]
    PROVE  SumFunctionOnSet(f, S) = SumFunctionOnSet(h, S)
<1> DEFINE fsum(T) == SumFunctionOnSet(f, T)
           hsum(T) == SumFunctionOnSet(h, T)
           G == {T \in SUBSET S : fsum(T) = hsum(T)}
<1>1. \A T \in SUBSET S : IsFiniteSet(T)
  BY FS_Subset
<1>2. \A T \in SUBSET S : /\ fsum(T) = (IF T = {} THEN 0 ELSE f[Pick(T)] + fsum(T \ {Pick(T)}))
                          /\ hsum(T) = (IF T = {} THEN 0 ELSE h[Pick(T)] + hsum(T \ {Pick(T)}))
  BY <1>1, SumUnfolds
<1> HIDE DEF fsum, hsum
<1>3. ASSUME NEW T \in SUBSET S, \A U \in SUBSET T : U # T => U \in G
      PROVE  T \in G
  <2>1. T # {} => Pick(T) \in T
    BY DEF Pick
  <2>2. T # {} => T \ {Pick(T)} \in G
    BY <1>3, <2>1
  <2> QED BY <1>2, <2>1, <2>2
<1>4. \A T \in SUBSET S : T \in G
  <2> HIDE DEF G
  <2> QED BY <1>3, SmallestCounterexample
<1> QED BY <1>4 DEF fsum, hsum

\* A subset has no larger sum.
LEMMA SumOfSubset ==
    ASSUME NEW f, NEW S, IsFiniteSet(S), \A x \in S : f[x] \in Nat, NEW T \in SUBSET S
    PROVE  SumFunctionOnSet(f, T) <= SumFunctionOnSet(f, S)
<1> DEFINE sum(U) == SumFunctionOnSet(f, U)
           G == {U \in SUBSET S : T \subseteq U => sum(T) <= sum(U)}
<1>1. \A U \in SUBSET S : IsFiniteSet(U)
  BY FS_Subset
<1>2. \A U \in SUBSET S : sum(U) \in Nat /\ \A x \in U : sum(U) = f[x] + sum(U \ {x})
  BY <1>1, SumTakesAny
<1> HIDE DEF sum
<1>3. ASSUME NEW U \in SUBSET S, \A V \in SUBSET U : V # U => V \in G
      PROVE  U \in G
  <2>1. CASE U = T
    BY <1>2, <2>1
  <2>2. ASSUME U # T, T \subseteq U PROVE sum(T) <= sum(U)
    <3>1. PICK x \in U : x \notin T
      BY <2>2
    <3>2. U \ {x} \in G /\ T \subseteq U \ {x} /\ f[x] \in Nat
      BY <1>3, <2>2, <3>1
    <3>3. sum(T) <= sum(U \ {x})
      BY <3>2
    <3>4. sum(U) = f[x] + sum(U \ {x}) /\ sum(U \ {x}) \in Nat /\ sum(T) \in Nat
      BY <1>2, <3>1
    <3> QED BY <3>2, <3>3, <3>4
  <2> QED BY <2>1, <2>2
<1>4. \A U \in SUBSET S : U \in G
  <2> HIDE DEF G
  <2> QED BY <1>3, SmallestCounterexample
<1> QED BY <1>4 DEF sum

-----------------------------------------------------------------------------
(* The quota.  Its invariant is kept apart from ArtIInv, on which it rests. *)

\* What the files of a store weigh can be added up.
Sized(d) ==
    /\ d.objects \subseteq Contents /\ IsFiniteSet(d.objects)
    /\ d.leases \subseteq Writers /\ IsFiniteSet(d.leases)
    /\ \A w \in d.leases : d.staging[w] \in Nat

Sizes == Sized(artDisk) /\ artDisk.ledger \in Nat \cup {Torn}

\* A chunk that was granted is in the ledger and within the limit before it is written.
Granted ==
    artLock.pc = "append" =>
        /\ artDisk.ledger # Torn /\ Usage(artDisk) + 1 <= artDisk.ledger
        /\ artDisk.limit > 0 => artDisk.ledger <= artDisk.limit

\* An object that is about to be linked takes the place of a staging file of its size.
Linking ==
    /\ artLock.pc = "unlock" => /\ artLock.w \in artDisk.leases
                                /\ artDisk.staging[artLock.w] = SizeOf[ContentOf[artLock.w]]
    /\ artLock.pc = "link" =>
        /\ artDisk.ledger # Torn =>
              Usage(artDisk) + SizeOf[ContentOf[artLock.w]] <= artDisk.ledger
        /\ artDisk.limit > 0 =>
              Usage(artDisk) + SizeOf[ContentOf[artLock.w]] <= artDisk.limit

\* The staging file of a capture that has not begun is empty.
Unstarted == \A w \in Writers : artWriter[w] = "new" => artDisk.staging[w] \in {Absent, 0}

\* A store whose limit nobody has set has published nothing.
Unlimited == artDisk.limit = Absent => artDisk.objects = {}

\* The sweep takes every purge intent.
Intents ==
    /\ artLock.pc = "purge" => artDisk.purging \subseteq artLock.todo
    /\ artLock.pc = "orphans" => artDisk.purging = {}

QuotaIInv ==
    /\ Sizes /\ LedgerCovers /\ QuotaKept /\ Granted /\ Linking
    /\ Unstarted /\ Unlimited /\ Intents

\* What the lemmas on sums say of a store.
LEMMA UsageIs ==
    ASSUME NEW d, Sized(d)
    PROVE  /\ Usage(d) = SumFunctionOnSet(SizeOf, d.objects) + SumFunctionOnSet(d.staging, d.leases)
           /\ SumFunctionOnSet(SizeOf, d.objects) \in Nat
           /\ SumFunctionOnSet(d.staging, d.leases) \in Nat
           /\ Usage(d) \in Nat
<1>1. Staged(d) \cap d.leases = d.leases
  BY DEF Staged, Sized, Absent
<1>2. \A c \in d.objects : SizeOf[c] \in Nat
  BY ArtConstants DEF Sized, Contents
<1>3. SumFunctionOnSet(SizeOf, d.objects) \in Nat
  BY <1>2, SumTakesAny DEF Sized
<1>4. SumFunctionOnSet(d.staging, d.leases) \in Nat
  BY SumTakesAny DEF Sized
<1> QED BY <1>1, <1>3, <1>4 DEF Usage

\* Fewer files weigh no more.
LEMMA UsageShrinks ==
    ASSUME NEW d, NEW e, Sized(d), e.objects \subseteq d.objects, e.leases \subseteq d.leases,
           \A w \in e.leases : e.staging[w] = d.staging[w]
    PROVE  /\ Sized(e) /\ Usage(e) <= Usage(d)
           /\ e.objects = d.objects /\ e.leases = d.leases => Usage(e) = Usage(d)
<1>1. Sized(e)
  BY FS_Subset DEF Sized
<1>2. \A c \in d.objects : SizeOf[c] \in Nat
  BY ArtConstants DEF Sized, Contents
<1>3. SumFunctionOnSet(SizeOf, e.objects) <= SumFunctionOnSet(SizeOf, d.objects)
  BY <1>2, SumOfSubset DEF Sized
<1>4. SumFunctionOnSet(e.staging, e.leases) = SumFunctionOnSet(d.staging, e.leases)
  BY <1>1, SumSame DEF Sized
<1>5. SumFunctionOnSet(d.staging, e.leases) <= SumFunctionOnSet(d.staging, d.leases)
  BY SumOfSubset DEF Sized
<1> QED BY <1>1, <1>3, <1>4, <1>5, UsageIs

\* One more byte in a staging file, one lease less, one object more.
LEMMA UsageOfChunk ==
    ASSUME NEW d, NEW e, NEW w \in d.leases, Sized(d), e.objects = d.objects, e.leases = d.leases,
           e.staging[w] = d.staging[w] + 1, \A v \in d.leases \ {w} : e.staging[v] = d.staging[v]
    PROVE  Sized(e) /\ Usage(e) = Usage(d) + 1
<1>1. Sized(e)
  BY DEF Sized
<1> DEFINE rest == d.leases \ {w}
<1>2. IsFiniteSet(rest)
  BY FS_Subset DEF Sized
<1>3. /\ SumFunctionOnSet(d.staging, d.leases) = d.staging[w] + SumFunctionOnSet(d.staging, rest)
      /\ SumFunctionOnSet(d.staging, rest) \in Nat /\ d.staging[w] \in Nat
  BY <1>2, SumTakesAny DEF Sized
<1>4. SumFunctionOnSet(e.staging, e.leases) = e.staging[w] + SumFunctionOnSet(e.staging, rest)
  BY <1>1, SumTakesAny DEF Sized
<1>5. SumFunctionOnSet(e.staging, rest) = SumFunctionOnSet(d.staging, rest)
  BY <1>2, SumSame
<1> HIDE DEF rest
<1> QED BY <1>1, <1>3, <1>4, <1>5, UsageIs

LEMMA UsageOfLease ==
    ASSUME NEW d, NEW e, NEW w \in Writers, Sized(d), e.objects = d.objects,
           \/ w \in d.leases /\ e.leases = d.leases \ {w}
           \/ e.leases = d.leases \cup {w} /\ d.staging[w] = 0,
           e.staging = d.staging
    PROVE  /\ Sized(e)
           /\ w \in d.leases /\ e.leases = d.leases \ {w} => Usage(d) = Usage(e) + d.staging[w]
           /\ e.leases = d.leases \cup {w} /\ d.staging[w] = 0 => Usage(e) = Usage(d)
<1>1. CASE w \in d.leases /\ e.leases = d.leases \ {w}
  <2>1. Sized(e)
    BY <1>1, UsageShrinks
  <2>2. SumFunctionOnSet(d.staging, d.leases) = d.staging[w] + SumFunctionOnSet(d.staging, e.leases)
        /\ d.staging[w] \in Nat
    BY <1>1, SumTakesAny DEF Sized
  <2>3. Usage(d) = Usage(e) + d.staging[w]
    BY <2>1, <2>2, UsageIs
  <2> QED BY <1>1, <2>1, <2>3
<1>2. CASE e.leases = d.leases \cup {w} /\ d.staging[w] = 0
  <2>1. Sized(e)
    <3>1. IsFiniteSet(e.leases)
      BY <1>2, FS_AddElement DEF Sized
    <3>2. e.leases \subseteq Writers /\ \A v \in e.leases : e.staging[v] \in Nat
      BY <1>2 DEF Sized
    <3> QED BY <3>1, <3>2 DEF Sized
  <2>2. CASE w \in d.leases
    BY <1>2, <2>1, <2>2, UsageShrinks
  <2>3. CASE w \notin d.leases
    <3>1. d.leases = e.leases \ {w} /\ w \in e.leases
      BY <1>2, <2>3
    <3>2. SumFunctionOnSet(e.staging, e.leases) = e.staging[w] + SumFunctionOnSet(e.staging, d.leases)
      BY <2>1, <3>1, SumTakesAny DEF Sized
    <3>3. Usage(e) = SumFunctionOnSet(SizeOf, d.objects) + (0 + SumFunctionOnSet(d.staging, d.leases))
      BY <1>2, <2>1, <3>2, UsageIs
    <3>4. Usage(e) = Usage(d)
      BY <3>3, UsageIs
    <3> QED BY <1>2, <2>1, <2>3, <3>4
  <2> QED BY <2>2, <2>3
<1> QED BY <1>1, <1>2

LEMMA UsageOfObject ==
    ASSUME NEW d, NEW e, Sized(d), NEW c \in Contents, c \notin d.objects,
           e.objects = d.objects \cup {c}, e.leases = d.leases, e.staging = d.staging
    PROVE  Sized(e) /\ Usage(e) = Usage(d) + SizeOf[c] /\ SizeOf[c] \in Nat
<1>1. Sized(e)
  <2>1. IsFiniteSet(e.objects)
    BY FS_AddElement DEF Sized
  <2> QED BY <2>1 DEF Sized
<1>2. d.objects = e.objects \ {c} /\ c \in e.objects
  OBVIOUS
<1>3. \A x \in e.objects : SizeOf[x] \in Nat
  BY <1>1, ArtConstants DEF Sized, Contents
<1>4. SumFunctionOnSet(SizeOf, e.objects) = SizeOf[c] + SumFunctionOnSet(SizeOf, d.objects)
  BY <1>1, <1>2, <1>3, SumTakesAny DEF Sized
<1>5. Usage(e) = (SizeOf[c] + SumFunctionOnSet(SizeOf, d.objects)) + SumFunctionOnSet(d.staging, d.leases)
  BY <1>1, <1>4, UsageIs
<1>6. /\ Usage(d) = SumFunctionOnSet(SizeOf, d.objects) + SumFunctionOnSet(d.staging, d.leases)
      /\ SumFunctionOnSet(SizeOf, d.objects) \in Nat /\ SumFunctionOnSet(d.staging, d.leases) \in Nat
  BY UsageIs
<1>7. SizeOf[c] \in Nat
  BY <1>2, <1>3
<1> QED BY <1>1, <1>5, <1>6, <1>7

LEMMA UsageOfNothing ==
    ASSUME NEW d, d.objects = {}, Staged(d) \cap d.leases = {}
    PROVE  Usage(d) = 0
<1>1. \A f : SumFunctionOnSet(f, {}) = 0
  BY FS_EmptySet, SumUnfolds
<1> QED BY <1>1 DEF Usage

\* reconcile_quota leaves the bytes as they are and makes the ledger true.
LEMMA ReconciledWeighs ==
    ASSUME NEW d, DOMAIN d = DiskFields, Sized(d)
    PROVE  /\ Sized(Reconciled(d)) /\ Usage(Reconciled(d)) = Usage(d)
           /\ Reconciled(d).ledger = Usage(d)
           /\ Staged(Reconciled(d)) \subseteq d.leases
<1>1. Reconciled(d).ledger = Usage(d)
  BY DEF Reconciled, DiskFields
<1>2. \A w \in d.leases : Reconciled(d).staging[w] = d.staging[w]
  BY ReconciledFields DEF Sized
<1>3. Staged(Reconciled(d)) \subseteq d.leases
  <2>1. Reconciled(d).staging = [w \in Writers |-> IF w \in d.leases THEN d.staging[w] ELSE Absent]
    BY ReconciledFields
  <2>2. \A w \in Writers : w \notin d.leases => Reconciled(d).staging[w] = Absent
    BY <2>1
  <2> QED BY <2>2 DEF Staged
<1> DEFINE e == Reconciled(d)
<1>4. e.objects = d.objects /\ e.leases = d.leases
  BY ReconciledFields
<1>5. \A w \in e.leases : e.staging[w] = d.staging[w]
  BY <1>2, <1>4
<1> HIDE DEF e
<1>6. Sized(e) /\ Usage(e) = Usage(d)
  BY <1>4, <1>5, UsageShrinks
<1> QED BY <1>1, <1>3, <1>6 DEF e

\* A step after which the store weighs no more than before.
Lighter ==
    /\ artDisk'.objects \subseteq artDisk.objects /\ artDisk'.leases \subseteq artDisk.leases
    /\ \A w \in artDisk'.leases : artDisk'.staging[w] = artDisk.staging[w]
    /\ artDisk'.limit = artDisk.limit
    /\ artDisk'.ledger \in {artDisk.ledger, Torn, Usage(artDisk')}
    /\ \A w \in Writers : artDisk'.staging[w] \in {artDisk.staging[w], Absent, 0}

LEMMA LimitIsNumber ==
    ASSUME ArtIInv
    PROVE  artDisk.limit \in Nat \cup {-1}
BY ArtConstants DEF ArtIInv, Shape, Absent

LEMMA LighterKeeps ==
    ASSUME ArtIInv, Sizes, LedgerCovers, QuotaKept, Unlimited, Lighter
    PROVE  /\ Sizes' /\ LedgerCovers' /\ QuotaKept' /\ Unlimited'
           /\ Usage(artDisk') <= Usage(artDisk) /\ Usage(artDisk') \in Nat /\ Usage(artDisk) \in Nat
<1>1. Sized(artDisk) /\ artDisk.ledger \in Nat \cup {Torn}
  BY DEF Sizes
<1>2. Sized(artDisk') /\ Usage(artDisk') <= Usage(artDisk)
  BY <1>1, UsageShrinks DEF Lighter
<1>3. Usage(artDisk') \in Nat /\ Usage(artDisk) \in Nat
  BY <1>1, <1>2, UsageIs
<1>4. artDisk'.ledger \in {artDisk.ledger, Torn, Usage(artDisk')}
  BY DEF Lighter
<1>5. Sizes'
  BY <1>1, <1>2, <1>3, <1>4 DEF Sizes
<1>6. LedgerCovers'
  BY <1>1, <1>2, <1>3, <1>4 DEF LedgerCovers, Torn
<1>7. QuotaKept'
  BY <1>2, <1>3, LimitIsNumber DEF QuotaKept, Lighter
<1>8. Unlimited'
  BY DEF Unlimited, Lighter
<1> QED BY <1>2, <1>3, <1>5, <1>6, <1>7, <1>8

\* Either no capture is about to write, or the step leaves alone what it was promised.
Promised ==
    \/ artLock'.pc \notin {"append", "unlock", "link"}
    \/ /\ artLock'.pc = artLock.pc /\ artLock'.w = artLock.w /\ artDisk'.ledger = artDisk.ledger
       /\ artLock.pc = "unlock" => artLock.w \in artDisk'.leases
NoneBegins == \A w \in Writers : artWriter'[w] = "new" => artWriter[w] = "new"

LEMMA QuotaShrinks ==
    ASSUME ArtIInv, QuotaIInv, Lighter, Promised, NoneBegins, Intents'
    PROVE  QuotaIInv'
<1>1. Sizes /\ LedgerCovers /\ QuotaKept /\ Granted /\ Linking /\ Unstarted /\ Unlimited
  BY DEF QuotaIInv
<1>2. /\ Sizes' /\ LedgerCovers' /\ QuotaKept' /\ Unlimited'
      /\ Usage(artDisk') <= Usage(artDisk) /\ Usage(artDisk') \in Nat /\ Usage(artDisk) \in Nat
  BY <1>1, LighterKeeps
<1>3. artDisk'.limit = artDisk.limit /\ artDisk.ledger \in Nat \cup {-2}
  BY <1>1 DEF Lighter, Sizes, Torn
<1>4. Unstarted'
  BY <1>1 DEF Unstarted, Lighter, NoneBegins
<1>5. Granted'
  BY <1>1, <1>2, <1>3, LimitIsNumber DEF Granted, Promised, Torn
<1>6. Linking'
  <2>1. CASE artLock'.pc = "unlock"
    BY <1>1, <2>1 DEF Linking, Promised, Lighter
  <2>2. CASE artLock'.pc = "link"
    <3>1. artLock.pc = "link" /\ artLock'.w = artLock.w /\ artDisk'.ledger = artDisk.ledger
      BY <2>2 DEF Promised
    <3>2. SizeOf[ContentOf[artLock.w]] \in Nat
      BY <3>1, ArtConstants DEF ArtIInv, Held, Publishing
    <3> QED BY <1>1, <1>2, <1>3, <2>2, <3>1, <3>2, LimitIsNumber DEF Linking, Torn
  <2> QED BY <2>1, <2>2 DEF Linking
<1> QED BY <1>2, <1>4, <1>5, <1>6 DEF QuotaIInv

\* What reconcile_quota makes of a store that weighs no more.
LEMMA ReconciledLighter ==
    ASSUME ArtIInv, Sizes, NEW d, DOMAIN d = DiskFields, artDisk' = Reconciled(d),
           d.objects \subseteq artDisk.objects, d.leases \subseteq artDisk.leases,
           d.limit = artDisk.limit,
           \A w \in d.leases : d.staging[w] = artDisk.staging[w]
    PROVE  Lighter
<1>1. /\ artDisk'.objects = d.objects /\ artDisk'.leases = d.leases /\ artDisk'.limit = d.limit
      /\ artDisk'.staging = [w \in Writers |-> IF w \in d.leases THEN d.staging[w] ELSE Absent]
  BY ReconciledFields
<1>2. Sized(d)
  BY UsageShrinks DEF Sizes
<1>3. artDisk'.ledger = Usage(d) /\ Usage(artDisk') = Usage(d)
  BY <1>2, ReconciledWeighs
<1>4. \A w \in Writers : artDisk'.staging[w] = IF w \in d.leases THEN artDisk.staging[w] ELSE Absent
  BY <1>1
<1>5. \A w \in d.leases : w \in Writers
  BY <1>2 DEF Sized
<1> QED BY <1>1, <1>3, <1>4, <1>5 DEF Lighter

-----------------------------------------------------------------------------
(* Every step keeps the quota. *)

SameBytes ==
    /\ artDisk'.objects = artDisk.objects /\ artDisk'.leases = artDisk.leases
    /\ artDisk'.staging = artDisk.staging /\ artDisk'.limit = artDisk.limit
    /\ artDisk'.ledger = artDisk.ledger
LEMMA SameLighter ==
    ASSUME SameBytes
    PROVE  Lighter
BY DEF SameBytes, Lighter

LEMMA AcquireWeighs ==
    ASSUME ArtIInv, QuotaIInv, NEW p, NEW op, NEW w, NEW pc \in {"limit", "reserve", "discard"},
           Acquire(p, op, w, pc, {}), UNCHANGED <<artDisk, artWriter, artConf>>
    PROVE  QuotaIInv' /\ artLock'.pc # "stage"
<1>1. artLock'.pc = pc
  BY DEF Acquire
<1>2. Lighter
  BY SameLighter DEF SameBytes
<1> QED BY <1>1, <1>2, QuotaShrinks DEF Promised, NoneBegins, Intents

LEMMA CallsWeigh ==
    ASSUME ArtIInv, QuotaIInv, NEW w \in Writers, Create(w) \/ WriteChunk(w) \/ Finalize(w) \/ DropWriter(w)
    PROVE  QuotaIInv' /\ artLock'.pc # "stage"
<1>1. CASE Create(w) \/ WriteChunk(w) \/ DropWriter(w)
  BY <1>1, AcquireWeighs DEF Create, WriteChunk, DropWriter
<1>2. CASE Finalize(w)
  <2>1. /\ artLock'.pc = "unlock" /\ artLock'.w = w /\ artLock.op = "none"
        /\ UNCHANGED <<artDisk, artWriter, artConf>>
        /\ artWriter[w] = "open" /\ artDisk.staging[w] = SizeOf[ContentOf[w]]
    BY <1>2 DEF Finalize, Acquire, Free
  <2>2. w \in artDisk.leases
    BY <2>1 DEF ArtIInv, Leased, LeaseRespected
  <2>3. Linking' /\ Granted' /\ Intents'
    BY <2>1, <2>2 DEF Linking, Granted, Intents
  <2> QED BY <2>1, <2>3 DEF QuotaIInv, Sizes, LedgerCovers, QuotaKept, Unstarted, Unlimited
<1> QED BY <1>1, <1>2

\* ensure_quota_limit: a store that adopts a limit weighs nothing.
LEMMA EnsureLimitWeighs ==
    ASSUME ArtIInv, QuotaIInv, EnsureLimit
    PROVE  QuotaIInv' /\ artLock'.pc # "stage"
<1>1. Shape /\ Held /\ DOMAIN artDisk = DiskFields
  BY DEF ArtIInv, Shape
<1>2. CASE /\ artDisk.limit = Conf \/ LimitAdoptable(artDisk)
           /\ artDisk' = [artDisk EXCEPT !.limit = Conf]
           /\ GoTo("expire", artDisk.records)
           /\ UNCHANGED artWriter
  <2>1. /\ artDisk'.limit = Conf /\ artDisk'.objects = artDisk.objects
        /\ artDisk'.staging = artDisk.staging /\ artDisk'.leases = artDisk.leases
        /\ artDisk'.ledger = artDisk.ledger
    BY <1>1, <1>2 DEF DiskFields
  <2>2. artLock'.pc = "expire"
    BY <1>1, <1>2, LockMoves DEF LockBecomes
  <2>3. CASE artDisk.limit = Conf
    <3>1. Lighter
      BY <2>1, <2>3, SameLighter DEF SameBytes
    <3> QED BY <1>2, <2>2, <3>1, QuotaShrinks DEF Promised, NoneBegins, Intents
  <2>4. CASE LimitAdoptable(artDisk)
    <3>1. artDisk.objects = {} /\ Staged(artDisk) \cap artDisk.leases = {}
      BY <2>4 DEF LimitAdoptable, StoreIsEmpty, QuotaIInv, Unlimited
    <3>2. Usage(artDisk) = 0 /\ Usage(artDisk') = 0
      BY <2>1, <3>1, UsageOfNothing DEF Staged
    <3>3. Sizes'
      BY <2>1, UsageShrinks DEF QuotaIInv, Sizes
    <3>4. LedgerCovers'
      BY <2>1, <3>2 DEF QuotaIInv, LedgerCovers
    <3>5. QuotaKept'
      <4>1. Conf \in Nat
        BY <1>1, ArtConstants DEF Held, Shape, Conf, EnsureLimit, Sweep
      <4> QED BY <2>1, <3>2, <4>1 DEF QuotaKept
    <3>6. Unstarted' /\ Unlimited' /\ Granted' /\ Linking' /\ Intents'
      BY <1>2, <2>1, <2>2, <3>1 DEF QuotaIInv, Unstarted, Unlimited, Granted, Linking, Intents
    <3> QED BY <2>2, <3>3, <3>4, <3>5, <3>6 DEF QuotaIInv
  <2> QED BY <1>2, <2>3, <2>4
<1>3. CASE /\ Release
           /\ artWriter' = IF artLock.op = "create"
                           THEN [artWriter EXCEPT ![artLock.w] = "over"] ELSE artWriter
           /\ UNCHANGED artDisk
  <2>1. artLock'.pc = "none"
    BY <1>3 DEF Release, Free
  <2>2. Lighter
    BY <1>3, SameLighter DEF SameBytes
  <2>3. NoneBegins
    BY <1>1, <1>3 DEF NoneBegins, Shape
  <2> QED BY <2>1, <2>2, <2>3, QuotaShrinks DEF Promised, Intents
<1> QED BY <1>2, <1>3 DEF EnsureLimit

LEMMA ExpireWeighs ==
    ASSUME ArtIInv, QuotaIInv, ExpireStep
    PROVE  QuotaIInv' /\ artLock'.pc # "stage"
<1>1. DOMAIN artDisk = DiskFields /\ artLock.pc = "expire" /\ UNCHANGED <<artWriter, artConf>>
  BY DEF ArtIInv, Shape, ExpireStep
<1>2. UNCHANGED artDisk \/ artDisk' = Quarantine(artDisk, Head1)
  BY DEF ExpireStep
<1>3. SameBytes
  BY <1>1, <1>2 DEF SameBytes, Quarantine, DiskFields
<1>4. artLock'.pc \in {"expire", "age"}
  <2>1. Shape
    BY DEF ArtIInv
  <2> QED BY <1>1, <2>1, LockMoves DEF ExpireStep, LockBecomes
<1> QED BY <1>1, <1>3, <1>4, SameLighter, QuotaShrinks DEF Promised, NoneBegins, Intents

\* complete_purge gives bytes back, and the intent goes last.
LEMMA PurgeWeighs ==
    ASSUME ArtIInv, Sizes, NEW w, artDisk' = PurgeStep(artDisk, w)
    PROVE  /\ Lighter
           /\ artDisk'.purging = artDisk.purging \/ artDisk'.purging = artDisk.purging \ {w}
<1>1. DOMAIN artDisk = DiskFields
  BY DEF ArtIInv, Shape
<1>2. CASE artDisk' = [artDisk EXCEPT !.objects = @ \ {ContentOf[w]}]
  BY <1>1, <1>2 DEF Lighter, DiskFields
<1>3. CASE artDisk' = [artDisk EXCEPT !.purging = @ \ {w}]
  BY <1>1, <1>3 DEF Lighter, DiskFields
<1>4. CASE artDisk' = [Reconciled(artDisk) EXCEPT !.purging = @ \ {w}]
  <2> DEFINE d == Reconciled(artDisk)
  <2>1. DOMAIN d = DiskFields /\ d.objects = artDisk.objects /\ d.leases = artDisk.leases
        /\ d.purging = artDisk.purging /\ d.limit = artDisk.limit
        /\ d.staging = [v \in Writers |-> IF v \in artDisk.leases THEN artDisk.staging[v] ELSE Absent]
    BY <1>1, ReconciledFields
  <2>2. Sized(d) /\ d.ledger = Usage(d)
    BY <1>1, ReconciledWeighs DEF Sizes
  <2>3. artDisk' = [d EXCEPT !.purging = @ \ {w}]
    BY <1>4
  <2> HIDE DEF d
  <2>4. /\ artDisk'.objects = d.objects /\ artDisk'.leases = d.leases /\ artDisk'.staging = d.staging
        /\ artDisk'.limit = d.limit /\ artDisk'.ledger = d.ledger
        /\ artDisk'.purging = d.purging \ {w}
    BY <2>1, <2>3 DEF DiskFields
  <2>5. Usage(artDisk') = Usage(d)
    BY <2>2, <2>4, UsageShrinks
  <2>6. \A v \in artDisk.leases : v \in Writers
    BY DEF Sizes, Sized
  <2> QED BY <2>1, <2>2, <2>4, <2>5, <2>6 DEF Lighter
<1> QED BY <1>2, <1>3, <1>4 DEF PurgeStep

LEMMA AgeWeighs ==
    ASSUME ArtIInv, QuotaIInv, AgeStep
    PROVE  QuotaIInv' /\ artLock'.pc # "stage"
<1>1. Shape /\ DOMAIN artDisk = DiskFields /\ artLock.pc = "age" /\ UNCHANGED <<artWriter, artConf>>
  BY DEF ArtIInv, Shape, AgeStep
<1>2. CASE GoTo("purge", artDisk.purging) /\ UNCHANGED artDisk
  <2>1. artLock'.pc = "purge" /\ artLock'.todo = artDisk.purging
    BY <1>1, <1>2, LockMoves DEF LockBecomes
  <2>2. Lighter
    BY <1>2, SameLighter DEF SameBytes
  <2> QED BY <1>1, <1>2, <2>1, <2>2, QuotaShrinks DEF Promised, NoneBegins, Intents
<1>3. CASE Skip \/ GoOn
  <2>1. artLock'.pc = "age"
    BY <1>1, <1>3, LockMoves DEF LockBecomes
  <2>2. Lighter
    <3>1. CASE artDisk' = PurgeStep(artDisk, Head1)
      BY <3>1, PurgeWeighs DEF QuotaIInv
    <3>2. CASE artDisk' = [artDisk EXCEPT !.quarantine = @ \ {Head1}]
      BY <1>1, <3>2, SameLighter DEF SameBytes, DiskFields
    <3>3. CASE artDisk' = [artDisk EXCEPT !.quarantine = @ \ {Head1}, !.purging = @ \cup {Head1}]
      BY <1>1, <3>3, SameLighter DEF SameBytes, DiskFields
    <3>4. CASE UNCHANGED artDisk
      BY <3>4, SameLighter DEF SameBytes
    <3> QED BY <1>3, <3>1, <3>2, <3>3, <3>4 DEF AgeStep
  <2> QED BY <1>1, <2>1, <2>2, QuotaShrinks DEF Promised, NoneBegins, Intents
<1> QED BY <1>2, <1>3 DEF AgeStep

LEMMA PurgeIntentWeighs ==
    ASSUME ArtIInv, QuotaIInv, PurgeIntentStep
    PROVE  QuotaIInv' /\ artLock'.pc # "stage"
<1>1. Shape /\ artLock.pc = "purge" /\ UNCHANGED <<artWriter, artConf>> /\ Intents /\ Sizes
  BY DEF ArtIInv, PurgeIntentStep, QuotaIInv
<1>2. CASE artLock.todo = {} /\ UNCHANGED artDisk /\ (GoTo("orphans", {}) \/ Release)
  <2>1. artLock'.pc \in {"orphans", "none"}
    BY <1>1, <1>2, LockMoves DEF LockBecomes
  <2>2. Lighter
    BY <1>2, SameLighter DEF SameBytes
  <2>3. Intents'
    BY <1>1, <1>2, <2>1 DEF Intents
  <2> QED BY <1>1, <2>1, <2>2, <2>3, QuotaShrinks DEF Promised, NoneBegins
<1>3. CASE artDisk' = PurgeStep(artDisk, Head1) /\ IF Head1 \in artDisk'.purging THEN GoOn ELSE Skip
  <2>1. /\ Lighter
        /\ artDisk'.purging = artDisk.purging \/ artDisk'.purging = artDisk.purging \ {Head1}
    BY <1>1, <1>3, PurgeWeighs
  <2>2. /\ artLock'.pc = "purge"
        /\ artLock'.todo = IF Head1 \in artDisk'.purging THEN artLock.todo ELSE artLock.todo \ {Head1}
    BY <1>1, <1>3, LockMoves DEF LockBecomes
  <2>3. Intents'
    BY <1>1, <2>1, <2>2 DEF Intents
  <2> QED BY <1>1, <2>1, <2>2, <2>3, QuotaShrinks DEF Promised, NoneBegins
<1> QED BY <1>2, <1>3 DEF PurgeIntentStep

\* The sweep ends with a reconciliation, when no object is left without a record.
LEMMA OrphanWeighs ==
    ASSUME ArtIInv, QuotaIInv, OrphanStep
    PROVE  QuotaIInv' /\ (artLock'.pc = "stage" => SweptClean(artDisk'))
<1>1. /\ Shape /\ DOMAIN artDisk = DiskFields /\ artLock.pc = "orphans" /\ UNCHANGED <<artWriter, artConf>>
      /\ Sizes /\ artDisk.purging = {}
  BY DEF ArtIInv, Shape, OrphanStep, At, QuotaIInv, Intents
<1>2. ASSUME NEW c, artDisk' = [artDisk EXCEPT !.objects = @ \ {c}], GoOn
      PROVE  QuotaIInv' /\ artLock'.pc # "stage"
  <2>1. Lighter /\ artDisk'.purging = artDisk.purging
    BY <1>1, <1>2 DEF Lighter, DiskFields
  <2>2. artLock'.pc = "orphans"
    BY <1>1, <1>2 DEF GoOn
  <2> QED BY <1>1, <2>1, <2>2, QuotaShrinks DEF Promised, NoneBegins, Intents
<1>3. CASE Unreferenced(artDisk) = {} /\ artDisk' = Reconciled(artDisk) /\ GoTo("stage", {})
  <2>1. Lighter
    BY <1>1, <1>3, ReconciledLighter
  <2>2. artLock'.pc = "stage"
    BY <1>1, <1>3, LockMoves DEF LockBecomes
  <2>3. QuotaIInv'
    BY <1>1, <2>1, <2>2, QuotaShrinks DEF Promised, NoneBegins, Intents
  <2>4. /\ artDisk'.objects = artDisk.objects /\ artDisk'.records = artDisk.records
        /\ artDisk'.quarantine = artDisk.quarantine /\ artDisk'.purging = artDisk.purging
        /\ artDisk'.leases = artDisk.leases
    BY <1>1, <1>3, ReconciledFields
  <2>5. Unreferenced(artDisk') = {} /\ artDisk'.purging = {}
    BY <1>1, <1>3, <2>4 DEF Unreferenced, References
  <2>6. Staged(artDisk') \subseteq artDisk'.leases /\ artDisk'.ledger = Usage(artDisk')
    BY <1>1, <1>3, <2>4, ReconciledWeighs DEF Sizes
  <2> QED BY <2>3, <2>5, <2>6 DEF SweptClean
<1> QED BY <1>2, <1>3 DEF OrphanStep

\* The staging file is created empty and then leased.
LEMMA StageWeighs ==
    ASSUME ArtIInv, QuotaIInv, StageStep
    PROVE  QuotaIInv' /\ (artLock.pc # "stage" => artLock'.pc # "stage")
<1> DEFINE w == artLock.w
<1>1. /\ Shape /\ DOMAIN artDisk = DiskFields /\ artLock.pc = "stage" /\ w \in Writers
      /\ artWriter[w] = "new" /\ artDisk.staging \in [Writers -> Nat \cup {Absent}]
      /\ artDisk.leases \subseteq Staged(artDisk)
      /\ artWriter \in [Writers -> {"new", "open", "drop", "over"}]
  BY DEF ArtIInv, Shape, StageStep, At, Held
<1> HIDE DEF w
<1>2. CASE /\ artDisk.staging[w] = Absent /\ artDisk' = [artDisk EXCEPT !.staging[w] = 0]
           /\ GoOn /\ UNCHANGED artWriter
  <2>1. /\ artDisk'.objects = artDisk.objects /\ artDisk'.leases = artDisk.leases
        /\ artDisk'.limit = artDisk.limit /\ artDisk'.ledger = artDisk.ledger
        /\ artDisk'.staging = [artDisk.staging EXCEPT ![w] = 0]
    BY <1>1, <1>2 DEF DiskFields
  <2>2. w \notin artDisk.leases
    BY <1>1, <1>2 DEF Staged
  <2>3. \A v \in Writers : artDisk'.staging[v] = IF v = w THEN 0 ELSE artDisk.staging[v]
    BY <1>1, <2>1
  <2>4. \A v \in artDisk.leases : artDisk'.staging[v] = artDisk.staging[v]
    BY <1>1, <2>2, <2>3 DEF Staged
  <2>5. Lighter
    BY <2>1, <2>3, <2>4 DEF Lighter
  <2> QED BY <1>1, <1>2, <2>5, QuotaShrinks DEF GoOn, Promised, NoneBegins, Intents
<1>3. CASE /\ artDisk.staging[w] # Absent /\ artDisk' = [artDisk EXCEPT !.leases = @ \cup {w}]
           /\ Becomes(w, "open") /\ Release
  <2>1. /\ artDisk'.objects = artDisk.objects /\ artDisk'.leases = artDisk.leases \cup {w}
        /\ artDisk'.limit = artDisk.limit /\ artDisk'.ledger = artDisk.ledger
        /\ artDisk'.staging = artDisk.staging
    BY <1>1, <1>3 DEF DiskFields
  <2>2. artDisk.staging[w] = 0
    BY <1>1, <1>3 DEF QuotaIInv, Unstarted
  <2>3. Sized(artDisk') /\ Usage(artDisk') = Usage(artDisk)
    BY <1>1, <2>1, <2>2, UsageOfLease DEF QuotaIInv, Sizes
  <2>4. Sizes' /\ LedgerCovers' /\ QuotaKept' /\ Unlimited'
    BY <2>1, <2>3 DEF QuotaIInv, Sizes, LedgerCovers, QuotaKept, Unlimited
  <2>5. artLock'.pc = "none"
    BY <1>3 DEF Release, Free
  <2>6. Unstarted'
    BY <1>1, <1>3, <2>1 DEF QuotaIInv, Unstarted, Becomes
  <2> QED BY <1>1, <2>4, <2>5, <2>6 DEF QuotaIInv, Granted, Linking, Intents
<1> QED BY <1>2, <1>3 DEF StageStep, w

\* reserve_quota counts again when the ledger would deny or is torn.
LEMMA CountedWeighs ==
    ASSUME ArtIInv, QuotaIInv, NEW d, d = Counted(artDisk)
    PROVE  /\ DOMAIN d = DiskFields /\ d.objects = artDisk.objects /\ d.leases = artDisk.leases
           /\ d.limit = artDisk.limit
           /\ \A w \in artDisk.leases : d.staging[w] = artDisk.staging[w]
           /\ \A w \in Writers : d.staging[w] \in {artDisk.staging[w], Absent}
           /\ Sized(d) /\ Usage(d) = Usage(artDisk) /\ Usage(d) <= d.ledger
           /\ Usage(d) \in Nat /\ d.ledger \in Nat /\ d.ledger \in {artDisk.ledger, Usage(d)}
<1>1. DOMAIN artDisk = DiskFields /\ Sizes /\ LedgerCovers
  BY DEF ArtIInv, Shape, QuotaIInv
<1>2. CASE d = artDisk /\ artDisk.ledger # Torn
  BY <1>1, <1>2, UsageIs DEF Sizes, LedgerCovers
<1>3. CASE d = Reconciled(artDisk)
  <2>1. DOMAIN d = DiskFields /\ d.objects = artDisk.objects /\ d.leases = artDisk.leases
        /\ d.limit = artDisk.limit
        /\ d.staging = [v \in Writers |-> IF v \in artDisk.leases THEN artDisk.staging[v] ELSE Absent]
    BY <1>1, <1>3, ReconciledFields
  <2>2. Sized(d) /\ d.ledger = Usage(d) /\ Usage(d) = Usage(artDisk)
    BY <1>1, <1>3, ReconciledWeighs DEF Sizes
  <2>3. Usage(d) \in Nat
    BY <2>2, UsageIs
  <2>4. \A w \in artDisk.leases : w \in Writers
    BY <1>1 DEF Sizes, Sized
  <2> QED BY <2>1, <2>2, <2>3, <2>4
<1> QED BY <1>2, <1>3 DEF Counted

LEMMA ReserveWeighs ==
    ASSUME ArtIInv, QuotaIInv, Reserve
    PROVE  QuotaIInv' /\ artLock'.pc # "stage"
<1>1. PICK d : d = Counted(artDisk)
  OBVIOUS
<1>2. /\ DOMAIN d = DiskFields /\ d.objects = artDisk.objects /\ d.leases = artDisk.leases
      /\ d.limit = artDisk.limit
      /\ \A w \in artDisk.leases : d.staging[w] = artDisk.staging[w]
      /\ \A w \in Writers : d.staging[w] \in {artDisk.staging[w], Absent}
      /\ Sized(d) /\ Usage(d) = Usage(artDisk) /\ Usage(d) <= d.ledger
      /\ Usage(d) \in Nat /\ d.ledger \in Nat /\ d.ledger \in {artDisk.ledger, Usage(d)}
  BY <1>1, CountedWeighs
<1>3. /\ Shape /\ artLock.w \in Writers /\ artDisk.leases \subseteq Writers
      /\ artWriter \in [Writers -> {"new", "open", "drop", "over"}]
  BY Capturing DEF ArtIInv, Shape, Reserve, At, QuotaIInv, Sizes, Sized
<1>4. CASE Becomes(artLock.w, "drop") /\ Release /\ (artDisk' = artDisk \/ artDisk' = d)
  <2>1. Lighter
    BY <1>2, <1>4 DEF Lighter
  <2>2. artLock'.pc = "none"
    BY <1>4 DEF Release, Free
  <2>3. NoneBegins
    BY <1>3, <1>4 DEF NoneBegins, Becomes
  <2> QED BY <2>1, <2>2, <2>3, QuotaShrinks DEF Promised, Intents
<1>5. CASE /\ artDisk' = [d EXCEPT !.ledger = @ + 1] /\ GoTo("append", {}) /\ UNCHANGED artWriter
           /\ d.limit = 0 \/ d.ledger + 1 <= d.limit
  <2>1. /\ artDisk'.objects = d.objects /\ artDisk'.leases = d.leases
        /\ artDisk'.limit = d.limit /\ artDisk'.ledger = d.ledger + 1
        /\ artDisk'.staging = d.staging
    BY <1>2, <1>5 DEF DiskFields
  <2>2. Sized(artDisk') /\ Usage(artDisk') = Usage(d)
    BY <1>2, <2>1, UsageShrinks
  <2>3. artLock'.pc = "append"
    BY <1>3, <1>5, LockMoves DEF LockBecomes
  <2>4. Sizes' /\ LedgerCovers'
    BY <1>2, <2>1, <2>2 DEF Sizes, LedgerCovers
  <2>5. QuotaKept' /\ Unlimited'
    BY <1>2, <2>1, <2>2 DEF QuotaIInv, QuotaKept, Unlimited
  <2>6. Granted'
    BY <1>2, <1>5, <2>1, <2>2, LimitIsNumber DEF Granted, Torn
  <2>7. Unstarted'
    BY <1>2, <1>5, <2>1 DEF QuotaIInv, Unstarted
  <2>8. Linking' /\ Intents'
    BY <2>3 DEF Linking, Intents
  <2> QED BY <2>3, <2>4, <2>5, <2>6, <2>7, <2>8 DEF QuotaIInv
<1> QED BY <1>1, <1>4, <1>5 DEF Reserve

\* The chunk that was granted is written, or the capture is given up.
LEMMA AppendWeighs ==
    ASSUME ArtIInv, QuotaIInv, Append1
    PROVE  QuotaIInv' /\ artLock'.pc # "stage"
<1> DEFINE w == artLock.w
<1>1. /\ Shape /\ artLock.op = "write" /\ artLock.pc = "append"
      /\ artWriter \in [Writers -> {"new", "open", "drop", "over"}] /\ DOMAIN artLock = LockFields
  BY DEF ArtIInv, Shape, Append1, At
<1>2. /\ w \in Writers /\ w \in artDisk.leases /\ artWriter[w] = "open" /\ DOMAIN artDisk = DiskFields
      /\ artDisk.staging \in [Writers -> Nat \cup {Absent}]
  BY <1>1, Capturing
<1>3. /\ Sizes /\ LedgerCovers /\ QuotaKept /\ Granted /\ Unstarted /\ Unlimited
      /\ artDisk.leases \subseteq Writers
  BY DEF QuotaIInv, Sizes, Sized
<1> HIDE DEF w
<1>4. CASE /\ artDisk' = [artDisk EXCEPT !.staging[w] = @ + 1] /\ Release /\ UNCHANGED artWriter
  <2>1. /\ artDisk'.objects = artDisk.objects /\ artDisk'.leases = artDisk.leases
        /\ artDisk'.limit = artDisk.limit /\ artDisk'.ledger = artDisk.ledger
        /\ artDisk'.staging = [artDisk.staging EXCEPT ![w] = @ + 1]
    BY <1>2, <1>4 DEF DiskFields
  <2>2. /\ artDisk'.staging[w] = artDisk.staging[w] + 1
        /\ \A v \in Writers \ {w} : artDisk'.staging[v] = artDisk.staging[v]
    BY <1>2, <2>1
  <2>3. Sized(artDisk') /\ Usage(artDisk') = Usage(artDisk) + 1
    BY <1>2, <1>3, <2>1, <2>2, UsageOfChunk DEF Sizes
  <2>4. Usage(artDisk) \in Nat
    BY <1>3, UsageIs DEF Sizes
  <2>5. Sizes' /\ LedgerCovers' /\ QuotaKept'
    BY <1>1, <1>3, <2>1, <2>3, <2>4, LimitIsNumber DEF Sizes, LedgerCovers, QuotaKept, Granted
  <2>6. artLock'.pc = "none"
    BY <1>4 DEF Release, Free
  <2>7. Unstarted' /\ Unlimited'
    BY <1>2, <1>3, <1>4, <2>1, <2>2 DEF Unstarted, Unlimited
  <2> QED BY <2>5, <2>6, <2>7 DEF QuotaIInv, Granted, Linking, Intents
<1>5. CASE /\ artDisk' = [artDisk EXCEPT !.leases = @ \ {w}] /\ Becomes(w, "drop")
           /\ artLock' = [artLock EXCEPT !.op = "drop", !.pc = "discard"]
  <2>1. Lighter
    BY <1>2, <1>5 DEF Lighter, DiskFields
  <2>2. artLock'.pc = "discard"
    BY <1>1, <1>5 DEF LockFields
  <2>3. NoneBegins
    BY <1>1, <1>2, <1>5 DEF NoneBegins, Becomes
  <2> QED BY <2>1, <2>2, <2>3, QuotaShrinks DEF Promised, Intents
<1> QED BY <1>4, <1>5 DEF Append1, w

LEMMA UnlockWeighs ==
    ASSUME ArtIInv, QuotaIInv, UnlockStaging
    PROVE  QuotaIInv' /\ artLock'.pc # "stage"
<1> DEFINE w == artLock.w
<1>1. /\ Shape /\ artLock.op = "finalize" /\ artLock.pc = "unlock" /\ UNCHANGED <<artWriter, artConf>>
      /\ artDisk' = [artDisk EXCEPT !.leases = @ \ {w}] /\ GoTo("link", {})
  BY DEF ArtIInv, UnlockStaging, At
<1>2. w \in Writers /\ DOMAIN artDisk = DiskFields
  BY <1>1, Capturing
<1>3. /\ artDisk'.objects = artDisk.objects /\ artDisk'.leases = artDisk.leases \ {w}
      /\ artDisk'.limit = artDisk.limit /\ artDisk'.ledger = artDisk.ledger
      /\ artDisk'.staging = artDisk.staging
  BY <1>1, <1>2 DEF DiskFields
<1>4. w \in artDisk.leases /\ artDisk.staging[w] = SizeOf[ContentOf[w]]
  BY <1>1 DEF QuotaIInv, Linking
<1>5. Sized(artDisk') /\ Usage(artDisk) = Usage(artDisk') + SizeOf[ContentOf[w]]
  BY <1>2, <1>3, <1>4, UsageOfLease DEF QuotaIInv, Sizes
<1>6. artLock'.pc = "link" /\ artLock'.w = w
  BY <1>1, LockMoves DEF LockBecomes
<1>7. Lighter
  BY <1>3 DEF Lighter
<1>8. Sizes' /\ LedgerCovers' /\ QuotaKept' /\ Unlimited'
  BY <1>7, LighterKeeps DEF QuotaIInv
<1>9. Linking'
  <2> HIDE DEF w
  <2>1. /\ artDisk.ledger # Torn => Usage(artDisk) <= artDisk.ledger
        /\ artDisk.limit > 0 => Usage(artDisk) <= artDisk.limit
    BY DEF QuotaIInv, LedgerCovers, QuotaKept
  <2> QED BY <1>3, <1>5, <1>6, <2>1 DEF Linking
<1> QED BY <1>1, <1>3, <1>6, <1>8, <1>9 DEF QuotaIInv, Granted, Intents, Unstarted

\* The object takes the place of the staging file.
LEMMA LinkWeighs ==
    ASSUME ArtIInv, QuotaIInv, Link
    PROVE  QuotaIInv' /\ artLock'.pc # "stage"
<1> DEFINE w == artLock.w
<1>1. /\ Shape /\ artLock.op = "finalize" /\ artLock.pc = "link" /\ UNCHANGED <<artWriter, artConf>>
  BY DEF ArtIInv, Link, At
<1>2. w \in Writers /\ DOMAIN artDisk = DiskFields /\ artWriter[w] = "open"
  BY <1>1, Capturing
<1>3. CASE UNCHANGED artDisk /\ GoTo("duplicate", {})
  <2>1. Lighter
    BY <1>3, SameLighter DEF SameBytes
  <2>2. artLock'.pc = "duplicate"
    BY <1>1, <1>3, LockMoves DEF LockBecomes
  <2> QED BY <1>1, <2>1, <2>2, QuotaShrinks DEF Promised, NoneBegins, Intents
<1>4. CASE /\ ContentOf[w] \notin artDisk.objects
           /\ artDisk' = [artDisk EXCEPT !.objects = @ \cup {ContentOf[w]}]
           /\ GoTo("linked", {})
  <2>1. /\ artDisk'.objects = artDisk.objects \cup {ContentOf[w]} /\ artDisk'.leases = artDisk.leases
        /\ artDisk'.limit = artDisk.limit /\ artDisk'.ledger = artDisk.ledger
        /\ artDisk'.staging = artDisk.staging
    BY <1>2, <1>4 DEF DiskFields
  <2>2. ContentOf[w] \in Contents
    BY <1>2 DEF Contents
  <2>3. Sized(artDisk') /\ Usage(artDisk') = Usage(artDisk) + SizeOf[ContentOf[w]]
    BY <1>4, <2>1, <2>2, UsageOfObject DEF QuotaIInv, Sizes
  <2>4. Sizes' /\ LedgerCovers' /\ QuotaKept'
    BY <1>1, <2>1, <2>3 DEF QuotaIInv, Sizes, LedgerCovers, QuotaKept, Linking
  <2>5. artDisk.limit # Absent
    <3>1. artConf[OwnerOf[w]] = artDisk.limit
      BY <1>2 DEF ArtIInv, Limited, OneLimit
    <3>2. OwnerOf[w] \in ArtProcs /\ artConf[OwnerOf[w]] # Down
      BY <1>1 DEF ArtIInv, Held
    <3>3. artConf[OwnerOf[w]] \in Limits
      BY <1>1, <3>2 DEF Shape
    <3> QED BY <3>1, <3>3, ArtConstants DEF Absent
  <2>6. artLock'.pc = "linked"
    BY <1>1, <1>4, LockMoves DEF LockBecomes
  <2>7. Unstarted' /\ Unlimited'
    BY <1>1, <2>1, <2>5 DEF QuotaIInv, Unstarted, Unlimited
  <2> QED BY <2>4, <2>6, <2>7 DEF QuotaIInv, Granted, Linking, Intents
<1> QED BY <1>3, <1>4 DEF Link

LEMMA RemoveWeighs ==
    ASSUME ArtIInv, QuotaIInv, RemoveStaging
    PROVE  QuotaIInv' /\ artLock'.pc # "stage"
<1> DEFINE d == [artDisk EXCEPT !.staging[artLock.w] = Absent]
<1>1. /\ Shape /\ artLock.op = "finalize" /\ artLock.pc \in {"linked", "duplicate"}
      /\ UNCHANGED <<artWriter, artConf>>
      /\ artDisk' = d \/ artDisk' = Reconciled(d)
      /\ artLock' = [artLock EXCEPT !.pc = IF @ = "linked" THEN "record" ELSE "recordShared"]
      /\ Sizes /\ artDisk.leases \subseteq Writers
  BY DEF ArtIInv, RemoveStaging, QuotaIInv, Sizes, Sized
<1>2. /\ artLock.w \in Writers /\ artLock.w \notin artDisk.leases /\ DOMAIN artDisk = DiskFields
      /\ artDisk.staging \in [Writers -> Nat \cup {Absent}]
  BY <1>1, Capturing
<1>3. /\ DOMAIN d = DiskFields /\ d.objects = artDisk.objects /\ d.leases = artDisk.leases
      /\ d.limit = artDisk.limit /\ d.ledger = artDisk.ledger
      /\ d.staging = [artDisk.staging EXCEPT ![artLock.w] = Absent]
  BY <1>2 DEF DiskFields
<1>4. artLock'.pc \in {"record", "recordShared"}
  BY <1>1 DEF Shape, LockFields
<1> HIDE DEF d
<1>5. /\ \A v \in artDisk.leases : d.staging[v] = artDisk.staging[v]
      /\ \A v \in Writers : d.staging[v] \in {artDisk.staging[v], Absent}
  BY <1>1, <1>2, <1>3
<1>6. Lighter
  <2>1. CASE artDisk' = d
    BY <1>3, <1>5, <2>1 DEF Lighter
  <2>2. CASE artDisk' = Reconciled(d)
    BY <1>1, <1>3, <1>5, <2>2, ReconciledLighter
  <2> QED BY <1>1, <2>1, <2>2
<1> QED BY <1>1, <1>4, <1>6, QuotaShrinks DEF Promised, NoneBegins, Intents

LEMMA RecordWeighs ==
    ASSUME ArtIInv, QuotaIInv, WriteRecord
    PROVE  QuotaIInv' /\ artLock'.pc # "stage"
<1> DEFINE d == [artDisk EXCEPT !.objects = @ \ {ContentOf[artLock.w]}]
<1>1. /\ DOMAIN artDisk = DiskFields /\ Release /\ Sizes
      /\ artWriter \in [Writers -> {"new", "open", "drop", "over"}]
  BY DEF ArtIInv, Shape, WriteRecord, QuotaIInv
<1>2. /\ DOMAIN d = DiskFields /\ d.objects = artDisk.objects \ {ContentOf[artLock.w]}
      /\ d.leases = artDisk.leases /\ d.limit = artDisk.limit /\ d.staging = artDisk.staging
  BY <1>1 DEF DiskFields
<1>3. /\ \/ artDisk' = [artDisk EXCEPT !.records = @ \cup {artLock.w}]
         \/ artDisk' = artDisk \/ artDisk' = Reconciled(d)
      /\ Becomes(artLock.w, "over") \/ Becomes(artLock.w, "drop")
  BY DEF WriteRecord, Rollback
<1> HIDE DEF d
<1>4. Lighter
  <2>1. CASE artDisk' = [artDisk EXCEPT !.records = @ \cup {artLock.w}] \/ artDisk' = artDisk
    BY <1>1, <2>1, SameLighter DEF SameBytes, DiskFields
  <2>2. CASE artDisk' = Reconciled(d)
    BY <1>1, <1>2, <2>2, ReconciledLighter
  <2> QED BY <1>3, <2>1, <2>2
<1>5. NoneBegins
  BY <1>1, <1>3 DEF NoneBegins, Becomes
<1>6. artLock'.pc = "none"
  BY <1>1 DEF Release, Free
<1> QED BY <1>4, <1>5, <1>6, QuotaShrinks DEF Promised, Intents

LEMMA DiscardWeighs ==
    ASSUME ArtIInv, QuotaIInv, Discard
    PROVE  QuotaIInv' /\ artLock'.pc # "stage"
<1> DEFINE d == [artDisk EXCEPT !.leases = @ \ {artLock.w}, !.staging[artLock.w] = Absent]
<1>1. /\ DOMAIN artDisk = DiskFields /\ Release /\ Sizes /\ Becomes(artLock.w, "over")
      /\ artDisk.staging \in [Writers -> Nat \cup {Absent}] /\ artDisk.leases \subseteq Writers
      /\ artWriter \in [Writers -> {"new", "open", "drop", "over"}]
      /\ artDisk' = Reconciled(d)
  BY DEF ArtIInv, Shape, Discard, QuotaIInv, Sizes, Sized
<1>2. /\ DOMAIN d = DiskFields /\ d.objects = artDisk.objects
      /\ d.leases = artDisk.leases \ {artLock.w} /\ d.limit = artDisk.limit
      /\ d.staging = [artDisk.staging EXCEPT ![artLock.w] = Absent]
  BY <1>1 DEF DiskFields
<1> HIDE DEF d
<1>3. \A v \in d.leases : d.staging[v] = artDisk.staging[v]
  BY <1>1, <1>2
<1>4. Lighter
  BY <1>1, <1>2, <1>3, ReconciledLighter
<1>5. NoneBegins
  BY <1>1 DEF NoneBegins, Becomes
<1>6. artLock'.pc = "none"
  BY <1>1 DEF Release, Free
<1> QED BY <1>4, <1>5, <1>6, QuotaShrinks DEF Promised, Intents

\* A crash only lets go of leases, and of the ledger that was being written.
LEMMA CrashWeighs ==
    ASSUME ArtIInv, QuotaIInv, NEW p \in ArtProcs, ArtCrash(p)
    PROVE  QuotaIInv' /\ (artLock.pc # "stage" => artLock'.pc # "stage")
<1> DEFINE own == { w \in Writers : OwnerOf[w] = p }
           d == [artDisk EXCEPT !.leases = @ \ own]
<1>1. DOMAIN artDisk = DiskFields /\ Held /\ Intents /\ Linking /\ artDisk.leases \subseteq Writers
  BY DEF ArtIInv, Shape, QuotaIInv, Sizes, Sized
<1>2. /\ DOMAIN d = DiskFields /\ d.objects = artDisk.objects /\ d.leases = artDisk.leases \ own
      /\ d.limit = artDisk.limit /\ d.ledger = artDisk.ledger /\ d.staging = artDisk.staging
      /\ d.purging = artDisk.purging
  BY <1>1 DEF DiskFields
<1>3. /\ artDisk' = d \/ (artLock.proc = p /\ artDisk' = [d EXCEPT !.ledger = Torn])
      /\ artWriter' = [w \in Writers |-> IF w \in own /\ artWriter[w] # "new" THEN "over" ELSE artWriter[w]]
      /\ artLock' = IF artLock.proc = p THEN Free ELSE artLock
  BY DEF ArtCrash
<1> HIDE DEF d
<1>4. /\ artDisk'.objects = artDisk.objects /\ artDisk'.leases = artDisk.leases \ own
      /\ artDisk'.limit = artDisk.limit /\ artDisk'.staging = artDisk.staging
      /\ artDisk'.purging = artDisk.purging
      /\ artDisk'.ledger = artDisk.ledger \/ (artDisk'.ledger = Torn /\ artLock.proc = p)
  BY <1>2, <1>3 DEF DiskFields
<1>5. Lighter
  BY <1>4 DEF Lighter
<1>6. NoneBegins
  BY <1>3 DEF NoneBegins
<1>7. CASE artLock.proc = p
  <2>1. artLock'.pc = "none"
    BY <1>3, <1>7 DEF Free
  <2> QED BY <1>5, <1>6, <2>1, QuotaShrinks DEF Promised, Intents
<1>8. CASE artLock.proc # p
  <2>1. artLock' = artLock /\ artDisk'.ledger = artDisk.ledger
    BY <1>3, <1>4, <1>8
  <2>2. artLock.pc = "unlock" => artLock.w \in artDisk'.leases
    BY <1>1, <1>4, <1>8 DEF Held, Linking, Publishing
  <2>3. Promised
    BY <2>1, <2>2 DEF Promised
  <2>4. Intents'
    BY <1>1, <1>4, <2>1 DEF Intents
  <2> QED BY <1>5, <1>6, <2>1, <2>3, <2>4, QuotaShrinks
<1> QED BY <1>7, <1>8

\* Neither a start nor the passing of time touches a byte.
LEMMA RestWeighs ==
    ASSUME ArtIInv, QuotaIInv, UNCHANGED <<artLock, artWriter>>, SameBytes,
           artDisk'.purging = artDisk.purging
    PROVE  QuotaIInv'
<1>1. Lighter /\ NoneBegins
  BY SameLighter DEF NoneBegins
<1>2. Promised /\ Intents'
  BY DEF QuotaIInv, Promised, Linking, Intents, SameBytes
<1> QED BY <1>1, <1>2, QuotaShrinks

LEMMA TimeWeighs ==
    ASSUME ArtIInv, QuotaIInv, NEW w \in Writers, Expire(w) \/ Age(w)
    PROVE  QuotaIInv' /\ artLock' = artLock
<1>1. DOMAIN artDisk = DiskFields
  BY DEF ArtIInv, Shape
<1>2. SameBytes /\ artDisk'.purging = artDisk.purging /\ UNCHANGED <<artLock, artWriter>>
  <2>1. \/ artDisk' = [artDisk EXCEPT !.expired = @ \cup {w}]
        \/ artDisk' = [artDisk EXCEPT !.aged = @ \cup {w}]
    BY DEF Expire, Age
  <2> QED BY <1>1, <2>1 DEF SameBytes, DiskFields, Expire, Age
<1> QED BY <1>2, RestWeighs

LEMMA QuotaInitHolds ==
    ASSUME ArtInit
    PROVE  QuotaIInv
<1>1. /\ artDisk.objects = {} /\ artDisk.leases = {} /\ artDisk.limit = Absent /\ artDisk.ledger = Torn
      /\ artDisk.staging = [w \in Writers |-> Absent] /\ artLock.pc = "none"
  BY DEF ArtInit, Free
<1>2. Sizes /\ LedgerCovers
  BY <1>1, FS_EmptySet DEF Sizes, Sized, LedgerCovers
<1> QED BY <1>1, <1>2 DEF QuotaIInv, QuotaKept, Granted, Linking, Unstarted, Unlimited, Intents, Absent

\* Nothing but the end of a sweep lets a capture begin.
LEMMA QuotaStep ==
    ASSUME ArtIInv, QuotaIInv, [ArtNext]_artVars
    PROVE  /\ QuotaIInv'
           /\ artLock.pc # "stage" /\ artLock'.pc = "stage" => SweptClean(artDisk')
<1>1. CASE LockedStep
  BY <1>1, EnsureLimitWeighs, ExpireWeighs, AgeWeighs, PurgeIntentWeighs, OrphanWeighs, StageWeighs,
     ReserveWeighs, AppendWeighs, UnlockWeighs, LinkWeighs, RemoveWeighs, RecordWeighs, DiscardWeighs
     DEF LockedStep
<1>2. ASSUME NEW p \in ArtProcs, Cleanup(p) \/ ArtCrash(p) \/ ArtStart(p)
      PROVE  QuotaIInv' /\ (artLock.pc # "stage" => artLock'.pc # "stage")
  <2>1. CASE Cleanup(p)
    BY <2>1, AcquireWeighs DEF Cleanup
  <2>2. CASE ArtStart(p)
    BY <2>2, RestWeighs DEF ArtStart, SameBytes
  <2> QED BY <1>2, <2>1, <2>2, CrashWeighs
<1>3. ASSUME NEW w \in Writers, \/ Create(w) \/ WriteChunk(w) \/ Finalize(w) \/ DropWriter(w)
                                \/ Expire(w) \/ Age(w)
      PROVE  QuotaIInv' /\ (artLock.pc # "stage" => artLock'.pc # "stage")
  BY <1>3, CallsWeigh, TimeWeighs
<1>4. CASE UNCHANGED artVars
  BY <1>4, RestWeighs DEF artVars, SameBytes
<1> QED BY <1>1, <1>2, <1>3, <1>4 DEF ArtNext

\* reserve_quota and reconcile_quota: what is on the disk stays within the limit of the
\* store and within its ledger, whoever crashes in the middle of whatever; and with it
\* everything else a run checks of the store.
THEOREM StoreKept == ArtSpec => []ArtifactsKept
<1>1. ArtInit => QuotaIInv
  BY QuotaInitHolds
<1>2. ArtIInv /\ QuotaIInv /\ [ArtNext]_artVars => QuotaIInv'
  BY QuotaStep
<1>3. ArtIInv /\ QuotaIInv => ArtifactsKept
  <2> SUFFICES ASSUME ArtIInv, QuotaIInv PROVE ArtifactsKept
    OBVIOUS
  <2>1. ArtTypeOK
    BY DEF ArtIInv, QuotaIInv, Shape, Sizes, Sized, ArtTypeOK
  <2>2. CleanupNeverStuck
    BY DEF ArtIInv, Backed, Apart, CleanupNeverStuck
  <2>3. QuotaKept /\ LedgerCovers /\ LeaseRespected /\ OneLimit
    BY DEF ArtIInv, QuotaIInv, Leased, Limited
  <2> QED BY <2>1, <2>2, <2>3 DEF ArtifactsKept
<1> QED BY <1>1, <1>2, <1>3, ArtInvariant, PTL DEF ArtSpec

\* The sweep of ArtifactWriter::create leaves nothing of a crash behind: no staging without
\* a lease, no object without a record, no purge intent, and a ledger that is true.
THEOREM SweepsReclaim == ArtSpec => ResidueReclaimed
<1>1. ArtInit => QuotaIInv
  BY QuotaInitHolds
<1>2. ArtIInv /\ QuotaIInv /\ [ArtNext]_artVars => QuotaIInv'
  BY QuotaStep
<1>3. ArtIInv /\ QuotaIInv /\ [ArtNext]_artVars =>
         [artLock.pc # "stage" /\ artLock'.pc = "stage" => SweptClean(artDisk')]_artVars
  BY QuotaStep
<1> QED BY <1>1, <1>2, <1>3, ArtInvariant, PTL DEF ArtSpec, ResidueReclaimed
==============================================================================
