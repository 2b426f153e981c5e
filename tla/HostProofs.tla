----------------------------- MODULE HostProofs -----------------------------
(***************************************************************************)
(* Proofs about what one process does to the next through the store: the   *)
(* workspace write fence (module WorkspaceFence), for any writers, Runs    *)
(* and processes and any number of tools, outside edits and crashes; and   *)
(* calls of Blueprints (module ChildRuns), for a chain of Runs of any      *)
(* depth and any number of crashes.                                        *)
(***************************************************************************)
EXTENDS WorkspaceFence, ChildRuns, SequenceTheorems, TLAPS

\* What has a process, and what a process has.
LEMMA HostsExist ==
  /\ \A w \in Writers : HostOf[w] \in Hosts /\ RunOf[w] \in WRuns /\ w \in OfHost(HostOf[w])
  /\ \A r \in WRuns : HostOfRun(r) \in Hosts
<1>1. \A w \in Writers : HostOf[w] \in Hosts /\ RunOf[w] \in WRuns /\ w \in OfHost(HostOf[w])
  BY DEF Hosts, WRuns, OfHost
<1>2. ASSUME NEW r \in WRuns PROVE HostOfRun(r) \in Hosts
  <2>1. \E w \in Writers : RunOf[w] = r
    BY DEF WRuns
  <2> QED BY <2>1, <1>1 DEF HostOfRun
<1> QED BY <1>1, <1>2

\* What the guard does to its record.
LEMMA GuardTypes ==
  /\ NoGuard \in WriteGuards
  /\ \A n \in Nat : [NoGuard EXCEPT !.observed = n] \in WriteGuards
  /\ \A g \in WriteGuards :
       /\ \A b \in BOOLEAN : [g EXCEPT !.quiescent = b] \in WriteGuards
       /\ [g EXCEPT !.conflicted = TRUE] \in WriteGuards
       /\ ~(g.active > 0) => [g EXCEPT !.active = @ + 1] \in WriteGuards
       /\ g.active # 0 => /\ [g EXCEPT !.active = @ - 1, !.conflicted = TRUE] \in WriteGuards
                          /\ \A n \in Nat : [g EXCEPT !.active = @ - 1, !.observed = n] \in WriteGuards
<1>1. NoGuard \in WriteGuards /\ \A n \in Nat : [NoGuard EXCEPT !.observed = n] \in WriteGuards
  <2>1. 0 \in 0..1 /\ 0 \in Nat
    OBVIOUS
  <2>2. NoGuard \in WriteGuards
    BY <2>1, Zenon DEF WriteGuards, NoGuard
  <2>3. \A g \in WriteGuards, n \in Nat : [g EXCEPT !.observed = n] \in WriteGuards
    BY DEF WriteGuards
  <2> QED BY <2>2, <2>3
<1>2. ASSUME NEW g \in WriteGuards
      PROVE  /\ \A b \in BOOLEAN : [g EXCEPT !.quiescent = b] \in WriteGuards
             /\ [g EXCEPT !.conflicted = TRUE] \in WriteGuards
  BY DEF WriteGuards
<1>3. ASSUME NEW g \in WriteGuards, ~(g.active > 0)
      PROVE  [g EXCEPT !.active = @ + 1] \in WriteGuards
  <2>1. g.active + 1 \in 0..1
    BY <1>3 DEF WriteGuards
  <2> QED BY <2>1 DEF WriteGuards
<1>4. ASSUME NEW g \in WriteGuards, g.active # 0
      PROVE  /\ [g EXCEPT !.active = @ - 1, !.conflicted = TRUE] \in WriteGuards
             /\ \A n \in Nat : [g EXCEPT !.active = @ - 1, !.observed = n] \in WriteGuards
  <2>1. g.active - 1 \in 0..1
    BY <1>4 DEF WriteGuards
  <2> QED BY <2>1 DEF WriteGuards
<1> QED BY <1>1, <1>2, <1>3, <1>4

\* And the bounded counters to theirs.
LEMMA CountTypes ==
  ASSUME NEW c \in Counts
  PROVE  /\ \A w \in Writers : [c EXCEPT !.tools[w] = @ + 1] \in Counts
         /\ c.outside < MaxOutside => [c EXCEPT !.outside = @ + 1] \in Counts
         /\ c.crashes < MaxCrashes => [c EXCEPT !.crashes = @ + 1] \in Counts
<1>1. \A w \in Writers : [c EXCEPT !.tools[w] = @ + 1] \in Counts
  <2>1. \A w \in Writers : [c.tools EXCEPT ![w] = @ + 1] \in [Writers -> Nat]
    BY DEF Counts
  <2>2. \A f \in [Writers -> Nat] : [c EXCEPT !.tools = f] \in Counts
    BY DEF Counts
  <2> QED BY <2>1, <2>2
<1>2. c.outside < MaxOutside => [c EXCEPT !.outside = @ + 1] \in Counts
  BY FenceAssumption DEF Counts
<1>3. c.crashes < MaxCrashes => [c EXCEPT !.crashes = @ + 1] \in Counts
  BY FenceAssumption DEF Counts
<1> QED BY <1>1, <1>2, <1>3

\* Releasing a ticket keeps the queues well formed.
LEMMA ReleaseKeepsLine ==
  ASSUME LineOK, NEW w \in Writers, Release(w)
  PROVE  LineOK'
<1> DEFINE p == HostOf[w]
           i == TicketOf(w)
           q == [line[p] EXCEPT ![i].released = TRUE]
<1>1. p \in Hosts
  BY HostsExist
<1>2. line' = [line EXCEPT ![p] = q]
  BY DEF Release
<1>3. line[p] \in Seq(Tickets(p))
  BY <1>1 DEF LineOK
<1>4. q \in Seq(Tickets(p))
  <2> HIDE DEF p, i
  <2>0. DOMAIN line[p] = 1 .. Len(line[p])
    BY <1>3, LenProperties
  <2>1. CASE i \in 1 .. Len(line[p])
    <3>1. line[p][i] \in Tickets(p)
      BY <1>3, <2>1, ElementOfSeq
    <3>2. [line[p][i] EXCEPT !.released = TRUE] \in Tickets(p)
      BY <3>1 DEF Tickets
    <3> QED BY <1>3, <2>1, <3>2, ExceptSeq
  <2>2. CASE i \notin 1 .. Len(line[p])
    <3>1. line[p] \in [1 .. Len(line[p]) -> Tickets(p)]
      BY <1>3, LenProperties
    <3>2. q = line[p]
      BY <2>0, <2>2, <3>1
    <3> QED BY <1>3, <3>2
  <2> QED BY <2>1, <2>2
<1> HIDE DEF q, p
<1> QED BY <1>1, <1>2, <1>4 DEF LineOK, Tickets, OfHost

\* A new ticket too.
LEMMA EnqueueKeepsLine ==
  ASSUME LineOK, NEW w \in Writers, Enqueue(w)
  PROVE  LineOK'
<1> DEFINE p == HostOf[w]
           q == Append(line[p], [of |-> w, released |-> FALSE])
<1>1. p \in Hosts /\ w \in OfHost(p)
  BY HostsExist
<1>2. line' = [line EXCEPT ![p] = q]
  BY DEF Enqueue
<1>3. q \in Seq(Tickets(p))
  <2>1. [of |-> w, released |-> FALSE] \in Tickets(p)
    BY <1>1 DEF Tickets
  <2>2. line[p] \in Seq(Tickets(p))
    BY <1>1 DEF LineOK
  <2> HIDE DEF p
  <2> QED BY <2>1, <2>2
<1> HIDE DEF q, p
<1> QED BY <1>1, <1>2, <1>3 DEF LineOK, Tickets, OfHost

\* The step of a writer before and at the acquisition is well formed.
LEMMA AcquireTypes ==
  ASSUME FenceTypeOK, NEW w \in Writers,
         Enqueue(w) \/ AbortQueued(w) \/ AcquireBusy(w) \/ AcquireUnobservable(w)
         \/ AcquireFenced(w) \/ Acquire(w)
  PROVE  FenceTypeOK'
<1>0. LineOK
  BY DEF FenceTypeOK
<1>1. CASE Enqueue(w)
  <2>1. LineOK'
    BY <1>0, <1>1, EnqueueKeepsLine
  <2> QED BY <1>1, <2>1 DEF Enqueue, FenceTypeOK
<1>2. ASSUME NEW as \in {"result", "recovery"}, Refused(w, as),
             UNCHANGED <<holder, dead>> \/ GiveBack
      PROVE  FenceTypeOK'
  <2>1. LineOK'
    BY <1>0, <1>2, ReleaseKeepsLine DEF Refused
  <2> QED BY <1>2, <2>1 DEF Refused, GiveBack, LeaseHolders, FenceTypeOK
<1>3. CASE AbortQueued(w) \/ AcquireBusy(w) \/ AcquireUnobservable(w) \/ AcquireFenced(w)
  BY <1>2, <1>3 DEF AbortQueued, AcquireBusy, AcquireUnobservable, AcquireFenced, StoppedAs, RefusedAs
<1>4. CASE Acquire(w)
  BY <1>0, <1>4, GuardTypes DEF Acquire, LeaseHolders, FenceTypeOK, LineOK
<1> QED BY <1>1, <1>3, <1>4

\* So is its work: the guard counts one tool at a time.
LEMMA WorkTypes ==
  ASSUME FenceTypeOK, NEW w \in Writers,
         StopHeld(w) \/ Dispatch(w) \/ TeamTool(w) \/ FinishWriter(w)
         \/ (\E observable \in BOOLEAN : BeforeTool(w, observable) \/ AfterTool(w, observable))
         \/ \E e \in Endings(w) : EndWork(w, e)
  PROVE  FenceTypeOK'
<1>0. LineOK
  BY DEF FenceTypeOK
<1>1. CASE StopHeld(w)
  BY <1>1 DEF StopHeld, StoppedAs, RefusedAs, FenceTypeOK, LineOK
<1>2. CASE Dispatch(w)
  <2>1. guard' \in [Writers -> WriteGuards]
    BY <1>2, GuardTypes DEF Dispatch, FenceTypeOK
  <2> QED BY <1>2, <2>1 DEF Dispatch, FenceTypeOK, LineOK
<1>3. CASE TeamTool(w)
  <2>1. count' \in Counts
    BY <1>3, CountTypes DEF TeamTool, FenceTypeOK
  <2> QED BY <1>3, <2>1 DEF TeamTool, FenceTypeOK, LineOK
<1>4. CASE FinishWriter(w)
  <2>1. LineOK'
    BY <1>0, <1>4, ReleaseKeepsLine DEF FinishWriter
  <2> QED BY <1>4, <2>1 DEF FinishWriter, StillFenced, LeaseHolders, FenceTypeOK
<1>5. ASSUME NEW observable \in BOOLEAN, BeforeTool(w, observable) PROVE FenceTypeOK'
  <2>1. count' \in Counts
    BY <1>5, CountTypes DEF BeforeTool, FenceTypeOK
  <2>2. guard[w] \in WriteGuards
    BY DEF FenceTypeOK
  <2>3. guard' \in [Writers -> WriteGuards]
    <3>1. CASE Clashes(w) \/ ~observable
      <4>1. guard' = [guard EXCEPT ![w] = [guard[w] EXCEPT !.conflicted = TRUE]]
        BY <1>5, <3>1 DEF BeforeTool
      <4>2. [guard[w] EXCEPT !.conflicted = TRUE] \in WriteGuards
        BY <2>2, GuardTypes
      <4> QED BY <4>1, <4>2 DEF FenceTypeOK
    <3>2. CASE ~(Clashes(w) \/ ~observable)
      <4>1. [guard[w] EXCEPT !.active = @ + 1] \in WriteGuards
        BY <2>2, <3>2, GuardTypes DEF Clashes
      <4>2. guard' = [guard EXCEPT ![w] = [guard[w] EXCEPT !.active = @ + 1]]
        BY <1>5, <3>2 DEF BeforeTool
      <4> QED BY <4>1, <4>2 DEF FenceTypeOK
    <3> QED BY <3>1, <3>2
  <2>4. effects' \in [Writers -> Nat]
    BY <1>5 DEF BeforeTool, FenceTypeOK
  <2> QED BY <1>5, <2>1, <2>3, <2>4 DEF BeforeTool, FenceTypeOK, LineOK
<1>6. ASSUME NEW observable \in BOOLEAN, AfterTool(w, observable) PROVE FenceTypeOK'
  <2>1. guard[w] \in WriteGuards /\ content + 1 \in Nat
    BY DEF FenceTypeOK
  <2>2. guard' \in [Writers -> WriteGuards]
    <3>1. CASE guard[w].active = 0
      BY <1>6, <3>1 DEF AfterTool, FenceTypeOK
    <3>2. CASE guard[w].active # 0 /\ observable
      BY <1>6, <2>1, <3>2, GuardTypes DEF AfterTool, FenceTypeOK
    <3>3. CASE guard[w].active # 0 /\ ~observable
      BY <1>6, <2>1, <3>3, GuardTypes DEF AfterTool, FenceTypeOK
    <3> QED BY <3>1, <3>2, <3>3
  <2>3. effects' \in [Writers -> Nat] /\ content' \in Nat
    BY <1>6 DEF AfterTool, FenceTypeOK
  <2> QED BY <1>6, <2>2, <2>3 DEF AfterTool, FenceTypeOK, LineOK
<1>7. ASSUME NEW e \in Endings(w), EndWork(w, e) PROVE FenceTypeOK'
  <2>1. e.quiescent \in BOOLEAN /\ e.as \in {"result", "recovery"}
    BY DEF Endings
  <2>2. guard' \in [Writers -> WriteGuards]
    BY <1>7, <2>1, GuardTypes DEF EndWork, FenceTypeOK
  <2> QED BY <1>7, <2>1, <2>2 DEF EndWork, FenceTypeOK, LineOK
<1> QED BY <1>1, <1>2, <1>3, <1>4, <1>5, <1>6, <1>7

\* And what Runs, processes, operators and people do.
LEMMA RunAndHostTypes ==
  ASSUME FenceTypeOK,
         \/ \E r \in WRuns : EndRun(r) \/ ResolveUnfenced(r) \/ OpenReview(r)
         \/ \E p \in Hosts : CrashHost(p) \/ SettleReview(p) \/ CloseReview(p)
         \/ EditOutside \/ UNCHANGED fenceVars
  PROVE  FenceTypeOK'
<1>1. ASSUME NEW r \in WRuns, EndRun(r) PROVE FenceTypeOK'
  BY <1>1 DEF EndRun, FenceTypeOK, LineOK
<1>2. ASSUME NEW r \in WRuns, ResolveUnfenced(r) PROVE FenceTypeOK'
  BY <1>2 DEF ResolveUnfenced, Settle, LeaseHolders, FenceTypeOK, LineOK
<1>3. ASSUME NEW r \in WRuns, OpenReview(r) PROVE FenceTypeOK'
  <2>1. HostOfRun(r) \in Hosts
    BY HostsExist
  <2> QED BY <1>3, <2>1 DEF OpenReview, LeaseHolders, Operators, FenceTypeOK, LineOK
<1>4. ASSUME NEW p \in Hosts, CrashHost(p) PROVE FenceTypeOK'
  <2>1. LineOK'
    BY <1>4 DEF CrashHost, FenceTypeOK, LineOK
  <2>2. count' \in Counts
    BY <1>4, CountTypes DEF CrashHost, FenceTypeOK
  <2>3. guard' \in [Writers -> WriteGuards]
    BY <1>4, GuardTypes DEF CrashHost, FenceTypeOK
  <2> QED BY <1>4, <2>1, <2>2, <2>3 DEF CrashHost, FenceTypeOK
<1>5. ASSUME NEW p \in Hosts, SettleReview(p) PROVE FenceTypeOK'
  BY <1>5 DEF SettleReview, Settle, FenceTypeOK, LineOK
<1>6. ASSUME NEW p \in Hosts, CloseReview(p) PROVE FenceTypeOK'
  BY <1>6 DEF CloseReview, LeaseHolders, FenceTypeOK, LineOK
<1>7. CASE EditOutside
  <2>1. count' \in Counts
    BY <1>7, CountTypes DEF EditOutside, FenceTypeOK
  <2> QED BY <1>7, <2>1 DEF EditOutside, FenceTypeOK, LineOK
<1>8. CASE UNCHANGED fenceVars
  BY <1>8 DEF fenceVars, FenceTypeOK, LineOK
<1> QED BY <1>1, <1>2, <1>3, <1>4, <1>5, <1>6, <1>7, <1>8
-----------------------------------------------------------------------------
\* From the acquisition to its finish a writer is the holder of a live lease
\* and the one the intent names.
Live == {"held", "working", "closing"}
Covered == \A w \in Writers : step[w] \in Live => holder = w /\ ~dead /\ fence = w

\* A writer that dispatched nothing, or ends quiescent, has no effect running.
Calm ==
  \A w \in Writers :
    step[w] = "held" \/ (step[w] = "closing" /\ guard[w].quiescent) => effects[w] = 0

\* A review holds a live lease, and the intent it is going to clear is one of
\* the Run it settles, whose effects are over.
Reviewing ==
  \A p \in Hosts : review[p] # Nobody =>
    /\ holder = OperatorOf(p) /\ ~dead
    /\ fence # Nobody /\ RunOf[fence] = review[p] /\ Quiet(review[p])

\* What a guard observed is no newer than the sources, and older once somebody
\* edited them under its writer, of which no tool is then running.
Outdated ==
  /\ \A w \in Writers : step[w] \in {"held", "working"} => guard[w].observed <= content
  /\ \A w \in edited :
       /\ step[w] \notin {"new", "queued"}
       /\ step[w] \in {"held", "working"} => guard[w].active = 0 /\ guard[w].observed < content

FenceIInv == FenceTypeOK /\ EffectsAreFenced /\ Covered /\ Calm /\ Reviewing /\ Outdated

\* The names of writers and operators, and nobody's, are told apart.
LEMMA Names ==
  /\ \A w \in Writers : w # Nobody
  /\ \A w \in Writers, p \in Hosts : w # OperatorOf(p)
  /\ \A p \in Hosts : OperatorOf(p) # Nobody
  /\ \A p, q \in Hosts : OperatorOf(p) = OperatorOf(q) => p = q
<1>1. \A p \in Hosts : OperatorOf(p) \in Operators
  BY DEF Operators
<1>2. \A p, q \in Hosts : OperatorOf(p) = OperatorOf(q) => p = q
  BY DEF OperatorOf
<1> QED BY <1>1, <1>2, FenceAssumption

\* A writer that is refused or queued disturbs nothing.
LEMMA AcquireStep ==
  ASSUME FenceIInv, NEW w \in Writers,
         Enqueue(w) \/ AbortQueued(w) \/ AcquireBusy(w) \/ AcquireUnobservable(w)
         \/ AcquireFenced(w) \/ Acquire(w)
  PROVE  EffectsAreFenced' /\ Covered' /\ Calm' /\ Reviewing' /\ Outdated'
<1> USE DEF FenceIInv
<1>0. FenceTypeOK
  OBVIOUS
<1>1. CASE Enqueue(w)
  BY <1>0, <1>1 DEF Enqueue, FenceTypeOK, EffectsAreFenced, Covered, Calm, Reviewing, Quiet, Outdated, Live
<1>2. ASSUME NEW as, Refused(w, as), step[w] = "queued",
             UNCHANGED <<holder, dead>> \/ (LeaseFree /\ GiveBack)
      PROVE  EffectsAreFenced' /\ Covered' /\ Calm' /\ Reviewing' /\ Outdated'
  <2>1. EffectsAreFenced' /\ Calm'
    BY <1>0, <1>2 DEF Refused, FenceTypeOK, EffectsAreFenced, Calm
  <2>2. Covered'
    BY <1>0, <1>2, Names DEF Refused, GiveBack, LeaseFree, FenceTypeOK, Covered, Live
  <2>3. Reviewing'
    BY <1>0, <1>2, Names DEF Refused, GiveBack, LeaseFree, FenceTypeOK, Reviewing, Quiet
  <2>4. Outdated'
    BY <1>0, <1>2 DEF Refused, FenceTypeOK, Outdated
  <2> QED BY <2>1, <2>2, <2>3, <2>4
<1>3. CASE AbortQueued(w) \/ AcquireBusy(w) \/ AcquireUnobservable(w) \/ AcquireFenced(w)
  BY <1>2, <1>3 DEF AbortQueued, AcquireBusy, AcquireUnobservable, AcquireFenced
<1>4. CASE Acquire(w)
  <2>1. \A v \in Writers : effects[v] = 0 /\ step[v] \notin Live
    BY <1>0, <1>4, Names DEF Acquire, FenceTypeOK, EffectsAreFenced, Covered
  <2>2. \A p \in Hosts : review[p] = Nobody
    BY <1>0, <1>4 DEF Acquire, Reviewing
  <2>3. EffectsAreFenced' /\ Covered' /\ Calm' /\ Reviewing'
    BY <1>0, <1>4, <2>1, <2>2
       DEF Acquire, FenceTypeOK, EffectsAreFenced, Covered, Calm, Reviewing, Live
  <2>4. Outdated'
    <3>1. w \notin edited
      BY <1>4 DEF Acquire, Outdated
    <3>2. [NoGuard EXCEPT !.observed = content].observed = content
      BY DEF NoGuard
    <3> QED BY <1>0, <1>4, <2>1, <3>1, <3>2 DEF Acquire, FenceTypeOK, Outdated, Live
  <2> QED BY <2>3, <2>4
<1> QED BY <1>1, <1>3, <1>4

\* A writer at work: its tools run under its fence, and the fence goes only
\* with them.
LEMMA WorkStep ==
  ASSUME FenceIInv, NEW w \in Writers,
         StopHeld(w) \/ Dispatch(w) \/ TeamTool(w) \/ FinishWriter(w)
         \/ (\E observable \in BOOLEAN : BeforeTool(w, observable) \/ AfterTool(w, observable))
         \/ \E e \in Endings(w) : EndWork(w, e)
  PROVE  EffectsAreFenced' /\ Covered' /\ Calm' /\ Reviewing' /\ Outdated'
<1> USE DEF FenceIInv
<1>0. FenceTypeOK
  OBVIOUS
<1>a. \A v \in Writers : guard[v] \in WriteGuards
  BY DEF FenceTypeOK
<1>1. CASE StopHeld(w)
  BY <1>0, <1>1 DEF StopHeld, FenceTypeOK, EffectsAreFenced, Covered, Calm, Reviewing, Quiet, Outdated, Live
<1>2. CASE Dispatch(w)
  <2>1. EffectsAreFenced' /\ Covered' /\ Reviewing'
    BY <1>0, <1>2 DEF Dispatch, FenceTypeOK, EffectsAreFenced, Covered, Reviewing, Quiet, Live
  <2>2. Calm' /\ Outdated'
    BY <1>0, <1>a, <1>2 DEF Dispatch, FenceTypeOK, WriteGuards, Calm, Outdated
  <2> QED BY <2>1, <2>2
<1>3. CASE TeamTool(w)
  <2>1. fence = w /\ holder = w /\ \A p \in Hosts : review[p] = Nobody
    BY <1>3, Names DEF TeamTool, Covered, Live, Reviewing
  <2> QED BY <1>0, <1>3, <2>1
          DEF TeamTool, FenceTypeOK, EffectsAreFenced, Covered, Calm, Reviewing, Quiet, Outdated
<1>4. CASE FinishWriter(w)
  <2>1. fence = w /\ holder = w /\ \A p \in Hosts : review[p] = Nobody
    BY <1>4, Names DEF FinishWriter, Covered, Live, Reviewing
  <2>2. \A v \in Writers \ {w} : effects[v] = 0 /\ step[v] \notin Live
    BY <1>0, <2>1 DEF FenceTypeOK, EffectsAreFenced, Covered
  <2>3. EffectsAreFenced'
    BY <1>0, <1>4, <2>1, <2>2 DEF FinishWriter, StillFenced, FenceTypeOK, EffectsAreFenced, Calm
  <2>4. Covered' /\ Calm' /\ Reviewing' /\ Outdated'
    BY <1>0, <1>4, <2>1, <2>2 DEF FinishWriter, FenceTypeOK, Covered, Calm, Reviewing, Outdated, Live
  <2> QED BY <2>3, <2>4
<1>5. ASSUME NEW observable \in BOOLEAN, BeforeTool(w, observable)
      PROVE  EffectsAreFenced' /\ Covered' /\ Calm' /\ Reviewing' /\ Outdated'
  <2>1. fence = w /\ holder = w /\ \A p \in Hosts : review[p] = Nobody
    BY <1>5, Names DEF BeforeTool, Covered, Live, Reviewing
  <2>2. EffectsAreFenced' /\ Covered' /\ Reviewing'
    BY <1>0, <1>5, <2>1
       DEF BeforeTool, FenceTypeOK, EffectsAreFenced, Covered, Reviewing
  <2>3. Calm'
    BY <1>0, <1>5 DEF BeforeTool, FenceTypeOK, Calm
  <2>4. CASE Clashes(w) \/ ~observable
    <3>1. \A v \in Writers : guard'[v].active = guard[v].active /\ guard'[v].observed = guard[v].observed
      BY <1>0, <1>a, <1>5, <2>4 DEF BeforeTool, FenceTypeOK, WriteGuards
    <3>2. Outdated'
      BY <1>0, <1>5, <3>1 DEF BeforeTool, FenceTypeOK, Outdated
    <3> QED BY <2>2, <2>3, <3>2
  <2>5. CASE ~(Clashes(w) \/ ~observable)
    <3>1. w \notin edited
      BY <1>0, <1>5, <2>5, <1>a DEF BeforeTool, Clashes, Outdated, WriteGuards, FenceTypeOK
    <3>2. guard' = [guard EXCEPT ![w] = [guard[w] EXCEPT !.active = @ + 1]]
      BY <1>5, <2>5 DEF BeforeTool
    <3>4. \A v \in Writers \ {w} : guard'[v] = guard[v]
      BY <1>0, <3>2 DEF FenceTypeOK
    <3>5. guard'[w] = [guard[w] EXCEPT !.active = @ + 1]
      BY <1>0, <3>2 DEF FenceTypeOK
    <3>6. guard'[w].observed = guard[w].observed
      BY <1>a, <3>5 DEF WriteGuards
    <3>3. Outdated'
      BY <1>0, <1>5, <3>1, <3>4, <3>6 DEF BeforeTool, FenceTypeOK, Outdated
    <3> QED BY <2>2, <2>3, <3>3
  <2> QED BY <2>2, <2>3, <2>4, <2>5
<1>6. ASSUME NEW observable \in BOOLEAN, AfterTool(w, observable)
      PROVE  EffectsAreFenced' /\ Covered' /\ Calm' /\ Reviewing' /\ Outdated'
  <2>1. effects[w] \in Nat /\ effects' = [effects EXCEPT ![w] = @ - 1]
    BY <1>6 DEF AfterTool, FenceTypeOK
  <2>2. \A v \in Writers : effects[v] = 0 => effects'[v] = 0
    BY <1>0, <1>6, <2>1 DEF AfterTool, FenceTypeOK
  <2>3. \A v \in Writers : effects'[v] > 0 => effects[v] > 0
    BY <1>0, <2>1 DEF FenceTypeOK
  <2>4. EffectsAreFenced' /\ Covered' /\ Reviewing'
    BY <1>6, <2>2, <2>3 DEF AfterTool, EffectsAreFenced, Covered, Reviewing, Quiet, OfRun
  <2>5. \A v \in Writers : guard'[v].quiescent = guard[v].quiescent
    BY <1>0, <1>a, <1>6 DEF AfterTool, FenceTypeOK, WriteGuards
  <2>6. Calm'
    BY <1>6, <2>2, <2>5 DEF AfterTool, Calm
  <2>7. CASE guard[w].active = 0
    <3>1. Outdated'
      BY <1>0, <1>a, <1>6, <2>7 DEF AfterTool, FenceTypeOK, WriteGuards, Outdated
    <3> QED BY <2>4, <2>6, <3>1
  <2>8. CASE guard[w].active # 0
    <3>1. step[w] \in {"held", "working"} => w \notin edited
      BY <2>8 DEF Outdated
    <3>2. \A v \in Writers : guard'[v].observed \in {guard[v].observed, content + 1}
      BY <1>0, <1>a, <1>6, <2>8 DEF AfterTool, FenceTypeOK, WriteGuards
    <3>3. \A v \in Writers \ {w} : guard'[v] = guard[v]
      BY <1>0, <1>6, <2>8 DEF AfterTool, FenceTypeOK
    <3>4. Outdated'
      BY <1>0, <1>a, <1>6, <3>1, <3>2, <3>3 DEF AfterTool, FenceTypeOK, WriteGuards, Outdated
    <3> QED BY <2>4, <2>6, <3>4
  <2> QED BY <2>4, <2>6, <2>7, <2>8
<1>7. ASSUME NEW e \in Endings(w), EndWork(w, e)
      PROVE  EffectsAreFenced' /\ Covered' /\ Calm' /\ Reviewing' /\ Outdated'
  <2>1. EffectsAreFenced' /\ Covered' /\ Reviewing'
    BY <1>0, <1>7 DEF EndWork, FenceTypeOK, EffectsAreFenced, Covered, Reviewing, Quiet, Live
  <2>2. e.quiescent => effects[w] = 0
    BY DEF Endings
  <2>3. Calm' /\ Outdated'
    BY <1>0, <1>a, <1>7, <2>2 DEF EndWork, FenceTypeOK, WriteGuards, Calm, Outdated
  <2> QED BY <2>1, <2>3
<1> QED BY <1>1, <1>2, <1>3, <1>4, <1>5, <1>6, <1>7

\* Runs, crashes, operators and people.
LEMMA RunAndHostStep ==
  ASSUME FenceIInv,
         \/ \E r \in WRuns : EndRun(r) \/ ResolveUnfenced(r) \/ OpenReview(r)
         \/ \E p \in Hosts : CrashHost(p) \/ SettleReview(p) \/ CloseReview(p)
         \/ EditOutside \/ UNCHANGED fenceVars
  PROVE  EffectsAreFenced' /\ Covered' /\ Calm' /\ Reviewing' /\ Outdated'
<1> USE DEF FenceIInv
<1>0. FenceTypeOK
  OBVIOUS
<1> DEFINE Kept == EffectsAreFenced' /\ Covered' /\ Calm' /\ Reviewing' /\ Outdated'
<1>1. ASSUME NEW r \in WRuns, EndRun(r) PROVE Kept
  BY <1>1 DEF EndRun, EffectsAreFenced, Covered, Calm, Reviewing, Quiet, Outdated
<1>2. ASSUME NEW r \in WRuns, ResolveUnfenced(r) PROVE Kept
  <2>1. (holder' = holder /\ dead' = dead) \/ LeaseFree
    BY <1>2 DEF ResolveUnfenced
  <2>2. LeaseFree => /\ \A w \in Writers : step[w] \notin Live
                     /\ \A p \in Hosts : review[p] = Nobody
    BY Names DEF LeaseFree, Covered, Reviewing
  <2> QED BY <1>2, <2>1, <2>2
          DEF ResolveUnfenced, EffectsAreFenced, Covered, Calm, Reviewing, Quiet, Outdated
<1>3. ASSUME NEW r \in WRuns, OpenReview(r) PROVE Kept
  <2>1. HostOfRun(r) \in Hosts
    BY HostsExist
  <2>2. /\ \A w \in Writers : step[w] \notin Live
        /\ \A p \in Hosts : review[p] = Nobody
    BY <1>3, Names DEF OpenReview, LeaseFree, Covered, Reviewing
  <2>3. EffectsAreFenced' /\ Covered' /\ Calm' /\ Outdated'
    BY <1>3, <2>2 DEF OpenReview, EffectsAreFenced, Covered, Calm, Outdated
  <2>4. Reviewing'
    BY <1>0, <1>3, <2>1, <2>2 DEF OpenReview, FenceTypeOK, Reviewing, Quiet
  <2> QED BY <2>3, <2>4
<1>4. ASSUME NEW p \in Hosts, CrashHost(p) PROVE Kept
  <2>1. \A w \in Writers : step'[w] = IF HostOf[w] = p /\ step[w] # "new" THEN "done" ELSE step[w]
    BY <1>4 DEF CrashHost
  <2>2. \A w \in Writers : HostOf[w] # p => guard'[w] = guard[w]
    BY <1>4 DEF CrashHost
  <2>3. EffectsAreFenced' /\ Calm'
    BY <1>4, <2>1, <2>2 DEF CrashHost, EffectsAreFenced, Calm
  <2>4. Covered'
    BY <1>4, <2>1, Names DEF CrashHost, Covered, Live, OfHost
  <2>5. Reviewing'
    BY <1>0, <1>4, Names DEF CrashHost, FenceTypeOK, Reviewing, Quiet, OfHost
  <2>6. Outdated'
    BY <1>0, <1>4, <2>1, <2>2 DEF CrashHost, Outdated, OfHost, FenceTypeOK
  <2> QED BY <2>3, <2>4, <2>5, <2>6
<1>5. ASSUME NEW p \in Hosts, SettleReview(p) PROVE Kept
  BY <1>5 DEF SettleReview, EffectsAreFenced, Covered, Calm, Reviewing, Quiet, Outdated
<1>6. ASSUME NEW p \in Hosts, CloseReview(p) PROVE Kept
  <2>1. /\ holder = OperatorOf(p) /\ \A w \in Writers : step[w] \notin Live
        /\ \A q \in Hosts \ {p} : review[q] = Nobody
    BY <1>6, Names DEF CloseReview, Covered, Reviewing
  <2>2. fence # Nobody /\ RunOf[fence] = review[p] /\ Quiet(review[p])
    BY <1>6 DEF CloseReview, Reviewing
  <2>3. \A w \in Writers : ~(effects[w] > 0)
    BY <1>0, <2>2 DEF EffectsAreFenced, Quiet, OfRun, FenceTypeOK
  <2>4. EffectsAreFenced' /\ Covered' /\ Calm' /\ Outdated'
    BY <1>6, <2>1, <2>3 DEF CloseReview, EffectsAreFenced, Covered, Calm, Outdated
  <2>5. Reviewing'
    BY <1>0, <1>6, <2>1 DEF CloseReview, FenceTypeOK, Reviewing
  <2> QED BY <2>4, <2>5
<1>7. ASSUME EditOutside PROVE Kept
  <2>1. EffectsAreFenced' /\ Covered' /\ Calm' /\ Reviewing'
    BY <1>7 DEF EditOutside, EffectsAreFenced, Covered, Calm, Reviewing, Quiet
  <2>2. \A w \in Writers : guard[w] \in WriteGuards
    BY <1>0 DEF FenceTypeOK
  <2>3. Outdated'
    BY <1>0, <1>7, <2>2 DEF EditOutside, FenceTypeOK, WriteGuards, Outdated
  <2> QED BY <2>1, <2>3
<1>8. ASSUME UNCHANGED fenceVars PROVE Kept
  BY <1>8 DEF fenceVars, EffectsAreFenced, Covered, Calm, Reviewing, Quiet, Outdated
<1> HIDE DEF Kept
<1> SUFFICES Kept
  BY DEF Kept
<1> QED BY <1>1, <1>2, <1>3, <1>4, <1>5, <1>6, <1>7, <1>8

\* The invariant is inductive.
LEMMA FenceInductive ==
  /\ FenceInit => FenceIInv
  /\ FenceIInv /\ [FenceNext]_fenceVars => FenceIInv'
<1>1. FenceInit => FenceIInv
  <2> SUFFICES ASSUME FenceInit PROVE FenceIInv
    OBVIOUS
  <2>1. LineOK
    BY DEF FenceInit, LineOK
  <2>2. count \in Counts
    BY FenceAssumption DEF FenceInit, Counts
  <2>3. guard \in [Writers -> WriteGuards]
    BY GuardTypes DEF FenceInit
  <2>4. FenceTypeOK
    BY <2>1, <2>2, <2>3 DEF FenceInit, FenceTypeOK, LeaseHolders
  <2>5. EffectsAreFenced /\ Covered /\ Calm /\ Reviewing /\ Outdated
    BY DEF FenceInit, EffectsAreFenced, Covered, Calm, Reviewing, Outdated, Live
  <2> QED BY <2>4, <2>5 DEF FenceIInv
<1>2. ASSUME FenceIInv, [FenceNext]_fenceVars PROVE FenceIInv'
  <2> DEFINE OnTheWay(w) == Enqueue(w) \/ AbortQueued(w) \/ AcquireBusy(w) \/ AcquireUnobservable(w)
                            \/ AcquireFenced(w) \/ Acquire(w)
             AtWork(w) == StopHeld(w) \/ Dispatch(w) \/ TeamTool(w) \/ FinishWriter(w)
                          \/ (\E observable \in BOOLEAN : BeforeTool(w, observable) \/ AfterTool(w, observable))
                          \/ \E e \in Endings(w) : EndWork(w, e)
             Around == \/ \E r \in WRuns : EndRun(r) \/ ResolveUnfenced(r) \/ OpenReview(r)
                       \/ \E p \in Hosts : CrashHost(p) \/ SettleReview(p) \/ CloseReview(p)
                       \/ EditOutside \/ UNCHANGED fenceVars
  <2>1. (\E w \in Writers : OnTheWay(w) \/ AtWork(w)) \/ Around
    BY <1>2 DEF FenceNext
  <2>2. FenceTypeOK
    BY <1>2 DEF FenceIInv
  <2>3. ASSUME NEW w \in Writers, OnTheWay(w) PROVE FenceIInv'
    BY <1>2, <2>2, <2>3, AcquireTypes, AcquireStep DEF FenceIInv
  <2>4. ASSUME NEW w \in Writers, AtWork(w) PROVE FenceIInv'
    BY <1>2, <2>2, <2>4, WorkTypes, WorkStep DEF FenceIInv
  <2>5. CASE Around
    BY <1>2, <2>2, <2>5, RunAndHostTypes, RunAndHostStep DEF FenceIInv
  <2> HIDE DEF OnTheWay, AtWork, Around
  <2> QED BY <2>1, <2>3, <2>4, <2>5
<1> QED BY <1>1, <1>2

\* A tool effect that may still write is fenced, for any writers and processes
\* and whatever crashes, reviews and refusals come in between.
THEOREM EffectsStayFenced == FenceSpec => []FenceInv
<1>1. FenceIInv => FenceInv
  BY DEF FenceIInv, FenceInv
<1> QED BY <1>1, FenceInductive, PTL DEF FenceSpec

\* No Attempt of an Agent writes over what somebody changed between two of its
\* tools: its guard is out of date from then on and refuses every further one.
THEOREM OutsideEditsKept == FenceSpec => OutsideEditKept
<1>1. FenceIInv /\ [FenceNext]_fenceVars =>
        [\A w \in Writers : (w \in edited /\ KindOf[w] = "agent") => effects'[w] <= effects[w]]_fenceVars
  <2> SUFFICES ASSUME FenceIInv, FenceNext, NEW w \in edited, KindOf[w] = "agent"
               PROVE  effects'[w] <= effects[w]
    BY DEF FenceIInv
  <2>0. FenceTypeOK /\ w \in Writers /\ effects[w] \in Nat
    BY DEF FenceIInv, FenceTypeOK
  <2>1. CASE UNCHANGED effects
    BY <2>0, <2>1
  <2>2. ASSUME NEW v \in Writers, TeamTool(v) PROVE effects'[w] <= effects[w]
    BY <2>0, <2>2 DEF TeamTool, FenceTypeOK
  <2>3. ASSUME NEW v \in Writers, NEW observable \in BOOLEAN, AfterTool(v, observable)
        PROVE  effects'[w] <= effects[w]
    BY <2>0, <2>3 DEF AfterTool, FenceTypeOK
  <2>4. ASSUME NEW v \in Writers, NEW observable \in BOOLEAN, BeforeTool(v, observable)
        PROVE  effects'[w] <= effects[w]
    <3>1. CASE v # w
      BY <2>0, <2>4, <3>1 DEF BeforeTool, FenceTypeOK
    <3>2. CASE v = w
      <4>1. guard[w].observed < content /\ guard[w] \in WriteGuards /\ content \in Nat
        BY <2>0, <2>4, <3>2 DEF BeforeTool, FenceIInv, Outdated, FenceTypeOK
      <4>2. Clashes(w)
        BY <4>1 DEF Clashes, WriteGuards
      <4> QED BY <2>0, <2>4, <3>2, <4>2 DEF BeforeTool
    <3> QED BY <3>1, <3>2
  <2>5. ASSUME NEW v \in Writers,
               Enqueue(v) \/ AbortQueued(v) \/ AcquireBusy(v) \/ AcquireUnobservable(v)
               \/ AcquireFenced(v) \/ Acquire(v) \/ StopHeld(v) \/ Dispatch(v) \/ FinishWriter(v)
               \/ \E e \in Endings(v) : EndWork(v, e)
        PROVE  UNCHANGED effects
    BY <2>5 DEF Enqueue, AbortQueued, AcquireBusy, AcquireUnobservable, AcquireFenced, Acquire,
                Refused, StopHeld, Dispatch, FinishWriter, EndWork
  <2>6. ASSUME NEW r \in WRuns, EndRun(r) \/ ResolveUnfenced(r) \/ OpenReview(r) PROVE UNCHANGED effects
    BY <2>6 DEF EndRun, ResolveUnfenced, OpenReview
  <2>7. ASSUME NEW p \in Hosts, CrashHost(p) \/ SettleReview(p) \/ CloseReview(p) PROVE UNCHANGED effects
    BY <2>7 DEF CrashHost, SettleReview, CloseReview
  <2>8. CASE EditOutside
    BY <2>1, <2>8 DEF EditOutside
  <2> QED BY <2>1, <2>2, <2>3, <2>4, <2>5, <2>6, <2>7, <2>8 DEF FenceNext
<1> QED BY <1>1, FenceInductive, PTL DEF FenceSpec, OutsideEditKept
-----------------------------------------------------------------------------
\* The queue of a process: a writer has one ticket, unreleased until it is
\* refused or finishes, and works only when every earlier ticket is released.
\* A live lease of a writer is held by one that works.
Queues ==
  /\ \A p \in Hosts : \A i, j \in DOMAIN line[p] : line[p][i].of = line[p][j].of => i = j
  /\ \A w \in Writers : step[w] = "new" =>
       \A i \in DOMAIN line[HostOf[w]] : line[HostOf[w]][i].of # w
  /\ \A w \in Writers : step[w] \in Live \cup {"queued"} =>
       \E i \in DOMAIN line[HostOf[w]] : line[HostOf[w]][i].of = w /\ ~line[HostOf[w]][i].released
  /\ \A w \in Writers : step[w] \in Live =>
       \A i, j \in DOMAIN line[HostOf[w]] :
         line[HostOf[w]][i].of = w /\ j < i => line[HostOf[w]][j].released
  /\ \A w \in Writers : holder = w /\ ~dead => step[w] \in Live

\* A ticket that is there is the one found.
LEMMA TicketFound ==
  ASSUME NEW w \in Writers, NEW i \in DOMAIN line[HostOf[w]], line[HostOf[w]][i].of = w
  PROVE  TicketOf(w) \in DOMAIN line[HostOf[w]] /\ line[HostOf[w]][TicketOf(w)].of = w
BY DEF TicketOf

\* What Release does to the queues: one flag of one ticket of its writer.
LEMMA ReleaseEffect ==
  ASSUME LineOK, NEW w \in Writers, Release(w),
         NEW k \in DOMAIN line[HostOf[w]], line[HostOf[w]][k].of = w,
         NEW p \in Hosts
  PROVE  /\ DOMAIN line'[p] = DOMAIN line[p]
         /\ \A i \in DOMAIN line[p] :
              /\ line'[p][i].of = line[p][i].of
              /\ line[p][i].released => line'[p][i].released
              /\ line[p][i].of # w => line'[p][i].released = line[p][i].released
<1> DEFINE h == HostOf[w]
           t == TicketOf(w)
           e == [line[h][t] EXCEPT !.released = TRUE]
<1>1. h \in Hosts /\ t \in DOMAIN line[h] /\ line[h][t].of = w
  BY HostsExist, TicketFound
<1>2. line' = [line EXCEPT ![h] = [line[h] EXCEPT ![t] = e]]
  BY DEF Release
<1>3. line[h] \in Seq(Tickets(h)) /\ DOMAIN line = Hosts
  BY <1>1 DEF LineOK
<1>4. line[h][t] \in Tickets(h)
  BY <1>1, <1>3, LenProperties, ElementOfSeq
<1>5. e.of = line[h][t].of /\ e.released = TRUE
  BY <1>4 DEF Tickets
<1> HIDE DEF e, t, h
<1>6. CASE p # h
  BY <1>2, <1>3, <1>6
<1>7. CASE p = h
  <2>1. line'[p] = [line[p] EXCEPT ![t] = e]
    BY <1>1, <1>2, <1>3, <1>7
  <2> QED BY <1>1, <1>5, <1>7, <2>1
<1> QED BY <1>6, <1>7

\* The parts of Queues, for a writer.
LEMMA QueuesByWriter ==
  ASSUME FenceTypeOK, Queues, NEW w \in Writers
  PROVE  /\ HostOf[w] \in Hosts
         /\ DOMAIN line[HostOf[w]] = 1 .. Len(line[HostOf[w]]) /\ Len(line[HostOf[w]]) \in Nat
<1>1. HostOf[w] \in Hosts
  BY HostsExist
<1>2. line[HostOf[w]] \in Seq(Tickets(HostOf[w]))
  BY <1>1 DEF FenceTypeOK, LineOK
<1> QED BY <1>1, <1>2, LenProperties

\* A released ticket, with its writer out of the way.
LEMMA ReleaseQueues ==
  ASSUME FenceTypeOK, Queues, NEW w \in Writers, step[w] \in Live \cup {"queued"}, Release(w),
         step' = [step EXCEPT ![w] = "done"],
         \A v \in Writers : holder' = v /\ ~dead' => v # w /\ holder = v /\ ~dead
  PROVE  Queues'
<1>1. LineOK
  BY DEF FenceTypeOK
<1>2. PICK k \in DOMAIN line[HostOf[w]] : line[HostOf[w]][k].of = w
  BY DEF Queues
<1>3. \A p \in Hosts :
        /\ DOMAIN line'[p] = DOMAIN line[p]
        /\ \A i \in DOMAIN line[p] :
             /\ line'[p][i].of = line[p][i].of
             /\ line[p][i].released => line'[p][i].released
             /\ line[p][i].of # w => line'[p][i].released = line[p][i].released
  BY <1>1, <1>2, ReleaseEffect
<1>4. \A v \in Writers : step'[v] = IF v = w THEN "done" ELSE step[v]
  BY DEF FenceTypeOK
<1>5. \A v \in Writers : HostOf[v] \in Hosts
  BY HostsExist
<1>6. \A p \in Hosts : \A i, j \in DOMAIN line'[p] : line'[p][i].of = line'[p][j].of => i = j
  BY <1>3 DEF Queues
<1>7. ASSUME NEW v \in Writers, step'[v] = "new"
      PROVE  \A i \in DOMAIN line'[HostOf[v]] : line'[HostOf[v]][i].of # v
  <2>1. step[v] = "new"
    BY <1>4, <1>7
  <2>2. \A i \in DOMAIN line[HostOf[v]] : line[HostOf[v]][i].of # v
    BY <2>1 DEF Queues
  <2> QED BY <1>3, <1>5, <2>2
<1>8. ASSUME NEW v \in Writers, step'[v] \in Live \cup {"queued"}
      PROVE  \E i \in DOMAIN line'[HostOf[v]] : line'[HostOf[v]][i].of = v /\ ~line'[HostOf[v]][i].released
  <2>1. v # w /\ step[v] \in Live \cup {"queued"}
    BY <1>4, <1>8 DEF Live
  <2>2. PICK i \in DOMAIN line[HostOf[v]] : line[HostOf[v]][i].of = v /\ ~line[HostOf[v]][i].released
    BY <2>1 DEF Queues
  <2> QED BY <1>3, <1>5, <2>1, <2>2
<1>9. ASSUME NEW v \in Writers, step'[v] \in Live,
             NEW i \in DOMAIN line'[HostOf[v]], NEW j \in DOMAIN line'[HostOf[v]],
             line'[HostOf[v]][i].of = v, j < i
      PROVE  line'[HostOf[v]][j].released
  <2>1. step[v] \in Live
    BY <1>4, <1>9 DEF Live
  <2>2. i \in DOMAIN line[HostOf[v]] /\ j \in DOMAIN line[HostOf[v]] /\ line[HostOf[v]][i].of = v
    BY <1>3, <1>5, <1>9
  <2>3. line[HostOf[v]][j].released
    BY <1>9, <2>1, <2>2 DEF Queues
  <2> QED BY <1>3, <1>5, <2>2, <2>3
<1>10. \A v \in Writers : holder' = v /\ ~dead' => step'[v] \in Live
  BY <1>4 DEF Queues
<1> QED BY <1>6, <1>7, <1>8, <1>9, <1>10 DEF Queues

\* A step that leaves the queues and who is in them alone.
LEMMA SameQueues ==
  ASSUME FenceTypeOK, Queues, line' = line,
         \A v \in Writers : \/ step'[v] = step[v]
                            \/ step'[v] \in Live /\ step[v] \in Live,
         \A v \in Writers : holder' = v /\ ~dead' => holder = v /\ ~dead
  PROVE  Queues'
<1>1. \A v \in Writers : /\ step'[v] = "new" => step[v] = "new"
                         /\ step'[v] \in Live \cup {"queued"} => step[v] \in Live \cup {"queued"}
                         /\ step'[v] \in Live => step[v] \in Live
                         /\ step[v] \in Live => step'[v] \in Live
  BY DEF Live
<1> QED BY <1>1 DEF Queues

\* Every step keeps the queues.
LEMMA QueuesStep ==
  ASSUME FenceIInv, Queues, [FenceNext]_fenceVars
  PROVE  Queues'
<1>0. FenceTypeOK /\ LineOK /\ Covered
  BY DEF FenceIInv, FenceTypeOK
<1>1. ASSUME NEW w \in Writers, Enqueue(w) PROVE Queues'
  <2> DEFINE p == HostOf[w]
             s == line[p]
             n == Len(s)
             e == [of |-> w, released |-> FALSE]
  <2>1. p \in Hosts /\ s \in Seq(Tickets(p)) /\ w \in OfHost(p)
    BY <1>0, HostsExist DEF LineOK
  <2>2. line' = [line EXCEPT ![p] = Append(s, e)] /\ step' = [step EXCEPT ![w] = "queued"]
        /\ step[w] = "new" /\ UNCHANGED <<holder, dead>>
    BY <1>1 DEF Enqueue
  <2>3. e \in Tickets(p) /\ e.of = w /\ ~e.released
    BY <2>1 DEF Tickets
  <2> HIDE DEF e
  <2>4. n \in Nat /\ DOMAIN s = 1 .. n
    BY <2>1, LenProperties
  <2>5. line'[p] = Append(s, e) /\ \A q \in Hosts \ {p} : line'[q] = line[q]
    BY <1>0, <2>1, <2>2 DEF LineOK
  <2> HIDE DEF p, s
  <2>6. /\ DOMAIN Append(s, e) = 1 .. (n + 1)
        /\ \A i \in 1 .. n : Append(s, e)[i] = s[i]
        /\ Append(s, e)[n + 1] = e
    BY <2>1, <2>3, <2>4
  <2> HIDE DEF n
  <2>7. \A i \in DOMAIN s : s[i].of # w
    BY <2>2 DEF Queues, p, s
  <2>8. \A v \in Writers : step'[v] = IF v = w THEN "queued" ELSE step[v]
    BY <1>0, <2>2 DEF FenceTypeOK
  <2>9. \A v \in Writers : HostOf[v] \in Hosts
    BY HostsExist
  <2>10. ASSUME NEW q \in Hosts, NEW i \in DOMAIN line'[q], NEW j \in DOMAIN line'[q],
                line'[q][i].of = line'[q][j].of
         PROVE  i = j
    <3>1. CASE q = p
      <4>1. \A k, l \in 1 .. n : s[k].of = s[l].of => k = l
        BY <2>1, <2>4 DEF Queues, s
      <4>2. i \in 1 .. (n + 1) /\ j \in 1 .. (n + 1) /\ Append(s, e)[i].of = Append(s, e)[j].of
        BY <2>5, <2>6, <2>10, <3>1
      <4>3. \A k \in 1 .. n : Append(s, e)[k].of = s[k].of /\ s[k].of # w
        BY <2>4, <2>6, <2>7
      <4>4. Append(s, e)[n + 1].of = w
        BY <2>3, <2>6
      <4>5. \A k \in 1 .. (n + 1) : k \in 1 .. n \/ k = n + 1
        BY <2>4
      <4> QED BY <4>1, <4>2, <4>3, <4>4, <4>5
    <3>2. CASE q # p
      BY <2>5, <2>10, <3>2 DEF Queues
    <3> QED BY <3>1, <3>2
  <2>11. ASSUME NEW v \in Writers, step'[v] = "new", NEW i \in DOMAIN line'[HostOf[v]]
         PROVE  line'[HostOf[v]][i].of # v
    <3>1. v # w /\ step[v] = "new"
      BY <2>8, <2>11
    <3>2. CASE HostOf[v] = p
      <4>1. \A k \in DOMAIN s : s[k].of # v
        BY <3>1, <3>2 DEF Queues, s
      <4>2. i \in 1 .. (n + 1) /\ line'[HostOf[v]] = Append(s, e)
        BY <2>5, <2>6, <2>11, <3>2
      <4>3. CASE i = n + 1
        BY <2>3, <2>6, <3>1, <4>2, <4>3
      <4>4. CASE i \in 1 .. n
        BY <2>4, <2>6, <4>1, <4>2, <4>4
      <4> QED BY <2>4, <4>2, <4>3, <4>4
    <3>3. CASE HostOf[v] # p
      BY <2>5, <2>9, <2>11, <3>1, <3>3 DEF Queues
    <3> QED BY <3>2, <3>3
  <2>12. ASSUME NEW v \in Writers, step'[v] \in Live \cup {"queued"}
         PROVE  \E i \in DOMAIN line'[HostOf[v]] :
                  line'[HostOf[v]][i].of = v /\ ~line'[HostOf[v]][i].released
    <3>1. CASE v = w
      <4>1. n + 1 \in DOMAIN line'[p]
        BY <2>4, <2>5, <2>6
      <4> QED BY <2>3, <2>5, <2>6, <3>1, <4>1 DEF p
    <3>2. CASE v # w
      <4>1. PICK i \in DOMAIN line[HostOf[v]] :
              line[HostOf[v]][i].of = v /\ ~line[HostOf[v]][i].released
        BY <2>8, <2>12, <3>2 DEF Queues
      <4>2. CASE HostOf[v] = p
        <5>1. i \in 1 .. n /\ s[i].of = v /\ ~s[i].released
          BY <2>4, <4>1, <4>2 DEF s
        <5>2. i \in DOMAIN line'[p] /\ line'[p][i] = s[i]
          BY <2>4, <2>5, <2>6, <5>1
        <5> QED BY <4>2, <5>1, <5>2
      <4>3. CASE HostOf[v] # p
        BY <2>5, <2>9, <4>1, <4>3
      <4> QED BY <4>2, <4>3
    <3> QED BY <3>1, <3>2
  <2>13. ASSUME NEW v \in Writers, step'[v] \in Live,
                NEW i \in DOMAIN line'[HostOf[v]], NEW j \in DOMAIN line'[HostOf[v]],
                line'[HostOf[v]][i].of = v, j < i
         PROVE  line'[HostOf[v]][j].released
    <3>1. v # w /\ step[v] \in Live
      BY <2>8, <2>13 DEF Live
    <3>2. CASE HostOf[v] = p
      <4>1. i \in 1 .. n /\ j \in 1 .. n
        BY <2>3, <2>4, <2>5, <2>6, <2>13, <3>1, <3>2
      <4>2. \A k, l \in DOMAIN s : s[k].of = v /\ l < k => s[l].released
        BY <3>1, <3>2 DEF Queues, s
      <4> QED BY <2>4, <2>5, <2>6, <2>13, <3>2, <4>1, <4>2
    <3>3. CASE HostOf[v] # p
      BY <2>5, <2>9, <2>13, <3>1, <3>3 DEF Queues
    <3> QED BY <3>2, <3>3
  <2>14. \A v \in Writers : holder' = v /\ ~dead' => step'[v] \in Live
    BY <2>2, <2>8 DEF Queues, Live
  <2> QED BY <2>10, <2>11, <2>12, <2>13, <2>14 DEF Queues
<1>2. ASSUME NEW w \in Writers, AbortQueued(w) \/ AcquireBusy(w) \/ AcquireUnobservable(w) \/ AcquireFenced(w)
      PROVE  Queues'
  <2>1. /\ Release(w) /\ step[w] = "queued" /\ step' = [step EXCEPT ![w] = "done"]
        /\ UNCHANGED <<holder, dead>> \/ holder' = Nobody
    BY <1>2 DEF AbortQueued, AcquireBusy, AcquireUnobservable, AcquireFenced, Refused, GiveBack
  <2>2. \A v \in Writers : holder' = v /\ ~dead' => v # w /\ holder = v /\ ~dead
    BY <2>1, Names DEF Queues, Live
  <2> QED BY <1>0, <2>1, <2>2, ReleaseQueues
<1>3. ASSUME NEW w \in Writers, FinishWriter(w) PROVE Queues'
  <2>1. Release(w) /\ step[w] \in Live /\ step' = [step EXCEPT ![w] = "done"] /\ holder' = Nobody
    BY <1>3 DEF FinishWriter, Live
  <2> QED BY <1>0, <2>1, Names, ReleaseQueues
<1>4. ASSUME NEW w \in Writers, Acquire(w) PROVE Queues'
  <2>1. /\ step[w] = "queued" /\ Turn(w) /\ line' = line /\ holder' = w
        /\ step' = [step EXCEPT ![w] = "held"]
    BY <1>4 DEF Acquire
  <2>2. \A v \in Writers : step'[v] = IF v = w THEN "held" ELSE step[v]
    BY <1>0, <2>1 DEF FenceTypeOK
  <2>3. ASSUME NEW i \in DOMAIN line[HostOf[w]], NEW j \in DOMAIN line[HostOf[w]],
               line[HostOf[w]][i].of = w, j < i
        PROVE  line[HostOf[w]][j].released
    <3>1. i = TicketOf(w)
      BY <2>3, <1>0, TicketFound, HostsExist DEF Queues
    <3>2. j \in 1 .. (i - 1)
      BY <1>0, <2>3, QueuesByWriter
    <3> QED BY <2>1, <3>1, <3>2 DEF Turn
  <2> QED BY <2>1, <2>2, <2>3 DEF Queues, Live
<1>5. ASSUME NEW w \in Writers,
             StopHeld(w) \/ Dispatch(w) \/ TeamTool(w)
             \/ (\E observable \in BOOLEAN : BeforeTool(w, observable) \/ AfterTool(w, observable))
             \/ \E e \in Endings(w) : EndWork(w, e)
      PROVE  Queues'
  <2>1. line' = line /\ holder' = holder /\ dead' = dead
    BY <1>5 DEF StopHeld, Dispatch, TeamTool, BeforeTool, AfterTool, EndWork
  <2>2. step' = step \/ (step[w] \in Live /\ \E x \in Live : step' = [step EXCEPT ![w] = x])
    BY <1>5 DEF StopHeld, Dispatch, TeamTool, BeforeTool, AfterTool, EndWork, Live
  <2>3. \A v \in Writers : step'[v] = step[v] \/ (step'[v] \in Live /\ step[v] \in Live)
    BY <1>0, <2>2 DEF FenceTypeOK
  <2> QED BY <1>0, <2>1, <2>3, SameQueues
<1>6. ASSUME NEW r \in WRuns, EndRun(r) \/ ResolveUnfenced(r) \/ OpenReview(r) PROVE Queues'
  <2>1. line' = line /\ step' = step
    BY <1>6 DEF EndRun, ResolveUnfenced, OpenReview
  <2>2. UNCHANGED <<holder, dead>> \/ holder' = Nobody \/ holder' = OperatorOf(HostOfRun(r))
    BY <1>6 DEF EndRun, ResolveUnfenced, OpenReview
  <2>3. \A v \in Writers : holder' = v /\ ~dead' => holder = v /\ ~dead
    BY <2>2, HostsExist, Names
  <2> QED BY <1>0, <2>1, <2>3, SameQueues
<1>7. ASSUME NEW p \in Hosts, SettleReview(p) \/ CloseReview(p) PROVE Queues'
  <2>1. line' = line /\ step' = step /\ (UNCHANGED <<holder, dead>> \/ holder' = Nobody)
    BY <1>7 DEF SettleReview, CloseReview
  <2> QED BY <1>0, <2>1, Names, SameQueues
<1>8. ASSUME NEW p \in Hosts, CrashHost(p) PROVE Queues'
  <2>1. \A w \in Writers : step'[w] = IF HostOf[w] = p /\ step[w] # "new" THEN "done" ELSE step[w]
    BY <1>8 DEF CrashHost
  <2>2. line'[p] = <<>> /\ \A q \in Hosts \ {p} : line'[q] = line[q]
    BY <1>0, <1>8 DEF CrashHost, LineOK
  <2>3. DOMAIN line'[p] = {}
    BY <2>2
  <2>4. \A w \in Writers : HostOf[w] \in Hosts
    BY HostsExist
  <2>5. \A w \in Writers : holder' = w /\ ~dead' => HostOf[w] # p /\ holder = w /\ ~dead
    BY <1>8 DEF CrashHost, OfHost
  <2>6. \A q \in Hosts : \A i, j \in DOMAIN line'[q] : line'[q][i].of = line'[q][j].of => i = j
    BY <2>2, <2>3 DEF Queues
  <2>7. \A w \in Writers : HostOf[w] # p => line'[HostOf[w]] = line[HostOf[w]] /\ step'[w] = step[w]
    BY <2>1, <2>2, <2>4
  <2>8. \A w \in Writers : HostOf[w] = p => step'[w] \in {"new", "done"} /\ DOMAIN line'[HostOf[w]] = {}
    BY <2>1, <2>3
  <2>9. ASSUME NEW w \in Writers
        PROVE  /\ step'[w] = "new" => \A i \in DOMAIN line'[HostOf[w]] : line'[HostOf[w]][i].of # w
               /\ step'[w] \in Live \cup {"queued"} =>
                    \E i \in DOMAIN line'[HostOf[w]] :
                      line'[HostOf[w]][i].of = w /\ ~line'[HostOf[w]][i].released
               /\ step'[w] \in Live =>
                    \A i, j \in DOMAIN line'[HostOf[w]] :
                      line'[HostOf[w]][i].of = w /\ j < i => line'[HostOf[w]][j].released
               /\ holder' = w /\ ~dead' => step'[w] \in Live
    <3>1. CASE HostOf[w] = p
      BY <2>5, <2>8, <3>1 DEF Live
    <3>2. CASE HostOf[w] # p
      BY <2>5, <2>7, <3>2 DEF Queues
    <3> QED BY <3>1, <3>2
  <2> QED BY <2>6, <2>9 DEF Queues
<1>9. CASE EditOutside \/ UNCHANGED fenceVars
  <2>1. line' = line /\ step' = step /\ holder' = holder /\ dead' = dead
    BY <1>9 DEF EditOutside, fenceVars
  <2> QED BY <1>0, <2>1, SameQueues
<1> QED BY <1>1, <1>2, <1>3, <1>4, <1>5, <1>6, <1>7, <1>8, <1>9 DEF FenceNext

\* A process never refuses a writer as busy with another one of its own: at its
\* turn nobody earlier in the queue holds the lease, and nobody later can.
THEOREM QueueNeverBusyWithItself == FenceSpec => NotBusyWithItself
<1>1. FenceInit => Queues
  BY Names DEF FenceInit, Queues, Live, Hosts
<1>2. FenceIInv /\ Queues /\ [FenceNext]_fenceVars => Queues'
  BY QueuesStep
<1>3. FenceIInv /\ Queues =>
        \A w \in Writers : step[w] = "queued" /\ Turn(w) => holder \notin OfHost(HostOf[w]) \/ dead
  <2> SUFFICES ASSUME FenceIInv, Queues, NEW w \in Writers, step[w] = "queued", Turn(w),
                      NEW v \in OfHost(HostOf[w]), holder = v, ~dead
               PROVE  FALSE
    BY DEF OfHost
  <2>0. FenceTypeOK
    BY DEF FenceIInv
  <2> DEFINE s == line[HostOf[w]]
  <2>1. v \in Writers /\ HostOf[v] = HostOf[w] /\ step[v] \in Live /\ v # w
    BY DEF OfHost, Queues, Live
  <2>2. PICK i \in DOMAIN s : s[i].of = w /\ ~s[i].released
    BY DEF Queues
  <2>3. PICK j \in DOMAIN s : s[j].of = v /\ ~s[j].released
    BY <2>1 DEF Queues
  <2>4. i = TicketOf(w)
    BY <2>0, <2>2, TicketFound, HostsExist DEF Queues
  <2>5. i \in Nat /\ j \in Nat /\ DOMAIN s = 1 .. Len(s) /\ Len(s) \in Nat
    BY <2>0, <2>2, <2>3, QueuesByWriter
  <2>6. ~(i < j)
    BY <2>1, <2>2, <2>3 DEF Queues
  <2>7. ~(j < i)
    BY <2>3, <2>4, <2>5 DEF Turn
  <2> QED BY <2>1, <2>2, <2>3, <2>5, <2>6, <2>7
<1>4. FenceIInv /\ Queues =>
        [\A w \in Writers :
           (step[w] = "queued" /\ step'[w] = "done" /\ Turn(w) /\ line'[HostOf[w]] # <<>>)
             => holder \notin OfHost(HostOf[w]) \/ dead]_fenceVars
  BY <1>3
<1> QED BY <1>1, <1>2, <1>4, FenceInductive, PTL DEF FenceSpec, NotBusyWithItself

-----------------------------------------------------------------------------
\* Calls of Blueprints. OneRun says how the record, the Attempt, the job and the execution
\* of one Run go together, OneCall how a call goes with the Run below it.

\* A Run runs or is being cancelled exactly while its job drives an Attempt without a
\* result, and only such a Run executes; a call reserves its child in that Attempt.
OneRun(i) ==
    /\ rec[i] \in {"none", "queued"} => att[i] = "none"
    /\ rec[i] \in {"running", "cancelling"} => att[i] = "intent" /\ drive[i] = "driving"
    /\ rec[i] = "waiting_input" => i = Depth /\ att[i] = "waiting_input"
    /\ drive[i] = "driving" => rec[i] \in {"running", "cancelling"}
    /\ call[i] \notin {"none", "over"} => drive[i] = "driving"
    /\ call[i] = "over" => gave[i] # "none"
    /\ call[i] = "leave" => gave[i] # "none"
    /\ i = Depth => call[i] \in {"none", "work", "over"} /\ ~kept[i]
    /\ call[i] = "work" => i = Depth
    /\ att[i] = "none" => ~kept[i]

\* What a call knows of the Run below it: when it exists, that a settled one stays settled,
\* and that a known outcome is the outcome of a settled child.
OneCall(i) ==
    /\ ~kept[i] => rec[i + 1] = "none"
    /\ call[i] = "reserve" => ~kept[i]
    /\ call[i] = "create" => kept[i] /\ rec[i + 1] = "none"
    /\ call[i] \in {"bind", "check", "begin", "read", "decide", "wait", "join"} => rec[i + 1] # "none"
    /\ call[i] = "decide" /\ snap[i] \in Over => rec[i + 1] \in Over
    /\ call[i] = "join" => rec[i + 1] \in Over
    /\ call[i] \in {"leave", "over"} /\ gave[i] \in TerminalChild /\ kept[i]
          => rec[i + 1] \in TerminalChild \cup {"none"}
    /\ rec[i] \in TerminalChild /\ kept[i] => rec[i + 1] \in TerminalChild \cup {"none"}

\* A child that is about to start: its call listens, and if the call was aborted or its Run
\* is being cancelled, a walk is on its way down.
Starting(i) == drive[i + 1] = "scheduled" /\ rec[i + 1] = "queued"
Watched(i) ==
    /\ Starting(i) => call[i] \in {"begin", "read", "decide", "wait"}
    /\ call[i] \in {"check", "begin", "read", "decide", "wait"} => heard[i]
    /\ Starting(i) /\ abort[i] => walk[i + 1]["listener"] # "none"
    /\ rec[i] = "cancelling" /\ call[i] \notin {"none", "over"}
          => abort[i] \/ \E w \in Walks : walk[i][w] = "descend"

RunsOK == \A i \in Chain : OneRun(i)
CallsOK == \A i \in Callers : OneCall(i)
WatchOK == \A i \in Callers : Watched(i)
ChildIInv == ChildTypeOK /\ RunsOK /\ CallsOK /\ WatchOK
LEMMA ChainFacts ==
    /\ Depth \in Nat \ {0}
    /\ \A i \in Callers : i \in Chain /\ i + 1 \in Chain /\ i # Depth /\ i + 1 # i
    /\ \A i \in Chain : i \in Int /\ (i # Depth => i \in Callers) /\ (i # 1 => i - 1 \in Callers) /\ (i - 1) + 1 = i
    /\ \A i, j \in Callers : i + 1 = j + 1 => i = j
BY ChildAssumption DEF Chain, Callers


\* A commit to a Run's record, and the call that observes it.
LEMMA PublishType ==
    ASSUME ChildTypeOK, NEW i \in Chain, Publish(i)
    PROVE  dirty' \in [Chain -> BOOLEAN]
<1>1. dirty \in [Chain -> BOOLEAN]
  BY DEF ChildTypeOK
<1>2. CASE i > 1
  <2>1. PICK b : dirty' = [dirty EXCEPT ![i - 1] = b] /\ b = (dirty[i - 1] \/ Observes(i - 1))
    BY <1>2 DEF Publish
  <2>2. b \in BOOLEAN
    BY <2>1
  <2> QED BY <1>1, <2>1, <2>2
<1>3. CASE ~(i > 1)
  BY <1>1, <1>3 DEF Publish
<1> QED BY <1>2, <1>3

LEMMA CommitType ==
    ASSUME ChildTypeOK, NEW i \in Chain, NEW to \in RunStates, CommitChild(i, to)
    PROVE  rec' \in [Chain -> RunStates] /\ dirty' \in [Chain -> BOOLEAN]
BY PublishType DEF CommitChild, ChildTypeOK


\* A step of one Run touches the record, the job and the execution of that Run only; the
\* walks it starts stay on their way.
Same(k) ==
    /\ rec'[k] = rec[k] /\ att'[k] = att[k] /\ kept'[k] = kept[k] /\ drive'[k] = drive[k]
    /\ call'[k] = call[k] /\ gave'[k] = gave[k] /\ abort'[k] = abort[k] /\ heard'[k] = heard[k]
    /\ snap'[k] = snap[k]
WalksGoOn(i) ==
    /\ \A k \in Callers : walk[k + 1]["listener"] # "none" => walk'[k + 1]["listener"] # "none"
    /\ \A k \in Chain \ {i} : \A w \in Walks : walk[k][w] = "descend" => walk'[k][w] = "descend"
LEMMA RunStep ==
    ASSUME ChildIInv, ChildTypeOK', NEW i \in Chain, \A k \in Chain \ {i} : Same(k), WalksGoOn(i),
           OneRun(i)',
           i \in Callers => OneCall(i)' /\ Watched(i)',
           i # 1 => OneCall(i - 1)' /\ Watched(i - 1)'
    PROVE  ChildIInv'
<1>0. ChildTypeOK /\ RunsOK /\ CallsOK /\ WatchOK
  BY DEF ChildIInv
<1>1. RunsOK'
  BY <1>0 DEF RunsOK, OneRun, Same
<1>2. ASSUME NEW k \in Callers, k # i, k # i - 1 PROVE OneCall(k)' /\ Watched(k)'
  <2>1. k \in Chain \ {i} /\ k + 1 \in Chain \ {i}
    BY <1>2, ChainFacts
  <2>2. Same(k) /\ Same(k + 1) /\ OneCall(k) /\ Watched(k)
    BY <1>0, <2>1 DEF CallsOK, WatchOK
  <2>3. OneCall(k)'
    BY <2>2 DEF OneCall, Same
  <2>4. (walk[k + 1]["listener"] # "none" => walk'[k + 1]["listener"] # "none")
        /\ \A w \in Walks : walk[k][w] = "descend" => walk'[k][w] = "descend"
    BY <1>2, <2>1 DEF WalksGoOn
  <2>5. Watched(k)'
    BY <2>2, <2>4 DEF Watched, Starting, Same
  <2> QED BY <2>3, <2>5
<1>3. ASSUME NEW k \in Callers, k = i PROVE OneCall(k)' /\ Watched(k)'
  BY <1>3 DEF OneCall, Watched, Starting
<1>4. ASSUME NEW k \in Callers, k = i - 1 PROVE OneCall(k)' /\ Watched(k)'
  <2>1. i # 1
    BY <1>4, ChainFacts DEF Callers
  <2> QED BY <1>4, <2>1 DEF OneCall, Watched, Starting
<1> QED BY <1>1, <1>2, <1>3, <1>4 DEF ChildIInv, CallsOK, WatchOK


\* A walk that is asked for starts, or is on its way already.
LEMMA WalkStarts ==
    ASSUME ChildTypeOK, NEW i \in Callers, StartWalk(i)
    PROVE  /\ walk' \in [Chain -> [Walks -> WalkSteps]]
           /\ \A k \in Chain : \A w \in Walks :
                walk'[k][w] = walk[k][w] \/ (walk[k][w] = "none" /\ walk'[k][w] = "request")
           /\ walk'[i + 1]["listener"] # "none"
<1>1. i + 1 \in Chain /\ "listener" \in Walks /\ walk \in [Chain -> [Walks -> WalkSteps]]
  BY ChainFacts DEF Walks, ChildTypeOK
<1> DEFINE s == IF walk[i + 1]["listener"] = "none" THEN "request" ELSE walk[i + 1]["listener"]
<1>2. walk' = [walk EXCEPT ![i + 1]["listener"] = s]
  BY <1>1 DEF StartWalk
<1>3. /\ s \in WalkSteps /\ s # "none"
      /\ s = walk[i + 1]["listener"] \/ (walk[i + 1]["listener"] = "none" /\ s = "request")
  BY <1>1 DEF WalkSteps
<1> HIDE DEF s
<1> QED BY <1>1, <1>2, <1>3

\* What the invariant says of a Run, of its call and of the call above it.
LEMMA RunFacts ==
    ASSUME ChildIInv, NEW i \in Chain
    PROVE  /\ ChildTypeOK /\ OneRun(i)
           /\ i \in Callers => OneCall(i) /\ Watched(i) /\ i + 1 \in Chain /\ i + 1 # i
           /\ i # 1 => i - 1 \in Callers /\ i - 1 \in Chain /\ i - 1 # i /\ (i - 1) + 1 = i
                       /\ OneCall(i - 1) /\ Watched(i - 1)
BY ChainFacts DEF ChildIInv, RunsOK, CallsOK, WatchOK


\* A step of a call and of the Run below it.
LEMMA PairStep ==
    ASSUME ChildIInv, ChildTypeOK', NEW i \in Callers, \A k \in Chain \ {i, i + 1} : Same(k), WalksGoOn(i),
           OneRun(i)', OneRun(i + 1)', OneCall(i)', Watched(i)',
           i + 1 \in Callers => OneCall(i + 1)' /\ Watched(i + 1)',
           i # 1 => OneCall(i - 1)' /\ Watched(i - 1)'
    PROVE  ChildIInv'
<1>0. ChildTypeOK /\ RunsOK /\ CallsOK /\ WatchOK
  BY DEF ChildIInv
<1>1. RunsOK'
  BY <1>0 DEF RunsOK, OneRun, Same
<1>2. ASSUME NEW k \in Callers, k # i, k # i - 1, k # i + 1 PROVE OneCall(k)' /\ Watched(k)'
  <2>1. k \in Chain \ {i, i + 1} /\ k + 1 \in Chain \ {i, i + 1}
    BY <1>2, ChainFacts
  <2>2. Same(k) /\ Same(k + 1) /\ OneCall(k) /\ Watched(k)
    BY <1>0, <2>1 DEF CallsOK, WatchOK
  <2>3. OneCall(k)'
    BY <2>2 DEF OneCall, Same
  <2>4. (walk[k + 1]["listener"] # "none" => walk'[k + 1]["listener"] # "none")
        /\ \A w \in Walks : walk[k][w] = "descend" => walk'[k][w] = "descend"
    BY <1>2, <2>1 DEF WalksGoOn
  <2>5. Watched(k)'
    BY <2>2, <2>4 DEF Watched, Starting, Same
  <2> QED BY <2>3, <2>5
<1>3. ASSUME NEW k \in Callers, k = i PROVE OneCall(k)' /\ Watched(k)'
  BY <1>3 DEF OneCall, Watched, Starting
<1>4. ASSUME NEW k \in Callers, k = i - 1 PROVE OneCall(k)' /\ Watched(k)'
  <2>1. i # 1
    BY <1>4, ChainFacts DEF Callers
  <2> QED BY <1>4, <2>1 DEF OneCall, Watched, Starting
<1>5. ASSUME NEW k \in Callers, k = i + 1 PROVE OneCall(k)' /\ Watched(k)'
  BY <1>5 DEF OneCall, Watched, Starting
<1> QED BY <1>1, <1>2, <1>3, <1>4, <1>5 DEF ChildIInv, CallsOK, WatchOK

\* What the invariant says of a call, of the call above it and of the call below it.
LEMMA CallFacts ==
    ASSUME ChildIInv, NEW i \in Callers
    PROVE  /\ ChildTypeOK /\ i \in Chain /\ i + 1 \in Chain /\ i + 1 # i
           /\ OneRun(i) /\ OneRun(i + 1) /\ OneCall(i) /\ Watched(i)
           /\ i + 1 \in Callers => OneCall(i + 1) /\ Watched(i + 1) /\ (i + 1) + 1 \in Chain \ {i, i + 1}
           /\ i # 1 => i - 1 \in Callers /\ i - 1 \in Chain \ {i, i + 1} /\ (i - 1) + 1 = i
                       /\ OneCall(i - 1) /\ Watched(i - 1)
BY ChainFacts DEF ChildIInv, RunsOK, CallsOK, WatchOK


\* Where a descending walk leads: on to the child's own walk, and through a call that
\* listens to the walk of its listener.
LEMMA WalkGoesDown ==
    ASSUME ChildTypeOK, NEW i \in Chain, NEW w \in Walks, WalkDescend(i, w)
    PROVE  /\ walk' \in [Chain -> [Walks -> WalkSteps]]
           /\ \A k \in Chain : \A v \in Walks :
                \/ walk'[k][v] = walk[k][v]
                \/ k = i /\ walk'[k][v] \in {"join", "finish"}
                \/ walk[k][v] \in {"none", "done"} /\ walk'[k][v] = "request"
           /\ i \in Callers /\ Aborting(i) /\ heard[i] /\ ~abort[i] => walk'[i + 1]["listener"] # "none"
<1> DEFINE below == i < Depth /\ kept[i] /\ rec[i + 1] # "none"
           here == [walk EXCEPT ![i][w] = IF below THEN "join" ELSE "finish"]
           down == IF below THEN [here EXCEPT ![i + 1]["parent"] = IF @ \in {"none", "done"} THEN "request" ELSE @] ELSE here
<1>1. /\ walk[i][w] = "descend" /\ walk \in [Chain -> [Walks -> WalkSteps]]
      /\ walk' = IF Aborting(i) THEN ListenerWalk(i, down) ELSE down
  BY DEF WalkDescend, ChildTypeOK
<1>2. /\ here \in [Chain -> [Walks -> WalkSteps]]
      /\ \A k \in Chain : \A v \in Walks :
           here[k][v] = walk[k][v] \/ (k = i /\ here[k][v] \in {"join", "finish"})
  BY <1>1 DEF WalkSteps
<1> HIDE DEF here
<1>3. /\ down \in [Chain -> [Walks -> WalkSteps]]
      /\ \A k \in Chain : \A v \in Walks :
           down[k][v] = here[k][v] \/ (here[k][v] \in {"none", "done"} /\ down[k][v] = "request")
  <2>1. CASE ~below
    BY <1>2, <2>1
  <2>2. CASE below
    <3>1. i + 1 \in Chain /\ "parent" \in Walks
      BY <2>2, ChildAssumption DEF Chain, Walks
    <3> DEFINE s == IF here[i + 1]["parent"] \in {"none", "done"} THEN "request" ELSE here[i + 1]["parent"]
    <3>2. down = [here EXCEPT ![i + 1]["parent"] = s]
      BY <2>2
    <3>3. /\ s \in WalkSteps
          /\ s = here[i + 1]["parent"] \/ (here[i + 1]["parent"] \in {"none", "done"} /\ s = "request")
      BY <1>2, <3>1 DEF WalkSteps
    <3> HIDE DEF down, s
    <3> QED BY <1>2, <3>1, <3>2, <3>3
  <2> QED BY <2>1, <2>2
<1> HIDE DEF below, down
<1>4. CASE ~(Aborting(i) /\ heard[i] /\ ~abort[i])
  BY <1>1, <1>2, <1>3, <1>4 DEF ListenerWalk
<1>5. CASE Aborting(i) /\ heard[i] /\ ~abort[i] /\ i \in Callers
  <2>1. i + 1 \in Chain /\ "listener" \in Walks
    BY <1>5, ChainFacts DEF Walks
  <2> DEFINE s == IF down[i + 1]["listener"] = "none" THEN "request" ELSE down[i + 1]["listener"]
  <2>2. walk' = [down EXCEPT ![i + 1]["listener"] = s]
    BY <1>1, <1>5 DEF ListenerWalk
  <2>3. /\ s \in WalkSteps /\ s # "none"
        /\ s = down[i + 1]["listener"] \/ (down[i + 1]["listener"] = "none" /\ s = "request")
    BY <1>3, <2>1 DEF WalkSteps
  <2> HIDE DEF s
  <2>4. /\ walk' \in [Chain -> [Walks -> WalkSteps]] /\ walk'[i + 1]["listener"] = s
        /\ \A k \in Chain : \A v \in Walks :
             walk'[k][v] = down[k][v] \/ (down[k][v] = "none" /\ walk'[k][v] = "request")
    BY <1>3, <2>1, <2>2, <2>3
  <2> QED BY <1>2, <1>3, <2>3, <2>4
<1>6. CASE Aborting(i) /\ heard[i] /\ ~abort[i] /\ i \notin Callers
  <2>1. i + 1 \notin Chain
    BY <1>6, ChildAssumption DEF Chain, Callers
  <2>2. walk' = down
    BY <1>1, <1>3, <1>6, <2>1 DEF ListenerWalk
  <2> QED BY <1>2, <1>3, <1>6, <2>2
<1> QED BY <1>4, <1>5, <1>6


\* A step of a Run's execution: nothing but where it is and what it knows changes.
KeepsRecord == UNCHANGED <<rec, att, kept, drive, abort, walk, closing, crashes>>
LEMMA ExecutionStep ==
    ASSUME ChildIInv, NEW i \in Chain, call[i] # "none", KeepsRecord,
           call' \in [Chain -> CallSteps], gave' \in [Chain -> {"none", "unknown"} \cup TerminalChild],
           heard' \in [Chain -> BOOLEAN], snap' \in [Chain -> RunStates], dirty' \in [Chain -> BOOLEAN],
           \A k \in Chain \ {i} : call'[k] = call[k] /\ gave'[k] = gave[k] /\ heard'[k] = heard[k] /\ snap'[k] = snap[k],
           OneRun(i)', i \in Callers => OneCall(i)' /\ Watched(i)'
    PROVE  ChildIInv'
<1>1. ChildTypeOK /\ ChildTypeOK'
  <2>1. ChildTypeOK
    BY DEF ChildIInv
  <2>2. \A k \in Chain : rec'[k] = "none" => drive'[k] = "none" /\ call'[k] = "none" /\ ~kept'[k]
    BY <2>1 DEF ChildTypeOK, KeepsRecord
  <2> QED BY <2>1, <2>2 DEF ChildTypeOK, KeepsRecord
<1>2. \A k \in Chain \ {i} : Same(k)
  BY DEF Same, KeepsRecord
<1>3. i # 1 => OneCall(i - 1)' /\ Watched(i - 1)'
  BY <1>2, RunFacts DEF OneCall, Watched, Starting, Same, KeepsRecord
<1>4. WalksGoOn(i)
  BY DEF WalksGoOn, KeepsRecord
<1> QED BY <1>1, <1>2, <1>3, <1>4, RunStep

LEMMA JobStartKeeps ==
    ASSUME ChildIInv, NEW i \in Chain, JobStart(i)
    PROVE  ChildIInv'
<1>0. /\ ChildTypeOK /\ OneRun(i)
      /\ i \in Callers => OneCall(i) /\ Watched(i) /\ i + 1 \in Chain /\ i + 1 # i
      /\ i # 1 => i - 1 \in Chain /\ i - 1 # i /\ (i - 1) + 1 = i /\ OneCall(i - 1) /\ Watched(i - 1)
  BY RunFacts
<1>1. drive[i] = "scheduled" /\ UNCHANGED <<kept, gave, abort, heard, snap, walk, closing, crashes>>
  BY DEF JobStart
\* The job dispatches, has nothing to do, or settles a Run that was never dispatched.
<1>2. \/ /\ rec[i] = "queued" /\ att[i] = "none" /\ CommitChild(i, "running")
         /\ att' = [att EXCEPT ![i] = "intent"] /\ drive' = [drive EXCEPT ![i] = "driving"]
         /\ call' = [call EXCEPT ![i] = IF i < Depth THEN "reserve" ELSE "work"]
      \/ /\ drive' = [drive EXCEPT ![i] = "none"] /\ UNCHANGED <<att, call>>
         /\ \/ rec[i] \in Over \cup {"waiting_input"} /\ UNCHANGED <<rec, dirty>>
            \/ rec[i] = "queued" /\ CommitChild(i, "cancelled")
  <2>1. rec[i] # "none" /\ rec[i] \in RunStates /\ rec[i] \notin {"running", "cancelling"}
    BY <1>0, <1>1 DEF ChildTypeOK, OneRun
  <2> QED BY <2>1 DEF JobStart, RunStates
<1>3. rec' \in [Chain -> RunStates] /\ dirty' \in [Chain -> BOOLEAN]
  BY <1>0, <1>2, CommitType DEF ChildTypeOK, RunStates, Over, TerminalChild
<1>4. \/ /\ rec[i] = "queued" /\ att[i] = "none" /\ rec'[i] = "running" /\ att'[i] = "intent"
         /\ drive'[i] = "driving" /\ call'[i] = IF i < Depth THEN "reserve" ELSE "work"
      \/ /\ drive'[i] = "none" /\ att'[i] = att[i] /\ call'[i] = call[i]
         /\ \/ rec[i] \in Over \cup {"waiting_input"} /\ rec'[i] = rec[i]
            \/ rec[i] = "queued" /\ rec'[i] = "cancelled"
  BY <1>0, <1>2 DEF ChildTypeOK, CommitChild
<1>5. \A k \in Chain \ {i} : Same(k)
  BY <1>0, <1>1, <1>2 DEF ChildTypeOK, CommitChild, Same
<1>6. ChildTypeOK'
  <2>1. /\ att' \in [Chain -> {"none", "intent", "waiting_input", "result"}]
        /\ drive' \in [Chain -> {"none", "scheduled", "driving"}] /\ call' \in [Chain -> CallSteps]
    <3>1. "reserve" \in CallSteps /\ "work" \in CallSteps
      BY DEF CallSteps
    <3>2. att' \in [Chain -> {"none", "intent", "waiting_input", "result"}]
      BY <1>0, <1>2 DEF ChildTypeOK
    <3>3. drive \in [Chain -> {"none", "scheduled", "driving"}] /\ call \in [Chain -> CallSteps]
      BY <1>0 DEF ChildTypeOK
    <3>4. \E d \in {"driving", "none"} : drive' = [drive EXCEPT ![i] = d]
      BY <1>2
    <3>5. drive' \in [Chain -> {"none", "scheduled", "driving"}]
      BY <3>3, <3>4
    <3>6. call' \in [Chain -> CallSteps]
      BY <1>2, <3>1, <3>3
    <3> QED BY <3>2, <3>5, <3>6
  <2>2. \A k \in Chain : rec'[k] = "none" => drive'[k] = "none" /\ call'[k] = "none" /\ ~kept'[k]
    BY <1>0, <1>1, <1>4, <1>5 DEF ChildTypeOK, Same, Over, TerminalChild
  <2> QED BY <1>0, <1>1, <1>3, <2>1, <2>2 DEF ChildTypeOK
<1>7. OneRun(i)'
  <2>1. i < Depth <=> i # Depth
    BY ChainFacts DEF Chain
  <2>2. CASE drive'[i] = "driving"
    BY <1>0, <1>1, <1>4, <2>1, <2>2 DEF OneRun
  <2>3. CASE drive'[i] # "driving"
    BY <1>0, <1>1, <1>4, <2>3 DEF OneRun, Over, TerminalChild
  <2> QED BY <2>2, <2>3
<1>8. i \in Callers => OneCall(i)' /\ Watched(i)'
  BY <1>0, <1>1, <1>4, <1>5, ChainFacts DEF OneCall, OneRun, Watched, Starting, Same, Over, TerminalChild, ChildTypeOK
<1>9. i # 1 => OneCall(i - 1)' /\ Watched(i - 1)'
  <2> SUFFICES ASSUME i # 1 PROVE OneCall(i - 1)' /\ Watched(i - 1)'
    OBVIOUS
  <2>1. rec[i] # "none" /\ rec[i] \in RunStates
    BY <1>0, <1>1 DEF ChildTypeOK
  <2>2. Same(i - 1) /\ OneCall(i - 1) /\ Watched(i - 1) /\ (i - 1) + 1 = i
    BY <1>0, <1>5
  <2>5. drive'[i] # "scheduled" /\ (rec'[i] = rec[i] \/ (rec[i] = "queued" /\ rec'[i] # "none"))
    BY <1>4
  <2>3. OneCall(i - 1)'
    BY <2>1, <2>2, <2>5 DEF OneCall, Same, Over, TerminalChild
  <2>4. Watched(i - 1)'
    BY <1>1, <2>2, <2>5 DEF Watched, Starting, Same
  <2> QED BY <2>3, <2>4
<1>10. WalksGoOn(i)
  BY <1>1 DEF WalksGoOn
<1> QED BY <1>5, <1>6, <1>7, <1>8, <1>9, <1>10, RunStep


LEMMA JobEndKeeps ==
    ASSUME ChildIInv, NEW i \in Chain, JobEnd(i)
    PROVE  ChildIInv'
<1>0. /\ ChildTypeOK /\ OneRun(i)
      /\ i \in Callers => OneCall(i) /\ Watched(i) /\ i + 1 \in Chain /\ i + 1 # i
      /\ i # 1 => i - 1 \in Chain /\ i - 1 # i /\ (i - 1) + 1 = i /\ OneCall(i - 1) /\ Watched(i - 1)
  BY RunFacts
<1>1. /\ drive[i] = "driving" /\ call[i] = "over" /\ drive' = [drive EXCEPT ![i] = "none"]
      /\ rec[i] \in {"running", "cancelling"} /\ att[i] = "intent"
      /\ UNCHANGED <<kept, call, gave, abort, heard, snap, walk, closing, crashes>>
  BY <1>0 DEF JobEnd, OneRun
\* The Run needs the operator, or takes the outcome its execution gave.
<1>2. \/ gave[i] = "unknown" /\ CommitChild(i, "recovery_required") /\ att' = att
      \/ /\ gave[i] \in TerminalChild /\ att' = [att EXCEPT ![i] = "result"]
         /\ \E to \in TerminalChild : CommitChild(i, to)
  <2>1. gave[i] \in {"unknown"} \cup TerminalChild
    BY <1>0, <1>1 DEF ChildTypeOK, OneRun
  <2> QED BY <1>1, <2>1 DEF JobEnd, TerminalChild
<1>3. rec' \in [Chain -> RunStates] /\ dirty' \in [Chain -> BOOLEAN]
  BY <1>0, <1>2, CommitType DEF RunStates, Over
<1>4. /\ drive'[i] = "none"
      /\ \/ rec'[i] = "recovery_required" /\ att'[i] = "intent"
         \/ gave[i] \in TerminalChild /\ rec'[i] \in TerminalChild /\ att'[i] = "result"
  BY <1>0, <1>1, <1>2 DEF ChildTypeOK, CommitChild
<1>5. \A k \in Chain \ {i} : Same(k)
  BY <1>0, <1>1, <1>2 DEF ChildTypeOK, CommitChild, Same
<1>6. ChildTypeOK'
  <2>1. /\ att' \in [Chain -> {"none", "intent", "waiting_input", "result"}]
        /\ drive' \in [Chain -> {"none", "scheduled", "driving"}]
    BY <1>0, <1>1, <1>2 DEF ChildTypeOK
  <2>2. \A k \in Chain : rec'[k] = "none" => drive'[k] = "none" /\ call'[k] = "none" /\ ~kept'[k]
    BY <1>0, <1>4, <1>5 DEF ChildTypeOK, Same, TerminalChild
  <2> QED BY <1>0, <1>1, <1>3, <2>1, <2>2 DEF ChildTypeOK
<1>7. OneRun(i)'
  BY <1>0, <1>1, <1>4 DEF OneRun, TerminalChild
<1>8. i \in Callers => OneCall(i)' /\ Watched(i)'
  BY <1>0, <1>1, <1>4, <1>5 DEF OneCall, Watched, Starting, Same, TerminalChild
<1>9. i # 1 => OneCall(i - 1)' /\ Watched(i - 1)'
  BY <1>0, <1>1, <1>4, <1>5 DEF OneCall, Watched, Starting, Same, Over, TerminalChild
<1>10. WalksGoOn(i)
  BY <1>1 DEF WalksGoOn
<1> QED BY <1>5, <1>6, <1>7, <1>8, <1>9, <1>10, RunStep


LEMMA AwaitInputKeeps ==
    ASSUME ChildIInv, NEW i \in Chain, AwaitInput(i), i = Depth
    PROVE  ChildIInv'
<1>0. /\ ChildTypeOK /\ OneRun(i)
      /\ i \in Callers => OneCall(i) /\ Watched(i) /\ i + 1 \in Chain /\ i + 1 # i
      /\ i # 1 => i - 1 \in Chain /\ i - 1 # i /\ (i - 1) + 1 = i /\ OneCall(i - 1) /\ Watched(i - 1)
  BY RunFacts
<1>1. /\ rec[i] = "running" /\ CommitChild(i, "waiting_input") /\ att' = [att EXCEPT ![i] = "waiting_input"]
      /\ call' = [call EXCEPT ![i] = "none"] /\ drive' = [drive EXCEPT ![i] = "none"] /\ i \notin Callers
      /\ UNCHANGED <<kept, gave, abort, heard, snap, walk, closing, crashes>>
  BY ChainFacts DEF AwaitInput
<1>2. rec' \in [Chain -> RunStates] /\ dirty' \in [Chain -> BOOLEAN]
  BY <1>0, <1>1, CommitType DEF RunStates, Over, TerminalChild
<1>3. rec'[i] = "waiting_input" /\ att'[i] = "waiting_input" /\ call'[i] = "none" /\ drive'[i] = "none"
  BY <1>0, <1>1 DEF ChildTypeOK, CommitChild
<1>4. \A k \in Chain \ {i} : Same(k)
  BY <1>0, <1>1 DEF ChildTypeOK, CommitChild, Same
<1>5. ChildTypeOK'
  <2>1. /\ att' \in [Chain -> {"none", "intent", "waiting_input", "result"}]
        /\ drive' \in [Chain -> {"none", "scheduled", "driving"}] /\ call' \in [Chain -> CallSteps]
    BY <1>0, <1>1 DEF ChildTypeOK, CallSteps
  <2>2. \A k \in Chain : rec'[k] = "none" => drive'[k] = "none" /\ call'[k] = "none" /\ ~kept'[k]
    BY <1>0, <1>1, <1>3, <1>4 DEF ChildTypeOK, Same
  <2> QED BY <1>0, <1>1, <1>2, <2>1, <2>2 DEF ChildTypeOK
<1>6. OneRun(i)'
  BY <1>0, <1>1, <1>3 DEF OneRun
<1>7. i # 1 => OneCall(i - 1)' /\ Watched(i - 1)'
  BY <1>0, <1>1, <1>3, <1>4 DEF OneCall, Watched, Starting, Same, Over, TerminalChild
<1>8. WalksGoOn(i)
  BY <1>1 DEF WalksGoOn
<1> QED BY <1>1, <1>4, <1>5, <1>6, <1>7, <1>8, RunStep


LEMMA DecideChildKeeps ==
    ASSUME ChildIInv, NEW i \in Chain, DecideChild(i)
    PROVE  ChildIInv'
<1>0. /\ ChildTypeOK /\ OneRun(i)
      /\ i \in Callers => OneCall(i) /\ Watched(i) /\ i + 1 \in Chain /\ i + 1 # i
      /\ i # 1 => i - 1 \in Chain /\ i - 1 # i /\ (i - 1) + 1 = i /\ OneCall(i - 1) /\ Watched(i - 1)
  BY RunFacts
<1>1. /\ rec[i] = "waiting_input" /\ CommitChild(i, "succeeded") /\ att' = [att EXCEPT ![i] = "result"]
      /\ i = Depth /\ i \notin Callers /\ drive[i] # "driving"
      /\ UNCHANGED <<kept, drive, call, gave, abort, heard, snap, walk, closing, crashes>>
  BY <1>0, ChainFacts DEF DecideChild, OneRun
<1>2. rec' \in [Chain -> RunStates] /\ dirty' \in [Chain -> BOOLEAN]
  BY <1>0, <1>1, CommitType DEF RunStates, Over, TerminalChild
<1>3. rec'[i] = "succeeded" /\ att'[i] = "result" /\ call'[i] = call[i] /\ drive'[i] = drive[i]
  BY <1>0, <1>1 DEF ChildTypeOK, CommitChild
<1>4. \A k \in Chain \ {i} : Same(k)
  BY <1>0, <1>1 DEF ChildTypeOK, CommitChild, Same
<1>5. ChildTypeOK'
  <2>1. /\ att' \in [Chain -> {"none", "intent", "waiting_input", "result"}]
        /\ drive' \in [Chain -> {"none", "scheduled", "driving"}] /\ call' \in [Chain -> CallSteps]
    BY <1>0, <1>1 DEF ChildTypeOK, CallSteps
  <2>2. \A k \in Chain : rec'[k] = "none" => drive'[k] = "none" /\ call'[k] = "none" /\ ~kept'[k]
    BY <1>0, <1>1, <1>3, <1>4 DEF ChildTypeOK, Same
  <2> QED BY <1>0, <1>1, <1>2, <2>1, <2>2 DEF ChildTypeOK
<1>6. OneRun(i)'
  BY <1>0, <1>1, <1>3 DEF OneRun
<1>7. i # 1 => OneCall(i - 1)' /\ Watched(i - 1)'
  BY <1>0, <1>1, <1>3, <1>4 DEF OneCall, Watched, Starting, Same, Over, TerminalChild
<1>8. WalksGoOn(i)
  BY <1>1 DEF WalksGoOn
<1> QED BY <1>1, <1>4, <1>5, <1>6, <1>7, <1>8, RunStep


LEMMA ReserveKeeps ==
    ASSUME ChildIInv, NEW i \in Callers, Reserve(i)
    PROVE  ChildIInv'
<1> i \in Chain
  BY ChainFacts
<1>0. /\ ChildTypeOK /\ OneRun(i)
      /\ i \in Callers => OneCall(i) /\ Watched(i) /\ i + 1 \in Chain /\ i + 1 # i
      /\ i # 1 => i - 1 \in Chain /\ i - 1 # i /\ (i - 1) + 1 = i /\ OneCall(i - 1) /\ Watched(i - 1)
  BY RunFacts
<1>1. call[i] = "reserve" /\ UNCHANGED <<rec, att, drive, abort, heard, snap, walk, closing, crashes>>
      /\ drive[i] = "driving" /\ ~kept[i] /\ rec[i + 1] = "none" /\ att[i] = "intent"
      /\ rec[i] \in {"running", "cancelling"}
  BY <1>0 DEF Reserve, OneRun, OneCall
<1>2. \/ /\ kept' = [kept EXCEPT ![i] = TRUE] /\ call' = [call EXCEPT ![i] = "create"]
         /\ Publish(i) /\ gave' = gave
      \/ /\ gave' = [gave EXCEPT ![i] = "cancelled"] /\ call' = [call EXCEPT ![i] = "leave"]
         /\ UNCHANGED <<kept, dirty>>
  BY DEF Reserve, Return, To
<1>3. dirty' \in [Chain -> BOOLEAN]
  BY <1>0, <1>2, PublishType DEF ChildTypeOK
<1>4. \/ kept'[i] /\ call'[i] = "create" /\ gave'[i] = gave[i]
      \/ ~kept'[i] /\ call'[i] = "leave" /\ gave'[i] = "cancelled"
  BY <1>0, <1>1, <1>2 DEF ChildTypeOK
<1>5. \A k \in Chain \ {i} : Same(k)
  BY <1>0, <1>1, <1>2 DEF ChildTypeOK, Same
<1>6. ChildTypeOK'
  <2>1. /\ kept' \in [Chain -> BOOLEAN] /\ call' \in [Chain -> CallSteps]
        /\ gave' \in [Chain -> {"none", "unknown"} \cup TerminalChild]
    <3>1. "create" \in CallSteps /\ "leave" \in CallSteps /\ "cancelled" \in TerminalChild
      BY DEF CallSteps, TerminalChild
    <3>2. kept' \in [Chain -> BOOLEAN]
      BY <1>0, <1>2 DEF ChildTypeOK
    <3>3. call \in [Chain -> CallSteps] /\ gave \in [Chain -> {"none", "unknown"} \cup TerminalChild]
      BY <1>0 DEF ChildTypeOK
    <3>4. call' \in [Chain -> CallSteps]
      BY <1>2, <3>1, <3>3
    <3>5. gave' \in [Chain -> {"none", "unknown"} \cup TerminalChild]
      BY <1>2, <3>1, <3>3
    <3> QED BY <3>2, <3>4, <3>5
  <2>2. \A k \in Chain : rec'[k] = "none" => drive'[k] = "none" /\ call'[k] = "none" /\ ~kept'[k]
    BY <1>0, <1>1, <1>5 DEF ChildTypeOK, Same
  <2> QED BY <1>0, <1>1, <1>3, <2>1, <2>2 DEF ChildTypeOK
<1>7. OneRun(i)'
  BY <1>0, <1>1, <1>4, ChainFacts DEF OneRun
<1>8. OneCall(i)' /\ Watched(i)'
  <2>1. OneCall(i)'
    BY <1>0, <1>1, <1>4 DEF OneCall, Over, TerminalChild
  <2>2. Watched(i)'
    BY <1>0, <1>1, <1>4 DEF Watched, Starting
  <2> QED BY <2>1, <2>2
<1>9. i # 1 => OneCall(i - 1)' /\ Watched(i - 1)'
  BY <1>0, <1>1, <1>5 DEF OneCall, Watched, Starting, Same
<1>10. WalksGoOn(i)
  BY <1>1 DEF WalksGoOn
<1> QED BY <1>5, <1>6, <1>7, <1>8, <1>9, <1>10, RunStep


LEMMA CheckParentKeeps ==
    ASSUME ChildIInv, NEW i \in Callers, CheckParent(i)
    PROVE  ChildIInv'
<1>0. /\ ChildTypeOK /\ i \in Chain /\ i + 1 \in Chain /\ i + 1 # i
      /\ OneRun(i) /\ OneRun(i + 1) /\ OneCall(i) /\ Watched(i)
      /\ i + 1 \in Callers => OneCall(i + 1) /\ Watched(i + 1) /\ (i + 1) + 1 \in Chain \ {i, i + 1}
      /\ i # 1 => i - 1 \in Callers /\ i - 1 \in Chain \ {i, i + 1} /\ (i - 1) + 1 = i
                  /\ OneCall(i - 1) /\ Watched(i - 1)
  BY CallFacts
<1>1. /\ call[i] = "check" /\ call' = [call EXCEPT ![i] = "begin"]
      /\ drive[i] = "driving" /\ heard[i] /\ rec[i + 1] # "none" /\ rec[i] \in {"running", "cancelling"}
      /\ ~Starting(i)
      /\ UNCHANGED <<rec, att, kept, gave, abort, heard, snap, dirty, closing, crashes>>
  BY <1>0 DEF CheckParent, To, OneRun, OneCall, Watched
\* A Run that may start gets its job, or a walk down to it starts.
<1>2. \/ drive' = Scheduled(i + 1) /\ walk' = walk /\ ~abort[i]
      \/ StartWalk(i) /\ drive' = drive
  BY DEF CheckParent, MayStart
<1>3. \/ drive' = drive
      \/ drive[i + 1] = "none" /\ drive' = [drive EXCEPT ![i + 1] = "scheduled"] /\ ~abort[i]
  <2>1. CASE drive' = Scheduled(i + 1) /\ ~abort[i] /\ (closing \/ drive[i + 1] # "none")
    BY <1>0, <2>1 DEF Scheduled, ChildTypeOK
  <2>2. CASE drive' = Scheduled(i + 1) /\ ~abort[i] /\ ~(closing \/ drive[i + 1] # "none")
    BY <1>0, <2>2 DEF Scheduled, ChildTypeOK
  <2> QED BY <1>2, <2>1, <2>2
<1>4. /\ call'[i] = "begin" /\ call'[i + 1] = call[i + 1] /\ drive'[i] = drive[i]
      /\ \/ drive'[i + 1] = drive[i + 1]
         \/ drive[i + 1] = "none" /\ drive'[i + 1] = "scheduled" /\ ~abort[i]
  BY <1>0, <1>1, <1>3 DEF ChildTypeOK
<1>5. \A k \in Chain \ {i, i + 1} : Same(k)
  BY <1>0, <1>1, <1>3 DEF ChildTypeOK, Same
<1>6. ChildTypeOK'
  <2>1. walk' \in [Chain -> [Walks -> WalkSteps]]
    BY <1>0, <1>2, WalkStarts DEF ChildTypeOK
  <2>2. call' \in [Chain -> CallSteps] /\ drive' \in [Chain -> {"none", "scheduled", "driving"}]
    BY <1>0, <1>1, <1>3 DEF ChildTypeOK, CallSteps
  <2>3. \A k \in Chain : rec'[k] = "none" => drive'[k] = "none" /\ call'[k] = "none" /\ ~kept'[k]
    BY <1>0, <1>1, <1>4, <1>5 DEF ChildTypeOK, Same
  <2> QED BY <1>0, <1>1, <2>1, <2>2, <2>3 DEF ChildTypeOK
<1>7. OneRun(i)' /\ OneRun(i + 1)'
  <2>1. OneRun(i)'
    BY <1>0, <1>1, <1>4, ChainFacts DEF OneRun
  <2>2. OneRun(i + 1)'
    BY <1>0, <1>1, <1>4 DEF OneRun
  <2> QED BY <2>1, <2>2
<1>8. /\ \A k \in Chain : walk[k]["listener"] # "none" => walk'[k]["listener"] # "none"
      /\ \A k \in Chain : \A w \in Walks : walk[k][w] = "descend" => walk'[k][w] = "descend"
  <2>1. CASE walk' = walk
    BY <2>1
  <2>2. CASE StartWalk(i)
    <3>1. \A k \in Chain : \A w \in Walks : walk'[k][w] = walk[k][w] \/ (walk[k][w] = "none" /\ walk'[k][w] = "request")
      BY <1>0, <2>2, WalkStarts
    <3> QED BY <3>1 DEF Walks
  <2> QED BY <1>2, <2>1, <2>2
<1>9. OneCall(i)' /\ Watched(i)'
  <2>1. OneCall(i)'
    BY <1>0, <1>1, <1>4 DEF OneCall, TerminalChild
  <2>2. Starting(i)' => ~abort[i]
    BY <1>1, <1>4 DEF Starting
  <2>3. Watched(i)'
    BY <1>0, <1>1, <1>4, <1>8, <2>2 DEF Watched
  <2> QED BY <2>1, <2>3
<1>10. i + 1 \in Callers => OneCall(i + 1)' /\ Watched(i + 1)'
  BY <1>0, <1>1, <1>4, <1>5, <1>8 DEF OneCall, Watched, Starting, Same
<1>11. i # 1 => OneCall(i - 1)' /\ Watched(i - 1)'
  BY <1>0, <1>1, <1>4, <1>5, <1>8 DEF OneCall, Watched, Starting, Same
<1>12. WalksGoOn(i)
  BY <1>8, ChainFacts DEF WalksGoOn
<1> QED BY <1>5, <1>6, <1>7, <1>9, <1>10, <1>11, <1>12, PairStep


LEMMA BeginReadKeeps ==
    ASSUME ChildIInv, NEW i \in Callers, BeginRead(i)
    PROVE  ChildIInv'
<1>0. ChildTypeOK /\ i \in Chain /\ OneRun(i) /\ (i \in Callers => OneCall(i) /\ Watched(i))
  BY CallFacts, RunFacts
<1>1. /\ call[i] = "begin" /\ call' = [call EXCEPT ![i] = "read"] /\ dirty' = [dirty EXCEPT ![i] = FALSE]
      /\ UNCHANGED <<gave, heard, snap>> /\ KeepsRecord
  BY DEF BeginRead, To, KeepsRecord
<1>2. /\ call' \in [Chain -> CallSteps] /\ gave' \in [Chain -> {"none", "unknown"} \cup TerminalChild]
      /\ heard' \in [Chain -> BOOLEAN] /\ snap' \in [Chain -> RunStates] /\ dirty' \in [Chain -> BOOLEAN]
  BY <1>0, <1>1 DEF ChildTypeOK, CallSteps, TerminalChild
<1>3. /\ \A k \in Chain \ {i} : call'[k] = call[k] /\ gave'[k] = gave[k] /\ heard'[k] = heard[k] /\ snap'[k] = snap[k]
      /\ call'[i] = "read"
  BY <1>0, <1>1 DEF ChildTypeOK
<1>4. OneRun(i)'
  BY <1>0, <1>1, <1>3, ChainFacts DEF OneRun, KeepsRecord
<1>5. i \in Callers => OneCall(i)' /\ Watched(i)'
  BY <1>0, <1>1, <1>3 DEF OneCall, Watched, Starting, KeepsRecord
<1> QED BY <1>0, <1>1, <1>2, <1>3, <1>4, <1>5, ExecutionStep


LEMMA ReadChildKeeps ==
    ASSUME ChildIInv, NEW i \in Callers, ReadChild(i)
    PROVE  ChildIInv'
<1>0. ChildTypeOK /\ i \in Chain /\ OneRun(i) /\ (i \in Callers => OneCall(i) /\ Watched(i))
  BY CallFacts, RunFacts
<1>1. /\ call[i] = "read" /\ call' = [call EXCEPT ![i] = "decide"] /\ snap' = [snap EXCEPT ![i] = rec[i + 1]]
      /\ UNCHANGED <<gave, heard, dirty>> /\ KeepsRecord
  BY DEF ReadChild, To, KeepsRecord
<1>2. /\ call' \in [Chain -> CallSteps] /\ gave' \in [Chain -> {"none", "unknown"} \cup TerminalChild]
      /\ heard' \in [Chain -> BOOLEAN] /\ snap' \in [Chain -> RunStates] /\ dirty' \in [Chain -> BOOLEAN]
  BY <1>0, <1>1, ChainFacts DEF ChildTypeOK, CallSteps, TerminalChild
<1>3. /\ \A k \in Chain \ {i} : call'[k] = call[k] /\ gave'[k] = gave[k] /\ heard'[k] = heard[k] /\ snap'[k] = snap[k]
      /\ call'[i] = "decide" /\ snap'[i] = rec[i + 1]
  BY <1>0, <1>1 DEF ChildTypeOK
<1>4. OneRun(i)'
  BY <1>0, <1>1, <1>3, ChainFacts DEF OneRun, KeepsRecord
<1>5. i \in Callers => OneCall(i)' /\ Watched(i)'
  BY <1>0, <1>1, <1>3 DEF OneCall, Watched, Starting, KeepsRecord
<1> QED BY <1>0, <1>1, <1>2, <1>3, <1>4, <1>5, ExecutionStep


LEMMA DecideNextKeeps ==
    ASSUME ChildIInv, NEW i \in Callers, DecideNext(i)
    PROVE  ChildIInv'
<1>0. ChildTypeOK /\ i \in Chain /\ OneRun(i) /\ (i \in Callers => OneCall(i) /\ Watched(i))
  BY CallFacts, RunFacts
<1>1. /\ call[i] = "decide" /\ KeepsRecord /\ UNCHANGED <<gave, heard, snap, dirty>>
      /\ \/ snap[i] \in Over /\ call' = [call EXCEPT ![i] = "join"]
         \/ \E pc \in {"begin", "wait"} : call' = [call EXCEPT ![i] = pc]
  BY DEF DecideNext, To, NextOf, KeepsRecord
<1>2. /\ call' \in [Chain -> CallSteps] /\ gave' \in [Chain -> {"none", "unknown"} \cup TerminalChild]
      /\ heard' \in [Chain -> BOOLEAN] /\ snap' \in [Chain -> RunStates] /\ dirty' \in [Chain -> BOOLEAN]
  <2>1. "join" \in CallSteps /\ "begin" \in CallSteps /\ "wait" \in CallSteps
    BY DEF CallSteps
  <2>2. call \in [Chain -> CallSteps]
    BY <1>0 DEF ChildTypeOK
  <2>3. PICK pc \in CallSteps : call' = [call EXCEPT ![i] = pc]
    BY <1>1, <2>1
  <2>4. call' \in [Chain -> CallSteps]
    BY <2>2, <2>3
  <2> QED BY <1>0, <1>1, <2>4 DEF ChildTypeOK
<1>3. /\ \A k \in Chain \ {i} : call'[k] = call[k] /\ gave'[k] = gave[k] /\ heard'[k] = heard[k] /\ snap'[k] = snap[k]
      /\ (call'[i] = "join" /\ snap[i] \in Over) \/ call'[i] \in {"begin", "wait"}
  <2>0. i \in DOMAIN call
    BY <1>0 DEF ChildTypeOK
  <2>1. CASE snap[i] \in Over /\ call' = [call EXCEPT ![i] = "join"]
    BY <1>1, <2>0, <2>1
  <2>2. ASSUME NEW pc \in {"begin", "wait"}, call' = [call EXCEPT ![i] = pc]
        PROVE  call'[i] \in {"begin", "wait"} /\ \A k \in Chain \ {i} : call'[k] = call[k]
    BY <2>0, <2>2
  <2> QED BY <1>1, <2>1, <2>2
<1>4. OneRun(i)'
  BY <1>0, <1>1, <1>3, ChainFacts DEF OneRun, KeepsRecord
<1>5. OneCall(i)' /\ Watched(i)'
  <2>1. snap'[i] = snap[i] /\ rec' = rec /\ kept' = kept /\ gave' = gave /\ heard' = heard /\ drive' = drive
        /\ abort' = abort /\ walk' = walk /\ OneCall(i) /\ Watched(i) /\ call[i] = "decide"
    BY <1>0, <1>1 DEF KeepsRecord
  <2>2. OneCall(i)'
    BY <1>3, <2>1 DEF OneCall
  <2>3. Watched(i)'
    <3>1. call'[i] \in {"join", "begin", "wait"}
      BY <1>3
    <3>2. CASE call'[i] = "join"
      <4>1. ~Starting(i)
        BY <1>3, <2>1, <3>2 DEF Starting, OneCall, Over, TerminalChild
      <4> QED BY <2>1, <3>2, <4>1 DEF Watched, Starting
    <3>3. CASE call'[i] \in {"begin", "wait"}
      BY <2>1, <3>3 DEF Watched, Starting
    <3> QED BY <3>1, <3>2, <3>3
  <2> QED BY <2>2, <2>3
<1> QED BY <1>0, <1>1, <1>2, <1>3, <1>4, <1>5, ExecutionStep


LEMMA WakeCallKeeps ==
    ASSUME ChildIInv, NEW i \in Callers, WakeCall(i)
    PROVE  ChildIInv'
<1>0. ChildTypeOK /\ i \in Chain /\ OneRun(i) /\ (i \in Callers => OneCall(i) /\ Watched(i))
  BY CallFacts, RunFacts
<1>1. /\ call[i] = "wait" /\ call' = [call EXCEPT ![i] = "begin"]
      /\ UNCHANGED <<gave, heard, snap, dirty>> /\ KeepsRecord
  BY DEF WakeCall, To, KeepsRecord
<1>2. /\ call' \in [Chain -> CallSteps] /\ gave' \in [Chain -> {"none", "unknown"} \cup TerminalChild]
      /\ heard' \in [Chain -> BOOLEAN] /\ snap' \in [Chain -> RunStates] /\ dirty' \in [Chain -> BOOLEAN]
  BY <1>0, <1>1 DEF ChildTypeOK, CallSteps, TerminalChild
<1>3. /\ \A k \in Chain \ {i} : call'[k] = call[k] /\ gave'[k] = gave[k] /\ heard'[k] = heard[k] /\ snap'[k] = snap[k]
      /\ call'[i] = "begin"
  BY <1>0, <1>1 DEF ChildTypeOK
<1>4. OneRun(i)'
  BY <1>0, <1>1, <1>3, ChainFacts DEF OneRun, KeepsRecord
<1>5. i \in Callers => OneCall(i)' /\ Watched(i)'
  BY <1>0, <1>1, <1>3 DEF OneCall, Watched, Starting, KeepsRecord
<1> QED BY <1>0, <1>1, <1>2, <1>3, <1>4, <1>5, ExecutionStep


LEMMA RescueKeeps ==
    ASSUME ChildIInv, NEW i \in Callers, Rescue(i)
    PROVE  ChildIInv'
<1> i \in Chain
  BY ChainFacts
<1>0. /\ ChildTypeOK /\ OneRun(i)
      /\ i \in Callers => OneCall(i) /\ Watched(i) /\ i + 1 \in Chain /\ i + 1 # i
      /\ i # 1 => i - 1 \in Chain /\ i - 1 # i /\ (i - 1) + 1 = i /\ OneCall(i - 1) /\ Watched(i - 1)
  BY RunFacts
<1>1. call[i] = "rescue" /\ UNCHANGED <<rec, att, kept, drive, abort, heard, snap, dirty, closing, crashes>>
      /\ drive[i] = "driving"
  BY <1>0 DEF Rescue, OneRun
\* It starts the walk and waits for its end, or knows the outcome of a child that never ran.
<1>2. \/ StartWalk(i) /\ UNCHANGED <<call, gave>>
      \/ /\ \/ gave' = [gave EXCEPT ![i] = "cancelled"] /\ rec[i + 1] = "cancelled"
            \/ gave' = [gave EXCEPT ![i] = "unknown"]
         /\ call' = [call EXCEPT ![i] = "leave"] /\ walk' = walk
  BY DEF Rescue, Return, To
<1>3. walk' \in [Chain -> [Walks -> WalkSteps]]
  BY <1>0, <1>2, WalkStarts DEF ChildTypeOK
<1>4. \/ call'[i] = "rescue" /\ gave'[i] = gave[i]
      \/ /\ call'[i] = "leave"
         /\ (gave'[i] = "cancelled" /\ rec[i + 1] = "cancelled") \/ gave'[i] = "unknown"
  BY <1>0, <1>1, <1>2 DEF ChildTypeOK
<1>5. \A k \in Chain \ {i} : Same(k)
  BY <1>0, <1>1, <1>2 DEF ChildTypeOK, Same
<1>6. ChildTypeOK'
  <2>1. call' \in [Chain -> CallSteps] /\ gave' \in [Chain -> {"none", "unknown"} \cup TerminalChild]
    <3>1. "leave" \in CallSteps /\ "cancelled" \in TerminalChild
      BY DEF CallSteps, TerminalChild
    <3>2. call \in [Chain -> CallSteps] /\ gave \in [Chain -> {"none", "unknown"} \cup TerminalChild]
      BY <1>0 DEF ChildTypeOK
    <3>3. call' \in [Chain -> CallSteps]
      BY <1>2, <3>1, <3>2
    <3>4. gave' \in [Chain -> {"none", "unknown"} \cup TerminalChild]
      BY <1>2, <3>1, <3>2
    <3> QED BY <3>3, <3>4
  <2>2. \A k \in Chain : rec'[k] = "none" => drive'[k] = "none" /\ call'[k] = "none" /\ ~kept'[k]
    BY <1>0, <1>1, <1>5 DEF ChildTypeOK, Same
  <2> QED BY <1>0, <1>1, <1>3, <2>1, <2>2 DEF ChildTypeOK
<1>7. OneRun(i)'
  BY <1>0, <1>1, <1>4, ChainFacts DEF OneRun
<1>8. OneCall(i)'
  BY <1>0, <1>1, <1>4 DEF OneCall, Over, TerminalChild
<1>9. WalksGoOn(i) /\ \A w \in Walks : walk[i][w] = "descend" => walk'[i][w] = "descend"
  <2>1. \A k \in Chain : \A w \in Walks : walk'[k][w] = walk[k][w] \/ (walk[k][w] = "none" /\ walk'[k][w] = "request")
    BY <1>0, <1>2, WalkStarts
  <2> QED BY <2>1, ChainFacts DEF WalksGoOn, Walks
<1>10. Watched(i)'
  BY <1>0, <1>1, <1>4, <1>9 DEF Watched, Starting
<1>11. i # 1 => OneCall(i - 1)' /\ Watched(i - 1)'
  <2> SUFFICES ASSUME i # 1 PROVE OneCall(i - 1)' /\ Watched(i - 1)'
    OBVIOUS
  <2>1. OneCall(i - 1)'
    BY <1>0, <1>1, <1>5 DEF OneCall, Same
  <2>2. (walk[i]["listener"] # "none" => walk'[i]["listener"] # "none")
        /\ \A w \in Walks : walk[i - 1][w] = "descend" => walk'[i - 1][w] = "descend"
    BY <1>0, <1>9, ChainFacts DEF WalksGoOn
  <2>3. Watched(i - 1)'
    BY <1>0, <1>1, <1>5, <2>2 DEF Watched, Starting, Same
  <2> QED BY <2>1, <2>3
<1> QED BY <1>5, <1>6, <1>7, <1>8, <1>9, <1>10, <1>11, RunStep


LEMMA LeaveKeeps ==
    ASSUME ChildIInv, NEW i \in Callers, Leave(i)
    PROVE  ChildIInv'
<1>0. ChildTypeOK /\ i \in Chain /\ OneRun(i) /\ (i \in Callers => OneCall(i) /\ Watched(i))
  BY CallFacts, RunFacts
<1>1. /\ call[i] = "leave" /\ call' = [call EXCEPT ![i] = "over"] /\ heard' = [heard EXCEPT ![i] = FALSE]
      /\ UNCHANGED <<gave, snap, dirty>> /\ KeepsRecord
  BY DEF Leave, To, KeepsRecord
<1>2. /\ call' \in [Chain -> CallSteps] /\ gave' \in [Chain -> {"none", "unknown"} \cup TerminalChild]
      /\ heard' \in [Chain -> BOOLEAN] /\ snap' \in [Chain -> RunStates] /\ dirty' \in [Chain -> BOOLEAN]
  BY <1>0, <1>1 DEF ChildTypeOK, CallSteps, TerminalChild
<1>3. /\ \A k \in Chain \ {i} : call'[k] = call[k] /\ gave'[k] = gave[k] /\ heard'[k] = heard[k] /\ snap'[k] = snap[k]
      /\ call'[i] = "over" /\ gave'[i] = gave[i]
  BY <1>0, <1>1 DEF ChildTypeOK
<1>4. OneRun(i)'
  BY <1>0, <1>1, <1>3, ChainFacts DEF OneRun, KeepsRecord
<1>5. i \in Callers => OneCall(i)' /\ Watched(i)'
  BY <1>0, <1>1, <1>3 DEF OneCall, Watched, Starting, KeepsRecord
<1> QED BY <1>0, <1>1, <1>2, <1>3, <1>4, <1>5, ExecutionStep


LEMMA CreateChildKeeps ==
    ASSUME ChildIInv, NEW i \in Callers, NEW b \in BOOLEAN, CreateChild(i, b)
    PROVE  ChildIInv'
<1>0. /\ ChildTypeOK /\ i \in Chain /\ i + 1 \in Chain /\ i + 1 # i
      /\ OneRun(i) /\ OneRun(i + 1) /\ OneCall(i) /\ Watched(i)
      /\ i + 1 \in Callers => OneCall(i + 1) /\ Watched(i + 1) /\ (i + 1) + 1 \in Chain \ {i, i + 1}
      /\ i # 1 => i - 1 \in Callers /\ i - 1 \in Chain \ {i, i + 1} /\ (i - 1) + 1 = i
                  /\ OneCall(i - 1) /\ Watched(i - 1)
  BY CallFacts
<1>1. /\ call[i] = "create" /\ drive[i] = "driving" /\ rec[i] \in {"running", "cancelling"}
      /\ kept[i] /\ rec[i + 1] = "none"
      /\ UNCHANGED <<att, kept, drive, gave, abort, heard, snap, dirty, walk, closing, crashes>>
  BY <1>0 DEF CreateChild, OneRun, OneCall
\* Below the child there is nothing yet.
<1>2. /\ att[i + 1] = "none" /\ drive[i + 1] = "none" /\ call[i + 1] = "none" /\ ~kept[i + 1]
      /\ i + 1 \in Callers => rec[(i + 1) + 1] = "none"
  BY <1>0, <1>1 DEF ChildTypeOK, OneRun, OneCall
<1>3. \/ rec' = rec /\ call' = [call EXCEPT ![i] = "rescue"]
      \/ rec' = [rec EXCEPT ![i + 1] = "queued"] /\ call' = [call EXCEPT ![i] = "bind"]
  BY DEF CreateChild, To
<1>4. /\ rec'[i] = rec[i] /\ call'[i + 1] = "none"
      /\ \/ rec'[i + 1] = "none" /\ call'[i] = "rescue"
         \/ rec'[i + 1] = "queued" /\ call'[i] = "bind"
  BY <1>0, <1>1, <1>2, <1>3 DEF ChildTypeOK
<1>5. \A k \in Chain \ {i, i + 1} : Same(k)
  BY <1>0, <1>1, <1>3 DEF ChildTypeOK, Same
<1>6. ChildTypeOK'
  <2>1. rec' \in [Chain -> RunStates] /\ call' \in [Chain -> CallSteps]
    <3>1. "queued" \in RunStates /\ "rescue" \in CallSteps /\ "bind" \in CallSteps
      BY DEF RunStates, CallSteps
    <3>2. rec \in [Chain -> RunStates] /\ call \in [Chain -> CallSteps]
      BY <1>0 DEF ChildTypeOK
    <3>3. rec' \in [Chain -> RunStates]
      BY <1>3, <3>1, <3>2
    <3>4. call' \in [Chain -> CallSteps]
      BY <1>3, <3>1, <3>2
    <3> QED BY <3>3, <3>4
  <2>2. ASSUME NEW k \in Chain, rec'[k] = "none" PROVE drive'[k] = "none" /\ call'[k] = "none" /\ ~kept'[k]
    <3>1. CASE k = i + 1
      BY <1>1, <1>2, <1>4, <3>1
    <3>2. CASE k # i + 1
      <4>1. k \in Chain \ {i, i + 1} /\ rec[k] = "none" /\ call'[k] = call[k]
        BY <1>1, <1>4, <1>5, <2>2, <3>2 DEF Same
      <4> QED BY <1>0, <1>1, <4>1 DEF ChildTypeOK
    <3> QED BY <3>1, <3>2
  <2> QED BY <1>0, <1>1, <2>1, <2>2 DEF ChildTypeOK
<1>7. OneRun(i)' /\ OneRun(i + 1)'
  <2>1. OneRun(i)'
    BY <1>0, <1>1, <1>4, ChainFacts DEF OneRun
  <2>2. OneRun(i + 1)'
    BY <1>0, <1>1, <1>2, <1>4 DEF OneRun
  <2> QED BY <2>1, <2>2
<1>8. OneCall(i)' /\ Watched(i)'
  <2>1. OneCall(i)'
    BY <1>0, <1>1, <1>4 DEF OneCall, TerminalChild
  <2>2. Watched(i)'
    BY <1>0, <1>1, <1>2, <1>4 DEF Watched, Starting
  <2> QED BY <2>1, <2>2
<1>9. i + 1 \in Callers => OneCall(i + 1)' /\ Watched(i + 1)'
  <2> SUFFICES ASSUME i + 1 \in Callers PROVE OneCall(i + 1)' /\ Watched(i + 1)'
    OBVIOUS
  <2>1. rec'[(i + 1) + 1] = "none" /\ drive'[(i + 1) + 1] = "none"
    BY <1>0, <1>1, <1>2, <1>5, <1>6 DEF Same, ChildTypeOK
  <2> QED BY <1>1, <1>2, <1>4, <2>1 DEF OneCall, Watched, Starting, TerminalChild
<1>10. i # 1 => OneCall(i - 1)' /\ Watched(i - 1)'
  BY <1>0, <1>1, <1>4, <1>5 DEF OneCall, Watched, Starting, Same
<1>11. WalksGoOn(i)
  BY <1>1 DEF WalksGoOn
<1> QED BY <1>5, <1>6, <1>7, <1>8, <1>9, <1>10, <1>11, PairStep


LEMMA BindChildKeeps ==
    ASSUME ChildIInv, NEW i \in Callers, NEW b \in BOOLEAN, BindChild(i, b)
    PROVE  ChildIInv'
<1>0. ChildTypeOK /\ i \in Chain /\ OneRun(i) /\ (i \in Callers => OneCall(i) /\ Watched(i))
  BY CallFacts, RunFacts
<1>1. /\ call[i] = "bind" /\ call' = [call EXCEPT ![i] = IF b THEN "rescue" ELSE "check"]
      /\ heard' = [heard EXCEPT ![i] = ~b] /\ snap' = [snap EXCEPT ![i] = rec[i]]
      /\ UNCHANGED <<gave, dirty>> /\ KeepsRecord
  BY DEF BindChild, To, KeepsRecord
<1>2. /\ call' \in [Chain -> CallSteps] /\ gave' \in [Chain -> {"none", "unknown"} \cup TerminalChild]
      /\ heard' \in [Chain -> BOOLEAN] /\ snap' \in [Chain -> RunStates] /\ dirty' \in [Chain -> BOOLEAN]
  BY <1>0, <1>1 DEF ChildTypeOK, CallSteps, TerminalChild
<1>3. /\ \A k \in Chain \ {i} : call'[k] = call[k] /\ gave'[k] = gave[k] /\ heard'[k] = heard[k] /\ snap'[k] = snap[k]
      /\ call'[i] = "rescue" \/ (call'[i] = "check" /\ heard'[i])
  BY <1>0, <1>1 DEF ChildTypeOK
<1>4. OneRun(i)'
  BY <1>0, <1>1, <1>3, ChainFacts DEF OneRun, KeepsRecord
<1>5. i \in Callers => OneCall(i)' /\ Watched(i)'
  BY <1>0, <1>1, <1>3 DEF OneCall, Watched, Starting, KeepsRecord
<1> QED BY <1>0, <1>1, <1>2, <1>3, <1>4, <1>5, ExecutionStep


LEMMA JoinChildKeeps ==
    ASSUME ChildIInv, NEW i \in Callers, NEW b \in BOOLEAN, JoinChild(i, b)
    PROVE  ChildIInv'
<1>0. ChildTypeOK /\ i \in Chain /\ OneRun(i) /\ OneCall(i) /\ Watched(i)
  BY CallFacts
<1>1. /\ call[i] = "join" /\ call' = [call EXCEPT ![i] = "leave"] /\ rec[i + 1] \in Over
      /\ UNCHANGED <<heard, snap, dirty>> /\ KeepsRecord
  BY <1>0 DEF JoinChild, To, Return, KeepsRecord, OneCall
\* A known outcome is that of a settled child.
<1>2. \/ gave' = [gave EXCEPT ![i] = "unknown"]
      \/ rec[i + 1] \in TerminalChild /\ \E out \in TerminalChild : gave' = [gave EXCEPT ![i] = out]
  <2>1. CASE rec[i + 1] = "recovery_required"
    BY <2>1 DEF JoinChild, Return
  <2>2. CASE rec[i + 1] \in TerminalChild
    <3>1. gave' = [gave EXCEPT ![i] = "failed"] \/ gave' = [gave EXCEPT ![i] = rec[i + 1]]
      BY <2>2 DEF JoinChild, Return, TerminalChild
    <3> QED BY <2>2, <3>1 DEF TerminalChild
  <2> QED BY <1>1, <2>1, <2>2 DEF Over
<1>3. /\ call' \in [Chain -> CallSteps] /\ gave' \in [Chain -> {"none", "unknown"} \cup TerminalChild]
      /\ heard' \in [Chain -> BOOLEAN] /\ snap' \in [Chain -> RunStates] /\ dirty' \in [Chain -> BOOLEAN]
  <2>1. call \in [Chain -> CallSteps] /\ gave \in [Chain -> {"none", "unknown"} \cup TerminalChild] /\ "leave" \in CallSteps
    BY <1>0 DEF ChildTypeOK, CallSteps
  <2>2. call' \in [Chain -> CallSteps]
    BY <1>1, <2>1
  <2>3. gave' \in [Chain -> {"none", "unknown"} \cup TerminalChild]
    BY <1>2, <2>1
  <2> QED BY <1>0, <1>1, <2>2, <2>3 DEF ChildTypeOK
<1>4. /\ \A k \in Chain \ {i} : call'[k] = call[k] /\ gave'[k] = gave[k] /\ heard'[k] = heard[k] /\ snap'[k] = snap[k]
      /\ call'[i] = "leave" /\ (gave'[i] = "unknown" \/ (gave'[i] \in TerminalChild /\ rec[i + 1] \in TerminalChild))
  <2>1. i \in DOMAIN call /\ i \in DOMAIN gave
    BY <1>0 DEF ChildTypeOK
  <2>2. call'[i] = "leave" /\ \A k \in Chain \ {i} : call'[k] = call[k] /\ heard'[k] = heard[k] /\ snap'[k] = snap[k]
    BY <1>1, <2>1
  <2>3. /\ \A k \in Chain \ {i} : gave'[k] = gave[k]
        /\ gave'[i] = "unknown" \/ (gave'[i] \in TerminalChild /\ rec[i + 1] \in TerminalChild)
    <3>1. CASE gave' = [gave EXCEPT ![i] = "unknown"]
      BY <2>1, <3>1
    <3>2. ASSUME rec[i + 1] \in TerminalChild, NEW out \in TerminalChild, gave' = [gave EXCEPT ![i] = out]
          PROVE  gave'[i] \in TerminalChild /\ \A k \in Chain \ {i} : gave'[k] = gave[k]
      BY <2>1, <3>2
    <3> QED BY <1>2, <3>1, <3>2
  <2> QED BY <2>2, <2>3
<1>5. OneRun(i)'
  BY <1>0, <1>1, <1>4, ChainFacts DEF OneRun, KeepsRecord, TerminalChild
<1>6. OneCall(i)' /\ Watched(i)'
  <2>1. rec' = rec /\ kept' = kept /\ heard' = heard /\ snap' = snap /\ drive' = drive /\ abort' = abort /\ walk' = walk
    BY <1>1 DEF KeepsRecord
  <2>2. "unknown" \notin TerminalChild
    BY DEF TerminalChild
  <2>3. OneCall(i)'
    BY <1>0, <1>1, <1>4, <2>1, <2>2 DEF OneCall
  <2>4. Watched(i)'
    BY <1>0, <1>1, <1>4, <2>1 DEF Watched, Starting
  <2> QED BY <2>3, <2>4
<1> QED BY <1>0, <1>1, <1>3, <1>4, <1>5, <1>6, ExecutionStep


LEMMA AgentEndsKeeps ==
    ASSUME ChildIInv, NEW i \in Chain, NEW out \in {"succeeded", "failed", "cancelled", "unknown"}, AgentEnds(i, out)
    PROVE  ChildIInv'
<1>0. ChildTypeOK /\ OneRun(i)
  BY RunFacts
<1>1. /\ call[i] = "work" /\ i = Depth
      /\ call' = [call EXCEPT ![i] = "over"] /\ gave' = [gave EXCEPT ![i] = out]
      /\ UNCHANGED <<heard, snap, dirty>> /\ KeepsRecord
  BY <1>0 DEF AgentEnds, OneRun, KeepsRecord
<1>2. /\ call' \in [Chain -> CallSteps] /\ gave' \in [Chain -> {"none", "unknown"} \cup TerminalChild]
      /\ heard' \in [Chain -> BOOLEAN] /\ snap' \in [Chain -> RunStates] /\ dirty' \in [Chain -> BOOLEAN]
  BY <1>0, <1>1 DEF ChildTypeOK, CallSteps, TerminalChild
<1>3. /\ \A k \in Chain \ {i} : call'[k] = call[k] /\ gave'[k] = gave[k] /\ heard'[k] = heard[k] /\ snap'[k] = snap[k]
      /\ call'[i] = "over" /\ gave'[i] = out
  BY <1>0, <1>1 DEF ChildTypeOK
<1>4. OneRun(i)'
  BY <1>0, <1>1, <1>3 DEF OneRun, KeepsRecord
<1> QED BY <1>0, <1>1, <1>2, <1>3, <1>4, ChainFacts, ExecutionStep


\* A step of a walk alone.
KeepsRuns == UNCHANGED <<rec, att, kept, drive, call, gave, abort, heard, snap, dirty, closing, crashes>>
LEMMA WalkStep ==
    ASSUME ChildIInv, KeepsRuns, walk' \in [Chain -> [Walks -> WalkSteps]],
           \A k \in Chain : \A v \in Walks :
               walk'[k][v] = walk[k][v] \/ (walk[k][v] # "descend" /\ walk'[k][v] # "none")
    PROVE  ChildIInv'
<1>0. ChildTypeOK /\ RunsOK /\ CallsOK /\ WatchOK
  BY DEF ChildIInv
<1>1. ChildTypeOK' /\ RunsOK' /\ CallsOK'
  BY <1>0 DEF KeepsRuns, ChildTypeOK, RunsOK, OneRun, CallsOK, OneCall
<1>2. ASSUME NEW i \in Callers PROVE Watched(i)'
  <2>1. /\ walk[i + 1]["listener"] # "none" => walk'[i + 1]["listener"] # "none"
        /\ \A v \in Walks : walk[i][v] = "descend" => walk'[i][v] = "descend"
    BY ChainFacts DEF Walks
  <2> QED BY <1>0, <2>1 DEF KeepsRuns, WatchOK, Watched, Starting
<1> QED BY <1>1, <1>2 DEF ChildIInv, WatchOK

LEMMA WalkRequestKeeps ==
    ASSUME ChildIInv, NEW i \in Chain, NEW w \in Walks, WalkRequest(i, w)
    PROVE  ChildIInv'
<1>0. /\ ChildTypeOK /\ OneRun(i)
      /\ i \in Callers => OneCall(i) /\ Watched(i) /\ i + 1 \in Chain /\ i + 1 # i
      /\ i # 1 => i - 1 \in Chain /\ i - 1 # i /\ (i - 1) + 1 = i /\ OneCall(i - 1) /\ Watched(i - 1)
  BY RunFacts
<1>1. /\ walk[i][w] = "request" /\ walk \in [Chain -> [Walks -> WalkSteps]]
      /\ UNCHANGED <<kept, drive, call, gave, abort, heard, snap, closing, crashes>>
  BY <1>0 DEF WalkRequest, ChildTypeOK
\* A Run that executes is asked to stop, one that does not is cancelled on the spot.
<1>2. \/ UNCHANGED <<rec, att, dirty>>
      \/ rec[i] = "running" /\ CommitChild(i, "cancelling") /\ att' = att
      \/ /\ rec[i] \in {"queued", "waiting_input"} /\ CommitChild(i, "cancelled")
         /\ att' = att \/ att' = [att EXCEPT ![i] = "result"]
         /\ att[i] = "none" => att' = att
  <2>1. rec[i] \in RunStates
    BY <1>0 DEF ChildTypeOK
  <2>2. CASE rec[i] \in Over \cup {"cancelling", "none"}
    BY <2>2 DEF WalkRequest, CancelTo
  <2>3. CASE rec[i] = "running"
    <3>1. CancelTo(i) = "cancelling"
      BY <1>0, <2>3 DEF CancelTo, OneRun, Over, TerminalChild
    <3> QED BY <2>3, <3>1 DEF WalkRequest
  <2>4. CASE rec[i] \in {"queued", "waiting_input"}
    <3>1. CancelTo(i) = "cancelled"
      BY <1>0, <2>4 DEF CancelTo, OneRun, Over, TerminalChild
    <3> QED BY <2>4, <3>1 DEF WalkRequest
  <2> QED BY <2>1, <2>2, <2>3, <2>4 DEF RunStates
<1>3. /\ rec' \in [Chain -> RunStates] /\ dirty' \in [Chain -> BOOLEAN]
      /\ att' \in [Chain -> {"none", "intent", "waiting_input", "result"}]
  <2>1. "cancelling" \in RunStates /\ "cancelled" \in RunStates
    BY DEF RunStates, Over, TerminalChild
  <2>2. rec' \in [Chain -> RunStates] /\ dirty' \in [Chain -> BOOLEAN]
    BY <1>0, <1>2, <2>1, CommitType DEF ChildTypeOK
  <2>3. att' \in [Chain -> {"none", "intent", "waiting_input", "result"}]
    BY <1>0, <1>2 DEF ChildTypeOK
  <2> QED BY <2>2, <2>3
<1>4. \/ rec'[i] = rec[i] /\ att'[i] = att[i]
      \/ rec[i] = "running" /\ rec'[i] = "cancelling" /\ att'[i] = att[i]
      \/ /\ rec[i] \in {"queued", "waiting_input"} /\ rec'[i] = "cancelled"
         /\ att'[i] = att[i] \/ (att'[i] = "result" /\ att[i] # "none")
  BY <1>0, <1>2 DEF ChildTypeOK, CommitChild
<1>5. \A k \in Chain \ {i} : Same(k)
  BY <1>0, <1>1, <1>2 DEF ChildTypeOK, CommitChild, Same
\* The walk goes on to the Run's nodes.
<1>6. PICK s \in {"done", "descend"} : walk' = [walk EXCEPT ![i][w] = s] /\ (rec[i] # "none" => s = "descend")
  BY DEF WalkRequest
<1>7. ChildTypeOK'
  <2>1. \A k \in Chain : rec'[k] = "none" => drive'[k] = "none" /\ call'[k] = "none" /\ ~kept'[k]
    BY <1>0, <1>1, <1>4, <1>5 DEF ChildTypeOK, Same
  <2>2. walk' \in [Chain -> [Walks -> WalkSteps]]
    BY <1>1, <1>6 DEF WalkSteps
  <2> QED BY <1>0, <1>1, <1>3, <2>1, <2>2 DEF ChildTypeOK
<1>8. OneRun(i)'
  <2>1. att[i] = "none" => ~kept[i]
    BY <1>0 DEF OneRun
  <2> QED BY <1>0, <1>1, <1>4, <2>1 DEF OneRun
<1>9. WalksGoOn(i) /\ \A v \in Walks : walk[i][v] = "descend" => walk'[i][v] = "descend"
  <2>1. \A k \in Chain : \A v \in Walks : walk'[k][v] = walk[k][v] \/ (walk[k][v] = "request" /\ walk'[k][v] = s)
    BY <1>1, <1>6
  <2> QED BY <2>1, ChainFacts DEF WalksGoOn, Walks
<1>10. i \in Callers => OneCall(i)' /\ Watched(i)'
  <2> SUFFICES ASSUME i \in Callers PROVE OneCall(i)' /\ Watched(i)'
    OBVIOUS
  <2>1. Same(i + 1) /\ OneCall(i) /\ Watched(i)
    BY <1>0, <1>5
  <2>2. rec'[i] \in TerminalChild /\ kept[i] => rec[i] \in TerminalChild
    <3>1. i # Depth
      BY ChainFacts
    <3> QED BY <1>0, <1>4, <3>1 DEF OneRun, TerminalChild
  <2>3. OneCall(i)'
    BY <1>1, <2>1, <2>2 DEF OneCall, Same
  <2>4. rec'[i] = "cancelling" => rec[i] = "cancelling" \/ walk'[i][w] = "descend"
    <3>1. walk'[i][w] = s
      BY <1>1, <1>6
    <3> QED BY <1>4, <1>6, <3>1
  <2>5. Watched(i)'
    BY <1>1, <1>9, <2>1, <2>4, ChainFacts DEF Watched, Starting, Same, WalksGoOn
  <2> QED BY <2>3, <2>5
<1>11. i # 1 => OneCall(i - 1)' /\ Watched(i - 1)'
  <2> SUFFICES ASSUME i # 1 PROVE OneCall(i - 1)' /\ Watched(i - 1)'
    OBVIOUS
  <2>1. Same(i - 1) /\ OneCall(i - 1) /\ Watched(i - 1) /\ (i - 1) + 1 = i /\ rec[i] \in RunStates
    BY <1>0, <1>5 DEF ChildTypeOK
  <2>2. \/ rec'[i] = rec[i]
        \/ rec[i] \in {"running", "queued", "waiting_input"} /\ rec'[i] \in {"cancelling", "cancelled"}
    BY <1>4
  <2>3. OneCall(i - 1)'
    BY <2>1, <2>2 DEF OneCall, Same, Over, TerminalChild
  <2>4. (walk[i]["listener"] # "none" => walk'[i]["listener"] # "none")
        /\ \A v \in Walks : walk[i - 1][v] = "descend" => walk'[i - 1][v] = "descend"
    BY <1>0, <1>9, ChainFacts DEF WalksGoOn
  <2>5. Watched(i - 1)'
    BY <1>1, <2>1, <2>2, <2>4 DEF Watched, Starting, Same
  <2> QED BY <2>3, <2>5
<1> QED BY <1>5, <1>7, <1>8, <1>9, <1>10, <1>11, RunStep


LEMMA WalkDescendKeeps ==
    ASSUME ChildIInv, NEW i \in Chain, NEW w \in Walks, WalkDescend(i, w)
    PROVE  ChildIInv'
<1>0. /\ ChildTypeOK /\ OneRun(i)
      /\ i \in Callers => OneCall(i) /\ Watched(i) /\ i + 1 \in Chain /\ i + 1 # i
      /\ i # 1 => i - 1 \in Chain /\ i - 1 # i /\ (i - 1) + 1 = i /\ OneCall(i - 1) /\ Watched(i - 1)
  BY RunFacts
<1>1. /\ walk[i][w] = "descend" /\ abort' = [abort EXCEPT ![i] = abort'[i]]
      /\ abort'[i] = (abort[i] \/ Aborting(i))
      /\ UNCHANGED <<rec, att, kept, drive, call, gave, heard, snap, dirty, closing, crashes>>
  BY <1>0 DEF WalkDescend, ChildTypeOK
<1>2. ChildTypeOK'
  <2>1. walk' \in [Chain -> [Walks -> WalkSteps]]
    BY <1>0, WalkGoesDown
  <2>2. abort' \in [Chain -> BOOLEAN]
    BY <1>0, <1>1 DEF ChildTypeOK
  <2> QED BY <1>0, <1>1, <2>1, <2>2 DEF ChildTypeOK
<1>3. \A k \in Chain \ {i} : Same(k)
  BY <1>0, <1>1 DEF ChildTypeOK, Same
<1>4. OneRun(i)'
  BY <1>0, <1>1 DEF OneRun
<1>5. WalksGoOn(i)
  <2>1. \A k \in Chain : \A v \in Walks :
          \/ walk'[k][v] = walk[k][v]
          \/ k = i /\ walk'[k][v] \in {"join", "finish"}
          \/ walk[k][v] \in {"none", "done"} /\ walk'[k][v] = "request"
    BY <1>0, WalkGoesDown
  <2> QED BY <2>1, ChainFacts DEF WalksGoOn, Walks
<1>6. i \in Callers => OneCall(i)' /\ Watched(i)'
  <2> SUFFICES ASSUME i \in Callers PROVE OneCall(i)' /\ Watched(i)'
    OBVIOUS
  <2>1. OneCall(i)'
    BY <1>0, <1>1 DEF OneCall
  <2>2. walk[i + 1]["listener"] # "none" => walk'[i + 1]["listener"] # "none"
    BY <1>5 DEF WalksGoOn
  <2>3. Aborting(i) /\ heard[i] /\ ~abort[i] => walk'[i + 1]["listener"] # "none"
    BY <1>0, WalkGoesDown
  <2>4. Starting(i)' = Starting(i)
    BY <1>1 DEF Starting
  <2>5. Starting(i) /\ abort'[i] => walk'[i + 1]["listener"] # "none"
    BY <1>0, <1>1, <2>2, <2>3 DEF Watched
  <2>6. call[i] \notin {"none", "over"} => abort'[i]
    BY <1>1 DEF Aborting
  <2> QED BY <1>0, <1>1, <2>1, <2>4, <2>5, <2>6 DEF Watched
<1>7. i # 1 => OneCall(i - 1)' /\ Watched(i - 1)'
  <2> SUFFICES ASSUME i # 1 PROVE OneCall(i - 1)' /\ Watched(i - 1)'
    OBVIOUS
  <2>1. OneCall(i - 1)'
    BY <1>0, <1>1, <1>3 DEF OneCall, Same
  <2>2. (walk[i]["listener"] # "none" => walk'[i]["listener"] # "none")
        /\ \A v \in Walks : walk[i - 1][v] = "descend" => walk'[i - 1][v] = "descend"
    BY <1>0, <1>5, ChainFacts DEF WalksGoOn
  <2>3. Watched(i - 1)'
    BY <1>0, <1>1, <1>3, <2>2 DEF Watched, Starting, Same
  <2> QED BY <2>1, <2>3
<1> QED BY <1>2, <1>3, <1>4, <1>5, <1>6, <1>7, RunStep


LEMMA WalkJoinKeeps ==
    ASSUME ChildIInv, NEW i \in Chain, NEW w \in Walks, WalkJoin(i, w)
    PROVE  ChildIInv'
<1>1. /\ walk \in [Chain -> [Walks -> WalkSteps]] /\ walk[i][w] = "join"
      /\ walk' = [walk EXCEPT ![i][w] = "finish"] /\ KeepsRuns
  BY DEF WalkJoin, ChildIInv, ChildTypeOK, KeepsRuns
<1>2. walk' \in [Chain -> [Walks -> WalkSteps]]
  BY <1>1 DEF WalkSteps
<1> QED BY <1>1, <1>2, WalkStep


LEMMA WalkFinishKeeps ==
    ASSUME ChildIInv, NEW i \in Chain, NEW w \in Walks, WalkFinish(i, w)
    PROVE  ChildIInv'
<1>1. walk \in [Chain -> [Walks -> WalkSteps]] /\ walk[i][w] = "finish" /\ walk' = [walk EXCEPT ![i][w] = "done"]
  BY DEF WalkFinish, ChildIInv, ChildTypeOK
\* A cancelling Run is driven already.
<1>2. KeepsRuns
  <2>1. drive \in [Chain -> {"none", "scheduled", "driving"}] /\ (rec[i] = "cancelling" => drive[i] = "driving")
    BY RunFacts DEF ChildTypeOK, OneRun
  <2>2. drive' = drive
    BY <2>1 DEF WalkFinish, Scheduled
  <2> QED BY <2>2 DEF WalkFinish, KeepsRuns
<1>3. walk' \in [Chain -> [Walks -> WalkSteps]]
  BY <1>1 DEF WalkSteps
<1> QED BY <1>1, <1>2, <1>3, WalkStep


LEMMA ResolveKeeps ==
    ASSUME ChildIInv, NEW i \in Chain, NEW as \in TerminalChild, Resolve(i, as)
    PROVE  ChildIInv'
<1>0. /\ ChildTypeOK /\ OneRun(i)
      /\ i \in Callers => OneCall(i) /\ Watched(i) /\ i + 1 \in Chain /\ i + 1 # i
      /\ i # 1 => i - 1 \in Chain /\ i - 1 # i /\ (i - 1) + 1 = i /\ OneCall(i - 1) /\ Watched(i - 1)
  BY RunFacts
<1>1. /\ rec[i] = "recovery_required" /\ CommitChild(i, as) /\ att' = [att EXCEPT ![i] = "result"]
      /\ UNCHANGED <<kept, drive, call, gave, abort, heard, snap, walk, closing, crashes>>
      /\ drive[i] # "driving" /\ call[i] \in {"none", "over"}
  BY <1>0 DEF Resolve, OneRun
\* Its call's child is settled, if there is one.
<1>2. i \in Callers /\ kept[i] => rec[i + 1] \in TerminalChild \cup {"none"}
  BY DEF Resolve, ChildAllows
<1>3. rec' \in [Chain -> RunStates] /\ dirty' \in [Chain -> BOOLEAN]
  BY <1>0, <1>1, CommitType DEF RunStates, Over
<1>4. rec'[i] = as /\ att'[i] = "result" /\ att' \in [Chain -> {"none", "intent", "waiting_input", "result"}]
  BY <1>0, <1>1 DEF ChildTypeOK, CommitChild
<1>5. \A k \in Chain \ {i} : Same(k)
  BY <1>0, <1>1 DEF ChildTypeOK, CommitChild, Same
<1>6. ChildTypeOK'
  <2>0. rec'[i] # "none"
    BY <1>4 DEF TerminalChild
  <2>1. \A k \in Chain : rec'[k] = "none" => drive'[k] = "none" /\ call'[k] = "none" /\ ~kept'[k]
    BY <1>0, <1>1, <1>5, <2>0 DEF ChildTypeOK, Same
  <2> QED BY <1>0, <1>1, <1>3, <1>4, <2>1 DEF ChildTypeOK
<1>7. OneRun(i)'
  BY <1>0, <1>1, <1>4 DEF OneRun, TerminalChild
<1>8. i \in Callers => OneCall(i)' /\ Watched(i)'
  BY <1>0, <1>1, <1>2, <1>4, <1>5 DEF OneCall, Watched, Starting, Same, TerminalChild
<1>9. i # 1 => OneCall(i - 1)' /\ Watched(i - 1)'
  BY <1>0, <1>1, <1>4, <1>5 DEF OneCall, Watched, Starting, Same, Over, TerminalChild
<1>10. WalksGoOn(i)
  BY <1>1 DEF WalksGoOn
<1> QED BY <1>5, <1>6, <1>7, <1>8, <1>9, <1>10, RunStep


LEMMA CloseKeeps ==
    ASSUME ChildIInv, Close
    PROVE  ChildIInv'
<1>0. ChildTypeOK /\ RunsOK /\ CallsOK /\ WatchOK
  BY DEF ChildIInv
<1>1. /\ closing' = TRUE /\ abort' = [i \in Chain |-> abort[i] \/ Aborting(i)]
      /\ walk' = [i \in Chain |-> IF i = 1 THEN walk[i] ELSE ListenerWalk(i - 1, walk)[i]]
      /\ UNCHANGED <<rec, att, kept, drive, call, gave, heard, snap, dirty, crashes>>
  BY DEF Close
\* A listening call whose Run was not aborted before starts the walk down its child.
<1>2. ASSUME NEW i \in Chain
      PROVE  /\ walk'[i] \in [Walks -> WalkSteps]
             /\ \A w \in Walks : walk'[i][w] = walk[i][w] \/ (walk[i][w] = "none" /\ walk'[i][w] = "request")
             /\ i # 1 /\ heard[i - 1] /\ ~abort[i - 1] => walk'[i]["listener"] # "none"
  <2>1. walk \in [Chain -> [Walks -> WalkSteps]] /\ "listener" \in Walks
    BY <1>0 DEF ChildTypeOK, Walks
  <2>2. CASE i = 1
    BY <1>1, <2>1, <2>2
  <2>3. CASE i # 1 /\ ~(heard[i - 1] /\ ~abort[i - 1])
    BY <1>1, <2>1, <2>3 DEF ListenerWalk
  <2>4. CASE i # 1 /\ heard[i - 1] /\ ~abort[i - 1]
    <3>1. (i - 1) + 1 = i
      BY ChainFacts
    <3>2. walk'[i] = [walk[i] EXCEPT !["listener"] = IF @ = "none" THEN "request" ELSE @]
      BY <1>1, <2>1, <2>4, <3>1 DEF ListenerWalk
    <3> QED BY <2>1, <3>2 DEF WalkSteps
  <2> QED BY <2>2, <2>3, <2>4
<1>3. ChildTypeOK'
  <2>1. walk' \in [Chain -> [Walks -> WalkSteps]]
    BY <1>1, <1>2
  <2>2. abort' \in [Chain -> BOOLEAN]
    BY <1>0, <1>1 DEF ChildTypeOK, Aborting
  <2> QED BY <1>0, <1>1, <2>1, <2>2 DEF ChildTypeOK
<1>4. RunsOK'
  BY <1>0, <1>1 DEF RunsOK, OneRun
<1>5. CallsOK'
  BY <1>0, <1>1 DEF CallsOK, OneCall
<1>6. ASSUME NEW i \in Callers PROVE Watched(i)'
  <2>1. i \in Chain /\ i + 1 \in Chain /\ i + 1 # 1 /\ (i + 1) - 1 = i /\ "listener" \in Walks
    BY ChildAssumption DEF Chain, Callers, Walks
  <2>2. Watched(i)
    BY <1>0 DEF WatchOK
  <2>3. abort'[i] = (abort[i] \/ Aborting(i))
    BY <1>1, <2>1
  <2>4. /\ walk[i + 1]["listener"] # "none" => walk'[i + 1]["listener"] # "none"
        /\ heard[i] /\ ~abort[i] => walk'[i + 1]["listener"] # "none"
    BY <1>2, <2>1
  <2>5. Starting(i)' = Starting(i)
    BY <1>1 DEF Starting
  <2>6. Starting(i) => walk'[i + 1]["listener"] # "none" \/ (~abort'[i])
    BY <2>2, <2>3, <2>4 DEF Watched
  <2>7. call[i] \notin {"none", "over"} => abort'[i]
    BY <2>3 DEF Aborting
  <2> QED BY <1>1, <2>2, <2>5, <2>6, <2>7 DEF Watched
<1> QED BY <1>3, <1>4, <1>5, <1>6 DEF ChildIInv, WatchOK


LEMMA RestartKeeps ==
    ASSUME ChildIInv, Restart
    PROVE  ChildIInv'
<1>0. ChildTypeOK /\ RunsOK /\ CallsOK /\ WatchOK
  BY DEF ChildIInv
<1>1. /\ crashes' \in 0..MaxCrash /\ closing' = FALSE /\ UNCHANGED <<att, kept>>
      /\ call' = [i \in Chain |-> "none"] /\ gave' = [i \in Chain |-> "none"]
      /\ abort' = [i \in Chain |-> FALSE] /\ heard' = [i \in Chain |-> FALSE]
      /\ snap' = [i \in Chain |-> "none"] /\ dirty' = [i \in Chain |-> FALSE]
      /\ walk' = [i \in Chain |-> [w \in Walks |-> "none"]]
      /\ drive' = [i \in Chain |-> IF i = 1 /\ rec[1] = "queued" THEN "scheduled" ELSE "none"]
  BY <1>0, ChildAssumption DEF Restart, ChildTypeOK
\* A Run keeps its record, or is left to the operator.
<1>2. ASSUME NEW i \in Chain
      PROVE  /\ rec'[i] \in RunStates /\ rec'[i] \notin {"running", "cancelling"}
             /\ rec'[i] = rec[i] \/ (rec'[i] = "recovery_required" /\ rec[i] \notin Over \cup {"none"})
             /\ i # 1 => rec'[i] \in Over \cup {"none"}
  <2>1. rec'[i] = IF rec[i] \in Over \cup {"none"} THEN rec[i]
                  ELSE IF i > 1 \/ att[i] = "intent" THEN "recovery_required" ELSE rec[i]
    BY DEF Restart
  <2>2. rec[i] \in RunStates /\ (rec[i] \in {"running", "cancelling"} => att[i] = "intent")
    BY <1>0 DEF ChildTypeOK, RunsOK, OneRun
  <2>3. i # 1 => i > 1
    BY DEF Chain
  <2> QED BY <2>1, <2>2, <2>3 DEF RunStates, Over, TerminalChild
<1>3. ChildTypeOK'
  <2>1. rec' \in [Chain -> RunStates]
    BY <1>2 DEF Restart
  <2>2. drive' \in [Chain -> {"none", "scheduled", "driving"}]
    BY <1>1
  <2>3. call' \in [Chain -> CallSteps] /\ gave' \in [Chain -> {"none", "unknown"} \cup TerminalChild]
        /\ snap' \in [Chain -> RunStates] /\ walk' \in [Chain -> [Walks -> WalkSteps]]
    BY <1>1 DEF CallSteps, RunStates, WalkSteps
  <2>4. ASSUME NEW i \in Chain, rec'[i] = "none"
        PROVE  drive'[i] = "none" /\ call'[i] = "none" /\ ~kept'[i]
    BY <1>0, <1>1, <1>2, <2>4 DEF ChildTypeOK
  <2> QED BY <1>0, <1>1, <2>1, <2>2, <2>3, <2>4 DEF ChildTypeOK
<1>4. ASSUME NEW i \in Chain PROVE OneRun(i)'
  <2>1. OneRun(i)
    BY <1>0 DEF RunsOK
  <2> QED BY <1>1, <1>2, <2>1 DEF OneRun
<1>5. ASSUME NEW i \in Callers PROVE OneCall(i)' /\ Watched(i)'
  <2>1. OneCall(i) /\ i \in Chain /\ i + 1 \in Chain /\ i + 1 # 1
    BY <1>0, ChildAssumption DEF CallsOK, Callers, Chain
  <2>2. rec[i + 1] \in TerminalChild \cup {"none"} => rec'[i + 1] = rec[i + 1]
    BY <1>2, <2>1 DEF Over
  <2>3. rec'[i] \in TerminalChild => rec[i] \in TerminalChild
    BY <1>2, <2>1 DEF TerminalChild
  <2>4. OneCall(i)'
    BY <1>1, <2>1, <2>2, <2>3 DEF OneCall
  <2>5. Watched(i)'
    BY <1>1, <2>1 DEF Watched, Starting
  <2> QED BY <2>4, <2>5
<1> QED BY <1>3, <1>4, <1>5 DEF ChildIInv, RunsOK, CallsOK, WatchOK


LEMMA CancelKeeps ==
    ASSUME ChildIInv, Cancel
    PROVE  ChildIInv'
<1>1. /\ walk \in [Chain -> [Walks -> WalkSteps]] /\ walk[1]["user"] = "none"
      /\ walk' = [walk EXCEPT ![1]["user"] = "request"] /\ KeepsRuns
  BY DEF Cancel, ChildIInv, ChildTypeOK, KeepsRuns
<1>2. walk' \in [Chain -> [Walks -> WalkSteps]]
  BY <1>1 DEF WalkSteps
<1> QED BY <1>1, <1>2, WalkStep



LEMMA ChildStarts == ChildInit => ChildIInv
<1> SUFFICES ASSUME ChildInit PROVE ChildIInv
  OBVIOUS
<1>1. ChildTypeOK
  <2>1. /\ rec \in [Chain -> RunStates] /\ att \in [Chain -> {"none", "intent", "waiting_input", "result"}]
        /\ kept \in [Chain -> BOOLEAN] /\ drive \in [Chain -> {"none", "scheduled", "driving"}]
        /\ call \in [Chain -> CallSteps] /\ gave \in [Chain -> {"none", "unknown"} \cup TerminalChild]
        /\ abort \in [Chain -> BOOLEAN] /\ heard \in [Chain -> BOOLEAN]
        /\ snap \in [Chain -> RunStates] /\ dirty \in [Chain -> BOOLEAN]
    BY DEF ChildInit, RunStates, CallSteps
  <2>2. walk \in [Chain -> [Walks -> WalkSteps]]
    BY DEF ChildInit, WalkSteps
  <2>3. closing \in BOOLEAN /\ crashes \in 0..MaxCrash
    <3>1. closing \in BOOLEAN
      BY DEF ChildInit
    <3>2. crashes \in 0..MaxCrash
      BY ChildAssumption, SMT DEF ChildInit
    <3> QED BY <3>1, <3>2
  <2>4. \A i \in Chain : rec[i] = "none" => drive[i] = "none" /\ call[i] = "none" /\ ~kept[i]
    BY DEF ChildInit
  <2> QED BY <2>1, <2>2, <2>3, <2>4 DEF ChildTypeOK
<1>2. RunsOK
  BY DEF ChildInit, RunsOK, OneRun
<1>3. ASSUME NEW i \in Callers PROVE OneCall(i) /\ Watched(i)
  <2>1. i \in Chain /\ i + 1 \in Chain /\ i + 1 # 1
    BY <1>3, ChildAssumption DEF Callers, Chain
  <2> QED BY <2>1 DEF ChildInit, OneCall, Watched, Starting, Over, TerminalChild
<1> QED BY <1>1, <1>2, <1>3 DEF ChildIInv, CallsOK, WatchOK

LEMMA ChildInductive == ChildIInv /\ [ChildNext]_childVars => ChildIInv'
<1> SUFFICES ASSUME ChildIInv, [ChildNext]_childVars PROVE ChildIInv'
  OBVIOUS
<1>1. ASSUME NEW i \in Chain, JobStart(i) \/ JobEnd(i) PROVE ChildIInv'
  BY <1>1, JobStartKeeps, JobEndKeeps
<1>2. ASSUME NEW i \in Chain, NEW out \in {"succeeded", "failed", "cancelled", "unknown"}, AgentEnds(i, out)
      PROVE  ChildIInv'
  BY <1>2, AgentEndsKeeps
<1>3. ASSUME NEW i \in Callers, Reserve(i) \/ CheckParent(i) \/ BeginRead(i) \/ ReadChild(i) \/ DecideNext(i)
                                \/ WakeCall(i) \/ Rescue(i) \/ Leave(i)
      PROVE  ChildIInv'
  BY <1>3, ReserveKeeps, CheckParentKeeps, BeginReadKeeps, ReadChildKeeps, DecideNextKeeps, WakeCallKeeps,
     RescueKeeps, LeaveKeeps
<1>4. ASSUME NEW i \in Callers, NEW b \in BOOLEAN, CreateChild(i, b) \/ BindChild(i, b) \/ JoinChild(i, b)
      PROVE  ChildIInv'
  BY <1>4, CreateChildKeeps, BindChildKeeps, JoinChildKeeps
<1>5. ASSUME NEW i \in Chain, NEW w \in Walks,
             WalkRequest(i, w) \/ WalkDescend(i, w) \/ WalkJoin(i, w) \/ WalkFinish(i, w)
      PROVE  ChildIInv'
  BY <1>5, WalkRequestKeeps, WalkDescendKeeps, WalkJoinKeeps, WalkFinishKeeps
<1>6. ASSUME NEW i \in Chain, (i = Depth /\ AwaitInput(i)) \/ DecideChild(i) PROVE ChildIInv'
  BY <1>6, AwaitInputKeeps, DecideChildKeeps
<1>7. ASSUME NEW i \in Chain, NEW as \in TerminalChild, Resolve(i, as) PROVE ChildIInv'
  BY <1>7, ResolveKeeps
<1>8. CASE Cancel \/ Close \/ Restart
  BY <1>8, CancelKeeps, CloseKeeps, RestartKeeps
<1>9. CASE UNCHANGED childVars
  BY <1>9 DEF childVars, ChildIInv, ChildTypeOK, RunsOK, OneRun, CallsOK, OneCall, WatchOK, Watched, Starting
<1> QED BY <1>1, <1>2, <1>3, <1>4, <1>5, <1>6, <1>7, <1>8, <1>9 DEF ChildNext, ChildSteps

LEMMA ChildInvariant == ChildSpec => []ChildIInv
BY ChildStarts, ChildInductive, PTL DEF ChildSpec

\* No parent settles above an open child, in a chain of calls of any depth: not by a
\* cancellation racing the child's creation, not by a failure between the reservation
\* and the wait, not by a restart, not by an operator (execute, cancelTree,
\* resolveRecovery).
THEOREM CallsKept == ChildSpec => []ChildInv
<1>1. ChildIInv => ChildInv
  BY DEF ChildIInv, CallsOK, OneCall, ChildInv, ParentOutlivesChild
<1> QED BY ChildInvariant, <1>1, PTL

\* Only a Run's job makes its first intent durable.
LEMMA OnlyTheJobStarts ==
    ASSUME ChildTypeOK, [ChildNext]_childVars, NEW j \in Chain, att[j] = "none", att'[j] = "intent"
    PROVE  JobStart(j)
<1> att \in [Chain -> {"none", "intent", "waiting_input", "result"}]
  BY DEF ChildTypeOK
<1>1. ASSUME NEW i \in Chain, JobStart(i) PROVE JobStart(j)
  <2>1. att' = [att EXCEPT ![i] = "intent"] \/ att' = att
    BY <1>1 DEF JobStart
  <2> QED BY <1>1, <2>1
<1>2. ASSUME NEW i \in Chain, JobEnd(i) PROVE FALSE
  <2>1. att' = [att EXCEPT ![i] = "result"] \/ att' = att
    BY <1>2 DEF JobEnd
  <2> QED BY <2>1
<1>3. ASSUME NEW i \in Chain, NEW w \in Walks, WalkRequest(i, w) PROVE FALSE
  <2>1. att' = [att EXCEPT ![i] = "result"] \/ att' = att
    BY <1>3 DEF WalkRequest
  <2> QED BY <2>1
<1>4. ASSUME NEW i \in Chain, NEW w \in Walks, WalkDescend(i, w) \/ WalkJoin(i, w) \/ WalkFinish(i, w) PROVE FALSE
  BY <1>4 DEF WalkDescend, WalkJoin, WalkFinish
<1>5. ASSUME NEW i \in Chain, AwaitInput(i) \/ DecideChild(i) \/ (\E as \in TerminalChild : Resolve(i, as)) PROVE FALSE
  <2>1. att' = [att EXCEPT ![i] = "waiting_input"] \/ att' = [att EXCEPT ![i] = "result"]
    BY <1>5 DEF AwaitInput, DecideChild, Resolve
  <2> QED BY <2>1
<1>6. ASSUME NEW i \in Callers, Reserve(i) \/ CheckParent(i) \/ BeginRead(i) \/ ReadChild(i) \/ DecideNext(i)
                                \/ WakeCall(i) \/ Rescue(i) \/ Leave(i)
      PROVE  FALSE
  BY <1>6 DEF Reserve, CheckParent, BeginRead, ReadChild, DecideNext, WakeCall, Rescue, Leave
<1>7. ASSUME NEW i \in Callers, NEW b \in BOOLEAN, CreateChild(i, b) \/ BindChild(i, b) \/ JoinChild(i, b)
      PROVE  FALSE
  BY <1>7 DEF CreateChild, BindChild, JoinChild
<1>8. ASSUME NEW i \in Chain, NEW out \in {"succeeded", "failed", "cancelled", "unknown"}, AgentEnds(i, out)
      PROVE  FALSE
  BY <1>8 DEF AgentEnds
<1>9. ~Cancel /\ ~Close /\ ~Restart /\ ~UNCHANGED childVars
  BY DEF Cancel, Close, Restart, childVars
<1> QED BY <1>1, <1>2, <1>3, <1>4, <1>5, <1>6, <1>7, <1>8, <1>9 DEF ChildNext, ChildSteps

\* When a child's job commits its first intent, its parent runs and was not aborted, or a
\* cancellation is on its way down to the child: what the parent's recheck saw stays true
\* until the child starts, or is known to the walk that will cancel it.
THEOREM NothingStartsBelowSettled == ChildSpec => NoStartBelowSettled
<1> DEFINE Held == \A i \in Callers :
             (att[i + 1] = "none" /\ att'[i + 1] = "intent")
                 => \/ rec[i] = "running" /\ ~abort[i]
                    \/ \E w \in Walks : walk[i + 1][w] # "none" \/ walk[i][w] \in {"request", "descend"}
<1>1. ChildIInv /\ [ChildNext]_childVars => Held
  <2> SUFFICES ASSUME ChildIInv, [ChildNext]_childVars, NEW i \in Callers,
                      att[i + 1] = "none", att'[i + 1] = "intent"
               PROVE  \/ rec[i] = "running" /\ ~abort[i]
                      \/ \E w \in Walks : walk[i + 1][w] # "none" \/ walk[i][w] \in {"request", "descend"}
    OBVIOUS
  <2>0. /\ ChildTypeOK /\ i + 1 \in Chain /\ OneRun(i) /\ OneRun(i + 1) /\ Watched(i)
    BY CallFacts
  <2>1. JobStart(i + 1)
    BY <2>0, OnlyTheJobStarts
  <2>2. drive[i + 1] = "scheduled" /\ rec[i + 1] \in {"queued", "running"}
    BY <2>1 DEF JobStart
  <2>3. Starting(i)
    BY <2>0, <2>2 DEF Starting, OneRun
  <2>4. call[i] \in {"begin", "read", "decide", "wait"} /\ rec[i] \in {"running", "cancelling"}
    BY <2>0, <2>3 DEF Watched, OneRun
  <2>5. CASE abort[i]
    BY <2>0, <2>3, <2>5 DEF Watched, Walks
  <2>6. CASE ~abort[i] /\ rec[i] = "cancelling"
    BY <2>0, <2>4, <2>6 DEF Watched
  <2> QED BY <2>4, <2>5, <2>6
<1>2. ChildSpec => [][Held]_childVars
  BY ChildInvariant, <1>1, PTL DEF ChildSpec
<1> QED BY <1>2 DEF NoStartBelowSettled

=============================================================================
