------------------------------ MODULE RunView -------------------------------
(***************************************************************************)
(* The Run beside the canvas: BlueprintClientModel                         *)
(* (client/features/authoring/logic/run/client-model.ts), the polling that *)
(* feeds it, and the decision a user makes on what it shows                *)
(* (logic/run/workspace-run-use-cases.ts).                                 *)
(*                                                                         *)
(* A Run passes its gates in order: a gate waits to be approved, and a     *)
(* rejection ends the Run.  The Host is asked to decide a Run, not a gate, *)
(* and settles the one that waits; what ties a repeated click to the first *)
(* one is the decision id, which the client keeps per Run, gate and action *)
(* until a document is loaded.  Answers come in any order, late or never;  *)
(* applyEvent has no caller in the client and is left out.                 *)
(***************************************************************************)
EXTENDS Integers, Sequences, SequencesExt

CONSTANTS Watched,    \* the Runs
          Gates,      \* the last gate of each Run: gates are 1..Gates
          NoView,     \* no value
          MaxReads, MaxClicks, MaxLoads, MaxSteps \* bounds: reads, ids, loads, states of a Run

ASSUME RunViewAssumption == {Gates, MaxReads, MaxClicks, MaxLoads, MaxSteps} \subseteq Nat

VARIABLES
    bound,    \* the Run the workspace is bound to
    view,     \* the snapshot shown, [run, seq, gate], or NoView
    stale, generation, latest,  \* the model's own fields: stale, epoch, latestRead
    asked,    \* reads in flight: [run, epoch, read, value]
    posts,    \* decisions that may still reach the Host: [run, id, gate, action, load]
    busy,     \* the decision the client waits for, or NoView
    ids,      \* the decision id kept per <<run, gate, action>>; 0 is none
    issued,   \* the ids made so far, as crypto.randomUUID makes no id twice
    load,     \* how often a document was loaded: the ids are forgotten
    hist,     \* the Host: per Run the waiting gate at each seq
    applied   \* the Host: [run, gate, id, meant, action, load] of every decision settled
runVars == <<bound, view, stale, generation, latest, asked, posts, busy, ids, issued, load, hist, applied>>

Actions == {"approve", "reject"}
Keys == Watched \X (1..Gates) \X Actions
Snapshot(r) == [run |-> r, seq |-> Len(hist[r]), gate |-> Last(hist[r])]
Forgotten == [k \in Keys |-> 0]

RunViewTypeOK ==
    /\ bound \in Watched \cup {NoView} /\ stale \in BOOLEAN
    /\ \A r \in Watched : hist[r] \in Seq(1..Gates + 1)
    /\ view # NoView => view.run \in Watched /\ view.seq \in DOMAIN hist[view.run]
    /\ {generation, latest, load, issued} \subseteq Nat /\ ids \in [Keys -> Nat]
    \* A view without a Run to be of is none.
    /\ bound = NoView => view = NoView

RunViewInit ==
    /\ bound = NoView /\ view = NoView /\ stale = FALSE /\ generation = 0 /\ latest = 0
    /\ asked = {} /\ posts = {} /\ busy = NoView /\ ids = Forgotten /\ issued = 0 /\ load = 0
    /\ hist = [r \in Watched |-> <<1>>] /\ applied = {}

-----------------------------------------------------------------------------
(* The Host.                                                                 *)

\* A Run goes on without passing a gate.
Progress(r) ==
    /\ Len(hist[r]) < MaxSteps /\ hist' = [hist EXCEPT ![r] = Append(@, Last(@))]
    /\ UNCHANGED <<bound, view, stale, generation, latest, asked, posts, busy, ids, issued, load, applied>>
\* store.decide: a known id is a replay; otherwise the gate that waits is settled, and
\* a rejection ends the Run.
Settles(r, p) == Last(hist[r]) <= Gates /\ \A d \in applied : d.id # p.id
After(gate, action) == IF action = "approve" THEN gate + 1 ELSE Gates + 1
Passes(r, action) == hist' = [hist EXCEPT ![r] = Append(@, After(Last(@), action))]
Settled(r, p) ==
    [run |-> r, gate |-> Last(hist[r]), id |-> p.id, meant |-> p.gate, action |-> p.action, load |-> p.load]
Decided(r, p) ==
    IF Settles(r, p) THEN Passes(r, p.action) /\ applied' = applied \cup {Settled(r, p)}
    ELSE UNCHANGED <<hist, applied>>
HostDecides(p) ==
    /\ p \in posts /\ posts' = posts \ {p} /\ Decided(p.run, p)
    /\ UNCHANGED <<bound, view, stale, generation, latest, asked, busy, ids, issued, load>>
HostInspects(a) ==
    /\ a \in asked /\ a.value = NoView
    /\ asked' = (asked \ {a}) \cup {[a EXCEPT !.value = Snapshot(a.run)]}
    /\ UNCHANGED <<bound, view, stale, generation, latest, posts, busy, ids, issued, load, hist, applied>>

-----------------------------------------------------------------------------
(* The model and the workspace that binds it.                                *)

\* Loading a document: nothing is bound, in-flight reads are of an older epoch and the
\* decision ids are forgotten; then the document's Run is bound (set runId, reset).
LoadDocument(r) ==
    /\ busy = NoView /\ load < MaxLoads /\ load' = load + 1
    /\ bound' = r /\ view' = NoView /\ stale' = FALSE /\ generation' = generation + 1 /\ ids' = Forgotten
    /\ UNCHANGED <<latest, asked, posts, busy, issued, hist, applied>>
\* Another Run of the same document: its start was admitted.
BindRun(r) ==
    /\ busy = NoView /\ bound # NoView /\ r # bound /\ generation < MaxLoads
    /\ bound' = r /\ view' = NoView /\ stale' = FALSE /\ generation' = generation + 1
    /\ UNCHANGED <<latest, asked, posts, busy, ids, issued, load, hist, applied>>

\* resync, from the poll (not while a command runs) or after a command.
Asks ==
    /\ latest < MaxReads /\ latest' = latest + 1
    /\ asked' = asked \cup {[run |-> bound, epoch |-> generation, read |-> latest + 1, value |-> NoView]}
PollRun ==
    /\ bound # NoView /\ busy = NoView /\ Asks
    /\ UNCHANGED <<bound, view, stale, generation, posts, busy, ids, issued, load, hist, applied>>
\* Only the latest read of the current binding is adopted, or marks the view stale.
AdoptableOfEpoch(a) == a.epoch = generation
Adoptable(a) == a.epoch = generation /\ a.read = latest
ReadArrives(a) ==
    /\ a \in asked /\ a.value # NoView /\ asked' = asked \ {a}
    /\ IF Adoptable(a) THEN view' = a.value /\ stale' = FALSE ELSE UNCHANGED <<view, stale>>
    /\ UNCHANGED <<bound, generation, latest, posts, busy, ids, issued, load, hist, applied>>
ReadFails(a) ==
    /\ a \in asked /\ asked' = asked \ {a} /\ stale' = (stale \/ Adoptable(a))
    /\ UNCHANGED <<bound, view, generation, latest, posts, busy, ids, issued, load, hist, applied>>
\* The browser goes offline.
MarkDisconnected ==
    /\ bound # NoView /\ ~stale /\ stale' = TRUE
    /\ UNCHANGED <<bound, view, generation, latest, asked, posts, busy, ids, issued, load, hist, applied>>
DecisionIdAnew(k) == issued + 1   \* mutant: every press has its own id
\* decide, on the gate the view shows as waiting: the same button has the same id.
DecisionId(k) == IF ids[k] > 0 THEN ids[k] ELSE issued + 1
Decide(action) ==
    /\ busy = NoView /\ view # NoView /\ view.gate <= Gates
    /\ LET k == <<view.run, view.gate, action>>
           post == [run |-> view.run, id |-> DecisionId(k), gate |-> view.gate, action |-> action, load |-> load]
       IN /\ DecisionId(k) <= MaxClicks
          /\ ids' = [ids EXCEPT ![k] = DecisionId(k)]
          /\ issued' = IF ids[k] > 0 THEN issued ELSE issued + 1
          /\ posts' = posts \cup {post} /\ busy' = post
    /\ UNCHANGED <<bound, view, stale, generation, latest, asked, load, hist, applied>>
\* The answer of a decision the Host has seen: the Run is read again, unless it is refused.
DecideAnswered ==
    /\ busy # NoView /\ busy \notin posts /\ busy' = NoView
    /\ Asks \/ UNCHANGED <<latest, asked>>
    /\ UNCHANGED <<bound, view, stale, generation, posts, ids, issued, load, hist, applied>>
\* The transport gives up on it; the request may still arrive at the Host, or be lost.
DecideLost ==
    /\ busy # NoView /\ busy' = NoView /\ stale' = TRUE
    /\ posts' \in {posts, posts \ {busy}}
    /\ UNCHANGED <<bound, view, generation, latest, asked, ids, issued, load, hist, applied>>
\* Another client decides the same Run; its decisions are those of load 0.
OtherDecides(r, action) ==
    /\ Last(hist[r]) <= Gates /\ Len(hist[r]) < MaxSteps
    /\ Passes(r, action)
    /\ applied' = applied \cup {Settled(r, [id |-> 0, gate |-> Last(hist[r]), action |-> action, load |-> 0])}
    /\ UNCHANGED <<bound, view, stale, generation, latest, asked, posts, busy, ids, issued, load>>

RunViewNext ==
    \/ \E r \in Watched : Progress(r) \/ LoadDocument(r) \/ BindRun(r)
    \/ \E r \in Watched, action \in Actions : OtherDecides(r, action)
    \/ \E action \in Actions : Decide(action)
    \/ \E p \in posts : HostDecides(p)
    \/ \E a \in asked : HostInspects(a) \/ ReadArrives(a) \/ ReadFails(a)
    \/ PollRun \/ MarkDisconnected
    \/ DecideAnswered \/ DecideLost

RunViewSpec == RunViewInit /\ [][RunViewNext]_runVars

-----------------------------------------------------------------------------
(* Properties.                                                               *)

\* What is shown is of the Run that is bound, at a state that Run has had: no read of an
\* earlier binding lands in a later one (reset, epoch).
ViewIsOfBound == view # NoView => view.run = bound /\ view.gate = hist[view.run][view.seq]

\* While the binding stays, the view never goes back in the Run's sequence, whatever the
\* order in which polls and the reads after commands come back (latestRead).
RunNeverGoesBack == [][
    (view # NoView /\ view' # NoView /\ generation' = generation /\ bound' = bound) => view'.seq >= view.seq]_runVars

\* While a document stays loaded, a button pressed again on one gate, because its answer
\* was lost or is late, settles one gate: the repetition never decides the next one.
RepeatedDecisionSettlesOnce ==
    \A d, e \in applied :
        (d.load > 0 /\ d.run = e.run /\ d.meant = e.meant /\ d.action = e.action /\ d.load = e.load) => d = e

\* A decision settles another gate than the one its user saw only after somebody else, a
\* decision from before the document was loaded again, or the other button had settled the
\* gate seen or one before it.  The Host is told a Run and no gate, so these it cannot tell
\* from a decision of the gate that waits: a user whose approval was answered late and who
\* then rejects, on the gate still shown, rejects the next one.
DecisionMissesOnlyForOthers ==
    \A d \in applied : d.gate # d.meant =>
        \E e \in applied :
            e.run = d.run /\ e.gate <= d.meant /\ (e.load # d.load \/ e.action # d.action)
=============================================================================
