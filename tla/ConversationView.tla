-------------------------- MODULE ConversationView --------------------------
(***************************************************************************)
(* The conversation seat of the client: ConversationController             *)
(* (client/features/conversation/logic/conversation-controller.ts), which  *)
(* shows the Runs of one Session, follows a chosen one by polling, and     *)
(* archives or resolves the Run it shows.                                  *)
(*                                                                         *)
(* A remote call leaves, is answered by the Host at some later moment and  *)
(* arrives later still, in any order with the others; it may fail, or its  *)
(* answer may not decode (one failure to the controller).  A call carries  *)
(* the epoch it was made in and what it captured from the view.            *)
(***************************************************************************)
EXTENDS Integers, FiniteSets

CONSTANTS Sessions, SRuns,   \* the Sessions and the Runs the Host keeps
          SessionOf,         \* each Run's Session
          Off,               \* no value
          MaxCalls,          \* bound: operations that bump the epoch
          MaxMoves           \* bound: changes of the Host's Runs

\* What inspectSession answers: the selected Run, its seq and whether it awaits recovery,
\* and whether its second Attempt exists yet; the list of Runs may have further pages.
Shown == [run : SRuns, seq : Nat, recovery : BOOLEAN, more : BOOLEAN]

ASSUME ConversationAssumption ==
    /\ SessionOf \in [SRuns -> Sessions] /\ {MaxCalls, MaxMoves} \subseteq Nat
    /\ Off \notin Shown

VARIABLES
    seat,    \* the snapshot: session, shown, connection, attempt, error
    choice,  \* per Session: the Run its user picked, or Off
    epoch, online, pending, paging, \* the controller's own fields
    wire,    \* the calls in flight
    facts,   \* the Host: per Run its seq, its state and whether it is archived
    moves
convVars == <<seat, choice, epoch, online, pending, paging, wire, facts, moves>>

Attempts(v) == IF v.seq > 0 THEN {"a1", "a2"} ELSE {"a1"}
CallKinds == {"inspect", "page", "archive", "resolve", "start"}
\* A call: what it captured, how far it is and what it brings.  The read that follows a
\* refused review shows the refusal when it ends (refused).
Calls == [kind : CallKinds, epoch : Nat, session : Sessions, pick : SRuns \cup {Off},
          base : Shown \cup {Off}, refused : BOOLEAN,
          status : {"sent", "done", "conflict", "failed"}, value : Shown \cup {Off}]

ConvTypeOK ==
    /\ seat.session \in Sessions /\ seat.shown \in Shown \cup {Off}
    /\ seat.connection \in {"loading", "connected", "stale", "unavailable"}
    /\ seat.attempt \in {"a1", "a2", Off} /\ seat.error \in BOOLEAN
    /\ choice \in [Sessions -> SRuns \cup {Off}]
    /\ epoch \in Nat /\ online \in BOOLEAN /\ pending \in Nat \cup {Off} /\ paging \in BOOLEAN
    /\ wire \subseteq Calls
    /\ facts \in [SRuns -> [seq : Nat, recovery : BOOLEAN, archived : BOOLEAN]]
    /\ moves \in 0..MaxMoves
    \* The poll's gate belongs to a read that is still under way.
    /\ pending # Off => \E c \in wire : c.kind = "inspect" /\ c.epoch = pending

Fresh(s) == [session |-> s, shown |-> Off, connection |-> "loading", attempt |-> Off, error |-> FALSE]

ConvInit ==
    /\ \E s \in Sessions : seat = Fresh(s)
    /\ choice = [s \in Sessions |-> Off]
    /\ epoch = 0 /\ online = TRUE /\ pending = Off /\ paging = FALSE /\ wire = {}
    /\ facts = [r \in SRuns |-> [seq |-> 0, recovery |-> TRUE, archived |-> FALSE]]
    /\ moves = 0

-----------------------------------------------------------------------------
(* The Host (external to this seat).                                         *)

\* A Run moves on, whoever moved it.
HostMoves(r) ==
    /\ moves < MaxMoves /\ moves' = moves + 1
    /\ facts' = [facts EXCEPT ![r].seq = @ + 1]
    /\ UNCHANGED <<seat, choice, epoch, online, pending, paging, wire>>

SessionRuns(s) == {r \in SRuns : SessionOf[r] = s /\ ~facts[r].archived}
View(r) == [run |-> r, seq |-> facts[r].seq, recovery |-> facts[r].recovery, more |-> Cardinality(SessionRuns(SessionOf[r])) > 1]
Answered(c, status, v) == wire' = (wire \ {c}) \cup {[c EXCEPT !.status = status, !.value = v]}

\* The Host reads for a call: the picked Run, or the Session's default one.  A plan's
\* start is admitted once per request id (RunAdmission); here it only answers.
HostReads(c) ==
    /\ c \in wire /\ c.status = "sent" /\ c.kind \in {"inspect", "page", "start"}
    /\ \/ /\ c.kind # "inspect" /\ Answered(c, "done", Off)
       \/ /\ c.kind = "inspect" /\ c.pick # Off /\ Answered(c, "done", View(c.pick))
       \/ /\ c.kind = "inspect" /\ c.pick = Off /\ SessionRuns(c.session) = {} /\ Answered(c, "done", Off)
       \/ /\ c.kind = "inspect" /\ c.pick = Off
          /\ \E r \in SessionRuns(c.session) : Answered(c, "done", View(r))
    /\ UNCHANGED <<seat, choice, epoch, online, pending, paging, facts, moves>>

\* The Host archives, or settles the Run as reviewed unless it moved since.
Archives(c) ==
    /\ c \in wire /\ c.status = "sent" /\ c.kind = "archive"
    /\ facts' = [facts EXCEPT ![c.base.run].archived = TRUE] /\ Answered(c, "done", Off)
    /\ UNCHANGED <<seat, choice, epoch, online, pending, paging, moves>>
Resolves(c) ==
    LET r == c.base.run IN
    /\ c \in wire /\ c.status = "sent" /\ c.kind = "resolve"
    /\ IF facts[r].recovery /\ facts[r].seq = c.base.seq
       THEN /\ facts' = [facts EXCEPT ![r].recovery = FALSE, ![r].seq = @ + 1]
            /\ Answered(c, "done", Off)
       ELSE Answered(c, "conflict", Off) /\ UNCHANGED <<facts>>
    /\ UNCHANGED <<seat, choice, epoch, online, pending, paging, moves>>

\* A call is lost, or what comes back does not decode.
Fails(c) ==
    /\ c \in wire /\ c.status # "failed" /\ Answered(c, "failed", Off)
    /\ UNCHANGED <<seat, choice, epoch, online, pending, paging, facts, moves>>

-----------------------------------------------------------------------------
(* The controller.                                                           *)

Bumps == epoch < MaxCalls /\ epoch' = epoch + 1
Call(kind, e, s, pick, base) ==
    [kind |-> kind, epoch |-> e, session |-> s, pick |-> pick, base |-> base, refused |-> FALSE,
     status |-> "sent", value |-> Off]

\* setSession: what is in flight belongs to an older epoch.
SetSession(s) ==
    /\ s # seat.session /\ Bumps
    /\ seat' = Fresh(s) /\ pending' = Off
    /\ UNCHANGED <<choice, online, paging, wire, facts, moves>>
Resume == ~online /\ online' = TRUE /\ UNCHANGED <<seat, choice, epoch, pending, paging, wire, facts, moves>>
Pause ==
    /\ online /\ Bumps /\ online' = FALSE /\ pending' = Off
    /\ seat' = IF seat.shown # Off THEN [seat EXCEPT !.connection = "stale"] ELSE seat
    /\ UNCHANGED <<choice, paging, wire, facts, moves>>
Lost == [seat EXCEPT !.connection = IF seat.shown # Off THEN "stale" ELSE "unavailable"]
MarkStale ==
    /\ Bumps /\ pending' = Off /\ seat' = Lost
    /\ UNCHANGED <<choice, online, paging, wire, facts, moves>>

\* refresh: one epoch, one read, of the Session and the choice of this moment.
Refresh(s, pick) ==
    /\ Bumps /\ pending' = epoch + 1
    /\ wire' = wire \cup {Call("inspect", epoch + 1, s, pick, Off)}
\* The timer's poll waits for a slow read; an explicit refresh supersedes it.
Poll ==
    /\ online /\ pending = Off /\ Refresh(seat.session, choice[seat.session])
    /\ UNCHANGED <<seat, choice, online, paging, facts, moves>>
RefreshNow ==
    /\ online /\ Refresh(seat.session, choice[seat.session])
    /\ UNCHANGED <<seat, choice, online, paging, facts, moves>>

\* selectRun, of a listed Run: the old graph stays on screen until the new one is there.
SelectRun(r) ==
    /\ seat.shown # Off /\ SessionOf[r] = seat.session
    /\ choice' = [choice EXCEPT ![seat.session] = r]
    /\ seat' = IF seat.shown.run = r THEN seat
               ELSE [seat EXCEPT !.connection = "loading", !.attempt = Off, !.error = FALSE]
    /\ IF online THEN Refresh(seat.session, r) ELSE Bumps /\ UNCHANGED <<pending, wire>>
    /\ UNCHANGED <<online, paging, facts, moves>>
SelectAttempt(a) ==
    /\ seat.shown # Off /\ a \in Attempts(seat.shown)
    /\ seat' = [seat EXCEPT !.attempt = a]
    /\ UNCHANGED <<choice, epoch, online, pending, paging, wire, facts, moves>>

\* loadMoreRuns, archiveSelectedRun and resolveRecovery capture the view they were asked in.
Sends(kind) ==
    /\ online /\ seat.shown # Off /\ Bumps
    /\ wire' = wire \cup {Call(kind, epoch + 1, seat.session, Off, seat.shown)}
LoadMore ==
    /\ ~paging /\ Sends("page") /\ seat.shown.more /\ paging' = TRUE
    /\ UNCHANGED <<seat, choice, online, pending, facts, moves>>
Archive ==
    /\ Sends("archive")
    /\ UNCHANGED <<seat, choice, online, pending, paging, facts, moves>>
ResolveRecovery ==
    /\ Sends("resolve") /\ seat.shown.recovery
    /\ UNCHANGED <<seat, choice, online, pending, paging, facts, moves>>
\* runPlan of a saved plan, whose request id is the plan's own: it asks nothing of the view.
RunPlan ==
    /\ Bumps /\ wire' = wire \cup {Call("start", epoch + 1, seat.session, Off, Off)}
    /\ UNCHANGED <<seat, choice, online, pending, paging, facts, moves>>

-----------------------------------------------------------------------------
(* Answers.  One of an older epoch, or to a paused seat, changes nothing but *)
(* the gate of its own kind.                                                 *)

StillAskedAny(c) == online
StillAsked(c) == c.epoch = epoch /\ online
Gate(c) == IF c.kind = "inspect" /\ pending = c.epoch THEN Off ELSE pending
Arrive(c) ==
    /\ c \in wire /\ c.status # "sent"
    /\ paging' = (paging /\ c.kind # "page")
\* After the read that follows a refused review, whatever became of that read.
Noted(c, s) == IF c.refused /\ online /\ s.connection = "connected" THEN [s EXCEPT !.error = TRUE] ELSE s
Drop(c) ==
    /\ c.kind # "start" /\ Arrive(c) /\ ~StillAsked(c)
    /\ wire' = wire \ {c} /\ pending' = Gate(c) /\ seat' = Noted(c, seat)
    /\ UNCHANGED <<choice, epoch, online, facts, moves>>

\* A read that answers for another Run than the picked one, goes back in the Run's
\* sequence or loses the Run is refused like a failed one.
OlderThanShown(v) == IF seat.shown = Off \/ v = Off THEN FALSE ELSE seat.shown.run = v.run /\ seat.shown.seq > v.seq
Refuses(c) ==
    \/ c.status = "failed"
    \/ c.value = Off /\ c.pick # Off
    \/ IF c.value = Off THEN FALSE ELSE (c.pick # Off /\ c.value.run # c.pick) \/ OlderThanShown(c.value)
Adopt(v) ==
    [seat EXCEPT !.shown = v, !.connection = "connected", !.error = FALSE,
                 !.attempt = IF v = Off THEN Off ELSE IF @ \in Attempts(v) THEN @ ELSE Off]
InspectArrives(c) ==
    /\ c.kind = "inspect" /\ Arrive(c) /\ StillAsked(c)
    /\ wire' = wire \ {c} /\ pending' = Gate(c)
    /\ seat' = Noted(c, IF Refuses(c) THEN [Lost EXCEPT !.error = TRUE] ELSE Adopt(c.value))
    /\ UNCHANGED <<choice, epoch, online, facts, moves>>

\* A further page is merged into the value the call captured.
PageArrives(c) ==
    /\ c.kind = "page" /\ Arrive(c) /\ StillAsked(c)
    /\ wire' = wire \ {c} /\ pending' = pending
    /\ seat' = IF c.status = "failed" THEN [Lost EXCEPT !.error = TRUE]
               ELSE [seat EXCEPT !.shown = [c.base EXCEPT !.more = FALSE], !.connection = "connected", !.error = FALSE]
    /\ UNCHANGED <<choice, epoch, online, facts, moves>>

\* The read that follows an action of this epoch.
Rereads(c, picks) ==
    /\ choice' = picks /\ Bumps /\ pending' = epoch + 1 /\ UNCHANGED seat
    /\ wire' = (wire \ {c}) \cup
        {[Call("inspect", epoch + 1, seat.session, picks[seat.session], Off) EXCEPT !.refused = c.status = "conflict"]}
\* Archived, or resolved, or refused as a conflict: the Session is read again; the
\* archived Run is no longer the choice.  Another failure leaves the view stale.
ActionArrives(c) ==
    /\ c.kind \in {"archive", "resolve"} /\ Arrive(c) /\ StillAsked(c)
    /\ IF c.status = "failed"
       THEN /\ seat' = [Lost EXCEPT !.error = TRUE] /\ wire' = wire \ {c}
            /\ UNCHANGED <<choice, epoch, pending>>
       ELSE Rereads(c, IF c.kind = "archive" THEN [choice EXCEPT ![c.session] = Off] ELSE choice)
    /\ UNCHANGED <<online, facts, moves>>
\* A started plan is followed by a read, unless something else was asked meanwhile; a
\* failed start is the caller's to show.
StartArrives(c) ==
    /\ c.kind = "start" /\ Arrive(c)
    /\ IF c.status = "done" /\ StillAsked(c) THEN Rereads(c, choice)
       ELSE wire' = wire \ {c} /\ UNCHANGED <<seat, choice, epoch, pending>>
    /\ UNCHANGED <<online, facts, moves>>

ConvNext ==
    \/ \E r \in SRuns : HostMoves(r) \/ SelectRun(r)
    \/ \E c \in wire :
        \/ HostReads(c) \/ Archives(c) \/ Resolves(c) \/ Fails(c)
        \/ Drop(c) \/ InspectArrives(c) \/ PageArrives(c) \/ ActionArrives(c) \/ StartArrives(c)
    \/ \E s \in Sessions : SetSession(s)
    \/ \E a \in {"a1", "a2"} : SelectAttempt(a)
    \/ Resume \/ Pause \/ MarkStale \/ Poll \/ RefreshNow \/ LoadMore \/ Archive \/ ResolveRecovery \/ RunPlan

ConvSpec == ConvInit /\ [][ConvNext]_convVars

-----------------------------------------------------------------------------
(* Properties.                                                               *)

\* The seat shows a Run of the Session it is on, never one that an answer to an earlier
\* Session's call brings late (setSession, the epochs).
ShowsItsSession == seat.shown # Off => SessionOf[seat.shown.run] = seat.session

\* While the seat stays on a Session and a Run, what it shows of the Run never goes back:
\* neither a slow read nor a page merged into an earlier value undoes a newer one.
NeverGoesBack == [][
    (seat.shown # Off /\ seat'.shown # Off /\ seat'.session = seat.session /\ seat'.shown.run = seat.shown.run)
        => seat'.shown.seq >= seat.shown.seq]_convVars

\* The selected Attempt is one of the Run on screen.
AttemptIsShown == seat.attempt # Off => seat.shown # Off /\ seat.attempt \in Attempts(seat.shown)

\* A paused seat shows what it showed, as stale: no answer, however late, changes it or
\* makes it look connected.
PausedIsStale == (~online /\ seat.shown # Off) => seat.connection # "connected"
=============================================================================
