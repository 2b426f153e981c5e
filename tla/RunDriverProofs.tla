--------------------------- MODULE RunDriverProofs ---------------------------
(***************************************************************************)
(* Proofs about the driver of one Run (module RunDriver), for any graph,   *)
(* capacity, number of exits, failing writes and requests.                 *)
(***************************************************************************)
EXTENDS RunDriver, TLAPS

-----------------------------------------------------------------------------
(* What the reducers do to a Run without a TeamStage. *)

DriverRecords ==
    [state: RUN_STATES, admission: {"pending", "captured"}, att: [Nodes -> Attempt],
     stage: {NoStage}, child: {FALSE}, seq: {0}]
SETTLED == TERMINAL_RUN_STATES \union {"recovery_required"}

\* What states there are.
LEMMA States ==
    /\ SETTLED \subseteq RUN_STATES
    /\ RUN_STATES = SETTLED \union {"queued", "running", "waiting_input", "cancelling"}
    /\ TERMINAL_ATTEMPTS \subseteq ATTEMPT_STATES
    /\ {"none", "running", "waiting_input", "cancelling", "recovery_required"} \subseteq ATTEMPT_STATES
BY DEF SETTLED, RUN_STATES, TERMINAL_RUN_STATES, ATTEMPT_STATES, TERMINAL_ATTEMPTS

LEMMA RecordIs ==
    ASSUME NEW r \in DriverRecords
    PROVE  /\ r.state \in RUN_STATES /\ r.admission \in {"pending", "captured"}
           /\ r.att \in [Nodes -> Attempt] /\ r.stage = NoStage /\ r.child = FALSE /\ r.seq = 0
           /\ \A n \in Nodes : /\ r.att[n] \in Attempt
                               /\ r.att[n].st \in ATTEMPT_STATES /\ r.att[n].res \in RESULTS
BY DEF DriverRecords, Attempt

\* A Run with another state or other Attempts.
LEMMA OtherAttempts ==
    ASSUME NEW r \in DriverRecords, NEW att \in [Nodes -> Attempt]
    PROVE  LET q == [r EXCEPT !.att = att]
           IN  q \in DriverRecords /\ q.state = r.state /\ q.att = att /\ q.admission = r.admission
BY DEF DriverRecords

LEMMA OtherState ==
    ASSUME NEW r \in DriverRecords, NEW st \in RUN_STATES
    PROVE  LET q == [r EXCEPT !.state = st]
           IN  q \in DriverRecords /\ q.state = st /\ q.att = r.att /\ q.admission = r.admission
BY DEF DriverRecords

\* The stage of such a Run is never in the way.
LEMMA NoStageThere ==
    ASSUME NEW r \in DriverRecords
    PROVE  /\ StageStopped(r) /\ ~NeedsTeamCutoff(r) /\ ~StageBound(r) /\ ~TeamRecoveryNeeded(r)
           /\ ~OrphanedChild(r) /\ \A t : ~SettlesTeamCancel(r, t)
           /\ \A n \in Nodes : RecordResultOk(r, n) <=> Started(r, n) /\ ~Settled(r, n)
<1>1. r.stage = NoStage /\ r.child = FALSE
  BY RecordIs
<1>2. NoStage.st = "none" /\ NoStage.node = None
  BY DEF NoStage
<1>3. r.stage.st = "none" /\ r.stage.node = None
  BY <1>1, <1>2
<1>4. StageStopped(r) /\ ~NeedsTeamCutoff(r) /\ ~StageBound(r)
  BY <1>3 DEF StageStopped, NeedsTeamCutoff, StageBound
<1>5. ~TeamRecoveryNeeded(r) /\ ~OrphanedChild(r) /\ \A t : ~SettlesTeamCancel(r, t)
  BY <1>1, <1>3, <1>4 DEF TeamRecoveryNeeded, OrphanedChild, SettlesTeamCancel
<1>6. \A n \in Nodes : RecordResultOk(r, n) <=> Started(r, n) /\ ~Settled(r, n)
  BY <1>3 DEF RecordResultOk
<1> QED BY <1>4, <1>5, <1>6

\* Moving the Attempts of S.
Moved(a, b, S, st) ==
    /\ b.att \in [Nodes -> Attempt]
    /\ \A n \in Nodes : b.att[n] = IF n \in S THEN [a.att[n] EXCEPT !.st = st] ELSE a.att[n]

LEMMA SetAttemptsMoves ==
    ASSUME NEW r \in DriverRecords, NEW S, NEW st \in ATTEMPT_STATES
    PROVE  LET q == SetAttempts(r, S, st)
           IN  q \in DriverRecords /\ q.state = r.state /\ q.admission = r.admission /\ Moved(r, q, S, st)
<1> DEFINE att == [n \in Nodes |-> IF n \in S THEN [r.att[n] EXCEPT !.st = st] ELSE r.att[n]]
<1>1. \A n \in Nodes : r.att[n] \in Attempt
  BY RecordIs
<1>2. \A n \in Nodes : [r.att[n] EXCEPT !.st = st] \in Attempt
  BY <1>1 DEF Attempt
<1>3. att \in [Nodes -> Attempt]
  BY <1>1, <1>2
<1>4. SetAttempts(r, S, st) = [r EXCEPT !.att = att]
  BY DEF SetAttempts
<1>5. \A n \in Nodes : att[n] = IF n \in S THEN [r.att[n] EXCEPT !.st = st] ELSE r.att[n]
  OBVIOUS
<1> HIDE DEF att
<1> QED BY <1>3, <1>4, <1>5, OtherAttempts DEF Moved

\* The settlement, which keeps a cancelling Run a cancelled one.
LEMMA SettleTerminalIs ==
    ASSUME NEW r \in DriverRecords, NEW t \in SETTLED
    PROVE  LET q == SettleTerminal(r, t)
           IN  /\ q \in DriverRecords /\ q.admission = r.admission
               /\ q.state = IF r.state = "cancelling" /\ t # "recovery_required" THEN "cancelled" ELSE t
               /\ Moved(r, q, IF t = "recovery_required" THEN Unsettled(r) ELSE {}, "recovery_required")
<1> DEFINE u == IF t = "recovery_required" THEN SetAttempts(r, Unsettled(r), "recovery_required") ELSE r
           st == IF r.state = "cancelling" /\ t # "recovery_required" THEN "cancelled" ELSE t
<1>1. SettleTerminal(r, t) = [u EXCEPT !.state = st]
  BY NoStageThere DEF SettleTerminal
<1>2. u \in DriverRecords /\ u.admission = r.admission
      /\ Moved(r, u, IF t = "recovery_required" THEN Unsettled(r) ELSE {}, "recovery_required")
  <2>1. CASE t = "recovery_required"
    BY <2>1, SetAttemptsMoves, States
  <2>2. CASE t # "recovery_required"
    BY <2>2, RecordIs DEF Moved
  <2> QED BY <2>1, <2>2
<1>3. st \in RUN_STATES
  BY States DEF SETTLED, TERMINAL_RUN_STATES
<1> HIDE DEF u, st
<1>4. LET q == [u EXCEPT !.state = st]
      IN  q \in DriverRecords /\ q.state = st /\ q.att = u.att /\ q.admission = u.admission
  BY <1>2, <1>3, OtherState
<1> QED BY <1>1, <1>2, <1>4 DEF Moved, st

\* A cancellation.
LEMMA RequestCancelIs ==
    ASSUME NEW r \in DriverRecords
    PROVE  LET q == RequestCancel(r)
               to == IF ActiveAttempt(r) THEN "cancelling" ELSE "cancelled"
           IN  /\ RequestCancelOk(r) <=> r.state \notin SETTLED \union {"cancelling"}
               /\ q \in DriverRecords /\ q.admission = r.admission /\ q.state = to
               /\ Moved(r, q, Unsettled(r), to)
<1> DEFINE to == IF ActiveAttempt(r) THEN "cancelling" ELSE "cancelled"
           s == SetAttempts(r, Unsettled(r), to)
<1>1. StageStopped(r) /\ ~NeedsTeamCutoff(r)
  BY NoStageThere
<1>2. RequestCancelOk(r) <=> r.state \notin SETTLED \union {"cancelling"}
  BY <1>1 DEF RequestCancelOk, SETTLED
<1>3. to \in ATTEMPT_STATES /\ to \in RUN_STATES
  BY States DEF SETTLED, TERMINAL_RUN_STATES, TERMINAL_ATTEMPTS
<1>4. s \in DriverRecords /\ s.admission = r.admission /\ Moved(r, s, Unsettled(r), to)
  BY <1>3, SetAttemptsMoves
<1>5. RequestCancel(r) = [s EXCEPT !.state = to, !.stage = s.stage]
  BY <1>1 DEF RequestCancel
<1> HIDE DEF to, s
<1> DEFINE q == [s EXCEPT !.state = to, !.stage = s.stage]
<1>6. q \in DriverRecords /\ q.admission = s.admission /\ q.state = to /\ q.att = s.att
  BY <1>3, <1>4 DEF DriverRecords
<1> QED BY <1>2, <1>4, <1>5, <1>6 DEF Moved, to

\* The startup scan.
LEMMA ReconcileIs ==
    ASSUME NEW r \in DriverRecords
    PROVE  LET q == ReconcileOnStart(r)
               hit == r.state \notin SETTLED /\ (r.admission = "pending" \/ (r.state # "waiting_input" /\ Unsettled(r) # {}))
           IN  /\ q \in DriverRecords /\ q.admission = r.admission
               /\ hit => q.state = "recovery_required" /\ Moved(r, q, Unsettled(r), "recovery_required")
               /\ ~hit => q = r
<1> DEFINE s == SetAttempts(r, Unsettled(r), "recovery_required")
           q == [s EXCEPT !.state = "recovery_required"]
<1>1. "recovery_required" \in SETTLED /\ "recovery_required" \in RUN_STATES
  BY States DEF SETTLED
<1>2. LET p == SettleTerminal(r, "recovery_required")
      IN  /\ p \in DriverRecords /\ p.admission = r.admission /\ p.state = "recovery_required"
          /\ Moved(r, p, Unsettled(r), "recovery_required")
  BY <1>1, SettleTerminalIs
<1>3. s \in DriverRecords /\ s.admission = r.admission /\ Moved(r, s, Unsettled(r), "recovery_required")
  BY SetAttemptsMoves, States
<1> HIDE DEF s
<1>4. q \in DriverRecords /\ q.admission = r.admission /\ q.state = "recovery_required" /\ q.att = s.att
  BY <1>1, <1>3, OtherState
<1>5. Moved(r, q, Unsettled(r), "recovery_required")
  BY <1>3, <1>4 DEF Moved
<1>6. StartSettles(r) <=> r.admission = "pending" /\ r.state \notin SETTLED
  BY NoStageThere DEF StartSettles, AdmissionIncomplete, SETTLED
<1>7. IntentWithoutResult(r) <=> r.state \notin SETTLED \union {"waiting_input"} /\ Unsettled(r) # {}
  BY DEF IntentWithoutResult, SETTLED
<1>8. ReconcileOnStart(r) = IF StartSettles(r) THEN SettleTerminal(r, "recovery_required")
                            ELSE IF IntentWithoutResult(r) THEN q ELSE r
  BY NoStageThere DEF ReconcileOnStart, s
<1> HIDE DEF q
<1> QED BY <1>2, <1>4, <1>5, <1>6, <1>7, <1>8

\* One Attempt replaced.
LEMMA OneAttempt ==
    ASSUME NEW r \in DriverRecords, NEW n \in Nodes, NEW a \in Attempt
    PROVE  LET q == [r EXCEPT !.att[n] = a]
           IN  /\ q \in DriverRecords /\ q.state = r.state /\ q.admission = r.admission
               /\ \A m \in Nodes : q.att[m] = IF m = n THEN a ELSE r.att[m]
<1> DEFINE att == [r.att EXCEPT ![n] = a]
<1>1. r.att \in [Nodes -> Attempt]
  BY RecordIs
<1>2. att \in [Nodes -> Attempt] /\ \A m \in Nodes : att[m] = IF m = n THEN a ELSE r.att[m]
  BY <1>1
<1>3. [r EXCEPT !.att[n] = a] = [r EXCEPT !.att = att]
  BY DEF DriverRecords
<1> HIDE DEF att
<1> DEFINE q == [r EXCEPT !.att = att]
<1>4. q \in DriverRecords /\ q.state = r.state /\ q.att = att /\ q.admission = r.admission
  BY <1>2, OtherAttempts
<1> HIDE DEF q
<1>5. [r EXCEPT !.att[n] = a] = q
  BY <1>3 DEF q
<1> QED BY <1>2, <1>4, <1>5

LEMMA RecordIntentIs ==
    ASSUME NEW r \in DriverRecords, NEW n \in Nodes
    PROVE  LET q == RecordIntent(r, n)
           IN  /\ q \in DriverRecords /\ q.admission = r.admission /\ q.state = "running"
               /\ \A m \in Nodes : q.att[m] = IF m = n THEN [NoAttempt EXCEPT !.st = "running"] ELSE r.att[m]
<1>1. [NoAttempt EXCEPT !.st = "running"] \in Attempt
  BY States DEF NoAttempt, Attempt, RESULTS
<1>2. "running" \in RUN_STATES
  BY States
<1> DEFINE a == [NoAttempt EXCEPT !.st = "running"]
<1>3. RecordIntent(r, n) = [r EXCEPT !.state = "running", !.att[n] = a]
  BY DEF RecordIntent
<1>4. a = [NoAttempt EXCEPT !.st = "running"]
  OBVIOUS
<1> HIDE DEF a
<1> DEFINE s == [r EXCEPT !.state = "running"]
           q == [s EXCEPT !.att[n] = a]
<1>5. s \in DriverRecords /\ s.state = "running" /\ s.att = r.att /\ s.admission = r.admission
  BY <1>2, OtherState
<1>6. RecordIntent(r, n) = q
  BY <1>3
<1> HIDE DEF s
<1>7. /\ q \in DriverRecords /\ q.state = s.state /\ q.admission = s.admission
      /\ \A m \in Nodes : q.att[m] = IF m = n THEN a ELSE s.att[m]
  BY <1>1, <1>4, <1>5, OneAttempt
<1> HIDE DEF q
<1> QED BY <1>4, <1>5, <1>6, <1>7

LEMMA ReportIs ==
    ASSUME NEW r \in DriverRecords, NEW n \in Nodes, NEW k \in RESULTS, NEW b \in Branches \union {None}
    PROVE  LET q == RecordResult(r, n, k, b)
           IN  /\ q \in DriverRecords /\ q.admission = r.admission
               /\ \/ q.state = r.state
                  \/ r.state = "cancelling" /\ q.state = "cancelled" /\ \A m \in Nodes : Started(q, m) => Settled(q, m)
               /\ q.att[n].st = ResultState(r, k) /\ q.att[n].res = k
               /\ q.att[n].branch = b /\ q.att[n].decision = r.att[n].decision
               /\ \A m \in Nodes : m # n => q.att[m] = r.att[m]
<1> DEFINE x == r.att[n]
           y == ResultState(r, k)
           a == [x EXCEPT !.st = y, !.res = k, !.branch = b]
           s == [r EXCEPT !.att[n] = a]
           q == [s EXCEPT !.state = "cancelled"]
<1>1. y \in ATTEMPT_STATES
  BY States DEF ResultState, TERMINAL_ATTEMPTS, TERMINAL_RUN_STATES
<1>2. x \in Attempt
  BY RecordIs
<1>3. RecordResult(r, n, k, b) =
        IF r.state = "cancelling" /\ \A m \in Nodes : Started(s, m) => Settled(s, m) THEN q ELSE s
  BY DEF RecordResult
<1>4. y = ResultState(r, k) /\ x.decision = r.att[n].decision
  OBVIOUS
<1> HIDE DEF x, y
<1>5. a \in Attempt /\ a.st = y /\ a.res = k /\ a.branch = b /\ a.decision = x.decision
  BY <1>1, <1>2 DEF Attempt
<1> HIDE DEF a
<1>6. /\ s \in DriverRecords /\ s.state = r.state /\ s.admission = r.admission
      /\ \A m \in Nodes : s.att[m] = IF m = n THEN a ELSE r.att[m]
  BY <1>5, OneAttempt
<1> HIDE DEF s
<1>7. q \in DriverRecords /\ q.state = "cancelled" /\ q.att = s.att /\ q.admission = s.admission
  BY <1>6, OtherState, States DEF SETTLED, TERMINAL_RUN_STATES
<1> HIDE DEF q
<1>8. CASE r.state = "cancelling" /\ \A m \in Nodes : Started(s, m) => Settled(s, m)
  <2>1. RecordResult(r, n, k, b) = q
    BY <1>3, <1>8
  <2>2. \A m \in Nodes : Started(q, m) => Settled(q, m)
    BY <1>7, <1>8 DEF Started, Settled
  <2> QED BY <1>4, <1>5, <1>6, <1>7, <1>8, <2>1, <2>2
<1>9. CASE ~(r.state = "cancelling" /\ \A m \in Nodes : Started(s, m) => Settled(s, m))
  BY <1>3, <1>4, <1>5, <1>6, <1>9
<1> QED BY <1>8, <1>9

LEMMA WaitInputIs ==
    ASSUME NEW r \in DriverRecords, NEW n \in Nodes
    PROVE  LET q == WaitInput(r, n)
           IN  /\ r.state = "cancelling" => q = r
               /\ r.state # "cancelling" =>
                    /\ q \in DriverRecords /\ q.admission = r.admission /\ q.state = "waiting_input"
                    /\ Moved(r, q, {n}, "waiting_input")
<1> DEFINE s == SetAttempts(r, {n}, "waiting_input")
<1>1. s \in DriverRecords /\ s.admission = r.admission /\ Moved(r, s, {n}, "waiting_input")
  BY SetAttemptsMoves, States
<1>2. WaitInput(r, n) = IF r.state = "cancelling" THEN r ELSE [s EXCEPT !.state = "waiting_input"]
  BY DEF WaitInput
<1> HIDE DEF s
<1>3. LET q == [s EXCEPT !.state = "waiting_input"]
      IN  q \in DriverRecords /\ q.state = "waiting_input" /\ q.att = s.att /\ q.admission = s.admission
  BY <1>1, OtherState, States
<1> QED BY <1>1, <1>2, <1>3 DEF Moved

LEMMA SkipIs ==
    ASSUME NEW r \in DriverRecords, NEW S
    PROVE  LET q == Skip(r, S)
           IN  /\ r.state = "cancelling" => q = r
               /\ r.state # "cancelling" =>
                    /\ q \in DriverRecords /\ q.admission = r.admission /\ q.state = r.state
                    /\ Moved(r, q, {n \in S : ~Started(r, n)}, "skipped")
BY SetAttemptsMoves, States DEF Skip, TERMINAL_ATTEMPTS

LEMMA DecideIs ==
    ASSUME NEW r \in DriverRecords, NEW n \in Nodes, NEW d \in Decisions, NEW approve \in BOOLEAN, NEW b \in Branches
    PROVE  LET q == Decide(r, n, d, approve, b)
           IN  /\ q \in DriverRecords /\ q.admission = r.admission
               /\ q.state = IF approve THEN "running" ELSE "cancelled"
               /\ \A m \in Nodes : q.att[m] =
                    IF m = n THEN [st |-> IF approve THEN "succeeded" ELSE "cancelled",
                                   res |-> IF approve THEN "ok" ELSE "cancelled", branch |-> b, decision |-> d]
                    ELSE r.att[m]
<1> DEFINE a == [st |-> IF approve THEN "succeeded" ELSE "cancelled",
                 res |-> IF approve THEN "ok" ELSE "cancelled", branch |-> b, decision |-> d]
           st == IF approve THEN "running" ELSE "cancelled"
<1>1. a \in Attempt
  BY States DEF Attempt, RESULTS, TERMINAL_ATTEMPTS, TERMINAL_RUN_STATES
<1>2. st \in RUN_STATES
  BY States DEF SETTLED, TERMINAL_RUN_STATES
<1>3. Decide(r, n, d, approve, b) = [r EXCEPT !.state = st, !.att[n] = a]
  BY DEF Decide
<1>4. st = IF approve THEN "running" ELSE "cancelled"
  OBVIOUS
<1>5. a = [st |-> IF approve THEN "succeeded" ELSE "cancelled",
           res |-> IF approve THEN "ok" ELSE "cancelled", branch |-> b, decision |-> d]
  OBVIOUS
<1> HIDE DEF a, st
<1> DEFINE s == [r EXCEPT !.state = st]
           q == [s EXCEPT !.att[n] = a]
<1>6. s \in DriverRecords /\ s.state = st /\ s.att = r.att /\ s.admission = r.admission
  BY <1>2, OtherState
<1>7. Decide(r, n, d, approve, b) = q
  BY <1>3
<1> HIDE DEF s
<1>8. /\ q \in DriverRecords /\ q.state = s.state /\ q.admission = s.admission
      /\ \A m \in Nodes : q.att[m] = IF m = n THEN a ELSE s.att[m]
  BY <1>1, <1>6, OneAttempt
<1> HIDE DEF q
<1> QED BY <1>4, <1>5, <1>6, <1>7, <1>8

LEMMA CaptureIs ==
    ASSUME NEW r \in DriverRecords
    PROVE  LET q == SetBindingDigests(r)
           IN  q \in DriverRecords /\ q.state = r.state /\ q.att = r.att /\ q.admission = "captured"
BY DEF SetBindingDigests, DriverRecords
-----------------------------------------------------------------------------
(* What a step does to the record and to the calls. *)

Call == [pc: EXEC_PC, abort: BOOLEAN, out: EXEC_OUT]
Job == [pc: DRV_PC, stop: {"none", "failed", "timed_out", "cancelled", "recovery_required"}, fatal: BOOLEAN]

\* TypeOK, and the record that driveRun read is a record.
Types ==
    /\ run \in DriverRecords
    /\ {up, admitted, rerun, hung} \subseteq BOOLEAN
    /\ drv \in Job
    /\ drv.pc = "act" => rec \in DriverRecords
    /\ drv.pc # "act" => rec = NoRecord
    /\ exec \in [Nodes -> Call]
    /\ effect \in [Nodes -> EFFECTS] /\ calls \in [Nodes -> Nat]
    /\ asked \in [cancel: {"none", "cancelled", "cancelling"}, decide: BOOLEAN]
    /\ close \in {"open", "closing", "aborted", "closed"}
    /\ exits \in 0 .. MaxExits /\ faults \in 0 .. MaxFaults

\* A write that moves open Attempts only, to a state in which they stay open or are cancelled.
Quiet(a, b) ==
    /\ b \in DriverRecords
    /\ \A n \in Nodes :
         \/ b.att[n] = a.att[n]
         \/ n \in Unsettled(a) /\ \E st \in {"cancelling", "cancelled", "recovery_required"} :
                                     b.att[n] = [a.att[n] EXCEPT !.st = st]

LEMMA QuietIs ==
    /\ \A r \in DriverRecords : Quiet(r, r)
    /\ \A a, b, c \in DriverRecords : Quiet(a, b) /\ Quiet(b, c) => Quiet(a, c)
<1>1. \A r \in DriverRecords : Quiet(r, r)
  BY DEF Quiet
<1>2. ASSUME NEW a \in DriverRecords, NEW b \in DriverRecords, NEW c \in DriverRecords, Quiet(a, b), Quiet(b, c)
      PROVE  Quiet(a, c)
  <2> SUFFICES ASSUME NEW n \in Nodes
               PROVE  \/ c.att[n] = a.att[n]
                      \/ n \in Unsettled(a) /\ \E st \in {"cancelling", "cancelled", "recovery_required"} :
                                                 c.att[n] = [a.att[n] EXCEPT !.st = st]
    BY <1>2 DEF Quiet
  <2>1. a.att[n] \in Attempt /\ b.att[n] \in Attempt
    BY RecordIs
  <2>2. CASE b.att[n] = a.att[n]
    <3>1. n \in Unsettled(a) <=> n \in Unsettled(b)
      BY <2>2 DEF Unsettled, HasIntent, Settled
    <3> QED BY <1>2, <2>2, <3>1 DEF Quiet
  <2>3. CASE c.att[n] = b.att[n]
    BY <1>2, <2>3 DEF Quiet
  <2>4. ASSUME NEW s \in {"cancelling", "cancelled", "recovery_required"}, b.att[n] = [a.att[n] EXCEPT !.st = s],
               NEW t \in {"cancelling", "cancelled", "recovery_required"}, c.att[n] = [b.att[n] EXCEPT !.st = t]
        PROVE  c.att[n] = [a.att[n] EXCEPT !.st = t]
    BY <2>1, <2>4 DEF Attempt
  <2> QED BY <1>2, <2>2, <2>3, <2>4 DEF Quiet
<1> QED BY <1>1, <1>2

LEMMA MovedIsQuiet ==
    ASSUME NEW a \in DriverRecords, NEW b \in DriverRecords, NEW S, NEW st \in {"cancelling", "cancelled", "recovery_required"},
           Moved(a, b, S, st), S \subseteq Unsettled(a)
    PROVE  Quiet(a, b)
BY DEF Quiet, Moved

\* What settling, cancelling and reconciling a Run leaves.
LEMMA SettledIs ==
    ASSUME NEW r \in DriverRecords, NEW t \in SETTLED
    PROVE  LET q == Written(r, SettleTerminal(r, t))
           IN  /\ Quiet(r, q)
               /\ ~Applies(r, SettleTerminal(r, t)) => q = r
               /\ Applies(r, SettleTerminal(r, t)) => q = SettleTerminal(r, t) /\ ~Terminal(r)
<1> DEFINE p == SettleTerminal(r, t)
<1>1. p \in DriverRecords /\ p.admission = r.admission
      /\ Moved(r, p, IF t = "recovery_required" THEN Unsettled(r) ELSE {}, "recovery_required")
  BY SettleTerminalIs
<1> HIDE DEF p
<1>2. Quiet(r, p)
  BY <1>1, MovedIsQuiet
<1> QED BY <1>2, QuietIs DEF Written, Applies, p

LEMMA CancelIs ==
    ASSUME NEW r \in DriverRecords
    PROVE  Quiet(r, RequestCancel(r))
<1> DEFINE p == RequestCancel(r)
           to == IF ActiveAttempt(r) THEN "cancelling" ELSE "cancelled"
<1>1. p \in DriverRecords /\ p.admission = r.admission /\ Moved(r, p, Unsettled(r), to)
  BY RequestCancelIs
<1> HIDE DEF p
<1>2. to \in {"cancelling", "cancelled", "recovery_required"}
  OBVIOUS
<1> HIDE DEF to
<1>3. Quiet(r, p)
  BY <1>1, <1>2, MovedIsQuiet
<1> QED BY <1>3 DEF p

LEMMA ClosingIs ==
    ASSUME run \in DriverRecords
    PROVE  /\ ClosingCancel = run \/ ClosingCancel = RequestCancel(run)
           /\ ClosingCancel # run => Closing /\ ~RecSettled /\ RequestCancelOk(run)
           /\ ClosingCancel \in DriverRecords /\ Quiet(run, ClosingCancel)
BY CancelIs, QuietIs DEF ClosingCancel, Quiet

LEMMA ReconcileQuiet ==
    ASSUME NEW r \in DriverRecords
    PROVE  Quiet(r, ReconcileOnStart(r))
<1> DEFINE p == ReconcileOnStart(r)
<1>1. p \in DriverRecords /\ p.admission = r.admission /\ (p = r \/ Moved(r, p, Unsettled(r), "recovery_required"))
  BY ReconcileIs
<1> HIDE DEF p
<1>2. Quiet(r, p)
  BY <1>1, MovedIsQuiet, QuietIs
<1> QED BY <1>2 DEF p
-----------------------------------------------------------------------------
(* The inductive invariant of the order of effects. *)

\* A job that has not begun, or has ended, has no calls; before startRun has
\* ended, and once the runtime is closed, the Run has no job.
Life ==
    /\ ~up => admitted /\ close = "open" /\ drv = Off
    /\ drv.pc \in {"off", "start", "catch", "end"} => Active = {}
    /\ ~admitted => drv.pc = "off" /\ run.admission = "pending" /\ asked.cancel # "cancelling" /\ ~asked.decide
    /\ close = "closed" => admitted /\ drv.pc = "off"

\* A Run whose admission is incomplete has no Attempt and is never driven.
Unadmitted ==
    run.admission = "pending" =>
        /\ \A n \in Nodes : run.att[n] = NoAttempt
        /\ drv.pc \in {"off", "start", "end"} /\ run.state \in {"queued"} \union SETTLED

\* What each call does is fixed by the kind of its node.
Underway == {"check", "dispatch", "effect", "wait"}
Kinds ==
    \A n \in Nodes :
        /\ exec[n].pc \in {"dispatch", "effect"} => n \in Agents
        /\ exec[n].pc \in {"wait", "waited"} => n \in Human
        /\ exec[n].pc = "intent" => exec[n].out \in {"none", "drift"}
        /\ exec[n].pc = "result" => exec[n].out \in RESULTS /\ (exec[n].out = "ok" => n \notin Human)
        /\ effect[n] = "busy" <=> exec[n].pc = "effect"

\* A human decision has the driver to itself.
Alone == \A h \in Human, m \in Nodes : exec[h].pc # "none" /\ m # h => exec[m].pc = "none"

\* From its intent to its result a call finds its Attempt open.
CallsOpen ==
    \A n \in Nodes : exec[n].pc \in Underway =>
        /\ run.state \in {"running", "cancelling"}
        /\ run.att[n].st \in {"running", "cancelling"} /\ run.att[n].res = "none"

\* An effect was started at most once, and behind an Attempt.
Once ==
    \A n \in Nodes :
        /\ calls[n] \in {0, 1} /\ (calls[n] = 1 => Started(run, n))
        /\ exec[n].pc \in Underway => Started(run, n)
        /\ exec[n].pc \in {"check", "dispatch"} => calls[n] = 0

\* What the scheduler read of a node's parents to run it or to skip it still holds.
Grounded(r, n) == IF n \in Join THEN JoinReady(r, n) ELSE PlainReady(r, n)
Cut(r, n) == IF n \in Join THEN ~JoinReady(r, n) /\ ~JoinPending(r, n) ELSE PlainSkipped(r, n)
Justified ==
    \A n \in Nodes :
        /\ exec[n].pc \in {"prep", "intent"} \/ HasIntent(run, n) => Grounded(run, n)
        /\ run.att[n].st = "skipped" => Cut(run, n)

\* The record driveRun acts on is stale in one direction only.
GrowsTo(a, b) ==
    \A n \in Nodes : /\ Started(a, n) => Started(b, n)
                     /\ a.att[n].st \in TERMINAL_ATTEMPTS => b.att[n] = a.att[n]
Stale == drv.pc = "act" => GrowsTo(rec, run)

\* A branch is recorded with a success that selects one, and a Run that succeeded is complete.
Branched == \A n \in Human \union Condition : IsTerminalSuccess(run, n) => run.att[n].branch # None
Done == run.state = "succeeded" => Complete(run)

OrderInv ==
    /\ Types /\ Life /\ Unadmitted /\ Kinds /\ Alone /\ CallsOpen /\ Once
    /\ Justified /\ Stale /\ Branched /\ Done

LEMMA InitOrder == Init => OrderInv
<1> SUFFICES ASSUME Init PROVE OrderInv
  OBVIOUS
<1>1. NoAttempt \in Attempt
  BY States DEF NoAttempt, Attempt, RESULTS
<1>2. run \in DriverRecords /\ run.state = "queued" /\ \A n \in Nodes : run.att[n] = NoAttempt
  BY <1>1, States DEF Init, NewRun, DriverRecords
<1>3. \A n \in Nodes : exec[n] = Idle /\ calls[n] = 0 /\ effect[n] = "none"
  BY DEF Init
<1>4. Types
  <2>1. exec \in [Nodes -> Call]
    BY DEF Init, Idle, Call, EXEC_PC, EXEC_OUT, RESULTS
  <2>2. drv \in Job /\ drv.pc # "act" /\ rec = NoRecord
    BY DEF Init, Off, Job, DRV_PC
  <2>3. {up, admitted, rerun, hung} \subseteq BOOLEAN
    BY DEF Init
  <2>4. effect \in [Nodes -> EFFECTS] /\ calls \in [Nodes -> Nat]
    BY DEF Init, EFFECTS
  <2>5. /\ asked \in [cancel: {"none", "cancelled", "cancelling"}, decide: BOOLEAN]
        /\ close \in {"open", "closing", "aborted", "closed"}
        /\ exits \in 0 .. MaxExits /\ faults \in 0 .. MaxFaults
    BY DriverAssumption DEF Init, NoRequests
  <2> QED BY <1>2, <2>1, <2>2, <2>3, <2>4, <2>5 DEF Types
<1>5. Life /\ Unadmitted
  BY <1>2, <1>3 DEF Init, NewRun, Life, Unadmitted, Off, Active, Idle, NoRequests
<1>6. Kinds /\ Alone /\ CallsOpen /\ Once
  BY <1>3 DEF Kinds, Alone, CallsOpen, Once, Idle, Underway
<1>7. \A n \in Nodes : ~HasIntent(run, n) /\ ~IsTerminalSuccess(run, n) /\ run.att[n].st = "none"
  BY <1>2 DEF NoAttempt, HasIntent, IsTerminalSuccess
<1>8. Justified
  BY <1>3, <1>7 DEF Justified, Idle
<1>9. Stale
  BY DEF Init, Off, Stale
<1>10. Branched
  BY <1>7, NodesAssumption, GraphAssumption DEF Branched
<1>11. Done
  BY <1>2 DEF Done
<1> QED BY <1>4, <1>5, <1>6, <1>8, <1>9, <1>10, <1>11 DEF OrderInv
-----------------------------------------------------------------------------
(* The steps, by what they do to the record and to the calls. *)

\* A call that no step of its own moves stays where it is or is forgotten.
Drifts ==
    /\ calls' = calls /\ exec' \in [Nodes -> Call]
    /\ \A n \in Nodes :
         \/ exec'[n].pc = exec[n].pc /\ exec'[n].out = exec[n].out /\ effect'[n] = effect[n]
         \/ exec'[n].pc = "none" /\ exec[n].pc = "done" /\ effect'[n] = effect[n]
         \/ exec'[n].pc = "none" /\ effect'[n] = IF effect[n] = "busy" THEN "unknown" ELSE effect[n]
Cancels == RequestCancelOk(run) /\ run' = RequestCancel(run)
\* A settlement by a job whose calls have ended, or by a process without one.
Settles ==
    /\ Active = {} /\ Quiet(run, run')
    /\ run'.admission = "pending" => run.admission = "pending"
    /\ run'.state = "succeeded" => run.state = "succeeded" \/ (drv.pc = "act" /\ Complete(rec))
    /\ (run'.state = run.state /\ run'.att = run.att) \/ Cancels \/ run'.state \in SETTLED
Skips == drv.pc = "act" /\ run' = Skip(run, SkippedNodes(rec))
Decides ==
    /\ run.state = "waiting_input"
    /\ \E n \in Waiting(run), d \in Decisions, approve \in BOOLEAN, b \in Branches :
         run' = Decide(run, n, d, approve, b)
Background == Drifts /\ (run' = run \/ Settles \/ Cancels \/ Skips \/ Decides)

Dispatches(n) ==
    /\ Plain /\ drv' = [drv EXCEPT !.pc = "top"] /\ UNCHANGED <<up, faults>>
    /\ drv.pc = "act" /\ n \in ReadyNodes(rec) /\ exec[n].pc = "none"
    /\ Active = {} \/ (n \notin Human /\ \A m \in Active : m \notin Human)
    /\ run' = run /\ calls' = calls /\ effect' = effect
    /\ exec' = [exec EXCEPT ![n] = [Idle EXCEPT !.pc = "prep"]]

\* What a call of its own does to the record.
Intends(n) ==
    /\ exec[n].pc = "intent" /\ RecordIntentOk(run, n)
    /\ run' = RecordIntent(run, n) /\ exec'[n].pc \in {"check", "done"}
Reports(n) ==
    /\ exec[n].pc = "result" /\ RecordResultOk(run, n) /\ exec'[n].pc = "done"
    /\ \E b \in Branches \union {None} :
         /\ n \in Condition /\ exec[n].out = "ok" => b \in Branches
         /\ run' = RecordResult(run, n, exec[n].out, b)
Waits(n) ==
    /\ exec[n].pc = "wait" /\ Applies(run, WaitInput(run, n))
    /\ run' = WaitInput(run, n) /\ exec'[n].pc \in {"waited", "done"}
Gives(n) == Cancels /\ exec'[n].pc = "done"
Writes(n) == run' = run \/ Intends(n) \/ Reports(n) \/ Waits(n) \/ Gives(n)

\* How a call moves on, and what that does to the effect of its node.
CallMoves(n) ==
    /\ exec' \in [Nodes -> Call] /\ exec'[n].abort = exec[n].abort
    /\ \A m \in Nodes : m # n => exec'[m] = exec[m] /\ effect'[m] = effect[m] /\ calls'[m] = calls[m]
    /\ Writes(n)
    /\ \/ exec[n].pc \notin {"none", "effect"} /\ exec'[n].pc = "done" /\ effect'[n] = effect[n] /\ calls'[n] = calls[n]
       \/ /\ exec[n].pc = "prep" /\ exec'[n].pc = "intent" /\ exec'[n].out \in {"none", "drift"}
          /\ run' = run /\ effect'[n] = effect[n] /\ calls'[n] = calls[n]
       \/ exec[n].pc = "intent" /\ exec'[n].pc = "check" /\ Intends(n) /\ effect'[n] = effect[n] /\ calls'[n] = calls[n]
       \/ /\ exec[n].pc = "check" /\ run' = run /\ effect'[n] = effect[n] /\ calls'[n] = calls[n]
          /\ \/ exec'[n].pc = "result" /\ exec'[n].out \in {"cancelled", "failed"}
             \/ exec'[n].pc = "result" /\ exec'[n].out = "ok" /\ n \notin Human
             \/ exec'[n].pc = "wait" /\ n \in Human
             \/ exec'[n].pc = "dispatch" /\ n \in Agents
       \/ /\ exec[n].pc = "dispatch" /\ exec'[n].pc = "effect" /\ run' = run
          /\ effect'[n] = "busy" /\ calls'[n] = calls[n] + 1
       \/ /\ exec[n].pc \in {"dispatch", "waited"} /\ exec'[n].pc = "result" /\ run' = run
          /\ exec'[n].out \in {"cancelled", "failed"} /\ effect'[n] = effect[n] /\ calls'[n] = calls[n]
       \/ /\ exec[n].pc = "effect" /\ exec'[n].pc \in {"result", "done"} /\ run' = run
          /\ effect'[n] # "busy" /\ calls'[n] = calls[n]
          /\ exec'[n].pc = "result" => exec'[n].out \in {"ok", "failed", "cancelled"}
       \/ exec[n].pc = "wait" /\ exec'[n].pc = "waited" /\ effect'[n] = effect[n] /\ calls'[n] = calls[n]

\* A call moves, all calls are aborted.
LEMMA GoIs ==
    ASSUME exec \in [Nodes -> Call], NEW n \in Nodes, NEW pc \in EXEC_PC, NEW out \in EXEC_OUT, Go(n, pc, out)
    PROVE  /\ exec' \in [Nodes -> Call]
           /\ exec'[n].pc = pc /\ exec'[n].out = out /\ exec'[n].abort = exec[n].abort
           /\ \A m \in Nodes : m # n => exec'[m] = exec[m]
BY DEF Go, Call

LEMMA AbortAllIs ==
    ASSUME exec \in [Nodes -> Call]
    PROVE  /\ AbortAll \in [Nodes -> Call]
           /\ \A n \in Nodes : /\ AbortAll[n].pc = exec[n].pc /\ AbortAll[n].out = exec[n].out
                               /\ AbortAll[n].abort = (exec[n].abort \/ n \in Active \ Completed)
<1> DEFINE f == [n \in Nodes |-> IF n \in Active \ Completed THEN [exec[n] EXCEPT !.abort = TRUE] ELSE exec[n]]
<1>1. AbortAll = f
  BY DEF AbortAll
<1>2. \A n \in Nodes : exec[n] \in Call
  OBVIOUS
<1>3. \A n \in Nodes : /\ f[n] \in Call
                       /\ f[n].pc = exec[n].pc /\ f[n].out = exec[n].out
                       /\ f[n].abort = (exec[n].abort \/ n \in Active \ Completed)
  <2> SUFFICES ASSUME NEW n \in Nodes
               PROVE  /\ f[n] \in Call
                      /\ f[n].pc = exec[n].pc /\ f[n].out = exec[n].out
                      /\ f[n].abort = (exec[n].abort \/ n \in Active \ Completed)
    OBVIOUS
  <2>1. exec[n].abort \in BOOLEAN
    BY <1>2 DEF Call
  <2>2. CASE n \in Active \ Completed
    BY <1>2, <2>2 DEF Call
  <2>3. CASE n \notin Active \ Completed
    BY <1>2, <2>1, <2>3
  <2> QED BY <2>2, <2>3
<1>4. f \in [Nodes -> Call]
  BY <1>3
<1> HIDE DEF f
<1> QED BY <1>1, <1>3, <1>4

LEMMA IdleIs == Idle \in Call
BY DEF Idle, Call, EXEC_PC, EXEC_OUT, RESULTS

\* The calls do not move.
LEMMA StaysDrift ==
    ASSUME Types, UNCHANGED <<calls, effect>>,
           \/ exec' = exec \/ exec' = AbortAll
           \/ exec' = [n \in Nodes |-> IF n \in Completed THEN Idle ELSE exec[n]]
    PROVE  Drifts
<1>1. CASE exec' = exec
  BY <1>1 DEF Drifts, Types
<1>2. CASE exec' = AbortAll
  BY <1>2, AbortAllIs DEF Drifts, Types
<1>3. CASE exec' = [n \in Nodes |-> IF n \in Completed THEN Idle ELSE exec[n]]
  <2>1. exec' \in [Nodes -> Call]
    BY <1>3, IdleIs DEF Types
  <2> QED BY <1>3, <2>1 DEF Drifts, Completed, Idle
<1> QED BY <1>1, <1>2, <1>3

\* A step of a job that writes settles the Run when no call is left.
LEMMA WriteSettles ==
    ASSUME run \in DriverRecords, NEW r \in DriverRecords, Quiet(run, r), r.admission = run.admission, r.state = "succeeded" => run.state = "succeeded",
           r = run \/ (RequestCancelOk(run) /\ r = RequestCancel(run)),
           NEW t \in SETTLED, Active = {}, t = "succeeded" => drv.pc = "act" /\ Complete(rec),
           run' \in {run, r, Written(r, SettleTerminal(r, t))}
    PROVE  Settles
<1>1. Quiet(run, run)
  BY QuietIs
<1>2. Quiet(r, Written(r, SettleTerminal(r, t)))
  BY SettledIs
<1>3. Written(r, SettleTerminal(r, t)) \in DriverRecords
  BY <1>2 DEF Quiet
<1>4. Quiet(run, Written(r, SettleTerminal(r, t)))
  BY <1>2, <1>3, QuietIs
<1>5. Written(r, SettleTerminal(r, t)).state \in {r.state, t, "cancelled"}
  BY SettleTerminalIs DEF Written
<1>6. Written(r, SettleTerminal(r, t)).state = "succeeded"
        => run.state = "succeeded" \/ (drv.pc = "act" /\ Complete(rec))
  BY <1>5
<1>7. Written(r, SettleTerminal(r, t)).admission = run.admission
  BY SettleTerminalIs DEF Written
<1>8. "cancelled" \in SETTLED
  BY DEF SETTLED, TERMINAL_RUN_STATES
<1>9. Written(r, SettleTerminal(r, t)) = r \/ Written(r, SettleTerminal(r, t)).state \in SETTLED
  BY <1>8, SettleTerminalIs DEF Written
<1>10. (run'.state = run.state /\ run'.att = run.att) \/ Cancels \/ run'.state \in SETTLED
  BY <1>9 DEF Cancels
<1> QED BY <1>1, <1>4, <1>6, <1>7, <1>10 DEF Settles

\* The steps of the job.
LEMMA JobIsBackground ==
    ASSUME OrderInv, JobStep
    PROVE  Background \/ \E n \in Nodes : Dispatches(n)
<1> USE DEF OrderInv
<1>0. run \in DriverRecords /\ exec \in [Nodes -> Call] /\ drv \in Job
  BY DEF Types
<1>1. Quiet(run, run)
  BY <1>0, QuietIs
<1>2. /\ "failed" \in SETTLED /\ "cancelled" \in SETTLED /\ "timed_out" \in SETTLED
      /\ "recovery_required" \in SETTLED /\ "succeeded" \in SETTLED
  BY DEF SETTLED, TERMINAL_RUN_STATES
<1>3. /\ ClosingCancel = run \/ (RequestCancelOk(run) /\ ClosingCancel = RequestCancel(run))
      /\ ClosingCancel \in DriverRecords /\ Quiet(run, ClosingCancel) /\ ClosingCancel.admission = run.admission
      /\ ClosingCancel.state = "succeeded" => run.state = "succeeded"
  <2>1. /\ ClosingCancel = run \/ ClosingCancel = RequestCancel(run)
        /\ ClosingCancel # run => RequestCancelOk(run)
        /\ ClosingCancel \in DriverRecords /\ Quiet(run, ClosingCancel)
    BY <1>0, ClosingIs
  <2>2. RequestCancel(run).state \in {"cancelling", "cancelled"} /\ RequestCancel(run).admission = run.admission
    BY <1>0, RequestCancelIs
  <2> QED BY <2>1, <2>2
<1>4. CASE Start
  <2>1. Drifts
    BY <1>4, StaysDrift DEF Start, JobFrame, ghost
  <2>2. Active = {}
    BY <1>4 DEF Start, Life
  <2>3. run' \in {run, Written(run, SettleTerminal(run, "recovery_required"))}
    BY <1>4 DEF Start
  <2>4. Settles
    BY <1>0, <1>1, <1>2, <2>2, <2>3, WriteSettles
  <2> QED BY <2>1, <2>4 DEF Background
<1>5. CASE Top
  BY <1>5, StaysDrift DEF Top, JobFrame, ghost, Background
<1>6. CASE ActAbort
  <2>1. Drifts
    BY <1>6, StaysDrift DEF ActAbort, JobFrame, ghost
  <2>2. run' = run \/ run' = ClosingCancel
    BY <1>6 DEF ActAbort, Fault
  <2> QED BY <1>3, <2>1, <2>2 DEF Background, Cancels
<1>7. CASE ActSettle
  <2>1. Drifts
    BY <1>7, StaysDrift DEF ActSettle, JobFrame, ghost
  <2> DEFINE r == ClosingCancel
             t == IF drv.stop = "none" THEN "cancelled" ELSE drv.stop
  <2>2. Active = {}
    BY <1>7 DEF ActSettle
  <2>3. t \in SETTLED /\ t # "succeeded"
    BY <1>0, <1>2 DEF Job
  <2>4. run' \in {run, r, Written(r, SettleTerminal(r, t))}
    BY <1>7 DEF ActSettle, JobWrite, Fault
  <2> HIDE DEF r, t
  <2>5. /\ r \in DriverRecords /\ Quiet(run, r) /\ r.admission = run.admission
        /\ r.state = "succeeded" => run.state = "succeeded"
        /\ r = run \/ (RequestCancelOk(run) /\ r = RequestCancel(run))
    BY <1>3 DEF r
  <2>6. Settles
    BY <1>0, <2>2, <2>3, <2>4, <2>5, WriteSettles
  <2> QED BY <2>1, <2>6 DEF Background
<1>8. CASE ActFatal
  <2>1. Drifts
    BY <1>8, StaysDrift DEF ActFatal, JobFrame, ghost
  <2> QED BY <1>3, <1>8, <2>1 DEF ActFatal, Background, Cancels
<1>9. CASE ActWaiting
  BY <1>9, StaysDrift DEF ActWaiting, JobFrame, ghost, Background
<1>10. CASE ActSkip
  <2>1. Drifts
    BY <1>10, StaysDrift DEF ActSkip, JobFrame, ghost
  <2>2. run' = run \/ run' = Skip(run, SkippedNodes(rec))
    BY <1>10 DEF ActSkip, JobWrite, Fault, Written
  <2>3. drv.pc = "act"
    BY <1>10 DEF ActSkip, Driving, Acting
  <2> QED BY <2>1, <2>2, <2>3 DEF Background, Skips
<1>11. CASE ActDispatch
  <2>1. PICK n \in Dispatchable : exec' = [exec EXCEPT ![n] = [Idle EXCEPT !.pc = "prep"]]
    BY <1>11 DEF ActDispatch
  <2>2. n \in Ready
    BY DEF Dispatchable
  <2>3. n \in ReadyNodes(rec) /\ n \in Nodes /\ n \notin Active
    BY <2>2 DEF Ready, ReadyNodes
  <2>4. exec[n].pc = "none"
    BY <2>3 DEF Active
  <2>5. Active = {} \/ (n \notin Human /\ \A m \in Active : m \notin Human)
    BY <2>2 DEF Dispatchable, Exclusive
  <2>6. drv.pc = "act" /\ run' = run /\ calls' = calls /\ effect' = effect
    BY <1>11 DEF ActDispatch, Plain, Driving, Acting, JobFrame, ghost
  <2>7. Plain /\ drv' = [drv EXCEPT !.pc = "top"] /\ UNCHANGED <<up, faults>>
    BY <1>11 DEF ActDispatch, Leave, JobFrame, host
  <2> QED BY <2>1, <2>3, <2>4, <2>5, <2>6, <2>7 DEF Dispatches
<1>12. CASE ActRace
  BY <1>12, StaysDrift DEF ActRace, JobFrame, ghost, Background
<1>13. CASE ActComplete
  <2>1. Drifts
    BY <1>13, StaysDrift DEF ActComplete, JobFrame, ghost
  <2> DEFINE t == IF Complete(rec) THEN "succeeded" ELSE "recovery_required"
  <2>2. Active = {} /\ drv.pc = "act"
    BY <1>13 DEF ActComplete, Plain, Driving, Acting
  <2>3. t \in SETTLED /\ (t = "succeeded" => Complete(rec))
    BY <1>2
  <2>4. run' \in {run, Written(run, SettleTerminal(run, t))}
    BY <1>13 DEF ActComplete, JobWrite, Fault
  <2> HIDE DEF t
  <2>5. Settles
    BY <1>0, <1>1, <2>2, <2>3, <2>4, WriteSettles
  <2> QED BY <2>1, <2>5 DEF Background
<1>14. CASE Race
  BY <1>14, StaysDrift DEF Race, JobFrame, ghost, Background
<1>15. CASE FinallyAbort
  BY <1>15, StaysDrift DEF FinallyAbort, JobFrame, ghost, Background
<1>16. CASE Finally
  <2>1. \A n \in Nodes : exec[n].pc \in {"none", "done"}
    BY <1>16 DEF Finally, Active, Completed
  <2>2. \A n \in Nodes : exec'[n].pc = "none" /\ exec'[n].out = "none"
    BY <1>16 DEF Finally, Idle
  <2>3. exec' = [n \in Nodes |-> Idle] /\ run' = run /\ effect' = effect /\ calls' = calls
    BY <1>16 DEF Finally, JobFrame, ghost
  <2>4. \A n \in Nodes : effect[n] = "busy" <=> exec[n].pc = "effect"
    BY DEF Kinds
  <2>5. Drifts
    BY <2>1, <2>2, <2>3, <2>4, IdleIs DEF Drifts
  <2> QED BY <2>3, <2>5 DEF Background
<1>17. CASE Catch
  <2>1. Drifts
    BY <1>17, StaysDrift DEF Catch, ghost
  <2>2. Active = {}
    BY <1>17 DEF Catch, Life
  <2>3. CatchState \in SETTLED /\ CatchState # "succeeded"
    BY <1>2 DEF CatchState
  <2>4. run' \in {run, Written(run, SettleTerminal(run, CatchState))}
    BY <1>17 DEF Catch, Fault
  <2>5. Settles
    BY <1>0, <1>1, <2>2, <2>3, <2>4, WriteSettles
  <2> QED BY <2>1, <2>5 DEF Background
<1>18. CASE End
  BY <1>18, StaysDrift DEF End, ghost, Background
<1> QED BY <1>4, <1>5, <1>6, <1>7, <1>8, <1>9, <1>10, <1>11, <1>12, <1>13, <1>14, <1>15, <1>16, <1>17, <1>18 DEF JobStep

\* The steps of clients, of the runtime and of the process.
OtherStep ==
    \/ Capture \/ CaptureFails \/ Cancel \/ CancelFollows \/ DecideRun \/ DecideFollows
    \/ Close \/ CloseAborts \/ CloseDone \/ Exit \/ Restart

LEMMA OtherIsBackground ==
    ASSUME OrderInv, OtherStep
    PROVE  Background
<1> USE DEF OrderInv
<1>0. run \in DriverRecords /\ exec \in [Nodes -> Call] /\ drv \in Job
  BY DEF Types
<1>1. Quiet(run, run)
  BY <1>0, QuietIs
<1>2. \A n \in Nodes : effect[n] = "busy" <=> exec[n].pc = "effect"
  BY DEF Kinds
<1>3. CASE Capture
  <2>1. Drifts
    BY <1>3, StaysDrift DEF Capture, ghost
  <2>2. Active = {}
    BY <1>3 DEF Capture, Life
  <2>3. run' = SetBindingDigests(run)
    BY <1>3 DEF Capture
  <2>4. run' \in DriverRecords /\ run'.state = run.state /\ run'.att = run.att /\ run'.admission = "captured"
    BY <1>0, <2>3, CaptureIs
  <2>5. Settles
    BY <2>2, <2>4 DEF Settles, Quiet
  <2> QED BY <2>1, <2>5 DEF Background
<1>4. CASE CaptureFails
  <2>1. Drifts
    BY <1>4, StaysDrift DEF CaptureFails, ghost
  <2>2. Active = {}
    BY <1>4 DEF CaptureFails, Life
  <2>3. run' = Written(run, SettleTerminal(run, "failed"))
    BY <1>4 DEF CaptureFails
  <2>4. "failed" \in SETTLED
    BY DEF SETTLED, TERMINAL_RUN_STATES
  <2>5. Settles
    BY <1>0, <1>1, <2>2, <2>3, <2>4, WriteSettles
  <2> QED BY <2>1, <2>5 DEF Background
<1>5. CASE Cancel
  <2>1. Drifts
    BY <1>5, StaysDrift DEF Cancel, RequestFrame, ghost
  <2>2. run' = run \/ (RequestCancelOk(run) /\ run' = RequestCancel(run))
    BY <1>5 DEF Cancel, Fault
  <2> QED BY <2>1, <2>2 DEF Background, Cancels
<1>6. CASE CancelFollows
  BY <1>6, StaysDrift DEF CancelFollows, RequestFrame, ghost, Background
<1>7. CASE DecideRun
  <2>1. Drifts
    BY <1>7, StaysDrift DEF DecideRun, RequestFrame, ghost
  <2>2. PICK d \in Decisions, n \in Waiting(run), approve \in BOOLEAN :
          \E b \in ApprovedBranches(n) :
            LET next == Decide(run, n, d, approve, b) IN
            /\ DecideOk(run, d)
            /\ \/ run' = next /\ asked' = [asked EXCEPT !.decide = approve] /\ UNCHANGED faults
               \/ "decide" \in FaultyRequests /\ Fault({run, next}) /\ UNCHANGED asked
    BY <1>7 DEF DecideRun
  <2>3. PICK b \in ApprovedBranches(n) : DecideOk(run, d) /\ run' \in {run, Decide(run, n, d, approve, b)}
    BY <2>2 DEF Fault
  <2>4. b \in Branches
    BY GraphAssumption DEF ApprovedBranches
  <2>5. run' = run \/ Decides
    BY <2>3, <2>4 DEF Decides, DecideOk
  <2> QED BY <2>1, <2>5 DEF Background
<1>8. CASE DecideFollows
  BY <1>8, StaysDrift DEF DecideFollows, RequestFrame, ghost, Background
<1>9. CASE Close
  BY <1>9, StaysDrift DEF Close, CloseFrame, ghost, Background
<1>10. CASE CloseAborts
  BY <1>10, StaysDrift DEF CloseAborts, CloseFrame, ghost, Background
<1>11. CASE CloseDone
  BY <1>11, StaysDrift DEF CloseDone, CloseFrame, ghost, Background
<1>12. CASE Exit
  <2>1. /\ run' = run /\ calls' = calls
        /\ exec' = [n \in Nodes |-> Idle]
        /\ effect' = [n \in Nodes |-> IF effect[n] = "busy" THEN "unknown" ELSE effect[n]]
    BY <1>12 DEF Exit
  <2>2. Drifts
    BY <2>1, IdleIs DEF Drifts, Idle
  <2> QED BY <2>1, <2>2 DEF Background
<1>13. CASE Restart
  <2>1. Drifts
    BY <1>13, StaysDrift DEF Restart, ghost
  <2>2. Active = {}
    BY <1>13 DEF Restart, Life, Off
  <2>3. run' = ReconcileOnStart(run)
    BY <1>13 DEF Restart
  <2>4. Quiet(run, ReconcileOnStart(run))
    BY <1>0, ReconcileQuiet
  <2>5. /\ ReconcileOnStart(run) = run \/ ReconcileOnStart(run).state = "recovery_required"
        /\ ReconcileOnStart(run).admission = run.admission
    BY <1>0, ReconcileIs
  <2>6. Settles
    BY <2>2, <2>3, <2>4, <2>5 DEF Settles, SETTLED
  <2> QED BY <2>1, <2>6 DEF Background
<1> QED BY <1>3, <1>4, <1>5, <1>6, <1>7, <1>8, <1>9, <1>10, <1>11, <1>12, <1>13 DEF OtherStep

\* The steps of the calls.
LEMMA CallsMove ==
    ASSUME OrderInv, NEW n \in Nodes, CallStep(n) \/ EffectEnds(n)
    PROVE  CallMoves(n)
<1> USE DEF OrderInv
<1>0. run \in DriverRecords /\ exec \in [Nodes -> Call] /\ calls \in [Nodes -> Nat] /\ effect \in [Nodes -> EFFECTS]
  BY DEF Types
<1>1. \A k \in {"prep", "intent", "check", "dispatch", "effect", "wait", "waited", "result", "done"} : k \in EXEC_PC
  BY DEF EXEC_PC
<1>2. /\ \A k \in RESULTS : k \in EXEC_OUT
      /\ \A k \in {"none", "ok", "failed", "cancelled", "drift", "unknown", "prepare-failed", "error"} : k \in EXEC_OUT
      /\ exec[n].out \in EXEC_OUT
      /\ \A r : ThrownOn(r) \in EXEC_OUT /\ NoIntentOut(r) \in EXEC_OUT
  BY <1>0 DEF EXEC_OUT, RESULTS, Call, ThrownOn, NoIntentOut
\* A step that only ends the call.
<1>3. ASSUME NEW out \in EXEC_OUT, Go(n, "done", out), UNCHANGED ghost, exec[n].pc \notin {"none", "effect"}, Writes(n)
      PROVE  CallMoves(n)
  BY <1>0, <1>1, <1>3, GoIs DEF CallMoves, ghost
<1>4. CASE Prepare(n)
  <2>1. exec[n].pc = "prep" /\ run' = run /\ UNCHANGED ghost
    BY <1>4 DEF Prepare, At
  <2>2. CASE Go(n, "intent", "none")
    BY <1>0, <1>1, <1>2, <2>1, <2>2, GoIs DEF CallMoves, Writes, ghost
  <2>3. CASE Go(n, "intent", "drift")
    BY <1>0, <1>1, <1>2, <2>1, <2>3, GoIs DEF CallMoves, Writes, ghost
  <2> QED BY <1>4, <2>2, <2>3 DEF Prepare
<1>5. CASE PrepareDamaged(n)
  BY <1>2, <1>3, <1>5 DEF PrepareDamaged, At, Writes
<1>6. CASE PrepareStopped(n)
  <2> DEFINE next == IF Closing /\ RequestCancelOk(run) THEN RequestCancel(run) ELSE run
  <2>1. exec[n].pc = "prep" /\ UNCHANGED ghost /\ run' \in {run, next}
    BY <1>6 DEF PrepareStopped, At, Fault
  <2>2. PICK out \in EXEC_OUT : Go(n, "done", out)
    BY <1>2, <1>6 DEF PrepareStopped
  <2>3. exec'[n].pc = "done"
    BY <1>0, <1>1, <2>2, GoIs
  <2>4. Writes(n)
    BY <2>1, <2>3 DEF Writes, Gives, Cancels
  <2> QED BY <1>3, <2>1, <2>2, <2>4
<1>7. CASE Intent(n)
  <2>1. exec[n].pc = "intent" /\ UNCHANGED ghost
    BY <1>7 DEF Intent, At
  <2>2. CASE RecordIntentOk(run, n) /\ run' = RecordIntent(run, n) /\ Go(n, "check", exec[n].out)
    <3>1. /\ exec' \in [Nodes -> Call] /\ exec'[n].abort = exec[n].abort /\ exec'[n].pc = "check"
          /\ \A m \in Nodes : m # n => exec'[m] = exec[m]
      BY <1>0, <1>1, <1>2, <2>2, GoIs
    <3>2. Intends(n)
      BY <2>1, <2>2, <3>1 DEF Intends
    <3> QED BY <2>1, <3>1, <3>2 DEF CallMoves, Writes, ghost
  <2>3. CASE RecordIntentOk(run, n) /\ run' \in {run, RecordIntent(run, n)} /\ Go(n, "done", ThrownOn(run'))
    <3>1. exec'[n].pc = "done"
      BY <1>0, <1>1, <1>2, <2>3, GoIs
    <3>2. Writes(n)
      BY <2>1, <2>3, <3>1 DEF Writes, Intends
    <3> QED BY <1>2, <1>3, <2>1, <2>3, <3>2
  <2>4. CASE Go(n, "done", NoIntentOut(run)) /\ run' = run
    BY <1>2, <1>3, <2>1, <2>4 DEF Writes
  <2> QED BY <1>7, <2>2, <2>3, <2>4 DEF Intent, Fault
<1>8. CASE Check(n)
  <2>1. exec[n].pc = "check" /\ run' = run /\ UNCHANGED ghost
    BY <1>8 DEF Check, At
  <2>2. CASE Go(n, "result", "cancelled")
    BY <1>0, <1>1, <1>2, <2>1, <2>2, GoIs DEF CallMoves, Writes, ghost
  <2>3. CASE Go(n, "result", "failed")
    BY <1>0, <1>1, <1>2, <2>1, <2>3, GoIs DEF CallMoves, Writes, ghost
  <2>4. CASE n \in Human /\ Go(n, "wait", "none")
    BY <1>0, <1>1, <1>2, <2>1, <2>4, GoIs DEF CallMoves, Writes, ghost
  <2>5. CASE n \in Agents /\ Go(n, "dispatch", "none")
    BY <1>0, <1>1, <1>2, <2>1, <2>5, GoIs DEF CallMoves, Writes, ghost
  <2>6. CASE n \notin Human /\ Go(n, "result", "ok")
    BY <1>0, <1>1, <1>2, <2>1, <2>6, GoIs DEF CallMoves, Writes, ghost
  <2> QED BY <1>8, <2>2, <2>3, <2>4, <2>5, <2>6 DEF Check
<1>9. CASE Dispatch(n)
  <2>1. /\ exec[n].pc = "dispatch" /\ run' = run /\ Go(n, "effect", "none")
        /\ effect' = [effect EXCEPT ![n] = "busy"] /\ calls' = [calls EXCEPT ![n] = @ + 1]
    BY <1>9 DEF Dispatch, At
  <2>2. /\ effect'[n] = "busy" /\ calls'[n] = calls[n] + 1
        /\ \A m \in Nodes : m # n => effect'[m] = effect[m] /\ calls'[m] = calls[m]
    BY <1>0, <2>1
  <2>3. /\ exec' \in [Nodes -> Call] /\ exec'[n].abort = exec[n].abort /\ exec'[n].pc = "effect"
        /\ \A m \in Nodes : m # n => exec'[m] = exec[m]
    BY <1>0, <1>1, <1>2, <2>1, GoIs
  <2> QED BY <2>1, <2>2, <2>3 DEF CallMoves, Writes
<1>10. CASE DispatchFails(n)
  <2>1. exec[n].pc = "dispatch" /\ run' = run /\ UNCHANGED ghost
    BY <1>10 DEF DispatchFails, At
  <2>2. CASE Go(n, "result", "cancelled")
    BY <1>0, <1>1, <1>2, <2>1, <2>2, GoIs DEF CallMoves, Writes, ghost
  <2>3. CASE Go(n, "result", "failed")
    BY <1>0, <1>1, <1>2, <2>1, <2>3, GoIs DEF CallMoves, Writes, ghost
  <2>4. CASE Go(n, "done", "unknown")
    BY <1>2, <1>3, <2>1, <2>4 DEF Writes
  <2> QED BY <1>10, <2>2, <2>3, <2>4 DEF DispatchFails
<1>11. CASE EffectEnds(n)
  <2>1. exec[n].pc = "effect" /\ run' = run /\ calls' = calls
    BY <1>11 DEF EffectEnds, At
  <2>2. PICK k \in AgentOutcomes(n) :
          /\ effect' = [effect EXCEPT ![n] = IF k = "cancelled" /\ ~exec[n].abort THEN "quit" ELSE k]
          /\ Go(n, IF k = "unknown" THEN "done" ELSE "result", k)
    BY <1>11 DEF EffectEnds
  <2>3. k \in {"ok", "failed", "cancelled", "unknown"}
    BY DEF AgentOutcomes
  <2>4. effect'[n] # "busy" /\ \A m \in Nodes : m # n => effect'[m] = effect[m]
    BY <1>0, <2>2, <2>3
  <2>5. CASE k = "unknown"
    <3>1. Go(n, "done", k)
      BY <2>2, <2>5
    <3> QED BY <1>0, <1>1, <1>2, <2>1, <2>3, <2>4, <3>1, GoIs DEF CallMoves, Writes
  <2>6. CASE k # "unknown"
    <3>1. Go(n, "result", k)
      BY <2>2, <2>6
    <3> QED BY <1>0, <1>1, <1>2, <2>1, <2>3, <2>4, <2>6, <3>1, GoIs DEF CallMoves, Writes
  <2> QED BY <2>5, <2>6
<1>12. CASE Result(n)
  <2>1. exec[n].pc = "result" /\ UNCHANGED ghost
    BY <1>12 DEF Result, At
  <2>2. PICK b \in IF n \in Condition /\ exec[n].out = "ok" THEN Branches ELSE {None} :
          LET next == RecordResult(run, n, exec[n].out, b) IN
          IF RecordResultOk(run, n) /\ Applies(run, next)
          THEN \/ run' = next /\ Go(n, "done", "none") /\ UNCHANGED faults
               \/ Fault({run, next}) /\ Go(n, "done", ThrownOn(run'))
          ELSE Go(n, "done", ThrownOn(run)) /\ UNCHANGED <<run, faults>>
    BY <1>12 DEF Result
  <2> DEFINE next == RecordResult(run, n, exec[n].out, b)
  <2>3. \/ RecordResultOk(run, n) /\ run' = next
        \/ run' = run
    BY <2>2 DEF Fault
  <2>4. Go(n, "done", "none") \/ Go(n, "done", ThrownOn(run')) \/ Go(n, "done", ThrownOn(run))
    BY <2>2
  <2>5. b \in Branches \union {None} /\ (n \in Condition /\ exec[n].out = "ok" => b \in Branches)
    OBVIOUS
  <2>6. PICK out \in EXEC_OUT : Go(n, "done", out)
    BY <1>2, <2>4
  <2>7. exec'[n].pc = "done"
    BY <1>0, <1>1, <2>6, GoIs
  <2>8. Writes(n)
    BY <2>1, <2>3, <2>5, <2>7 DEF Writes, Reports
  <2> QED BY <1>3, <2>1, <2>6, <2>8
<1>13. CASE Wait(n)
  <2>1. exec[n].pc = "wait" /\ UNCHANGED ghost
    BY <1>13 DEF Wait, At
  <2>2. CASE Applies(run, WaitInput(run, n)) /\ run' = WaitInput(run, n) /\ Go(n, "waited", "none")
    <3>1. /\ exec' \in [Nodes -> Call] /\ exec'[n].abort = exec[n].abort /\ exec'[n].pc = "waited"
          /\ \A m \in Nodes : m # n => exec'[m] = exec[m]
      BY <1>0, <1>1, <1>2, <2>2, GoIs
    <3> QED BY <2>1, <2>2, <3>1 DEF CallMoves, Writes, Waits, ghost
  <2>3. CASE Applies(run, WaitInput(run, n)) /\ run' \in {run, WaitInput(run, n)} /\ Go(n, "done", ThrownOn(run'))
    <3>1. exec'[n].pc = "done"
      BY <1>0, <1>1, <1>2, <2>3, GoIs
    <3>2. Writes(n)
      BY <2>1, <2>3, <3>1 DEF Writes, Waits
    <3> QED BY <1>2, <1>3, <2>1, <2>3, <3>2
  <2>4. CASE Go(n, "done", ThrownOn(run)) /\ run' = run
    BY <1>2, <1>3, <2>1, <2>4 DEF Writes
  <2> QED BY <1>13, <2>2, <2>3, <2>4 DEF Wait, Fault
<1>14. CASE Waited(n)
  <2>1. exec[n].pc = "waited" /\ run' = run /\ UNCHANGED ghost
    BY <1>14 DEF Waited, At
  <2>2. CASE Go(n, "result", "cancelled")
    BY <1>0, <1>1, <1>2, <2>1, <2>2, GoIs DEF CallMoves, Writes, ghost
  <2>3. CASE Go(n, "done", "none")
    BY <1>2, <1>3, <2>1, <2>3 DEF Writes
  <2> QED BY <1>14, <2>2, <2>3 DEF Waited
<1> QED BY <1>4, <1>5, <1>6, <1>7, <1>8, <1>9, <1>10, <1>11, <1>12, <1>13, <1>14 DEF CallStep

\* Every step is one of these.
Steps(n) == CallMoves(n) /\ (CallStep(n) \/ EffectEnds(n))
LEMMA StepIs ==
    ASSUME OrderInv, Next
    PROVE  Background \/ (\E n \in Nodes : Dispatches(n)) \/ \E n \in Nodes : Steps(n)
BY JobIsBackground, OtherIsBackground, CallsMove DEF Next, OtherStep, Steps

LEMMA NextIs ==
    ASSUME OrderInv, Next
    PROVE  Background \/ (\E n \in Nodes : Dispatches(n)) \/ \E n \in Nodes : CallMoves(n)
BY StepIs DEF Steps
-----------------------------------------------------------------------------
(* Types. *)

\* What the writes of the calls leave is a record.
LEMMA WritesTyped ==
    ASSUME run \in DriverRecords, exec \in [Nodes -> Call], Kinds, NEW n \in Nodes, Writes(n)
    PROVE  run' \in DriverRecords
<1>1. CASE Intends(n)
  BY <1>1, RecordIntentIs DEF Intends
<1>2. CASE Reports(n)
  <2>1. exec[n].out \in RESULTS
    BY <1>2 DEF Reports, Kinds
  <2>2. PICK b \in Branches \union {None} : run' = RecordResult(run, n, exec[n].out, b)
    BY <1>2 DEF Reports
  <2> QED BY <2>1, <2>2, ReportIs
<1>3. CASE Waits(n)
  BY <1>3, WaitInputIs DEF Waits
<1>4. CASE Gives(n)
  BY <1>4, RequestCancelIs DEF Gives, Cancels
<1> QED BY <1>1, <1>2, <1>3, <1>4 DEF Writes

LEMMA RecordTyped ==
    ASSUME OrderInv, Next
    PROVE  run' \in DriverRecords /\ exec' \in [Nodes -> Call]
<1> USE DEF OrderInv
<1>0. run \in DriverRecords /\ exec \in [Nodes -> Call]
  BY DEF Types
<1>1. CASE Background
  <2> SUFFICES run' \in DriverRecords
    BY <1>1 DEF Background, Drifts
  <2>1. CASE Settles
    BY <2>1 DEF Settles, Quiet
  <2>2. CASE Cancels
    BY <1>0, <2>2, RequestCancelIs DEF Cancels
  <2>3. CASE Skips
    BY <1>0, <2>3, SkipIs DEF Skips
  <2>4. CASE Decides
    <3>1. PICK n \in Waiting(run), d \in Decisions, approve \in BOOLEAN, b \in Branches :
            run' = Decide(run, n, d, approve, b)
      BY <2>4 DEF Decides
    <3>2. n \in Nodes
      BY NodesAssumption DEF Waiting
    <3> QED BY <1>0, <3>1, <3>2, DecideIs
  <2> QED BY <1>0, <1>1, <2>1, <2>2, <2>3, <2>4 DEF Background
<1>2. ASSUME NEW n \in Nodes, Dispatches(n) PROVE run' \in DriverRecords /\ exec' \in [Nodes -> Call]
  <2>1. [Idle EXCEPT !.pc = "prep"] \in Call
    BY IdleIs DEF Call, EXEC_PC
  <2> QED BY <1>0, <1>2, <2>1 DEF Dispatches
<1>3. ASSUME NEW n \in Nodes, CallMoves(n) PROVE run' \in DriverRecords /\ exec' \in [Nodes -> Call]
  BY <1>0, <1>3, WritesTyped DEF CallMoves
<1> QED BY <1>1, <1>2, <1>3, NextIs

\* The job: where it is, and the record it read.
LEMMA JobTyped ==
    ASSUME OrderInv, Next
    PROVE  /\ drv' \in Job
           /\ drv'.pc = "act" => rec' \in DriverRecords
           /\ drv'.pc # "act" => rec' = NoRecord
<1> USE DEF OrderInv
<1>0. /\ run \in DriverRecords /\ drv \in Job
      /\ drv.pc = "act" => rec \in DriverRecords
      /\ drv.pc # "act" => rec = NoRecord
  BY DEF Types
<1>1. /\ Off \in Job /\ Off.pc = "off" /\ [Off EXCEPT !.pc = "start"] \in Job
      /\ [Off EXCEPT !.pc = "start"].pc = "start"
  BY DEF Off, Job, DRV_PC
<1>2. ASSUME NEW pc \in DRV_PC, pc # "act", Leave(pc) PROVE drv' \in Job /\ drv'.pc # "act" /\ rec' = NoRecord
  BY <1>0, <1>2 DEF Leave, Job
<1>3. \A pc \in {"top", "race", "finally", "throw", "catch", "end", "off", "start"} : pc \in DRV_PC /\ pc # "act"
  BY DEF DRV_PC
<1>4. CASE UNCHANGED <<drv, rec>>
  BY <1>0, <1>4
<1>5. CASE Top
  <2>1. PICK s \in StopReasons(DrainedStop) :
          drv' = [pc |-> "act", stop |-> s, fatal |-> drv.fatal \/ "error" \in Reasons]
    BY <1>5 DEF Top
  <2>2. drv.stop \in {"none", "failed", "timed_out", "cancelled", "recovery_required"} /\ drv.fatal \in BOOLEAN
    BY <1>0 DEF Job
  <2>3. s \in {"none", "failed", "timed_out", "cancelled", "recovery_required"}
    BY <2>2 DEF StopReasons, DrainedStop
  <2>4. "act" \in DRV_PC
    BY DEF DRV_PC
  <2> QED BY <1>0, <1>5, <2>1, <2>2, <2>3, <2>4 DEF Top, Job
<1>6. CASE JobStep /\ ~Top /\ ~End /\ ~FinallyAbort
  <2>1. \E pc \in {"top", "race", "finally", "throw", "catch", "end"} : Leave(pc)
    <3>1. CASE Start
      BY <3>1 DEF Start
    <3>2. CASE ActAbort
      BY <3>2 DEF ActAbort
    <3>3. CASE ActSettle
      BY <3>3 DEF ActSettle, JobWrite
    <3>4. CASE ActFatal
      BY <3>4 DEF ActFatal
    <3>5. CASE ActWaiting
      BY <3>5 DEF ActWaiting
    <3>6. CASE ActSkip
      BY <3>6 DEF ActSkip, JobWrite
    <3>7. CASE ActDispatch
      BY <3>7 DEF ActDispatch
    <3>8. CASE ActRace
      BY <3>8 DEF ActRace
    <3>9. CASE ActComplete
      BY <3>9 DEF ActComplete, JobWrite
    <3>10. CASE Race
      BY <3>10 DEF Race
    <3>11. CASE Finally
      BY <3>11 DEF Finally
    <3>12. CASE Catch
      BY <3>12 DEF Catch
    <3> QED BY <1>6, <3>1, <3>2, <3>3, <3>4, <3>5, <3>6, <3>7, <3>8, <3>9, <3>10, <3>11, <3>12 DEF JobStep
  <2>2. PICK pc \in {"top", "race", "finally", "throw", "catch", "end"} : Leave(pc)
    BY <2>1
  <2>3. pc \in DRV_PC /\ pc # "act"
    BY <1>3
  <2> QED BY <1>2, <2>2, <2>3
<1>7. CASE FinallyAbort
  BY <1>4, <1>7 DEF FinallyAbort
<1>8. CASE drv' \in {drv, [Off EXCEPT !.pc = "start"]} /\ drv.pc # "act" /\ rec' = rec
  BY <1>0, <1>1, <1>8
<1>9. CASE End
  <2>1. drv.pc = "end" /\ rec' = rec
    BY <1>9 DEF End
  <2>2. drv' = [Off EXCEPT !.pc = "start"] \/ drv' = [Off EXCEPT !.pc = "off"]
    BY <1>9 DEF End
  <2>3. [Off EXCEPT !.pc = "off"] = Off
    BY DEF Off
  <2> QED BY <1>0, <1>1, <2>1, <2>2, <2>3
<1>10. CASE Schedule /\ rec' = rec
  <2>1. drv.pc = "act" => drv' = drv
    BY <1>10 DEF Schedule, HasJob
  <2>2. drv' \in {drv, [Off EXCEPT !.pc = "start"]}
    BY <1>10 DEF Schedule
  <2> QED BY <1>4, <1>8, <1>10, <2>1, <2>2
<1>11. CASE Capture
  BY <1>10, <1>11 DEF Capture
<1>12. CASE CancelFollows
  BY <1>4, <1>10, <1>12 DEF CancelFollows, RequestFrame
<1>13. CASE DecideFollows
  BY <1>10, <1>13 DEF DecideFollows, RequestFrame
<1>14. CASE Exit
  BY <1>1, <1>14 DEF Exit
<1>15. CASE Restart
  <2>1. drv.pc # "act"
    BY <1>1, <1>15 DEF Restart, Life
  <2>2. rec' = rec /\ (drv' = Off \/ drv' = [Off EXCEPT !.pc = "start"])
    BY <1>15 DEF Restart
  <2> QED BY <1>0, <1>1, <2>1, <2>2
<1>16. CASE CaptureFails \/ Cancel \/ DecideRun \/ Close \/ CloseAborts \/ CloseDone
  BY <1>4, <1>16 DEF CaptureFails, Cancel, DecideRun, Close, CloseAborts, CloseDone, RequestFrame, CloseFrame
<1>17. ASSUME NEW n \in Nodes, CallStep(n) \/ EffectEnds(n) PROVE UNCHANGED <<drv, rec>>
  BY <1>17 DEF CallStep, EffectEnds, Prepare, PrepareDamaged, PrepareStopped, Intent, Check, Dispatch, DispatchFails,
       Result, Wait, Waited, CallFrame
<1> QED BY <1>4, <1>5, <1>6, <1>7, <1>9, <1>11, <1>12, <1>13, <1>14, <1>15, <1>16, <1>17 DEF Next

LEMMA TypesStep ==
    ASSUME OrderInv, Next
    PROVE  Types'
<1> USE DEF OrderInv
<1>0. /\ {up, admitted, rerun, hung} \subseteq BOOLEAN
      /\ drv \in Job /\ effect \in [Nodes -> EFFECTS] /\ calls \in [Nodes -> Nat]
      /\ asked \in [cancel: {"none", "cancelled", "cancelling"}, decide: BOOLEAN]
      /\ close \in {"open", "closing", "aborted", "closed"}
      /\ exits \in 0 .. MaxExits /\ faults \in 0 .. MaxFaults
  BY DEF Types
<1>1. run' \in DriverRecords /\ exec' \in [Nodes -> Call]
  BY RecordTyped
<1>2. drv' \in Job /\ (drv'.pc = "act" => rec' \in DriverRecords) /\ (drv'.pc # "act" => rec' = NoRecord)
  BY JobTyped
<1>3. faults' \in 0 .. MaxFaults
  <2>1. faults' = faults \/ (faults < MaxFaults /\ faults' = faults + 1)
    <3>1. CASE JobStep
      BY <3>1 DEF JobStep, Start, Top, ActAbort, ActSettle, ActFatal, ActWaiting, ActSkip, ActDispatch, ActRace,
           ActComplete, Race, FinallyAbort, Finally, Catch, End, JobWrite, Fault
    <3>2. ASSUME NEW n \in Nodes, CallStep(n) \/ EffectEnds(n) PROVE faults' = faults \/ (faults < MaxFaults /\ faults' = faults + 1)
      BY <3>2 DEF CallStep, EffectEnds, Prepare, PrepareDamaged, PrepareStopped, Intent, Check, Dispatch, DispatchFails,
           Result, Wait, Waited, Fault
    <3>3. CASE OtherStep
      BY <3>3 DEF OtherStep, Capture, CaptureFails, Cancel, CancelFollows, DecideRun, DecideFollows, Close, CloseAborts,
           CloseDone, Exit, Restart, Fault, CloseFrame
    <3> QED BY <3>1, <3>2, <3>3 DEF Next, OtherStep
  <2> QED BY <1>0, <2>1, DriverAssumption
<1>4. calls' \in [Nodes -> Nat]
  <2>1. calls' = calls \/ \E n \in Nodes : calls' = [calls EXCEPT ![n] = @ + 1]
    <3>1. CASE JobStep
      BY <3>1 DEF JobStep, Start, Top, ActAbort, ActSettle, ActFatal, ActWaiting, ActSkip, ActDispatch, ActRace,
           ActComplete, Race, FinallyAbort, Finally, Catch, End, JobFrame, ghost
    <3>2. ASSUME NEW n \in Nodes, CallStep(n) \/ EffectEnds(n)
          PROVE  calls' = calls \/ calls' = [calls EXCEPT ![n] = @ + 1]
      BY <3>2 DEF CallStep, EffectEnds, Prepare, PrepareDamaged, PrepareStopped, Intent, Check, Dispatch, DispatchFails,
           Result, Wait, Waited, ghost
    <3>3. CASE OtherStep
      BY <3>3 DEF OtherStep, Capture, CaptureFails, Cancel, CancelFollows, DecideRun, DecideFollows, Close, CloseAborts,
           CloseDone, Exit, Restart, CloseFrame, RequestFrame, ghost
    <3> QED BY <3>1, <3>2, <3>3 DEF Next, OtherStep
  <2> QED BY <1>0, <2>1
<1>5. effect' \in [Nodes -> EFFECTS]
  <2>1. \/ effect' = effect
        \/ \E n \in Nodes, k \in {"busy", "ok", "failed", "cancelled", "quit", "unknown"} :
             effect' = [effect EXCEPT ![n] = k]
        \/ effect' = [n \in Nodes |-> IF effect[n] = "busy" THEN "unknown" ELSE effect[n]]
    <3>1. CASE JobStep
      BY <3>1 DEF JobStep, Start, Top, ActAbort, ActSettle, ActFatal, ActWaiting, ActSkip, ActDispatch, ActRace,
           ActComplete, Race, FinallyAbort, Finally, Catch, End, JobFrame, ghost
    <3>2. ASSUME NEW n \in Nodes, CallStep(n)
          PROVE  effect' = effect \/ effect' = [effect EXCEPT ![n] = "busy"]
      BY <3>2 DEF CallStep, Prepare, PrepareDamaged, PrepareStopped, Intent, Check, Dispatch, DispatchFails,
           Result, Wait, Waited, ghost
    <3>3. ASSUME NEW n \in Nodes, EffectEnds(n)
          PROVE  \E k \in {"busy", "ok", "failed", "cancelled", "quit", "unknown"} : effect' = [effect EXCEPT ![n] = k]
      <4>1. PICK k \in AgentOutcomes(n) :
              effect' = [effect EXCEPT ![n] = IF k = "cancelled" /\ ~exec[n].abort THEN "quit" ELSE k]
        BY <3>3 DEF EffectEnds
      <4>2. k \in {"ok", "failed", "cancelled", "unknown"}
        BY DEF AgentOutcomes
      <4> QED BY <4>1, <4>2
    <3>4. CASE OtherStep
      BY <3>4 DEF OtherStep, Capture, CaptureFails, Cancel, CancelFollows, DecideRun, DecideFollows, Close, CloseAborts,
           CloseDone, Exit, Restart, CloseFrame, RequestFrame, ghost
    <3> QED BY <3>1, <3>2, <3>3, <3>4 DEF Next, OtherStep
  <2> QED BY <1>0, <2>1 DEF EFFECTS
<1>6. /\ {up', admitted', rerun', hung'} \subseteq BOOLEAN
      /\ asked' \in [cancel: {"none", "cancelled", "cancelling"}, decide: BOOLEAN]
      /\ close' \in {"open", "closing", "aborted", "closed"}
      /\ exits' \in 0 .. MaxExits
  <2>1. CASE JobStep
    <3>1. CASE Catch
      BY <1>0, <3>1 DEF Catch, Closing
    <3>2. CASE End
      BY <1>0, <3>2 DEF End, host
    <3>3. CASE UNCHANGED <<host, rerun, asked>>
      BY <1>0, <3>3 DEF host
    <3> QED BY <2>1, <3>1, <3>2, <3>3
          DEF JobStep, Start, Top, ActAbort, ActSettle, ActFatal, ActWaiting, ActSkip, ActDispatch, ActRace,
              ActComplete, Race, FinallyAbort, Finally, JobFrame
  <2>2. ASSUME NEW n \in Nodes, CallStep(n) \/ EffectEnds(n) PROVE UNCHANGED <<host, rerun, asked>>
    BY <2>2 DEF CallStep, EffectEnds, Prepare, PrepareDamaged, PrepareStopped, Intent, Check, Dispatch, DispatchFails,
         Result, Wait, Waited, CallFrame
  <2>3. CASE UNCHANGED <<host, rerun, asked>>
    BY <1>0, <2>3 DEF host
  <2>4. CASE Capture
    BY <1>0, <2>4 DEF Capture, Schedule
  <2>5. CASE CaptureFails
    BY <1>0, <2>5 DEF CaptureFails
  <2>6. CASE Cancel
    BY <1>0, <2>6 DEF Cancel, RequestFrame, host
  <2>7. CASE CancelFollows
    BY <1>0, <2>7 DEF CancelFollows, RequestFrame, host, Schedule
  <2>8. CASE DecideRun
    BY <1>0, <2>8 DEF DecideRun, RequestFrame, host
  <2>9. CASE DecideFollows
    BY <1>0, <2>9 DEF DecideFollows, RequestFrame, host, Schedule
  <2>10. CASE Close \/ CloseAborts \/ CloseDone
    BY <1>0, <2>10 DEF Close, CloseAborts, CloseDone, CloseFrame
  <2>11. CASE Exit
    <3>1. /\ up' = FALSE /\ admitted' = TRUE /\ rerun' = FALSE /\ hung' = FALSE /\ close' = "open"
          /\ exits < MaxExits /\ exits' = exits + 1 /\ asked' = [cancel |-> "none", decide |-> FALSE]
      BY <2>11 DEF Exit, NoRequests
    <3>2. exits' \in 0 .. MaxExits
      BY <1>0, <3>1, DriverAssumption
    <3> QED BY <3>1, <3>2
  <2>12. CASE Restart
    BY <1>0, <2>12 DEF Restart
  <2> QED BY <2>1, <2>2, <2>3, <2>4, <2>5, <2>6, <2>7, <2>8, <2>9, <2>10, <2>11, <2>12 DEF Next
<1> QED BY <1>1, <1>2, <1>3, <1>4, <1>5, <1>6 DEF Types
-----------------------------------------------------------------------------
(* The order of effects. *)

\* Attempts are never forgotten, and a terminal one never changes.
LEMMA Grows ==
    ASSUME OrderInv, Next
    PROVE  GrowsTo(run, run')
<1> USE DEF OrderInv
<1>0. run \in DriverRecords /\ exec \in [Nodes -> Call]
  BY DEF Types
<1>1. GrowsTo(run, run)
  BY DEF GrowsTo
<1>2. \A n \in Nodes : run.att[n] \in Attempt
  BY <1>0, RecordIs
\* An update of open Attempts.
<1>3. ASSUME NEW q \in DriverRecords,
             \A n \in Nodes : \/ q.att[n] = run.att[n]
                              \/ run.att[n].st \notin TERMINAL_ATTEMPTS /\ q.att[n].st # "none"
      PROVE  GrowsTo(run, q)
  BY <1>3 DEF GrowsTo, Started
<1>4. CASE Settles \/ Cancels
  <2>1. Quiet(run, run')
    BY <1>0, <1>4, CancelIs DEF Settles, Cancels
  <2>2. \A n \in Nodes : \/ run'.att[n] = run.att[n]
                         \/ run.att[n].st \notin TERMINAL_ATTEMPTS /\ run'.att[n].st # "none"
    BY <1>2, <2>1 DEF Quiet, Unsettled, Settled, Attempt
  <2> QED BY <1>3, <2>1, <2>2 DEF Quiet
<1>5. CASE Skips
  <2>1. CASE run.state = "cancelling"
    BY <1>0, <1>1, <1>5, <2>1, SkipIs DEF Skips
  <2>2. CASE run.state # "cancelling"
    <3> DEFINE S == {n \in SkippedNodes(rec) : ~Started(run, n)}
    <3>1. run' \in DriverRecords /\ Moved(run, run', S, "skipped")
      BY <1>0, <1>5, <2>2, SkipIs DEF Skips
    <3>2. \A n \in S : run.att[n].st = "none"
      BY DEF Started
    <3> HIDE DEF S
    <3>3. "none" \notin TERMINAL_ATTEMPTS
      BY DEF TERMINAL_ATTEMPTS, TERMINAL_RUN_STATES
    <3>4. \A n \in Nodes : \/ run'.att[n] = run.att[n]
                           \/ run.att[n].st \notin TERMINAL_ATTEMPTS /\ run'.att[n].st # "none"
      BY <1>2, <3>1, <3>2, <3>3 DEF Moved, Attempt
    <3> QED BY <1>3, <3>1, <3>4
  <2> QED BY <2>1, <2>2
<1>6. CASE Decides
  <2>1. PICK n \in Waiting(run), d \in Decisions, approve \in BOOLEAN, b \in Branches :
          run' = Decide(run, n, d, approve, b)
    BY <1>6 DEF Decides
  <2>2. n \in Nodes /\ run.att[n].st = "waiting_input"
    BY NodesAssumption DEF Waiting
  <2>3. "waiting_input" \notin TERMINAL_ATTEMPTS
    BY DEF TERMINAL_ATTEMPTS, TERMINAL_RUN_STATES
  <2>4. /\ run' \in DriverRecords
        /\ \A m \in Nodes : m # n => run'.att[m] = run.att[m]
        /\ run'.att[n] = [st |-> IF approve THEN "succeeded" ELSE "cancelled",
                          res |-> IF approve THEN "ok" ELSE "cancelled", branch |-> b, decision |-> d]
    BY <1>0, <2>1, <2>2, DecideIs
  <2>5. run'.att[n].st \in {"succeeded", "cancelled"}
    BY <2>4
  <2> QED BY <1>3, <2>2, <2>3, <2>4, <2>5
<1>7. ASSUME NEW n \in Nodes, Writes(n) PROVE GrowsTo(run, run')
  <2>0. run' \in DriverRecords
    BY <1>0, <1>7, WritesTyped
  <2>1. CASE Intends(n)
    <3>1. run.att[n].st = "none"
      BY <2>1 DEF Intends, RecordIntentOk, Started
    <3>2. "none" \notin TERMINAL_ATTEMPTS
      BY DEF TERMINAL_ATTEMPTS, TERMINAL_RUN_STATES
    <3>3. /\ \A m \in Nodes : m # n => run'.att[m] = run.att[m]
          /\ run'.att[n].st = "running"
      BY <1>0, <2>1, RecordIntentIs DEF Intends, NoAttempt
    <3> QED BY <1>3, <2>0, <3>1, <3>2, <3>3
  <2>2. CASE Reports(n)
    <3>1. PICK b \in Branches \union {None} : run' = RecordResult(run, n, exec[n].out, b)
      BY <2>2 DEF Reports
    <3>2. exec[n].out \in RESULTS /\ run.att[n].st \notin TERMINAL_ATTEMPTS
      BY <2>2 DEF Reports, Kinds, RecordResultOk, Settled
    <3>3. /\ \A m \in Nodes : m # n => run'.att[m] = run.att[m]
          /\ run'.att[n].st = ResultState(run, exec[n].out)
      BY <1>0, <3>1, <3>2, ReportIs
    <3>4. run'.att[n].st # "none"
      BY <3>3 DEF ResultState
    <3> QED BY <1>3, <2>0, <3>2, <3>3, <3>4
  <2>3. CASE Waits(n)
    <3>1. run.att[n].st \in {"running", "cancelling"}
      BY <2>3 DEF Waits, CallsOpen, Underway
    <3>2. run.att[n].st \notin TERMINAL_ATTEMPTS
      BY <3>1 DEF TERMINAL_ATTEMPTS, TERMINAL_RUN_STATES
    <3>3. CASE run.state = "cancelling"
      BY <1>0, <1>1, <2>3, <3>3, WaitInputIs DEF Waits
    <3>4. CASE run.state # "cancelling"
      <4>1. Moved(run, run', {n}, "waiting_input")
        BY <1>0, <2>3, <3>4, WaitInputIs DEF Waits
      <4>2. \A m \in Nodes : \/ run'.att[m] = run.att[m]
                             \/ run.att[m].st \notin TERMINAL_ATTEMPTS /\ run'.att[m].st # "none"
        BY <1>2, <3>2, <4>1 DEF Moved, Attempt
      <4> QED BY <1>3, <2>0, <4>2
    <3> QED BY <3>3, <3>4
  <2>4. CASE Gives(n)
    BY <1>4, <2>4 DEF Gives
  <2> QED BY <1>1, <1>7, <2>1, <2>2, <2>3, <2>4 DEF Writes
<1>8. CASE Background
  BY <1>1, <1>4, <1>5, <1>6, <1>8 DEF Background
<1>9. ASSUME NEW n \in Nodes, Dispatches(n) PROVE GrowsTo(run, run')
  BY <1>1, <1>9 DEF Dispatches
<1>10. ASSUME NEW n \in Nodes, CallMoves(n) PROVE GrowsTo(run, run')
  BY <1>7, <1>10 DEF CallMoves
<1> QED BY <1>8, <1>9, <1>10, NextIs

LEMMA DriftIs ==
    ASSUME Drifts
    PROVE  \A n \in Nodes : exec'[n].pc # "none" => exec'[n].pc = exec[n].pc /\ exec'[n].out = exec[n].out
BY DEF Drifts

LEMMA KindsStep ==
    ASSUME OrderInv, Next
    PROVE  Kinds' /\ Alone'
<1> USE DEF OrderInv
<1>0. exec \in [Nodes -> Call]
  BY DEF Types
<1>1. CASE Background
  <2>1. Drifts
    BY <1>1 DEF Background
  <2>2. Alone'
    BY <2>1, DriftIs, NodesAssumption DEF Alone
  <2>3. Kinds'
    BY <2>1 DEF Kinds, Drifts
  <2> QED BY <2>2, <2>3
<1>2. ASSUME NEW n \in Nodes, Dispatches(n) PROVE Kinds' /\ Alone'
  <2>1. exec'[n].pc = "prep" /\ \A m \in Nodes : m # n => exec'[m] = exec[m]
    BY <1>0, <1>2 DEF Dispatches, Idle
  <2>2. Kinds'
    BY <1>2, <2>1 DEF Kinds, Dispatches
  <2>3. \A m \in Nodes : m # n /\ (n \in Human \/ m \in Human) => exec[m].pc = "none"
    BY <1>2 DEF Dispatches, Active
  <2>4. Alone'
    BY <2>1, <2>3, NodesAssumption DEF Alone
  <2> QED BY <2>2, <2>4
<1>3. ASSUME NEW n \in Nodes, CallMoves(n) PROVE Kinds' /\ Alone'
  <2>1. exec[n].pc # "none" /\ \A m \in Nodes : m # n => exec'[m] = exec[m] /\ effect'[m] = effect[m]
    BY <1>3 DEF CallMoves
  <2>2. Alone'
    BY <2>1, NodesAssumption DEF Alone
  <2>3. /\ exec'[n].pc \in {"dispatch", "effect"} => n \in Agents
        /\ exec'[n].pc \in {"wait", "waited"} => n \in Human
        /\ exec'[n].pc = "intent" => exec'[n].out \in {"none", "drift"}
        /\ effect'[n] = "busy" <=> exec'[n].pc = "effect"
    BY <1>3 DEF CallMoves, Kinds
  <2>4. exec'[n].pc = "result" => exec'[n].out \in RESULTS /\ (exec'[n].out = "ok" => n \notin Human)
    BY <1>3, GraphAssumption DEF CallMoves, Kinds, RESULTS
  <2>5. Kinds'
    BY <2>1, <2>3, <2>4 DEF Kinds
  <2> QED BY <2>2, <2>5
<1> QED BY <1>1, <1>2, <1>3, NextIs

LEMMA CallsOpenStep ==
    ASSUME OrderInv, Next
    PROVE  CallsOpen'
<1> USE DEF OrderInv
<1>0. run \in DriverRecords /\ exec \in [Nodes -> Call]
  BY DEF Types
<1>1. \A n \in Nodes : run.att[n] \in Attempt
  BY <1>0, RecordIs
\* A call that was open before the step, and that the step does not move.
<1>2. ASSUME NEW n \in Nodes, exec[n].pc \in Underway, Cancels
      PROVE  run'.state = "cancelling" /\ run'.att[n].st = "cancelling" /\ run'.att[n].res = "none"
  <2>1. run.att[n].st \in {"running", "cancelling"} /\ run.att[n].res = "none"
    BY <1>2 DEF CallsOpen
  <2>2. n \in Unsettled(run)
    BY <2>1 DEF Unsettled, HasIntent, Settled, TERMINAL_ATTEMPTS, TERMINAL_RUN_STATES
  <2>3. ActiveAttempt(run)
    BY <2>1, <2>2 DEF ActiveAttempt
  <2>4. run'.state = "cancelling" /\ Moved(run, run', Unsettled(run), "cancelling")
    BY <1>0, <1>2, <2>3, RequestCancelIs DEF Cancels
  <2>5. run'.att[n] = [run.att[n] EXCEPT !.st = "cancelling"]
    BY <2>2, <2>4 DEF Moved
  <2> QED BY <1>1, <2>1, <2>4, <2>5 DEF Attempt
<1>3. ASSUME NEW n \in Nodes, exec[n].pc \in Underway, run' = run \/ Cancels
      PROVE  /\ run'.state \in {"running", "cancelling"}
             /\ run'.att[n].st \in {"running", "cancelling"} /\ run'.att[n].res = "none"
  BY <1>2, <1>3 DEF CallsOpen
<1>4. CASE Background
  <2> SUFFICES ASSUME NEW n \in Nodes, exec'[n].pc \in Underway
               PROVE  /\ run'.state \in {"running", "cancelling"}
                      /\ run'.att[n].st \in {"running", "cancelling"} /\ run'.att[n].res = "none"
    BY DEF CallsOpen
  <2>1. exec[n].pc \in Underway
    BY <1>4, DriftIs DEF Background, Underway
  <2>2. /\ run.state \in {"running", "cancelling"}
        /\ run.att[n].st \in {"running", "cancelling"} /\ run.att[n].res = "none"
    BY <2>1 DEF CallsOpen
  <2>3. CASE Settles
    BY <2>1, <2>3 DEF Settles, Active, Underway
  <2>4. CASE Skips
    <3>1. CASE run.state = "cancelling"
      BY <1>0, <2>2, <2>4, <3>1, SkipIs DEF Skips
    <3>2. CASE run.state # "cancelling"
      <4> DEFINE S == {m \in SkippedNodes(rec) : ~Started(run, m)}
      <4>1. run'.state = run.state /\ Moved(run, run', S, "skipped")
        BY <1>0, <2>4, <3>2, SkipIs DEF Skips
      <4>2. n \notin S
        BY <2>2 DEF Started
      <4> HIDE DEF S
      <4>3. run'.att[n] = run.att[n]
        BY <4>1, <4>2 DEF Moved
      <4> QED BY <2>2, <4>1, <4>3
    <3> QED BY <3>1, <3>2
  <2>5. CASE Decides
    BY <2>2, <2>5 DEF Decides
  <2> QED BY <1>3, <1>4, <2>1, <2>3, <2>4, <2>5 DEF Background
<1>5. ASSUME NEW k \in Nodes, Dispatches(k) PROVE CallsOpen'
  <2>1. exec'[k].pc = "prep" /\ (\A m \in Nodes : m # k => exec'[m] = exec[m]) /\ run' = run
    BY <1>0, <1>5 DEF Dispatches, Idle
  <2> QED BY <2>1 DEF CallsOpen, Underway
<1>6. ASSUME NEW k \in Nodes, CallMoves(k) PROVE CallsOpen'
  <2>0. \A m \in Nodes : m # k => exec'[m] = exec[m]
    BY <1>6 DEF CallMoves
  \* The call that moves.
  <2>1. ASSUME exec'[k].pc \in Underway
        PROVE  /\ run'.state \in {"running", "cancelling"}
               /\ run'.att[k].st \in {"running", "cancelling"} /\ run'.att[k].res = "none"
    <3>1. CASE Intends(k)
      <4>1. run'.state = "running" /\ run'.att[k] = [NoAttempt EXCEPT !.st = "running"]
        BY <1>0, <3>1, RecordIntentIs DEF Intends
      <4> QED BY <4>1 DEF NoAttempt
    <3>2. CASE ~Intends(k)
      <4>1. run' = run /\ exec[k].pc \in Underway
        BY <1>6, <2>1, <3>2 DEF CallMoves, Underway
      <4> QED BY <1>3, <4>1
    <3> QED BY <3>1, <3>2
  \* Another one.
  <2>2. ASSUME NEW n \in Nodes, n # k, exec'[n].pc \in Underway
        PROVE  /\ run'.state \in {"running", "cancelling"}
               /\ run'.att[n].st \in {"running", "cancelling"} /\ run'.att[n].res = "none"
    <3>0. exec[n].pc \in Underway
      BY <2>0, <2>2
    <3>1. /\ run.state \in {"running", "cancelling"}
          /\ run.att[n].st \in {"running", "cancelling"} /\ run.att[n].res = "none"
      BY <3>0 DEF CallsOpen
    <3>2. CASE Intends(k)
      BY <1>0, <2>2, <3>1, <3>2, RecordIntentIs DEF Intends
    <3>3. CASE Reports(k)
      <4>1. PICK b \in Branches \union {None} : run' = RecordResult(run, k, exec[k].out, b)
        BY <3>3 DEF Reports
      <4>2. exec[k].out \in RESULTS
        BY <3>3 DEF Reports, Kinds
      <4>3. run'.att[n] = run.att[n]
        BY <1>0, <2>2, <4>1, <4>2, ReportIs
      <4>4. Started(run', n) /\ ~Settled(run', n)
        BY <3>1, <4>3 DEF Started, Settled, TERMINAL_ATTEMPTS, TERMINAL_RUN_STATES
      <4>5. run'.state = run.state
        BY <1>0, <4>1, <4>2, <4>4, ReportIs
      <4> QED BY <3>1, <4>3, <4>5
    <3>4. CASE Waits(k)
      <4>1. k \in Human /\ exec[k].pc # "none"
        BY <3>4 DEF Waits, Kinds
      <4> QED BY <2>2, <3>0, <4>1 DEF Alone, Underway
    <3> QED BY <1>3, <1>6, <3>0, <3>2, <3>3, <3>4 DEF CallMoves, Writes, Gives
  <2> QED BY <2>1, <2>2 DEF CallsOpen
<1> QED BY <1>4, <1>5, <1>6, NextIs

LEMMA OnceStep ==
    ASSUME OrderInv, Next
    PROVE  Once'
<1> USE DEF OrderInv
<1>0. run \in DriverRecords /\ exec \in [Nodes -> Call]
  BY DEF Types
<1>1. \A n \in Nodes : Started(run, n) => Started(run', n)
  BY Grows DEF GrowsTo
<1>2. CASE Background
  BY <1>1, <1>2, DriftIs DEF Once, Background, Drifts, Underway
<1>3. ASSUME NEW k \in Nodes, Dispatches(k) PROVE Once'
  <2>1. /\ exec'[k].pc = "prep" /\ \A m \in Nodes : m # k => exec'[m] = exec[m]
        /\ run' = run /\ calls' = calls
    BY <1>0, <1>3 DEF Dispatches, Idle
  <2> QED BY <2>1 DEF Once, Underway
<1>4. ASSUME NEW k \in Nodes, CallMoves(k) PROVE Once'
  <2>1. \A m \in Nodes : m # k => exec'[m] = exec[m] /\ calls'[m] = calls[m]
    BY <1>4 DEF CallMoves
  <2>2. /\ calls[k] \in {0, 1} /\ (calls[k] = 1 => Started(run, k))
        /\ exec[k].pc \in Underway => Started(run, k)
        /\ exec[k].pc \in {"check", "dispatch"} => calls[k] = 0
    BY DEF Once
  <2>3. /\ calls'[k] \in {0, 1} /\ (calls'[k] = 1 => Started(run', k))
        /\ exec'[k].pc \in Underway => Started(run', k)
        /\ exec'[k].pc \in {"check", "dispatch"} => calls'[k] = 0
    <3>1. CASE Intends(k)
      <4>1. ~Started(run, k)
        BY <3>1 DEF Intends, RecordIntentOk
      <4>2. run'.att[k] = [NoAttempt EXCEPT !.st = "running"]
        BY <1>0, <3>1, RecordIntentIs DEF Intends
      <4>3. Started(run', k)
        BY <4>2 DEF Started, NoAttempt
      <4>4. calls'[k] = calls[k]
        BY <1>4, <3>1 DEF CallMoves, Intends
      <4> QED BY <2>2, <4>1, <4>3, <4>4
    <3>2. CASE ~Intends(k)
      BY <1>1, <1>4, <2>2, <3>2 DEF CallMoves, Underway
    <3> QED BY <3>1, <3>2
  <2> QED BY <1>1, <2>1, <2>3 DEF Once
<1> QED BY <1>2, <1>3, <1>4, NextIs

\* The scheduler looks at the parents of a node only, and an answer it acts on
\* rests on terminal Attempts.
LEMMA SameParents ==
    ASSUME NEW a, NEW b, NEW n \in Nodes,
           \A e \in ControlIn(n) : b.att[e.from] = a.att[e.from],
           \A m \in DataIn(n) : b.att[m] = a.att[m]
    PROVE  /\ JoinReady(a, n) <=> JoinReady(b, n)
           /\ JoinPending(a, n) <=> JoinPending(b, n)
           /\ PlainReady(a, n) <=> PlainReady(b, n)
<1>1. \A e \in ControlIn(n) : /\ Unselected(a, e) <=> Unselected(b, e)
                              /\ Undecided(a, e) <=> Undecided(b, e)
                              /\ IsTerminalSuccess(a, e.from) <=> IsTerminalSuccess(b, e.from)
                              /\ IsTerminal(a, e.from) <=> IsTerminal(b, e.from)
  BY DEF Unselected, Undecided, Chooses, IsTerminalSuccess, IsTerminal
<1>2. \A e \in ControlIn(n) : (Favourable(a, e) <=> Favourable(b, e)) /\ (Pending(a, e) <=> Pending(b, e))
  BY <1>1 DEF Favourable, Pending
<1>3. SelectedControl(a, n) = SelectedControl(b, n) /\ SelectedData(a, n) = SelectedData(b, n)
  BY <1>1 DEF SelectedControl, SelectedData
<1>4. \A e \in SelectedControl(a, n) : e \in ControlIn(n)
  BY DEF SelectedControl
<1>5. \A m \in DataIn(n) : /\ IsTerminalSuccess(a, m) <=> IsTerminalSuccess(b, m)
                           /\ IsTerminal(a, m) <=> IsTerminal(b, m)
  BY DEF IsTerminalSuccess, IsTerminal
<1>6. \A m \in SelectedData(a, n) : m \in DataIn(n)
  BY DEF SelectedData
<1>7. JoinReady(a, n) <=> JoinReady(b, n)
  BY <1>2, <1>3, <1>4, <1>5, <1>6 DEF JoinReady
<1>8. JoinPending(a, n) <=> JoinPending(b, n)
  BY <1>2, <1>3, <1>4, <1>5, <1>6 DEF JoinPending
<1>9. PlainSkipped(a, n) <=> PlainSkipped(b, n)
  BY <1>1 DEF PlainSkipped
<1>10. PlainReady(a, n) <=> PlainReady(b, n)
  BY <1>2, <1>5, <1>9 DEF PlainReady
<1> QED BY <1>7, <1>8, <1>10

LEMMA JudgedParents ==
    ASSUME NEW r, NEW n \in Nodes, Grounded(r, n) \/ (n \in Join /\ Cut(r, n))
    PROVE  /\ \A e \in ControlIn(n) : IsTerminal(r, e.from)
           /\ \A m \in DataIn(n) : IsTerminal(r, m)
<1>1. \A m : r.att[m].st \in {"succeeded", "skipped"} => IsTerminal(r, m)
  BY DEF IsTerminal, TERMINAL_ATTEMPTS, TERMINAL_RUN_STATES
<1>2. \A e : (Unselected(r, e) \/ Favourable(r, e)) => IsTerminal(r, e.from)
  BY <1>1 DEF Unselected, Chooses, Favourable, IsTerminalSuccess
<1>3. CASE n \in Join /\ Grounded(r, n)
  BY <1>1, <1>2, <1>3 DEF Grounded, JoinReady, SelectedControl, SelectedData, IsTerminalSuccess
<1>4. CASE n \in Join /\ Cut(r, n)
  BY <1>1, <1>2, <1>4 DEF Cut, JoinPending, SelectedControl, SelectedData, Pending
<1>5. CASE n \notin Join /\ Grounded(r, n)
  BY <1>1, <1>2, <1>5 DEF Grounded, PlainReady, IsTerminalSuccess
<1> QED BY <1>3, <1>4, <1>5

LEMMA JudgedGrows ==
    ASSUME NEW a, NEW b, GrowsTo(a, b), NEW n \in Nodes
    PROVE  (Grounded(a, n) => Grounded(b, n)) /\ (Cut(a, n) => Cut(b, n))
<1>0. (\A e \in ControlIn(n) : e.from \in Nodes) /\ \A m \in DataIn(n) : m \in Nodes
  BY GraphAssumption DEF ControlIn, DataIn
<1>1. \A m \in Nodes : IsTerminal(a, m) => b.att[m] = a.att[m]
  BY DEF GrowsTo, IsTerminal
<1>2. CASE Grounded(a, n) \/ (n \in Join /\ Cut(a, n))
  <2>1. /\ \A e \in ControlIn(n) : b.att[e.from] = a.att[e.from]
        /\ \A m \in DataIn(n) : b.att[m] = a.att[m]
    BY <1>0, <1>1, <1>2, JudgedParents
  <2>2. /\ JoinReady(a, n) <=> JoinReady(b, n)
        /\ JoinPending(a, n) <=> JoinPending(b, n)
        /\ PlainReady(a, n) <=> PlainReady(b, n)
    BY <2>1, SameParents
  <2>3. PlainSkipped(a, n) <=> PlainSkipped(b, n)
    BY <2>1 DEF PlainSkipped, Unselected, Chooses, IsTerminalSuccess
  <2> QED BY <2>2, <2>3 DEF Grounded, Cut
<1>3. CASE n \notin Join /\ Cut(a, n)
  <2>1. PlainSkipped(a, n)
    BY <1>3 DEF Cut
  <2>2. \A m \in Nodes : a.att[m].st \in {"succeeded", "skipped"} => b.att[m] = a.att[m]
    BY <1>1 DEF IsTerminal, TERMINAL_ATTEMPTS, TERMINAL_RUN_STATES
  <2>3. \A e \in ControlIn(n) : Unselected(a, e) => Unselected(b, e)
    BY <1>0, <2>2 DEF Unselected, Chooses, IsTerminalSuccess
  <2>4. \A m \in DataIn(n) : a.att[m].st = "skipped" => b.att[m].st = "skipped"
    BY <1>0, <2>2
  <2>5. PlainSkipped(b, n)
    BY <2>1, <2>3, <2>4 DEF PlainSkipped
  <2>6. Grounded(a, n) => Grounded(b, n)
    BY <1>2
  <2> QED BY <1>3, <2>5, <2>6 DEF Cut
<1> QED BY <1>2, <1>3

\* What the steps write that was not there before.
LEMMA News ==
    ASSUME OrderInv, Next, NEW n \in Nodes
    PROVE  /\ HasIntent(run', n) => HasIntent(run, n) \/ (exec[n].pc = "intent" /\ exec'[n].pc \in {"check", "done"})
           /\ run'.att[n].st = "skipped" => run.att[n].st = "skipped" \/ (drv.pc = "act" /\ n \in SkippedNodes(rec))
           /\ IsTerminalSuccess(run', n) => run'.att[n] = run.att[n] \/ run'.att[n].branch \in Branches
                                            \/ n \notin Human \union Condition
<1> USE DEF OrderInv
<1>0. run \in DriverRecords /\ exec \in [Nodes -> Call] /\ run.att[n] \in Attempt
  BY RecordIs DEF Types
<1>1. CASE run'.att[n] = run.att[n]
  BY <1>1 DEF HasIntent
<1>2. ASSUME Quiet(run, run') PROVE HasIntent(run', n) => HasIntent(run, n)
  BY <1>0, <1>2 DEF Quiet, Unsettled, HasIntent
<1>3. ASSUME Quiet(run, run'), run'.att[n] # run.att[n] PROVE run'.att[n].st \in {"cancelling", "cancelled", "recovery_required"}
  BY <1>0, <1>3 DEF Quiet, Attempt
<1>4. CASE Settles \/ Cancels
  <2>1. Quiet(run, run')
    BY <1>0, <1>4, CancelIs DEF Settles, Cancels
  <2> QED BY <1>1, <1>2, <1>3, <2>1 DEF IsTerminalSuccess
<1>5. CASE Skips
  <2>1. CASE run.state = "cancelling"
    BY <1>0, <1>1, <1>5, <2>1, SkipIs DEF Skips
  <2>2. CASE run.state # "cancelling"
    <3> DEFINE S == {m \in SkippedNodes(rec) : ~Started(run, m)}
    <3>1. Moved(run, run', S, "skipped")
      BY <1>0, <1>5, <2>2, SkipIs DEF Skips
    <3>2. n \in S => n \in SkippedNodes(rec)
      OBVIOUS
    <3> HIDE DEF S
    <3>3. CASE n \notin S
      BY <1>1, <3>1, <3>3 DEF Moved
    <3>4. CASE n \in S
      <4>1. run'.att[n].st = "skipped"
        BY <1>0, <3>1, <3>4 DEF Moved, Attempt
      <4> QED BY <1>5, <3>2, <3>4, <4>1 DEF HasIntent, IsTerminalSuccess, Skips
    <3> QED BY <3>3, <3>4
  <2> QED BY <2>1, <2>2
<1>6. CASE Decides
  <2>1. PICK k \in Waiting(run), d \in Decisions, approve \in BOOLEAN, b \in Branches :
          run' = Decide(run, k, d, approve, b)
    BY <1>6 DEF Decides
  <2>2. k \in Nodes /\ HasIntent(run, k)
    BY NodesAssumption DEF Waiting, HasIntent
  <2>3. \A m \in Nodes : run'.att[m] =
          IF m = k THEN [st |-> IF approve THEN "succeeded" ELSE "cancelled",
                         res |-> IF approve THEN "ok" ELSE "cancelled", branch |-> b, decision |-> d]
          ELSE run.att[m]
    BY <1>0, <2>1, <2>2, DecideIs
  <2>4. CASE n # k
    BY <1>1, <2>3, <2>4
  <2>5. CASE n = k
    <3>1. run'.att[n].st \in {"succeeded", "cancelled"} /\ run'.att[n].branch = b
      BY <2>3, <2>5
    <3> QED BY <2>2, <2>5, <3>1
  <2> QED BY <2>4, <2>5
<1>7. ASSUME NEW k \in Nodes, CallMoves(k)
      PROVE  /\ HasIntent(run', n) => HasIntent(run, n) \/ (exec[n].pc = "intent" /\ exec'[n].pc \in {"check", "done"})
             /\ run'.att[n].st = "skipped" => run.att[n].st = "skipped" \/ (drv.pc = "act" /\ n \in SkippedNodes(rec))
             /\ IsTerminalSuccess(run', n) => run'.att[n] = run.att[n] \/ run'.att[n].branch \in Branches
                                              \/ n \notin Human \union Condition
  <2>1. CASE Intends(k)
    <3>1. /\ n # k => run'.att[n] = run.att[n]
          /\ n = k => run'.att[n] = [NoAttempt EXCEPT !.st = "running"]
      BY <1>0, <2>1, RecordIntentIs DEF Intends
    <3>2. n = k => run'.att[n].st = "running"
      BY <3>1 DEF NoAttempt
    <3> QED BY <1>1, <2>1, <3>1, <3>2 DEF Intends, IsTerminalSuccess
  <2>2. CASE Reports(k)
    <3>1. PICK b \in Branches \union {None} :
            /\ run' = RecordResult(run, k, exec[k].out, b)
            /\ k \in Condition /\ exec[k].out = "ok" => b \in Branches
      BY <2>2 DEF Reports
    <3>2. exec[k].out \in RESULTS /\ (exec[k].out = "ok" => k \notin Human) /\ RecordResultOk(run, k)
      BY <2>2 DEF Reports, Kinds
    <3>3. /\ run'.att[k].st = ResultState(run, exec[k].out) /\ run'.att[k].branch = b
          /\ n # k => run'.att[n] = run.att[n]
      BY <1>0, <3>1, <3>2, ReportIs
    <3>4. HasIntent(run, k)
      BY <3>2 DEF RecordResultOk, Started, Settled, HasIntent, TERMINAL_ATTEMPTS
    <3>5. run'.att[k].st # "skipped" /\ (run'.att[k].st = "succeeded" => exec[k].out = "ok")
      BY <3>3 DEF ResultState
    <3>6. CASE n = k
      BY <3>1, <3>2, <3>3, <3>4, <3>5, <3>6 DEF IsTerminalSuccess
    <3> QED BY <1>1, <3>3, <3>6
  <2>3. CASE Waits(k)
    <3>1. CASE run.state = "cancelling"
      BY <1>0, <1>1, <2>3, <3>1, WaitInputIs DEF Waits
    <3>2. CASE run.state # "cancelling"
      <4>1. Moved(run, run', {k}, "waiting_input")
        BY <1>0, <2>3, <3>2, WaitInputIs DEF Waits
      <4>2. run.att[k].st \in {"running", "cancelling"}
        BY <2>3 DEF Waits, CallsOpen, Underway
      <4>3. CASE n = k
        <5>1. run'.att[n].st = "waiting_input"
          BY <1>0, <4>1, <4>3 DEF Moved, Attempt
        <5> QED BY <4>2, <4>3, <5>1 DEF HasIntent, IsTerminalSuccess
      <4>4. CASE n # k
        BY <1>1, <4>1, <4>4 DEF Moved
      <4> QED BY <4>3, <4>4
    <3> QED BY <3>1, <3>2
  <2>4. CASE Gives(k)
    BY <1>4, <2>4 DEF Gives
  <2> QED BY <1>1, <1>7, <2>1, <2>2, <2>3, <2>4 DEF CallMoves, Writes
<1>8. CASE Background
  BY <1>1, <1>4, <1>5, <1>6, <1>8 DEF Background
<1>9. ASSUME NEW k \in Nodes, Dispatches(k) PROVE run'.att[n] = run.att[n]
  BY <1>9 DEF Dispatches
<1> QED BY <1>1, <1>7, <1>8, <1>9, NextIs

LEMMA GrowsOn ==
    ASSUME NEW a, NEW b, NEW c, GrowsTo(a, b), GrowsTo(b, c)
    PROVE  GrowsTo(a, c)
BY DEF GrowsTo

LEMMA JustifiedStep ==
    ASSUME OrderInv, Next
    PROVE  Justified'
<1> USE DEF OrderInv
<1>0. exec \in [Nodes -> Call] /\ GrowsTo(run, run')
  BY Grows DEF Types
<1>1. drv.pc = "act" => GrowsTo(rec, run')
  BY <1>0, GrowsOn DEF Stale
<1> SUFFICES ASSUME NEW n \in Nodes
             PROVE  /\ exec'[n].pc \in {"prep", "intent"} \/ HasIntent(run', n) => Grounded(run', n)
                    /\ run'.att[n].st = "skipped" => Cut(run', n)
  BY DEF Justified
<1>2. (Grounded(run, n) => Grounded(run', n)) /\ (Cut(run, n) => Cut(run', n))
  BY <1>0, JudgedGrows
<1>3. n \in ReadyNodes(rec) /\ drv.pc = "act" => Grounded(run', n)
  BY <1>1, JudgedGrows DEF ReadyNodes, Grounded
<1>4. n \in SkippedNodes(rec) /\ drv.pc = "act" => Cut(run', n)
  BY <1>1, JudgedGrows DEF SkippedNodes, Cut
<1>5. run'.att[n].st = "skipped" => Cut(run', n)
  BY <1>2, <1>4, News DEF Justified
<1>6. HasIntent(run', n) => Grounded(run', n)
  BY <1>2, News DEF Justified
<1>7. exec'[n].pc \in {"prep", "intent"} => Grounded(run', n)
  <2>1. CASE exec[n].pc \in {"prep", "intent"}
    BY <1>2, <2>1 DEF Justified
  <2>2. CASE Background
    BY <2>1, <2>2, DriftIs DEF Background
  <2>3. ASSUME NEW k \in Nodes, Dispatches(k) PROVE exec'[n].pc \in {"prep", "intent"} => Grounded(run', n)
    <3>1. \A m \in Nodes : m # k => exec'[m] = exec[m]
      BY <1>0, <2>3 DEF Dispatches
    <3> QED BY <1>3, <2>1, <2>3, <3>1 DEF Dispatches
  <2>4. ASSUME NEW k \in Nodes, CallMoves(k) PROVE exec'[n].pc \in {"prep", "intent"} => Grounded(run', n)
    <3>1. CASE n # k
      BY <2>1, <2>4, <3>1 DEF CallMoves
    <3>2. CASE n = k
      BY <2>1, <2>4, <3>2 DEF CallMoves
    <3> QED BY <3>1, <3>2
  <2> QED BY <2>2, <2>3, <2>4, NextIs
<1> QED BY <1>5, <1>6, <1>7

\* The head of the loop alone reads the record.
LEMMA Reads ==
    ASSUME OrderInv, Next, drv'.pc = "act"
    PROVE  Top \/ (drv.pc = "act" /\ UNCHANGED <<drv, rec>>)
<1> USE DEF OrderInv
<1>0. drv \in Job /\ Off.pc # "act" /\ [Off EXCEPT !.pc = "start"].pc # "act" /\ [Off EXCEPT !.pc = "off"].pc # "act"
  BY DEF Types, Off
<1>1. ASSUME NEW pc, pc # "act", Leave(pc) PROVE FALSE
  BY <1>0, <1>1 DEF Leave, Job
<1>2. CASE UNCHANGED <<drv, rec>>
  BY <1>2
<1>3. CASE JobStep /\ ~Top
  <2>1. ~Start /\ ~ActAbort /\ ~ActFatal
    BY <1>1 DEF Start, ActAbort, ActFatal
  <2>2. ~ActSettle /\ ~ActSkip /\ ~ActComplete
    BY <1>1 DEF ActSettle, ActSkip, ActComplete, JobWrite
  <2>3. ~ActWaiting /\ ~ActDispatch /\ ~ActRace /\ ~Race
    BY <1>1 DEF ActWaiting, ActDispatch, ActRace, Race
  <2>4. ~Finally /\ ~Catch
    BY <1>1 DEF Finally, Catch
  <2>5. ~End
    BY <1>0 DEF End
  <2>6. CASE FinallyAbort
    BY <1>2, <2>6 DEF FinallyAbort
  <2> QED BY <1>3, <2>1, <2>2, <2>3, <2>4, <2>5, <2>6 DEF JobStep
<1>4. CASE Schedule /\ rec' = rec
  BY <1>0, <1>4 DEF Schedule
<1>5. CASE Capture \/ CancelFollows \/ DecideFollows
  BY <1>2, <1>4, <1>5 DEF Capture, CancelFollows, DecideFollows, RequestFrame
<1>6. CASE Exit \/ Restart
  BY <1>0, <1>6 DEF Exit, Restart
<1>7. CASE CaptureFails \/ Cancel \/ DecideRun \/ Close \/ CloseAborts \/ CloseDone
  BY <1>2, <1>7 DEF CaptureFails, Cancel, DecideRun, Close, CloseAborts, CloseDone, RequestFrame, CloseFrame
<1>8. ASSUME NEW n \in Nodes, CallStep(n) \/ EffectEnds(n) PROVE UNCHANGED <<drv, rec>>
  BY <1>8 DEF CallStep, EffectEnds, Prepare, PrepareDamaged, PrepareStopped, Intent, Check, Dispatch, DispatchFails,
       Result, Wait, Waited, CallFrame
<1> QED BY <1>2, <1>3, <1>5, <1>6, <1>7, <1>8 DEF Next

LEMMA StaleStep ==
    ASSUME OrderInv, Next
    PROVE  Stale'
<1> SUFFICES ASSUME drv'.pc = "act" PROVE GrowsTo(rec', run')
  BY DEF Stale
<1>1. GrowsTo(run, run')
  BY Grows
<1>2. CASE Top
  BY <1>1, <1>2 DEF Top
<1>3. CASE drv.pc = "act" /\ UNCHANGED <<drv, rec>>
  BY <1>1, <1>3, GrowsOn DEF OrderInv, Stale
<1> QED BY <1>2, <1>3, Reads

\* Only a job that read a complete record lets a Run succeed.
LEMMA Succeeds ==
    ASSUME OrderInv, Next, run'.state = "succeeded"
    PROVE  run.state = "succeeded" \/ (drv.pc = "act" /\ Complete(rec))
<1> USE DEF OrderInv
<1>0. run \in DriverRecords /\ exec \in [Nodes -> Call]
  BY DEF Types
<1>1. CASE Cancels
  BY <1>0, <1>1, RequestCancelIs DEF Cancels
<1>2. CASE Background
  <2>1. CASE Settles
    BY <2>1 DEF Settles
  <2>2. CASE Skips
    BY <1>0, <2>2, SkipIs DEF Skips
  <2>3. CASE Decides
    <3>1. PICK n \in Waiting(run), d \in Decisions, approve \in BOOLEAN, b \in Branches :
            run' = Decide(run, n, d, approve, b)
      BY <2>3 DEF Decides
    <3>2. n \in Nodes
      BY NodesAssumption DEF Waiting
    <3>3. run'.state \in {"running", "cancelled"}
      BY <1>0, <3>1, <3>2, DecideIs
    <3> QED BY <3>3
  <2> QED BY <1>1, <1>2, <2>1, <2>2, <2>3 DEF Background
<1>3. ASSUME NEW n \in Nodes, CallMoves(n) PROVE run.state = "succeeded"
  <2>1. CASE Intends(n)
    BY <1>0, <2>1, RecordIntentIs DEF Intends
  <2>2. CASE Reports(n)
    <3>1. PICK b \in Branches \union {None} : run' = RecordResult(run, n, exec[n].out, b)
      BY <2>2 DEF Reports
    <3>2. exec[n].out \in RESULTS
      BY <2>2 DEF Reports, Kinds
    <3> QED BY <1>0, <3>1, <3>2, ReportIs
  <2>3. CASE Waits(n)
    BY <1>0, <2>3, WaitInputIs DEF Waits
  <2>4. CASE Gives(n)
    BY <1>0, <1>1, <2>4, RequestCancelIs DEF Gives, Cancels
  <2> QED BY <1>3, <2>1, <2>2, <2>3, <2>4 DEF CallMoves, Writes
<1>4. ASSUME NEW n \in Nodes, Dispatches(n) PROVE run.state = "succeeded"
  BY <1>4 DEF Dispatches
<1> QED BY <1>2, <1>3, <1>4, NextIs

LEMMA DoneStep ==
    ASSUME OrderInv, Next
    PROVE  Done' /\ Branched'
<1> USE DEF OrderInv
<1>0. GrowsTo(run, run') /\ (drv.pc = "act" => GrowsTo(rec, run'))
  BY Grows, GrowsOn DEF Stale
<1>1. ASSUME NEW r, Complete(r), GrowsTo(r, run') PROVE Complete(run')
  <2>1. \A n \in Nodes : r.att[n].st \in TERMINAL_ATTEMPTS
    BY <1>1 DEF Complete, TERMINAL_ATTEMPTS, TERMINAL_RUN_STATES
  <2> QED BY <1>1, <2>1 DEF Complete, GrowsTo
<1>2. Done'
  BY <1>0, <1>1, Succeeds DEF Done
<1>3. Branched'
  <2> SUFFICES ASSUME NEW n \in Human \union Condition, IsTerminalSuccess(run', n)
               PROVE  run'.att[n].branch # None
    BY DEF Branched
  <2>1. n \in Nodes
    BY NodesAssumption, GraphAssumption
  <2>2. CASE run'.att[n] = run.att[n]
    BY <2>2 DEF Branched, IsTerminalSuccess
  <2>3. CASE run'.att[n].branch \in Branches
    BY <2>3, NodesAssumption
  <2> QED BY <2>1, <2>2, <2>3, News
<1> QED BY <1>2, <1>3

\* The life of the job and of the process.
LEMMA NoLateCalls ==
    ASSUME OrderInv, Background, Active = {}
    PROVE  Active' = {}
BY DriftIs DEF Background, Active

LEMMA LifeStep ==
    ASSUME OrderInv, Next
    PROVE  Life'
<1> USE DEF OrderInv
<1>0. /\ run \in DriverRecords /\ exec \in [Nodes -> Call] /\ drv \in Job
      /\ Off.pc = "off" /\ [Off EXCEPT !.pc = "start"].pc = "start" /\ [Off EXCEPT !.pc = "off"].pc = "off"
  BY DEF Types, Off
<1>1. ASSUME NEW pc, Leave(pc) PROVE drv'.pc = pc
  BY <1>0, <1>1 DEF Leave, Job
<1>2. CASE JobStep
  <2>1. up /\ drv.pc # "off"
    BY <1>2 DEF JobStep, Start, Top, ActAbort, ActSettle, ActFatal, ActWaiting, ActSkip, ActDispatch, ActRace,
         ActComplete, Race, FinallyAbort, Finally, Catch, End, Plain, Driving, Acting
  <2>2. admitted /\ close # "closed"
    BY <2>1 DEF Life
  <2>3. up' = up /\ admitted' = admitted /\ close' = close
    <3>1. CASE Catch
      BY <3>1 DEF Catch
    <3>2. CASE End
      BY <3>2 DEF End, host
    <3>3. CASE UNCHANGED host
      BY <3>3 DEF host
    <3> QED BY <1>2, <3>1, <3>2, <3>3
          DEF JobStep, Start, Top, ActAbort, ActSettle, ActFatal, ActWaiting, ActSkip, ActDispatch, ActRace,
              ActComplete, Race, FinallyAbort, Finally, JobFrame
  <2>4. drv'.pc \in {"off", "start", "catch", "end"} => Active' = {}
    <3>1. CASE Start \/ Catch \/ End
      <4>1. Active = {}
        BY <3>1 DEF Start, Catch, End, Life
      <4>2. exec' = exec
        BY <3>1 DEF Start, Catch, End
      <4> QED BY <4>1, <4>2 DEF Active
    <3>2. CASE Finally
      <4>1. exec' = [n \in Nodes |-> Idle]
        BY <3>2 DEF Finally
      <4> QED BY <4>1 DEF Active, Idle
    <3>3. CASE Top
      BY <3>3 DEF Top
    <3>4. CASE FinallyAbort
      BY <3>4 DEF FinallyAbort
    <3>5. CASE ActAbort \/ ActFatal \/ ActWaiting \/ ActDispatch \/ ActRace \/ Race
      BY <1>1, <3>5 DEF ActAbort, ActFatal, ActWaiting, ActDispatch, ActRace, Race
    <3>6. CASE ActSettle \/ ActSkip \/ ActComplete
      <4>1. Leave("finally") \/ Leave("top") \/ Leave("throw")
        BY <3>6 DEF ActSettle, ActSkip, ActComplete, JobWrite
      <4> QED BY <1>1, <4>1
    <3> QED BY <1>2, <3>1, <3>2, <3>3, <3>4, <3>5, <3>6 DEF JobStep
  <2> QED BY <2>1, <2>2, <2>3, <2>4 DEF Life
<1>3. ASSUME NEW n \in Nodes, CallStep(n) \/ EffectEnds(n) PROVE Life'
  <2>1. exec[n].pc # "none" /\ up /\ UNCHANGED <<host, drv, asked>>
    BY <1>3 DEF CallStep, EffectEnds, Prepare, PrepareDamaged, PrepareStopped, Intent, Check, Dispatch, DispatchFails,
         Result, Wait, Waited, CallFrame, At
  <2>2. Active # {}
    BY <2>1 DEF Active
  <2>3. drv.pc \notin {"off", "start", "catch", "end"}
    BY <2>2 DEF Life
  <2>4. admitted /\ close # "closed"
    BY <2>3 DEF Life
  <2> QED BY <2>1, <2>3, <2>4 DEF Life, host
<1>4. CASE OtherStep
  <2>0. Active = {} => Active' = {}
    BY <1>4, NoLateCalls, OtherIsBackground
  <2>1. CASE Capture
    BY <1>0, <2>0, <2>1 DEF Capture, Schedule, Life
  <2>2. CASE CaptureFails
    BY <1>0, <2>0, <2>2 DEF CaptureFails, Life
  <2>3. CASE Cancel
    <3>1. up /\ UNCHANGED <<host, drv>> /\ asked'.decide = asked.decide
      BY <2>3 DEF Cancel, RequestFrame, Types
    <3>2. ASSUME ~admitted PROVE run'.admission = "pending" /\ asked'.cancel # "cancelling"
      <4>1. run.admission = "pending" /\ asked.cancel # "cancelling" /\ drv.pc = "off"
        BY <3>2 DEF Life
      <4>2. run.state # "cancelling" /\ \A n \in Nodes : run.att[n] = NoAttempt
        BY <4>1 DEF Unadmitted, SETTLED, TERMINAL_RUN_STATES
      <4>3. ~ActiveAttempt(run)
        BY <4>2 DEF ActiveAttempt, Unsettled, HasIntent, NoAttempt
      <4>4. RequestCancel(run).state = "cancelled" /\ RequestCancel(run).admission = run.admission
        BY <1>0, <4>3, RequestCancelIs
      <4> DEFINE next == IF RequestCancelOk(run) THEN RequestCancel(run) ELSE run
      <4>5. next.state # "cancelling" /\ next.admission = "pending"
        BY <4>1, <4>2, <4>4
      <4>6. /\ run' \in {run, next}
            /\ asked' = asked \/ asked' = [asked EXCEPT !.cancel = IF next.state = "cancelling" THEN "cancelling" ELSE "cancelled"]
        BY <2>3 DEF Cancel, Fault
      <4>7. asked \in [cancel: {"none", "cancelled", "cancelling"}, decide: BOOLEAN]
        BY DEF Types
      <4> HIDE DEF next
      <4> QED BY <4>1, <4>5, <4>6, <4>7
    <3> QED BY <2>0, <3>1, <3>2 DEF Life, host
  <2>4. CASE CancelFollows
    <3>1. UNCHANGED <<host, run>> /\ up /\ asked'.cancel = "none" /\ asked'.decide = asked.decide /\ asked.cancel # "none"
      BY <2>4 DEF CancelFollows, RequestFrame, Types
    <3>2. CASE drv' = drv
      BY <2>0, <3>1, <3>2 DEF Life, host
    <3>3. CASE drv' # drv
      <4>1. asked.cancel = "cancelling" /\ Schedule
        BY <2>4, <3>3 DEF CancelFollows
      <4>2. drv'.pc = "start" /\ drv.pc = "off" /\ ~Closing
        BY <1>0, <3>3, <4>1 DEF Schedule, HasJob
      <4> QED BY <2>0, <3>1, <4>1, <4>2 DEF Life, host, Closing
    <3> QED BY <3>2, <3>3
  <2>5. CASE DecideRun
    <3>1. up /\ UNCHANGED <<host, drv>>
      BY <2>5 DEF DecideRun, RequestFrame
    <3>2. run.state = "waiting_input"
      BY <2>5 DEF DecideRun, DecideOk
    <3>3. admitted
      BY <3>2 DEF Life, Unadmitted, SETTLED, TERMINAL_RUN_STATES
    <3> QED BY <2>0, <3>1, <3>3 DEF Life, host
  <2>6. CASE DecideFollows
    <3>1. UNCHANGED <<host, run>> /\ up /\ asked.decide /\ Schedule
      BY <2>6 DEF DecideFollows, RequestFrame
    <3>2. admitted
      BY <3>1 DEF Life
    <3>3. CASE drv' = drv
      BY <2>0, <3>1, <3>2, <3>3 DEF Life, host
    <3>4. CASE drv' # drv
      <4>1. drv'.pc = "start" /\ drv.pc = "off" /\ ~Closing
        BY <1>0, <3>1, <3>4 DEF Schedule, HasJob
      <4> QED BY <2>0, <3>1, <3>2, <4>1 DEF Life, host, Closing
    <3> QED BY <3>3, <3>4
  <2>7. CASE Close \/ CloseAborts \/ CloseDone
    <3>1. UNCHANGED <<run, up, admitted, drv, asked>> /\ up
      BY <2>7 DEF Close, CloseAborts, CloseDone, CloseFrame
    <3>2. close' = "closed" => admitted /\ drv.pc = "off"
      BY <2>7 DEF Close, CloseAborts, CloseDone, HasJob
    <3> QED BY <2>0, <3>1, <3>2 DEF Life
  <2>8. CASE Exit
    <3>1. ~up' /\ admitted' /\ close' = "open" /\ drv' = Off /\ exec' = [n \in Nodes |-> Idle]
      BY <2>8 DEF Exit
    <3>2. Active' = {}
      BY <3>1 DEF Active, Idle
    <3> QED BY <1>0, <3>1, <3>2 DEF Life
  <2>9. CASE Restart
    <3>1. ~up /\ up' /\ UNCHANGED <<admitted, close, exec>> /\ drv'.pc \in {"off", "start"}
      BY <1>0, <2>9 DEF Restart
    <3> QED BY <1>0, <2>0, <3>1 DEF Life
  <2> QED BY <1>4, <2>1, <2>2, <2>3, <2>4, <2>5, <2>6, <2>7, <2>8, <2>9 DEF OtherStep
<1> QED BY <1>2, <1>3, <1>4 DEF Next, OtherStep

LEMMA UnadmittedStep ==
    ASSUME OrderInv, Next
    PROVE  Unadmitted'
<1> USE DEF OrderInv
<1>0. /\ run \in DriverRecords /\ exec \in [Nodes -> Call] /\ drv \in Job
      /\ Off.pc = "off" /\ [Off EXCEPT !.pc = "start"].pc = "start" /\ [Off EXCEPT !.pc = "off"].pc = "off"
  BY DEF Types, Off
<1> SUFFICES ASSUME run'.admission = "pending"
             PROVE  /\ \A n \in Nodes : run'.att[n] = NoAttempt
                    /\ drv'.pc \in {"off", "start", "end"} /\ run'.state \in {"queued"} \union SETTLED
  BY DEF Unadmitted
<1>1. run.admission = "pending"
  <2>1. CASE Background
    <3>1. CASE Settles
      BY <3>1 DEF Settles
    <3>2. CASE Cancels
      BY <1>0, <3>2, RequestCancelIs DEF Cancels
    <3>3. CASE Skips
      BY <1>0, <3>3, SkipIs DEF Skips
    <3>4. CASE Decides
      <4>1. PICK n \in Waiting(run), d \in Decisions, approve \in BOOLEAN, b \in Branches :
              run' = Decide(run, n, d, approve, b)
        BY <3>4 DEF Decides
      <4>2. n \in Nodes
        BY NodesAssumption DEF Waiting
      <4>3. Decide(run, n, d, approve, b).admission = run.admission
        BY <1>0 DEF Decide, DriverRecords
      <4> QED BY <4>1, <4>3
    <3> QED BY <2>1, <3>1, <3>2, <3>3, <3>4 DEF Background
  <2>2. ASSUME NEW n \in Nodes, CallMoves(n) PROVE run.admission = "pending"
    <3>1. CASE Intends(n)
      BY <1>0, <3>1, RecordIntentIs DEF Intends
    <3>2. CASE Reports(n)
      <4>1. PICK b \in Branches \union {None} : run' = RecordResult(run, n, exec[n].out, b)
        BY <3>2 DEF Reports
      <4>2. exec[n].out \in RESULTS
        BY <3>2 DEF Reports, Kinds
      <4> QED BY <1>0, <4>1, <4>2, ReportIs
    <3>3. CASE Waits(n)
      BY <1>0, <3>3, WaitInputIs DEF Waits
    <3>4. CASE Gives(n)
      BY <1>0, <3>4, RequestCancelIs DEF Gives, Cancels
    <3> QED BY <2>2, <3>1, <3>2, <3>3, <3>4 DEF CallMoves, Writes
  <2>3. ASSUME NEW n \in Nodes, Dispatches(n) PROVE run.admission = "pending"
    BY <2>3 DEF Dispatches
  <2> QED BY <2>1, <2>2, <2>3, NextIs
<1>2. /\ \A n \in Nodes : run.att[n] = NoAttempt
      /\ drv.pc \in {"off", "start", "end"} /\ run.state \in {"queued"} \union SETTLED
  BY <1>1 DEF Unadmitted
<1>3. Unsettled(run) = {} /\ ~ActiveAttempt(run)
  BY <1>2 DEF ActiveAttempt, Unsettled, HasIntent, NoAttempt
<1>4. ASSUME Quiet(run, run') PROVE \A n \in Nodes : run'.att[n] = NoAttempt
  BY <1>2, <1>3, <1>4 DEF Quiet
<1>5. ASSUME NEW t \in SETTLED, run' = Written(run, SettleTerminal(run, t))
      PROVE  (\A n \in Nodes : run'.att[n] = NoAttempt) /\ run'.state \in {"queued"} \union SETTLED
  <2>1. Quiet(run, run')
    BY <1>0, <1>5, SettledIs
  <2>2. run'.state \in {run.state, t, "cancelled"}
    BY <1>0, <1>5, SettleTerminalIs DEF Written
  <2>3. "cancelled" \in SETTLED
    BY DEF SETTLED, TERMINAL_RUN_STATES
  <2> QED BY <1>2, <1>4, <2>1, <2>2, <2>3
<1>6. "failed" \in SETTLED /\ "recovery_required" \in SETTLED /\ "cancelled" \in SETTLED
  BY DEF SETTLED, TERMINAL_RUN_STATES
<1>7. CASE JobStep
  <2>1. Start \/ End
    BY <1>2, <1>7 DEF JobStep, Top, ActAbort, ActSettle, ActFatal, ActWaiting, ActSkip, ActDispatch, ActRace,
         ActComplete, Race, FinallyAbort, Finally, Catch, Plain, Driving, Acting
  <2>2. CASE Start
    <3>1. run' = Written(run, SettleTerminal(run, "recovery_required")) /\ Leave("end")
      BY <1>1, <2>2 DEF Start
    <3>2. drv'.pc = "end"
      BY <1>0, <3>1 DEF Leave, Job
    <3> QED BY <1>5, <1>6, <3>1, <3>2
  <2>3. CASE End
    BY <1>0, <1>2, <2>3 DEF End
  <2> QED BY <2>1, <2>2, <2>3
<1>8. ASSUME NEW n \in Nodes, CallStep(n) \/ EffectEnds(n) PROVE FALSE
  <2>1. exec[n].pc # "none"
    BY <1>8 DEF CallStep, EffectEnds, Prepare, PrepareDamaged, PrepareStopped, Intent, Check, Dispatch, DispatchFails,
         Result, Wait, Waited, At
  <2> QED BY <1>2, <2>1 DEF Life, Active
<1>9. CASE Capture
  BY <1>0, <1>9, CaptureIs DEF Capture
<1>10. CASE CaptureFails
  BY <1>2, <1>5, <1>6, <1>10 DEF CaptureFails
<1>11. CASE Cancel
  <2>1. drv' = drv /\ (run' = run \/ run' = RequestCancel(run))
    BY <1>11 DEF Cancel, Fault
  <2>2. Quiet(run, RequestCancel(run)) /\ RequestCancel(run).state = "cancelled"
    BY <1>0, <1>3, CancelIs, RequestCancelIs
  <2> QED BY <1>2, <1>4, <1>6, <2>1, <2>2
<1>12. CASE CancelFollows \/ DecideFollows
  <2>1. run' = run /\ (drv' = drv \/ Schedule)
    BY <1>12 DEF CancelFollows, DecideFollows
  <2>2. drv'.pc \in {"off", "start", "end"}
    BY <1>0, <1>2, <2>1 DEF Schedule
  <2> QED BY <1>2, <2>1, <2>2
<1>13. CASE DecideRun
  BY <1>2, <1>13 DEF DecideRun, DecideOk, SETTLED, TERMINAL_RUN_STATES
<1>14. CASE Close \/ CloseAborts \/ CloseDone
  BY <1>2, <1>14 DEF Close, CloseAborts, CloseDone, CloseFrame
<1>15. CASE Exit
  BY <1>0, <1>2, <1>15 DEF Exit
<1>16. CASE Restart
  <2>1. run' = ReconcileOnStart(run) /\ drv'.pc \in {"off", "start"}
    BY <1>0, <1>16 DEF Restart
  <2>2. Quiet(run, run')
    BY <1>0, <2>1, ReconcileQuiet
  <2>3. run'.state \in {run.state, "recovery_required"}
    BY <1>0, <2>1, ReconcileIs
  <2> QED BY <1>2, <1>4, <1>6, <2>1, <2>2, <2>3
<1> QED BY <1>7, <1>8, <1>9, <1>10, <1>11, <1>12, <1>13, <1>14, <1>15, <1>16 DEF Next

LEMMA OrderStep == OrderInv /\ [Next]_vars => OrderInv'
<1> SUFFICES ASSUME OrderInv, [Next]_vars PROVE OrderInv'
  OBVIOUS
<1>1. CASE Next
  BY <1>1, TypesStep, LifeStep, UnadmittedStep, KindsStep, CallsOpenStep, OnceStep, JustifiedStep, StaleStep, DoneStep
     DEF OrderInv
<1>2. CASE UNCHANGED vars
  <2>1. UNCHANGED <<run, up, admitted, drv, rec, exec, effect, calls, rerun, asked, close, hung, exits, faults>>
    BY <1>2 DEF vars, host, ghost
  <2>2. Types' /\ Life' /\ Unadmitted' /\ Kinds' /\ Alone'
    BY <2>1 DEF OrderInv, Types, Life, Unadmitted, Active, Kinds, Alone
  <2>3. CallsOpen' /\ Once' /\ Justified' /\ Stale' /\ Branched' /\ Done'
    BY <2>1 DEF OrderInv, CallsOpen, Once, Justified, Stale, Branched, Done
  <2> QED BY <2>2, <2>3 DEF OrderInv
<1> QED BY <1>1, <1>2

LEMMA OrderKept == Spec => []OrderInv
BY InitOrder, OrderStep, PTL DEF Spec
-----------------------------------------------------------------------------
(* What the driver promises. *)

\* The states of the record, of the job and of every call are those the code knows.
THEOREM DriverTypes == Spec => []TypeOK
<1>1. OrderInv => TypeOK
  <2> SUFFICES ASSUME OrderInv PROVE TypeOK
    OBVIOUS
  <2>1. Types
    BY DEF OrderInv
  <2>2. rec = NoRecord <=> drv.pc # "act"
    <3>1. ASSUME NEW r \in DriverRecords PROVE r # NoRecord
      <4>1. r.state # "none"
        BY RecordIs, States DEF SETTLED, TERMINAL_RUN_STATES
      <4>2. NoRecord.state = "none"
        BY DEF NoRecord
      <4> QED BY <4>1, <4>2
    <3> QED BY <2>1, <3>1 DEF Types
  <2> QED BY <2>1, <2>2 DEF Types, TypeOK, DriverRecords, Job, Call
<1> QED BY <1>1, OrderKept, PTL

\* Whatever crashes, restarts, failing writes, cancellations and reruns happen,
\* the external effect of a node is started at most once (driveRun dispatches a
\* node once per job, recordIntent refuses a second Attempt, and a restart
\* drives no node that has one).
THEOREM EffectsHappenOnce == Spec => []AtMostOnce
<1>1. OrderInv => AtMostOnce
  BY DEF OrderInv, Once, AtMostOnce
<1> QED BY <1>1, OrderKept, PTL

\* Nothing runs before its inputs, although driveRun chooses the nodes from a
\* record it read before an await (readyNodes).
THEOREM InputsComeFirst == Spec => []InputsFirst
<1>1. OrderInv => InputsFirst
  <2> SUFFICES ASSUME OrderInv, NEW n \in Nodes, NEW m \in Nodes, HasIntent(run, n),
                      <<m, n>> \in Data \/ \E e \in ControlIn(n) : e.from = m
               PROVE  IsTerminalSuccess(run, m) \/ (n \in Join /\ IsTerminal(run, m))
    BY DEF InputsFirst
  <2>1. Grounded(run, n)
    BY DEF OrderInv, Justified
  <2>2. m \in DataIn(n) \/ \E e \in ControlIn(n) : e.from = m
    BY DEF DataIn
  <2>3. CASE n \in Join
    BY <2>1, <2>2, <2>3, JudgedParents
  <2>4. CASE n \notin Join
    BY <2>1, <2>2, <2>4 DEF Grounded, PlainReady, Favourable
  <2> QED BY <2>3, <2>4
<1> QED BY <1>1, OrderKept, PTL

\* A Run that succeeded ran exactly the nodes that its graph and the branches
\* taken call for, and skipped the others, in whatever order the calls, the
\* decisions and the skips were interleaved.
THEOREM SucceedsOnSelectedPaths == Spec => []SucceededOnSelectedPaths
<1>1. OrderInv => SucceededOnSelectedPaths
  <2> DEFINE S == {n \in Nodes : run.att[n].st = "succeeded"}
             branch == [n \in Nodes |-> run.att[n].branch]
  <2> SUFFICES ASSUME OrderInv, run.state = "succeeded", NEW n \in Nodes
               PROVE  IF OnSelectedPath(n, S, branch) THEN n \in S ELSE run.att[n].st = "skipped"
    BY DEF SucceededOnSelectedPaths
  <2>1. Complete(run) /\ Justified /\ Branched
    BY DEF OrderInv, Done
  <2>2. \A m \in Nodes : m \in S <=> IsTerminalSuccess(run, m)
    BY DEF IsTerminalSuccess
  <2>3. \A m \in Nodes : (m \in S \/ run.att[m].st = "skipped") /\ ~(m \in S /\ run.att[m].st = "skipped")
    BY <2>1 DEF Complete
  <2>4. \A m \in Nodes : branch[m] = run.att[m].branch
    OBVIOUS
  <2> HIDE DEF S, branch
  <2>5. (\A e \in ControlIn(n) : e.from \in Nodes) /\ DataIn(n) \subseteq Nodes
    BY GraphAssumption DEF ControlIn, DataIn
  \* An edge is taken when it is not unselected, and is then in the node's favour.
  <2>6. \A e \in ControlIn(n) : /\ Taken(e, S, branch) <=> ~Unselected(run, e)
                                /\ Taken(e, S, branch) <=> Favourable(run, e)
    <3> SUFFICES ASSUME NEW e \in ControlIn(n)
                 PROVE  /\ Taken(e, S, branch) <=> ~Unselected(run, e)
                        /\ Taken(e, S, branch) <=> Favourable(run, e)
      OBVIOUS
    <3>1. e.from \in Nodes
      BY <2>5
    <3>2. CASE e.from \notin S
      BY <2>2, <2>3, <3>1, <3>2 DEF Taken, Unselected, Favourable
    <3>3. CASE e.from \in S /\ ~Chooses(run, e)
      BY <2>2, <2>3, <3>1, <3>3 DEF Taken, Unselected, Favourable, Undecided, Chooses
    <3>4. CASE e.from \in S /\ Chooses(run, e)
      <4>1. run.att[e.from].branch # None
        BY <2>1, <3>4 DEF Branched, Chooses
      <4> QED BY <2>2, <2>3, <2>4, <3>1, <3>4, <4>1 DEF Taken, Unselected, Favourable, Undecided, Chooses
    <3> QED BY <3>2, <3>3, <3>4
  <2>7. CASE n \in S
    <3>1. HasIntent(run, n)
      BY <2>2, <2>7 DEF IsTerminalSuccess, HasIntent
    <3>2. Grounded(run, n)
      BY <2>1, <3>1 DEF Justified
    <3>3. CASE n \in Join
      <4>1. SelectedControl(run, n) # {} \/ SelectedData(run, n) # {}
        BY <3>2, <3>3 DEF Grounded, JoinReady
      <4>2. (\E e \in ControlIn(n) : ~Unselected(run, e)) \/ (\E m \in DataIn(n) : run.att[m].st # "skipped")
        BY <4>1 DEF SelectedControl, SelectedData
      <4> QED BY <2>3, <2>5, <2>6, <2>7, <3>3, <4>2 DEF OnSelectedPath
    <3>4. CASE n \notin Join
      BY <2>2, <2>5, <2>6, <2>7, <3>2, <3>4 DEF Grounded, PlainReady, OnSelectedPath
    <3> QED BY <3>3, <3>4
  <2>8. CASE run.att[n].st = "skipped"
    <3>1. Cut(run, n)
      BY <2>1, <2>8 DEF Justified
    <3>2. CASE n \in Join
      <4>1. ~JoinReady(run, n)
        BY <3>1, <3>2 DEF Cut
      <4>2. \A e \in SelectedControl(run, n) : Favourable(run, e)
        BY <2>6 DEF SelectedControl
      <4>3. \A m \in SelectedData(run, n) : IsTerminalSuccess(run, m)
        BY <2>2, <2>3, <2>5 DEF SelectedData
      <4>4. SelectedControl(run, n) = {} /\ SelectedData(run, n) = {}
        BY <4>1, <4>2, <4>3 DEF JoinReady
      <4>5. (\A e \in ControlIn(n) : ~Taken(e, S, branch)) /\ DataIn(n) \cap S = {}
        BY <2>3, <2>5, <2>6, <4>4 DEF SelectedControl, SelectedData
      <4> QED BY <2>8, <3>2, <4>5 DEF OnSelectedPath
    <3>3. CASE n \notin Join
      <4>1. PlainSkipped(run, n)
        BY <3>1, <3>3 DEF Cut
      <4> QED BY <2>3, <2>5, <2>6, <2>8, <3>3, <4>1 DEF PlainSkipped, OnSelectedPath
    <3> QED BY <3>2, <3>3
  <2> QED BY <2>3, <2>7, <2>8
<1> QED BY <1>1, OrderKept, PTL

\* Once the runtime is closed and its lease released, the process changes
\* neither the record nor any effect (close waits for the jobs, and nothing
\* schedules one behind it).
THEOREM NothingAfterClose == Spec => QuietAfterClose
<1>1. OrderInv /\ [Next]_vars => [up /\ close = "closed" => UNCHANGED <<run, effect>>]_vars
  <2> SUFFICES ASSUME OrderInv, Next, up, close = "closed" PROVE UNCHANGED <<run, effect>>
    BY DEF vars
  <2> USE DEF OrderInv
  <2>1. admitted /\ drv.pc = "off" /\ Active = {}
    BY DEF Life
  <2>2. ~JobStep
    BY <2>1 DEF JobStep, Start, Top, ActAbort, ActSettle, ActFatal, ActWaiting, ActSkip, ActDispatch, ActRace,
         ActComplete, Race, FinallyAbort, Finally, Catch, End, Plain, Driving, Acting
  <2>3. \A n \in Nodes : ~CallStep(n) /\ ~EffectEnds(n)
    BY <2>1 DEF CallStep, EffectEnds, Prepare, PrepareDamaged, PrepareStopped, Intent, Check, Dispatch, DispatchFails,
         Result, Wait, Waited, At, Active
  <2>4. ~Capture /\ ~CaptureFails /\ ~Cancel /\ ~DecideRun /\ ~Restart
    BY <2>1 DEF Capture, CaptureFails, Cancel, DecideRun, Restart
  <2>5. CASE CancelFollows \/ DecideFollows
    BY <2>5 DEF CancelFollows, DecideFollows, RequestFrame, ghost
  <2>6. CASE Close \/ CloseAborts \/ CloseDone
    BY <2>6 DEF Close, CloseAborts, CloseDone, CloseFrame, ghost
  <2>7. CASE Exit
    <3>1. \A n \in Nodes : effect[n] # "busy"
      BY <2>1 DEF Kinds, Active
    <3>2. effect \in [Nodes -> EFFECTS]
      BY DEF Types
    <3>3. /\ run' = run
          /\ effect' = [n \in Nodes |-> IF effect[n] = "busy" THEN "unknown" ELSE effect[n]]
      BY <2>7 DEF Exit
    <3>4. effect' = [n \in Nodes |-> effect[n]]
      BY <3>1, <3>3
    <3> QED BY <3>2, <3>3, <3>4
  <2> QED BY <2>2, <2>3, <2>4, <2>5, <2>6, <2>7 DEF Next
<1> QED BY <1>1, OrderKept, PTL DEF Spec, QuietAfterClose
-----------------------------------------------------------------------------
(* What becomes of an Attempt without a result. *)

Open(r) == r.state \notin SETTLED
InFlight == Underway \union {"waited", "result"}
Resting == {"none", "waited", "result", "done"}

\* The job does not act behind the back of a Run that waits.
Seen ==
    run.state = "waiting_input" =>
        /\ \A n \in Nodes \ Human : exec[n].pc = "none"
        /\ drv.pc = "act" /\ rec.state # "waiting_input" => Active # {}

\* While a human decision is under way no other Attempt is open.
SoleHuman == Open(run) => \A h \in Human : exec[h].pc # "none" => Unsettled(run) \subseteq {h}

\* A Run that waits does so for one decision, and nothing has failed.
Waiters ==
    run.state = "waiting_input" =>
        /\ \A m, n \in Unsettled(run) : m = n
        /\ \A n \in Unsettled(run) : n \in Human /\ run.att[n].st = "waiting_input"
        /\ ~FailedSibling(run) /\ drv.stop = "none"
        /\ \A h \in Human : /\ exec[h].pc \in {"none", "waited", "done"}
                            /\ exec[h].pc = "done" => exec[h].out \in {"none", "error"}

\* Behind its wait a call whose Attempt is open finds a Run that waits or is cancelled.
Attended ==
    \A n \in Unsettled(run) :
        exec[n].pc = "waited" /\ Open(run) => run.state \in {"waiting_input", "cancelling"}

\* Before it waits, a human decision has seen nothing fail.
Calm ==
    Open(run) => \A h \in Human : exec[h].pc \in {"prep", "intent", "check", "wait"}
                                    => drv.stop = "none" /\ ~FailedSibling(run)

\* A call that comes with a result finds its Attempt open.
Late ==
    \A n \in Nodes :
        Open(run) /\ (exec[n].pc = "result" \/ (exec[n].pc = "waited" /\ run.state = "cancelling")) =>
            /\ run.state \in {"running", "cancelling"}
            /\ run.att[n].st \in {"running", "cancelling"} /\ run.att[n].res = "none"

\* While the Run waits no call is before its wait or comes with a result.
Paused == run.state = "waiting_input" => \A n \in Nodes : exec[n].pc \in {"none", "waited", "done"}

\* What the record that driveRun read says about the durable one.
Reading ==
    drv.pc = "act" =>
        /\ rec.state \in SETTLED => run.state = rec.state
        /\ run.state = "recovery_required" => rec.state = "recovery_required"
        /\ rec.state = "cancelling" => run.state \in SETTLED \union {"cancelling"}
        /\ drv.stop = "none" => ~FailedSibling(rec)
        /\ Active = {} /\ Open(run) /\ FailedSibling(run) => FailedSibling(rec)
        /\ rec.state = "waiting_input" => \A n \in Nodes : exec[n].pc \in Resting
Finishing == drv.pc = "finally" => \A n \in Nodes : exec[n].pc \in Resting

ReadInv == Seen /\ Paused /\ Reading /\ Finishing

\* A Run that was waiting when driveRun read it waits still, or its decision is made.
Awaited ==
    drv.pc = "act" /\ rec.state = "waiting_input" /\ Open(run) =>
        run.state = "waiting_input" \/ Unsettled(run) = {}

\* Whose turn it is to settle an open Attempt: a human's, the job's catch, or the loop's,
\* which has a call for it or a reason to stop.
Accounted(n) ==
    \/ run.state = "waiting_input"
    \/ drv.pc \in {"throw", "catch"}
    \/ /\ drv.pc \in {"top", "act", "race"}
       /\ \/ drv.fatal \/ drv.stop = "recovery_required" \/ exec[n].pc \in InFlight
          \/ exec[n].pc = "done" /\ exec[n].out \in {"unknown", "error"}
Orphans == up /\ Open(run) => \A n \in Unsettled(run) : Accounted(n)

\* A call or a job fails only because a write failed, or behind a settled Run.
Failing == drv.fatal \/ drv.pc \in {"throw", "catch"} \/ \E n \in Nodes : exec[n].pc = "done" /\ exec[n].out = "error"
Blamed == Failing => faults >= 1 \/ ~Open(run)

\* An effect nobody knows has an open Attempt, and a Run that does not wait for a human.
Unknowns ==
    \A n \in Nodes : effect[n] = "unknown" =>
        /\ ~Terminal(run) /\ n \in Unsettled(run) /\ run.att[n].st # "waiting_input"
        /\ exec[n].pc \in {"none", "prep", "intent", "done"}

AccountInv ==
    /\ ReadInv /\ SoleHuman /\ Waiters /\ Attended /\ Calm /\ Late
    /\ Awaited /\ Orphans /\ Blamed /\ Unknowns
\* Of the writes for a Run that could not be settled, one failed.
OneFault == hung => faults <= 1

LEMMA InitAccount == Init => AccountInv
<1> SUFFICES ASSUME Init PROVE AccountInv
  OBVIOUS
<1>1. run.state = "queued" /\ \A n \in Nodes : run.att[n] = NoAttempt
  BY DEF Init, NewRun
<1>2. \A n \in Nodes : exec[n].pc = "none" /\ effect[n] = "none"
  BY DEF Init, Idle
<1>3. drv.pc = "off" /\ ~drv.fatal
  BY DEF Init, Off
<1>4. Unsettled(run) = {}
  BY <1>1 DEF Unsettled, HasIntent, NoAttempt
<1>5. \A h \in Human : h \in Nodes
  BY NodesAssumption
<1> QED BY <1>1, <1>2, <1>3, <1>4, <1>5
    DEF AccountInv, ReadInv, Seen, Paused, SoleHuman, Waiters, Attended, Calm, Late, Reading, Finishing, Awaited, Orphans,
        Blamed, Failing, Unknowns
-----------------------------------------------------------------------------
(* What the reducers do to open Attempts. *)

\* What the accounts look at stays as it is.
Same(a, b) ==
    /\ b.state = a.state /\ Unsettled(b) = Unsettled(a)
    /\ \A n \in Unsettled(a) : b.att[n] = a.att[n]
    /\ FailedSibling(b) <=> FailedSibling(a)

LEMMA SameAttempts ==
    ASSUME NEW a, NEW b, b.state = a.state, b.att = a.att
    PROVE  Same(a, b)
BY DEF Same, Unsettled, HasIntent, Settled, FailedSibling

\* Only Attempts whose state and result change enter or leave the open ones.
LEMMA UnsettledIs ==
    ASSUME NEW a, NEW b, NEW n \in Nodes, b.att[n] = a.att[n]
    PROVE  n \in Unsettled(b) <=> n \in Unsettled(a)
BY DEF Unsettled, HasIntent, Settled

LEMMA CancelLeaves ==
    ASSUME NEW r \in DriverRecords
    PROVE  LET q == RequestCancel(r)
           IN  /\ q.state = IF ActiveAttempt(r) THEN "cancelling" ELSE "cancelled"
               /\ ActiveAttempt(r) => /\ Unsettled(q) = Unsettled(r) /\ (FailedSibling(q) <=> FailedSibling(r))
                                      /\ \A n \in Unsettled(r) : q.att[n].st = "cancelling" /\ q.att[n].res = "none"
<1> DEFINE q == RequestCancel(r)
<1>1. /\ q \in DriverRecords /\ q.state = IF ActiveAttempt(r) THEN "cancelling" ELSE "cancelled"
      /\ Moved(r, q, Unsettled(r), IF ActiveAttempt(r) THEN "cancelling" ELSE "cancelled")
  BY RequestCancelIs
<1> HIDE DEF q
<1>2. ASSUME ActiveAttempt(r), NEW n \in Nodes
      PROVE  q.att[n] = IF n \in Unsettled(r) THEN [r.att[n] EXCEPT !.st = "cancelling"] ELSE r.att[n]
  BY <1>1, <1>2 DEF Moved
<1>3. \A n \in Nodes : r.att[n] \in Attempt
  BY RecordIs
<1>4. ASSUME ActiveAttempt(r), NEW n \in Unsettled(r)
      PROVE  n \in Nodes /\ q.att[n].st = "cancelling" /\ q.att[n].res = "none"
  <2>1. n \in Nodes /\ r.att[n].res = "none"
    BY DEF Unsettled, Settled
  <2> QED BY <1>2, <1>3, <1>4, <2>1 DEF Attempt
<1>5. ASSUME ActiveAttempt(r) PROVE Unsettled(q) = Unsettled(r)
  <2>1. \A n \in Unsettled(r) : n \in Unsettled(q)
    BY <1>4, <1>5 DEF Unsettled, HasIntent, Settled, TERMINAL_ATTEMPTS, TERMINAL_RUN_STATES
  <2>2. \A n \in Nodes : n \notin Unsettled(r) => q.att[n] = r.att[n]
    BY <1>2, <1>5
  <2>3. \A n \in Nodes : n \notin Unsettled(r) => n \notin Unsettled(q)
    BY <2>2, UnsettledIs
  <2>4. Unsettled(q) \subseteq Nodes /\ Unsettled(r) \subseteq Nodes
    BY DEF Unsettled
  <2> QED BY <2>1, <2>3, <2>4
<1>6. ASSUME ActiveAttempt(r) PROVE FailedSibling(q) <=> FailedSibling(r)
  <2>1. \A n \in Unsettled(r) : r.att[n].st \notin {"failed", "timed_out", "cancelled"}
    BY DEF Unsettled, Settled, TERMINAL_ATTEMPTS, TERMINAL_RUN_STATES
  <2> QED BY <1>2, <1>4, <1>6, <2>1 DEF FailedSibling
<1> QED BY <1>1, <1>4, <1>5, <1>6 DEF q

\* A quiet write opens no Attempt.
LEMMA QuietLeaves ==
    ASSUME NEW a \in DriverRecords, NEW b, Quiet(a, b)
    PROVE  Unsettled(b) \subseteq Unsettled(a)
<1> SUFFICES ASSUME NEW n \in Unsettled(b) PROVE n \in Unsettled(a)
  OBVIOUS
<1>1. n \in Nodes
  BY DEF Unsettled
<1>2. b.att[n] = a.att[n] \/ n \in Unsettled(a)
  BY <1>1 DEF Quiet
<1> QED BY <1>1, <1>2, UnsettledIs

LEMMA SkipLeaves ==
    ASSUME NEW r \in DriverRecords, NEW S
    PROVE  Same(r, Skip(r, S))
<1> DEFINE q == Skip(r, S)
<1>1. CASE r.state = "cancelling"
  <2>1. q = r
    BY <1>1, SkipIs
  <2> QED BY <2>1, SameAttempts
<1>2. CASE r.state # "cancelling"
  <2>1. q.state = r.state /\ Moved(r, q, {n \in S : ~Started(r, n)}, "skipped")
    BY <1>2, SkipIs
  <2> HIDE DEF q
  <2>2. \A n \in Nodes : r.att[n] \in Attempt
    BY RecordIs
  <2>3. \A n \in Nodes : q.att[n] = r.att[n] \/ (q.att[n].st = "skipped" /\ r.att[n].st = "none")
    BY <2>1, <2>2 DEF Moved, Started, Attempt
  <2>4. \A n \in Nodes : n \in Unsettled(q) <=> n \in Unsettled(r)
    <3> SUFFICES ASSUME NEW n \in Nodes PROVE n \in Unsettled(q) <=> n \in Unsettled(r)
      OBVIOUS
    <3>1. CASE q.att[n] = r.att[n]
      BY <3>1, UnsettledIs
    <3>2. CASE q.att[n].st = "skipped" /\ r.att[n].st = "none"
      BY <3>2 DEF Unsettled, HasIntent
    <3> QED BY <2>3, <3>1, <3>2
  <2>5. Unsettled(q) \subseteq Nodes /\ Unsettled(r) \subseteq Nodes
    BY DEF Unsettled
  <2>6. Unsettled(q) = Unsettled(r)
    BY <2>4, <2>5
  <2>7. \A n \in Unsettled(r) : q.att[n] = r.att[n]
    BY <2>3, <2>5 DEF Unsettled, HasIntent
  <2>8. FailedSibling(q) <=> FailedSibling(r)
    BY <2>3 DEF FailedSibling
  <2> QED BY <2>1, <2>6, <2>7, <2>8 DEF Same, q
<1> QED BY <1>1, <1>2

LEMMA IntentLeaves ==
    ASSUME NEW r \in DriverRecords, NEW n \in Nodes, RecordIntentOk(r, n)
    PROVE  LET q == RecordIntent(r, n)
           IN  /\ q.state = "running" /\ q.att[n].st = "running" /\ q.att[n].res = "none"
               /\ \A m \in Nodes : m # n => q.att[m] = r.att[m]
               /\ Unsettled(q) = Unsettled(r) \union {n} /\ n \notin Unsettled(r) /\ ~FailedSibling(q)
<1> DEFINE q == RecordIntent(r, n)
<1>1. /\ q.state = "running"
      /\ \A m \in Nodes : q.att[m] = IF m = n THEN [NoAttempt EXCEPT !.st = "running"] ELSE r.att[m]
  BY RecordIntentIs
<1> HIDE DEF q
<1>2. q.att[n].st = "running" /\ q.att[n].res = "none" /\ \A m \in Nodes : m # n => q.att[m] = r.att[m]
  BY <1>1 DEF NoAttempt
<1>3. n \in Unsettled(q)
  BY <1>2 DEF Unsettled, HasIntent, Settled, TERMINAL_ATTEMPTS, TERMINAL_RUN_STATES
<1>4. \A m \in Nodes : m # n => (m \in Unsettled(q) <=> m \in Unsettled(r))
  BY <1>2, UnsettledIs
<1>5. Unsettled(q) \subseteq Nodes /\ Unsettled(r) \subseteq Nodes
  BY DEF Unsettled
<1>6. n \notin Unsettled(r)
  BY DEF RecordIntentOk, Started, Unsettled, HasIntent
<1>7. ~FailedSibling(q)
  BY <1>2 DEF RecordIntentOk, FailedSibling
<1>8. Unsettled(q) = Unsettled(r) \union {n}
  BY <1>3, <1>4, <1>5
<1> QED BY <1>1, <1>2, <1>6, <1>7, <1>8 DEF q

LEMMA ReportLeaves ==
    ASSUME NEW r \in DriverRecords, NEW n \in Nodes, NEW k \in RESULTS, NEW b \in Branches \union {None}
    PROVE  LET q == RecordResult(r, n, k, b)
           IN  /\ Unsettled(q) = Unsettled(r) \ {n}
               /\ \A m \in Nodes : m # n => q.att[m] = r.att[m]
               /\ q.state = r.state \/ (r.state = "cancelling" /\ q.state = "cancelled" /\ Unsettled(r) \subseteq {n})
<1> DEFINE q == RecordResult(r, n, k, b)
<1>1. /\ \/ q.state = r.state
         \/ r.state = "cancelling" /\ q.state = "cancelled" /\ \A m \in Nodes : Started(q, m) => Settled(q, m)
      /\ q.att[n].st = ResultState(r, k)
      /\ \A m \in Nodes : m # n => q.att[m] = r.att[m]
  BY ReportIs
<1> HIDE DEF q
<1>2. n \notin Unsettled(q)
  BY <1>1 DEF ResultState, Unsettled, Settled, TERMINAL_ATTEMPTS, TERMINAL_RUN_STATES
<1>3. \A m \in Nodes : m # n => (m \in Unsettled(q) <=> m \in Unsettled(r))
  BY <1>1, UnsettledIs
<1>4. Unsettled(q) \subseteq Nodes /\ Unsettled(r) \subseteq Nodes
  BY DEF Unsettled
<1>5. Unsettled(q) = Unsettled(r) \ {n}
  BY <1>2, <1>3, <1>4
<1>6. (\A m \in Nodes : Started(q, m) => Settled(q, m)) => Unsettled(q) = {}
  BY DEF Unsettled, HasIntent, Started
<1> QED BY <1>1, <1>5, <1>6 DEF q

\* What a wait of an open Attempt leaves.
LEMMA WaitLeaves ==
    ASSUME NEW r \in DriverRecords, NEW n \in Nodes, r.state \in {"running", "cancelling"},
           r.att[n].st \in {"running", "cancelling"}, r.att[n].res = "none"
    PROVE  LET q == WaitInput(r, n)
           IN  /\ r.state = "cancelling" => q = r
               /\ r.state = "running" =>
                    /\ q.state = "waiting_input" /\ q.att[n].st = "waiting_input" /\ q.att[n].res = "none"
                    /\ \A m \in Nodes : m # n => q.att[m] = r.att[m]
                    /\ Unsettled(q) = Unsettled(r) /\ n \in Unsettled(r)
                    /\ FailedSibling(q) <=> FailedSibling(r)
<1> DEFINE q == WaitInput(r, n)
<1>1. /\ r.state = "cancelling" => q = r
      /\ r.state # "cancelling" => q.state = "waiting_input" /\ Moved(r, q, {n}, "waiting_input")
  BY WaitInputIs
<1> HIDE DEF q
<1>2. ASSUME r.state = "running"
      PROVE  /\ q.state = "waiting_input" /\ q.att[n].st = "waiting_input" /\ q.att[n].res = "none"
             /\ \A m \in Nodes : m # n => q.att[m] = r.att[m]
             /\ Unsettled(q) = Unsettled(r) /\ n \in Unsettled(r)
             /\ FailedSibling(q) <=> FailedSibling(r)
  <2>1. r.att[n] \in Attempt
    BY RecordIs
  <2>2. q.state = "waiting_input" /\ q.att[n] = [r.att[n] EXCEPT !.st = "waiting_input"]
        /\ \A m \in Nodes : m # n => q.att[m] = r.att[m]
    BY <1>1, <1>2 DEF Moved
  <2>3. q.att[n].st = "waiting_input" /\ q.att[n].res = "none"
    BY <2>1, <2>2 DEF Attempt
  <2>4. n \in Unsettled(q) /\ n \in Unsettled(r)
    BY <2>3 DEF Unsettled, HasIntent, Settled, TERMINAL_ATTEMPTS, TERMINAL_RUN_STATES
  <2>5. \A m \in Nodes : m # n => (m \in Unsettled(q) <=> m \in Unsettled(r))
    BY <2>2, UnsettledIs
  <2>6. Unsettled(q) \subseteq Nodes /\ Unsettled(r) \subseteq Nodes
    BY DEF Unsettled
  <2>7. Unsettled(q) = Unsettled(r)
    BY <2>4, <2>5, <2>6
  <2>8. FailedSibling(q) <=> FailedSibling(r)
    BY <2>2, <2>3 DEF FailedSibling
  <2> QED BY <2>2, <2>3, <2>4, <2>7, <2>8
<1> QED BY <1>1, <1>2 DEF q

LEMMA DecideLeaves ==
    ASSUME NEW r \in DriverRecords, NEW n \in Waiting(r), NEW d \in Decisions, NEW approve \in BOOLEAN, NEW b \in Branches
    PROVE  LET q == Decide(r, n, d, approve, b)
           IN  /\ q.state = IF approve THEN "running" ELSE "cancelled"
               /\ n \in Unsettled(r) /\ Unsettled(q) = Unsettled(r) \ {n}
               /\ approve /\ ~FailedSibling(r) => ~FailedSibling(q)
<1> DEFINE q == Decide(r, n, d, approve, b)
<1>0. n \in Nodes
  BY NodesAssumption DEF Waiting
<1>1. /\ q.state = IF approve THEN "running" ELSE "cancelled"
      /\ \A m \in Nodes : q.att[m] =
           IF m = n THEN [st |-> IF approve THEN "succeeded" ELSE "cancelled",
                          res |-> IF approve THEN "ok" ELSE "cancelled", branch |-> b, decision |-> d]
           ELSE r.att[m]
  BY <1>0, DecideIs
<1> HIDE DEF q
<1>2. q.att[n].st = (IF approve THEN "succeeded" ELSE "cancelled") /\ \A m \in Nodes : m # n => q.att[m] = r.att[m]
  BY <1>0, <1>1
<1>3. n \notin Unsettled(q) /\ n \in Unsettled(r)
  BY <1>0, <1>2 DEF Waiting, Unsettled, HasIntent, Settled, TERMINAL_ATTEMPTS, TERMINAL_RUN_STATES
<1>4. \A m \in Nodes : m # n => (m \in Unsettled(q) <=> m \in Unsettled(r))
  BY <1>2, UnsettledIs
<1>5. Unsettled(q) \subseteq Nodes /\ Unsettled(r) \subseteq Nodes
  BY DEF Unsettled
<1>6. Unsettled(q) = Unsettled(r) \ {n}
  BY <1>3, <1>4, <1>5
<1>7. approve /\ ~FailedSibling(r) => ~FailedSibling(q)
  BY <1>2 DEF FailedSibling
<1> QED BY <1>1, <1>3, <1>6, <1>7 DEF q
-----------------------------------------------------------------------------
(* What a step does to the record, and to the job. *)

\* Everything over: the job or the process settles the Run.
Settlement == Active = {} /\ Quiet(run, run') /\ run'.state \in SETTLED
\* A call that writes.
Opens(n) == Intends(n) /\ Steps(n)
Brings(n) == Reports(n) /\ Steps(n)
Asks(n) == Waits(n) /\ Steps(n)

LEMMA RunMoves ==
    ASSUME OrderInv, Next
    PROVE  \/ Same(run, run') \/ Settlement \/ Cancels \/ Decides
           \/ \E n \in Nodes : Opens(n) \/ Brings(n) \/ Asks(n)
<1>0. run \in DriverRecords
  BY DEF OrderInv, Types
<1>1. run' = run => Same(run, run')
  BY SameAttempts
<1>2. CASE Background
  <2>1. Settles => Same(run, run') \/ Settlement \/ Cancels
    BY SameAttempts DEF Settles, Settlement
  <2>2. Skips => Same(run, run')
    BY <1>0, SkipLeaves DEF Skips
  <2> QED BY <1>1, <1>2, <2>1, <2>2 DEF Background
<1>3. ASSUME NEW n \in Nodes, Dispatches(n) PROVE Same(run, run')
  BY <1>1, <1>3 DEF Dispatches
<1>4. ASSUME NEW n \in Nodes, Steps(n)
      PROVE  Same(run, run') \/ Cancels \/ Opens(n) \/ Brings(n) \/ Asks(n)
  BY <1>1, <1>4 DEF Steps, CallMoves, Writes, Gives, Opens, Brings, Asks
<1> QED BY <1>2, <1>3, <1>4, StepIs

\* Each of them, in what the accounts look at.
LEMMA CancelMoves ==
    ASSUME run \in DriverRecords, Cancels
    PROVE  /\ run.state \notin SETTLED \union {"cancelling"}
           /\ run'.state = IF ActiveAttempt(run) THEN "cancelling" ELSE "cancelled"
           /\ ActiveAttempt(run) =>
                /\ Unsettled(run') = Unsettled(run) /\ (FailedSibling(run') <=> FailedSibling(run))
                /\ \A n \in Unsettled(run) : run'.att[n].st = "cancelling" /\ run'.att[n].res = "none"
           /\ Open(run') <=> ActiveAttempt(run)
<1>1. "cancelled" \in SETTLED /\ "cancelling" \notin SETTLED
  BY DEF SETTLED, TERMINAL_RUN_STATES
<1> QED BY <1>1, CancelLeaves, RequestCancelIs DEF Cancels, Open

LEMMA DecideMoves ==
    ASSUME run \in DriverRecords, Waiters, Decides
    PROVE  /\ run.state = "waiting_input" /\ Unsettled(run) # {} /\ Unsettled(run') = {}
           /\ run'.state \in {"running", "cancelled"}
           /\ run'.state = "running" => ~FailedSibling(run')
<1>1. PICK n \in Waiting(run), d \in Decisions, approve \in BOOLEAN, b \in Branches :
        run' = Decide(run, n, d, approve, b)
  BY DEF Decides
<1>2. /\ run'.state = IF approve THEN "running" ELSE "cancelled"
      /\ n \in Unsettled(run) /\ Unsettled(run') = Unsettled(run) \ {n}
      /\ approve /\ ~FailedSibling(run) => ~FailedSibling(run')
  BY <1>1, DecideLeaves
<1>3. run.state = "waiting_input"
  BY DEF Decides
<1> QED BY <1>2, <1>3 DEF Waiters

LEMMA OpenMoves ==
    ASSUME OrderInv, NEW n \in Nodes, Opens(n)
    PROVE  /\ exec[n].pc = "intent" /\ exec'[n].pc \in {"check", "done"}
           /\ run.state \in {"queued", "running"} /\ ~FailedSibling(run)
           /\ run'.state = "running" /\ run'.att[n].st = "running" /\ run'.att[n].res = "none"
           /\ \A m \in Nodes : m # n => run'.att[m] = run.att[m]
           /\ Unsettled(run') = Unsettled(run) \union {n} /\ n \notin Unsettled(run) /\ ~FailedSibling(run')
<1>1. run \in DriverRecords
  BY DEF OrderInv, Types
<1>2. /\ exec[n].pc = "intent" /\ exec'[n].pc \in {"check", "done"}
      /\ RecordIntentOk(run, n) /\ run' = RecordIntent(run, n)
  BY DEF Opens, Intends
<1>3. run.state \in {"queued", "running"} /\ ~FailedSibling(run)
  BY <1>2 DEF RecordIntentOk
<1> QED BY <1>1, <1>2, <1>3, IntentLeaves

LEMMA BringMoves ==
    ASSUME OrderInv, NEW n \in Nodes, Brings(n)
    PROVE  /\ exec[n].pc = "result" /\ exec'[n].pc = "done"
           /\ Unsettled(run') = Unsettled(run) \ {n}
           /\ \A m \in Nodes : m # n => run'.att[m] = run.att[m]
           /\ run'.state = run.state \/ (run.state = "cancelling" /\ run'.state = "cancelled" /\ Unsettled(run) \subseteq {n})
<1>1. run \in DriverRecords
  BY DEF OrderInv, Types
<1>2. PICK b \in Branches \union {None} : run' = RecordResult(run, n, exec[n].out, b)
  BY DEF Brings, Reports
<1>3. exec[n].pc = "result" /\ exec'[n].pc = "done" /\ exec[n].out \in RESULTS
  BY DEF Brings, Reports, OrderInv, Kinds
<1> QED BY <1>1, <1>2, <1>3, ReportLeaves

LEMMA AskMoves ==
    ASSUME OrderInv, NEW n \in Nodes, Asks(n)
    PROVE  /\ exec[n].pc = "wait" /\ exec'[n].pc \in {"waited", "done"} /\ n \in Human
           /\ run.state \in {"running", "cancelling"}
           /\ run.state = "cancelling" => run' = run
           /\ run.state = "running" =>
                /\ run'.state = "waiting_input" /\ run'.att[n].st = "waiting_input" /\ run'.att[n].res = "none"
                /\ \A m \in Nodes : m # n => run'.att[m] = run.att[m]
                /\ Unsettled(run') = Unsettled(run) /\ n \in Unsettled(run)
                /\ FailedSibling(run') <=> FailedSibling(run)
           /\ \A m \in Nodes : m # n => exec[m].pc = "none" /\ exec'[m].pc = "none"
<1>1. run \in DriverRecords
  BY DEF OrderInv, Types
<1>2. exec[n].pc = "wait" /\ exec'[n].pc \in {"waited", "done"} /\ run' = WaitInput(run, n)
  BY DEF Asks, Waits
<1>3. n \in Human
  BY <1>2 DEF OrderInv, Kinds
<1>4. run.state \in {"running", "cancelling"} /\ run.att[n].st \in {"running", "cancelling"} /\ run.att[n].res = "none"
  BY <1>2 DEF OrderInv, CallsOpen, Underway
<1>5. \A m \in Nodes : m # n => exec[m].pc = "none"
  BY <1>2, <1>3 DEF OrderInv, Alone
<1>6. \A m \in Nodes : m # n => exec'[m] = exec[m]
  BY DEF Asks, Steps, CallMoves
<1> QED BY <1>1, <1>2, <1>3, <1>4, <1>5, <1>6, WaitLeaves

\* A settled Run stays settled, and one that needs recovery needs it until its job ends.
LEMMA SettledStays ==
    ASSUME OrderInv, Next
    PROVE  Open(run') => Open(run)
<1> SUFFICES ASSUME run.state \in SETTLED PROVE run'.state \in SETTLED
  BY DEF Open
<1>0. run \in DriverRecords /\ {"waiting_input", "queued", "running", "cancelling"} \cap SETTLED = {} /\ "cancelled" \in SETTLED
  BY DEF OrderInv, Types, SETTLED, TERMINAL_RUN_STATES
<1>1. CASE Same(run, run')
  BY <1>1 DEF Same
<1>2. CASE Settlement
  BY <1>2 DEF Settlement
<1>3. CASE Cancels
  BY <1>0, <1>3, CancelMoves
<1>4. CASE Decides
  BY <1>0, <1>4 DEF Decides
<1>5. ASSUME NEW n \in Nodes, Opens(n) PROVE FALSE
  BY <1>0, <1>5, OpenMoves
<1>6. ASSUME NEW n \in Nodes, Brings(n) PROVE run'.state \in SETTLED
  BY <1>0, <1>6, BringMoves
<1>7. ASSUME NEW n \in Nodes, Asks(n) PROVE FALSE
  BY <1>0, <1>7, AskMoves
<1> QED BY <1>1, <1>2, <1>3, <1>4, <1>5, <1>6, <1>7, RunMoves

\* Open Attempts are opened by their intents alone.
LEMMA UnsettledMoves ==
    ASSUME OrderInv, Waiters, Next, NEW n \in Unsettled(run'), Open(run')
    PROVE  \/ n \in Unsettled(run)
           \/ Opens(n)
<1>0. run \in DriverRecords /\ n \in Nodes
  BY DEF OrderInv, Types, Unsettled
<1>1. CASE Same(run, run')
  BY <1>1 DEF Same
<1>2. CASE Settlement
  BY <1>2 DEF Settlement, Open
<1>3. CASE Cancels
  BY <1>0, <1>3, CancelMoves
<1>4. CASE Decides
  BY <1>0, <1>4, DecideMoves
<1>5. ASSUME NEW m \in Nodes, Opens(m) PROVE n \in Unsettled(run) \/ Opens(n)
  BY <1>5, OpenMoves
<1>6. ASSUME NEW m \in Nodes, Brings(m) PROVE n \in Unsettled(run)
  BY <1>6, BringMoves
<1>7. ASSUME NEW m \in Nodes, Asks(m) PROVE n \in Unsettled(run)
  BY <1>7, AskMoves
<1> QED BY <1>1, <1>2, <1>3, <1>4, <1>5, <1>6, <1>7, RunMoves

\* How a call got where it is: it was there, or its own step moved it.
LEMMA CallsGo ==
    ASSUME OrderInv, Next, NEW n \in Nodes
    PROVE  \/ exec'[n].pc = "none"
           \/ exec'[n].pc = exec[n].pc /\ exec'[n].out = exec[n].out
           \/ Dispatches(n) /\ exec'[n].pc = "prep"
           \/ Steps(n) /\ exec[n].pc # "none"
<1>1. CASE Background
  BY <1>1 DEF Background, Drifts
<1>2. ASSUME NEW m \in Nodes, Dispatches(m)
      PROVE  exec'[n] = exec[n] \/ (Dispatches(n) /\ exec'[n].pc = "prep")
  <2>1. exec \in [Nodes -> Call] /\ exec' = [exec EXCEPT ![m] = [Idle EXCEPT !.pc = "prep"]]
    BY <1>2 DEF OrderInv, Types, Dispatches
  <2>2. [Idle EXCEPT !.pc = "prep"].pc = "prep"
    BY DEF Idle
  <2>3. exec'[m].pc = "prep"
    BY <2>1, <2>2
  <2> QED BY <1>2, <2>1, <2>3
<1>3. ASSUME NEW m \in Nodes, Steps(m) PROVE exec'[n] = exec[n] \/ (Steps(n) /\ exec[n].pc # "none")
  BY <1>3 DEF Steps, CallMoves
<1> QED BY <1>1, <1>2, <1>3, StepIs

\* The stop reason is found at the head of the loop, and forgotten with the job.
LEMMA StopMoves ==
    ASSUME OrderInv, Next
    PROVE  Top \/ drv'.stop = drv.stop \/ drv'.stop = "none"
<1> USE DEF OrderInv
<1>0. drv \in Job /\ Off.stop = "none" /\ [Off EXCEPT !.pc = "start"].stop = "none" /\ [Off EXCEPT !.pc = "off"].stop = "none"
  BY DEF Types, Off
<1>1. ASSUME NEW pc, Leave(pc) PROVE drv'.stop = drv.stop
  BY <1>0, <1>1 DEF Leave, Job
<1>2. CASE drv' = drv
  BY <1>2
<1>3. CASE JobStep /\ ~Top
  <2>1. CASE Start \/ ActAbort \/ ActFatal
    BY <1>1, <2>1 DEF Start, ActAbort, ActFatal
  <2>2. CASE ActSettle \/ ActSkip \/ ActComplete
    BY <1>1, <2>2 DEF ActSettle, ActSkip, ActComplete, JobWrite
  <2>3. CASE ActWaiting \/ ActDispatch \/ ActRace \/ Race
    BY <1>1, <2>3 DEF ActWaiting, ActDispatch, ActRace, Race
  <2>4. CASE Finally \/ Catch
    BY <1>1, <2>4 DEF Finally, Catch
  <2>5. CASE End
    BY <1>0, <2>5 DEF End, Off
  <2>6. CASE FinallyAbort
    BY <1>2, <2>6 DEF FinallyAbort
  <2> QED BY <1>3, <2>1, <2>2, <2>3, <2>4, <2>5, <2>6 DEF JobStep
<1>4. CASE Schedule
  BY <1>0, <1>4 DEF Schedule
<1>5. CASE Capture \/ CancelFollows \/ DecideFollows
  BY <1>2, <1>4, <1>5 DEF Capture, CancelFollows, DecideFollows, RequestFrame
<1>6. CASE Exit \/ Restart
  BY <1>0, <1>6 DEF Exit, Restart
<1>7. CASE CaptureFails \/ Cancel \/ DecideRun \/ Close \/ CloseAborts \/ CloseDone
  BY <1>2, <1>7 DEF CaptureFails, Cancel, DecideRun, Close, CloseAborts, CloseDone, RequestFrame, CloseFrame
<1>8. ASSUME NEW n \in Nodes, CallStep(n) \/ EffectEnds(n) PROVE drv' = drv
  BY <1>8 DEF CallStep, EffectEnds, Prepare, PrepareDamaged, PrepareStopped, Intent, Check, Dispatch, DispatchFails,
       Result, Wait, Waited, CallFrame
<1> QED BY <1>2, <1>3, <1>5, <1>6, <1>7, <1>8 DEF Next

\* What the head of the loop finds: nothing, when nothing failed.
LEMMA TopFinds ==
    ASSUME OrderInv, Top
    PROVE  /\ rec' = run /\ run' = run /\ drv.pc = "top" /\ drv'.pc = "act" /\ up /\ faults' = faults
           /\ \A n \in Nodes : exec'[n] = IF exec[n].pc = "done" THEN Idle ELSE exec[n]
           /\ drv'.stop = "none" => ~FailedSibling(run)
           /\ "unknown" \in Reasons \/ drv.stop = "recovery_required" => drv'.stop = "recovery_required"
           /\ drv'.fatal <=> drv.fatal \/ "error" \in Reasons
           /\ drv.stop = "none" /\ ~FailedSibling(run) /\ Reasons \subseteq {"none", "error"} => drv'.stop = "none"
<1> DEFINE d == DrainedStop
           bad == AttemptStates \intersect {"failed", "timed_out"}
<1>1. PICK s \in StopReasons(DrainedStop) : drv' = [pc |-> "act", stop |-> s, fatal |-> drv.fatal \/ "error" \in Reasons]
  BY DEF Top
<1>2. drv'.pc = "act" /\ drv'.stop = s /\ drv'.fatal = (drv.fatal \/ "error" \in Reasons)
  BY <1>1
<1>3. FailedSibling(run) <=> bad # {} \/ "cancelled" \in AttemptStates
  BY DEF AttemptStates, FailedSibling
<1>4. /\ d # "none" => s = d
      /\ d = "none" /\ bad # {} => s \in bad
      /\ d = "none" /\ bad = {} => s = IF "cancelled" \in AttemptStates THEN "cancelled" ELSE "none"
  BY DEF StopReasons
<1>5. d = IF "unknown" \in Reasons THEN "recovery_required"
          ELSE IF drv.stop = "none" /\ "prepare-failed" \in Reasons THEN "failed" ELSE drv.stop
  BY DEF DrainedStop
<1> HIDE DEF d
<1>6. "none" \notin bad
  OBVIOUS
<1> HIDE DEF bad
<1>7. /\ rec' = run /\ run' = run /\ drv.pc = "top" /\ up /\ faults' = faults
      /\ \A n \in Nodes : exec'[n] = IF exec[n].pc = "done" THEN Idle ELSE exec[n]
  BY DEF Top, Completed
<1>8. s = "none" => ~FailedSibling(run)
  BY <1>3, <1>4, <1>6
<1>9. "unknown" \in Reasons \/ drv.stop = "recovery_required" => s = "recovery_required"
  BY <1>4, <1>5
<1>10. drv.stop = "none" /\ ~FailedSibling(run) /\ Reasons \subseteq {"none", "error"} => s = "none"
  BY <1>3, <1>4, <1>5
<1> QED BY <1>2, <1>7, <1>8, <1>9, <1>10

\* No call is forgotten between the reading of the record and what follows it.
LEMMA ActKeeps ==
    ASSUME OrderInv, Next, drv.pc = "act", UNCHANGED drv, NEW n \in Nodes, exec[n].pc # "none"
    PROVE  exec'[n].pc # "none" /\ ~Top /\ ~JobStep
<1> USE DEF OrderInv
<1>0. drv \in Job /\ Off.pc # "act" /\ exec \in [Nodes -> Call]
  BY DEF Types, Off
<1>1. ASSUME NEW pc, pc # "act", Leave(pc) PROVE FALSE
  BY <1>0, <1>1 DEF Leave, Job
<1>2. ~JobStep
  <2>1. ~Start /\ ~Top /\ ~ActAbort /\ ~ActFatal
    BY <1>1 DEF Start, Top, ActAbort, ActFatal
  <2>2. ~ActSettle /\ ~ActSkip /\ ~ActComplete
    BY <1>1 DEF ActSettle, ActSkip, ActComplete, JobWrite
  <2>3. ~ActWaiting /\ ~ActDispatch /\ ~ActRace /\ ~Race
    BY <1>1 DEF ActWaiting, ActDispatch, ActRace, Race
  <2>4. ~Finally /\ ~Catch /\ ~End /\ ~FinallyAbort
    BY DEF Finally, Catch, End, FinallyAbort
  <2> QED BY <2>1, <2>2, <2>3, <2>4 DEF JobStep
<1>3. ~Top
  BY <1>2 DEF JobStep
<1>4. CASE exec' = exec \/ exec' = AbortAll
  BY <1>0, <1>2, <1>3, <1>4, AbortAllIs
<1>5. CASE Capture \/ CaptureFails \/ Cancel \/ CancelFollows \/ DecideRun \/ DecideFollows
  BY <1>4, <1>5 DEF Capture, CaptureFails, Cancel, CancelFollows, DecideRun, DecideFollows
<1>6. CASE Close \/ CloseAborts \/ CloseDone
  BY <1>4, <1>6 DEF Close, CloseAborts, CloseDone, CloseFrame
<1>7. ~Exit
  BY <1>0 DEF Exit
<1>8. CASE Restart
  BY <1>4, <1>8 DEF Restart
<1>9. ASSUME NEW m \in Nodes, CallStep(m) \/ EffectEnds(m) PROVE exec'[n].pc # "none"
  <2>1. CallMoves(m)
    BY <1>9, CallsMove
  <2> QED BY <2>1 DEF CallMoves
<1> QED BY <1>2, <1>3, <1>5, <1>6, <1>7, <1>8, <1>9 DEF Next
-----------------------------------------------------------------------------
(* Human decisions. *)

LEMMA SeenStep ==
    ASSUME OrderInv, ReadInv, Next
    PROVE  Seen'
<1> USE DEF OrderInv, ReadInv
<1>0. run \in DriverRecords
  BY DEF Types
<1> SUFFICES ASSUME run'.state = "waiting_input"
             PROVE  /\ \A n \in Nodes \ Human : exec'[n].pc = "none"
                    /\ drv'.pc = "act" /\ rec'.state # "waiting_input" => Active' # {}
  BY DEF Seen
<1>1. CASE run.state = "waiting_input"
  <2>1. (\A n \in Nodes \ Human : exec[n].pc = "none") /\ (drv.pc = "act" /\ rec.state # "waiting_input" => Active # {})
    BY <1>1 DEF Seen
  <2>2. ASSUME NEW n \in Nodes, Dispatches(n) PROVE FALSE
    <3>1. drv.pc = "act" /\ rec.state # "waiting_input" /\ exec[n].pc = "none"
      BY <2>2 DEF Dispatches, Plain
    <3>2. PICK h \in Active : TRUE
      BY <2>1, <3>1
    <3>3. h \in Human
      BY <2>1 DEF Active
    <3> QED BY <2>2, <3>2, <3>3 DEF Dispatches
  <2>3. \A n \in Nodes \ Human : exec'[n].pc = "none"
    BY <2>1, <2>2, CallsGo
  <2>4. ASSUME drv'.pc = "act", rec'.state # "waiting_input" PROVE Active' # {}
    <3>1. ~Top
      BY <1>1, <2>4, TopFinds
    <3>2. drv.pc = "act" /\ UNCHANGED <<drv, rec>>
      BY <2>4, <3>1, Reads
    <3>3. PICK h \in Active : TRUE
      BY <2>1, <2>4, <3>2
    <3>4. h \in Nodes /\ exec'[h].pc # "none"
      BY <3>2, <3>3, ActKeeps DEF Active
    <3> QED BY <3>4 DEF Active
  <2> QED BY <2>3, <2>4
<1>2. CASE run.state # "waiting_input"
  <2>1. PICK n \in Nodes : Asks(n)
    <3>1. ~Same(run, run') /\ ~Settlement
      BY <1>2 DEF Same, Settlement, SETTLED, TERMINAL_RUN_STATES
    <3>2. ~Cancels /\ ~Decides
      BY <1>0, <1>2, CancelMoves DEF Decides
    <3>3. \A n \in Nodes : ~Opens(n) /\ ~Brings(n)
      BY <1>2, OpenMoves, BringMoves
    <3> QED BY <3>1, <3>2, <3>3, RunMoves
  <2>2. /\ exec'[n].pc # "none" /\ n \in Human
        /\ \A m \in Nodes : m # n => exec'[m].pc = "none"
    BY <2>1, AskMoves
  <2> QED BY <2>2 DEF Active
<1> QED BY <1>1, <1>2

LEMMA SoleHumanStep ==
    ASSUME OrderInv, OrderInv', AccountInv, Next
    PROVE  SoleHuman'
<1> USE DEF OrderInv, ReadInv, AccountInv
<1> SUFFICES ASSUME Open(run'), NEW h \in Human, exec'[h].pc # "none", NEW n \in Unsettled(run') PROVE n = h
  BY DEF SoleHuman
<1>0. h \in Nodes /\ n \in Nodes /\ Open(run)
  BY SettledStays, NodesAssumption DEF Unsettled
<1>1. CASE exec[h].pc # "none"
  <2>1. Unsettled(run) \subseteq {h}
    BY <1>0, <1>1 DEF SoleHuman
  <2>2. Opens(n) => n = h
    BY <1>0, <1>1, OpenMoves DEF Alone
  <2> QED BY <2>1, <2>2, UnsettledMoves
<1>2. CASE Dispatches(h)
  <2>1. Active = {}
    BY <1>0, <1>2 DEF Dispatches
  <2>2. drv.pc = "act" /\ Driving /\ rec.state # "waiting_input" /\ run' = run
    BY <1>2 DEF Dispatches, Plain
  <2>3. up /\ ~drv.fatal /\ drv.stop = "none"
    BY <2>2 DEF Driving, Acting, MustStop
  <2>4. run.state # "waiting_input"
    BY <2>1, <2>2 DEF Seen
  <2>5. n \in Unsettled(run) /\ exec[n].pc = "none"
    BY <1>0, <2>1, <2>2 DEF Active
  <2>6. Accounted(n)
    BY <1>0, <2>3, <2>5 DEF Orphans
  <2> QED BY <2>2, <2>3, <2>4, <2>5, <2>6 DEF Accounted, InFlight, Underway
<1>3. exec[h].pc # "none" \/ Dispatches(h)
  BY <1>0, CallsGo
<1> QED BY <1>1, <1>2, <1>3
-----------------------------------------------------------------------------
(* How calls end. *)

LEMMA ThrownIs ==
    /\ \A r : ThrownOn(r) \in {"none", "error"} /\ (ThrownOn(r) = "none" => ~Open(r))
    /\ \A r : NoIntentOut(r) \in {"none", "prepare-failed"}
BY DEF ThrownOn, NoIntentOut, Terminal, Open, SETTLED

LEMMA FaultIs ==
    ASSUME OrderInv, NEW S, Fault(S)
    PROVE  faults' >= 1 /\ run' \in S
<1>1. faults \in Nat
  BY DriverAssumption DEF OrderInv, Types
<1> QED BY <1>1 DEF Fault

\* A call that comes with a result can record it, one that waits can do so.
LEMMA Lands ==
    ASSUME OrderInv, AccountInv, Open(run), NEW n \in Nodes
    PROVE  /\ exec[n].pc = "result" => \A b \in Branches \union {None} :
                RecordResultOk(run, n) /\ Applies(run, RecordResult(run, n, exec[n].out, b))
           /\ exec[n].pc = "wait" => Applies(run, WaitInput(run, n))
<1> USE DEF OrderInv, ReadInv, AccountInv
<1>0. run \in DriverRecords
  BY DEF Types
<1>1. ASSUME exec[n].pc = "result", NEW b \in Branches \union {None}
      PROVE  RecordResultOk(run, n) /\ Applies(run, RecordResult(run, n, exec[n].out, b))
  <2>1. run.state \in {"running", "cancelling"} /\ run.att[n].st \in {"running", "cancelling"} /\ run.att[n].res = "none"
    BY <1>1 DEF Late
  <2>2. RecordResultOk(run, n)
    BY <1>0, <2>1, NoStageThere DEF Started, Settled, TERMINAL_ATTEMPTS, TERMINAL_RUN_STATES
  <2>3. exec[n].out \in RESULTS
    BY <1>1 DEF Kinds
  <2>4. RecordResult(run, n, exec[n].out, b).state \in {run.state} \union (IF run.state = "cancelling" THEN {"cancelled"} ELSE {})
    BY <1>0, <2>3, ReportIs
  <2> QED BY <2>1, <2>2, <2>4 DEF Applies, CanTransitionRun, ALLOWED, Terminal, TERMINAL_RUN_STATES
<1>2. ASSUME exec[n].pc = "wait" PROVE Applies(run, WaitInput(run, n))
  <2>1. run.state \in {"running", "cancelling"}
    BY <1>2 DEF CallsOpen, Underway
  <2>2. WaitInput(run, n).state = IF run.state = "cancelling" THEN run.state ELSE "waiting_input"
    BY <1>0, WaitInputIs
  <2> QED BY <2>1, <2>2 DEF Applies, CanTransitionRun, ALLOWED, Terminal, TERMINAL_RUN_STATES
<1> QED BY <1>1, <1>2

\* Behind its wait a call goes on only for a cancellation.
LEMMA WaitedMoves ==
    ASSUME OrderInv, NEW n \in Nodes, Steps(n), exec[n].pc = "waited"
    PROVE  /\ run' = run
           /\ run.state = "cancelling" => exec'[n].pc = "result"
           /\ run.state # "cancelling" => exec'[n].pc = "done" /\ exec'[n].out = "none"
<1>1. exec \in [Nodes -> Call]
  BY DEF OrderInv, Types
<1>2. Waited(n)
  BY DEF Steps, CallStep, EffectEnds, Prepare, PrepareDamaged, PrepareStopped, Intent, Check, Dispatch, DispatchFails,
         Result, Wait, At
<1>3. "result" \in EXEC_PC /\ "done" \in EXEC_PC /\ "cancelled" \in EXEC_OUT /\ "none" \in EXEC_OUT
  BY DEF EXEC_PC, EXEC_OUT, RESULTS
<1> QED BY <1>1, <1>2, <1>3, GoIs DEF Waited

\* A call ends with an error only behind a failing write, and without one only behind its result.
LEMMA CallEnds ==
    ASSUME OrderInv, AccountInv, NEW n \in Nodes, Steps(n), exec'[n].pc = "done"
    PROVE  /\ exec[n].pc \in {"wait", "waited"} => exec'[n].out \in {"none", "error"}
           /\ exec'[n].out = "error" => faults' >= 1 \/ ~Open(run')
           /\ exec[n].pc \in InFlight \ {"waited"} \/ Opens(n) =>
                exec'[n].out \in {"unknown", "error"} \/ n \notin Unsettled(run') \/ ~Open(run')
           /\ exec[n].pc \notin {"none", "done"}
<1> USE DEF OrderInv, ReadInv, AccountInv
<1>0. run \in DriverRecords /\ exec \in [Nodes -> Call]
  BY DEF Types
<1>1. /\ \A k \in {"intent", "check", "dispatch", "effect", "wait", "waited", "result", "done"} : k \in EXEC_PC
      /\ \A k \in {"none", "ok", "failed", "cancelled", "drift", "unknown", "prepare-failed", "error"} : k \in EXEC_OUT
      /\ exec[n].out \in EXEC_OUT /\ \A r : ThrownOn(r) \in EXEC_OUT /\ NoIntentOut(r) \in EXEC_OUT
  BY <1>0 DEF EXEC_PC, EXEC_OUT, RESULTS, Call, ThrownOn, NoIntentOut
<1>2. ASSUME NEW pc \in {"intent", "check", "dispatch", "effect", "wait", "waited", "result"}, NEW out \in EXEC_OUT, Go(n, pc, out)
      PROVE  FALSE
  BY <1>0, <1>1, <1>2, GoIs
<1>3. ASSUME NEW out \in EXEC_OUT, Go(n, "done", out) PROVE exec'[n].out = out
  BY <1>0, <1>1, <1>3, GoIs
<1>4. CASE Prepare(n)
  BY <1>1, <1>2, <1>4 DEF Prepare
<1>5. CASE PrepareDamaged(n)
  <2>1. exec[n].pc = "prep" /\ exec'[n].out \in {"none", "prepare-failed"}
    BY <1>1, <1>3, <1>5, ThrownIs DEF PrepareDamaged, At
  <2> QED BY <2>1 DEF InFlight, Underway, Opens, Intends
<1>6. CASE PrepareStopped(n)
  <2>1. exec[n].pc = "prep"
    BY <1>6 DEF PrepareStopped, At
  <2>2. exec'[n].out = "none" \/ faults' >= 1
    BY <1>1, <1>3, <1>6, FaultIs DEF PrepareStopped
  <2> QED BY <2>1, <2>2 DEF InFlight, Underway, Opens, Intends
<1>7. CASE Intent(n)
  <2>1. exec[n].pc = "intent"
    BY <1>7 DEF Intent, At
  <2>2. CASE RecordIntentOk(run, n)
    <3>1. Fault({run, RecordIntent(run, n)}) /\ Go(n, "done", ThrownOn(run'))
      BY <1>1, <1>2, <1>7, <2>2 DEF Intent
    <3>2. exec'[n].out = "error" \/ ~Open(run')
      BY <1>1, <1>3, <3>1, ThrownIs
    <3> QED BY <2>1, <3>1, <3>2, FaultIs
  <2>3. CASE ~RecordIntentOk(run, n)
    <3>1. Go(n, "done", NoIntentOut(run))
      BY <1>7, <2>3 DEF Intent
    <3>2. exec'[n].out \in {"none", "prepare-failed"}
      BY <1>1, <1>3, <3>1, ThrownIs
    <3> QED BY <2>1, <2>3, <3>2 DEF InFlight, Underway, Opens, Intends
  <2> QED BY <2>2, <2>3
<1>8. CASE Check(n)
  BY <1>1, <1>2, <1>8 DEF Check
<1>9. CASE Dispatch(n)
  BY <1>1, <1>2, <1>9 DEF Dispatch
<1>10. CASE DispatchFails(n)
  <2>1. exec[n].pc = "dispatch" /\ exec'[n].out = "unknown"
    BY <1>1, <1>2, <1>3, <1>10 DEF DispatchFails, At
  <2> QED BY <2>1
<1>11. CASE EffectEnds(n)
  <2>1. PICK k \in AgentOutcomes(n) : Go(n, IF k = "unknown" THEN "done" ELSE "result", k)
    BY <1>11 DEF EffectEnds
  <2>2. k \in EXEC_OUT
    BY <1>1 DEF AgentOutcomes
  <2>3. k = "unknown"
    BY <1>2, <2>1, <2>2
  <2>4. exec[n].pc = "effect" /\ exec'[n].out = "unknown"
    BY <1>3, <1>11, <2>1, <2>2, <2>3 DEF EffectEnds, At
  <2> QED BY <2>4
<1>12. CASE Result(n)
  <2>1. exec[n].pc = "result" /\ exec[n].out \in RESULTS
    BY <1>12 DEF Result, At, Kinds
  <2>2. PICK b \in Branches \union {None} :
          LET next == RecordResult(run, n, exec[n].out, b) IN
          IF RecordResultOk(run, n) /\ Applies(run, next)
          THEN \/ run' = next /\ Go(n, "done", "none")
               \/ Fault({run, next}) /\ Go(n, "done", ThrownOn(run'))
          ELSE Go(n, "done", ThrownOn(run)) /\ run' = run
    BY <1>12 DEF Result
  <2>3. CASE run' = RecordResult(run, n, exec[n].out, b) /\ Go(n, "done", "none")
    <3>1. n \notin Unsettled(run')
      BY <1>0, <2>1, <2>3, ReportLeaves
    <3>2. exec'[n].out = "none"
      BY <1>1, <1>3, <2>3
    <3> QED BY <2>1, <3>1, <3>2
  <2>4. CASE Fault({run, RecordResult(run, n, exec[n].out, b)}) /\ Go(n, "done", ThrownOn(run'))
    <3>1. exec'[n].out = "error" \/ ~Open(run')
      BY <1>1, <1>3, <2>4, ThrownIs
    <3> QED BY <2>1, <2>4, <3>1, FaultIs
  <2>5. CASE /\ ~(RecordResultOk(run, n) /\ Applies(run, RecordResult(run, n, exec[n].out, b)))
             /\ Go(n, "done", ThrownOn(run)) /\ run' = run
    <3>1. ~Open(run)
      BY <2>1, <2>5, Lands
    <3> QED BY <2>1, <2>5, <3>1
  <2> QED BY <2>2, <2>3, <2>4, <2>5
<1>13. CASE Wait(n)
  <2>1. exec[n].pc = "wait"
    BY <1>13 DEF Wait, At
  <2>2. Open(run)
    BY <2>1 DEF CallsOpen, Underway, Open, SETTLED, TERMINAL_RUN_STATES
  <2>3. Fault({run, WaitInput(run, n)}) /\ Go(n, "done", ThrownOn(run'))
    BY <1>1, <1>2, <1>13, <2>1, <2>2, Lands DEF Wait
  <2>4. exec'[n].out \in {"none", "error"} /\ (exec'[n].out = "error" \/ ~Open(run'))
    BY <1>1, <1>3, <2>3, ThrownIs
  <2> QED BY <2>1, <2>3, <2>4, FaultIs
<1>14. CASE Waited(n)
  <2>1. exec[n].pc = "waited"
    BY <1>14 DEF Waited, At
  <2>2. exec'[n].out = "none"
    BY <2>1, WaitedMoves
  <2> QED BY <2>1, <2>2 DEF Opens, Intends
<1> QED BY <1>4, <1>5, <1>6, <1>7, <1>8, <1>9, <1>10, <1>11, <1>12, <1>13, <1>14 DEF Steps, CallStep
-----------------------------------------------------------------------------
(* Runs that wait. *)

\* What can be under way while the Run waits, and what can end it.
LEMMA WhileWaiting ==
    ASSUME OrderInv, AccountInv, Next, run.state = "waiting_input"
    PROVE  /\ \A n \in Nodes : ~Dispatches(n) /\ ~Opens(n) /\ ~Brings(n) /\ ~Asks(n)
           /\ run'.state = "waiting_input" => Same(run, run')
           /\ Open(run') => Same(run, run') \/ (run'.state = "running" /\ Unsettled(run') = {} /\ ~FailedSibling(run'))
<1> USE DEF OrderInv, ReadInv, AccountInv
<1>0. run \in DriverRecords /\ Open(run)
  BY DEF Types, Open, SETTLED, TERMINAL_RUN_STATES
<1>1. ASSUME NEW n \in Nodes, Dispatches(n) PROVE FALSE
  <2>1. drv.pc = "act" /\ rec.state # "waiting_input" /\ exec[n].pc = "none"
    BY <1>1 DEF Dispatches, Plain
  <2>2. PICK h \in Active : TRUE
    BY <2>1 DEF Seen
  <2>3. h \in Human
    BY DEF Seen, Active
  <2> QED BY <1>1, <2>2, <2>3 DEF Dispatches
<1>2. \A n \in Nodes : ~Opens(n) /\ ~Asks(n)
  BY OpenMoves, AskMoves
<1>3. \A n \in Nodes : ~Brings(n)
  BY <1>0, BringMoves DEF Late
<1>4. Same(run, run') \/ Settlement \/ Cancels \/ Decides
  BY <1>2, <1>3, RunMoves
<1>5. Settlement => ~Open(run') /\ run'.state # "waiting_input"
  BY DEF Settlement, Open, SETTLED, TERMINAL_RUN_STATES
<1>6. Cancels => ~Open(run') /\ run'.state # "waiting_input"
  <2>1. ~ActiveAttempt(run)
    BY DEF ActiveAttempt, Waiters
  <2> QED BY <1>0, <2>1, CancelMoves
<1>7. Decides => /\ run'.state # "waiting_input"
                 /\ Open(run') => run'.state = "running" /\ Unsettled(run') = {} /\ ~FailedSibling(run')
  BY <1>0, DecideMoves DEF Open, SETTLED, TERMINAL_RUN_STATES
<1> QED BY <1>1, <1>2, <1>3, <1>4, <1>5, <1>6, <1>7

\* A Run begins to wait when its one human decision does.
LEMMA BeginsToWait ==
    ASSUME OrderInv, AccountInv, Next, run'.state = "waiting_input", run.state # "waiting_input"
    PROVE  \E n \in Nodes : Asks(n) /\ run.state = "running"
<1> USE DEF OrderInv, ReadInv, AccountInv
<1>0. run \in DriverRecords
  BY DEF Types
<1>1. ~Same(run, run') /\ ~Settlement
  BY DEF Same, Settlement, SETTLED, TERMINAL_RUN_STATES
<1>2. ~Cancels /\ ~Decides
  BY <1>0, CancelMoves DEF Decides
<1>3. \A n \in Nodes : ~Opens(n) /\ ~Brings(n)
  BY OpenMoves, BringMoves
<1>4. PICK n \in Nodes : Asks(n)
  BY <1>1, <1>2, <1>3, RunMoves
<1> QED BY <1>4, AskMoves

LEMMA WaitersStep ==
    ASSUME OrderInv, AccountInv, Next
    PROVE  Waiters'
<1> USE DEF OrderInv, ReadInv, AccountInv
<1>0. run \in DriverRecords /\ \A h \in Human : h \in Nodes
  BY NodesAssumption DEF Types
<1> SUFFICES ASSUME run'.state = "waiting_input"
             PROVE  /\ \A m, n \in Unsettled(run') : m = n
                    /\ \A n \in Unsettled(run') : n \in Human /\ run'.att[n].st = "waiting_input"
                    /\ ~FailedSibling(run') /\ drv'.stop = "none"
                    /\ \A h \in Human : /\ exec'[h].pc \in {"none", "waited", "done"}
                                        /\ exec'[h].pc = "done" => exec'[h].out \in {"none", "error"}
  BY DEF Waiters
<1>1. CASE run.state = "waiting_input"
  <2>1. Same(run, run')
    BY <1>1, WhileWaiting
  <2>2. /\ \A m, n \in Unsettled(run) : m = n
        /\ \A n \in Unsettled(run) : n \in Human /\ run.att[n].st = "waiting_input"
        /\ ~FailedSibling(run) /\ drv.stop = "none"
        /\ \A h \in Human : /\ exec[h].pc \in {"none", "waited", "done"}
                            /\ exec[h].pc = "done" => exec[h].out \in {"none", "error"}
    BY <1>1 DEF Waiters
  <2>3. drv'.stop = "none"
    <3>1. CASE Top
      <4>1. Reasons \subseteq {"none", "error"}
        BY <1>1, <2>2 DEF Reasons, Completed, Seen
      <4> QED BY <2>2, <3>1, <4>1, TopFinds
    <3> QED BY <2>2, <3>1, StopMoves
  <2>4. ASSUME NEW h \in Human
        PROVE  /\ exec'[h].pc \in {"none", "waited", "done"}
               /\ exec'[h].pc = "done" => exec'[h].out \in {"none", "error"}
    <3>1. CASE Steps(h) /\ exec[h].pc # "none"
      <4>1. exec[h].pc \in {"waited", "done"}
        BY <2>2, <3>1
      <4>2. exec[h].pc # "done"
        BY <3>1, <1>0 DEF Steps, CallMoves, CallStep, EffectEnds, Prepare, PrepareDamaged, PrepareStopped, Intent, Check,
                     Dispatch, DispatchFails, Result, Wait, Waited, At
      <4> QED BY <1>0, <1>1, <3>1, <4>1, <4>2, WaitedMoves
    <3>2. ~Dispatches(h)
      BY <1>0, <1>1, WhileWaiting
    <3> QED BY <1>0, <2>2, <3>1, <3>2, CallsGo
  <2> QED BY <2>1, <2>2, <2>3, <2>4 DEF Same
<1>2. CASE run.state # "waiting_input"
  <2>1. PICK n \in Nodes : Asks(n) /\ run.state = "running"
    BY <1>2, BeginsToWait
  <2>2. /\ exec[n].pc = "wait" /\ exec'[n].pc \in {"waited", "done"} /\ n \in Human
        /\ run'.att[n].st = "waiting_input" /\ Unsettled(run') = Unsettled(run)
        /\ FailedSibling(run') <=> FailedSibling(run)
        /\ \A m \in Nodes : m # n => exec'[m].pc = "none"
    BY <2>1, AskMoves
  <2>3. Open(run)
    BY <2>1 DEF Open, SETTLED, TERMINAL_RUN_STATES
  <2>4. Unsettled(run) \subseteq {n} /\ drv.stop = "none" /\ ~FailedSibling(run)
    BY <2>2, <2>3 DEF SoleHuman, Calm
  <2>5. drv'.stop = "none"
    <3>1. ~Top
      BY <1>2, TopFinds
    <3> QED BY <2>4, <3>1, StopMoves
  <2>6. exec'[n].pc = "done" => exec'[n].out \in {"none", "error"}
    BY <2>1, <2>2, CallEnds DEF Asks
  <2> QED BY <1>0, <2>2, <2>4, <2>5, <2>6
<1> QED BY <1>1, <1>2

\* A call begins to wait with the Run that waits for it.
LEMMA Enters ==
    ASSUME OrderInv, NEW n \in Nodes, Steps(n), exec[n].pc # "waited", exec'[n].pc = "waited"
    PROVE  Asks(n)
<1>1. exec \in [Nodes -> Call]
  BY DEF OrderInv, Types
<1>2. CallMoves(n) /\ (CallStep(n) \/ EffectEnds(n))
  BY DEF Steps
<1>3. exec[n].pc = "wait"
  BY <1>2 DEF CallMoves
<1>4. Wait(n)
  BY <1>2, <1>3 DEF CallStep, EffectEnds, Prepare, PrepareDamaged, PrepareStopped, Intent, Check, Dispatch,
               DispatchFails, Result, Waited, At
<1>5. ASSUME NEW r, Go(n, "done", ThrownOn(r)) PROVE FALSE
  <2>1. "done" \in EXEC_PC /\ ThrownOn(r) \in EXEC_OUT
    BY ThrownIs DEF EXEC_PC, EXEC_OUT, RESULTS
  <2>2. exec'[n].pc = "done"
    BY <1>1, <1>5, <2>1, GoIs
  <2> QED BY <2>2
<1>6. Applies(run, WaitInput(run, n)) /\ run' = WaitInput(run, n)
  BY <1>4, <1>5 DEF Wait
<1> QED BY <1>3, <1>6 DEF Asks, Waits

LEMMA AttendedStep ==
    ASSUME OrderInv, AccountInv, Next
    PROVE  Attended'
<1> USE DEF OrderInv, ReadInv, AccountInv
<1> SUFFICES ASSUME NEW n \in Unsettled(run'), exec'[n].pc = "waited", Open(run')
             PROVE  run'.state \in {"waiting_input", "cancelling"}
  BY DEF Attended
<1>0. run \in DriverRecords /\ n \in Nodes /\ Open(run)
  BY SettledStays DEF Types, Unsettled
<1>1. ~Opens(n) /\ n \in Unsettled(run)
  <2>1. ~Opens(n)
    BY <1>0, OpenMoves
  <2> QED BY <2>1, UnsettledMoves
<1>2. CASE Asks(n)
  <2>1. run.state \in {"running", "cancelling"}
    BY <1>0, <1>2, AskMoves
  <2> QED BY <1>0, <1>2, <2>1, AskMoves
<1>3. CASE ~Asks(n)
  <2>1. exec[n].pc = "waited"
    <3>1. ~(Steps(n) /\ exec[n].pc # "waited")
      BY <1>0, <1>3, Enters
    <3>2. CASE Dispatches(n) /\ exec'[n].pc = "prep"
      BY <3>2
    <3> QED BY <1>0, <3>1, <3>2, CallsGo
  <2>2. run.state \in {"waiting_input", "cancelling"}
    BY <1>0, <1>1, <2>1 DEF Attended
  <2>3. CASE run.state = "waiting_input"
    BY <1>1, <2>3, WhileWaiting DEF Same
  <2>4. CASE run.state = "cancelling"
    <3>1. Same(run, run') => run'.state = "cancelling"
      BY <2>4 DEF Same
    <3>2. ~Settlement /\ ~Cancels /\ ~Decides
      BY <1>0, <2>4, CancelMoves DEF Settlement, Open, Decides
    <3>3. \A m \in Nodes : /\ ~Opens(m)
                           /\ Brings(m) => run'.state = "cancelling"
                           /\ Asks(m) => run'.state = "cancelling"
      <4> SUFFICES ASSUME NEW m \in Nodes
                   PROVE  /\ ~Opens(m)
                          /\ Brings(m) => run'.state = "cancelling"
                          /\ Asks(m) => run'.state = "cancelling"
        OBVIOUS
      <4>1. "cancelled" \in SETTLED
        BY DEF SETTLED, TERMINAL_RUN_STATES
      <4> QED BY <2>4, <4>1, OpenMoves, BringMoves, AskMoves DEF Open
    <3> QED BY <3>1, <3>2, <3>3, RunMoves
  <2> QED BY <2>2, <2>3, <2>4
<1> QED BY <1>2, <1>3
-----------------------------------------------------------------------------
(* The job, and what it does to the record. *)

LEMMA Leaves ==
    ASSUME Types, NEW pc, Leave(pc)
    PROVE  drv'.pc = pc /\ drv'.stop = drv.stop /\ drv'.fatal = drv.fatal
BY DEF Leave, Types, Job

\* Where a step leaves the job.
LEMMA JobGoes ==
    ASSUME OrderInv, Next
    PROVE  \/ drv' = drv
           \/ Top \/ ActAbort \/ ActSettle \/ ActFatal \/ ActWaiting \/ ActSkip \/ ActComplete \/ Finally \/ Catch \/ Exit
           \/ /\ drv.pc \in {"act", "race"} /\ drv'.pc \in {"top", "race"}
              /\ drv'.stop = drv.stop /\ drv'.fatal = drv.fatal
           \/ /\ drv.pc \in {"off", "start", "end"} /\ drv'.pc \in {"off", "start", "top", "end"}
              /\ drv'.fatal => drv.fatal
<1> USE DEF OrderInv
<1> DEFINE Looping == /\ drv.pc \in {"act", "race"} /\ drv'.pc \in {"top", "race"}
                      /\ drv'.stop = drv.stop /\ drv'.fatal = drv.fatal
           Starting == /\ drv.pc \in {"off", "start", "end"} /\ drv'.pc \in {"off", "start", "top", "end"}
                       /\ drv'.fatal => drv.fatal
<1>1. CASE ActDispatch \/ ActRace \/ Race
  <2>1. drv.pc \in {"act", "race"} /\ (Leave("top") \/ Leave("race"))
    BY <1>1 DEF ActDispatch, ActRace, Race, Plain, Driving, Acting
  <2> QED BY <2>1, Leaves
<1>2. CASE Start
  <2>1. drv.pc = "start" /\ (Leave("top") \/ Leave("end"))
    BY <1>2 DEF Start
  <2> QED BY <2>1, Leaves
<1>3. CASE End
  <2>1. drv' = [Off EXCEPT !.pc = "start"] \/ drv' = [Off EXCEPT !.pc = "off"]
    BY <1>3 DEF End
  <2>2. drv'.pc \in {"start", "off"} /\ drv'.fatal = FALSE
    BY <2>1 DEF Off
  <2> QED BY <1>3, <2>2 DEF End
<1>4. ASSUME Schedule PROVE drv' = drv \/ Starting
  <2>1. CASE Closing \/ HasJob
    BY <1>4, <2>1 DEF Schedule
  <2>2. CASE ~(Closing \/ HasJob)
    <3>1. drv.pc = "off" /\ drv' = [Off EXCEPT !.pc = "start"]
      BY <1>4, <2>2 DEF Schedule, HasJob
    <3>2. drv'.pc = "start" /\ drv'.fatal = FALSE
      BY <3>1 DEF Off
    <3> QED BY <3>1, <3>2
  <2> QED BY <2>1, <2>2
<1>5. CASE Restart
  <2>1. drv.pc = "off" /\ (drv' = [Off EXCEPT !.pc = "start"] \/ drv' = Off)
    BY <1>5 DEF Restart, Life, Off
  <2>2. drv'.pc \in {"start", "off"} /\ drv'.fatal = FALSE
    BY <2>1 DEF Off
  <2> QED BY <2>1, <2>2
<1> HIDE DEF Looping, Starting
<1>6. CASE FinallyAbort \/ CaptureFails \/ Cancel \/ DecideRun \/ Close \/ CloseAborts \/ CloseDone
  BY <1>6 DEF FinallyAbort, CaptureFails, Cancel, DecideRun, Close, CloseAborts, CloseDone, CloseFrame
<1>7. CASE Capture \/ CancelFollows \/ DecideFollows
  BY <1>4, <1>7 DEF Capture, CancelFollows, DecideFollows, Starting
<1>8. ASSUME NEW n \in Nodes, CallStep(n) \/ EffectEnds(n) PROVE drv' = drv
  BY <1>8 DEF CallStep, EffectEnds, Prepare, PrepareDamaged, PrepareStopped, Intent, Check, Dispatch, DispatchFails,
       Result, Wait, Waited, CallFrame
<1> QED BY <1>1, <1>2, <1>3, <1>5, <1>6, <1>7, <1>8 DEF Next, JobStep, Starting

\* What changes the record: RunMoves, with the settlements told apart.
LEMMA RecordMoves ==
    ASSUME OrderInv, Next
    PROVE  \/ Same(run, run') \/ Cancels \/ Decides
           \/ \E n \in Nodes : Opens(n) \/ Brings(n) \/ Asks(n)
           \/ run.admission = "pending" \/ ActSettle \/ ActComplete \/ Catch \/ Restart
<1> USE DEF OrderInv
<1>0. run \in DriverRecords
  BY DEF Types
<1>1. run' = run => Same(run, run')
  BY SameAttempts
<1>2. run' = ClosingCancel => Same(run, run') \/ Cancels
  BY <1>0, <1>1, ClosingIs DEF Cancels
<1>3. CASE Capture \/ CaptureFails \/ Start
  BY <1>1, <1>3 DEF Capture, CaptureFails, Start, Life
<1>4. CASE ActAbort \/ ActFatal
  BY <1>1, <1>2, <1>4 DEF ActAbort, ActFatal, Fault
<1>5. CASE ActSkip
  <2>1. run' = run \/ run' = Skip(run, SkippedNodes(rec))
    BY <1>5 DEF ActSkip, JobWrite, Written, Fault
  <2> QED BY <1>0, <1>1, <2>1, SkipLeaves
<1>6. CASE Top \/ ActWaiting \/ ActDispatch \/ ActRace \/ Race \/ FinallyAbort \/ Finally \/ End
  BY <1>1, <1>6 DEF Top, ActWaiting, ActDispatch, ActRace, Race, FinallyAbort, Finally, End
<1>7. CASE Cancel
  BY <1>1, <1>7 DEF Cancel, Cancels, Fault
<1>8. CASE DecideRun
  <2>1. CASE run' = run
    BY <1>1, <2>1
  <2>2. CASE run' # run
    <3>1. PICK d \in Decisions, n \in Waiting(run), approve \in BOOLEAN :
            \E b \in ApprovedBranches(n) : DecideOk(run, d) /\ run' \in {run, Decide(run, n, d, approve, b)}
      BY <1>8 DEF DecideRun, Fault
    <3>2. PICK b \in ApprovedBranches(n) : DecideOk(run, d) /\ run' \in {run, Decide(run, n, d, approve, b)}
      BY <3>1
    <3>3. b \in Branches /\ run.state = "waiting_input"
      BY <3>2, GraphAssumption DEF ApprovedBranches, DecideOk
    <3> QED BY <2>2, <3>2, <3>3 DEF Decides
  <2> QED BY <2>1, <2>2
<1>9. CASE CancelFollows \/ DecideFollows \/ Close \/ CloseAborts \/ CloseDone \/ Exit
  BY <1>1, <1>9 DEF CancelFollows, DecideFollows, Close, CloseAborts, CloseDone, CloseFrame, Exit
<1>10. ASSUME NEW n \in Nodes, CallStep(n) \/ EffectEnds(n)
       PROVE  Same(run, run') \/ Cancels \/ Opens(n) \/ Brings(n) \/ Asks(n)
  <2>1. Steps(n)
    BY <1>10, CallsMove DEF Steps
  <2> QED BY <1>1, <2>1 DEF Steps, CallMoves, Writes, Gives, Opens, Brings, Asks
<1> QED BY <1>3, <1>4, <1>5, <1>6, <1>7, <1>8, <1>9, <1>10 DEF Next, JobStep

\* A call that has not ended is forgotten by a crash alone.
LEMMA Forgets ==
    ASSUME OrderInv, Next, NEW n \in Nodes, exec[n].pc # "none", exec'[n].pc = "none"
    PROVE  Exit \/ (exec[n].pc = "done" /\ (Top \/ Finally))
<1> USE DEF OrderInv
<1>0. exec \in [Nodes -> Call]
  BY DEF Types
<1>1. ~(exec' = exec \/ exec' = AbortAll)
  BY <1>0, AbortAllIs
<1>2. CASE Top
  <2>1. exec'[n] = IF n \in Completed THEN Idle ELSE exec[n]
    BY <1>2 DEF Top
  <2> QED BY <1>2, <2>1 DEF Completed
<1>3. CASE Finally
  BY <1>3 DEF Finally, Active, Completed
<1>4. CASE ActDispatch
  <2>1. PICK m \in Dispatchable : exec' = [exec EXCEPT ![m] = [Idle EXCEPT !.pc = "prep"]]
    BY <1>4 DEF ActDispatch
  <2>2. [Idle EXCEPT !.pc = "prep"].pc = "prep"
    BY DEF Idle
  <2> QED BY <1>0, <2>1, <2>2
<1>5. ASSUME JobStep, ~Top, ~Finally, ~ActDispatch PROVE FALSE
  BY <1>1, <1>5 DEF JobStep, Start, ActAbort, ActSettle, ActFatal, ActWaiting, ActSkip, ActRace, ActComplete, Race,
       FinallyAbort, Catch, End
<1>6. ASSUME OtherStep, ~Exit PROVE FALSE
  BY <1>1, <1>6 DEF OtherStep, Capture, CaptureFails, Cancel, CancelFollows, DecideRun, DecideFollows, Close, CloseAborts,
       CloseDone, CloseFrame, Restart
<1>7. ASSUME NEW m \in Nodes, CallStep(m) \/ EffectEnds(m) PROVE FALSE
  <2>1. CallMoves(m)
    BY <1>7, CallsMove
  <2> QED BY <2>1 DEF CallMoves
<1> QED BY <1>2, <1>3, <1>4, <1>5, <1>6, <1>7 DEF Next, OtherStep
-----------------------------------------------------------------------------
(* Failures and late results. *)

\* In an open Run something fails by its own result alone.
LEMMA FailsBy ==
    ASSUME OrderInv, Next, Open(run'), FailedSibling(run'), ~FailedSibling(run)
    PROVE  \E n \in Nodes : Brings(n)
<1> USE DEF OrderInv
<1>0. run \in DriverRecords
  BY DEF Types
<1>1. ~Same(run, run') /\ ~Settlement
  BY DEF Same, Settlement, Open
<1>2. ~Cancels
  BY <1>0, CancelMoves
<1>3. ASSUME Decides PROVE FALSE
  <2>1. PICK n \in Waiting(run), d \in Decisions, approve \in BOOLEAN, b \in Branches :
          run' = Decide(run, n, d, approve, b)
    BY <1>3 DEF Decides
  <2>2. approve
    BY <1>0, <2>1, DecideLeaves DEF Open, SETTLED, TERMINAL_RUN_STATES
  <2> QED BY <1>0, <2>1, <2>2, DecideLeaves
<1>4. \A n \in Nodes : ~Opens(n) /\ ~Asks(n)
  BY OpenMoves, AskMoves
<1> QED BY <1>1, <1>2, <1>3, <1>4, RunMoves

LEMMA CalmStep ==
    ASSUME OrderInv, AccountInv, Next
    PROVE  Calm'
<1> USE DEF OrderInv, ReadInv, AccountInv
<1> SUFFICES ASSUME Open(run'), NEW h \in Human, exec'[h].pc \in {"prep", "intent", "check", "wait"}
             PROVE  drv'.stop = "none" /\ ~FailedSibling(run')
  BY DEF Calm
<1>0. h \in Nodes /\ Open(run) /\ drv \in Job
  BY SettledStays, NodesAssumption DEF Types
<1>1. CASE exec[h].pc \in {"prep", "intent", "check", "wait"}
  <2>1. drv.stop = "none" /\ ~FailedSibling(run)
    BY <1>0, <1>1 DEF Calm
  <2>2. \A m \in Nodes : m # h => exec[m].pc = "none"
    BY <1>0, <1>1 DEF Alone
  <2>3. \A m \in Nodes : ~Brings(m)
    BY <1>1, <2>2, BringMoves
  <2>4. ~FailedSibling(run')
    BY <2>1, <2>3, FailsBy
  <2>5. Top => drv'.stop = "none"
    <3>1. Reasons = {}
      BY <1>1, <2>2 DEF Reasons, Completed
    <3> QED BY <2>1, <3>1, TopFinds
  <2> QED BY <2>1, <2>4, <2>5, StopMoves
<1>2. CASE Dispatches(h)
  <2>1. Active = {} /\ run' = run /\ drv.pc = "act" /\ drv' = [drv EXCEPT !.pc = "top"]
    BY <1>0, <1>2 DEF Dispatches
  <2>2. drv.stop = "none"
    BY <1>2 DEF Dispatches, Plain, Driving, MustStop
  <2>3. ~FailedSibling(run)
    BY <1>0, <2>1, <2>2 DEF Reading
  <2> QED BY <1>0, <2>1, <2>2, <2>3 DEF Job
<1>3. CASE Steps(h) /\ exec[h].pc \notin {"prep", "intent", "check", "wait"}
  BY <1>3 DEF Steps, CallMoves
<1> QED BY <1>0, <1>1, <1>2, <1>3, CallsGo

\* An Attempt that runs, in a Run that runs or is cancelled.
Held(r, n) ==
    /\ r.state \in {"running", "cancelling"}
    /\ r.att[n].st \in {"running", "cancelling"} /\ r.att[n].res = "none"

LEMMA HeldIs ==
    ASSUME NEW r, NEW n \in Nodes, Held(r, n)
    PROVE  n \in Unsettled(r) /\ Open(r) /\ ~Terminal(r) /\ ActiveAttempt(r)
<1>1. n \in Unsettled(r)
  BY DEF Held, Unsettled, HasIntent, Settled, TERMINAL_ATTEMPTS, TERMINAL_RUN_STATES
<1> QED BY <1>1 DEF Held, Open, Terminal, SETTLED, TERMINAL_RUN_STATES, ActiveAttempt

LEMMA HeldMoves ==
    ASSUME OrderInv, AccountInv, Next, Open(run'), NEW n \in Nodes, Held(run, n), exec[n].pc # "none", ~Brings(n), ~Asks(n)
    PROVE  Held(run', n)
<1> USE DEF OrderInv, ReadInv, AccountInv
<1>0. run \in DriverRecords /\ n \in Unsettled(run) /\ ActiveAttempt(run) /\ run.state \in {"running", "cancelling"}
  BY HeldIs DEF Types, Held
<1>1. CASE Same(run, run')
  BY <1>0, <1>1 DEF Same, Held
<1>2. ~Settlement
  BY DEF Settlement, Open
<1>3. CASE Cancels
  BY <1>0, <1>3, CancelMoves DEF Held
<1>4. ~Decides
  BY <1>0 DEF Decides
<1>5. ASSUME NEW m \in Nodes, Opens(m) PROVE Held(run', n)
  BY <1>0, <1>5, OpenMoves DEF Held
<1>6. ASSUME NEW m \in Nodes, Brings(m) PROVE Held(run', n)
  <2>1. m # n /\ run'.att[n] = run.att[n]
    BY <1>6, BringMoves
  <2>2. run'.state = run.state
    BY <1>6, BringMoves DEF Open, SETTLED, TERMINAL_RUN_STATES
  <2> QED BY <2>1, <2>2 DEF Held
<1>7. ASSUME NEW m \in Nodes, Asks(m) PROVE FALSE
  BY <1>7, AskMoves
<1> QED BY <1>1, <1>2, <1>3, <1>4, <1>5, <1>6, <1>7, RunMoves

LEMMA LateStep ==
    ASSUME OrderInv, AccountInv, Next
    PROVE  Late'
<1> USE DEF OrderInv, ReadInv, AccountInv
<1> SUFFICES ASSUME NEW n \in Nodes, Open(run'),
                    exec'[n].pc = "result" \/ (exec'[n].pc = "waited" /\ run'.state = "cancelling")
             PROVE  Held(run', n)
  BY DEF Late, Held
<1>0. run \in DriverRecords /\ Open(run)
  BY SettledStays DEF Types
<1>1. CASE exec[n].pc = "result" /\ exec'[n].pc = "result"
  <2>1. Held(run, n)
    BY <1>0, <1>1 DEF Late, Held
  <2>2. ~Brings(n) /\ ~Asks(n)
    BY <1>1, BringMoves, AskMoves
  <2> QED BY <1>1, <2>1, <2>2, HeldMoves
<1>2. CASE Steps(n) /\ exec[n].pc # "waited" /\ exec'[n].pc = "result"
  <2>1. exec[n].pc \in Underway /\ run' = run
    BY <1>2 DEF Steps, CallMoves, Underway
  <2> QED BY <2>1 DEF CallsOpen, Held
<1>3. CASE Steps(n) /\ exec[n].pc = "waited"
  <2>1. run' = run /\ run.state = "cancelling"
    BY <1>3, WaitedMoves
  <2> QED BY <1>0, <1>3, <2>1 DEF Late, Held
<1>4. CASE Steps(n) /\ exec[n].pc # "waited" /\ exec'[n].pc = "waited" /\ run'.state = "cancelling"
  <2>1. Asks(n)
    BY <1>4, Enters
  <2>2. exec[n].pc = "wait" /\ run' = run
    BY <1>4, <2>1, AskMoves
  <2> QED BY <2>2 DEF CallsOpen, Underway, Held
<1>5. CASE exec[n].pc = "waited" /\ exec'[n].pc = "waited" /\ run'.state = "cancelling"
  <2>0. ~Brings(n) /\ ~Asks(n)
    BY <1>5, BringMoves, AskMoves
  <2>1. CASE run.state = "cancelling"
    BY <1>0, <1>5, <2>0, <2>1, HeldMoves DEF Late, Held
  <2>2. CASE run.state # "cancelling"
    <3>1. Cancels
      <4>1. ~Same(run, run') /\ ~Settlement
        BY <1>5, <2>2 DEF Same, Settlement, SETTLED, TERMINAL_RUN_STATES
      <4>2. ~Decides
        BY <1>0, <1>5, DecideMoves
      <4>3. \A m \in Nodes : ~Opens(m) /\ ~Brings(m) /\ ~Asks(m)
        BY <1>5, <2>2, OpenMoves, BringMoves, AskMoves
      <4> QED BY <4>1, <4>2, <4>3, RunMoves
    <3>2. /\ ActiveAttempt(run) /\ Unsettled(run') = Unsettled(run)
          /\ \A m \in Unsettled(run) : run'.att[m].st = "cancelling" /\ run'.att[m].res = "none"
      BY <1>0, <1>5, <3>1, CancelMoves
    <3>3. PICK m \in Unsettled(run) : TRUE
      BY <3>2 DEF ActiveAttempt
    <3>4. n \in Human
      BY <1>5 DEF Kinds
    <3>5. m = n
      BY <1>0, <1>5, <3>3, <3>4 DEF SoleHuman
    <3> QED BY <1>5, <3>2, <3>3, <3>5 DEF Held
  <2> QED BY <2>1, <2>2
<1>6. ~Dispatches(n) \/ exec'[n].pc = "prep"
  <2>1. exec \in [Nodes -> Call] /\ [Idle EXCEPT !.pc = "prep"].pc = "prep"
    BY DEF Types, Idle
  <2> QED BY <2>1 DEF Dispatches
<1> QED BY <1>1, <1>2, <1>3, <1>4, <1>5, <1>6, CallsGo
-----------------------------------------------------------------------------
(* What driveRun has read, and when it may end. *)

\* A call that only comes to its end does so.
LEMMA RestsOn ==
    ASSUME OrderInv, Next, NEW n \in Nodes, exec[n].pc \in Resting, ~Dispatches(n)
    PROVE  exec'[n].pc \in Resting
<1>1. CASE Steps(n) /\ exec[n].pc # "none"
  BY <1>1 DEF Steps, CallMoves, Resting
<1> QED BY <1>1, CallsGo DEF Resting

LEMMA ReadingStep ==
    ASSUME OrderInv, ReadInv, Next
    PROVE  Reading'
<1> USE DEF OrderInv, ReadInv
<1> SUFFICES ASSUME drv'.pc = "act" PROVE Reading'
  BY DEF Reading
<1>0. run \in DriverRecords
  BY DEF Types
<1>1. CASE Top
  <2>1. rec' = run /\ run' = run /\ (drv'.stop = "none" => ~FailedSibling(run))
    BY <1>1, TopFinds
  <2>2. ASSUME run.state = "waiting_input", NEW n \in Nodes PROVE exec'[n].pc \in Resting
    <3>1. exec[n].pc \in Resting
      BY <2>2 DEF Paused, Resting
    <3>2. ~Dispatches(n)
      BY <1>1, TopFinds DEF Dispatches
    <3> QED BY <3>1, <3>2, RestsOn
  <2> QED BY <2>1, <2>2 DEF Reading
<1>2. CASE drv.pc = "act" /\ UNCHANGED <<drv, rec>>
  <2>1. ASSUME NEW n \in Nodes, exec[n].pc # "none" PROVE exec'[n].pc # "none"
    BY <1>2, <2>1, ActKeeps
  <2>2. \/ Same(run, run') \/ Cancels \/ Decides
        \/ \E n \in Nodes : Opens(n) \/ Brings(n) \/ Asks(n)
    <3>1. run.admission # "pending" /\ ~Restart
      BY <1>2 DEF Unadmitted, Restart, Life, Off
    <3>2. ~ActSettle /\ ~ActComplete /\ ~Catch
      BY <1>2, Leaves DEF ActSettle, ActComplete, JobWrite, Catch
    <3> QED BY <3>1, <3>2, RecordMoves
  <2>3. \A n \in Nodes : ~Dispatches(n)
    <3>1. drv \in Job
      BY DEF Types
    <3> QED BY <1>2, <3>1 DEF Dispatches, Job
  <2>4. run.state \in SETTLED => run'.state = run.state
    <3> SUFFICES ASSUME run.state \in SETTLED PROVE run'.state = run.state
      OBVIOUS
    <3>1. ~Cancels
      BY <1>0, CancelMoves
    <3>2. run.state \notin {"queued", "running", "waiting_input", "cancelling"}
      BY DEF SETTLED, TERMINAL_RUN_STATES
    <3>3. ~Decides /\ \A n \in Nodes : ~Opens(n) /\ ~Asks(n)
      BY <3>2, OpenMoves, AskMoves DEF Decides
    <3>4. \A n \in Nodes : Brings(n) => run'.state = run.state
      BY <3>2, BringMoves
    <3> QED BY <2>2, <3>1, <3>3, <3>4 DEF Same
  <2>5. run'.state = "recovery_required" => run.state = "recovery_required"
    <3> SUFFICES ASSUME run'.state = "recovery_required" PROVE run.state = "recovery_required"
      OBVIOUS
    <3>1. ~Cancels /\ ~Decides
      BY <1>0, CancelMoves, DecideLeaves DEF Decides
    <3>2. \A n \in Nodes : ~Opens(n) /\ (Brings(n) \/ Asks(n) => run.state = "recovery_required")
      BY OpenMoves, BringMoves, AskMoves
    <3> QED BY <2>2, <3>1, <3>2 DEF Same
  <2>6. ASSUME Active' = {}, Open(run'), FailedSibling(run') PROVE FailedSibling(rec)
    <3>1. Active = {}
      BY <2>1, <2>6 DEF Active
    <3>2. Open(run)
      BY <2>6, SettledStays
    <3>3. \A n \in Nodes : ~Brings(n)
      BY <3>1, BringMoves DEF Active
    <3>4. FailedSibling(run)
      BY <2>6, <3>3, FailsBy
    <3> QED BY <1>2, <3>1, <3>2, <3>4 DEF Reading
  <2>7. ASSUME rec.state = "waiting_input", NEW n \in Nodes PROVE exec'[n].pc \in Resting
    BY <1>2, <2>3, <2>7, RestsOn DEF Reading
  <2>8. ASSUME run.state \in SETTLED \union {"cancelling"} PROVE run'.state \in SETTLED \union {"cancelling"}
    <3>1. CASE run.state = "cancelling"
      <4>1. "cancelled" \in SETTLED
        BY DEF SETTLED, TERMINAL_RUN_STATES
      <4>2. ~Cancels /\ ~Decides
        BY <1>0, <3>1, CancelMoves DEF Decides
      <4>3. \A n \in Nodes : /\ ~Opens(n)
                             /\ Brings(n) \/ Asks(n) => run'.state \in {"cancelling", "cancelled"}
        BY <3>1, OpenMoves, BringMoves, AskMoves
      <4> QED BY <2>2, <3>1, <4>1, <4>2, <4>3 DEF Same
    <3> QED BY <2>4, <2>8, <3>1
  <2>9. /\ rec.state \in SETTLED => run.state = rec.state
        /\ run.state = "recovery_required" => rec.state = "recovery_required"
        /\ rec.state = "cancelling" => run.state \in SETTLED \union {"cancelling"}
        /\ drv.stop = "none" => ~FailedSibling(rec)
    BY <1>2 DEF Reading
  <2> QED BY <1>2, <2>4, <2>5, <2>6, <2>7, <2>8, <2>9 DEF Reading
<1> QED BY <1>1, <1>2, Reads

LEMMA FinishingStep ==
    ASSUME OrderInv, ReadInv, Next
    PROVE  Finishing'
<1> USE DEF OrderInv, ReadInv
<1> SUFFICES ASSUME drv'.pc = "finally", NEW n \in Nodes PROVE exec'[n].pc \in Resting
  BY DEF Finishing
<1>0. drv \in Job
  BY DEF Types
<1>1. ~Dispatches(n)
  BY <1>0 DEF Dispatches, Job
<1>2. CASE drv' = drv
  BY <1>1, <1>2, RestsOn DEF Finishing
<1>3. CASE ActSettle \/ ActComplete
  BY <1>3 DEF ActSettle, ActComplete, Active, Resting
<1>4. CASE ActWaiting
  <2>1. drv.pc = "act" /\ rec.state = "waiting_input"
    BY <1>4 DEF ActWaiting, Driving, Acting
  <2> QED BY <1>1, <2>1, RestsOn DEF Reading
<1>5. ASSUME NEW pc, pc # "finally", Leave(pc) PROVE FALSE
  BY <1>5, Leaves
<1>6. ~Top /\ ~Exit
  BY TopFinds DEF Exit, Off
<1>7. ~ActAbort /\ ~ActFatal /\ ~ActSkip
  BY <1>5 DEF ActAbort, ActFatal, ActSkip, JobWrite
<1>8. ~Finally /\ ~Catch
  BY <1>5 DEF Finally, Catch
<1> QED BY <1>2, <1>3, <1>4, <1>6, <1>7, <1>8, JobGoes
\* While the Run waits nothing is dispatched.
LEMMA PausedStep ==
    ASSUME OrderInv, ReadInv, Next
    PROVE  Paused'
<1> USE DEF OrderInv, ReadInv
<1> SUFFICES ASSUME run'.state = "waiting_input", NEW n \in Nodes PROVE exec'[n].pc \in {"none", "waited", "done"}
  BY DEF Paused
<1>0. run \in DriverRecords
  BY DEF Types
<1>1. CASE run.state = "waiting_input"
  <2>1. ~Dispatches(n)
    <3> SUFFICES ASSUME Dispatches(n) PROVE FALSE
      OBVIOUS
    <3>1. drv.pc = "act" /\ rec.state # "waiting_input" /\ exec[n].pc = "none"
      BY DEF Dispatches, Plain
    <3>2. PICK h \in Active : TRUE
      BY <1>1, <3>1 DEF Seen
    <3>3. h \in Human
      BY <1>1 DEF Seen, Active
    <3> QED BY <3>2, <3>3 DEF Dispatches
  <2>2. exec[n].pc \in {"none", "waited", "done"}
    BY <1>1 DEF Paused
  <2>3. CASE Steps(n) /\ exec[n].pc # "none"
    <3>1. CASE exec[n].pc = "waited"
      BY <1>1, <2>3, <3>1, WaitedMoves
    <3>2. CASE exec[n].pc = "done"
      BY <2>3, <3>2 DEF Steps, CallMoves
    <3> QED BY <2>2, <2>3, <3>1, <3>2
  <2> QED BY <2>1, <2>2, <2>3, CallsGo
<1>2. CASE run.state # "waiting_input"
  <2>1. PICK m \in Nodes : Asks(m)
    <3>1. ~Same(run, run') /\ ~Settlement
      BY <1>2 DEF Same, Settlement, SETTLED, TERMINAL_RUN_STATES
    <3>2. ~Cancels /\ ~Decides
      BY <1>0, <1>2, CancelMoves DEF Decides
    <3>3. \A k \in Nodes : ~Opens(k) /\ ~Brings(k)
      BY <1>2, OpenMoves, BringMoves
    <3> QED BY <3>1, <3>2, <3>3, RunMoves
  <2> QED BY <2>1, AskMoves
<1> QED BY <1>1, <1>2

LEMMA InitRead == Init => ReadInv
<1> SUFFICES ASSUME Init PROVE ReadInv
  OBVIOUS
<1>1. run.state = "queued" /\ drv.pc = "off"
  BY DEF Init, NewRun, Off
<1> QED BY <1>1 DEF ReadInv, Seen, Paused, Reading, Finishing

LEMMA ReadKept == Spec => []ReadInv
<1>1. OrderInv /\ ReadInv /\ [Next]_vars => ReadInv'
  <2> SUFFICES ASSUME OrderInv, ReadInv, [Next]_vars PROVE ReadInv'
    OBVIOUS
  <2>1. CASE Next
    BY <2>1, SeenStep, PausedStep, ReadingStep, FinishingStep DEF ReadInv
  <2>2. CASE UNCHANGED vars
    <3>1. run' = run /\ drv' = drv /\ rec' = rec /\ exec' = exec
      BY <2>2 DEF vars, host, ghost
    <3> QED BY <3>1 DEF ReadInv, Seen, Paused, Reading, Finishing, Active
  <2> QED BY <2>1, <2>2
<1> QED BY <1>1, InitRead, OrderKept, PTL DEF Spec

LEMMA AwaitedStep ==
    ASSUME OrderInv, AccountInv, Next
    PROVE  Awaited'
<1> USE DEF OrderInv, ReadInv, AccountInv
<1> SUFFICES ASSUME drv'.pc = "act", rec'.state = "waiting_input", Open(run')
             PROVE  run'.state = "waiting_input" \/ Unsettled(run') = {}
  BY DEF Awaited
<1>1. CASE Top
  BY <1>1, TopFinds
<1>2. CASE drv.pc = "act" /\ UNCHANGED <<drv, rec>>
  <2>1. Open(run) /\ (run.state = "waiting_input" \/ Unsettled(run) = {})
    BY <1>2, SettledStays DEF Awaited
  <2>2. CASE run.state = "waiting_input"
    BY <2>2, WhileWaiting DEF Same
  <2>3. CASE Unsettled(run) = {}
    <3>1. \A n \in Nodes : ~Opens(n)
      BY <1>2, OpenMoves DEF Reading, Resting
    <3>2. Unsettled(run') \subseteq Nodes
      BY DEF Unsettled
    <3> QED BY <2>3, <3>1, <3>2, UnsettledMoves
  <2> QED BY <2>1, <2>2, <2>3
<1> QED BY <1>1, <1>2, Reads
-----------------------------------------------------------------------------
(* Failing writes. *)

LEMMA FaultsGrow ==
    ASSUME OrderInv, Next
    PROVE  faults' = faults \/ faults' = faults + 1
<1>0. faults \in Nat
  BY DriverAssumption DEF OrderInv, Types
<1>1. \A S : Fault(S) => faults' = faults + 1
  BY DEF Fault
<1>2. CASE JobStep
  BY <1>0, <1>1, <1>2 DEF JobStep, Start, Top, ActAbort, ActSettle, ActFatal, ActWaiting, ActSkip, ActDispatch, ActRace,
       ActComplete, Race, FinallyAbort, Finally, Catch, End, JobWrite
<1>3. CASE OtherStep
  BY <1>0, <1>1, <1>3 DEF OtherStep, Capture, CaptureFails, Cancel, CancelFollows, DecideRun, DecideFollows, Close,
       CloseAborts, CloseDone, CloseFrame, Exit, Restart
<1>4. ASSUME NEW n \in Nodes, CallStep(n) \/ EffectEnds(n) PROVE faults' = faults \/ faults' = faults + 1
  BY <1>0, <1>1, <1>4 DEF CallStep, EffectEnds, Prepare, PrepareDamaged, PrepareStopped, Intent, Check, Dispatch,
       DispatchFails, Result, Wait, Waited
<1> QED BY <1>2, <1>3, <1>4 DEF Next, OtherStep

\* The job's own writes fail by a fault, or behind a settled Run.
LEMMA WritesFail ==
    ASSUME OrderInv, AccountInv, drv'.pc = "throw", ActSettle \/ ActSkip \/ ActComplete \/ ActAbort
    PROVE  faults' >= 1 \/ ~Open(run')
<1> USE DEF OrderInv, ReadInv, AccountInv
<1>0. run \in DriverRecords /\ drv.pc = "act"
  BY DEF Types, ActSettle, ActSkip, ActComplete, ActAbort, Plain, Driving, Acting
<1>1. \A S : Fault(S) => faults' >= 1
  BY FaultIs
<1>2. ASSUME NEW pc, pc # "throw", Leave(pc) PROVE FALSE
  BY <1>2, Leaves
<1>3. ASSUME NEW r, NEW next, NEW pc, pc # "throw", JobWrite(r, next, pc), ~(faults' >= 1)
      PROVE  run' = r /\ ~Applies(r, next)
  BY <1>1, <1>2, <1>3 DEF JobWrite, Written
<1>4. CASE ActAbort
  BY <1>1, <1>2, <1>4 DEF ActAbort
<1>5. CASE ActSkip
  <2>1. ASSUME ~Applies(run, Skip(run, SkippedNodes(rec))) PROVE ~Open(run)
    <3>1. Skip(run, SkippedNodes(rec)).state = run.state
      BY <1>0, SkipLeaves DEF Same
    <3> QED BY <2>1, <3>1 DEF Applies, CanTransitionRun, Terminal, Open, SETTLED
  <2> QED BY <1>3, <1>5, <2>1 DEF ActSkip
<1>6. CASE ActComplete
  <2>1. Active = {} /\ drv.pc = "act" /\ rec.state # "waiting_input"
    BY <1>0, <1>6 DEF ActComplete, Plain
  <2>2. run.state # "waiting_input"
    BY <2>1 DEF Seen
  <2>3. PICK t \in {"succeeded", "recovery_required"} : JobWrite(run, SettleTerminal(run, t), "finally")
    BY <1>6 DEF ActComplete
  <2>4. ASSUME Open(run) PROVE Applies(run, SettleTerminal(run, t))
    <3>1. t \in SETTLED
      BY DEF SETTLED, TERMINAL_RUN_STATES
    <3>2. SettleTerminal(run, t).state = IF run.state = "cancelling" /\ t # "recovery_required" THEN "cancelled" ELSE t
      BY <1>0, <3>1, SettleTerminalIs
    <3>3. run.state \in {"queued", "running", "cancelling"}
      BY <1>0, <2>2, <2>4 DEF DriverRecords, RUN_STATES, Open, SETTLED, TERMINAL_RUN_STATES
    <3> QED BY <3>2, <3>3 DEF Applies, CanTransitionRun, ALLOWED, Terminal, TERMINAL_RUN_STATES
  <2> QED BY <1>3, <2>3, <2>4
<1>7. CASE ActSettle
  <2> DEFINE t == IF drv.stop = "none" THEN "cancelled" ELSE drv.stop
             r == ClosingCancel
  <2>1. JobWrite(r, SettleTerminal(r, t), "finally")
    BY <1>2, <1>7 DEF ActSettle
  <2>2. t \in {"failed", "timed_out", "cancelled", "recovery_required"} /\ (drv.stop = "none" => t = "cancelled")
    BY DEF Types, Job
  <2>3. r \in DriverRecords /\ (r = run \/ r = RequestCancel(run))
    BY <1>0, ClosingIs
  <2>4. ASSUME ~Applies(r, SettleTerminal(r, t)), Open(r) PROVE FALSE
    <3>1. t \in SETTLED
      BY <2>2 DEF SETTLED, TERMINAL_RUN_STATES
    <3>2. SettleTerminal(r, t).state = IF r.state = "cancelling" /\ t # "recovery_required" THEN "cancelled" ELSE t
      BY <2>3, <3>1, SettleTerminalIs
    <3>3. r.state = "waiting_input" => t = "cancelled"
      <4>1. r.state = "waiting_input" => run.state = "waiting_input"
        BY <1>0, <2>3, RequestCancelIs
      <4> QED BY <2>2, <4>1 DEF Waiters
    <3>4. r.state \in {"queued", "running", "waiting_input", "cancelling"}
      BY <2>3, <2>4 DEF DriverRecords, RUN_STATES, Open, SETTLED, TERMINAL_RUN_STATES
    <3> HIDE DEF r, t
    <3> QED BY <2>2, <2>4, <3>2, <3>3, <3>4 DEF Applies, CanTransitionRun, ALLOWED, Terminal, TERMINAL_RUN_STATES
  <2> HIDE DEF r, t
  <2> QED BY <1>3, <2>1, <2>4
<1> QED BY <1>4, <1>5, <1>6, <1>7

LEMMA BlamedStep ==
    ASSUME OrderInv, AccountInv, Next
    PROVE  Blamed'
<1> USE DEF OrderInv, ReadInv, AccountInv
<1> SUFFICES ASSUME Failing' PROVE faults' >= 1 \/ ~Open(run')
  BY DEF Blamed
<1>0. faults \in Nat /\ (faults' = faults \/ faults' = faults + 1)
  BY FaultsGrow, DriverAssumption DEF Types
<1>1. CASE Failing
  <2>1. faults >= 1 \/ ~Open(run)
    BY <1>1 DEF Blamed
  <2>2. ~Open(run) => ~Open(run')
    BY SettledStays
  <2> QED BY <1>0, <2>1, <2>2
<1>2. ASSUME NEW pc, Leave(pc) PROVE drv'.pc = pc /\ (drv'.fatal => drv.fatal)
  BY <1>2, Leaves
<1>3. ASSUME ~Failing PROVE ~drv'.fatal
  <2>1. ~drv.fatal
    BY <1>3 DEF Failing
  <2>2. ~Top \/ ~drv'.fatal
    <3>1. "error" \notin Reasons
      BY <1>3 DEF Failing, Reasons, Completed
    <3> QED BY <2>1, <3>1, TopFinds
  <2>3. ~Exit \/ ~drv'.fatal
    BY DEF Exit, Off
  <2>4. ActAbort \/ ActSettle \/ ActFatal \/ ActWaiting \/ ActSkip \/ ActComplete \/ Finally \/ Catch => ~drv'.fatal
    <3>1. (\E pc : Leave(pc)) => ~drv'.fatal
      BY <1>2, <2>1
    <3> QED BY <3>1 DEF ActAbort, ActSettle, ActFatal, ActWaiting, ActSkip, ActComplete, Finally, Catch, JobWrite
  <2> QED BY <2>1, <2>2, <2>3, <2>4, JobGoes
<1>4. ASSUME ~Failing, drv'.pc \in {"throw", "catch"} PROVE faults' >= 1 \/ ~Open(run')
  <2>1. drv.pc \notin {"throw", "catch"} /\ ~drv.fatal
    BY <1>4 DEF Failing
  <2>2. ~Top /\ ~Exit /\ ~ActFatal
    BY <1>4, <2>1, TopFinds DEF Exit, Off, ActFatal
  <2>3. ~ActWaiting /\ ~Finally /\ ~Catch
    BY <1>2, <1>4, <2>1 DEF ActWaiting, Finally, Catch
  <2>4. ActAbort \/ ActSettle \/ ActSkip \/ ActComplete
    BY <1>4, <2>1, <2>2, <2>3, JobGoes
  <2>5. Leave("race") \/ Leave("finally") \/ Leave("top") \/ Leave("throw")
    BY <2>4 DEF ActAbort, ActSettle, ActSkip, ActComplete, JobWrite
  <2>6. drv'.pc = "throw"
    BY <1>2, <1>4, <2>5
  <2> QED BY <2>4, <2>6, WritesFail
<1>5. ASSUME ~Failing, NEW n \in Nodes, exec'[n].pc = "done", exec'[n].out = "error"
      PROVE  faults' >= 1 \/ ~Open(run')
  <2>1. Steps(n)
    BY <1>5, CallsGo DEF Failing
  <2> QED BY <1>5, <2>1, CallEnds
<1> QED BY <1>1, <1>3, <1>4, <1>5 DEF Failing
-----------------------------------------------------------------------------
(* Effects nobody knows. *)

\* An open Attempt that does not wait for a human, in a Run that is not terminal.
Dark(r, n) == ~Terminal(r) /\ n \in Unsettled(r) /\ r.att[n].st # "waiting_input"

LEMMA DarkSettles ==
    ASSUME NEW r \in DriverRecords, NEW q, NEW n, Dark(r, n),
           q.state = "recovery_required", Moved(r, q, Unsettled(r), "recovery_required")
    PROVE  Dark(q, n)
<1>1. n \in Nodes /\ r.att[n] \in Attempt /\ r.att[n].res = "none"
  BY RecordIs DEF Dark, Unsettled, Settled
<1>2. q.att[n] = [r.att[n] EXCEPT !.st = "recovery_required"]
  BY <1>1 DEF Dark, Moved
<1>3. q.att[n].st = "recovery_required" /\ q.att[n].res = "none"
  BY <1>1, <1>2 DEF Attempt
<1> QED BY <1>1, <1>3 DEF Dark, Terminal, Unsettled, HasIntent, Settled, TERMINAL_ATTEMPTS, TERMINAL_RUN_STATES

LEMMA DarkCancels ==
    ASSUME NEW r \in DriverRecords, NEW n, Dark(r, n)
    PROVE  ActiveAttempt(r) /\ Dark(RequestCancel(r), n)
<1> DEFINE q == RequestCancel(r)
<1>1. ActiveAttempt(r)
  BY DEF Dark, ActiveAttempt
<1>2. q.state = "cancelling" /\ Unsettled(q) = Unsettled(r) /\ \A m \in Unsettled(r) : q.att[m].st = "cancelling"
  BY <1>1, CancelLeaves
<1> HIDE DEF q
<1>3. Dark(q, n)
  BY <1>2 DEF Dark, Terminal, TERMINAL_RUN_STATES
<1> QED BY <1>1, <1>3 DEF q

\* No settlement passes over an effect nobody knows.
LEMMA DarkStays ==
    ASSUME OrderInv, AccountInv, Next, NEW n \in Nodes, effect[n] = "unknown"
    PROVE  Dark(run', n)
<1> USE DEF OrderInv, ReadInv, AccountInv
<1>0. run \in DriverRecords /\ Dark(run, n) /\ ActiveAttempt(run) /\ n \in Unsettled(run)
  BY DEF Types, Unknowns, Dark, ActiveAttempt
<1>1. CASE Same(run, run')
  BY <1>0, <1>1 DEF Same, Dark, Terminal
<1>2. CASE Cancels
  BY <1>0, <1>2, DarkCancels DEF Cancels
<1>3. ~Decides
  BY <1>0 DEF Decides, Waiters, Dark
<1>4. ASSUME NEW m \in Nodes, Opens(m) PROVE Dark(run', n)
  BY <1>0, <1>4, OpenMoves DEF Dark, Terminal, TERMINAL_RUN_STATES
<1>5. ASSUME NEW m \in Nodes, Brings(m) PROVE Dark(run', n)
  <2>1. n # m
    BY <1>5, BringMoves DEF Unknowns
  <2>2. run'.state = run.state /\ run'.att[n] = run.att[n] /\ n \in Unsettled(run')
    BY <1>0, <1>5, <2>1, BringMoves
  <2> QED BY <1>0, <2>2 DEF Dark, Terminal
<1>6. ASSUME NEW m \in Nodes, Asks(m) PROVE Dark(run', n)
  <2>1. n # m
    BY <1>6, AskMoves DEF Unknowns
  <2> QED BY <1>0, <1>6, <2>1, AskMoves DEF Dark, Terminal, TERMINAL_RUN_STATES
<1>7. run.admission # "pending"
  BY <1>0 DEF Unadmitted, NoAttempt, Unsettled, HasIntent
<1>8. CASE ActSettle
  <2>1. drv.pc = "act" /\ up /\ ~drv.fatal /\ exec[n].pc = "none"
    BY <1>8 DEF ActSettle, Acting, Active
  <2>2. Open(run) => drv.stop = "recovery_required"
    BY <1>0, <2>1 DEF Orphans, Accounted, Waiters, Dark, InFlight, Underway
  <2>3. ~Open(run) => RecSettled
    BY <1>0, <2>1 DEF Reading, Open, SETTLED, Dark, Terminal, RecSettled
  <2>4. ClosingCancel \in DriverRecords /\ Dark(ClosingCancel, n)
    BY <1>0, ClosingIs, DarkCancels
  <2>5. CASE drv.stop = "recovery_required"
    <3>1. run' \in {run, ClosingCancel, Written(ClosingCancel, SettleTerminal(ClosingCancel, "recovery_required"))}
      BY <1>8, <2>5 DEF ActSettle, JobWrite, Fault
    <3> DEFINE q == SettleTerminal(ClosingCancel, "recovery_required")
    <3>2. q.state = "recovery_required" /\ Moved(ClosingCancel, q, Unsettled(ClosingCancel), "recovery_required")
      <4>1. "recovery_required" \in SETTLED
        BY DEF SETTLED
      <4> QED BY <2>4, <4>1, SettleTerminalIs
    <3> HIDE DEF q
    <3>3. Dark(q, n)
      BY <2>4, <3>2, DarkSettles
    <3> QED BY <1>0, <2>4, <3>1, <3>3 DEF Written, q
  <2>6. CASE drv.stop # "recovery_required"
    <3>1. RecSettled
      BY <2>2, <2>3, <2>6
    <3>2. run' = ClosingCancel
      BY <1>8, <2>6, <3>1 DEF ActSettle
    <3> QED BY <2>4, <3>2
  <2> QED BY <2>5, <2>6
<1>9. ~ActComplete
  <2> SUFFICES ASSUME ActComplete PROVE FALSE
    OBVIOUS
  <2>1. drv.pc = "act" /\ up /\ ~MustStop /\ exec[n].pc = "none" /\ Active = {} /\ rec.state # "waiting_input"
    BY DEF ActComplete, Plain, Driving, Acting, Active
  <2>2. ~drv.fatal /\ drv.stop = "none" /\ ~RecSettled
    BY <2>1 DEF MustStop
  <2>3. ~Open(run)
    BY <1>0, <2>1, <2>2 DEF Orphans, Accounted, Waiters, Dark, InFlight, Underway
  <2> QED BY <1>0, <2>1, <2>2, <2>3 DEF Reading, Open, SETTLED, Dark, Terminal, RecSettled
<1>10. CASE Catch
  <2>1. CatchState = "recovery_required"
    BY <1>0 DEF CatchState
  <2> DEFINE q == SettleTerminal(run, "recovery_required")
  <2>2. q.state = "recovery_required" /\ Moved(run, q, Unsettled(run), "recovery_required")
    <3>1. "recovery_required" \in SETTLED
      BY DEF SETTLED
    <3> QED BY <1>0, <3>1, SettleTerminalIs
  <2>3. run' \in {run, Written(run, q)}
    BY <1>10, <2>1 DEF Catch, Fault
  <2> HIDE DEF q
  <2>4. Dark(q, n)
    BY <1>0, <2>2, DarkSettles
  <2> QED BY <1>0, <2>3, <2>4 DEF Written
<1>11. CASE Restart
  <2> DEFINE q == ReconcileOnStart(run)
  <2>1. q = run \/ (q.state = "recovery_required" /\ Moved(run, q, Unsettled(run), "recovery_required"))
    BY <1>0, ReconcileIs
  <2>2. run' = q
    BY <1>11 DEF Restart
  <2> HIDE DEF q
  <2> QED BY <1>0, <2>1, <2>2, DarkSettles
<1> QED BY <1>1, <1>2, <1>3, <1>4, <1>5, <1>6, <1>7, <1>8, <1>9, <1>10, <1>11, RecordMoves

LEMMA UnknownsStep ==
    ASSUME OrderInv, AccountInv, Next
    PROVE  Unknowns'
<1> USE DEF OrderInv, ReadInv, AccountInv
<1> SUFFICES ASSUME NEW n \in Nodes, effect'[n] = "unknown"
             PROVE  Dark(run', n) /\ exec'[n].pc \in {"none", "prep", "intent", "done"}
  BY DEF Unknowns, Dark
<1>0. run \in DriverRecords /\ effect \in [Nodes -> EFFECTS]
  BY DEF Types
<1>1. CASE effect[n] = "unknown"
  <2>1. Dark(run, n) /\ exec[n].pc \in {"none", "prep", "intent", "done"}
    BY <1>1 DEF Unknowns, Dark
  <2>2. CASE Steps(n) /\ exec[n].pc # "none"
    <3>1. CASE exec'[n].pc = "check"
      <4>1. Opens(n)
        BY <2>1, <2>2, <3>1 DEF Opens, Steps, CallMoves
      <4> QED BY <2>1, <4>1, OpenMoves DEF Dark
    <3>2. CASE exec'[n].pc # "check"
      BY <1>1, <2>1, <2>2, <3>2, DarkStays DEF Steps, CallMoves
    <3> QED BY <3>1, <3>2
  <2> QED BY <1>1, <2>1, <2>2, DarkStays, CallsGo
<1>2. CASE effect[n] = "busy"
  <2>1. exec[n].pc = "effect" /\ Held(run, n)
    BY <1>2 DEF Kinds, CallsOpen, Underway, Held
  <2>2. Dark(run, n) /\ ActiveAttempt(run)
    BY <2>1, HeldIs DEF Dark, Held
  <2>3. CASE Background
    <3>1. exec'[n].pc = "none"
      BY <1>2, <2>3 DEF Background, Drifts
    <3>2. ~Settles \/ Cancels
      BY <2>1 DEF Settles, Active
    <3>3. ~Decides
      BY <2>1 DEF Held, Decides
    <3>4. Cancels => Dark(run', n)
      BY <1>0, <2>2, DarkCancels DEF Cancels
    <3>5. Skips => Dark(run', n)
      <4> SUFFICES ASSUME Skips PROVE Dark(run', n)
        OBVIOUS
      <4>1. Same(run, run')
        BY <1>0, SkipLeaves DEF Skips
      <4> QED BY <2>2, <4>1 DEF Same, Dark, Terminal
    <3> QED BY <2>2, <2>3, <3>1, <3>2, <3>3, <3>4, <3>5 DEF Background
  <2>4. ASSUME NEW m \in Nodes, Steps(m) PROVE m = n /\ run' = run /\ exec'[n].pc = "done"
    <3>1. m = n
      BY <1>2, <2>4 DEF Steps, CallMoves
    <3>2. EffectEnds(n)
      BY <2>1, <2>4, <3>1 DEF Steps, CallStep, Prepare, PrepareDamaged, PrepareStopped, Intent, Check, Dispatch,
                    DispatchFails, Result, Wait, Waited, At
    <3>3. PICK k \in AgentOutcomes(n) :
            /\ effect' = [effect EXCEPT ![n] = IF k = "cancelled" /\ ~exec[n].abort THEN "quit" ELSE k]
            /\ Go(n, IF k = "unknown" THEN "done" ELSE "result", k)
      BY <3>2 DEF EffectEnds
    <3>4. k = "unknown"
      BY <1>0, <3>3
    <3>5. "done" \in EXEC_PC /\ "unknown" \in EXEC_OUT /\ exec \in [Nodes -> Call]
      BY DEF EXEC_PC, EXEC_OUT, Types
    <3>6. exec'[n].pc = "done"
      BY <3>3, <3>4, <3>5, GoIs
    <3> QED BY <3>1, <3>2, <3>6 DEF EffectEnds
  <2>5. \A m \in Nodes : ~Dispatches(m)
    BY <1>2 DEF Dispatches
  <2> QED BY <2>2, <2>3, <2>4, <2>5, StepIs
<1>3. CASE effect[n] \notin {"busy", "unknown"}
  <2>1. exec[n].pc # "effect"
    BY <1>3 DEF Kinds
  <2>2. Background => effect'[n] = effect[n]
    BY <1>3 DEF Background, Drifts
  <2>3. \A m \in Nodes : Dispatches(m) => effect'[n] = effect[n]
    BY DEF Dispatches
  <2>4. ASSUME NEW m \in Nodes, Steps(m) PROVE effect'[n] \in {effect[n], "busy"}
    BY <2>1, <2>4 DEF Steps, CallMoves
  <2> QED BY <1>3, <2>2, <2>3, <2>4, StepIs
<1> QED BY <1>1, <1>2, <1>3
-----------------------------------------------------------------------------
(* Every open Attempt has somebody to settle it. *)

\* A call in flight stays so, or ends with what the loop will see.
LEMMA FlightEnds ==
    ASSUME OrderInv, AccountInv, Next, up', Open(run'), NEW n \in Unsettled(run'), n \in Unsettled(run),
           exec[n].pc \in InFlight
    PROVE  \/ run'.state = "waiting_input"
           \/ exec'[n].pc \in InFlight
           \/ exec'[n].pc = "done" /\ exec'[n].out \in {"unknown", "error"}
<1> USE DEF OrderInv, ReadInv, AccountInv
<1>0. n \in Nodes /\ Open(run) /\ exec[n].pc \notin {"none", "done", "prep", "intent"}
  BY SettledStays DEF Unsettled, InFlight, Underway
<1>1. ~Dispatches(n)
  BY <1>0 DEF Dispatches
<1>2. exec'[n].pc # "none"
  <2>1. ~Exit
    BY DEF Exit
  <2> QED BY <1>0, <2>1, Forgets
<1>3. CASE Steps(n)
  <2>1. CASE exec[n].pc = "waited"
    <3>1. run.state \in {"waiting_input", "cancelling"}
      BY <1>0, <2>1 DEF Attended
    <3> QED BY <1>0, <1>3, <2>1, <3>1, WaitedMoves DEF InFlight
  <2>2. CASE exec[n].pc # "waited"
    <3>1. exec'[n].pc \in InFlight \union {"done"}
      BY <1>0, <1>3, <2>2 DEF Steps, CallMoves, InFlight, Underway
    <3>2. exec'[n].pc = "done" => exec'[n].out \in {"unknown", "error"}
      BY <1>0, <1>3, <2>2, CallEnds
    <3> QED BY <3>1, <3>2
  <2> QED BY <2>1, <2>2
<1> QED BY <1>0, <1>1, <1>2, <1>3, CallsGo

\* A settlement of the job that leaves the Run open has failed.
LEMMA SettlesOpen ==
    ASSUME OrderInv, AccountInv, Open(run'), Open(run), ActSettle \/ ActComplete
    PROVE  drv'.pc = "throw"
<1> USE DEF OrderInv, ReadInv, AccountInv
<1>0. run \in DriverRecords /\ ClosingCancel \in DriverRecords /\ drv.pc = "act"
  BY ClosingIs DEF Types, ActSettle, ActComplete, Plain, Driving, Acting
<1>1. ASSUME NEW r \in DriverRecords, NEW t \in SETTLED, JobWrite(r, SettleTerminal(r, t), "finally")
      PROVE  drv'.pc = "throw"
  <2>1. SettleTerminal(r, t).state \in SETTLED
    BY SettleTerminalIs DEF SETTLED, TERMINAL_RUN_STATES
  <2>2. CASE Applies(r, SettleTerminal(r, t)) /\ run' = Written(r, SettleTerminal(r, t))
    BY <2>1, <2>2 DEF Written, Open
  <2>3. Leave("throw") \/ (Applies(r, SettleTerminal(r, t)) /\ run' = Written(r, SettleTerminal(r, t)))
    BY <1>1 DEF JobWrite
  <2> QED BY <2>2, <2>3, Leaves
<1>2. CASE ActComplete
  <2>1. "succeeded" \in SETTLED /\ "recovery_required" \in SETTLED
    BY DEF SETTLED, TERMINAL_RUN_STATES
  <2>2. PICK t \in {"succeeded", "recovery_required"} : JobWrite(run, SettleTerminal(run, t), "finally")
    BY <1>2 DEF ActComplete
  <2> QED BY <1>0, <1>1, <2>1, <2>2
<1>3. CASE ActSettle
  <2>1. ~RecSettled
    BY <1>0 DEF Reading, RecSettled, Open, SETTLED
  <2>2. PICK t \in {"cancelled", drv.stop} :
          JobWrite(ClosingCancel, SettleTerminal(ClosingCancel, t), "finally") /\ t # "none"
    BY <1>3, <2>1 DEF ActSettle
  <2>3. t \in SETTLED
    BY <2>2 DEF Types, Job, SETTLED, TERMINAL_RUN_STATES
  <2> QED BY <1>0, <1>1, <2>2, <2>3
<1> QED BY <1>2, <1>3

\* The same of the job's catch, unless the Run is in backgroundFailures for a second failed write.
LEMMA CatchSettles ==
    ASSUME OrderInv, AccountInv, OneFault', Open(run'), Open(run), run'.state # "waiting_input"
    PROVE  ~Catch
<1> USE DEF OrderInv, ReadInv, AccountInv
<1> SUFFICES ASSUME Catch PROVE FALSE
  OBVIOUS
<1>0. run \in DriverRecords /\ drv.pc = "catch" /\ faults \in Nat
  BY DriverAssumption DEF Types, Catch
<1>1. faults >= 1
  BY <1>0 DEF Blamed, Failing
<1> DEFINE next == SettleTerminal(run, CatchState)
<1>2. CatchState \in {"failed", "recovery_required"} /\ CatchState \in SETTLED
  BY DEF CatchState, SETTLED, TERMINAL_RUN_STATES
<1>3. next.state = IF run.state = "cancelling" /\ CatchState # "recovery_required" THEN "cancelled" ELSE CatchState
  BY <1>0, <1>2, SettleTerminalIs
<1>4. run.state \notin TERMINAL_RUN_STATES \union {"recovery_required"}
  BY DEF Open, SETTLED
<1> HIDE DEF next
<1>5. CASE run' = Written(run, next)
  <2>1. next.state \in SETTLED
    BY <1>2, <1>3 DEF SETTLED, TERMINAL_RUN_STATES
  <2>2. run' = run /\ ~Applies(run, next)
    BY <1>5, <2>1 DEF Written, Open
  <2>3. run.state \in {"queued", "running", "cancelling"}
    BY <1>0, <1>4, <2>2 DEF DriverRecords, RUN_STATES, TERMINAL_RUN_STATES
  <2> QED BY <1>2, <1>3, <2>2, <2>3 DEF Applies, CanTransitionRun, ALLOWED, Terminal, TERMINAL_RUN_STATES
<1>6. CASE hung' /\ faults' = faults + 1
  <2>1. faults' <= 1
    BY <1>6 DEF OneFault
  <2> QED BY <1>0, <1>1, <1>6, <2>1
<1>7. run' = Written(run, next) \/ (hung' /\ faults' = faults + 1)
  BY <1>4 DEF Catch, Fault, next
<1> QED BY <1>5, <1>6, <1>7

LEMMA OrphansStep ==
    ASSUME OrderInv, AccountInv, OneFault', Next
    PROVE  Orphans'
<1> USE DEF OrderInv, ReadInv, AccountInv
<1> SUFFICES ASSUME up', Open(run'), NEW n \in Unsettled(run'), run'.state # "waiting_input" PROVE Accounted(n)'
  BY DEF Orphans, Accounted
<1>0. run \in DriverRecords /\ n \in Nodes /\ Open(run)
  BY SettledStays DEF Types, Unsettled
<1>1. run.state # "waiting_input"
  BY WhileWaiting DEF Same
<1>2. up
  <2>1. CASE Restart
    <3> DEFINE q == ReconcileOnStart(run)
    <3>1. run' = q
      BY <2>1 DEF Restart
    <3>2. \/ q = run /\ ~(run.state \notin SETTLED /\ run.state # "waiting_input" /\ Unsettled(run) # {})
          \/ q.state = "recovery_required"
      BY <1>0, ReconcileIs
    <3> HIDE DEF q
    <3> QED BY <1>0, <1>1, <3>1, <3>2 DEF Open, SETTLED
  <2>2. CASE ~Restart /\ ~up
    <3>1. drv.pc = "off" /\ Active = {}
      BY <2>2 DEF Life, Off
    <3>2. ~JobStep
      BY <2>2, <3>1 DEF JobStep, Start, Top, ActAbort, ActSettle, ActFatal, ActWaiting, ActSkip, ActDispatch, ActRace,
                       ActComplete, Race, FinallyAbort, Finally, Catch, End, Plain, Driving, Acting
    <3>3. \A m \in Nodes : ~CallStep(m) /\ ~EffectEnds(m)
      BY <2>2 DEF CallStep, EffectEnds, Prepare, PrepareDamaged, PrepareStopped, Intent, Check, Dispatch, DispatchFails,
                  Result, Wait, Waited, At
    <3>4. ~Capture /\ ~CaptureFails /\ ~Cancel /\ ~CancelFollows /\ ~DecideRun /\ ~DecideFollows
      BY <2>2 DEF Capture, CaptureFails, Cancel, CancelFollows, DecideRun, DecideFollows
    <3>5. ~Close /\ ~CloseAborts /\ ~CloseDone /\ ~Exit
      BY <2>2 DEF Close, CloseAborts, CloseDone, Exit
    <3> QED BY <2>2, <3>2, <3>3, <3>4, <3>5 DEF Next
  <2> QED BY <2>1, <2>2
<1>3. ~Exit /\ ~Catch
  BY <1>0, CatchSettles DEF Exit
<1>4. CASE Opens(n)
  <2>1. exec[n].pc = "intent" /\ exec'[n].pc \in {"check", "done"}
    BY <1>0, <1>4, OpenMoves
  <2>2. drv' = drv
    BY <1>4 DEF Opens, Steps, CallStep, EffectEnds, Prepare, PrepareDamaged, PrepareStopped, Intent, Check, Dispatch,
         DispatchFails, Result, Wait, Waited, CallFrame
  <2>3. drv.pc \in {"top", "act", "race", "throw"}
    <3>1. drv.pc \notin {"off", "start", "catch", "end"}
      BY <1>0, <2>1 DEF Life, Active
    <3>2. drv.pc # "finally"
      BY <1>0, <2>1 DEF Finishing, Resting
    <3> QED BY <3>1, <3>2 DEF Types, Job, DRV_PC
  <2>4. exec'[n].pc = "done" => exec'[n].out \in {"unknown", "error"}
    BY <1>0, <1>4, CallEnds DEF Opens
  <2> QED BY <2>1, <2>2, <2>3, <2>4 DEF Accounted, InFlight, Underway
<1>5. CASE n \in Unsettled(run)
  <2>1. Accounted(n)
    BY <1>0, <1>2, <1>5 DEF Orphans
  <2>2. CASE drv.pc \in {"throw", "catch"}
    <3>1. Finally => drv'.pc = "catch" \/ drv.pc = "catch"
      BY <2>2, Leaves DEF Finally
    <3>2. ~Top /\ ~ActAbort /\ ~ActSettle /\ ~ActFatal /\ ~ActWaiting /\ ~ActSkip /\ ~ActComplete
      BY <2>2, TopFinds DEF ActAbort, ActSettle, ActFatal, ActWaiting, ActSkip, ActComplete, Plain, Driving, Acting
    <3>3. Finally => drv.pc = "throw"
      BY <2>2 DEF Finally
    <3> QED BY <1>3, <2>2, <3>1, <3>2, <3>3, JobGoes DEF Accounted
  <2>3. CASE /\ drv.pc \in {"top", "act", "race"}
             /\ \/ drv.fatal \/ drv.stop = "recovery_required" \/ exec[n].pc \in InFlight
                \/ exec[n].pc = "done" /\ exec[n].out \in {"unknown", "error"}
    <3>1. ~ActWaiting
      <4>1. ASSUME ActWaiting PROVE drv.pc = "act" /\ rec.state = "waiting_input"
        BY <4>1 DEF ActWaiting, Driving, Acting
      <4> QED BY <1>0, <1>1, <1>5, <4>1 DEF Awaited
    <3>2. ActSettle \/ ActComplete => drv'.pc = "throw"
      BY <1>0, SettlesOpen
    <3>3. ActFatal => drv'.pc = "throw"
      BY Leaves DEF ActFatal
    <3>4. ActAbort \/ ActSkip => /\ drv'.pc \in {"race", "top", "throw"}
                                 /\ drv'.fatal = drv.fatal /\ drv'.stop = drv.stop
      <4>1. ActAbort \/ ActSkip => Leave("race") \/ Leave("top") \/ Leave("throw")
        BY DEF ActAbort, ActSkip, JobWrite
      <4> QED BY <4>1, Leaves
    <3>5. Top => /\ drv'.pc = "act" /\ (drv.fatal => drv'.fatal)
                 /\ drv.stop = "recovery_required" => drv'.stop = "recovery_required"
      BY TopFinds
    <3>6. ~Finally
      BY <2>3 DEF Finally
    <3>7. CASE drv'.pc = "throw"
      BY <3>7 DEF Accounted
    <3>8. CASE drv'.pc # "throw"
      <4>1. /\ drv'.pc \in {"top", "act", "race"} /\ (drv.fatal => drv'.fatal)
            /\ drv.stop = "recovery_required" => drv'.stop = "recovery_required"
        BY <1>3, <2>3, <3>1, <3>2, <3>3, <3>4, <3>5, <3>6, <3>8, JobGoes
      <4>2. ASSUME exec[n].pc \in InFlight PROVE Accounted(n)'
        <5>1. exec'[n].pc \in InFlight \/ (exec'[n].pc = "done" /\ exec'[n].out \in {"unknown", "error"})
          BY <1>5, <4>2, FlightEnds
        <5> QED BY <4>1, <5>1 DEF Accounted
      <4>3. ASSUME exec[n].pc = "done", exec[n].out \in {"unknown", "error"} PROVE Accounted(n)'
        <5>1. CASE Top
          <6>1. exec[n].out \in Reasons
            BY <1>0, <4>3 DEF Reasons, Completed
          <6>2. drv'.stop = "recovery_required" \/ drv'.fatal
            BY <4>3, <5>1, <6>1, TopFinds
          <6> QED BY <4>1, <6>2 DEF Accounted
        <5>2. CASE ~Top
          <6>1. exec'[n].pc # "none"
            BY <1>0, <1>3, <3>6, <4>3, <5>2, Forgets
          <6>2. ~Dispatches(n)
            BY <4>3 DEF Dispatches
          <6>3. ~Steps(n)
            <7>1. Steps(n) => exec'[n].pc = "done"
              BY <4>3 DEF Steps, CallMoves
            <7> QED BY <1>0, <4>3, <7>1, CallEnds
          <6>4. exec'[n].pc = exec[n].pc /\ exec'[n].out = exec[n].out
            BY <1>0, <6>1, <6>2, <6>3, CallsGo
          <6> QED BY <4>1, <4>3, <6>4 DEF Accounted
        <5> QED BY <5>1, <5>2
      <4> QED BY <2>3, <4>1, <4>2, <4>3 DEF Accounted
    <3> QED BY <3>7, <3>8
  <2> QED BY <1>1, <2>1, <2>2, <2>3 DEF Accounted
<1> QED BY <1>4, <1>5, UnsettledMoves
-----------------------------------------------------------------------------
LEMMA AccountStep ==
    ASSUME OrderInv, OrderInv', ReadInv', AccountInv, OneFault', [Next]_vars
    PROVE  AccountInv'
<1>1. CASE Next
  <2>1. SoleHuman' /\ Waiters' /\ Attended' /\ Calm' /\ Late'
    BY <1>1, SoleHumanStep, WaitersStep, AttendedStep, CalmStep, LateStep
  <2>2. Awaited' /\ Orphans' /\ Blamed' /\ Unknowns'
    BY <1>1, AwaitedStep, OrphansStep, BlamedStep, UnknownsStep
  <2> QED BY <2>1, <2>2 DEF AccountInv
<1>2. CASE UNCHANGED vars
  <2>1. /\ run' = run /\ up' = up /\ drv' = drv /\ rec' = rec /\ exec' = exec
        /\ effect' = effect /\ faults' = faults
    BY <1>2 DEF vars, host, ghost
  <2> QED BY <2>1 DEF AccountInv, SoleHuman, Waiters, Attended, Calm, Late, Awaited, Orphans, Accounted,
       Blamed, Failing, Unknowns, Active
<1> QED BY <1>1, <1>2

LEMMA AccountKept == Spec /\ []OneFault => []AccountInv
<1>1. Init => AccountInv
  BY InitAccount
<1>2. OrderInv /\ OrderInv' /\ ReadInv' /\ AccountInv /\ OneFault' /\ [Next]_vars => AccountInv'
  BY AccountStep
<1> QED BY <1>1, <1>2, OrderKept, ReadKept, PTL DEF Spec

\* External effects happen once, with their inputs, and never unaccounted for (driveRun,
\* executeRunNode, the catch of scheduleRun), as long as a Run that backgroundFailures names was
\* left there by one failed write.
THEOREM EffectsAccountedFor == Spec /\ []OneFault => []EffectsInOrder
<1>1. OrderInv /\ AccountInv => NoEffectBehindResult
  <2> SUFFICES ASSUME OrderInv, AccountInv, NEW n \in Agents, effect[n] \in {"busy", "unknown"}
               PROVE  ~Terminal(run) /\ ~Settled(run, n)
    BY DEF NoEffectBehindResult
  <2>0. n \in Nodes
    BY GraphAssumption
  <2>1. CASE effect[n] = "busy"
    <3>1. Held(run, n)
      BY <2>0, <2>1 DEF OrderInv, Kinds, CallsOpen, Underway, Held
    <3> QED BY <2>0, <3>1, HeldIs DEF Unsettled
  <2>2. CASE effect[n] = "unknown"
    BY <2>0, <2>2 DEF AccountInv, Unknowns, Unsettled
  <2> QED BY <2>1, <2>2
<1> QED BY <1>1, AccountKept, OrderKept, EffectsHappenOnce, InputsComeFirst, PTL DEF EffectsInOrder

\* A human decision owns the Run that waits for it (dispatch of humanDecision nodes, decide), under
\* the same premise.
THEOREM DecisionsWaitAlone == Spec /\ []OneFault => []WaitsAlone
<1>1. AccountInv => WaitsAlone
  BY DEF AccountInv, ReadInv, Seen, Waiters, WaitsAlone
<1> QED BY <1>1, AccountKept, PTL

\* The premise holds of a store of which at most one write fails.
COROLLARY WithOneFault ==
    ASSUME MaxFaults <= 1
    PROVE  Spec => [](EffectsInOrder /\ WaitsAlone)
<1>1. OrderInv => OneFault
  BY DriverAssumption DEF OrderInv, Types, OneFault
<1> QED BY <1>1, OrderKept, EffectsAccountedFor, DecisionsWaitAlone, PTL
-----------------------------------------------------------------------------
(* Why a Run ends cancelled. *)

\* An Attempt that failed by itself, an Attempt that was interrupted.
Failed(r) == \E n \in Nodes : r.att[n].st \in {"failed", "timed_out"}
Interrupted(r) == \E n \in Nodes : r.att[n].st = "cancelled"

\* A job has no stop reason before it starts, a request that has stored its cancellation finds the
\* Run cancelled, and an effect was started.
Fresh ==
    /\ drv.pc \in {"off", "start"} => drv.stop = "none"
    /\ asked.cancel # "none" => run.state \in SETTLED \union {"cancelling"}
    /\ \A n \in Nodes : effect[n] # "none" => calls[n] = 1

\* Nobody outside the job has interrupted the Run: no client, no close, no Agent by itself.
Undisturbed ==
    /\ run.state \in {"queued", "running", "waiting_input"} /\ ~Closing
    /\ \A n \in Agents : effect[n] # "quit"

\* The job has a reason to interrupt that outranks the interruption.
Excused ==
    \/ Failed(run) \/ drv.stop \in {"failed", "timed_out", "recovery_required"}
    \/ drv.fatal \/ drv.pc = "throw"

Interruptible == {"prep", "intent", "check", "dispatch", "effect"}
AbortsExcused == \A n \in Nodes : exec[n].pc \in Interruptible /\ exec[n].abort => Excused
ResultsExcused == \A n \in Nodes : exec[n].pc = "result" /\ exec[n].out = "cancelled" => Excused
AttemptsExcused == Interrupted(run) => Excused \/ Active = {}
StopExcused ==
    drv.pc \in {"top", "act", "race"} /\ drv.stop = "cancelled" =>
        drv.fatal \/ (Active = {} /\ ~Failed(run))

Unmasked == Undisturbed => AbortsExcused /\ ResultsExcused /\ AttemptsExcused /\ StopExcused

LEMMA FailedIs ==
    ASSUME NEW r
    PROVE  FailedSibling(r) <=> Failed(r) \/ Interrupted(r)
BY DEF FailedSibling, Failed, Interrupted

\* In a Run that stays open an Attempt fails, or is cancelled, by its own result alone.
LEMMA FailsItself ==
    ASSUME OrderInv, Next, Open(run'), NEW n \in Nodes,
           run'.att[n].st \in {"failed", "timed_out", "cancelled"}, run'.att[n].st # run.att[n].st
    PROVE  Brings(n)
<1> USE DEF OrderInv
<1>0. run \in DriverRecords /\ run.att[n] \in Attempt
  BY RecordIs DEF Types
<1>1. run'.att # run.att /\ run'.att[n] # run.att[n] /\ run'.state \notin SETTLED
  BY DEF Open
<1>2. ~Cancels
  <2> SUFFICES ASSUME Cancels PROVE FALSE
    OBVIOUS
  <2>1. run'.state = "cancelling" /\ Moved(run, run', Unsettled(run), "cancelling")
    BY <1>0, <1>1, RequestCancelIs DEF Cancels, SETTLED, TERMINAL_RUN_STATES
  <2>2. [run.att[n] EXCEPT !.st = "cancelling"].st = "cancelling"
    BY <1>0 DEF Attempt
  <2> QED BY <1>1, <2>1, <2>2 DEF Moved
<1>3. ~Decides
  <2> SUFFICES ASSUME Decides PROVE FALSE
    OBVIOUS
  <2>1. PICK m \in Waiting(run), d \in Decisions, approve \in BOOLEAN, b \in Branches :
          run' = Decide(run, m, d, approve, b)
    BY DEF Decides
  <2>2. m \in Nodes
    BY <2>1, NodesAssumption DEF Waiting
  <2>3. approve
    BY <1>0, <1>1, <2>1, DecideLeaves DEF SETTLED, TERMINAL_RUN_STATES
  <2>4. \A k \in Nodes : run'.att[k] =
          IF k = m THEN [st |-> IF approve THEN "succeeded" ELSE "cancelled",
                         res |-> IF approve THEN "ok" ELSE "cancelled", branch |-> b, decision |-> d]
          ELSE run.att[k]
    BY <1>0, <2>1, <2>2, DecideIs
  <2>5. run'.att[n].st = "succeeded" \/ run'.att[n] = run.att[n]
    BY <2>3, <2>4
  <2> QED BY <1>1, <2>5
<1>4. ~Skips
  <2> SUFFICES ASSUME Skips PROVE FALSE
    OBVIOUS
  <2>1. run' = run \/ \E S : Moved(run, run', S, "skipped")
    BY <1>0, SkipIs DEF Skips
  <2>2. [run.att[n] EXCEPT !.st = "skipped"].st = "skipped"
    BY <1>0 DEF Attempt
  <2> QED BY <1>1, <2>1, <2>2 DEF Moved
<1>5. ~Background
  BY <1>1, <1>2, <1>3, <1>4 DEF Background, Settles
<1>6. ASSUME NEW m \in Nodes, Steps(m) PROVE Brings(n)
  <2>1. ~Intends(m)
    <3> SUFFICES ASSUME Intends(m) PROVE FALSE
      OBVIOUS
    <3>1. run'.att[n] = IF n = m THEN [NoAttempt EXCEPT !.st = "running"] ELSE run.att[n]
      BY <1>0, RecordIntentIs DEF Intends
    <3>2. [NoAttempt EXCEPT !.st = "running"].st = "running"
      BY DEF NoAttempt
    <3> QED BY <1>1, <3>1, <3>2
  <2>2. ~Waits(m)
    <3> SUFFICES ASSUME Waits(m) PROVE FALSE
      OBVIOUS
    <3>1. run' = run \/ Moved(run, run', {m}, "waiting_input")
      BY <1>0, WaitInputIs DEF Waits
    <3>2. [run.att[n] EXCEPT !.st = "waiting_input"].st = "waiting_input"
      BY <1>0 DEF Attempt
    <3> QED BY <1>1, <3>1, <3>2 DEF Moved
  <2>3. Reports(m)
    BY <1>1, <1>2, <1>6, <2>1, <2>2 DEF Steps, CallMoves, Writes, Gives
  <2>4. Brings(m)
    BY <1>6, <2>3 DEF Brings
  <2>5. n = m
    BY <1>1, <2>4, BringMoves
  <2> QED BY <2>4, <2>5
<1> QED BY <1>1, <1>5, <1>6, StepIs DEF Dispatches
-----------------------------------------------------------------------------
(* The job and the requests. *)

Ending == {"finally", "throw", "catch", "end"}

\* Where a step leaves the job: with its stop reason and its error, or as a new one.
LEMMA JobKeeps ==
    ASSUME OrderInv, Next
    PROVE  \/ Top
           \/ drv'.stop = drv.stop /\ drv'.fatal = drv.fatal
              /\ (drv' = drv \/ drv'.pc \notin {"off", "start"})
              /\ (drv.pc = "throw" => drv'.pc \in {"throw", "catch"})
              /\ (drv.pc \in Ending => drv'.pc \in Ending)
           \/ drv'.pc \in {"off", "start"} /\ drv'.stop = "none"
<1> USE DEF OrderInv
<1> DEFINE Keeps == /\ drv'.stop = drv.stop /\ drv'.fatal = drv.fatal
                    /\ drv' = drv \/ drv'.pc \notin {"off", "start"}
                    /\ drv.pc = "throw" => drv'.pc \in {"throw", "catch"}
                    /\ drv.pc \in Ending => drv'.pc \in Ending
           Renewed == drv'.pc \in {"off", "start"} /\ drv'.stop = "none"
<1>1. drv' = drv => Keeps
  OBVIOUS
<1>2. ASSUME NEW pc \in {"top", "race", "finally", "throw", "catch", "end"}, Leave(pc),
             drv.pc = "throw" => pc = "catch", drv.pc \in Ending => pc \in Ending
      PROVE  Keeps
  <2>1. drv'.pc = pc /\ drv'.stop = drv.stop /\ drv'.fatal = drv.fatal
    BY <1>2, Leaves
  <2> QED BY <1>2, <2>1
<1>3. drv' = Off \/ drv' = [Off EXCEPT !.pc = "start"] \/ drv' = [Off EXCEPT !.pc = "off"] => Renewed
  BY DEF Off
<1> SUFFICES Top \/ Keeps \/ Renewed
  OBVIOUS
<1> HIDE DEF Keeps, Renewed
<1> USE DEF Ending
<1>4. CASE JobStep
  <2>1. CASE Start
    BY <1>2, <2>1 DEF Start
  <2>2. CASE ActAbort \/ ActFatal \/ ActWaiting
    BY <1>2, <2>2 DEF ActAbort, ActFatal, ActWaiting, Driving, Acting
  <2>3. CASE ActSettle \/ ActSkip \/ ActComplete
    <3>1. drv.pc = "act"
      BY <2>3 DEF ActSettle, ActSkip, ActComplete, Plain, Driving, Acting
    <3>2. Leave("finally") \/ Leave("top") \/ Leave("throw")
      BY <2>3 DEF ActSettle, ActSkip, ActComplete, JobWrite
    <3> QED BY <1>2, <3>1, <3>2
  <2>4. CASE ActDispatch \/ ActRace \/ Race
    BY <1>2, <2>4 DEF ActDispatch, ActRace, Race, Plain, Driving, Acting
  <2>5. CASE Finally \/ Catch
    BY <1>2, <2>5 DEF Finally, Catch
  <2>6. CASE End
    BY <1>3, <2>6 DEF End
  <2>7. CASE FinallyAbort
    BY <1>1, <2>7 DEF FinallyAbort
  <2> QED BY <1>4, <2>1, <2>2, <2>3, <2>4, <2>5, <2>6, <2>7 DEF JobStep
<1>5. Schedule => Keeps \/ Renewed
  BY <1>1, <1>3 DEF Schedule
<1>6. CASE Capture \/ CancelFollows \/ DecideFollows
  BY <1>1, <1>5, <1>6 DEF Capture, CancelFollows, DecideFollows
<1>7. CASE Exit \/ Restart
  BY <1>3, <1>7 DEF Exit, Restart
<1>8. CASE CaptureFails \/ Cancel \/ DecideRun \/ Close \/ CloseAborts \/ CloseDone
  BY <1>1, <1>8 DEF CaptureFails, Cancel, DecideRun, Close, CloseAborts, CloseDone, CloseFrame
<1>9. ASSUME NEW n \in Nodes, CallStep(n) \/ EffectEnds(n) PROVE drv' = drv
  BY <1>9 DEF CallStep, EffectEnds, Prepare, PrepareDamaged, PrepareStopped, Intent, Check, Dispatch, DispatchFails,
       Result, Wait, Waited, CallFrame
<1> QED BY <1>1, <1>4, <1>6, <1>7, <1>8, <1>9 DEF Next

\* A cancelling Run stays so until it is settled.
LEMMA CancellingStays ==
    ASSUME OrderInv, Next, Open(run'), run.state = "cancelling"
    PROVE  run'.state = "cancelling"
<1> USE DEF OrderInv
<1>1. run \in DriverRecords /\ ~Cancels /\ ~Decides
  BY CancelMoves DEF Types, Decides
<1>2. \A n \in Nodes : Opens(n) \/ Brings(n) \/ Asks(n) => run'.state = "cancelling"
  BY <1>1, OpenMoves, BringMoves, AskMoves DEF Open, SETTLED, TERMINAL_RUN_STATES
<1> QED BY <1>1, <1>2, RunMoves DEF Same, Settlement, Open

\* A request is at most passed on.
LEMMA AskedMoves ==
    ASSUME OrderInv, Next, asked'.cancel # "none"
    PROVE  asked'.cancel = asked.cancel \/ Cancel
<1> USE DEF OrderInv
<1>0. asked \in [cancel: {"none", "cancelled", "cancelling"}, decide: BOOLEAN]
  BY DEF Types
<1>1. CASE Capture \/ CaptureFails \/ JobStep
  <2>1. asked' = asked
    BY <1>1 DEF Capture, CaptureFails, JobStep, JobFrame, Start, Top, ActAbort, ActSettle, ActFatal, ActWaiting, ActSkip,
         ActDispatch, ActRace, ActComplete, Race, FinallyAbort, Finally, Catch, End
  <2> QED BY <2>1
<1>2. CASE CancelFollows
  <2>1. [asked EXCEPT !.cancel = "none"].cancel = "none"
    BY <1>0
  <2> QED BY <1>2, <2>1 DEF CancelFollows
<1>3. CASE DecideRun \/ DecideFollows
  <2>1. asked' = asked \/ \E b \in BOOLEAN : asked' = [asked EXCEPT !.decide = b]
    BY <1>3 DEF DecideRun, DecideFollows
  <2> QED BY <1>0, <2>1
<1>4. CASE Close \/ CloseAborts \/ CloseDone
  BY <1>4 DEF Close, CloseAborts, CloseDone, CloseFrame
<1>5. CASE Exit
  BY <1>5 DEF Exit, NoRequests
<1>6. CASE Restart
  BY <1>6 DEF Restart
<1>7. ASSUME NEW n \in Nodes, CallStep(n) \/ EffectEnds(n) PROVE asked' = asked
  BY <1>7 DEF CallStep, EffectEnds, Prepare, PrepareDamaged, PrepareStopped, Intent, Check, Dispatch, DispatchFails,
       Result, Wait, Waited, CallFrame
<1> QED BY <1>1, <1>2, <1>3, <1>4, <1>5, <1>6, <1>7 DEF Next

LEMMA FreshStep ==
    ASSUME OrderInv, Fresh, Next
    PROVE  Fresh'
<1> USE DEF OrderInv
<1>0. run \in DriverRecords /\ asked \in [cancel: {"none", "cancelled", "cancelling"}, decide: BOOLEAN]
  BY DEF Types
<1>1. drv'.pc \in {"off", "start"} => drv'.stop = "none"
  BY JobKeeps DEF Fresh, Top
<1>2. ASSUME asked'.cancel # "none" PROVE run'.state \in SETTLED \union {"cancelling"}
  <2>1. CASE asked.cancel # "none"
    <3>1. run.state \in SETTLED \union {"cancelling"}
      BY <2>1 DEF Fresh
    <3> QED BY <3>1, SettledStays, CancellingStays DEF Open
  <2>2. CASE Cancel /\ asked.cancel = "none"
    <3>1. run' = IF RequestCancelOk(run) THEN RequestCancel(run) ELSE run
      BY <1>2, <2>2 DEF Cancel
    <3>2. RequestCancel(run).state \in {"cancelling", "cancelled"}
      BY <1>0, RequestCancelIs
    <3> QED BY <1>0, <3>1, <3>2, RequestCancelIs DEF SETTLED, TERMINAL_RUN_STATES
  <2> QED BY <1>2, <2>1, <2>2, AskedMoves
<1>3. ASSUME NEW n \in Nodes, effect'[n] # "none" PROVE calls'[n] = 1
  <2>1. CASE Background
    BY <1>3, <2>1 DEF Background, Drifts, Fresh
  <2>2. ASSUME NEW m \in Nodes, Dispatches(m) PROVE calls'[n] = 1
    BY <1>3, <2>2 DEF Dispatches, Fresh
  <2>3. ASSUME NEW m \in Nodes, CallMoves(m) PROVE calls'[n] = 1
    <3>1. CASE m # n
      BY <1>3, <2>3, <3>1 DEF CallMoves, Fresh
    <3>2. CASE m = n
      <4>1. effect'[n] = effect[n] => calls'[n] = calls[n] \/ (calls[n] = 0 /\ calls'[n] = 1)
        BY <2>3, <3>2 DEF CallMoves, Once
      <4>2. effect'[n] # effect[n] => \/ calls[n] = 0 /\ calls'[n] = calls[n] + 1
                                      \/ effect[n] = "busy" /\ calls'[n] = calls[n]
        BY <2>3, <3>2 DEF CallMoves, Once, Kinds
      <4> QED BY <1>3, <4>1, <4>2 DEF Fresh
    <3> QED BY <3>1, <3>2
  <2> QED BY <2>1, <2>2, <2>3, NextIs
<1> QED BY <1>1, <1>2, <1>3 DEF Fresh

LEMMA InitFresh == Init => Fresh
BY DEF Init, Fresh, Off, NoRequests

LEMMA FreshKept == Spec => []Fresh
<1>1. OrderInv /\ Fresh /\ [Next]_vars => Fresh'
  <2>1. UNCHANGED vars /\ Fresh => Fresh'
    BY DEF vars, host, ghost, Fresh
  <2> QED BY <2>1, FreshStep
<1> QED BY <1>1, InitFresh, OrderKept, PTL DEF Spec
-----------------------------------------------------------------------------
(* Undisturbed Runs. *)

\* An Agent that quit by itself stays so: its effect is over.
LEMMA QuitStays ==
    ASSUME OrderInv, Fresh, Next, NEW n \in Nodes, effect[n] = "quit"
    PROVE  effect'[n] = "quit"
<1> USE DEF OrderInv
<1>1. calls[n] = 1 /\ exec[n].pc \notin {"dispatch", "effect"}
  BY DEF Fresh, Once, Kinds
<1>2. CASE Background
  BY <1>2 DEF Background, Drifts
<1>3. ASSUME NEW m \in Nodes, Dispatches(m) PROVE effect'[n] = "quit"
  BY <1>3 DEF Dispatches
<1>4. ASSUME NEW m \in Nodes, CallMoves(m) PROVE effect'[n] = "quit"
  BY <1>1, <1>4 DEF CallMoves
<1> QED BY <1>2, <1>3, <1>4, NextIs

\* A Run that nobody has disturbed after a step was undisturbed before it, in the same process.
LEMMA Undisturbs ==
    ASSUME OrderInv, Fresh, Next, Undisturbed'
    PROVE  /\ Exit \/ Undisturbed
           /\ Open(run) /\ Open(run') /\ run.state # "cancelling" /\ asked.cancel = "none"
<1> USE DEF OrderInv
<1>1. run \in DriverRecords /\ Open(run) /\ Open(run')
  BY SettledStays DEF Types, Undisturbed, Open, SETTLED, TERMINAL_RUN_STATES
<1>2. run.state # "cancelling"
  BY <1>1, CancellingStays DEF Undisturbed
<1>3. run.state \in {"queued", "running", "waiting_input"}
  BY <1>1, <1>2, RecordIs DEF Open, SETTLED, RUN_STATES
<1>4. \A n \in Agents : effect[n] # "quit"
  BY QuitStays, GraphAssumption DEF Undisturbed
<1>5. Closing => Closing' \/ Exit
  <2>1. Restart => ~Closing
    BY DEF Restart, Life, Closing
  <2> QED BY <2>1 DEF Next, JobStep, Closing, host, Capture, CaptureFails, JobFrame, Start, Top, ActAbort, ActSettle,
       ActFatal, ActWaiting, ActSkip, ActDispatch, ActRace, ActComplete, Race, FinallyAbort, Finally, Catch, End,
       CallStep, EffectEnds, Prepare, PrepareDamaged, PrepareStopped, Intent, Check, Dispatch, DispatchFails,
       Result, Wait, Waited, CallFrame, RequestFrame, Cancel, CancelFollows, DecideRun, DecideFollows,
       Close, CloseAborts, CloseDone
<1>6. asked.cancel = "none"
  BY <1>1, <1>2 DEF Fresh, Open
<1> QED BY <1>1, <1>2, <1>3, <1>4, <1>5, <1>6 DEF Undisturbed

\* An excuse lasts as long as the calls of the job.
LEMMA ExcuseLasts ==
    ASSUME OrderInv, OrderInv', Next, Excused
    PROVE  Excused' \/ Active' = {}
<1> USE DEF OrderInv
<1>1. CASE Failed(run)
  <2>1. PICK n \in Nodes : run.att[n].st \in {"failed", "timed_out"}
    BY <1>1 DEF Failed
  <2>2. run'.att[n] = run.att[n]
    BY <2>1, Grows DEF GrowsTo, TERMINAL_ATTEMPTS, TERMINAL_RUN_STATES
  <2> QED BY <2>1, <2>2 DEF Excused, Failed
<1>2. drv'.pc \in {"off", "start", "catch"} => Active' = {}
  BY DEF Life
<1>3. ~Top => \/ drv'.stop = drv.stop /\ drv'.fatal = drv.fatal /\ (drv.pc = "throw" => drv'.pc \in {"throw", "catch"})
              \/ drv'.pc \in {"off", "start"}
  BY JobKeeps
<1>4. CASE Top
  <2>1. drv.pc = "top" /\ (drv.fatal => drv'.fatal)
    BY <1>4 DEF Top, Types, Job
  <2>2. drv.stop \in {"failed", "timed_out", "recovery_required"} => drv'.stop \in {drv.stop, "recovery_required"}
    BY <1>4 DEF Top, StopReasons, DrainedStop
  <2> QED BY <1>1, <2>1, <2>2 DEF Excused
<1> QED BY <1>1, <1>2, <1>3, <1>4 DEF Excused

\* Without a call there is one only behind a dispatch, which follows no failure.
LEMMA StaysIdle ==
    ASSUME OrderInv, ReadInv, Next, Active = {}, Open(run), FailedSibling(run) \/ drv.stop # "none"
    PROVE  Active' = {}
<1> USE DEF OrderInv
<1>1. \A n \in Nodes : exec[n].pc = "none"
  BY DEF Active
<1>2. ASSUME NEW n \in Nodes, Dispatches(n) PROVE FALSE
  BY <1>2 DEF Dispatches, Plain, Driving, MustStop, ReadInv, Reading
<1>3. ASSUME NEW n \in Nodes, CallMoves(n) PROVE FALSE
  BY <1>1, <1>3 DEF CallMoves
<1> QED BY <1>2, <1>3, NextIs, NoLateCalls
-----------------------------------------------------------------------------
(* Interruptions. *)

\* Who aborts a call.
LEMMA Aborts ==
    ASSUME OrderInv, Next, NEW n \in Nodes, exec'[n].pc # "none", exec'[n].abort, exec[n].pc # "none", ~exec[n].abort
    PROVE  ActAbort \/ FinallyAbort \/ (CancelFollows /\ asked.cancel # "none") \/ CloseAborts
<1> USE DEF OrderInv
<1>0. exec' # exec /\ exec \in [Nodes -> Call]
  BY DEF Types
<1>1. exec'[n] # Idle
  BY DEF Idle
<1>2. ~(Top \/ Finally)
  BY <1>0, <1>1 DEF Top, Finally
<1>3. ~ActDispatch
  <2> SUFFICES ASSUME ActDispatch PROVE FALSE
    OBVIOUS
  <2>1. PICK m \in Dispatchable : exec' = [exec EXCEPT ![m] = [Idle EXCEPT !.pc = "prep"]]
    BY DEF ActDispatch
  <2>2. [Idle EXCEPT !.pc = "prep"].abort = FALSE
    BY DEF Idle
  <2> QED BY <1>0, <2>1, <2>2
<1>4. ~Exit
  BY <1>1 DEF Exit
<1>5. ASSUME NEW m \in Nodes, CallStep(m) \/ EffectEnds(m) PROVE FALSE
  <2>1. CallMoves(m)
    BY <1>5, CallsMove
  <2> QED BY <2>1 DEF CallMoves
<1>6. CASE JobStep
  BY <1>0, <1>2, <1>3, <1>6 DEF JobStep, Start, ActSettle, ActFatal, ActWaiting, ActSkip, ActRace, ActComplete, Race, Catch, End
<1> QED BY <1>0, <1>4, <1>5, <1>6 DEF Next, Capture, CaptureFails, Cancel, DecideRun, DecideFollows,
     Close, CloseDone, CancelFollows, Restart

\* What interrupts a call makes its result a cancelled one.
LEMMA CancelledBy ==
    ASSUME OrderInv, NEW n \in Nodes, Steps(n), exec'[n].pc = "result", exec'[n].out = "cancelled"
    PROVE  \/ run.state = "cancelling"
           \/ exec[n].pc = "check" /\ FailedSibling(run)
           \/ exec[n].pc \in {"check", "dispatch", "effect"} /\ exec[n].abort
           \/ n \in Agents /\ effect'[n] = "quit"
<1> USE DEF OrderInv
<1>0. exec \in [Nodes -> Call] /\ effect \in [Nodes -> EFFECTS]
  BY DEF Types
<1>1. ASSUME NEW pc \in EXEC_PC, NEW out \in EXEC_OUT, Go(n, pc, out) PROVE pc = "result" /\ out = "cancelled"
  BY <1>0, <1>1, GoIs
<1>2. {"done", "intent", "check", "result", "wait", "waited", "dispatch", "effect"} \subseteq EXEC_PC
      /\ {"none", "drift", "unknown", "prepare-failed", "error", "ok", "failed", "cancelled"} \subseteq EXEC_OUT
  BY DEF EXEC_PC, EXEC_OUT, RESULTS
<1>3. /\ \A r : ThrownOn(r) \in EXEC_OUT /\ NoIntentOut(r) \in EXEC_OUT
      /\ exec[n].out \in EXEC_OUT
  BY <1>0, <1>2 DEF ThrownOn, NoIntentOut, Call
<1>4. ~(Prepare(n) \/ PrepareDamaged(n) \/ PrepareStopped(n) \/ Intent(n) \/ Result(n) \/ Wait(n) \/ Dispatch(n))
  BY <1>1, <1>2, <1>3 DEF Prepare, PrepareDamaged, PrepareStopped, Intent, Result, Wait, Dispatch
<1>5. CASE Check(n)
  BY <1>1, <1>2, <1>5 DEF Check, At
<1>6. CASE DispatchFails(n)
  BY <1>1, <1>2, <1>6 DEF DispatchFails, At
<1>7. CASE Waited(n)
  BY <1>1, <1>2, <1>7 DEF Waited
<1>8. CASE EffectEnds(n)
  <2>1. exec[n].pc = "effect" /\ n \in Agents
    BY <1>8 DEF EffectEnds, At, Kinds
  <2>2. PICK k \in AgentOutcomes(n) :
          /\ effect' = [effect EXCEPT ![n] = IF k = "cancelled" /\ ~exec[n].abort THEN "quit" ELSE k]
          /\ Go(n, IF k = "unknown" THEN "done" ELSE "result", k)
    BY <1>8 DEF EffectEnds
  <2>3. k = "cancelled"
    BY <1>1, <1>2, <2>2 DEF AgentOutcomes
  <2> QED BY <1>0, <2>1, <2>2, <2>3
<1> QED BY <1>4, <1>5, <1>6, <1>7, <1>8 DEF Steps, CallStep
LEMMA AbortsStep ==
    ASSUME OrderInv, OrderInv', ReadInv, Unmasked, Undisturbed, Fresh, Next, Undisturbed', ~Exit
    PROVE  AbortsExcused'
<1> USE DEF OrderInv
<1> SUFFICES ASSUME NEW n \in Nodes, exec'[n].pc \in Interruptible, exec'[n].abort PROVE Excused'
  BY DEF AbortsExcused
<1>0. n \in Active' /\ Open(run) /\ Open(run') /\ run.state # "cancelling" /\ asked.cancel = "none"
  BY Undisturbs DEF Active, Interruptible
<1>1. CASE exec[n].pc \in Interruptible /\ exec[n].abort
  <2>1. Excused
    BY <1>1 DEF Unmasked, AbortsExcused
  <2> QED BY <1>0, <2>1, ExcuseLasts
<1>2. ~Dispatches(n)
  <2> SUFFICES ASSUME Dispatches(n) PROVE FALSE
    OBVIOUS
  <2>1. exec \in [Nodes -> Call] /\ exec' = [exec EXCEPT ![n] = [Idle EXCEPT !.pc = "prep"]]
    BY DEF Dispatches, Types
  <2>2. [Idle EXCEPT !.pc = "prep"].abort = FALSE
    BY DEF Idle
  <2> QED BY <2>1, <2>2
<1>3. CASE exec[n].pc \in Interruptible /\ ~exec[n].abort
  <2>1. ActAbort \/ FinallyAbort \/ CloseAborts
    BY <1>0, <1>3, Aborts DEF Interruptible
  <2>2. ~CloseAborts
    BY DEF CloseAborts, Undisturbed, Closing
  <2>3. CASE FinallyAbort
    <3>1. drv.pc = "throw" /\ drv' = drv
      BY <1>3, <2>3 DEF FinallyAbort, ReadInv, Finishing, Resting, Interruptible
    <3> QED BY <3>1 DEF Excused
  <2>4. CASE ActAbort
    <3>1. drv.pc = "act" /\ MustStop /\ Active # {}
      BY <2>4 DEF ActAbort, Acting
    <3>2. ~RecSettled /\ rec.state # "cancelling" /\ ~Closing
      BY <1>0, <3>1 DEF ReadInv, Reading, RecSettled, Open, SETTLED, Undisturbed
    <3>3. drv.fatal \/ drv.stop \in {"failed", "timed_out", "recovery_required", "cancelled"}
      BY <3>1, <3>2 DEF MustStop, Types, Job
    <3>4. drv.stop = "cancelled" => drv.fatal
      BY <3>1 DEF Unmasked, StopExcused
    <3>5. drv'.stop = drv.stop /\ drv'.fatal = drv.fatal
      <4>1. Leave("race") \/ Leave("throw")
        BY <2>4 DEF ActAbort
      <4> QED BY <4>1, Leaves
    <3> QED BY <3>3, <3>4, <3>5 DEF Excused
  <2> QED BY <2>1, <2>2, <2>3, <2>4
<1>4. exec[n].pc \in Interruptible
  <2>1. exec'[n].pc # "none"
    BY DEF Interruptible
  <2>2. CASE exec'[n].pc = exec[n].pc
    BY <2>2
  <2>3. CASE Steps(n)
    BY <2>3 DEF Steps, CallMoves, Interruptible
  <2> QED BY <1>2, <2>1, <2>2, <2>3, CallsGo
<1> QED BY <1>1, <1>3, <1>4

LEMMA ResultsStep ==
    ASSUME OrderInv, OrderInv', ReadInv, Unmasked, Undisturbed, Fresh, Next, Undisturbed', ~Exit
    PROVE  ResultsExcused'
<1> USE DEF OrderInv
<1> SUFFICES ASSUME NEW n \in Nodes, exec'[n].pc = "result", exec'[n].out = "cancelled" PROVE Excused'
  BY DEF ResultsExcused
<1>0. n \in Active' /\ run.state # "cancelling"
  BY Undisturbs DEF Active
<1>1. CASE exec[n].pc = "result" /\ exec[n].out = "cancelled"
  <2>1. Excused
    BY <1>1 DEF Unmasked, ResultsExcused
  <2> QED BY <1>0, <2>1, ExcuseLasts
<1>2. CASE Steps(n)
  <2>1. ~(n \in Agents /\ effect'[n] = "quit")
    BY DEF Undisturbed
  <2>2. CASE exec[n].pc = "check" /\ FailedSibling(run)
    <3>1. n \in Active
      BY <2>2 DEF Active
    <3>2. Excused
      BY <2>2, <3>1, FailedIs DEF Unmasked, AttemptsExcused, Excused
    <3> QED BY <1>0, <3>2, ExcuseLasts
  <2>3. CASE exec[n].pc \in {"check", "dispatch", "effect"} /\ exec[n].abort
    <3>1. Excused
      BY <2>3 DEF Unmasked, AbortsExcused, Interruptible
    <3> QED BY <1>0, <3>1, ExcuseLasts
  <2> QED BY <1>0, <1>2, <2>1, <2>2, <2>3, CancelledBy
<1> QED BY <1>1, <1>2, CallsGo

LEMMA AttemptsStep ==
    ASSUME OrderInv, OrderInv', ReadInv, Unmasked, Undisturbed, Fresh, Next, Undisturbed', ~Exit
    PROVE  AttemptsExcused'
<1> USE DEF OrderInv
<1> SUFFICES ASSUME NEW n \in Nodes, run'.att[n].st = "cancelled" PROVE Excused' \/ Active' = {}
  BY DEF AttemptsExcused, Interrupted
<1>0. Open(run) /\ Open(run') /\ run.state # "cancelling"
  BY Undisturbs
<1>1. CASE run.att[n].st = "cancelled"
  <2>1. Excused \/ Active = {}
    BY <1>1 DEF Unmasked, AttemptsExcused, Interrupted
  <2>2. FailedSibling(run)
    BY <1>1 DEF FailedSibling
  <2> QED BY <1>0, <2>1, <2>2, ExcuseLasts, StaysIdle
<1>2. CASE run.att[n].st # "cancelled"
  <2>1. Brings(n)
    BY <1>0, <1>2, FailsItself
  <2>2. exec[n].pc = "result" /\ exec[n].out = "cancelled"
    <3>1. run \in DriverRecords /\ exec[n].pc = "result" /\ exec[n].out \in RESULTS
      BY <2>1, BringMoves DEF Types, Kinds
    <3>2. PICK b \in Branches \union {None} : run' = RecordResult(run, n, exec[n].out, b)
      BY <2>1 DEF Brings, Reports
    <3>3. ResultState(run, exec[n].out) = "cancelled"
      BY <3>1, <3>2, ReportIs
    <3> QED BY <1>0, <3>1, <3>3 DEF ResultState
  <2>3. Excused
    BY <2>2 DEF Unmasked, ResultsExcused
  <2> QED BY <2>3, ExcuseLasts
<1> QED BY <1>1, <1>2

LEMMA StopStep ==
    ASSUME OrderInv, OrderInv', ReadInv, Unmasked, Undisturbed, Fresh, Next, Undisturbed', ~Exit
    PROVE  StopExcused'
<1> USE DEF OrderInv
<1> SUFFICES ASSUME drv'.pc \in {"top", "act", "race"}, drv'.stop = "cancelled", ~drv'.fatal
             PROVE  Active' = {} /\ ~Failed(run')
  BY DEF StopExcused
<1>0. Open(run) /\ Open(run')
  BY Undisturbs
<1>1. CASE Top
  <2>1. /\ drv.pc = "top" /\ run' = run /\ ~drv.fatal
        /\ \A n \in Nodes : exec'[n] = IF exec[n].pc = "done" THEN Idle ELSE exec[n]
    BY <1>1, TopFinds
  <2>2. Active = {} => Active' = {}
    BY <2>1 DEF Active
  <2>3. CASE drv.stop = "cancelled"
    <3>1. Active = {} /\ ~Failed(run)
      BY <2>1, <2>3 DEF Unmasked, StopExcused
    <3> QED BY <2>1, <2>2, <3>1
  <2>4. CASE drv.stop # "cancelled"
    <3>1. drv'.stop \in StopReasons(DrainedStop)
      BY <1>1 DEF Top
    <3>2. DrainedStop \in {"recovery_required", "failed", drv.stop}
      BY DEF DrainedStop
    <3>3. DrainedStop = "none" /\ AttemptStates \cap {"failed", "timed_out"} = {} /\ "cancelled" \in AttemptStates
      BY <2>4, <3>1, <3>2 DEF StopReasons
    <3>4. drv.stop = "none"
      BY <3>2, <3>3
    <3>5. ~Failed(run) /\ Interrupted(run)
      BY <3>3 DEF AttemptStates, Failed, Interrupted
    <3>6. Active = {}
      BY <2>1, <3>4, <3>5 DEF Unmasked, AttemptsExcused, Excused
    <3> QED BY <2>1, <2>2, <3>5, <3>6
  <2> QED BY <2>3, <2>4
<1>2. CASE ~Top
  <2>1. drv.stop = "cancelled" /\ ~drv.fatal
    BY <1>2, JobKeeps
  <2>2. drv.pc \in {"top", "act", "race"}
    <3>1. drv.pc \notin {"off", "start"}
      BY <2>1 DEF Fresh
    <3>2. drv.pc # "throw"
      BY <1>2, <2>1, JobKeeps
    <3>3. drv.pc \notin {"finally", "catch", "end"}
      BY <1>2, <2>1, JobKeeps DEF Ending
    <3> QED BY <3>1, <3>2, <3>3 DEF Types, Job, DRV_PC
  <2>3. Active = {} /\ ~Failed(run)
    BY <2>1, <2>2 DEF Unmasked, StopExcused
  <2>4. Active' = {}
    BY <1>0, <2>1, <2>3, StaysIdle
  <2>5. ASSUME NEW n \in Nodes, run'.att[n].st \in {"failed", "timed_out"} PROVE FALSE
    <3>1. run.att[n].st \notin {"failed", "timed_out"}
      BY <2>3 DEF Failed
    <3>2. Brings(n)
      BY <1>0, <2>5, <3>1, FailsItself
    <3> QED BY <2>3, <3>2, BringMoves DEF Active
  <2> QED BY <2>4, <2>5 DEF Failed
<1> QED BY <1>1, <1>2

LEMMA UnmaskedStep ==
    ASSUME OrderInv, OrderInv', ReadInv, Fresh, Unmasked, [Next]_vars
    PROVE  Unmasked'
<1>1. CASE UNCHANGED vars
  BY <1>1 DEF vars, host, ghost, Unmasked, Undisturbed, AbortsExcused, ResultsExcused, AttemptsExcused, StopExcused,
       Excused, Active, Closing
<1>2. CASE Exit
  <2>1. \A n \in Nodes : exec'[n] = Idle
    BY <1>2 DEF Exit
  <2>2. drv'.pc = "off"
    BY <1>2 DEF Exit, Off
  <2>3. \A n \in Nodes : exec'[n].pc = "none"
    BY <2>1 DEF Idle
  <2>4. Active' = {}
    BY <2>3 DEF Active
  <2> QED BY <2>2, <2>3, <2>4 DEF Unmasked, AbortsExcused, Interruptible, ResultsExcused, AttemptsExcused, StopExcused
<1>3. CASE Next /\ ~Exit /\ Undisturbed'
  <2>1. Undisturbed
    BY <1>3, Undisturbs
  <2> QED BY <1>3, <2>1, AbortsStep, ResultsStep, AttemptsStep, StopStep DEF Unmasked
<1> QED BY <1>1, <1>2, <1>3 DEF Unmasked

LEMMA InitUnmasked == Init => Unmasked
<1> SUFFICES ASSUME Init PROVE Unmasked
  OBVIOUS
<1>1. drv.pc = "off" /\ \A n \in Nodes : exec[n].pc = "none"
  BY DEF Init, Off, Idle
<1> QED BY <1>1 DEF Unmasked, AbortsExcused, Interruptible, ResultsExcused, AttemptsExcused, StopExcused, Active

LEMMA UnmaskedKept == Spec => []Unmasked
BY InitUnmasked, UnmaskedStep, OrderKept, ReadKept, FreshKept, PTL DEF Spec
-----------------------------------------------------------------------------
\* Of the steps of the job only its settlement lets a running Run end cancelled.
LEMMA CancelledBySettlement ==
    ASSUME OrderInv, Next, run.state = "running", run'.state = "cancelled", drv' # drv, ~Closing
    PROVE  ActSettle
<1> USE DEF OrderInv
<1>0. run \in DriverRecords /\ run.admission # "pending" /\ run' # run
  BY DEF Types, Unadmitted, SETTLED, TERMINAL_RUN_STATES
<1>1. ClosingCancel = run
  BY DEF ClosingCancel
<1>2. ASSUME NEW t \in {"succeeded", "failed", "recovery_required"}
      PROVE  Written(run, SettleTerminal(run, t)).state # "cancelled"
  <2>1. t \in SETTLED
    BY DEF SETTLED, TERMINAL_RUN_STATES
  <2>2. SettleTerminal(run, t).state = t
    BY <1>0, <2>1, SettleTerminalIs
  <2> QED BY <2>2 DEF Written
<1>3. ~(Capture \/ Restart)
  <2>1. ~Capture
    BY <1>0, CaptureIs DEF Capture
  <2>2. ~Restart
    <3>1. ReconcileOnStart(run).state \in {"running", "recovery_required"}
      BY <1>0, ReconcileIs
    <3> QED BY <3>1 DEF Restart
  <2> QED BY <2>1, <2>2
<1>4. ~(Start \/ ActAbort \/ ActFatal)
  BY <1>0, <1>1 DEF Start, ActAbort, ActFatal, Fault
<1>5. ~ActSkip
  <2> SUFFICES ASSUME ActSkip PROVE FALSE
    OBVIOUS
  <2>1. run' = run \/ run' = Skip(run, SkippedNodes(rec))
    BY DEF ActSkip, JobWrite, Written, Fault
  <2> QED BY <1>0, <2>1, SkipIs
<1>6. ~ActComplete
  BY <1>0, <1>2 DEF ActComplete, JobWrite, Fault
<1>7. ~Catch
  BY <1>0, <1>2 DEF Catch, CatchState, Fault
<1>8. CASE JobStep
  BY <1>0, <1>4, <1>5, <1>6, <1>7, <1>8 DEF JobStep, Top, ActWaiting, ActDispatch, ActRace, Race, FinallyAbort, Finally, End
<1>9. ASSUME NEW n \in Nodes, CallStep(n) \/ EffectEnds(n) PROVE drv' = drv
  BY <1>9 DEF CallStep, EffectEnds, Prepare, PrepareDamaged, PrepareStopped, Intent, Check, Dispatch, DispatchFails,
       Result, Wait, Waited, CallFrame
<1> QED BY <1>0, <1>3, <1>8, <1>9 DEF Next, CaptureFails, Cancel, CancelFollows, DecideRun, DecideFollows,
     Close, CloseAborts, CloseDone, CloseFrame, Exit

\* The reason of a failure survives the siblings it interrupts: when its own job settles a running
\* Run as cancelled, no Attempt had failed, unless an Agent had quit by itself before (the stop
\* reason of driveRun, the aborts behind it, and the results the aborted calls record).
THEOREM FailuresSurvive == Spec => FailureNotMasked
<1>1. ASSUME OrderInv, ReadInv, Unmasked, Next, run.state = "running", run'.state = "cancelled", drv' # drv, ~Closing,
             \A n \in Agents : effect[n] # "quit"
      PROVE  \A n \in Nodes : run'.att[n].st \notin {"failed", "timed_out"}
  <2> USE <1>1 DEF OrderInv
  <2>1. ActSettle
    BY CancelledBySettlement
  <2>2. run \in DriverRecords /\ drv.pc = "act" /\ MustStop /\ Active = {} /\ ~drv.fatal /\ ClosingCancel = run
    BY <2>1 DEF Types, ActSettle, Acting, ClosingCancel
  <2>3. ~RecSettled /\ rec.state # "cancelling"
    BY <2>2 DEF ReadInv, Reading, RecSettled, SETTLED, TERMINAL_RUN_STATES
  <2>4. drv.stop # "none"
    BY <2>2, <2>3 DEF MustStop
  <2>5. drv.stop \in SETTLED \ {"succeeded"}
    BY <2>4 DEF Types, Job, SETTLED, TERMINAL_RUN_STATES
  <2>6. run' = run \/ run' = Written(run, SettleTerminal(run, drv.stop))
    BY <2>1, <2>2, <2>3, <2>4 DEF ActSettle, JobWrite, Fault
  <2>7. run' = SettleTerminal(run, drv.stop)
    BY <2>6 DEF Written
  <2>8. drv.stop = "cancelled"
    BY <2>2, <2>5, <2>7, SettleTerminalIs
  <2>9. ~Failed(run)
    BY <2>2, <2>8 DEF Unmasked, Undisturbed, StopExcused
  <2>10. \A n \in Nodes : run'.att[n] = run.att[n]
    <3>1. Moved(run, run', {}, "recovery_required")
      BY <2>2, <2>5, <2>7, <2>8, SettleTerminalIs
    <3> QED BY <3>1 DEF Moved
  <2> QED BY <2>9, <2>10 DEF Failed
<1>2. OrderInv /\ ReadInv /\ Unmasked /\ [Next]_vars =>
        [run.state = "running" /\ run'.state = "cancelled" /\ drv' # drv /\ ~Closing
           => \/ \A n \in Nodes : run'.att[n].st \notin {"failed", "timed_out"}
              \/ \E n \in Agents : effect[n] = "quit"]_vars
  BY <1>1
<1> QED BY <1>2, OrderKept, ReadKept, UnmaskedKept, PTL DEF Spec, FailureNotMasked
-----------------------------------------------------------------------------
(* Nobody is forgotten. *)

\* Somebody will go on with a Run that is neither settled nor waiting: its job, or a request that
\* schedules one.  A job about to end over a Run that was waiting has to run again.
Live == {"queued", "running", "cancelling"}
GoesOn ==
    \/ drv.pc \in {"start", "top", "race", "throw", "catch"}
    \/ drv.pc = "act" /\ (rec.state # "waiting_input" \/ rerun \/ asked.decide)
    \/ drv.pc = "finally" /\ (rerun \/ asked.decide)
    \/ drv.pc = "end" /\ (rerun \/ asked.decide \/ asked.cancel = "cancelling")
    \/ drv.pc = "off" /\ (asked.decide \/ asked.cancel = "cancelling")
Serving == up /\ admitted /\ ~Closing /\ ~hung /\ run.state \in Live
Owed == Serving => GoesOn

\* Without a decision no Run becomes one that goes on.
LEMMA LivesOn ==
    ASSUME OrderInv, AccountInv, Next, run'.state \in Live, Cancel \/ (\E n \in Nodes : Steps(n))
    PROVE  run.state \in Live
<1> USE DEF OrderInv, AccountInv
<1>0. run \in DriverRecords /\ Open(run) /\ run.state \in RUN_STATES
  <2>1. Open(run')
    BY DEF Live, Open, SETTLED, TERMINAL_RUN_STATES
  <2> QED BY <2>1, SettledStays, RecordIs DEF Types
<1>1. SUFFICES ASSUME run.state = "waiting_input" PROVE FALSE
  BY <1>0 DEF Live, Open, SETTLED, RUN_STATES
<1>2. run' # run
  BY <1>1 DEF Live
<1>3. ~Cancels
  <2>1. ~ActiveAttempt(run)
    BY <1>1 DEF Waiters, ActiveAttempt
  <2> QED BY <1>0, <2>1, CancelMoves DEF Live
<1>4. ~Cancel
  BY <1>2, <1>3 DEF Cancel, Cancels, Fault
<1>5. \A n \in Nodes : ~Opens(n) /\ ~Brings(n) /\ ~Asks(n)
  BY <1>1, OpenMoves, BringMoves, AskMoves DEF Live
<1>6. \A n \in Nodes : ~Steps(n)
  <2> SUFFICES ASSUME NEW n \in Nodes, Steps(n) PROVE FALSE
    OBVIOUS
  <2>1. Writes(n)
    BY DEF Steps, CallMoves
  <2> QED BY <1>2, <1>3, <1>5, <2>1 DEF Writes, Gives, Opens, Brings, Asks
<1> QED BY <1>4, <1>6

\* A settlement by the job settles the Run or throws.
LEMMA JobSettles ==
    ASSUME OrderInv, AccountInv, OneFault', Next, run'.state \in Live, ~Closing,
           ActSettle \/ ActComplete \/ Catch \/ Start
    PROVE  drv'.pc \in {"throw", "top"}
<1> USE DEF OrderInv, AccountInv, ReadInv
<1>0. run \in DriverRecords /\ Open(run') /\ Open(run) /\ run'.state # "waiting_input"
  <2>1. Open(run') /\ run'.state # "waiting_input"
    BY DEF Live, Open, SETTLED, TERMINAL_RUN_STATES
  <2> QED BY <2>1, SettledStays DEF Types
<1>1. CASE ActSettle \/ ActComplete
  BY <1>0, <1>1, SettlesOpen
<1>2. ~Catch
  BY <1>0, CatchSettles
<1>3. CASE Start
  <2>1. CASE run.admission = "pending"
    <3>1. run.state = "queued"
      BY <1>0, <2>1 DEF Unadmitted, Open
    <3>2. SettleTerminal(run, "recovery_required").state = "recovery_required" /\ "recovery_required" \in SETTLED
      BY <1>0, <3>1, SettleTerminalIs DEF SETTLED
    <3>3. Applies(run, SettleTerminal(run, "recovery_required"))
      BY <3>1, <3>2 DEF Applies, Terminal, TERMINAL_RUN_STATES, CanTransitionRun, ALLOWED
    <3>4. run' = SettleTerminal(run, "recovery_required")
      BY <1>3, <2>1, <3>3 DEF Start, Written
    <3> QED BY <1>0, <3>2, <3>4 DEF Open
  <2>2. CASE run.admission # "pending"
    <3>1. Leave("top")
      BY <1>3, <2>2 DEF Start
    <3> QED BY <3>1, Leaves
  <2> QED BY <2>1, <2>2
<1> QED BY <1>1, <1>2, <1>3

\* A request that schedules the Run does so.
LEMMA Schedules ==
    ASSUME OrderInv, Schedule, ~Closing
    PROVE  drv'.pc = "start" \/ (drv' = drv /\ drv.pc # "off" /\ rerun')
<1>1. CASE HasJob
  BY <1>1 DEF Schedule, HasJob
<1>2. CASE ~HasJob
  <2>1. drv' = [Off EXCEPT !.pc = "start"]
    BY <1>2 DEF Schedule
  <2> QED BY <2>1 DEF Off
<1> QED BY <1>1, <1>2

LEMMA StillServing ==
    ASSUME admitted', ~Closing', ~hung', UNCHANGED host
    PROVE  admitted /\ ~Closing /\ ~hung
<1>1. admitted' = admitted /\ close' = close /\ hung' = hung
  BY DEF host
<1> QED BY <1>1 DEF Closing

LEMMA OwedStep ==
    ASSUME OrderInv, OrderInv', AccountInv, OneFault', Owed, Next, "decide" \notin FaultyRequests
    PROVE  Owed'
<1> USE DEF OrderInv
<1> SUFFICES ASSUME Serving' PROVE GoesOn'
  BY DEF Owed
<1>0. /\ up' /\ admitted' /\ ~Closing' /\ ~hung' /\ run'.state \in Live
      /\ run \in DriverRecords /\ drv \in Job /\ drv.pc \in DRV_PC
      /\ asked \in [cancel: {"none", "cancelled", "cancelling"}, decide: BOOLEAN]
  BY DEF Serving, Types, Job
<1>1. CASE Capture
  <2>1. drv.pc = "off" /\ ~Closing
    BY <1>0, <1>1 DEF Capture, Life, Closing
  <2> QED BY <1>1, <2>1, Schedules DEF Capture, GoesOn
<1>2. CASE CaptureFails
  <2>1. run.state \in {"queued"} \union SETTLED
    BY <1>2 DEF CaptureFails, Life, Unadmitted
  <2>2. run.state = "queued"
    BY <1>0, <2>1, SettledStays DEF Open, Live, SETTLED, TERMINAL_RUN_STATES
  <2>3. SettleTerminal(run, "failed").state = "failed"
    BY <1>0, <2>2, SettleTerminalIs DEF SETTLED, TERMINAL_RUN_STATES
  <2>4. Applies(run, SettleTerminal(run, "failed"))
    BY <2>2, <2>3 DEF Applies, Terminal, TERMINAL_RUN_STATES, CanTransitionRun, ALLOWED
  <2> QED BY <1>0, <1>2, <2>3, <2>4 DEF CaptureFails, Written, Live
<1>3. CASE Exit
  BY <1>0, <1>3 DEF Exit
<1>4. CASE Restart
  <2>1. drv' = [Off EXCEPT !.pc = "start"]
    BY <1>0, <1>4 DEF Restart, Live
  <2> QED BY <2>1 DEF Off, GoesOn
<1>5. CASE Close \/ CloseAborts \/ CloseDone
  BY <1>0, <1>5 DEF Close, CloseAborts, CloseDone, Closing
<1>6. CASE DecideRun
  <2>1. run.state = "waiting_input" /\ run' # run
    <3>1. run.state = "waiting_input"
      BY <1>6 DEF DecideRun, DecideOk
    <3> QED BY <1>0, <3>1 DEF Live
  <2>2. PICK d \in Decisions, n \in Waiting(run), approve \in BOOLEAN, b \in Branches :
          run' = Decide(run, n, d, approve, b) /\ asked' = [asked EXCEPT !.decide = approve]
    <3>1. PICK d \in Decisions, n \in Waiting(run), approve \in BOOLEAN :
            \E b \in ApprovedBranches(n) :
              run' = Decide(run, n, d, approve, b) /\ asked' = [asked EXCEPT !.decide = approve]
      BY <1>6, <2>1 DEF DecideRun
    <3>2. ApprovedBranches(n) \subseteq Branches
      BY GraphAssumption DEF ApprovedBranches
    <3> QED BY <3>1, <3>2
  <2>3. approve
    BY <1>0, <2>2, DecideLeaves DEF Live
  <2>4. asked'.decide
    BY <1>0, <2>2, <2>3
  <2>5. drv' = drv
    BY <1>6 DEF DecideRun
  <2> QED BY <1>0, <2>4, <2>5 DEF GoesOn, DRV_PC
<1>7. CASE DecideFollows \/ CancelFollows
  <2>1. up /\ admitted /\ ~Closing /\ ~hung /\ run' = run /\ rec' = rec
    <3>1. up /\ run' = run /\ rec' = rec /\ UNCHANGED host
      BY <1>7 DEF DecideFollows, CancelFollows, RequestFrame
    <3> QED BY <1>0, <3>1, StillServing
  <2>2. GoesOn
    BY <1>0, <2>1 DEF Owed, Serving
  <2>3. CASE Schedule
    BY <1>0, <2>1, <2>3, Schedules DEF GoesOn, DRV_PC
  <2>4. CASE ~Schedule
    <3>1. CancelFollows /\ drv' = drv /\ rerun' = rerun /\ asked' = [asked EXCEPT !.cancel = "none"]
          /\ (asked.cancel = "cancelling" => HasControllers)
      BY <1>7, <2>4 DEF DecideFollows, CancelFollows
    <3>2. asked'.decide = asked.decide
      BY <1>0, <3>1
    <3> QED BY <2>1, <2>2, <3>1, <3>2 DEF GoesOn, HasControllers
  <2> QED BY <2>3, <2>4
<1>8. CASE Cancel \/ \E n \in Nodes : CallStep(n) \/ EffectEnds(n)
  <2>1. /\ up /\ admitted /\ ~Closing /\ ~hung /\ rec' = rec /\ drv' = drv /\ rerun' = rerun
        /\ asked' = asked \/ (asked.cancel = "none" /\ \E c : asked' = [asked EXCEPT !.cancel = c])
    <3>1. CASE Cancel
      <4>1. up /\ UNCHANGED host
        BY <3>1 DEF Cancel, RequestFrame
      <4> QED BY <1>0, <3>1, <4>1, StillServing DEF Cancel, RequestFrame
    <3>2. ASSUME NEW n \in Nodes, CallStep(n) \/ EffectEnds(n)
          PROVE  up /\ UNCHANGED <<host, rec, drv, rerun, asked>>
      BY <3>2 DEF CallStep, EffectEnds, Prepare, PrepareDamaged, PrepareStopped, Intent, Check, Dispatch,
         DispatchFails, Result, Wait, Waited, CallFrame, At
    <3> QED BY <1>0, <1>8, <3>1, <3>2, StillServing
  <2>2. run.state \in Live
    BY <1>0, <1>8, LivesOn, CallsMove DEF Steps
  <2>3. asked'.decide = asked.decide /\ (asked.cancel # "none" => asked' = asked)
    BY <1>0, <2>1
  <2> QED BY <2>1, <2>2, <2>3 DEF Owed, Serving, GoesOn
<1>9. CASE JobStep
  <2>1. up /\ admitted /\ ~Closing /\ ~hung /\ asked' = asked
    <3>1. up /\ asked' = asked
      BY <1>9 DEF JobStep, JobFrame, Start, Top, ActAbort, ActSettle, ActFatal, ActWaiting, ActSkip, ActDispatch,
           ActRace, ActComplete, Race, FinallyAbort, Finally, Catch, End, Acting, Driving, Plain
    <3>2. (UNCHANGED host) \/ (Catch /\ admitted' = admitted /\ close' = close /\ (hung => hung'))
      BY <1>9 DEF JobStep, JobFrame, Start, Top, ActAbort, ActSettle, ActFatal, ActWaiting, ActSkip, ActDispatch,
           ActRace, ActComplete, Race, FinallyAbort, Finally, Catch, End
    <3> QED BY <1>0, <3>1, <3>2, StillServing DEF Closing
  <2>2. CASE Start \/ ActSettle \/ ActComplete \/ Catch
    BY <1>0, <2>1, <2>2, JobSettles DEF GoesOn
  <2>3. CASE Top
    BY <1>0, <2>3, TopFinds DEF GoesOn, Live
  <2>4. CASE ActAbort \/ ActFatal \/ ActSkip \/ ActDispatch \/ ActRace \/ Race
    <3>1. Leave("race") \/ Leave("throw") \/ Leave("top")
      BY <2>4 DEF ActAbort, ActFatal, ActSkip, JobWrite, ActDispatch, ActRace, Race
    <3> QED BY <3>1, Leaves DEF GoesOn
  <2>5. ASSUME run' = run, rerun' = rerun, Leave("finally") \/ Leave("catch") \/ Leave("end"),
               drv.pc = "finally" \/ drv.pc = "throw" \/ (drv.pc = "act" /\ rec.state = "waiting_input"),
               drv.pc = "throw" => Leave("catch")
        PROVE  GoesOn'
    <3>1. GoesOn
      BY <1>0, <2>1, <2>5 DEF Owed, Serving
    <3>2. drv'.pc \in {"finally", "catch", "end"} /\ (drv.pc = "throw" => drv'.pc = "catch")
      BY <2>5, Leaves
    <3> QED BY <2>1, <2>5, <3>1, <3>2 DEF GoesOn
  <2>6. CASE ActWaiting
    BY <2>5, <2>6 DEF ActWaiting, Driving, Acting, JobFrame
  <2>7. CASE Finally
    BY <2>5, <2>7 DEF Finally, JobFrame
  <2>8. CASE FinallyAbort
    <3>1. run' = run /\ drv' = drv /\ rerun' = rerun /\ drv.pc \in {"finally", "throw"}
      BY <2>8 DEF FinallyAbort, JobFrame
    <3>2. GoesOn
      BY <1>0, <2>1, <3>1 DEF Owed, Serving
    <3> QED BY <2>1, <3>1, <3>2 DEF GoesOn
  <2>9. CASE End
    <3>1. drv.pc = "end" /\ run' = run /\ drv' = [Off EXCEPT !.pc = IF rerun THEN "start" ELSE "off"]
      BY <2>1, <2>9 DEF End
    <3>2. drv'.pc = IF rerun THEN "start" ELSE "off"
      BY <3>1 DEF Off
    <3>3. GoesOn
      BY <1>0, <2>1, <3>1 DEF Owed, Serving
    <3> QED BY <2>1, <3>1, <3>2, <3>3 DEF GoesOn
  <2> QED BY <1>9, <2>2, <2>3, <2>4, <2>6, <2>7, <2>8, <2>9 DEF JobStep
<1> QED BY <1>1, <1>2, <1>3, <1>4, <1>5, <1>6, <1>7, <1>8, <1>9 DEF Next

\* A Run that is not settled and waits for nobody has a job, or a request about to schedule one
\* (driveRun, scheduleRun and its rerun, cancel, decide), under the premise of EffectsAccountedFor
\* and as long as the write of a decision reports an error only when it wrote nothing.
THEOREM NobodyStranded ==
    ASSUME "decide" \notin FaultyRequests
    PROVE  Spec /\ []OneFault => []NeverStranded
<1>1. Init => Owed
  BY DEF Init, Owed, Serving
<1>2. OrderInv /\ OrderInv' /\ AccountInv /\ OneFault' /\ Owed /\ [Next]_vars => Owed'
  <2>1. UNCHANGED vars /\ Owed => Owed'
    BY DEF vars, host, ghost, Owed, Serving, GoesOn, Closing
  <2> QED BY <2>1, OwedStep
<1>3. Types /\ Owed => NeverStranded
  <2> SUFFICES ASSUME Types, GoesOn PROVE HasJob \/ asked # NoRequests
    BY DEF Owed, Serving, Live, NeverStranded
  <2> QED BY DEF GoesOn, HasJob, NoRequests
<1> QED BY <1>1, <1>2, <1>3, OrderKept, AccountKept, PTL DEF Spec, OrderInv
=============================================================================
