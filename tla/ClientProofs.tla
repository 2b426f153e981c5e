---------------------------- MODULE ClientProofs -----------------------------
(***************************************************************************)
(* Proofs about what the browser shows and edits (module ClientViews): the *)
(* Run a workspace is bound to, for any number of Runs, gates, reads and   *)
(* decisions; the conversation seat, for any Sessions, Runs and calls in   *)
(* flight; and the canvas, for any history cap, port sides and requests to *)
(* the clipboard.                                                          *)
(***************************************************************************)
EXTENDS ClientViews, FiniteSetTheorems, SequenceTheorems, TLAPS

-----------------------------------------------------------------------------
(* The Run beside the canvas.                                                *)

\* The Host's Runs: every Run waits at some gate at every state it has had, and never
\* goes back to an earlier one.
Histories ==
    /\ hist \in [Watched -> Seq(1..Gates + 1)]
    /\ \A r \in Watched : Len(hist[r]) > 0 /\ \A i \in 1..Len(hist[r]) : hist[r][i] <= Last(hist[r])

\* A state a Run has had.
State == [run : Watched, seq : Nat, gate : 1..Gates + 1]
IsPast(v) == v \in State /\ v.seq \in 1..Len(hist[v.run]) /\ v.gate = hist[v.run][v.seq]

\* A read in flight is of the binding of its epoch, has a number of its own and brings
\* a state of its Run; the latest one brings nothing older than what is shown.
Read == [run : Watched, epoch : Nat, read : Nat, value : State \cup {NoView}]
ReadOK(a) ==
    /\ a \in Read /\ a.run # NoView /\ a.epoch <= generation /\ a.read <= latest
    /\ a.epoch = generation => a.run = bound
    /\ a.value # NoView => a.value.run = a.run /\ IsPast(a.value)
    /\ a.value # NoView /\ view # NoView /\ Adoptable(a) => a.value.seq >= view.seq
Reads == (\A a \in asked : ReadOK(a)) /\ (\A a, b \in asked : a.read = b.read => a = b)

\* What is shown is a state the bound Run has had.
Showing ==
    /\ bound \in Watched \cup {NoView} /\ stale \in BOOLEAN
    /\ generation \in Nat /\ latest \in Nat /\ load \in Nat
    /\ bound = NoView => view = NoView /\ busy = NoView
    /\ bound # NoView => load > 0
    /\ view # NoView => view.run = bound /\ IsPast(view)

\* A decision carries the id kept for its gate and action, as long as the ids are kept.
IsKept(r, gate, action, id, at) ==
    /\ r \in Watched /\ gate \in 1..Gates /\ action \in Actions /\ at \in Nat /\ at > 0 /\ at <= load
    /\ at = load => id = ids[<<r, gate, action>>] /\ id > 0
DecisionIds ==
    /\ ids \in [Keys -> Nat] /\ issued \in Nat
    /\ \A p \in posts : IsKept(p.run, p.gate, p.action, p.id, p.load)
    /\ \A d \in applied :
          /\ d.run \in Watched /\ d.load \in Nat
          /\ d.load > 0 => IsKept(d.run, d.meant, d.action, d.id, d.load)

\* Two decisions of one gate and action, sent while the ids were kept, carry one id, and
\* no id settles twice.
OneId ==
    /\ \A p, q \in posts : p.run = q.run /\ p.gate = q.gate /\ p.action = q.action /\ p.load = q.load => p.id = q.id
    /\ \A p \in posts, d \in applied :
          p.run = d.run /\ p.gate = d.meant /\ p.action = d.action /\ p.load = d.load => p.id = d.id
    /\ RepeatedDecisionSettlesOnce

\* Every gate a Run has passed was settled by a decision, and no decision was meant for a
\* gate its Run had not come to.
GatesSettled ==
    /\ \A p \in posts : p.gate <= Last(hist[p.run])
    /\ \A d \in applied : d.run \in Watched /\ d.gate \in 1..Gates /\ d.meant \in 1..d.gate
    /\ \A d \in applied : d.load = 0 => d.meant = d.gate
    /\ \A r \in Watched : Last(hist[r]) <= Gates =>
          \A g \in 1..Last(hist[r]) - 1 : \E d \in applied : d.run = r /\ d.gate = g

RvIInv == Histories /\ Reads /\ Showing /\ DecisionIds /\ OneId /\ GatesSettled /\ DecisionMissesOnlyForOthers

\* A Run that goes on keeps the states it has had.
LEMMA HistoryGrows ==
  ASSUME Histories, Gates \in Nat, NEW r \in Watched, NEW g \in 1..Gates + 1, g >= Last(hist[r]),
         hist' = [hist EXCEPT ![r] = Append(@, g)]
  PROVE  /\ Histories' /\ \A v : IsPast(v) => IsPast(v)'
         /\ Last(hist'[r]) = g /\ \A q \in Watched : q # r => hist'[q] = hist[q]
<1>1. hist[r] \in Seq(1..Gates + 1) /\ Append(hist[r], g) \in Seq(1..Gates + 1)
  BY DEF Histories
<1>2. Len(Append(hist[r], g)) = Len(hist[r]) + 1 /\ Len(hist[r]) \in Nat
      /\ \A i \in 1..Len(hist[r]) : Append(hist[r], g)[i] = hist[r][i]
  BY <1>1
<1>3. hist' \in [Watched -> Seq(1..Gates + 1)] /\ hist'[r] = Append(hist[r], g)
      /\ \A q \in Watched : q # r => hist'[q] = hist[q]
  BY <1>1 DEF Histories
<1>4. \A q \in Watched : Len(hist'[q]) >= Len(hist[q]) /\ Len(hist'[q]) \in Nat /\ Len(hist[q]) \in Nat
                         /\ \A i \in 1..Len(hist[q]) : hist'[q][i] = hist[q][i]
  <2> SUFFICES ASSUME NEW q \in Watched
               PROVE  Len(hist'[q]) >= Len(hist[q]) /\ Len(hist'[q]) \in Nat /\ Len(hist[q]) \in Nat
                      /\ \A i \in 1..Len(hist[q]) : hist'[q][i] = hist[q][i]
    OBVIOUS
  <2>1. CASE q = r
    BY <2>1, <1>2, <1>3
  <2>2. CASE q # r
    <3>1. hist[q] \in Seq(1..Gates + 1)
      BY DEF Histories
    <3> QED BY <2>2, <3>1, <1>3
  <2> QED BY <2>1, <2>2
<1>7. Last(hist'[r]) = g
  BY <1>1, <1>2, <1>3 DEF Last
<1>8. ASSUME NEW i \in 1..Len(hist'[r]) PROVE hist'[r][i] <= Last(hist'[r])
  <2>1. CASE i \in 1..Len(hist[r])
    <3>1. hist[r][i] <= Last(hist[r]) /\ hist'[r][i] = hist[r][i]
      BY <2>1, <1>4 DEF Histories
    <3>2. Last(hist[r]) \in 1..Gates + 1 /\ hist[r][i] \in 1..Gates + 1
      BY <1>1, <2>1 DEF Last, Histories
    <3> QED BY <3>1, <3>2, <1>7
  <2>2. CASE i = Len(hist[r]) + 1
    <3>1. hist'[r][i] = g
      BY <1>1, <1>3, <2>2
    <3> QED BY <3>1, <1>7
  <2> QED BY <2>1, <2>2, <1>2, <1>3
<1>5. Histories'
  <2>1. \A q \in Watched : Len(hist'[q]) > 0
    BY <1>4 DEF Histories
  <2> QED BY <1>3, <1>8, <2>1 DEF Histories
<1>6. ASSUME NEW v, IsPast(v) PROVE IsPast(v)'
  <2>1. v \in State /\ v.run \in Watched /\ v.seq \in 1..Len(hist[v.run]) /\ v.gate = hist[v.run][v.seq]
    BY <1>6 DEF IsPast, State
  <2>2. v.seq \in 1..Len(hist'[v.run]) /\ v.gate = hist'[v.run][v.seq]
    BY <2>1, <1>4
  <2> QED BY <2>1, <2>2 DEF IsPast
<1> QED BY <1>3, <1>5, <1>6, <1>7

\* The gate a Run waits at, and the state the Host answers with.
LEMMA NowIsPast ==
  ASSUME Histories, NEW r \in Watched, Gates \in Nat
  PROVE  /\ Last(hist[r]) \in 1..Gates + 1
         /\ IsPast(Snapshot(r)) /\ Snapshot(r).run = r /\ Snapshot(r).seq = Len(hist[r])
         /\ \A v : IsPast(v) /\ v.run = r => v.seq <= Len(hist[r]) /\ v.gate <= Last(hist[r])
<1>1. hist[r] \in Seq(1..Gates + 1) /\ Len(hist[r]) > 0 /\ Len(hist[r]) \in Nat
  BY DEF Histories
<1>2. Last(hist[r]) = hist[r][Len(hist[r])] /\ Last(hist[r]) \in 1..Gates + 1
  BY <1>1 DEF Last
<1>3. Snapshot(r) \in State /\ Snapshot(r).run = r /\ Snapshot(r).seq = Len(hist[r])
      /\ Snapshot(r).gate = Last(hist[r])
  BY <1>1, <1>2 DEF Snapshot, State
<1>4. IsPast(Snapshot(r))
  BY <1>1, <1>2, <1>3 DEF IsPast
<1>5. \A v : IsPast(v) /\ v.run = r => v.seq <= Len(hist[r]) /\ v.gate <= Last(hist[r])
  BY <1>1 DEF IsPast, Histories
<1> QED BY <1>2, <1>3, <1>4, <1>5

\* A decision takes a Run on.
LEMMA GatePassed ==
  ASSUME Histories, Gates \in Nat, NEW r \in Watched, NEW x \in Actions,
         Last(hist[r]) <= Gates, Passes(r, x)
  PROVE  /\ Histories' /\ \A v : IsPast(v) => IsPast(v)'
         /\ Last(hist'[r]) = After(Last(hist[r]), x)
         /\ \A q \in Watched : q # r => hist'[q] = hist[q]
<1>1. Last(hist[r]) \in 1..Gates + 1
  BY NowIsPast
<1>2. After(Last(hist[r]), x) \in 1..Gates + 1 /\ After(Last(hist[r]), x) >= Last(hist[r])
  BY <1>1 DEF After
<1>3. hist' = [hist EXCEPT ![r] = Append(@, After(Last(hist[r]), x))]
  BY DEF Passes
<1> QED BY <1>2, <1>3, HistoryGrows

\* No step takes a state of a Run back.
LEMMA PastStays ==
  ASSUME RvIInv, Gates \in Nat, [RunViewNext]_runVars
  PROVE  Histories' /\ \A v : IsPast(v) => IsPast(v)'
<1> USE DEF RvIInv
<1>1. ASSUME UNCHANGED hist PROVE Histories' /\ \A v : IsPast(v) => IsPast(v)'
  BY <1>1 DEF Histories, IsPast
<1>2. ASSUME NEW r \in Watched, Progress(r) PROVE Histories' /\ \A v : IsPast(v) => IsPast(v)'
  <2>1. Last(hist[r]) \in 1..Gates + 1 /\ Last(hist[r]) >= Last(hist[r])
    BY NowIsPast
  <2> QED BY <1>2, <2>1, HistoryGrows DEF Progress
<1>4. ASSUME NEW p \in posts, HostDecides(p) PROVE Histories' /\ \A v : IsPast(v) => IsPast(v)'
  <2>1. p.run \in Watched /\ p.action \in Actions
    BY DEF DecisionIds, IsKept
  <2> QED BY <2>1, <1>1, <1>4, GatePassed DEF HostDecides, Decided, Settles
<1>5. ASSUME NEW r \in Watched, NEW x \in Actions, OtherDecides(r, x)
      PROVE  Histories' /\ \A v : IsPast(v) => IsPast(v)'
  BY <1>5, GatePassed DEF OtherDecides
<1>6. CASE UNCHANGED runVars
  BY <1>1, <1>6 DEF runVars
<1>7. CASE RunViewNext
  BY <1>1, <1>2, <1>4, <1>5, <1>7
     DEF RunViewNext, LoadDocument, BindRun, HostInspects, ReadArrives, ReadFails, PollRun,
         MarkDisconnected, Decide, DecideAnswered, DecideLost
<1> QED BY <1>6, <1>7

\* A read stays what it is while its binding does or is no longer its own.
LEMMA ReadStays ==
  ASSUME NEW CONSTANT a, ReadOK(a), \A v : IsPast(v) => IsPast(v)',
         generation \in Nat, latest \in Nat, generation' \in Nat, latest' \in Nat,
         generation' >= generation, latest' >= latest,
         generation' = generation => bound' = bound,
         view' = view \/ view' = NoView
  PROVE  ReadOK(a)'
<1>1. a \in Read /\ a.epoch \in Nat /\ a.read \in Nat
  BY DEF ReadOK, Read
<1>2. a.run # NoView /\ a.epoch <= generation /\ a.read <= latest /\ (a.epoch = generation => a.run = bound)
  BY DEF ReadOK
<1>3. a.epoch <= generation' /\ a.read <= latest' /\ (a.epoch = generation' => a.run = bound')
  BY <1>1, <1>2
<1>4. a.value # NoView => a.value.run = a.run /\ IsPast(a.value)'
  BY DEF ReadOK
<1>5. Adoptable(a)' => Adoptable(a)
  BY <1>1, <1>2 DEF Adoptable
<1>6. a.value # NoView /\ view' # NoView /\ Adoptable(a)' => a.value.seq >= view'.seq
  BY <1>5 DEF ReadOK
<1> QED BY <1>1, <1>2, <1>3, <1>4, <1>6 DEF ReadOK

\* A read that is asked for.
LEMMA AskKeeps ==
  ASSUME Reads, Showing, bound # NoView, Asks, UNCHANGED <<bound, view, generation>>,
         \A v : IsPast(v) => IsPast(v)'
  PROVE  Reads'
<1>0. PICK new : new = [run |-> bound, epoch |-> generation, read |-> latest + 1, value |-> NoView]
  OBVIOUS
<1>1. latest' = latest + 1 /\ asked' = asked \cup {new} /\ latest \in Nat /\ generation \in Nat
  BY <1>0 DEF Asks, Showing
<1>2. new \in Read /\ new.run = bound /\ new.value = NoView /\ new.read = latest + 1 /\ new.epoch = generation
  BY <1>0, <1>1 DEF Read, Showing
<1>3. ReadOK(new)'
  BY <1>1, <1>2 DEF ReadOK
<1>4. \A b \in asked : ReadOK(b)' /\ b.read \in Nat /\ b.read < new.read
  <2> SUFFICES ASSUME NEW b \in asked PROVE ReadOK(b)' /\ b.read \in Nat /\ b.read < new.read
    OBVIOUS
  <2>1. ReadOK(b) /\ b.read \in Nat /\ b.read <= latest
    BY DEF Reads, ReadOK, Read
  <2>2. ReadOK(b)'
    BY <2>1, <1>1, ReadStays
  <2> QED BY <2>1, <2>2, <1>1, <1>2
<1>5. \A b \in asked' : ReadOK(b)'
  BY <1>1, <1>3, <1>4
<1>6. \A b, c \in asked' : b.read = c.read => b = c
  BY <1>1, <1>2, <1>4 DEF Reads
<1> QED BY <1>5, <1>6 DEF Reads

\* The Host answers a read with what its Run has come to.
LEMMA InspectKeeps ==
  ASSUME Reads, Showing, Histories, Gates \in Nat, NEW a \in asked, HostInspects(a)
  PROVE  Reads'
<1> DEFINE new == [a EXCEPT !.value = Snapshot(a.run)]
<1>1. asked' = (asked \ {a}) \cup {new} /\ a.value = NoView
      /\ UNCHANGED <<bound, view, generation, latest, hist>>
  BY DEF HostInspects
<1>2. ReadOK(a) /\ a \in Read /\ a.run \in Watched
  BY DEF Reads, ReadOK, Read
<1>3. IsPast(Snapshot(a.run)) /\ Snapshot(a.run).run = a.run /\ Snapshot(a.run).seq = Len(hist[a.run])
  BY <1>2, NowIsPast
<1>4. Snapshot(a.run) \in State
  BY <1>3 DEF IsPast
<1>5. new \in Read /\ new.run = a.run /\ new.epoch = a.epoch /\ new.read = a.read /\ new.value = Snapshot(a.run)
  BY <1>2, <1>4 DEF Read
<1> HIDE DEF new
<1>6. view # NoView /\ Adoptable(a) => Snapshot(a.run).seq >= view.seq
  <2> SUFFICES ASSUME view # NoView, Adoptable(a) PROVE Snapshot(a.run).seq >= view.seq
    OBVIOUS
  <2>1. view.run = a.run /\ IsPast(view)
    BY <1>2 DEF Showing, ReadOK, Adoptable
  <2>2. view.seq <= Len(hist[a.run])
    BY <1>2, <2>1, NowIsPast
  <2>3. view.seq \in Nat /\ Len(hist[a.run]) \in Nat
    BY <1>2, <2>1 DEF IsPast, State, Histories
  <2> QED BY <1>3, <2>2, <2>3
<1>7. ReadOK(new)
  BY <1>2, <1>3, <1>5, <1>6 DEF ReadOK, Adoptable
<1>8. \A b \in asked' : ReadOK(b)
  BY <1>1, <1>7 DEF Reads
<1>9. \A b \in asked' : ReadOK(b)'
  BY <1>1, <1>8 DEF ReadOK, IsPast, Adoptable
<1>10. \A b, c \in asked' : b.read = c.read => b = c
  BY <1>1, <1>5 DEF Reads
<1> QED BY <1>9, <1>10 DEF Reads

\* A read that comes back.
LEMMA ArrivalKeeps ==
  ASSUME Reads, Showing, NEW a \in asked, ReadArrives(a)
  PROVE  Reads' /\ Showing'
<1>1. ReadOK(a) /\ asked' = asked \ {a} /\ a.value # NoView
      /\ UNCHANGED <<bound, generation, latest, hist, load, busy>>
  BY DEF Reads, ReadArrives
<1>2. CASE ~Adoptable(a)
  <2>1. UNCHANGED <<view, stale>>
    BY <1>2 DEF ReadArrives
  <2> QED BY <1>1, <2>1 DEF Reads, ReadOK, Showing, IsPast, Adoptable
<1>3. CASE Adoptable(a)
  <2>1. view' = a.value /\ stale' = FALSE
    BY <1>3 DEF ReadArrives
  <2>2. a.value.run = bound /\ IsPast(a.value) /\ bound # NoView
    BY <1>1, <1>3 DEF ReadOK, Adoptable
  <2>3. Showing'
    BY <1>1, <2>1, <2>2 DEF Showing, IsPast
  <2>4. \A b \in asked' : b \in asked /\ ~Adoptable(b)
    BY <1>1, <1>3 DEF Reads, Adoptable
  <2>5. \A b \in asked' : ReadOK(b)'
    BY <1>1, <2>4 DEF Reads, ReadOK, IsPast, Adoptable
  <2>6. \A b, c \in asked' : b.read = c.read => b = c
    BY <1>1 DEF Reads
  <2> QED BY <2>3, <2>5, <2>6 DEF Reads
<1> QED BY <1>2, <1>3

\* Another binding: nothing is shown, and what is in flight is of an older epoch.
LEMMA BindingKeeps ==
  ASSUME Reads, Showing, NEW r \in Watched, bound' = r, view' = NoView, stale' = FALSE, busy' = busy,
         busy = NoView, generation' = generation + 1, load' \in Nat, load' > 0, UNCHANGED <<latest, asked, hist>>
  PROVE  Reads' /\ Showing'
<1>1. Showing'
  <2>1. bound' \in Watched \cup {NoView} /\ stale' \in BOOLEAN
    OBVIOUS
  <2>2. generation' \in Nat /\ latest' \in Nat
    BY DEF Showing
  <2>3. busy' = NoView
    OBVIOUS
  <2> QED BY <2>1, <2>2, <2>3 DEF Showing
<1>2. ASSUME NEW a \in asked PROVE ReadOK(a)'
  <2>1. ReadOK(a)
    BY DEF Reads
  <2>2. \A v : IsPast(v) => IsPast(v)'
    BY DEF IsPast
  <2>3. generation \in Nat /\ generation' \in Nat /\ generation' > generation /\ latest \in Nat /\ latest' = latest
    BY DEF Showing
  <2>4. generation' >= generation /\ (generation' = generation => bound' = bound) /\ latest' >= latest /\ latest' \in Nat
    BY <2>3
  <2> QED BY <2>1, <2>2, <2>3, <2>4, ReadStays
<1> QED BY <1>1, <1>2 DEF Reads

\* What is read and shown, step by step.
LEMMA ReadsKept ==
  ASSUME RvIInv, Gates \in Nat, [RunViewNext]_runVars
  PROVE  Reads' /\ Showing'
<1> USE DEF RvIInv
<1>0. \A v : IsPast(v) => IsPast(v)'
  BY PastStays
<1>1. ASSUME UNCHANGED <<bound, view, generation, latest, load, asked>>, stale' \in BOOLEAN,
             bound # NoView \/ busy' = busy PROVE Reads' /\ Showing'
  <2>1. Showing'
    BY <1>0, <1>1 DEF Showing
  <2>2. generation \in Nat /\ latest \in Nat
    BY DEF Showing
  <2>3. generation' = generation /\ latest' = latest /\ generation >= generation /\ latest >= latest
    BY <1>1, <2>2
  <2>4. ASSUME NEW a \in asked PROVE ReadOK(a)'
    <3>1. ReadOK(a)
      BY DEF Reads
    <3> QED BY <1>0, <1>1, <2>2, <2>3, <3>1, ReadStays
  <2> QED BY <1>1, <2>1, <2>4 DEF Reads
<1>2. ASSUME NEW r \in Watched, LoadDocument(r) PROVE Reads' /\ Showing'
  <2>1. load' \in Nat /\ load' > 0
    BY <1>2 DEF LoadDocument, Showing
  <2> QED BY <1>2, <2>1, BindingKeeps DEF LoadDocument
<1>3. ASSUME NEW r \in Watched, BindRun(r) PROVE Reads' /\ Showing'
  BY <1>3, BindingKeeps DEF BindRun, Showing
<1>4. CASE PollRun
  <2>1. Reads'
    BY <1>0, <1>4, AskKeeps DEF PollRun
  <2>2. Showing'
    BY <1>0, <1>4 DEF PollRun, Asks, Showing
  <2> QED BY <2>1, <2>2
<1>5. CASE DecideAnswered
  <2>0. bound # NoView
    BY <1>5 DEF DecideAnswered, Showing
  <2>1. CASE Asks
    <3>1. Asks /\ UNCHANGED <<bound, view, stale, generation, load, hist>> /\ busy' = NoView
      BY <1>5, <2>1 DEF DecideAnswered
    <3>2. Reads'
      BY <1>0, <2>0, <3>1, AskKeeps
    <3>3. Showing'
      BY <1>0, <3>1 DEF Asks, Showing
    <3> QED BY <3>2, <3>3
  <2>2. CASE UNCHANGED <<latest, asked>>
    BY <1>1, <1>5, <2>0, <2>2 DEF DecideAnswered, Showing
  <2> QED BY <1>5, <2>1, <2>2 DEF DecideAnswered
<1>6. ASSUME NEW a \in asked, HostInspects(a) PROVE Reads' /\ Showing'
  <2>1. Showing'
    BY <1>0, <1>6 DEF HostInspects, Showing
  <2> QED BY <2>1, <1>6, InspectKeeps
<1>7. ASSUME NEW a \in asked, ReadArrives(a) PROVE Reads' /\ Showing'
  BY <1>7, ArrivalKeeps
<1>8. ASSUME NEW a \in asked, ReadFails(a) PROVE Reads' /\ Showing'
  <2>1. asked' \subseteq asked /\ UNCHANGED <<bound, view, generation, latest, load, hist, busy>>
        /\ stale' = (stale \/ Adoptable(a))
    BY <1>8 DEF ReadFails
  <2>2. stale' \in BOOLEAN
    BY <2>1 DEF Showing, Adoptable
  <2>3. Showing'
    BY <1>0, <2>1, <2>2 DEF Showing
  <2>4. Reads'
    BY <1>0, <2>1 DEF Reads, ReadOK, Adoptable
  <2> QED BY <2>3, <2>4
<1>9. ASSUME NEW x \in Actions, Decide(x) PROVE Reads' /\ Showing'
  BY <1>1, <1>9 DEF Decide, Showing
<1>10. CASE DecideLost
  BY <1>1, <1>10 DEF DecideLost, Showing
<1>11. CASE MarkDisconnected
  BY <1>1, <1>11 DEF MarkDisconnected, Showing
<1>12. ASSUME NEW p \in posts, HostDecides(p) PROVE Reads' /\ Showing'
  BY <1>1, <1>12 DEF HostDecides, Showing
<1>13. ASSUME NEW r \in Watched, Progress(r) \/ \E x \in Actions : OtherDecides(r, x) PROVE Reads' /\ Showing'
  BY <1>1, <1>13 DEF Progress, OtherDecides, Showing
<1>14. CASE UNCHANGED runVars
  BY <1>1, <1>14 DEF runVars, Showing
<1>15. CASE RunViewNext
  BY <1>2, <1>3, <1>4, <1>5, <1>6, <1>7, <1>8, <1>9, <1>10, <1>11, <1>12, <1>13, <1>15 DEF RunViewNext
<1> QED BY <1>14, <1>15

\* An id that is kept is used again, and a new one is positive.
LEMMA NewId ==
  ASSUME DecisionIds, NEW k \in Keys
  PROVE  /\ DecisionId(k) \in Nat /\ DecisionId(k) > 0
         /\ ids[k] > 0 => DecisionId(k) = ids[k]
  BY DEF DecisionId, DecisionIds

\* A click keeps the id of its gate and action, or keeps a new one.
LEMMA ClickKeeps ==
  ASSUME RvIInv, Gates \in Nat, NEW x \in Actions, Decide(x)
  PROVE  DecisionIds' /\ OneId' /\ GatesSettled' /\ DecisionMissesOnlyForOthers'
<1> USE DEF RvIInv
<1>0. PICK k, post : /\ k = <<view.run, view.gate, x>>
                     /\ post = [run |-> view.run, id |-> DecisionId(k), gate |-> view.gate,
                                 action |-> x, load |-> load]
  OBVIOUS
<1>1. /\ view # NoView /\ view.gate <= Gates /\ load' = load /\ applied' = applied /\ hist' = hist
      /\ ids' = [ids EXCEPT ![k] = DecisionId(k)] /\ posts' = posts \cup {post}
      /\ issued' \in {issued, issued + 1}
  BY <1>0 DEF Decide
<1>2. view.run \in Watched /\ view.gate \in 1..Gates /\ k \in Keys /\ load \in Nat /\ load > 0
  BY <1>0, <1>1 DEF Showing, IsPast, State, Keys
<1>3. /\ post.run = view.run /\ post.id = DecisionId(k) /\ post.gate = view.gate
      /\ post.action = x /\ post.load = load
  BY <1>0
<1>4. DecisionId(k) \in Nat /\ DecisionId(k) > 0 /\ (ids[k] > 0 => DecisionId(k) = ids[k])
  BY <1>2, NewId
<1>5. ids' \in [Keys -> Nat] /\ ids'[k] = DecisionId(k)
      /\ \A q \in Keys : q # k => ids'[q] = ids[q]
  BY <1>1, <1>2, <1>4 DEF DecisionIds
<1>6. ASSUME NEW r, NEW gate, NEW act, NEW id, NEW at, IsKept(r, gate, act, id, at)
      PROVE  /\ IsKept(r, gate, act, id, at)'
             /\ r = view.run /\ gate = view.gate /\ act = x /\ at = load => id = DecisionId(k)
  <2>1. /\ r \in Watched /\ gate \in 1..Gates /\ act \in Actions /\ at \in Nat /\ at > 0 /\ at <= load
        /\ <<r, gate, act>> \in Keys
        /\ (at = load => id = ids[<<r, gate, act>>] /\ id > 0)
    BY <1>6 DEF IsKept, Keys
  <2>2. at = load => id = ids'[<<r, gate, act>>]
    BY <2>1, <1>4, <1>5
  <2> QED BY <2>1, <2>2, <1>0, <1>1, <1>4 DEF IsKept
<1>7. IsKept(post.run, post.gate, post.action, post.id, post.load)'
  BY <1>0, <1>1, <1>2, <1>3, <1>4, <1>5 DEF IsKept
<1>8. issued' \in Nat
  BY <1>1 DEF DecisionIds
<1>9. /\ \A q \in posts : IsKept(q.run, q.gate, q.action, q.id, q.load)
      /\ \A d \in applied : /\ d.run \in Watched /\ d.load \in Nat
                            /\ d.load > 0 => IsKept(d.run, d.meant, d.action, d.id, d.load)
  BY DEF DecisionIds
<1>10. DecisionIds'
  BY <1>1, <1>5, <1>6, <1>7, <1>8, <1>9 DEF DecisionIds
<1>11. \A q \in posts : q.run = post.run /\ q.gate = post.gate /\ q.action = post.action /\ q.load = post.load
                           => q.id = post.id
  BY <1>3, <1>6, <1>9
<1>12. \A d \in applied : d.run = post.run /\ d.meant = post.gate /\ d.action = post.action /\ d.load = post.load
                           => d.id = post.id
  BY <1>2, <1>3, <1>6, <1>9
<1>13. OneId'
  BY <1>1, <1>11, <1>12 DEF OneId, RepeatedDecisionSettlesOnce
<1>14. post.gate <= Last(hist[post.run])
  BY <1>1, <1>2, <1>3, NowIsPast DEF Showing
<1>15. GatesSettled'
  BY <1>1, <1>14 DEF GatesSettled
<1> QED BY <1>1, <1>10, <1>13, <1>15 DEF DecisionMissesOnlyForOthers

\* A gate is settled: by a decision meant for it or for one before it.
LEMMA SettledGateKeeps ==
  ASSUME Histories, GatesSettled, Gates \in Nat, NEW r \in Watched, NEW p, p.action \in Actions,
         p.gate \in 1..Last(hist[r]), p.load = 0 => p.gate = Last(hist[r]),
         Last(hist[r]) <= Gates, Passes(r, p.action),
         applied' = applied \cup {Settled(r, p)}, posts' \subseteq posts,
         \A q \in posts : q.run \in Watched /\ q.gate \in 1..Gates
  PROVE  GatesSettled'
<1> DEFINE new == Settled(r, p)
           now == Last(hist[r])
<1>1. /\ now \in 1..Gates /\ Last(hist'[r]) = After(now, p.action) /\ Last(hist'[r]) >= now
      /\ \A q \in Watched : q # r => hist'[q] = hist[q]
  <2>1. now \in 1..Gates + 1 /\ Last(hist'[r]) = After(now, p.action)
        /\ \A q \in Watched : q # r => hist'[q] = hist[q]
    BY NowIsPast, GatePassed
  <2> QED BY <2>1 DEF After
<1>2. new.run = r /\ new.gate = now /\ new.meant = p.gate /\ new.load = p.load
  BY DEF Settled
<1> HIDE DEF new
<1>3. ASSUME NEW q \in posts PROVE q.gate <= Last(hist'[q.run])
  <2>1. q.run \in Watched /\ q.gate \in 1..Gates /\ q.gate <= Last(hist[q.run])
    BY DEF GatesSettled
  <2>2. CASE q.run = r
    <3>1. now \in Nat /\ Last(hist'[r]) \in Nat
      BY <1>1 DEF After
    <3> QED BY <1>1, <2>1, <2>2, <3>1
  <2>3. CASE q.run # r
    BY <1>1, <2>1, <2>3
  <2> QED BY <2>2, <2>3
<1>4. applied' = applied \cup {new}
  BY DEF new
<1>5. \A d \in applied' : /\ d.run \in Watched /\ d.gate \in 1..Gates /\ d.meant \in 1..d.gate
                          /\ d.load = 0 => d.meant = d.gate
  BY <1>1, <1>2, <1>4 DEF GatesSettled
<1>6. ASSUME NEW q \in Watched, Last(hist'[q]) <= Gates, NEW g \in 1..Last(hist'[q]) - 1
      PROVE  \E d \in applied' : d.run = q /\ d.gate = g
  <2>1. CASE q # r
    BY <1>1, <1>4, <1>6, <2>1 DEF GatesSettled
  <2>2. CASE q = r
    <3>1. Last(hist'[r]) = now + 1
      BY <1>1, <1>6, <2>2 DEF After
    <3>2. CASE g = now
      BY <1>2, <1>4, <2>2, <3>2
    <3>3. CASE g # now
      <4>1. g \in 1..now - 1
        BY <1>1, <1>6, <2>2, <3>1, <3>3
      <4> QED BY <1>1, <1>4, <2>2, <4>1 DEF GatesSettled
    <3> QED BY <3>2, <3>3
  <2> QED BY <2>1, <2>2
<1> QED BY <1>3, <1>5, <1>6 DEF GatesSettled

\* What the Host has settled carries the id of the decision that settled it, and if the
\* gate it was meant for had been settled before, then not by the same button.
LEMMA SettlingKeeps ==
  ASSUME RvIInv, Gates \in Nat, NEW p \in posts, HostDecides(p)
  PROVE  DecisionIds' /\ OneId' /\ GatesSettled' /\ DecisionMissesOnlyForOthers'
<1> USE DEF RvIInv
<1>1. posts' = posts \ {p} /\ ids' = ids /\ issued' = issued /\ load' = load /\ Decided(p.run, p)
  BY DEF HostDecides
<1>2. \A r, gate, act, id, at : IsKept(r, gate, act, id, at) => IsKept(r, gate, act, id, at)'
  BY <1>1 DEF IsKept
<1>3. CASE ~Settles(p.run, p)
  BY <1>1, <1>2, <1>3 DEF Decided, DecisionIds, OneId, RepeatedDecisionSettlesOnce, GatesSettled,
                          DecisionMissesOnlyForOthers
<1>4. CASE Settles(p.run, p)
  <2> DEFINE new == Settled(p.run, p)
  <2>1. applied' = applied \cup {new} /\ \A d \in applied : d.id # p.id
    BY <1>1, <1>4 DEF Decided, Settles
  <2>2. /\ new.run = p.run /\ new.id = p.id /\ new.meant = p.gate /\ new.action = p.action
        /\ new.load = p.load /\ new.gate = Last(hist[p.run])
    BY DEF Settled
  <2> HIDE DEF new
  <2>3. DecisionIds'
    <3>1. IsKept(p.run, p.gate, p.action, p.id, p.load)
      BY DEF DecisionIds
    <3>2. p.run \in Watched /\ p.load \in Nat
      BY <3>1 DEF IsKept
    <3> QED BY <1>1, <1>2, <2>1, <2>2, <3>1, <3>2 DEF DecisionIds
  <2>4. OneId'
    BY <1>1, <2>1, <2>2 DEF OneId, RepeatedDecisionSettlesOnce
  <2>5. /\ p.run \in Watched /\ p.action \in Actions /\ p.gate \in 1..Gates /\ p.load \in Nat /\ p.load > 0
        /\ p.gate <= Last(hist[p.run]) /\ Last(hist[p.run]) \in 1..Gates
        /\ \A q \in posts : q.run \in Watched /\ q.gate \in 1..Gates
    <3>1. \A q \in posts : q.run \in Watched /\ q.gate \in 1..Gates /\ q.action \in Actions /\ q.load \in Nat /\ q.load > 0
      BY DEF DecisionIds, IsKept
    <3>2. Last(hist[p.run]) <= Gates /\ Last(hist[p.run]) \in 1..Gates + 1
      BY <1>4, <3>1, NowIsPast DEF Settles
    <3> QED BY <3>1, <3>2 DEF GatesSettled
  <2>6. GatesSettled'
    <3>1. Passes(p.run, p.action) /\ posts' \subseteq posts /\ applied' = applied \cup {Settled(p.run, p)}
      BY <1>1, <1>4, <2>1 DEF Decided, new
    <3>2. p.gate \in 1..Last(hist[p.run]) /\ ~(p.load = 0)
      BY <2>5
    <3> QED BY <2>5, <3>1, <3>2, SettledGateKeeps
  <2>7. ASSUME new.gate # new.meant
        PROVE  \E e \in applied : e.run = new.run /\ e.gate <= new.meant
                                  /\ (e.load # new.load \/ e.action # new.action)
    <3>1. p.gate \in 1..Last(hist[p.run]) - 1
      BY <2>2, <2>5, <2>7
    <3>2. PICK e \in applied : e.run = p.run /\ e.gate = p.gate
      BY <2>5, <3>1 DEF GatesSettled
    <3>3. e.gate \in 1..Gates /\ e.meant \in 1..e.gate
      BY DEF GatesSettled
    <3>4. CASE e.load # p.load \/ e.action # p.action
      BY <2>2, <3>2, <3>3, <3>4
    <3>5. CASE e.load = p.load /\ e.action = p.action
      <4>1. e.meant # p.gate
        BY <2>1, <3>2, <3>5 DEF OneId
      <4>2. PICK f \in applied : f.run = e.run /\ f.gate <= e.meant /\ (f.load # e.load \/ f.action # e.action)
        BY <3>2, <4>1 DEF DecisionMissesOnlyForOthers
      <4>3. f.gate <= p.gate
        <5>1. f.gate \in 1..Gates
          BY DEF GatesSettled
        <5> QED BY <3>2, <3>3, <4>2, <5>1
      <4> QED BY <2>2, <3>2, <3>5, <4>2, <4>3
    <3> QED BY <3>4, <3>5
  <2>8. DecisionMissesOnlyForOthers'
    BY <2>1, <2>7 DEF DecisionMissesOnlyForOthers
  <2> QED BY <2>3, <2>4, <2>6, <2>8
<1> QED BY <1>3, <1>4

\* Another client settles the gate it means.
LEMMA ForeignKeeps ==
  ASSUME RvIInv, Gates \in Nat, NEW r \in Watched, NEW x \in Actions, OtherDecides(r, x)
  PROVE  DecisionIds' /\ OneId' /\ GatesSettled' /\ DecisionMissesOnlyForOthers'
<1> USE DEF RvIInv
<1>0. PICK p : p = [id |-> 0, gate |-> Last(hist[r]), action |-> x, load |-> 0]
  OBVIOUS
<1>1. /\ UNCHANGED <<posts, ids, issued, load>> /\ applied' = applied \cup {Settled(r, p)}
      /\ Last(hist[r]) <= Gates /\ Passes(r, p.action)
  BY <1>0 DEF OtherDecides
<1>2. p.gate = Last(hist[r]) /\ p.action = x /\ p.load = 0 /\ p.id = 0
  BY <1>0
<1>3. PICK new : new = Settled(r, p)
  OBVIOUS
<1>4. new.run = r /\ new.gate = new.meant /\ new.load = 0
  BY <1>2, <1>3 DEF Settled
<1>5. DecisionIds'
  BY <1>1, <1>3, <1>4 DEF DecisionIds, IsKept
<1>6. \A q \in posts : q.run \in Watched /\ q.gate \in 1..Gates /\ q.load \in Nat /\ q.load > 0
  BY DEF DecisionIds, IsKept
<1>7. \A d \in applied : d.load \in Nat
  BY DEF DecisionIds
<1>8. OneId'
  <2>1. \A q \in posts : q.load # new.load
    BY <1>4, <1>6
  <2>2. RepeatedDecisionSettlesOnce'
    BY <1>1, <1>3, <1>4, <1>7 DEF OneId, RepeatedDecisionSettlesOnce
  <2> QED BY <1>1, <1>3, <2>1, <2>2 DEF OneId
<1>9. GatesSettled'
  <2>1. Last(hist[r]) \in 1..Gates + 1 /\ p.gate \in 1..Last(hist[r])
    BY <1>2, NowIsPast
  <2> QED BY <1>1, <1>2, <1>6, <2>1, SettledGateKeeps
<1>10. DecisionMissesOnlyForOthers'
  BY <1>1, <1>3, <1>4 DEF DecisionMissesOnlyForOthers
<1> QED BY <1>5, <1>8, <1>9, <1>10

\* A loaded document forgets the ids: every decision so far is of an earlier load.
LEMMA ForgettingKeeps ==
  ASSUME DecisionIds, OneId, Showing, ids' = Forgotten, load' = load + 1, UNCHANGED <<posts, applied, issued>>
  PROVE  DecisionIds' /\ OneId'
<1>1. load \in Nat
  BY DEF Showing
<1>2. ASSUME NEW r, NEW gate, NEW act, NEW id, NEW at, IsKept(r, gate, act, id, at)
      PROVE  IsKept(r, gate, act, id, at)'
  BY <1>1, <1>2 DEF IsKept
<1>3. ids' \in [Keys -> Nat]
  BY DEF Forgotten
<1>5. DecisionIds'
  BY <1>2, <1>3 DEF DecisionIds
<1> QED BY <1>5 DEF OneId, RepeatedDecisionSettlesOnce

\* The ids and what they settle, step by step.
LEMMA IdsKept ==
  ASSUME RvIInv, Gates \in Nat, [RunViewNext]_runVars
  PROVE  DecisionIds' /\ OneId' /\ GatesSettled' /\ DecisionMissesOnlyForOthers'
<1> USE DEF RvIInv
<1>0. ASSUME UNCHANGED applied, posts' \subseteq posts,
             \A r \in Watched : Last(hist'[r]) = Last(hist[r])
      PROVE  GatesSettled' /\ DecisionMissesOnlyForOthers'
  <2>1. \A q \in posts : q.run \in Watched
    BY DEF DecisionIds, IsKept
  <2> QED BY <1>0, <2>1 DEF GatesSettled, DecisionMissesOnlyForOthers
<1>1. ASSUME UNCHANGED <<ids, issued, load, applied>>, posts' \subseteq posts PROVE DecisionIds' /\ OneId'
  BY <1>1 DEF DecisionIds, OneId, RepeatedDecisionSettlesOnce, IsKept
<1>2. ASSUME NEW x \in Actions, Decide(x)
      PROVE  DecisionIds' /\ OneId' /\ GatesSettled' /\ DecisionMissesOnlyForOthers'
  BY <1>2, ClickKeeps
<1>3. ASSUME NEW p \in posts, HostDecides(p)
      PROVE  DecisionIds' /\ OneId' /\ GatesSettled' /\ DecisionMissesOnlyForOthers'
  BY <1>3, SettlingKeeps
<1>4. ASSUME NEW r \in Watched, LoadDocument(r)
      PROVE  DecisionIds' /\ OneId' /\ GatesSettled' /\ DecisionMissesOnlyForOthers'
  BY <1>0, <1>4, ForgettingKeeps DEF LoadDocument
<1>5. CASE DecideLost
  BY <1>0, <1>1, <1>5 DEF DecideLost
<1>6. CASE UNCHANGED runVars
  BY <1>0, <1>1, <1>6 DEF runVars
<1>8. ASSUME NEW r \in Watched, Progress(r)
      PROVE  DecisionIds' /\ OneId' /\ GatesSettled' /\ DecisionMissesOnlyForOthers'
  <2>1. Last(hist[r]) \in 1..Gates + 1 /\ Last(hist[r]) >= Last(hist[r])
    BY NowIsPast
  <2>2. \A q \in Watched : Last(hist'[q]) = Last(hist[q])
    BY <1>8, <2>1, HistoryGrows DEF Progress
  <2> QED BY <1>0, <1>1, <1>8, <2>2 DEF Progress
<1>9. ASSUME NEW r \in Watched, NEW x \in Actions, OtherDecides(r, x)
      PROVE  DecisionIds' /\ OneId' /\ GatesSettled' /\ DecisionMissesOnlyForOthers'
  BY <1>9, ForeignKeeps
<1>10. ASSUME UNCHANGED <<ids, issued, load, applied, posts, hist>>
       PROVE  DecisionIds' /\ OneId' /\ GatesSettled' /\ DecisionMissesOnlyForOthers'
  BY <1>0, <1>1, <1>10
<1>11. ASSUME NEW r \in Watched, BindRun(r)
       PROVE  DecisionIds' /\ OneId' /\ GatesSettled' /\ DecisionMissesOnlyForOthers'
  BY <1>10, <1>11 DEF BindRun
<1>12. ASSUME NEW a \in asked, HostInspects(a) \/ ReadArrives(a) \/ ReadFails(a)
       PROVE  DecisionIds' /\ OneId' /\ GatesSettled' /\ DecisionMissesOnlyForOthers'
  BY <1>10, <1>12 DEF HostInspects, ReadArrives, ReadFails
<1>13. CASE PollRun \/ MarkDisconnected \/ DecideAnswered
  BY <1>10, <1>13 DEF PollRun, MarkDisconnected, DecideAnswered
<1>7. CASE RunViewNext
  BY <1>2, <1>3, <1>4, <1>5, <1>7, <1>8, <1>9, <1>11, <1>12, <1>13 DEF RunViewNext
<1> QED BY <1>6, <1>7

\* The initial states.
LEMMA RvInitHolds == RunViewInit /\ Gates \in Nat => RvIInv
<1> SUFFICES ASSUME RunViewInit, Gates \in Nat PROVE RvIInv
  OBVIOUS
<1> USE DEF RunViewInit
<1>1. <<1>> \in Seq(1..Gates + 1) /\ Len(<<1>>) = 1 /\ Last(<<1>>) = 1 /\ \A i \in 1..Len(<<1>>) : <<1>>[i] <= 1
  BY DEF Last
<1>2. Histories
  BY <1>1 DEF Histories
<1>3. Reads /\ Showing
  BY DEF Reads, Showing
<1>4. ids \in [Keys -> Nat]
  BY DEF Forgotten
<1>5. DecisionIds
  BY <1>4 DEF DecisionIds
<1>6. OneId /\ DecisionMissesOnlyForOthers
  BY DEF OneId, RepeatedDecisionSettlesOnce, DecisionMissesOnlyForOthers
<1>7. GatesSettled
  BY <1>1 DEF GatesSettled
<1> QED BY <1>2, <1>3, <1>5, <1>6, <1>7 DEF RvIInv

LEMMA RvConclusion == ASSUME RvIInv, Gates \in Nat PROVE RunViewTypeOK /\ ViewIsOfBound /\ RepeatedDecisionSettlesOnce /\ DecisionMissesOnlyForOthers
<1> USE DEF RvIInv
<1>1. ViewIsOfBound
  BY DEF ViewIsOfBound, Showing, IsPast
<1>2. RepeatedDecisionSettlesOnce
  BY DEF RepeatedDecisionSettlesOnce, OneId
<1>3. view # NoView => view.run \in Watched /\ view.seq \in DOMAIN hist[view.run]
  BY DEF Showing, IsPast, State, Histories
<1>4. RunViewTypeOK
  BY <1>3 DEF RunViewTypeOK, Showing, Histories, DecisionIds
<1> QED BY <1>1, <1>2, <1>4

\* The Run beside the canvas: what is shown is of the Run that is bound; a button pressed
\* again on the gate that is shown settles one gate; and a decision settles a later gate
\* than the one shown only after another client, another loading of the document or the
\* other button (client-model.ts, the decide use case).
THEOREM RunViewKept == RunViewSpec => [](RunViewTypeOK /\ ViewIsOfBound /\ RepeatedDecisionSettlesOnce /\ DecisionMissesOnlyForOthers)
<1>0. Gates \in Nat
  BY RunViewAssumption
<1>1. RunViewInit => RvIInv
  BY <1>0, RvInitHolds
<1>2. RvIInv /\ [RunViewNext]_runVars => RvIInv'
  BY <1>0, PastStays, ReadsKept, IdsKept DEF RvIInv
<1>3. RvIInv => RunViewTypeOK /\ ViewIsOfBound /\ RepeatedDecisionSettlesOnce /\ DecisionMissesOnlyForOthers
  BY <1>0, RvConclusion
<1> QED BY <1>1, <1>2, <1>3, PTL DEF RunViewSpec

\* Its picture of a Run never goes back while it stays bound, in whatever order polls and
\* the reads after commands come back (latestRead).
THEOREM RunPictureForward == RunViewSpec => RunNeverGoesBack
<1>0. Gates \in Nat
  BY RunViewAssumption
<1>1. RunViewInit => RvIInv
  BY <1>0, RvInitHolds
<1>2. RvIInv /\ [RunViewNext]_runVars => RvIInv'
  BY <1>0, PastStays, ReadsKept, IdsKept DEF RvIInv
<1> DEFINE Forward == (view # NoView /\ view' # NoView /\ generation' = generation /\ bound' = bound) => view'.seq >= view.seq
<1>3. RvIInv /\ [RunViewNext]_runVars => Forward
  <2> SUFFICES ASSUME RvIInv, [RunViewNext]_runVars, view # NoView, view' # NoView, generation' = generation
               PROVE  view'.seq >= view.seq
    OBVIOUS
  <2>1. view.seq \in Nat /\ generation \in Nat
    BY DEF RvIInv, Showing, IsPast, State
  <2>2. CASE view' = view
    BY <2>1, <2>2
  <2>3. CASE view' # view
    <3>1. PICK a \in asked : ReadArrives(a) /\ Adoptable(a) /\ view' = a.value
      BY <2>1, <2>3
         DEF RunViewNext, runVars, Progress, OtherDecides, LoadDocument, BindRun, HostDecides, HostInspects,
             ReadArrives, ReadFails, PollRun, MarkDisconnected, Decide, DecideAnswered, DecideLost
    <3> QED BY <3>1 DEF RvIInv, Reads, ReadOK
  <2> QED BY <2>2, <2>3
<1> QED BY <1>1, <1>2, <1>3, PTL DEF RunViewSpec, RunNeverGoesBack

-----------------------------------------------------------------------------
(* The conversation seat.                                                    *)

Seat == [session : Sessions, shown : Shown \cup {Off},
         connection : {"loading", "connected", "stale", "unavailable"},
         attempt : {"a1", "a2", Off}, error : BOOLEAN]
Seated == seat \in Seat /\ ShowsItsSession /\ AttemptIsShown /\ PausedIsStale

\* A user picks a Run of the Session he looks at.
Chosen ==
    /\ choice \in [Sessions -> SRuns \cup {Off}]
    /\ \A s \in Sessions : choice[s] # Off => SessionOf[choice[s]] = s

Fields ==
    /\ epoch \in Nat /\ online \in BOOLEAN /\ pending \in Nat \cup {Off} /\ paging \in BOOLEAN
    /\ facts \in [SRuns -> [seq : Nat, recovery : BOOLEAN, archived : BOOLEAN]]
    /\ moves \in 0..MaxMoves

\* A call asks about one Session and brings a Run of it; the Session of the current
\* epoch's call is the seat's, and a further page is of what the seat still shows.
InSession(v, s) == v # Off => SessionOf[v.run] = s
CallOK(c) ==
    /\ c \in Calls /\ c.epoch <= epoch
    /\ c.pick # Off => SessionOf[c.pick] = c.session
    /\ InSession(c.base, c.session) /\ InSession(c.value, c.session)
    /\ c.kind \in {"page", "archive", "resolve"} => c.base # Off
    /\ c.epoch = epoch => c.session = seat.session
    /\ c.epoch = epoch /\ c.kind = "page" => c.base = seat.shown

\* An epoch has one call.
Wired == (\A c \in wire : CallOK(c)) /\ (\A c, d \in wire : c.epoch = d.epoch => c = d)
Polling == pending # Off => \E c \in wire : c.kind = "inspect" /\ c.epoch = pending

CvIInv == Seated /\ Chosen /\ Fields /\ Wired /\ Polling

\* What the Host answers with is a view of the Run it is asked about.
LEMMA ViewType ==
  ASSUME Fields, NEW r \in SRuns
  PROVE  View(r) \in Shown /\ View(r).run = r
<1>1. facts[r].seq \in Nat /\ facts[r].recovery \in BOOLEAN
  BY DEF Fields
<1>2. (Cardinality(SessionRuns(SessionOf[r])) > 1) \in BOOLEAN
  OBVIOUS
<1> QED BY <1>1, <1>2 DEF View, Shown

\* A call stays what it is while its epoch is over or the seat stays where it is.
LEMMA CallStays ==
  ASSUME NEW CONSTANT c, CallOK(c), epoch \in Nat, epoch' \in Nat, epoch' >= epoch,
         c.epoch = epoch' => epoch' = epoch /\ seat'.session = seat.session,
         c.epoch = epoch' /\ c.kind = "page" => seat'.shown = seat.shown
  PROVE  CallOK(c)'
<1>1. c.epoch \in Nat /\ c.epoch <= epoch'
  BY DEF CallOK, Calls
<1> QED BY <1>1 DEF CallOK, InSession

\* A call leaves in an epoch of its own; another one may have come back.
LEMMA SendKeeps ==
  ASSUME Wired, Fields, NEW CONSTANT c, NEW CONSTANT gone, CallOK(c)', c.epoch = epoch + 1, epoch' = epoch + 1,
         wire' = (wire \ gone) \cup {c}
  PROVE  Wired'
<1>1. \A d \in wire : CallOK(d) /\ d.epoch \in Nat /\ d.epoch < c.epoch
  BY DEF Wired, CallOK, Calls, Fields
<1>2. ASSUME NEW d \in wire PROVE CallOK(d)'
  BY <1>1, CallStays DEF Fields
<1>3. \A d, e \in wire' : d.epoch = e.epoch => d = e
  BY <1>1 DEF Wired
<1> QED BY <1>2, <1>3 DEF Wired

\* A call is answered.
LEMMA AnswerKeeps ==
  ASSUME Wired, Polling, NEW c \in wire, NEW CONSTANT status \in {"done", "conflict", "failed"},
         NEW CONSTANT v \in Shown \cup {Off}, InSession(v, c.session), Answered(c, status, v),
         UNCHANGED <<epoch, seat, pending>>
  PROVE  Wired' /\ Polling'
<1>0. PICK d : d = [c EXCEPT !.status = status, !.value = v]
  OBVIOUS
<1>1. wire' = (wire \ {c}) \cup {d}
  BY <1>0 DEF Answered
<1>2. CallOK(c) /\ c \in Calls
  BY DEF Wired, CallOK
<1>3. /\ d \in Calls /\ d.kind = c.kind /\ d.epoch = c.epoch /\ d.session = c.session /\ d.pick = c.pick
      /\ d.base = c.base /\ d.value = v
  BY <1>0, <1>2 DEF Calls
<1>4. CallOK(d)
  BY <1>2, <1>3 DEF CallOK
<1>5. \A e \in wire' : CallOK(e)'
  BY <1>1, <1>4 DEF Wired, CallOK, InSession
<1>6. \A e, f \in wire' : e.epoch = f.epoch => e = f
  BY <1>1, <1>3 DEF Wired
<1>7. Polling'
  <2> SUFFICES ASSUME pending # Off PROVE \E e \in wire' : e.kind = "inspect" /\ e.epoch = pending
    BY DEF Polling
  <2>1. PICK e \in wire : e.kind = "inspect" /\ e.epoch = pending
    BY DEF Polling
  <2>2. CASE e = c
    BY <1>1, <1>3, <2>1, <2>2
  <2>3. CASE e # c
    BY <1>1, <2>1, <2>3
  <2> QED BY <2>2, <2>3
<1> QED BY <1>5, <1>6, <1>7 DEF Wired

\* A new epoch, or a call that came back: the others stay what they are.
LEMMA OthersKeep ==
  ASSUME Wired, Fields, wire' \subseteq wire, epoch' \in Nat, epoch' >= epoch,
         \A c \in wire' : c.epoch = epoch' => epoch' = epoch /\ seat'.session = seat.session
                                               /\ (c.kind = "page" => seat'.shown = seat.shown)
  PROVE  Wired'
<1>1. \A c \in wire' : CallOK(c)'
  BY CallStays DEF Wired, Fields
<1> QED BY <1>1 DEF Wired

\* The current epoch's call is of an epoch that is over as soon as a new one begins.
LEMMA BumpKeeps ==
  ASSUME Wired, Fields, wire' = wire, Bumps PROVE Wired' /\ epoch' \in Nat
<1>1. epoch \in Nat /\ epoch' = epoch + 1
  BY DEF Fields, Bumps
<1>2. \A c \in wire : c.epoch # epoch'
  BY <1>1 DEF Wired, CallOK, Calls
<1> QED BY <1>1, <1>2, OthersKeep

-----------------------------------------------------------------------------
\* A step that leaves the seat and the choices alone.
LEMMA SeatStays ==
  ASSUME CvIInv, UNCHANGED <<seat, online, choice>> PROVE Seated' /\ Chosen'
BY DEF CvIInv, Seated, Chosen, ShowsItsSession, AttemptIsShown, PausedIsStale

\* The steps of the Host.
LEMMA HostKeeps ==
  ASSUME CvIInv, (\E r \in SRuns : HostMoves(r))
                 \/ \E c \in wire : HostReads(c) \/ Archives(c) \/ Resolves(c) \/ Fails(c)
  PROVE  CvIInv'
<1> USE DEF CvIInv
<1>0. \A c \in wire : CallOK(c) /\ c \in Calls
  BY DEF Wired, CallOK
<1>1. ASSUME NEW r \in SRuns, HostMoves(r) PROVE CvIInv'
  <2>1. UNCHANGED <<seat, choice, epoch, online, pending, paging, wire>>
    BY <1>1 DEF HostMoves
  <2>2. Fields'
    <3>1. facts' \in [SRuns -> [seq : Nat, recovery : BOOLEAN, archived : BOOLEAN]]
      BY <1>1 DEF HostMoves, Fields
    <3>2. moves' \in 0..MaxMoves
      BY <1>1, ConversationAssumption DEF HostMoves, Fields
    <3> QED BY <2>1, <3>1, <3>2 DEF Fields
  <2>3. Wired' /\ Polling'
    BY <2>1 DEF Wired, CallOK, InSession, Polling
  <2> QED BY <2>1, <2>2, <2>3, SeatStays
<1>2. ASSUME NEW c \in wire, HostReads(c) PROVE CvIInv'
  <2>1. UNCHANGED <<seat, choice, epoch, online, pending, paging, facts, moves>>
    BY <1>2 DEF HostReads
  <2>2. Wired' /\ Polling'
    <3>1. CASE Answered(c, "done", Off)
      BY <2>1, <3>1, AnswerKeeps DEF InSession
    <3>2. CASE c.pick # Off /\ Answered(c, "done", View(c.pick))
      <4>1. c.pick \in SRuns /\ SessionOf[c.pick] = c.session
        BY <1>0, <3>2 DEF CallOK, Calls
      <4>2. View(c.pick) \in Shown /\ InSession(View(c.pick), c.session)
        BY <4>1, ViewType DEF InSession
      <4> QED BY <2>1, <3>2, <4>2, AnswerKeeps
    <3>3. CASE \E r \in SessionRuns(c.session) : Answered(c, "done", View(r))
      <4>1. PICK r \in SRuns : SessionOf[r] = c.session /\ Answered(c, "done", View(r))
        BY <3>3 DEF SessionRuns
      <4>2. View(r) \in Shown /\ InSession(View(r), c.session)
        BY <4>1, ViewType DEF InSession
      <4> QED BY <2>1, <4>1, <4>2, AnswerKeeps
    <3> QED BY <1>2, <3>1, <3>2, <3>3 DEF HostReads
  <2>3. Fields'
    BY <2>1 DEF Fields
  <2> QED BY <2>1, <2>2, <2>3, SeatStays
<1>3. ASSUME NEW c \in wire, Archives(c) PROVE CvIInv'
  <2>1. UNCHANGED <<seat, choice, epoch, online, pending, paging, moves>> /\ Answered(c, "done", Off)
        /\ facts' = [facts EXCEPT ![c.base.run].archived = TRUE]
    BY <1>3 DEF Archives
  <2>2. Fields'
    BY <2>1 DEF Fields
  <2>3. Wired' /\ Polling'
    BY <2>1, AnswerKeeps DEF InSession
  <2> QED BY <2>1, <2>2, <2>3, SeatStays
<1>4. ASSUME NEW c \in wire, Resolves(c) PROVE CvIInv'
  <2>1. UNCHANGED <<seat, choice, epoch, online, pending, paging, moves>>
        /\ (Answered(c, "done", Off) \/ Answered(c, "conflict", Off))
        /\ (facts' = facts \/ facts' = [facts EXCEPT ![c.base.run].recovery = FALSE, ![c.base.run].seq = @ + 1])
    BY <1>4 DEF Resolves
  <2>2. Fields'
    BY <2>1 DEF Fields
  <2>3. Wired' /\ Polling'
    BY <2>1, AnswerKeeps DEF InSession
  <2> QED BY <2>1, <2>2, <2>3, SeatStays
<1>5. ASSUME NEW c \in wire, Fails(c) PROVE CvIInv'
  <2>1. UNCHANGED <<seat, choice, epoch, online, pending, paging, facts, moves>> /\ Answered(c, "failed", Off)
    BY <1>5 DEF Fails
  <2>2. Wired' /\ Polling'
    BY <2>1, AnswerKeeps DEF InSession
  <2>3. Fields'
    BY <2>1 DEF Fields
  <2> QED BY <2>1, <2>2, <2>3, SeatStays
<1> QED BY <1>1, <1>2, <1>3, <1>4, <1>5

\* A view that is lost.
LEMMA LostKeeps ==
  ASSUME Seated, NEW CONSTANT s, s = Lost \/ s = [Lost EXCEPT !.error = TRUE]
  PROVE  /\ s \in Seat /\ s.session = seat.session /\ s.shown = seat.shown /\ s.attempt = seat.attempt
         /\ s.connection # "connected"
BY DEF Seated, Seat, Lost

\* The Session changes, the seat rests, resumes or loses touch.
LEMMA TurnsKeep ==
  ASSUME CvIInv, (\E s \in Sessions : SetSession(s)) \/ Resume \/ Pause \/ MarkStale
  PROVE  CvIInv'
<1> USE DEF CvIInv
<1>1. ASSUME NEW s \in Sessions, SetSession(s) PROVE CvIInv'
  <2>1. seat' = Fresh(s) /\ pending' = Off /\ Bumps /\ UNCHANGED <<choice, online, paging, wire, facts, moves>>
    BY <1>1 DEF SetSession
  <2>2. Fresh(s) \in Seat /\ Fresh(s).shown = Off /\ Fresh(s).attempt = Off
    BY DEF Fresh, Seat
  <2>3. Seated'
    BY <2>1, <2>2 DEF Seated, ShowsItsSession, AttemptIsShown, PausedIsStale
  <2>4. Wired' /\ epoch' \in Nat
    BY <2>1, BumpKeeps
  <2> QED BY <2>1, <2>3, <2>4 DEF Fields, Chosen, Polling
<1>2. CASE Resume
  <2>1. Seated'
    BY <1>2 DEF Resume, Seated, ShowsItsSession, AttemptIsShown, PausedIsStale
  <2>2. Wired' /\ Polling' /\ Fields' /\ Chosen'
    BY <1>2 DEF Resume, Wired, CallOK, InSession, Polling, Fields, Chosen
  <2> QED BY <2>1, <2>2
<1>3. CASE Pause
  <2>1. pending' = Off /\ Bumps /\ online' = FALSE /\ UNCHANGED <<choice, paging, wire, facts, moves>>
        /\ seat' = IF seat.shown # Off THEN [seat EXCEPT !.connection = "stale"] ELSE seat
    BY <1>3 DEF Pause
  <2>2. seat' \in Seat /\ seat'.session = seat.session /\ seat'.shown = seat.shown /\ seat'.attempt = seat.attempt
        /\ (seat.shown # Off => seat'.connection = "stale")
    BY <2>1 DEF Seated, Seat
  <2>3. Seated'
    BY <2>1, <2>2 DEF Seated, ShowsItsSession, AttemptIsShown, PausedIsStale
  <2>4. Wired' /\ epoch' \in Nat
    BY <2>1, BumpKeeps
  <2> QED BY <2>1, <2>3, <2>4 DEF Fields, Chosen, Polling
<1>4. CASE MarkStale
  <2>1. seat' = Lost /\ pending' = Off /\ Bumps /\ UNCHANGED <<choice, online, paging, wire, facts, moves>>
    BY <1>4 DEF MarkStale
  <2>2. seat' \in Seat /\ seat'.session = seat.session /\ seat'.shown = seat.shown /\ seat'.attempt = seat.attempt
        /\ seat'.connection # "connected"
    BY <2>1, LostKeeps
  <2>3. Seated'
    BY <2>1, <2>2 DEF Seated, ShowsItsSession, AttemptIsShown, PausedIsStale
  <2>4. Wired' /\ epoch' \in Nat
    BY <2>1, BumpKeeps
  <2> QED BY <2>1, <2>3, <2>4 DEF Fields, Chosen, Polling
<1> QED BY <1>1, <1>2, <1>3, <1>4

\* The calls a seat makes.
LEMMA CallType ==
  ASSUME NEW kind \in CallKinds, NEW n \in Nat, NEW s \in Sessions, NEW pick \in SRuns \cup {Off},
         NEW base \in Shown \cup {Off}, NEW c, c = Call(kind, n, s, pick, base)
  PROVE  /\ c \in Calls /\ c.kind = kind /\ c.epoch = n /\ c.session = s /\ c.pick = pick /\ c.base = base
         /\ c.value = Off
BY DEF Call, Calls

\* The same of the read that notes a refusal.
LEMMA NotedCallType ==
  ASSUME NEW n \in Nat, NEW s \in Sessions, NEW pick \in SRuns \cup {Off}, NEW refused \in BOOLEAN,
         NEW c, c = [Call("inspect", n, s, pick, Off) EXCEPT !.refused = refused]
  PROVE  /\ c \in Calls /\ c.kind = "inspect" /\ c.epoch = n /\ c.session = s /\ c.pick = pick /\ c.base = Off
         /\ c.value = Off
<1>0. PICK b : b = Call("inspect", n, s, pick, Off)
  OBVIOUS
<1>1. /\ b \in Calls /\ b.kind = "inspect" /\ b.epoch = n /\ b.session = s /\ b.pick = pick /\ b.base = Off
      /\ b.value = Off
  BY <1>0, CallType DEF CallKinds
<1> QED BY <1>0, <1>1 DEF Calls

LEMMA NewCall ==
  ASSUME Fields, NEW CONSTANT c \in Calls, c.epoch = epoch + 1, epoch' = epoch + 1, c.session = seat'.session,
         c.value = Off, c.pick # Off => SessionOf[c.pick] = c.session, InSession(c.base, c.session),
         c.kind \in {"page", "archive", "resolve"} => c.base # Off,
         c.kind = "page" => c.base = seat'.shown
  PROVE  CallOK(c)'
<1>1. c.epoch <= epoch'
  BY DEF Fields
<1> QED BY <1>1 DEF CallOK, InSession

\* A read is asked for.
LEMMA RefreshKeeps ==
  ASSUME CvIInv, NEW CONSTANT pick \in SRuns \cup {Off}, pick # Off => SessionOf[pick] = seat.session,
         Refresh(seat.session, pick), seat'.session = seat.session
  PROVE  Wired' /\ Polling' /\ epoch' \in Nat /\ pending' \in Nat
<1> USE DEF CvIInv
<1>0. PICK c : c = Call("inspect", epoch + 1, seat.session, pick, Off)
  OBVIOUS
<1>1. epoch' = epoch + 1 /\ pending' = epoch + 1 /\ wire' = wire \cup {c} /\ epoch \in Nat
  BY <1>0 DEF Refresh, Bumps, Fields
<1>2. seat.session \in Sessions
  BY DEF Seated, Seat
<1>3. "inspect" \in CallKinds /\ InSession(Off, seat.session)
  BY DEF CallKinds, InSession
<1>7. /\ c \in Calls /\ c.kind = "inspect" /\ c.epoch = epoch + 1 /\ c.session = seat.session
      /\ c.pick = pick /\ c.base = Off /\ c.value = Off
  <2>1. epoch + 1 \in Nat
    BY <1>1
  <2> QED BY <1>0, <1>2, <1>3, <2>1 DEF Call, Calls, CallKinds
<1>4. CallOK(c)' /\ c.epoch = epoch + 1 /\ c.kind = "inspect"
  BY <1>1, <1>3, <1>7, NewCall
<1>5. Wired'
  <2>1. wire' = (wire \ {}) \cup {c}
    BY <1>1
  <2> QED BY <1>1, <1>4, <2>1, SendKeeps
<1>6. Polling'
  BY <1>1, <1>4 DEF Polling
<1> QED BY <1>1, <1>5, <1>6

\* Polls and picks.
LEMMA PicksKeep ==
  ASSUME CvIInv, Poll \/ RefreshNow \/ (\E r \in SRuns : SelectRun(r)) \/ (\E a \in {"a1", "a2"} : SelectAttempt(a))
  PROVE  CvIInv'
<1> USE DEF CvIInv
<1>0. seat.session \in Sessions
  BY DEF Seated, Seat
<1>1. CASE Poll \/ RefreshNow
  <2>1. Refresh(seat.session, choice[seat.session]) /\ UNCHANGED <<seat, choice, online, paging, facts, moves>>
    BY <1>1 DEF Poll, RefreshNow
  <2>2. choice[seat.session] \in SRuns \cup {Off}
        /\ (choice[seat.session] # Off => SessionOf[choice[seat.session]] = seat.session)
    BY <1>0 DEF Chosen
  <2>3. Wired' /\ Polling' /\ epoch' \in Nat /\ pending' \in Nat
    BY <2>1, <2>2, RefreshKeeps
  <2>4. Fields'
    BY <2>1, <2>3 DEF Fields
  <2> QED BY <2>1, <2>3, <2>4, SeatStays
<1>2. ASSUME NEW r \in SRuns, SelectRun(r) PROVE CvIInv'
  <2>1. seat.shown # Off /\ SessionOf[r] = seat.session /\ choice' = [choice EXCEPT ![seat.session] = r]
        /\ UNCHANGED <<online, paging, facts, moves>>
    BY <1>2 DEF SelectRun
  <2>2. seat' \in Seat /\ seat'.session = seat.session /\ seat'.shown = seat.shown
        /\ (seat'.attempt = seat.attempt \/ seat'.attempt = Off)
        /\ (seat'.connection = seat.connection \/ seat'.connection = "loading")
    BY <1>2 DEF SelectRun, Seated, Seat
  <2>3. Seated'
    BY <2>1, <2>2 DEF Seated, ShowsItsSession, AttemptIsShown, PausedIsStale
  <2>4. Chosen'
    BY <1>0, <2>1 DEF Chosen
  <2>5. CASE online
    <3>1. Refresh(seat.session, r)
      BY <1>2, <2>5 DEF SelectRun
    <3>2. Wired' /\ Polling' /\ epoch' \in Nat /\ pending' \in Nat
      BY <2>1, <2>2, <3>1, RefreshKeeps
    <3> QED BY <2>1, <2>3, <2>4, <3>2 DEF Fields
  <2>6. CASE ~online
    <3>1. Bumps /\ UNCHANGED <<pending, wire>>
      BY <1>2, <2>6 DEF SelectRun
    <3>2. Wired' /\ epoch' \in Nat
      BY <3>1, BumpKeeps
    <3> QED BY <2>1, <2>3, <2>4, <3>1, <3>2 DEF Fields, Polling
  <2> QED BY <2>5, <2>6
<1>3. ASSUME NEW a \in {"a1", "a2"}, SelectAttempt(a) PROVE CvIInv'
  <2>1. seat.shown # Off /\ a \in Attempts(seat.shown) /\ seat' = [seat EXCEPT !.attempt = a]
        /\ UNCHANGED <<choice, epoch, online, pending, paging, wire, facts, moves>>
    BY <1>3 DEF SelectAttempt
  <2>2. seat' \in Seat /\ seat'.session = seat.session /\ seat'.shown = seat.shown /\ seat'.attempt = a
        /\ seat'.connection = seat.connection
    BY <2>1 DEF Seated, Seat
  <2>3. Seated'
    BY <2>1, <2>2 DEF Seated, ShowsItsSession, AttemptIsShown, PausedIsStale
  <2>4. Wired' /\ Polling' /\ Fields' /\ Chosen'
    BY <2>1, <2>2 DEF Wired, CallOK, InSession, Polling, Fields, Chosen
  <2> QED BY <2>3, <2>4
<1> QED BY <1>1, <1>2, <1>3

\* A call of an action on what is shown, or of a plan's start.
LEMMA SendsKeep ==
  ASSUME CvIInv, LoadMore \/ Archive \/ ResolveRecovery \/ RunPlan
  PROVE  CvIInv'
<1> USE DEF CvIInv
<1>0. seat.session \in Sessions /\ seat.shown \in Shown \cup {Off} /\ InSession(seat.shown, seat.session)
  BY DEF Seated, Seat, InSession, ShowsItsSession
<1>1. PICK kind \in {"page", "archive", "resolve", "start"}, base \in {seat.shown, Off} :
        /\ Bumps /\ wire' = wire \cup {Call(kind, epoch + 1, seat.session, Off, base)}
        /\ kind # "start" => base = seat.shown /\ base # Off
  BY DEF LoadMore, Archive, ResolveRecovery, RunPlan, Sends
<1>2. UNCHANGED <<seat, choice, online, pending, facts, moves>> /\ paging' \in BOOLEAN
  BY DEF LoadMore, Archive, ResolveRecovery, RunPlan, Fields
<1>3. PICK c : c = Call(kind, epoch + 1, seat.session, Off, base)
  OBVIOUS
<1>4. epoch \in Nat /\ epoch' = epoch + 1 /\ wire' = (wire \ {}) \cup {c}
  BY <1>1, <1>3 DEF Fields, Bumps
<1>5. kind \in CallKinds /\ base \in Shown \cup {Off} /\ InSession(base, seat.session)
  BY <1>0 DEF CallKinds, InSession
<1>6. /\ c \in Calls /\ c.kind = kind /\ c.epoch = epoch + 1 /\ c.session = seat.session
      /\ c.pick = Off /\ c.base = base /\ c.value = Off
  <2>1. epoch + 1 \in Nat
    BY <1>4
  <2> QED BY <1>0, <1>3, <1>5, <2>1 DEF Call, Calls
<1>7. CallOK(c)'
  BY <1>1, <1>2, <1>4, <1>5, <1>6, NewCall
<1>8. Wired'
  BY <1>4, <1>6, <1>7, SendKeeps
<1>9. Polling'
  BY <1>2, <1>4 DEF Polling
<1>10. Fields'
  BY <1>2, <1>4 DEF Fields
<1> QED BY <1>2, <1>8, <1>9, <1>10, SeatStays

-----------------------------------------------------------------------------
(* Answers. *)

\* What an answer that only says so leaves of the seat.
LEMMA NotedKeeps ==
  ASSUME NEW CONSTANT c \in Calls, NEW CONSTANT s \in Seat
  PROVE  /\ Noted(c, s) \in Seat /\ Noted(c, s).session = s.session /\ Noted(c, s).shown = s.shown
         /\ Noted(c, s).attempt = s.attempt /\ Noted(c, s).connection = s.connection
BY DEF Noted, Seat

\* The gate of the polls opens with the read it belongs to.
LEMMA GateKeeps ==
  ASSUME Polling, Fields, NEW c \in wire, wire' = wire \ {c}, pending' = Gate(c)
  PROVE  Polling' /\ pending' \in Nat \cup {Off}
<1>1. pending' \in Nat \cup {Off}
  BY DEF Gate, Fields
<1>2. ASSUME pending' # Off PROVE \E d \in wire' : d.kind = "inspect" /\ d.epoch = pending'
  <2>1. pending' = pending /\ ~(c.kind = "inspect" /\ pending = c.epoch)
    BY <1>2 DEF Gate
  <2> QED BY <1>2, <2>1 DEF Polling
<1> QED BY <1>1, <1>2 DEF Polling

\* An answer that is not waited for any more.
LEMMA DropKeeps ==
  ASSUME CvIInv, NEW c \in wire, Drop(c) PROVE CvIInv'
<1> USE DEF CvIInv
<1>1. wire' = wire \ {c} /\ pending' = Gate(c) /\ seat' = Noted(c, seat) /\ paging' = (paging /\ c.kind # "page")
      /\ UNCHANGED <<choice, epoch, online, facts, moves>>
  BY DEF Drop, Arrive
<1>2. c \in Calls /\ seat \in Seat
  BY DEF Wired, CallOK, Seated
<1>3. seat' \in Seat /\ seat'.session = seat.session /\ seat'.shown = seat.shown
      /\ seat'.attempt = seat.attempt /\ seat'.connection = seat.connection
  BY <1>1, <1>2, NotedKeeps
<1>4. Seated'
  BY <1>1, <1>3 DEF Seated, ShowsItsSession, AttemptIsShown, PausedIsStale
<1>5. Wired'
  <2>1. epoch \in Nat /\ epoch >= epoch
    BY DEF Fields
  <2> QED BY <1>1, <1>3, <2>1, OthersKeep
<1>6. Polling' /\ pending' \in Nat \cup {Off}
  BY <1>1, GateKeeps
<1>7. Fields' /\ Chosen'
  BY <1>1, <1>6 DEF Fields, Chosen
<1> QED BY <1>4, <1>5, <1>6, <1>7

\* A read that comes back in its epoch.
LEMMA InspectKeepsSeat ==
  ASSUME CvIInv, NEW c \in wire, InspectArrives(c) PROVE CvIInv'
<1> USE DEF CvIInv
<1>1. /\ wire' = wire \ {c} /\ pending' = Gate(c) /\ paging' = (paging /\ c.kind # "page")
      /\ seat' = Noted(c, IF Refuses(c) THEN [Lost EXCEPT !.error = TRUE] ELSE Adopt(c.value))
      /\ UNCHANGED <<choice, epoch, online, facts, moves>> /\ c.epoch = epoch /\ online
  BY DEF InspectArrives, Arrive, StillAsked
<1>2. CallOK(c) /\ c \in Calls /\ seat \in Seat
  BY DEF Wired, CallOK, Seated
<1>3. PICK s : s = IF Refuses(c) THEN [Lost EXCEPT !.error = TRUE] ELSE Adopt(c.value)
  OBVIOUS
<1>4. /\ s \in Seat /\ s.session = seat.session
      /\ s.shown # Off => SessionOf[s.shown.run] = s.session
      /\ s.attempt # Off => s.shown # Off /\ s.attempt \in Attempts(s.shown)
  <2>1. CASE Refuses(c)
    <3>1. s.session = seat.session /\ s.shown = seat.shown /\ s.attempt = seat.attempt /\ s \in Seat
      BY <1>3, <2>1, LostKeeps
    <3> QED BY <3>1 DEF Seated, ShowsItsSession, AttemptIsShown
  <2>2. CASE ~Refuses(c)
    <3>1. s = Adopt(c.value) /\ c.value \in Shown \cup {Off}
      BY <1>2, <1>3, <2>2 DEF Calls
    <3>2. s \in Seat /\ s.session = seat.session /\ s.shown = c.value
          /\ s.attempt = (IF c.value = Off THEN Off ELSE IF seat.attempt \in Attempts(c.value) THEN seat.attempt ELSE Off)
      BY <1>2, <3>1 DEF Adopt, Seat
    <3>3. s.shown # Off => SessionOf[s.shown.run] = s.session
      BY <1>1, <1>2, <3>2 DEF CallOK, InSession
    <3> QED BY <3>2, <3>3
  <2> QED BY <2>1, <2>2
<1>5. seat' \in Seat /\ seat'.session = s.session /\ seat'.shown = s.shown /\ seat'.attempt = s.attempt
  BY <1>1, <1>2, <1>3, <1>4, NotedKeeps
<1>6. Seated'
  BY <1>1, <1>4, <1>5 DEF Seated, ShowsItsSession, AttemptIsShown, PausedIsStale
<1>7. Wired'
  <2>1. epoch \in Nat /\ epoch >= epoch
    BY DEF Fields
  <2>2. \A d \in wire' : d.epoch # epoch'
    BY <1>1 DEF Wired
  <2> QED BY <1>1, <2>1, <2>2, OthersKeep
<1>8. Polling' /\ pending' \in Nat \cup {Off}
  BY <1>1, GateKeeps
<1>9. Fields' /\ Chosen'
  BY <1>1, <1>8 DEF Fields, Chosen
<1> QED BY <1>6, <1>7, <1>8, <1>9

\* A further page of what the seat still shows.
LEMMA PageKeepsSeat ==
  ASSUME CvIInv, NEW c \in wire, PageArrives(c) PROVE CvIInv' /\ seat'.shown.seq = seat.shown.seq
<1> USE DEF CvIInv
<1>1. /\ wire' = wire \ {c} /\ pending' = pending /\ paging' = (paging /\ c.kind # "page") /\ c.kind = "page"
      /\ seat' = (IF c.status = "failed" THEN [Lost EXCEPT !.error = TRUE]
                  ELSE [seat EXCEPT !.shown = [c.base EXCEPT !.more = FALSE], !.connection = "connected", !.error = FALSE])
      /\ UNCHANGED <<choice, epoch, online, facts, moves>> /\ c.epoch = epoch /\ online
  BY DEF PageArrives, Arrive, StillAsked
<1>2. CallOK(c) /\ c \in Calls /\ seat \in Seat
  BY DEF Wired, CallOK, Seated
<1>3. c.base = seat.shown /\ seat.shown # Off /\ seat.shown \in Shown
  BY <1>1, <1>2 DEF CallOK, Seat
<1>4. /\ seat' \in Seat /\ seat'.session = seat.session /\ seat'.attempt = seat.attempt
      /\ seat'.shown \in Shown /\ seat'.shown.run = seat.shown.run /\ seat'.shown.seq = seat.shown.seq
  <2>1. CASE c.status = "failed"
    <3>1. seat' = [Lost EXCEPT !.error = TRUE]
      BY <1>1, <2>1
    <3>2. seat' \in Seat /\ seat'.session = seat.session /\ seat'.shown = seat.shown /\ seat'.attempt = seat.attempt
      BY <3>1, LostKeeps
    <3> QED BY <1>3, <3>2
  <2>2. CASE c.status # "failed"
    <3>0. PICK v : v = [seat.shown EXCEPT !.more = FALSE]
      OBVIOUS
    <3>1. v \in Shown /\ v.run = seat.shown.run /\ v.seq = seat.shown.seq
      BY <1>3, <3>0 DEF Shown
    <3>2. seat' = [seat EXCEPT !.shown = v, !.connection = "connected", !.error = FALSE]
      BY <1>1, <1>3, <2>2, <3>0
    <3>3. seat' \in Seat /\ seat'.shown = v /\ seat'.session = seat.session /\ seat'.attempt = seat.attempt
      BY <1>2, <3>1, <3>2 DEF Seat
    <3> QED BY <2>2, <3>1, <3>3
  <2> QED BY <2>1, <2>2
<1>5. Attempts(seat'.shown) = Attempts(seat.shown)
  BY <1>4 DEF Attempts
<1>6. Wired'
  <2>1. epoch \in Nat /\ epoch >= epoch
    BY DEF Fields
  <2>2. \A d \in wire' : d.epoch # epoch'
    BY <1>1 DEF Wired
  <2> QED BY <1>1, <2>1, <2>2, OthersKeep
<1>7. Polling'
  BY <1>1 DEF Polling
<1>8. Fields' /\ Chosen'
  BY <1>1 DEF Fields, Chosen
<1>9. Seated'
  BY <1>1, <1>3, <1>4, <1>5, ConversationAssumption DEF Seated, ShowsItsSession, AttemptIsShown, PausedIsStale
<1> QED BY <1>4, <1>6, <1>7, <1>8, <1>9

\* The read after an action that came back.
LEMMA RereadsKeep ==
  ASSUME CvIInv, NEW c \in wire, NEW CONSTANT picks \in [Sessions -> SRuns \cup {Off}],
         \A s \in Sessions : picks[s] # Off => SessionOf[picks[s]] = s,
         Rereads(c, picks), paging' \in BOOLEAN, UNCHANGED <<online, facts, moves>>
  PROVE  CvIInv'
<1> USE DEF CvIInv
<1>1. /\ choice' = picks /\ epoch' = epoch + 1 /\ pending' = epoch + 1 /\ seat' = seat /\ epoch \in Nat
      /\ epoch + 1 \in Nat
  BY DEF Rereads, Bumps, Fields
<1>2. PICK d : d = [Call("inspect", epoch + 1, seat.session, picks[seat.session], Off) EXCEPT !.refused = c.status = "conflict"]
  OBVIOUS
<1>3. wire' = (wire \ {c}) \cup {d}
  BY <1>2 DEF Rereads
<1>4. PICK s, pick, refused : s = seat.session /\ pick = picks[s] /\ refused = (c.status = "conflict")
  OBVIOUS
<1>5. s \in Sessions /\ pick \in SRuns \cup {Off} /\ (pick # Off => SessionOf[pick] = s) /\ refused \in BOOLEAN
  BY <1>4 DEF Seated, Seat
<1>6. d = [Call("inspect", epoch + 1, s, pick, Off) EXCEPT !.refused = refused]
  BY <1>2, <1>4
<1>7. /\ d \in Calls /\ d.kind = "inspect" /\ d.epoch = epoch + 1 /\ d.session = s /\ d.pick = pick
      /\ d.base = Off /\ d.value = Off
  <2>0. PICK b : b = Call("inspect", epoch + 1, s, pick, Off)
    OBVIOUS
  <2>1. /\ b \in Calls /\ b.kind = "inspect" /\ b.epoch = epoch + 1 /\ b.session = s /\ b.pick = pick
        /\ b.base = Off /\ b.value = Off
    BY <1>1, <1>5, <2>0 DEF Call, Calls, CallKinds
  <2> QED BY <1>5, <1>6, <2>0, <2>1 DEF Calls
<1>8. CallOK(d)'
  BY <1>1, <1>4, <1>5, <1>7, NewCall DEF InSession
<1>9. Wired'
  BY <1>1, <1>3, <1>7, <1>8, SendKeeps
<1>10. Polling'
  BY <1>1, <1>3, <1>7 DEF Polling
<1>11. Seated' /\ Chosen' /\ Fields'
  BY <1>1 DEF Seated, ShowsItsSession, AttemptIsShown, PausedIsStale, Chosen, Fields
<1> QED BY <1>9, <1>10, <1>11

\* An action, or a plan's start, that came back.
LEMMA ActionsKeep ==
  ASSUME CvIInv, NEW c \in wire, ActionArrives(c) \/ StartArrives(c) PROVE CvIInv'
<1> USE DEF CvIInv
<1>1. CallOK(c) /\ c \in Calls /\ paging' \in BOOLEAN /\ UNCHANGED <<online, facts, moves>> /\ c.kind # "inspect"
  BY DEF ActionArrives, StartArrives, Arrive, Fields, Wired, CallOK
<1>2. choice \in [Sessions -> SRuns \cup {Off}] /\ \A s \in Sessions : choice[s] # Off => SessionOf[choice[s]] = s
  BY DEF Chosen
<1>3. CASE Rereads(c, choice)
  BY <1>1, <1>2, <1>3, RereadsKeep
<1>4. CASE Rereads(c, [choice EXCEPT ![c.session] = Off])
  <2>0. PICK picks : picks = [choice EXCEPT ![c.session] = Off]
    OBVIOUS
  <2>1. picks \in [Sessions -> SRuns \cup {Off}] /\ \A s \in Sessions : picks[s] # Off => SessionOf[picks[s]] = s
    BY <1>2, <2>0
  <2> QED BY <1>1, <1>4, <2>0, <2>1, RereadsKeep
<1>5. CASE /\ wire' = wire \ {c} /\ UNCHANGED <<choice, epoch, pending>>
           /\ seat' = seat \/ seat' = [Lost EXCEPT !.error = TRUE]
  <2>1. /\ seat' \in Seat /\ seat'.session = seat.session /\ seat'.shown = seat.shown /\ seat'.attempt = seat.attempt
        /\ seat'.connection = seat.connection \/ seat'.connection # "connected"
    BY <1>5, LostKeeps DEF Seated
  <2>2. Seated'
    BY <1>1, <2>1 DEF Seated, ShowsItsSession, AttemptIsShown, PausedIsStale
  <2>3. Wired'
    <3>1. epoch \in Nat /\ epoch >= epoch
      BY DEF Fields
    <3> QED BY <1>5, <2>1, <3>1, OthersKeep
  <2>4. Polling'
    BY <1>1, <1>5 DEF Polling
  <2>5. Fields' /\ Chosen'
    BY <1>1, <1>5 DEF Fields, Chosen
  <2> QED BY <2>2, <2>3, <2>4, <2>5
<1> QED BY <1>3, <1>4, <1>5 DEF ActionArrives, StartArrives

LEMMA CvInitHolds == ConvInit => CvIInv
<1> SUFFICES ASSUME ConvInit PROVE CvIInv
  OBVIOUS
<1> USE DEF ConvInit
<1>1. PICK s \in Sessions : seat = Fresh(s)
  OBVIOUS
<1>2. seat \in Seat /\ seat.shown = Off /\ seat.attempt = Off
  BY <1>1 DEF Fresh, Seat
<1>3. Seated
  BY <1>2 DEF Seated, ShowsItsSession, AttemptIsShown, PausedIsStale
<1>4. Chosen
  BY DEF Chosen
<1>5. Fields
  <2>1. facts \in [SRuns -> [seq : Nat, recovery : BOOLEAN, archived : BOOLEAN]]
    OBVIOUS
  <2>2. moves \in 0..MaxMoves
    BY ConversationAssumption
  <2> QED BY <2>1, <2>2 DEF Fields
<1>6. Wired /\ Polling
  BY DEF Wired, Polling
<1> QED BY <1>3, <1>4, <1>5, <1>6 DEF CvIInv

LEMMA CvInductive == CvIInv /\ [ConvNext]_convVars => CvIInv'
<1> SUFFICES ASSUME CvIInv, [ConvNext]_convVars PROVE CvIInv'
  OBVIOUS
<1>1. CASE UNCHANGED convVars
  BY <1>1 DEF convVars, CvIInv, Seated, ShowsItsSession, AttemptIsShown, PausedIsStale, Chosen, Fields, Wired,
              CallOK, InSession, Polling
<1>2. CASE ConvNext
  BY <1>2, HostKeeps, TurnsKeep, PicksKeep, SendsKeep, DropKeeps, InspectKeepsSeat, PageKeepsSeat, ActionsKeep
     DEF ConvNext
<1> QED BY <1>1, <1>2

LEMMA CvConclusion == CvIInv => ConvTypeOK /\ ShowsItsSession /\ AttemptIsShown /\ PausedIsStale
BY DEF CvIInv, ConvTypeOK, Seated, Seat, Chosen, Fields, Wired, CallOK, Polling

\* The conversation seat shows a Run of the Session it is on, an Attempt of that Run, and
\* nothing as connected while it is paused (conversation-controller.ts).
THEOREM SeatKept == ConvSpec => [](ConvTypeOK /\ ShowsItsSession /\ AttemptIsShown /\ PausedIsStale)
BY CvInitHolds, CvInductive, CvConclusion, PTL DEF ConvSpec

\* Its picture of a Run never goes back: neither a slow read nor a page merged into an
\* earlier value undoes a newer one.
THEOREM SeatForward == ConvSpec => NeverGoesBack
<1> DEFINE Forward == (seat.shown # Off /\ seat'.shown # Off /\ seat'.session = seat.session
                       /\ seat'.shown.run = seat.shown.run) => seat'.shown.seq >= seat.shown.seq
<1>1. CvIInv /\ [ConvNext]_convVars => Forward
  <2> SUFFICES ASSUME CvIInv, [ConvNext]_convVars, seat.shown # Off, seat'.shown # Off,
                      seat'.shown.run = seat.shown.run
               PROVE  seat'.shown.seq >= seat.shown.seq
    OBVIOUS
  <2>1. seat \in Seat /\ seat.shown \in Shown /\ seat.shown.seq \in Nat
    BY DEF CvIInv, Seated, Seat, Shown
  <2>2. CASE seat'.shown = seat.shown
    BY <2>1, <2>2
  <2>3. ASSUME NEW c \in wire, PageArrives(c) PROVE seat'.shown.seq >= seat.shown.seq
    BY <2>1, <2>3, PageKeepsSeat
  <2>4. ASSUME NEW c \in wire, InspectArrives(c) PROVE seat'.shown.seq >= seat.shown.seq
    <3>0. PICK s : s = IF Refuses(c) THEN [Lost EXCEPT !.error = TRUE] ELSE Adopt(c.value)
      OBVIOUS
    <3>1. seat' = Noted(c, s) /\ c \in Calls
      BY <2>4, <3>0 DEF InspectArrives, CvIInv, Wired, CallOK
    <3>2. CASE Refuses(c)
      <4>1. s \in Seat /\ s.shown = seat.shown
        BY <3>0, <3>2, LostKeeps DEF CvIInv
      <4> QED BY <2>1, <3>1, <4>1, NotedKeeps
    <3>3. CASE ~Refuses(c)
      <4>1. s \in Seat /\ s.shown = c.value
        BY <2>1, <3>0, <3>1, <3>3 DEF Adopt, Seat, Calls
      <4>2. seat'.shown = c.value
        BY <3>1, <4>1, NotedKeeps
      <4>3. c.value \in Shown /\ ~OlderThanShown(c.value)
        BY <3>1, <3>3, <4>2 DEF Refuses, Calls
      <4> QED BY <2>1, <4>2, <4>3 DEF OlderThanShown, Shown
    <3> QED BY <3>2, <3>3
  <2>5. ASSUME NEW c \in wire, Drop(c) PROVE seat'.shown = seat.shown
    BY <2>1, <2>5, NotedKeeps DEF Drop, CvIInv, Wired, CallOK
  <2>6. ASSUME NEW s \in Sessions, SetSession(s) PROVE FALSE
    BY <2>6 DEF SetSession, Fresh
  <2>7. ASSUME seat' = Lost \/ seat' = [Lost EXCEPT !.error = TRUE] PROVE seat'.shown = seat.shown
    BY <2>7, LostKeeps DEF CvIInv
  <2>8. ASSUME (\E r \in SRuns : SelectRun(r)) \/ (\E a \in {"a1", "a2"} : SelectAttempt(a)) \/ Pause
        PROVE  seat'.shown = seat.shown
    BY <2>1, <2>8 DEF SelectRun, SelectAttempt, Pause, Seat
  <2>9. ASSUME NEW c \in wire, ActionArrives(c) \/ StartArrives(c) PROVE seat'.shown = seat.shown
    BY <2>7, <2>9 DEF ActionArrives, StartArrives, Rereads
  <2>10. CASE UNCHANGED convVars
    BY <2>2, <2>10 DEF convVars
  <2>11. CASE ConvNext
    BY <2>2, <2>3, <2>4, <2>5, <2>6, <2>7, <2>8, <2>9, <2>11
       DEF ConvNext, HostMoves, HostReads, Archives, Resolves, Fails, Resume, MarkStale, Poll, RefreshNow,
           LoadMore, Archive, ResolveRecovery, RunPlan
  <2> QED BY <2>10, <2>11
<1> QED BY <1>1, CvInitHolds, CvInductive, PTL DEF ConvSpec, NeverGoesBack

-----------------------------------------------------------------------------
(* The canvas: the search for a cycle.                                       *)

\* A set of numbers has a least one, and contains all if it is closed under successor.
LessThan == {p \in Nat \X Nat : p[1] < p[2]}
LEMMA LeastNumber == ASSUME NEW T, T \subseteq Nat, T # {} PROVE \E x \in T : \A y \in T : x <= y
<1>1. IsWellFoundedOn(LessThan, Nat)
  BY NatLessThanWellFounded DEF OpToRel, LessThan
<1>2. PICK x \in T : \A y \in T : <<y, x>> \notin LessThan
  BY <1>1, WFMin
<1>3. ASSUME NEW y \in T PROVE x <= y
  <2>1. <<y, x>> \in Nat \X Nat /\ <<y, x>> \notin LessThan /\ x \in Nat /\ y \in Nat
    BY <1>2
  <2>2. ~(<<y, x>>[1] < <<y, x>>[2])
    BY <2>1 DEF LessThan
  <2> QED BY <2>1, <2>2
<1> QED BY <1>3

LEMMA AllNumbers == ASSUME NEW S, 0 \in S, \A m \in Nat : m \in S => m + 1 \in S PROVE \A m \in Nat : m \in S
<1> SUFFICES ASSUME Nat \ S # {} PROVE FALSE
  OBVIOUS
<1>1. PICK x \in Nat \ S : \A y \in Nat \ S : x <= y
  BY LeastNumber
<1>2. x # 0 /\ x - 1 \in Nat
  BY <1>1
<1>3. x - 1 \in S
  BY <1>1, <1>2
<1> QED BY <1>1, <1>2, <1>3

\* A set no data edge leaves.
Closed(g, S) == \A e \in g.edges : e.kind = "data" /\ e.from \in S => e.to \in S

LEMMA FurtherOf ==
  ASSUME NEW g, NEW S
  PROVE  /\ S \subseteq Further(g, S)
         /\ \A y \in Further(g, S) : y \in S \/ \E e \in g.edges : e.kind = "data" /\ e.from \in S /\ e.to = y
         /\ \A e \in g.edges : e.kind = "data" /\ e.from \in S => e.to \in Further(g, S)
<1>1. ASSUME NEW e \in g.edges, e.kind = "data", e.from \in S PROVE e.to \in Further(g, S)
  <2>1. <<e.from, e.to>> \in DataSteps(g)
    BY <1>1 DEF DataSteps
  <2>2. <<e.from, e.to>> \in {q \in DataSteps(g) : q[1] \in S}
    BY <1>1, <2>1
  <2>3. <<e.from, e.to>>[2] \in {p[2] : p \in {q \in DataSteps(g) : q[1] \in S}}
    BY <2>2
  <2> QED BY <2>3 DEF Further
<1>2. ASSUME NEW y \in Further(g, S), y \notin S
      PROVE  \E e \in g.edges : e.kind = "data" /\ e.from \in S /\ e.to = y
  <2>1. PICK q \in DataSteps(g) : q[1] \in S /\ q[2] = y
    BY <1>2 DEF Further
  <2>2. PICK e \in {x \in g.edges : x.kind = "data"} : q = <<e.from, e.to>>
    BY <2>1 DEF DataSteps
  <2> QED BY <2>1, <2>2
<1> QED BY <1>1, <1>2 DEF Further

\* The recursive function of ReachedFrom is defined.
Stages(g, n, N, f) == f = [k \in 0..N |-> IF k = 0 THEN {n} ELSE Further(g, f[k - 1])]
LEMMA StagesExist == ASSUME NEW g, NEW n, NEW N \in Nat PROVE \E f : Stages(g, n, N, f)
<1> DEFINE S == {m \in Nat : \E f : Stages(g, n, m, f)}
<1>1. 0 \in S
  <2> DEFINE f == [k \in 0..0 |-> {n}]
  <2>1. Stages(g, n, 0, f)
    BY DEF Stages
  <2> QED BY <2>1
<1>2. ASSUME NEW m \in Nat, m \in S PROVE m + 1 \in S
  <2>1. PICK f : Stages(g, n, m, f)
    BY <1>2
  <2> DEFINE h == [k \in 0..m + 1 |-> IF k = m + 1 THEN Further(g, f[m]) ELSE f[k]]
  <2>2. \A k \in 0..m : f[k] = IF k = 0 THEN {n} ELSE Further(g, f[k - 1])
    BY <2>1 DEF Stages
  <2>3. \A k \in 0..m + 1 : h[k] = IF k = 0 THEN {n} ELSE Further(g, h[k - 1])
    <3> SUFFICES ASSUME NEW k \in 0..m + 1 PROVE h[k] = IF k = 0 THEN {n} ELSE Further(g, h[k - 1])
      OBVIOUS
    <3>1. CASE k = m + 1
      <4>1. h[k] = Further(g, f[m]) /\ h[k - 1] = f[m] /\ k # 0
        BY <3>1
      <4> QED BY <4>1
    <3>2. CASE k \in 1..m
      <4>1. h[k] = f[k] /\ h[k - 1] = f[k - 1]
        BY <3>2
      <4>2. f[k] = Further(g, f[k - 1])
        BY <2>2, <3>2
      <4> QED BY <3>2, <4>1, <4>2
    <3>3. CASE k = 0
      <4>1. h[k] = f[k]
        BY <3>3
      <4> QED BY <2>2, <3>3, <4>1
    <3> QED BY <3>1, <3>2, <3>3
  <2>4. h = [k \in 0..m + 1 |-> IF k = 0 THEN {n} ELSE Further(g, h[k - 1])]
    BY <2>3
  <2>5. Stages(g, n, m + 1, h)
    BY <2>4 DEF Stages
  <2> QED BY <2>5
<1>3. \A m \in Nat : m \in S
  <2> HIDE DEF S
  <2> QED BY <1>1, <1>2, AllNumbers
<1> QED BY <1>3

\* A set that some data edge leaves grows.
LEMMA FurtherGrows ==
  ASSUME NEW g, IsGraph(g), NEW S \in SUBSET NodeIds(g)
  PROVE  /\ Further(g, S) \in SUBSET NodeIds(g)
         /\ Closed(g, S) => Further(g, S) = S
         /\ ~Closed(g, S) => Cardinality(Further(g, S)) >= Cardinality(S) + 1
<1>1. Further(g, S) \in SUBSET NodeIds(g)
  BY FurtherOf DEF IsGraph, EdgesIn
<1>2. ASSUME Closed(g, S) PROVE Further(g, S) = S
  <2>1. S \subseteq Further(g, S)
    BY FurtherOf
  <2>2. \A y \in Further(g, S) : y \in S
    BY <1>2, FurtherOf DEF Closed
  <2> QED BY <2>1, <2>2
<1>3. ASSUME ~Closed(g, S) PROVE Cardinality(Further(g, S)) >= Cardinality(S) + 1
  <2>1. S \subseteq Further(g, S) /\ S # Further(g, S)
    BY <1>3, FurtherOf DEF Closed
  <2>2. IsFiniteSet(Further(g, S)) /\ IsFiniteSet(S)
    BY <1>1, FS_Subset DEF IsGraph
  <2>3. Cardinality(S) < Cardinality(Further(g, S))
    <3>1. Cardinality(S) <= Cardinality(Further(g, S))
      BY <2>1, <2>2, FS_Subset
    <3>2. Cardinality(S) # Cardinality(Further(g, S))
      BY <2>1, <2>2, FS_Subset
    <3> QED BY <2>2, <3>1, <3>2, FS_CardinalityType
  <2> QED BY <2>2, <2>3, FS_CardinalityType
<1> QED BY <1>1, <1>2, <1>3

\* What the search of checkConnection finds: the least closed set around its start.
LEMMA Reach ==
  ASSUME NEW g, IsGraph(g), NEW n \in NodeIds(g)
  PROVE  /\ n \in ReachedFrom(g, n) /\ ReachedFrom(g, n) \in SUBSET NodeIds(g)
         /\ Closed(g, ReachedFrom(g, n))
         /\ \A S : Closed(g, S) /\ n \in S => ReachedFrom(g, n) \subseteq S
<1> DEFINE N == Cardinality(NodeIds(g))
<1>1. N \in Nat /\ IsFiniteSet(NodeIds(g))
  BY FS_CardinalityType DEF IsGraph
<1> DEFINE reach == CHOOSE f : f = [k \in 0..N |-> IF k = 0 THEN {n} ELSE Further(g, f[k - 1])]
<1>2. ReachedFrom(g, n) = reach[N]
  BY Zenon DEF ReachedFrom
<1>3. reach = [k \in 0..N |-> IF k = 0 THEN {n} ELSE Further(g, reach[k - 1])]
  <2>1. PICK f : Stages(g, n, N, f)
    BY <1>1, StagesExist
  <2>2. f = [k \in 0..N |-> IF k = 0 THEN {n} ELSE Further(g, f[k - 1])]
    BY <2>1 DEF Stages
  <2> QED BY <2>2, Zenon
<1> HIDE DEF reach
<1>4. reach[0] = {n} /\ \A k \in 0..N : k + 1 <= N => reach[k + 1] = Further(g, reach[k])
  <2>1. reach[0] = {n}
    BY <1>1, <1>3
  <2>2. ASSUME NEW k \in 0..N, k + 1 <= N PROVE reach[k + 1] = Further(g, reach[k])
    <3>1. k + 1 \in 0..N /\ k + 1 # 0 /\ (k + 1) - 1 = k
      BY <1>1, <2>2
    <3>2. reach[k + 1] = IF k + 1 = 0 THEN {n} ELSE Further(g, reach[(k + 1) - 1])
      BY <1>3, <3>1
    <3> QED BY <3>1, <3>2
  <2> QED BY <2>1, <2>2
<1> HIDE DEF N
<1> DEFINE OK == {k \in Nat : k <= N =>
             /\ n \in reach[k] /\ reach[k] \in SUBSET NodeIds(g)
             /\ Closed(g, reach[k]) \/ Cardinality(reach[k]) >= k + 1
             /\ \A S : Closed(g, S) /\ n \in S => reach[k] \subseteq S}
<1>5. 0 \in OK
  <2>1. Cardinality({n}) = 1
    BY FS_Singleton
  <2> QED BY <1>4, <2>1
<1>6. ASSUME NEW k \in Nat, k \in OK PROVE k + 1 \in OK
  <2> SUFFICES ASSUME k + 1 <= N
               PROVE  /\ n \in reach[k + 1] /\ reach[k + 1] \in SUBSET NodeIds(g)
                      /\ Closed(g, reach[k + 1]) \/ Cardinality(reach[k + 1]) >= (k + 1) + 1
                      /\ \A S : Closed(g, S) /\ n \in S => reach[k + 1] \subseteq S
    OBVIOUS
  <2>1. k \in 0..N /\ k <= N
    BY <1>1
  <2>2. /\ n \in reach[k] /\ reach[k] \in SUBSET NodeIds(g)
        /\ Closed(g, reach[k]) \/ Cardinality(reach[k]) >= k + 1
        /\ \A S : Closed(g, S) /\ n \in S => reach[k] \subseteq S
    BY <1>6, <2>1
  <2>3. reach[k + 1] = Further(g, reach[k])
    BY <1>4, <2>1
  <2>4. /\ reach[k + 1] \in SUBSET NodeIds(g)
        /\ Closed(g, reach[k]) => reach[k + 1] = reach[k]
        /\ ~Closed(g, reach[k]) => Cardinality(reach[k + 1]) >= Cardinality(reach[k]) + 1
    BY <2>2, <2>3, FurtherGrows
  <2>5. n \in reach[k + 1]
    BY <2>2, <2>3, FurtherOf
  <2>6. Closed(g, reach[k + 1]) \/ Cardinality(reach[k + 1]) >= (k + 1) + 1
    <3>1. CASE Closed(g, reach[k])
      BY <2>4, <3>1
    <3>2. CASE ~Closed(g, reach[k])
      <4>1. IsFiniteSet(reach[k]) /\ IsFiniteSet(reach[k + 1])
        BY <1>1, <2>2, <2>4, FS_Subset
      <4>2. Cardinality(reach[k]) \in Nat /\ Cardinality(reach[k + 1]) \in Nat
        BY <4>1, FS_CardinalityType
      <4> QED BY <2>2, <2>4, <3>2, <4>2
    <3> QED BY <3>1, <3>2
  <2>7. ASSUME NEW S, Closed(g, S), n \in S PROVE reach[k + 1] \subseteq S
    <3>1. reach[k] \subseteq S
      BY <2>2, <2>7
    <3> QED BY <2>3, <2>7, <3>1, FurtherOf DEF Closed
  <2> QED BY <2>4, <2>5, <2>6, <2>7
<1>7. N \in OK
  <2> HIDE DEF OK
  <2> QED BY <1>1, <1>5, <1>6, AllNumbers
<1>8. Cardinality(reach[N]) <= N
  <2>1. reach[N] \in SUBSET NodeIds(g)
    BY <1>1, <1>7
  <2> QED BY <1>1, <2>1, FS_Subset DEF N
<1>9. Closed(g, reach[N])
  <2>1. IsFiniteSet(reach[N])
    BY <1>1, <1>7, FS_Subset
  <2> QED BY <1>1, <1>7, <1>8, <2>1, FS_CardinalityType
<1> QED BY <1>1, <1>2, <1>7, <1>9

-----------------------------------------------------------------------------
(* The canvas: sound graphs.                                                 *)

\* The part of HiddenWasOpened that each version must have: a connected side is
\* open to edges, that is not hidden unless a document brought it so.
IsOpen(nodes, n, side) == nodes[n].show[side] = "hide" => Brought(n, side)
HiddenFree(g) ==
  \A n \in NodeIds(g), side \in DOMAIN AutoShow : Connected(g, n, side) => IsOpen(g.nodes, n, side)
Sound(g) == IsGraph(g) /\ Acyclic(g) /\ HiddenFree(g)

\* The graph h has no other edges than g, and hides nothing that g does not hide.
Within(h, g) ==
  /\ \A e \in h.edges : \E x \in g.edges : x.kind = e.kind /\ x.from = e.from /\ x.to = e.to
  /\ \A n \in NodeIds(h), side \in DOMAIN AutoShow : h.nodes[n].show[side] = "hide" =>
       n \in NodeIds(g) /\ g.nodes[n].show[side] = "hide"

LEMMA SidesOf ==
  /\ DOMAIN AutoShow = {"control", "inputs", "outputs"}
  /\ \A kind : SideOut(kind) \in DOMAIN AutoShow /\ SideIn(kind) \in DOMAIN AutoShow
BY DEF AutoShow, SideOut, SideIn

\* What Connected says, side by side.
LEMMA ConnectedBy ==
  ASSUME NEW g, NEW n, NEW side \in DOMAIN AutoShow
  PROVE  Connected(g, n, side) <=>
           \E e \in g.edges : \/ side = "control" /\ e.kind = "control" /\ (n = e.from \/ n = e.to)
                              \/ side = "inputs" /\ e.kind = "data" /\ e.to = n
                              \/ side = "outputs" /\ e.kind = "data" /\ e.from = n
<1>1. side \in {"control", "inputs", "outputs"}
  BY SidesOf
<1>2. CASE side = "control"
  BY <1>2 DEF Connected
<1>3. CASE side = "inputs"
  BY <1>3 DEF Connected
<1>4. CASE side = "outputs"
  BY <1>4 DEF Connected
<1> QED BY <1>1, <1>2, <1>3, <1>4

LEMMA WithinKeeps ==
  ASSUME NEW g, NEW h, Sound(g), IsGraph(h), Within(h, g)
  PROVE  Sound(h)
<1>1. Acyclic(h)
  <2> SUFFICES ASSUME NEW e \in h.edges, e.kind = "data" PROVE e.from \notin ReachedFrom(h, e.to)
    BY DEF Acyclic
  <2>1. PICK x \in g.edges : x.kind = e.kind /\ x.from = e.from /\ x.to = e.to
    BY DEF Within
  <2>2. e.to \in NodeIds(h) /\ e.to \in NodeIds(g)
    BY <2>1 DEF Sound, IsGraph, EdgesIn
  <2> DEFINE R == ReachedFrom(g, e.to)
  <2>3. e.to \in R /\ Closed(g, R)
    BY <2>2, Reach DEF Sound
  <2>4. Closed(h, R)
    BY <2>3 DEF Closed, Within
  <2>5. ReachedFrom(h, e.to) \subseteq R
    BY <2>2, <2>3, <2>4, Reach
  <2>6. e.from \notin R
    BY <2>1 DEF Sound, Acyclic
  <2> QED BY <2>5, <2>6
<1>2. HiddenFree(h)
  <2> SUFFICES ASSUME NEW n \in NodeIds(h), NEW side \in DOMAIN AutoShow,
                      h.nodes[n].show[side] = "hide", Connected(h, n, side)
               PROVE  Brought(n, side)
    BY DEF HiddenFree, IsOpen
  <2>1. n \in NodeIds(g) /\ g.nodes[n].show[side] = "hide"
    BY DEF Within
  <2>2. Connected(g, n, side)
    <3>1. PICK e \in h.edges : \/ side = "control" /\ e.kind = "control" /\ (n = e.from \/ n = e.to)
                               \/ side = "inputs" /\ e.kind = "data" /\ e.to = n
                               \/ side = "outputs" /\ e.kind = "data" /\ e.from = n
      BY ConnectedBy
    <3>2. PICK x \in g.edges : x.kind = e.kind /\ x.from = e.from /\ x.to = e.to
      BY DEF Within
    <3> QED BY <3>1, <3>2, ConnectedBy
  <2> QED BY <2>1, <2>2 DEF Sound, HiddenFree, IsOpen
<1> QED BY <1>1, <1>2 DEF Sound

\* A side that shows a port is open to edges.
LEMMA VisibleIsOpen ==
  ASSUME NEW g, Sound(g), NEW n \in NodeIds(g), NEW side \in DOMAIN AutoShow, Visible(g, n, side)
  PROVE  IsOpen(g.nodes, n, side)
BY DEF Sound, HiddenFree, Visible, IsOpen

\* One more edge, which checkConnection accepts, closes no cycle.
LEMMA OneMoreEdge ==
  ASSUME NEW g, NEW h, Sound(g), IsGraph(h), h.nodes = g.nodes,
         NEW kind, NEW a \in NodeIds(g), NEW b \in NodeIds(g),
         kind = "data" => a \notin ReachedFrom(g, b),
         IsOpen(g.nodes, a, SideOut(kind)), IsOpen(g.nodes, b, SideIn(kind)),
         \A e \in h.edges : \/ e.kind = kind /\ e.from = a /\ e.to = b
                            \/ \E x \in g.edges : x.kind = e.kind /\ x.from = e.from /\ x.to = e.to
  PROVE  Sound(h)
<1>1. Acyclic(h)
  <2> SUFFICES ASSUME NEW e \in h.edges, e.kind = "data" PROVE e.from \notin ReachedFrom(h, e.to)
    BY DEF Acyclic
  <2>1. e.to \in NodeIds(h) /\ NodeIds(h) = NodeIds(g)
    BY DEF IsGraph, EdgesIn, NodeIds
  <2> DEFINE R == ReachedFrom(g, e.to)  T == ReachedFrom(g, b)
  <2>2. e.to \in R /\ Closed(g, R) /\ b \in T /\ Closed(g, T)
    BY <2>1, Reach DEF Sound
  <2>3. CASE kind = "data" /\ a \in R
    <3>1. a \notin T
      BY <2>3
    <3>2. Closed(h, R \cup T)
      BY <2>2 DEF Closed
    <3>3. ReachedFrom(h, e.to) \subseteq R \cup T
      BY <2>1, <2>2, <3>2, Reach
    <3>4. ~(e.from = a /\ e.to = b)
      BY <2>3, <3>1
    <3>5. PICK x \in g.edges : x.kind = "data" /\ x.from = e.from /\ x.to = e.to
      BY <3>4
    <3>6. e.from \notin R
      BY <3>5 DEF Sound, Acyclic
    <3>7. e.from \notin T
      <4> SUFFICES ASSUME e.from \in T PROVE FALSE
        OBVIOUS
      <4>1. e.to \in T
        BY <2>2, <3>5 DEF Closed
      <4>2. R \subseteq T
        BY <2>1, <2>2, <4>1, Reach DEF Sound
      <4> QED BY <2>3, <3>1, <4>2
    <3> QED BY <3>3, <3>6, <3>7
  <2>4. CASE ~(kind = "data" /\ a \in R)
    <3>1. Closed(h, R)
      BY <2>2, <2>4 DEF Closed
    <3>2. ReachedFrom(h, e.to) \subseteq R
      BY <2>1, <2>2, <3>1, Reach
    <3>3. e.from \notin R
      <4>1. CASE e.kind = kind /\ e.from = a /\ e.to = b
        BY <2>4, <4>1
      <4>2. CASE \E x \in g.edges : x.kind = e.kind /\ x.from = e.from /\ x.to = e.to
        BY <4>2 DEF Sound, Acyclic
      <4> QED BY <4>1, <4>2
    <3> QED BY <3>2, <3>3
  <2> QED BY <2>3, <2>4
<1>2. HiddenFree(h)
  <2> SUFFICES ASSUME NEW n \in NodeIds(h), NEW side \in DOMAIN AutoShow,
                      Connected(h, n, side)
               PROVE  IsOpen(g.nodes, n, side)
    BY DEF HiddenFree
  <2>1. n \in NodeIds(g)
    BY DEF NodeIds
  <2>2. PICK e \in h.edges : \/ side = "control" /\ e.kind = "control" /\ (n = e.from \/ n = e.to)
                             \/ side = "inputs" /\ e.kind = "data" /\ e.to = n
                             \/ side = "outputs" /\ e.kind = "data" /\ e.from = n
    BY ConnectedBy
  <2>3. CASE e.kind = kind /\ e.from = a /\ e.to = b
    BY <2>2, <2>3 DEF SideOut, SideIn
  <2>4. CASE \E x \in g.edges : x.kind = e.kind /\ x.from = e.from /\ x.to = e.to
    <3>1. Connected(g, n, side)
      BY <2>2, <2>4, ConnectedBy
    <3> QED BY <2>1, <3>1 DEF Sound, HiddenFree
  <2> QED BY <2>3, <2>4
<1> QED BY <1>1, <1>2 DEF Sound

\* A graph with other edges, groups or node records on the same nodes.
LEMMA OtherEdges ==
  ASSUME NEW g, IsGraph(g), NEW E, E \subseteq EdgesIn(NodeIds(g))
  PROVE  LET h == [g EXCEPT !.edges = E] IN
         IsGraph(h) /\ h.nodes = g.nodes /\ h.edges = E /\ h.groups = g.groups /\ NodeIds(h) = NodeIds(g)
<1>1. PICK h : h = [g EXCEPT !.edges = E]
  OBVIOUS
<1>2. /\ h = [nodes |-> h.nodes, edges |-> h.edges, groups |-> h.groups]
      /\ h.nodes = g.nodes /\ h.edges = E /\ h.groups = g.groups
  BY <1>1 DEF IsGraph
<1>3. IsGraph(h) /\ NodeIds(h) = NodeIds(g)
  BY <1>2 DEF IsGraph, NodeIds
<1> QED BY <1>1, <1>2, <1>3

LEMMA EdgeDropped ==
  ASSUME NEW g, IsGraph(g), NEW e, NEW h, h = [g EXCEPT !.edges = @ \ {e}]
  PROVE  IsGraph(h) /\ h.nodes = g.nodes /\ h.edges = g.edges \ {e} /\ NodeIds(h) = NodeIds(g)
<1>1. PICK E : E = g.edges \ {e}
  OBVIOUS
<1>2. E \subseteq EdgesIn(NodeIds(g)) /\ h = [g EXCEPT !.edges = E]
  BY <1>1 DEF IsGraph
<1> QED BY <1>1, <1>2, OtherEdges

LEMMA OtherGroups ==
  ASSUME NEW g, IsGraph(g), NEW G, \A m \in G : m \subseteq NodeIds(g)
  PROVE  LET h == [g EXCEPT !.groups = G] IN
         IsGraph(h) /\ h.nodes = g.nodes /\ h.edges = g.edges /\ h.groups = G /\ NodeIds(h) = NodeIds(g)
<1>1. PICK h : h = [g EXCEPT !.groups = G]
  OBVIOUS
<1>2. /\ h = [nodes |-> h.nodes, edges |-> h.edges, groups |-> h.groups]
      /\ h.nodes = g.nodes /\ h.edges = g.edges /\ h.groups = G
  BY <1>1 DEF IsGraph
<1>3. IsGraph(h) /\ NodeIds(h) = NodeIds(g)
  BY <1>2 DEF IsGraph, NodeIds
<1> QED BY <1>1, <1>2, <1>3

LEMMA OtherNodes ==
  ASSUME NEW g, IsGraph(g), NEW f \in [NodeIds(g) -> Node]
  PROVE  LET h == [g EXCEPT !.nodes = f] IN
         IsGraph(h) /\ h.nodes = f /\ h.edges = g.edges /\ h.groups = g.groups /\ NodeIds(h) = NodeIds(g)
<1>1. PICK h : h = [g EXCEPT !.nodes = f]
  OBVIOUS
<1>2. /\ h = [nodes |-> h.nodes, edges |-> h.edges, groups |-> h.groups]
      /\ h.nodes = f /\ h.edges = g.edges /\ h.groups = g.groups
  BY <1>1 DEF IsGraph
<1>3. NodeIds(h) = NodeIds(g)
  BY <1>2 DEF NodeIds
<1>4. IsGraph(h)
  BY <1>2, <1>3 DEF IsGraph
<1> QED BY <1>1, <1>2, <1>3, <1>4

\* Edges taken away, edges given a route, and groups: nothing new is connected.
LEMMA FewerEdges ==
  ASSUME NEW g, Sound(g), NEW E, E \subseteq EdgesIn(NodeIds(g)),
         \A e \in E : \E x \in g.edges : x.kind = e.kind /\ x.from = e.from /\ x.to = e.to
  PROVE  Sound([g EXCEPT !.edges = E]) /\ NodeIds([g EXCEPT !.edges = E]) = NodeIds(g)
<1>1. PICK h : h = [g EXCEPT !.edges = E]
  OBVIOUS
<1>2. IsGraph(h) /\ h.nodes = g.nodes /\ h.edges = E /\ NodeIds(h) = NodeIds(g)
  BY <1>1, OtherEdges DEF Sound
<1>3. Within(h, g)
  BY <1>2 DEF Within
<1>4. Sound(h)
  BY <1>2, <1>3, WithinKeeps
<1> QED BY <1>1, <1>2, <1>4

LEMMA GroupsAreFree ==
  ASSUME NEW g, Sound(g), NEW G, \A m \in G : m \subseteq NodeIds(g)
  PROVE  Sound([g EXCEPT !.groups = G]) /\ NodeIds([g EXCEPT !.groups = G]) = NodeIds(g)
<1>1. PICK h : h = [g EXCEPT !.groups = G]
  OBVIOUS
<1>2. IsGraph(h) /\ h.nodes = g.nodes /\ h.edges = g.edges /\ NodeIds(h) = NodeIds(g)
  BY <1>1, OtherGroups DEF Sound
<1>3. Within(h, g)
  BY <1>2 DEF Within
<1>4. Sound(h)
  BY <1>2, <1>3, WithinKeeps
<1> QED BY <1>1, <1>2, <1>4

\* Node records may change as they like, as long as no connected side is hidden.
LEMMA NodesChange ==
  ASSUME NEW g, Sound(g), NEW f \in [NodeIds(g) -> Node],
         \A n \in NodeIds(g), side \in DOMAIN AutoShow :
           f[n].show[side] = "hide" => g.nodes[n].show[side] = "hide" \/ ~Connected(g, n, side)
  PROVE  Sound([g EXCEPT !.nodes = f]) /\ NodeIds([g EXCEPT !.nodes = f]) = NodeIds(g)
<1>1. PICK h : h = [g EXCEPT !.nodes = f]
  OBVIOUS
<1>2. IsGraph(h) /\ h.nodes = f /\ h.edges = g.edges /\ NodeIds(h) = NodeIds(g)
  BY <1>1, OtherNodes DEF Sound
<1>3. HiddenFree(h)
  <2>1. \A n, side : Connected(h, n, side) = Connected(g, n, side)
    BY <1>2 DEF Connected
  <2> QED BY <1>2, <2>1 DEF HiddenFree, IsOpen, Sound
<1>4. Acyclic(h)
  <2> SUFFICES ASSUME NEW e \in h.edges, e.kind = "data" PROVE e.from \notin ReachedFrom(h, e.to)
    BY DEF Acyclic
  <2>1. e.to \in NodeIds(g) /\ e.from \notin ReachedFrom(g, e.to)
    BY <1>2 DEF Sound, IsGraph, EdgesIn, Acyclic
  <2>2. e.to \in ReachedFrom(g, e.to) /\ Closed(g, ReachedFrom(g, e.to))
    BY <2>1, Reach DEF Sound
  <2>3. Closed(h, ReachedFrom(g, e.to))
    BY <1>2, <2>2 DEF Closed
  <2> QED BY <1>2, <2>1, <2>2, <2>3, Reach
<1> QED BY <1>1, <1>2, <1>3, <1>4 DEF Sound

\* A part of a graph: some of its nodes, and what lies among them.
LEMMA PartOfGraph ==
  ASSUME NEW g, Sound(g), NEW S \in SUBSET NodeIds(g), NEW h,
         h = [nodes |-> [n \in S |-> g.nodes[n]],
              edges |-> {e \in g.edges : e.from \in S /\ e.to \in S},
              groups |-> {m \in {m \cap S : m \in g.groups} : m # {}}]
  PROVE  Sound(h) /\ NodeIds(h) = S
<1>1. /\ h.nodes = [n \in S |-> g.nodes[n]]
      /\ h.edges = {e \in g.edges : e.from \in S /\ e.to \in S}
      /\ h.groups = {m \in {m \cap S : m \in g.groups} : m # {}}
      /\ h = [nodes |-> h.nodes, edges |-> h.edges, groups |-> h.groups]
      /\ NodeIds(h) = S
  BY DEF NodeIds
<1>2. IsGraph(h)
  <2>1. h.nodes \in [S -> Node] /\ S \subseteq Names /\ IsFiniteSet(S)
    BY <1>1, FS_Subset DEF Sound, IsGraph
  <2>2. h.edges \subseteq EdgesIn(S)
    BY <1>1 DEF Sound, IsGraph, EdgesIn
  <2>3. \A m \in h.groups : m \subseteq S
    BY <1>1
  <2> QED BY <1>1, <2>1, <2>2, <2>3 DEF IsGraph
<1>3. Within(h, g)
  BY <1>1 DEF Within
<1> QED BY <1>1, <1>2, <1>3, WithinKeeps

-----------------------------------------------------------------------------
(* The canvas: copies of nodes.                                              *)

\* Some copy number is free, so a copy's name is new.
LEMMA CopyIsNew ==
  ASSUME NEW g, IsGraph(g), NEW n \in Names
  PROVE  /\ \E k \in Nat : CopyOf(g, n) = n \o <<k>> /\ n \o <<k>> \notin NodeIds(g)
         /\ CopyOf(g, n) \in Names /\ Root(CopyOf(g, n)) = Root(n)
<1> DEFINE N == Cardinality(NodeIds(g))
           T == {k \in 1..N + 1 : n \o <<k>> \notin NodeIds(g)}
<1>1. N \in Nat /\ IsFiniteSet(NodeIds(g))
  BY FS_CardinalityType DEF IsGraph
<1> HIDE DEF N
<1>2. T # {}
  <2> SUFFICES ASSUME T = {} PROVE FALSE
    OBVIOUS
  <2> DEFINE f == [k \in 1..N + 1 |-> n \o <<k>>]
  <2>1. f \in [1..N + 1 -> NodeIds(g)]
    OBVIOUS
  <2>2. \A k \in 1..N + 1 : f[k][Len(n) + 1] = k
    BY <1>1 DEF Names
  <2>3. f \in Injection(1..N + 1, NodeIds(g))
    BY <2>1, <2>2 DEF Injection, IsInjective
  <2>4. Cardinality(1..N + 1) <= N
    BY <1>1, <2>3, FS_Injection DEF N
  <2>5. Cardinality(1..N + 1) = N + 1
    <3>1. 1 \in Int /\ N + 1 \in Int /\ ~(1 > N + 1)
      BY <1>1
    <3> QED BY <1>1, <3>1, FS_Interval
  <2> QED BY <1>1, <2>4, <2>5
<1>3. T \subseteq Nat
  BY <1>1
<1> HIDE DEF T
<1>4. PICK k \in T : \A j \in T : k <= j
  BY <1>2, <1>3, LeastNumber
<1>5. k \in 1..N + 1 /\ n \o <<k>> \notin NodeIds(g) /\ \A j \in 1..(k - 1) : n \o <<j>> \in NodeIds(g)
  <2>1. k \in 1..N + 1 /\ n \o <<k>> \notin NodeIds(g)
    BY <1>4 DEF T
  <2>2. ASSUME NEW j \in 1..(k - 1) PROVE n \o <<j>> \in NodeIds(g)
    <3>1. j \in 1..N + 1 /\ ~(k <= j)
      BY <1>1, <2>1
    <3> QED BY <1>4, <3>1 DEF T
  <2> QED BY <2>1, <2>2
<1> DEFINE c == CHOOSE i \in 1..N + 1 : n \o <<i>> \notin NodeIds(g) /\ \A j \in 1..(i - 1) : n \o <<j>> \in NodeIds(g)
<1>6. c \in 1..N + 1 /\ n \o <<c>> \notin NodeIds(g)
  BY <1>5
<1>7. CopyOf(g, n) = n \o <<c>>
  BY DEF CopyOf, N
<1> HIDE DEF c
<1>8. c \in Nat /\ n \in Seq(Nat) /\ Len(n) \in Nat \ {0}
  <2>1. n \in Seq(Nat) /\ n # <<>>
    BY DEF Names
  <2>2. Len(n) \in Nat \ {0}
    BY <2>1, EmptySeq, LenProperties
  <2> QED BY <1>1, <1>6, <2>1, <2>2
<1>9. n \o <<c>> \in Seq(Nat) /\ Len(n \o <<c>>) = Len(n) + 1 /\ (n \o <<c>>)[1] = n[1]
  BY <1>8
<1>10. n \o <<c>> # <<>>
  BY <1>8, <1>9, EmptySeq
<1> QED BY <1>6, <1>7, <1>8, <1>9, <1>10 DEF Names, Root

LEMMA CopiesDiffer ==
  ASSUME NEW g, IsGraph(g), NEW n \in Names, NEW m \in Names, CopyOf(g, n) = CopyOf(g, m)
  PROVE  n = m
<1>1. PICK k \in Nat : CopyOf(g, n) = n \o <<k>>
  BY CopyIsNew
<1>2. PICK j \in Nat : CopyOf(g, m) = m \o <<j>>
  BY CopyIsNew
<1>3. n \o <<k>> = m \o <<j>> /\ <<k>> \in Seq(Nat) /\ <<j>> \in Seq(Nat)
  <2>1. n \o <<k>> = m \o <<j>>
    BY <1>1, <1>2, Zenon
  <2> QED BY <2>1
<1>4. Len(n) = Len(m)
  BY <1>3 DEF Names
<1>5. \A i \in 1..Len(n) : n[i] = (n \o <<k>>)[i]
  BY <1>3 DEF Names
<1>6. \A i \in 1..Len(n) : m[i] = (m \o <<j>>)[i]
  BY <1>3, <1>4 DEF Names
<1>7. \A i \in 1..Len(n) : n[i] = m[i]
  BY <1>3, <1>5, <1>6
<1> QED BY <1>4, <1>7, SeqEqual DEF Names

\* The names of the copies of D.
Copies(g, D) == {CopyOf(g, n) : n \in D}
LEMMA CopiesAreNew ==
  ASSUME NEW g, IsGraph(g), NEW D, D \subseteq Names, IsFiniteSet(D)
  PROVE  /\ Copies(g, D) \subseteq Names /\ IsFiniteSet(Copies(g, D))
         /\ Copies(g, D) \cap NodeIds(g) = {}
<1>1. ASSUME NEW n \in D PROVE CopyOf(g, n) \in Names /\ CopyOf(g, n) \notin NodeIds(g)
  BY CopyIsNew
<1>2. IsFiniteSet(Copies(g, D))
  <2> DEFINE f == [n \in D |-> CopyOf(g, n)]
  <2>1. f \in Surjection(D, Copies(g, D))
    BY DEF Surjection, Copies
  <2> QED BY <2>1, FS_Surjection
<1> QED BY <1>1, <1>2 DEF Copies

-----------------------------------------------------------------------------
(* The canvas: a fragment in a graph.                                        *)

\* A fragment is a graph of its own, with edges that lead into it.
Inside(frag) == [nodes |-> frag.nodes, edges |-> frag.edges, groups |-> frag.groups]
IsFragment(frag) == Sound(Inside(frag)) /\ frag.incoming \subseteq EdgesIn(Names)

LEMMA InsideOf ==
  ASSUME NEW frag, IsFragment(frag)
  PROVE  /\ Inside(frag).nodes = frag.nodes /\ Inside(frag).edges = frag.edges /\ Inside(frag).groups = frag.groups
         /\ NodeIds(Inside(frag)) = DOMAIN frag.nodes
         /\ frag.nodes \in [DOMAIN frag.nodes -> Node] /\ DOMAIN frag.nodes \subseteq Names
         /\ IsFiniteSet(DOMAIN frag.nodes) /\ frag.edges \subseteq EdgesIn(DOMAIN frag.nodes)
         /\ \A m \in frag.groups : m \subseteq DOMAIN frag.nodes
<1>1. /\ Inside(frag).nodes = frag.nodes /\ Inside(frag).edges = frag.edges /\ Inside(frag).groups = frag.groups
      /\ NodeIds(Inside(frag)) = DOMAIN frag.nodes
  BY DEF Inside, NodeIds
<1>2. IsGraph(Inside(frag))
  BY DEF IsFragment, Sound
<1>3. /\ Inside(frag).nodes \in [NodeIds(Inside(frag)) -> Node] /\ NodeIds(Inside(frag)) \subseteq Names
      /\ IsFiniteSet(NodeIds(Inside(frag))) /\ Inside(frag).edges \subseteq EdgesIn(NodeIds(Inside(frag)))
      /\ \A m \in Inside(frag).groups : m \subseteq NodeIds(Inside(frag))
  BY <1>2 DEF IsGraph
<1> QED BY <1>1, <1>3

\* The edges of a fragment, renamed.
LEMMA PastedEdge ==
  ASSUME NEW g, NEW frag, NEW E, E \subseteq EdgesIn(Names)
  PROVE  /\ \A x \in PastedEdges(g, frag, E) : \E e \in E :
              /\ x = [kind |-> e.kind, from |-> PastedName(g, frag, e.from),
                      to |-> PastedName(g, frag, e.to), routed |-> e.routed]
              /\ x.kind = e.kind /\ x.from = PastedName(g, frag, e.from) /\ x.to = PastedName(g, frag, e.to)
              /\ x.routed = e.routed
         /\ \A e \in E : \E x \in PastedEdges(g, frag, E) :
              x.kind = e.kind /\ x.from = PastedName(g, frag, e.from) /\ x.to = PastedName(g, frag, e.to)
<1>1. ASSUME NEW e \in E
      PROVE  [e EXCEPT !.from = PastedName(g, frag, @), !.to = PastedName(g, frag, @)]
               = [kind |-> e.kind, from |-> PastedName(g, frag, e.from),
                  to |-> PastedName(g, frag, e.to), routed |-> e.routed]
  <2>1. e \in [kind : Kinds, from : Names, to : Names, routed : BOOLEAN]
    BY DEF EdgesIn
  <2>2. e = [kind |-> e.kind, from |-> e.from, to |-> e.to, routed |-> e.routed]
    BY <2>1
  <2>3. PICK u, v : u = PastedName(g, frag, e.from) /\ v = PastedName(g, frag, e.to)
    OBVIOUS
  <2>4. [e EXCEPT !.from = u, !.to = v] = [kind |-> e.kind, from |-> u, to |-> v, routed |-> e.routed]
    <3>1. PICK y : y = [e EXCEPT !.from = u]
      OBVIOUS
    <3>2. y = [kind |-> e.kind, from |-> u, to |-> e.to, routed |-> e.routed]
      BY <2>1, <3>1
    <3>3. PICK z : z = [y EXCEPT !.to = v]
      OBVIOUS
    <3>4. z = [kind |-> e.kind, from |-> u, to |-> v, routed |-> e.routed]
      BY <3>2, <3>3
    <3> QED BY <3>1, <3>3, <3>4
  <2>5. [e EXCEPT !.from = PastedName(g, frag, @), !.to = PastedName(g, frag, @)] = [e EXCEPT !.from = u, !.to = v]
    BY <2>2, <2>3
  <2> QED BY <2>3, <2>4, <2>5
<1> QED BY <1>1 DEF PastedEdges

\* The nodes and edges of the graph with a fragment.
LEMMA WithFragmentOf ==
  ASSUME NEW g, IsGraph(g), NEW frag, IsFragment(frag),
         NEW h, h = WithFragment(g, frag), NEW D, D = DOMAIN frag.nodes
  PROVE  /\ IsGraph(h) /\ NodeIds(h) = NodeIds(g) \cup Copies(g, D)
         /\ \A n \in NodeIds(g) : h.nodes[n] = g.nodes[n]
         /\ \A n \in D : h.nodes[CopyOf(g, n)] = frag.nodes[n]
         /\ \A x \in h.edges : x \in g.edges \/ \E e \in frag.edges : x.kind = e.kind /\ x.from = CopyOf(g, e.from) /\ x.to = CopyOf(g, e.to)
         /\ h.groups = g.groups
<1> DEFINE C == Copies(g, D)
           origin(m) == CHOOSE n \in D : CopyOf(g, n) = m
<1>1. /\ D \subseteq Names /\ IsFiniteSet(D) /\ frag.nodes \in [D -> Node]
      /\ frag.edges \subseteq EdgesIn(D) /\ frag.edges \subseteq EdgesIn(Names)
  BY InsideOf DEF EdgesIn
<1>2. C \subseteq Names /\ IsFiniteSet(C) /\ C \cap NodeIds(g) = {}
  BY <1>1, CopiesAreNew
<1>3. /\ h.nodes = [m \in NodeIds(g) \cup C |-> IF m \in C THEN frag.nodes[origin(m)] ELSE g.nodes[m]]
      /\ h.edges = g.edges \cup PastedEdges(g, frag, frag.edges) /\ h.groups = g.groups
      /\ h = [nodes |-> h.nodes, edges |-> h.edges, groups |-> h.groups]
  BY DEF WithFragment, Copies
<1>4. NodeIds(h) = NodeIds(g) \cup C
  BY <1>3 DEF NodeIds
<1>5. ASSUME NEW n \in D PROVE CopyOf(g, n) \in C /\ origin(CopyOf(g, n)) = n
  <2>1. \A m \in D : CopyOf(g, m) = CopyOf(g, n) => m = n
    BY <1>1, CopiesDiffer
  <2> QED BY <2>1 DEF Copies
<1>6. \A m \in C : origin(m) \in D
  BY <1>5 DEF Copies
<1> HIDE DEF origin
<1>7. \A n \in NodeIds(g) : h.nodes[n] = g.nodes[n]
  BY <1>2, <1>3
<1>8. \A n \in D : h.nodes[CopyOf(g, n)] = frag.nodes[n]
  BY <1>3, <1>5
<1>9. h.nodes \in [NodeIds(h) -> Node]
  <2>1. \A m \in NodeIds(h) : h.nodes[m] \in Node
    BY <1>1, <1>3, <1>4, <1>6 DEF IsGraph
  <2> QED BY <1>3, <1>4, <2>1
<1>10. ASSUME NEW x \in PastedEdges(g, frag, frag.edges)
       PROVE  /\ x \in EdgesIn(NodeIds(h))
              /\ \E e \in frag.edges : x.kind = e.kind /\ x.from = CopyOf(g, e.from) /\ x.to = CopyOf(g, e.to)
  <2>1. PICK e \in frag.edges :
              /\ x = [kind |-> e.kind, from |-> PastedName(g, frag, e.from),
                      to |-> PastedName(g, frag, e.to), routed |-> e.routed]
              /\ x.kind = e.kind /\ x.from = PastedName(g, frag, e.from) /\ x.to = PastedName(g, frag, e.to)
              /\ x.routed = e.routed
    BY <1>1, PastedEdge
  <2>2. e.from \in D /\ e.to \in D /\ e.kind \in Kinds /\ e.routed \in BOOLEAN
    BY <1>1 DEF EdgesIn
  <2>3. PastedName(g, frag, e.from) = CopyOf(g, e.from) /\ PastedName(g, frag, e.to) = CopyOf(g, e.to)
    BY <2>2 DEF PastedName
  <2>4. CopyOf(g, e.from) \in NodeIds(h) /\ CopyOf(g, e.to) \in NodeIds(h)
    BY <1>4, <1>5, <2>2
  <2> QED BY <2>1, <2>2, <2>3, <2>4 DEF EdgesIn
<1>11. h.edges \subseteq EdgesIn(NodeIds(h))
  <2>1. g.edges \subseteq EdgesIn(NodeIds(h))
    BY <1>4 DEF IsGraph, EdgesIn
  <2> QED BY <1>3, <1>10, <2>1
<1>12. IsFiniteSet(NodeIds(h)) /\ NodeIds(h) \subseteq Names
  <2>1. IsFiniteSet(NodeIds(g) \cup C)
    BY <1>2, FS_Union DEF IsGraph
  <2> QED BY <1>2, <1>4, <2>1 DEF IsGraph
<1>13. \A m \in h.groups : m \subseteq NodeIds(h)
  BY <1>3, <1>4 DEF IsGraph
<1>14. IsGraph(h)
  BY <1>3, <1>9, <1>11, <1>12, <1>13 DEF IsGraph
<1> QED BY <1>3, <1>4, <1>7, <1>8, <1>10, <1>14

\* Copied nodes are apart from the graph, so nothing closes a cycle or ends at a hidden port.
LEMMA WithFragmentKeeps ==
  ASSUME NEW g, Sound(g), NEW frag, IsFragment(frag), NEW h, h = WithFragment(g, frag)
  PROVE  Sound(h)
<1> DEFINE D == DOMAIN frag.nodes  f == Inside(frag)
<1>1. /\ IsGraph(h) /\ NodeIds(h) = NodeIds(g) \cup Copies(g, D)
      /\ \A n \in NodeIds(g) : h.nodes[n] = g.nodes[n]
      /\ \A n \in D : h.nodes[CopyOf(g, n)] = frag.nodes[n]
      /\ \A x \in h.edges : x \in g.edges \/ \E e \in frag.edges : x.kind = e.kind /\ x.from = CopyOf(g, e.from) /\ x.to = CopyOf(g, e.to)
  BY WithFragmentOf DEF Sound
<1>2. /\ IsGraph(g) /\ Acyclic(g) /\ HiddenFree(g) /\ IsGraph(f) /\ Acyclic(f) /\ HiddenFree(f)
      /\ f.nodes = frag.nodes /\ f.edges = frag.edges /\ NodeIds(f) = D /\ D \subseteq Names /\ IsFiniteSet(D)
  BY InsideOf DEF Sound, IsFragment
<1> HIDE DEF D, f
<1>3. Copies(g, D) \cap NodeIds(g) = {}
  BY <1>2, CopiesAreNew
<1>4. \A n, m \in D : CopyOf(g, n) = CopyOf(g, m) => n = m
  BY <1>2, CopiesDiffer
<1>5. /\ \A e \in g.edges : e.from \in NodeIds(g) /\ e.to \in NodeIds(g)
      /\ \A e \in frag.edges : e.from \in D /\ e.to \in D
      /\ \A x \in h.edges : x.from \in NodeIds(h) /\ x.to \in NodeIds(h)
  BY <1>1, <1>2 DEF IsGraph, EdgesIn
<1>6. \A n \in D : CopyOf(g, n) \in Copies(g, D)
  BY DEF Copies
<1>7. ASSUME NEW x \in h.edges, x.kind = "data" PROVE x.from \notin ReachedFrom(h, x.to)
  <2>1. CASE x \in g.edges
    <3> DEFINE R == ReachedFrom(g, x.to)
    <3>1. x.to \in R /\ R \in SUBSET NodeIds(g) /\ Closed(g, R) /\ x.from \notin R
      BY <1>2, <1>5, <1>7, <2>1, Reach DEF Acyclic
    <3> HIDE DEF R
    <3>2. Closed(h, R)
      <4> SUFFICES ASSUME NEW y \in h.edges, y.kind = "data", y.from \in R PROVE y.to \in R
        BY DEF Closed
      <4>1. y \in g.edges
        BY <1>1, <1>3, <1>5, <1>6, <3>1
      <4> QED BY <3>1, <4>1 DEF Closed
    <3>3. ReachedFrom(h, x.to) \subseteq R
      BY <1>1, <1>5, <3>1, <3>2, Reach
    <3> QED BY <3>1, <3>3
  <2>2. ASSUME NEW e \in frag.edges, x.kind = e.kind, x.from = CopyOf(g, e.from), x.to = CopyOf(g, e.to)
        PROVE  x.from \notin ReachedFrom(h, x.to)
    <3> DEFINE R == ReachedFrom(f, e.to)
    <3>1. e.to \in R /\ R \in SUBSET D /\ Closed(f, R) /\ e.from \notin R
      BY <1>2, <1>5, <1>7, <2>2, Reach DEF Acyclic
    <3> HIDE DEF R
    <3> DEFINE I == Copies(g, R)
    <3>2. x.to \in I
      BY <2>2, <3>1 DEF Copies
    <3>3. x.from \notin I
      <4> SUFFICES ASSUME x.from \in I PROVE FALSE
        OBVIOUS
      <4>1. PICK n \in R : CopyOf(g, e.from) = CopyOf(g, n)
        BY <2>2 DEF Copies
      <4>2. e.from = n
        BY <1>4, <1>5, <3>1, <4>1
      <4> QED BY <3>1, <4>2
    <3>4. Closed(h, I)
      <4> SUFFICES ASSUME NEW y \in h.edges, y.kind = "data", y.from \in I PROVE y.to \in I
        BY DEF Closed
      <4>1. I \subseteq Copies(g, D)
        BY <3>1 DEF Copies
      <4>2. y \notin g.edges
        BY <1>3, <1>5, <4>1
      <4>3. PICK z \in frag.edges : y.kind = z.kind /\ y.from = CopyOf(g, z.from) /\ y.to = CopyOf(g, z.to)
        BY <1>1, <4>2
      <4>4. PICK n \in R : CopyOf(g, z.from) = CopyOf(g, n)
        BY <4>3 DEF Copies
      <4>5. z.from = n
        BY <1>4, <1>5, <3>1, <4>4
      <4>6. z.to \in R
        BY <1>2, <3>1, <4>3, <4>5 DEF Closed
      <4> QED BY <4>3, <4>6 DEF Copies
    <3>5. ReachedFrom(h, x.to) \subseteq I
      BY <1>1, <1>5, <3>2, <3>4, Reach
    <3> QED BY <3>3, <3>5
  <2> QED BY <1>1, <2>1, <2>2
<1>8. HiddenFree(h)
  <2> SUFFICES ASSUME NEW n \in NodeIds(h), NEW side \in DOMAIN AutoShow, Connected(h, n, side)
               PROVE  IsOpen(h.nodes, n, side)
    BY DEF HiddenFree
  <2>1. PICK x \in h.edges : \/ side = "control" /\ x.kind = "control" /\ (n = x.from \/ n = x.to)
                             \/ side = "inputs" /\ x.kind = "data" /\ x.to = n
                             \/ side = "outputs" /\ x.kind = "data" /\ x.from = n
    BY ConnectedBy
  <2>2. CASE n \in NodeIds(g)
    <3>1. x \in g.edges
      BY <1>1, <1>3, <1>5, <1>6, <2>1, <2>2
    <3>2. Connected(g, n, side)
      BY <2>1, <3>1, ConnectedBy
    <3>3. IsOpen(g.nodes, n, side) /\ h.nodes[n] = g.nodes[n]
      BY <1>1, <1>2, <2>2, <3>2 DEF HiddenFree
    <3> QED BY <3>3 DEF IsOpen
  <2>3. ASSUME NEW m \in D, n = CopyOf(g, m) PROVE IsOpen(h.nodes, n, side)
    <3>1. x \notin g.edges
      BY <1>3, <1>5, <1>6, <2>1, <2>3
    <3>2. PICK e \in frag.edges : x.kind = e.kind /\ x.from = CopyOf(g, e.from) /\ x.to = CopyOf(g, e.to)
      BY <1>1, <3>1
    <3>3. (n = x.from => m = e.from) /\ (n = x.to => m = e.to)
      BY <1>4, <1>5, <2>3, <3>2
    <3>4. Connected(f, m, side)
      BY <1>2, <2>1, <3>2, <3>3, ConnectedBy
    <3>5. IsOpen(f.nodes, m, side)
      BY <1>2, <3>4 DEF HiddenFree
    <3>6. h.nodes[n] = f.nodes[m]
      BY <1>1, <1>2, <2>3
    <3>7. Root(n) = Root(m)
      BY <1>2, <2>3, CopyIsNew
    <3> QED BY <3>5, <3>6, <3>7 DEF IsOpen, Brought
  <2> QED BY <1>1, <2>2, <2>3 DEF Copies
<1> QED BY <1>1, <1>7, <1>8 DEF Sound, Acyclic

\* Edges between sides that are open make no others connected.
LEMMA OpenEndsOnly ==
  ASSUME NEW g, HiddenFree(g), NEW h, h.nodes = g.nodes, NEW O, h.edges = g.edges \cup O, O \subseteq EdgesIn(NodeIds(g)),
         \A e \in O : IsOpen(g.nodes, e.from, SideOut(e.kind)) /\ IsOpen(g.nodes, e.to, SideIn(e.kind))
  PROVE  HiddenFree(h)
<1> SUFFICES ASSUME NEW n \in NodeIds(h), NEW side \in DOMAIN AutoShow, Connected(h, n, side)
             PROVE  IsOpen(g.nodes, n, side)
  BY DEF HiddenFree
<1>1. n \in NodeIds(g)
  BY DEF NodeIds
<1>2. PICK e \in h.edges : \/ side = "control" /\ e.kind = "control" /\ (n = e.from \/ n = e.to)
                           \/ side = "inputs" /\ e.kind = "data" /\ e.to = n
                           \/ side = "outputs" /\ e.kind = "data" /\ e.from = n
  BY ConnectedBy
<1>3. CASE e \in O
  <2>1. IsOpen(g.nodes, e.from, SideOut(e.kind)) /\ IsOpen(g.nodes, e.to, SideIn(e.kind))
    BY <1>3
  <2> QED BY <1>2, <2>1 DEF SideOut, SideIn
<1>4. CASE e \in g.edges
  <2>1. Connected(g, n, side)
    BY <1>2, <1>4, ConnectedBy
  <2> QED BY <1>1, <2>1 DEF HiddenFree
<1> QED BY <1>3, <1>4

\* Without the edge, nothing leads from where it ends back to where it starts.
Apart(g, e) == e.from \notin ReachedFrom([g EXCEPT !.edges = @ \ {e}], e.to)
LEMMA ApartFrom ==
  ASSUME NEW g, IsGraph(g), NEW e, Apart(g, e)
  PROVE  \E w : /\ IsGraph(w) /\ w.edges = g.edges \ {e} /\ NodeIds(w) = NodeIds(g)
               /\ e.from \notin ReachedFrom(w, e.to)
<1>1. PICK w : w = [g EXCEPT !.edges = @ \ {e}]
  OBVIOUS
<1> QED BY <1>1, EdgeDropped DEF Apart

\* Edges that are each accepted beside all the others close no cycle together.
LEMMA MoreEdges ==
  ASSUME NEW g, Sound(g), NEW O, O \subseteq EdgesIn(NodeIds(g)), NEW h, h = [g EXCEPT !.edges = @ \cup O],
         \A e \in O : e.kind = "data" => Apart(h, e),
         \A e \in O : IsOpen(g.nodes, e.from, SideOut(e.kind)) /\ IsOpen(g.nodes, e.to, SideIn(e.kind))
  PROVE  Sound(h) /\ NodeIds(h) = NodeIds(g)
<1>1. g.edges \cup O \subseteq EdgesIn(NodeIds(g))
  BY DEF Sound, IsGraph
<1>2. IsGraph(h) /\ h.nodes = g.nodes /\ h.edges = g.edges \cup O /\ NodeIds(h) = NodeIds(g)
  BY <1>1, OtherEdges DEF Sound
<1>3. \A x \in h.edges : x.from \in NodeIds(h) /\ x.to \in NodeIds(h)
  BY <1>2 DEF IsGraph, EdgesIn
<1> DEFINE R(n) == ReachedFrom(h, n)
<1>4. ASSUME NEW n \in NodeIds(h)
      PROVE  /\ n \in R(n) /\ R(n) \in SUBSET NodeIds(h) /\ Closed(h, R(n))
             /\ \A S : Closed(h, S) /\ n \in S => R(n) \subseteq S
  BY <1>2, Reach
<1>5. ASSUME NEW n \in NodeIds(h), NEW m \in R(n) PROVE R(m) \subseteq R(n)
  BY <1>4
<1> HIDE DEF R
<1>6. ASSUME NEW e \in O, e.kind = "data" PROVE e.from \notin R(e.to)
  <2>3. PICK w : /\ IsGraph(w) /\ w.edges = h.edges \ {e} /\ NodeIds(w) = NodeIds(h)
                 /\ e.from \notin ReachedFrom(w, e.to)
    BY <1>2, <1>6, ApartFrom
  <2> DEFINE T == ReachedFrom(w, e.to)
  <2>4. e.to \in NodeIds(h)
    BY <1>2, <1>3
  <2>5. e.to \in T /\ Closed(w, T)
    BY <2>3, <2>4, Reach
  <2>6. e.from \notin T
    BY <2>3
  <2> HIDE DEF T
  <2>7. Closed(h, T)
    BY <2>3, <2>5, <2>6 DEF Closed
  <2> QED BY <1>4, <2>4, <2>5, <2>6, <2>7
<1>7. ASSUME NEW x \in g.edges, x.kind = "data" PROVE x.from \notin R(x.to)
  <2> SUFFICES ASSUME x.from \in R(x.to) PROVE FALSE
    OBVIOUS
  <2> DEFINE a == x.from  b == x.to  I == ReachedFrom(g, b)
             Z == I \cup {y \in R(b) : a \notin R(y)}
  <2>1. a \in NodeIds(h) /\ b \in NodeIds(h) /\ NodeIds(h) = NodeIds(g)
    BY <1>2, <1>3
  <2>2. b \in I /\ I \in SUBSET NodeIds(g) /\ Closed(g, I) /\ a \notin I
    BY <1>7, <2>1, Reach DEF Sound, Acyclic
  <2>3. b \in R(a)
    BY <1>2, <1>4, <1>7, <2>1 DEF Closed
  <2>4. R(b) \in SUBSET NodeIds(h) /\ Closed(h, R(b))
    BY <1>4, <2>1
  <2> HIDE DEF a, b, I
  <2>5. I \subseteq R(b)
    <3>1. Closed(g, R(b))
      BY <1>2, <2>4 DEF Closed
    <3>2. \A S : Closed(g, S) /\ b \in S => I \subseteq S
      BY <2>1, Reach DEF Sound, I
    <3> QED BY <1>4, <2>1, <3>1, <3>2
  <2>6. Closed(h, Z)
    <3> SUFFICES ASSUME NEW y \in h.edges, y.kind = "data", y.from \in Z PROVE y.to \in Z
      BY DEF Closed
    <3>1. y.from \in R(b) /\ y.to \in R(b) /\ y.from \in NodeIds(h) /\ y.to \in NodeIds(h)
      BY <1>3, <2>4, <2>5 DEF Closed
    <3>2. CASE a \notin R(y.to)
      BY <3>1, <3>2
    <3>3. CASE a \in R(y.to)
      <4>1. y.to \in R(y.from)
        BY <1>4, <3>1 DEF Closed
      <4>2. a \in R(y.from)
        BY <1>5, <3>1, <3>3, <4>1
      <4>3. y.from \in I
        BY <4>2
      <4>4. y \notin O
        <5> SUFFICES ASSUME y \in O PROVE FALSE
          OBVIOUS
        <5>1. R(a) \subseteq R(y.to) /\ R(b) \subseteq R(a)
          BY <1>5, <2>1, <2>3, <3>1, <3>3
        <5>2. y.from \in R(y.to)
          BY <3>1, <5>1
        <5> QED BY <1>6, <5>2
      <4>5. y \in g.edges
        BY <1>2, <4>4
      <4> QED BY <2>2, <4>3, <4>5 DEF Closed
    <3> QED BY <3>2, <3>3
  <2>7. R(b) \subseteq Z
    <3>1. b \in Z
      BY <2>2
    <3> HIDE DEF Z
    <3> QED BY <1>4, <2>1, <2>6, <3>1
  <2>8. a \in Z
    BY <2>7 DEF a, b
  <2>9. a \in R(a)
    BY <1>4, <2>1
  <2> QED BY <2>2, <2>8, <2>9
<1>8. Acyclic(h)
  BY <1>2, <1>6, <1>7 DEF Acyclic, R
<1>9. HiddenFree(h)
  BY <1>2, OpenEndsOnly DEF Sound
<1> QED BY <1>2, <1>8, <1>9 DEF Sound

\* A paste is refused or makes a sound graph of the old nodes and the copies.
LEMMA PasteKeeps ==
  ASSUME NEW g, Sound(g), NEW frag, IsFragment(frag), NEW incoming \in BOOLEAN, NEW h,
         h = Pasted(g, frag, incoming), h # Nil
  PROVE  Sound(h) /\ NodeIds(g) \subseteq NodeIds(h)
<1> DEFINE inner == WithFragment(g, frag)
           outer == IF incoming THEN PastedEdges(g, frag, frag.incoming) ELSE {}
           whole == [inner EXCEPT !.edges = @ \cup outer]
           named == {{CopyOf(g, n) : n \in m} : m \in frag.groups}
<1>1. /\ h = [whole EXCEPT !.groups = @ \cup named]
      /\ \A e \in outer :
           /\ MayConnect(whole, e.kind, e.from, e.to, {e}, TRUE)
           /\ Visible(inner, e.from, SideOut(e.kind)) /\ Visible(inner, e.to, SideIn(e.kind))
  BY DEF Pasted
<1>2. /\ NodeIds(inner) = NodeIds(g) \cup Copies(g, DOMAIN frag.nodes)
      /\ inner.groups = g.groups /\ IsGraph(inner)
  BY WithFragmentOf DEF Sound
<1>3. Sound(inner)
  BY WithFragmentKeeps
<1>4. whole.edges = inner.edges \cup outer /\ whole.nodes = inner.nodes /\ whole.groups = inner.groups
      /\ NodeIds(whole) = NodeIds(inner)
  <2>1. inner = [nodes |-> inner.nodes, edges |-> inner.edges, groups |-> inner.groups]
    BY <1>2 DEF IsGraph
  <2> HIDE DEF inner, outer
  <2> QED BY <2>1 DEF NodeIds
<1>5. \A e \in outer : e.kind \in Kinds /\ e.routed \in BOOLEAN
                       /\ e = [kind |-> e.kind, from |-> e.from, to |-> e.to, routed |-> e.routed]
  <2> SUFFICES ASSUME incoming PROVE \A e \in PastedEdges(g, frag, frag.incoming) :
                       e.kind \in Kinds /\ e.routed \in BOOLEAN
                       /\ e = [kind |-> e.kind, from |-> e.from, to |-> e.to, routed |-> e.routed]
    OBVIOUS
  <2>1. frag.incoming \subseteq EdgesIn(Names)
    BY DEF IsFragment
  <2> QED BY <2>1, PastedEdge DEF EdgesIn
<1> HIDE DEF inner, outer, named
<1>6. ASSUME NEW e \in outer
      PROVE  /\ e.from \in NodeIds(inner) /\ e.to \in NodeIds(inner)
             /\ e.kind = "data" => Apart(whole, e)
  <2>1. PICK w : w = [whole EXCEPT !.edges = @ \ {e}]
    OBVIOUS
  <2>2. NodeIds(w) = NodeIds(inner)
    <3>1. w.nodes = whole.nodes
      BY <1>2, <2>1 DEF IsGraph
    <3> QED BY <1>4, <3>1 DEF NodeIds
  <2>3. MayConnect(whole, e.kind, e.from, e.to, {e}, TRUE)
    BY <1>1
  <2> HIDE DEF whole
  <2> QED BY <2>1, <2>2, <2>3 DEF MayConnect, Apart
<1>7. outer \subseteq EdgesIn(NodeIds(inner))
  <2> SUFFICES ASSUME NEW e \in outer PROVE e \in EdgesIn(NodeIds(inner))
    OBVIOUS
  <2>1. PICK a, b, k, r : e = [kind |-> k, from |-> a, to |-> b, routed |-> r]
                          /\ k = e.kind /\ a = e.from /\ b = e.to /\ r = e.routed
    BY <1>5
  <2> QED BY <1>5, <1>6, <2>1 DEF EdgesIn
<1>8. \A e \in outer : IsOpen(inner.nodes, e.from, SideOut(e.kind)) /\ IsOpen(inner.nodes, e.to, SideIn(e.kind))
  <2> SUFFICES ASSUME NEW e \in outer
               PROVE  IsOpen(inner.nodes, e.from, SideOut(e.kind)) /\ IsOpen(inner.nodes, e.to, SideIn(e.kind))
    OBVIOUS
  <2>1. e.from \in NodeIds(inner) /\ Visible(inner, e.from, SideOut(e.kind)) /\ SideOut(e.kind) \in DOMAIN AutoShow
    BY <1>1, <1>6, SidesOf
  <2>2. e.to \in NodeIds(inner) /\ Visible(inner, e.to, SideIn(e.kind)) /\ SideIn(e.kind) \in DOMAIN AutoShow
    BY <1>1, <1>6, SidesOf
  <2> QED BY <1>3, <2>1, <2>2, VisibleIsOpen
<1>9. Sound(whole) /\ NodeIds(whole) = NodeIds(inner)
  BY <1>3, <1>6, <1>7, <1>8, MoreEdges
<1> HIDE DEF whole
<1>10. \A m \in whole.groups \cup named : m \subseteq NodeIds(whole)
  <2>1. \A m \in frag.groups : m \subseteq DOMAIN frag.nodes
    BY InsideOf
  <2>2. \A m \in frag.groups : {CopyOf(g, n) : n \in m} \subseteq NodeIds(whole)
    BY <1>2, <1>9, <2>1 DEF Copies
  <2> QED BY <1>9, <2>2 DEF named, Sound, IsGraph
<1>11. Sound(h) /\ NodeIds(h) = NodeIds(whole)
  <2>1. PICK G : G = whole.groups \cup named
    OBVIOUS
  <2>2. h = [whole EXCEPT !.groups = G]
    BY <1>1, <2>1
  <2>3. \A m \in G : m \subseteq NodeIds(whole)
    BY <1>10, <2>1
  <2> QED BY <1>9, <2>2, <2>3, GroupsAreFree
<1> QED BY <1>2, <1>9, <1>11

-----------------------------------------------------------------------------
(* The canvas: its state.                                                    *)

EntryOK(e) == Sound(e.graph) /\ e.sel \subseteq NodeIds(e.graph)
History(u) == u \in Seq(Range(u)) /\ \A i \in DOMAIN u : EntryOK(u[i])

\* What a request or a gesture was started with.
IsBound(b) ==
  b = [cmd |-> b.cmd, ids |-> b.ids, edge |-> b.edge, frag |-> b.frag, graph |-> b.graph,
       sel |-> b.sel, opened |-> b.opened, live |-> b.live, touched |-> b.touched]
JobOK(b) ==
  /\ IsBound(b)
  /\ b.cmd \in {"copy", "cut"} => IsFragment(b.frag) /\ b.frag.nodes = [n \in b.sel |-> b.graph.nodes[n]]
Requests(js) == js = [s \in Slots |-> js[s]] /\ \A s \in Slots : js[s] # Nil => JobOK(js[s])
GestureOK(b) ==
  /\ IsBound(b)
  /\ b.cmd = "clone" => IsFragment(b.frag)
  /\ b.cmd = "route" => b.edge \in b.graph.edges

CanvasIInv ==
  /\ Sound(graph) /\ sel \subseteq NodeIds(graph)
  /\ History(undos) /\ History(redos) /\ Len(undos) + Len(redos) <= HistoryCap
  /\ held # Nil => EntryOK(held) /\ held.graph.edges = graph.edges /\ held.graph.groups = graph.groups
  /\ clip # Nil => IsFragment(clip)
  /\ Requests(jobs)
  /\ gesture # Nil => GestureOK(gesture)
  /\ locked => held = Nil /\ gesture = Nil
  /\ tally \in [commands : Nat, turns : Nat, named : Nat, opened : Nat]

LEMMA HistoryIsSeq == ASSUME NEW u, History(u) PROVE u \in Seq(Range(u)) /\ Len(u) \in Nat /\ DOMAIN u = 1..Len(u)
BY LenProperties DEF History

LEMMA NoHistory == History(<<>>) /\ Len(<<>>) = 0
<1>1. <<>> \in Seq({}) /\ Len(<<>>) = 0
  BY EmptySeq
<1>2. <<>> \in Seq(Range(<<>>))
  BY <1>1, SeqOfRange
<1>3. DOMAIN <<>> = {}
  BY <1>1, LenProperties
<1> QED BY <1>1, <1>2, <1>3 DEF History

LEMMA Appended ==
  ASSUME NEW u, History(u), NEW e, EntryOK(e)
  PROVE  History(Append(u, e)) /\ Len(Append(u, e)) = Len(u) + 1
<1> DEFINE S == Range(u) \cup {e}
<1>1. u \in Seq(Range(u)) /\ u \in Seq(S) /\ e \in S /\ Len(u) \in Nat /\ DOMAIN u = 1..Len(u)
  BY HistoryIsSeq, SeqMonotonic
<1>2. /\ Append(u, e) \in Seq(S) /\ Len(Append(u, e)) = Len(u) + 1
      /\ \A i \in 1..Len(u) : Append(u, e)[i] = u[i]
      /\ Append(u, e)[Len(u) + 1] = e
  <2> HIDE DEF S
  <2> QED BY <1>1, AppendProperties
<1>3. Append(u, e) \in Seq(Range(Append(u, e))) /\ DOMAIN Append(u, e) = 1..Len(u) + 1
  <2> HIDE DEF S
  <2> QED BY <1>2, SeqOfRange, LenProperties
<1>4. \A i \in 1..Len(u) + 1 : EntryOK(Append(u, e)[i])
  <2> SUFFICES ASSUME NEW i \in 1..Len(u) + 1 PROVE EntryOK(Append(u, e)[i])
    OBVIOUS
  <2>1. CASE i = Len(u) + 1
    BY <1>2, <2>1
  <2>2. CASE i \in 1..Len(u)
    BY <1>1, <1>2, <2>2 DEF History
  <2> QED BY <1>1, <2>1, <2>2
<1> QED BY <1>2, <1>3, <1>4 DEF History

LEMMA Shortened ==
  ASSUME NEW u, History(u), u # <<>>
  PROVE  /\ History(Tail(u)) /\ Len(Tail(u)) = Len(u) - 1
         /\ History(Front(u)) /\ Len(Front(u)) = Len(u) - 1
         /\ EntryOK(Last(u)) /\ Len(u) \in Nat \ {0}
<1>1. u \in Seq(Range(u)) /\ Len(u) \in Nat \ {0} /\ DOMAIN u = 1..Len(u)
  <2>1. u \in Seq(Range(u)) /\ Len(u) \in Nat /\ DOMAIN u = 1..Len(u)
    BY HistoryIsSeq
  <2> QED BY <2>1, EmptySeq
<1>2. /\ Tail(u) \in Seq(Range(u)) /\ Len(Tail(u)) = Len(u) - 1
      /\ \A i \in 1..Len(u) - 1 : Tail(u)[i] = u[i + 1]
  BY <1>1
<1>3. /\ Front(u) \in Seq(Range(u)) /\ Len(Front(u)) = Len(u) - 1
      /\ \A i \in 1..Len(u) - 1 : Front(u)[i] = u[i]
  BY <1>1 DEF Front
<1>4. History(Tail(u))
  <2>1. Tail(u) \in Seq(Range(Tail(u))) /\ DOMAIN Tail(u) = 1..Len(u) - 1
    BY <1>2, SeqOfRange, LenProperties
  <2>2. \A i \in 1..Len(u) - 1 : i + 1 \in DOMAIN u
    BY <1>1
  <2> QED BY <1>2, <2>1, <2>2 DEF History
<1>5. History(Front(u))
  <2>1. Front(u) \in Seq(Range(Front(u))) /\ DOMAIN Front(u) = 1..Len(u) - 1
    BY <1>3, SeqOfRange, LenProperties
  <2>2. \A i \in 1..Len(u) - 1 : i \in DOMAIN u
    BY <1>1
  <2> QED BY <1>3, <2>1, <2>2 DEF History
<1>6. EntryOK(Last(u))
  BY <1>1 DEF Last, History
<1> QED BY <1>1, <1>2, <1>3, <1>4, <1>5, <1>6

LEMMA CappedKeeps ==
  ASSUME NEW u, History(u), Len(u) <= HistoryCap, NEW e, EntryOK(e)
  PROVE  History(Capped(Append(u, e))) /\ Len(Capped(Append(u, e))) <= HistoryCap
<1>1. HistoryCap \in Nat \ {0} /\ Len(u) \in Nat
  BY CanvasConstants, HistoryIsSeq
<1>2. History(Append(u, e)) /\ Len(Append(u, e)) = Len(u) + 1
  BY Appended
<1>3. Append(u, e) # <<>>
  BY <1>1, <1>2, NoHistory
<1>4. History(Tail(Append(u, e))) /\ Len(Tail(Append(u, e))) = Len(u)
  <2>1. PICK v : v = Append(u, e)
    OBVIOUS
  <2>2. History(v) /\ v # <<>> /\ Len(v) = Len(u) + 1
    BY <1>2, <1>3, <2>1
  <2>3. History(Tail(v)) /\ Len(Tail(v)) = Len(v) - 1
    BY <2>2, Shortened
  <2> QED BY <1>1, <2>1, <2>2, <2>3
<1> QED BY <1>1, <1>2, <1>4 DEF Capped

\* A change of a request's flags.
LEMMA RequestsKept ==
  ASSUME NEW js, Requests(js)
  PROVE  Requests(Touched(js)) /\ Requests(Overtaken(js))
<1>1. ASSUME NEW b, JobOK(b)
      PROVE  JobOK([b EXCEPT !.touched = TRUE]) /\ JobOK([b EXCEPT !.live = FALSE])
  <2>1. IsBound(b) /\ (b.cmd \in {"copy", "cut"} => IsFragment(b.frag) /\ b.frag.nodes = [n \in b.sel |-> b.graph.nodes[n]])
    BY <1>1 DEF JobOK
  <2>2. PICK c, d : c = [b EXCEPT !.touched = TRUE] /\ d = [b EXCEPT !.live = FALSE]
    OBVIOUS
  <2>3. IsBound(c) /\ c.cmd = b.cmd /\ c.frag = b.frag /\ c.sel = b.sel /\ c.graph = b.graph
    BY <2>1, <2>2 DEF IsBound
  <2>4. IsBound(d) /\ d.cmd = b.cmd /\ d.frag = b.frag /\ d.sel = b.sel /\ d.graph = b.graph
    BY <2>1, <2>2 DEF IsBound
  <2> QED BY <2>1, <2>2, <2>3, <2>4 DEF JobOK
<1>2. Requests(Touched(js))
  BY <1>1 DEF Requests, Touched
<1>3. Requests(Overtaken(js))
  BY <1>1 DEF Requests, Overtaken
<1> QED BY <1>2, <1>3

LEMMA RequestPut ==
  ASSUME NEW js, Requests(js), NEW s, NEW b, b # Nil => JobOK(b)
  PROVE  Requests([js EXCEPT ![s] = b])
BY DEF Requests

\* A copied selection is a fragment, and so is what is left when nodes are deleted a graph.
LEMMA FragmentOf ==
  ASSUME NEW g, Sound(g), NEW S \in SUBSET NodeIds(g), NEW f, f = Fragment(g, S)
  PROVE  IsFragment(f) /\ f.nodes = [n \in S |-> g.nodes[n]]
<1>1. /\ f.nodes = [n \in S |-> g.nodes[n]]
      /\ f.edges = {e \in g.edges : e.from \in S /\ e.to \in S}
      /\ f.incoming = {e \in g.edges : e.from \notin S /\ e.to \in S}
      /\ f.groups = {m \in {m \cap S : m \in g.groups} : m # {}}
  BY DEF Fragment
<1>2. Sound(Inside(f))
  BY <1>1, PartOfGraph DEF Inside
<1>3. f.incoming \subseteq EdgesIn(Names)
  <2>1. g.edges \subseteq EdgesIn(NodeIds(g)) /\ NodeIds(g) \subseteq Names
    BY DEF Sound, IsGraph
  <2> QED BY <1>1, <2>1 DEF EdgesIn
<1> QED BY <1>1, <1>2, <1>3 DEF IsFragment

LEMMA WithoutOf ==
  ASSUME NEW g, Sound(g), NEW doomed, NEW h, h = Without(g, doomed)
  PROVE  Sound(h) /\ NodeIds(h) = NodeIds(g) \ doomed
<1>0. PICK S : S = NodeIds(g) \ doomed
  OBVIOUS
<1>1. g.edges \subseteq EdgesIn(NodeIds(g)) /\ \A m \in g.groups : m \subseteq NodeIds(g)
  BY DEF Sound, IsGraph
<1>2. {e \in g.edges : {e.from, e.to} \cap doomed = {}} = {e \in g.edges : e.from \in S /\ e.to \in S}
  BY <1>0, <1>1 DEF EdgesIn
<1>3. {m \in {m \ doomed : m \in g.groups} : m # {}} = {m \in {m \cap S : m \in g.groups} : m # {}}
  <2>1. \A m \in g.groups : m \ doomed = m \cap S
    BY <1>0, <1>1
  <2> QED BY <2>1
<1>4. h = [nodes |-> [n \in S |-> g.nodes[n]],
           edges |-> {e \in g.edges : e.from \in S /\ e.to \in S},
           groups |-> {m \in {m \cap S : m \in g.groups} : m # {}}]
  BY <1>0, <1>2, <1>3 DEF Without
<1>5. Sound(h) /\ NodeIds(h) = S
  <2>1. S \in SUBSET NodeIds(g)
    BY <1>0
  <2> QED BY <1>4, <2>1, PartOfGraph
<1> QED BY <1>0, <1>5

\* A document that is opened is sound.
LEMMA DocumentsAreSound == ASSUME NEW g \in Documents PROVE Sound(g)
<1>1. ASSUME NEW n \in NodeIds(g), NEW side \in DOMAIN AutoShow, Connected(g, n, side),
             g.nodes[n].show[side] = "hide"
      PROVE  Brought(n, side)
  BY <1>1 DEF Brought
<1> QED BY <1>1, DocumentsAreValid DEF Sound, HiddenFree, IsOpen

\* The version an edit goes back from: the one before a pending layout, or the present.
LEMMA BeforeOK ==
  ASSUME CanvasIInv
  PROVE  EntryOK(IF held # Nil THEN held ELSE Entry)
<1>1. EntryOK(Entry)
  BY DEF CanvasIInv, EntryOK, Entry
<1> QED BY <1>1 DEF CanvasIInv

\* An edit that leads to a sound graph.
Logged(u, r, js) ==
  /\ \/ u = undos /\ r = redos
     \/ u = Capped(Append(undos, IF held # Nil THEN held ELSE Entry)) /\ r = <<>>
  /\ js \in {jobs, Touched(jobs)}

LEMMA EditKeeps ==
  ASSUME CanvasIInv, NEW CONSTANT g, NEW CONSTANT s, Sound(g), s \subseteq NodeIds(g),
         graph' = g, sel' = s, held' = Nil, Logged(undos', redos', jobs') \/
         (Logged(undos', redos', jobs) /\ Requests(jobs')),
         clip' # Nil => IsFragment(clip'), gesture' # Nil => GestureOK(gesture'),
         locked' => gesture' = Nil,
         tally' \in [commands : Nat, turns : Nat, named : Nat, opened : Nat]
  PROVE  CanvasIInv'
<1>1. History(undos') /\ History(redos') /\ Len(undos') + Len(redos') <= HistoryCap
  <2>1. CASE undos' = undos /\ redos' = redos
    BY <2>1 DEF CanvasIInv
  <2>2. CASE undos' = Capped(Append(undos, IF held # Nil THEN held ELSE Entry)) /\ redos' = <<>>
    <3>1. PICK before : before = IF held # Nil THEN held ELSE Entry
      OBVIOUS
    <3>2. EntryOK(before) /\ History(undos) /\ undos' = Capped(Append(undos, before))
      BY <2>2, <3>1, BeforeOK DEF CanvasIInv
    <3>3. Len(undos) <= HistoryCap
      BY HistoryIsSeq, CanvasConstants DEF CanvasIInv
    <3>4. History(undos') /\ Len(undos') <= HistoryCap
      BY <3>2, <3>3, CappedKeeps
    <3>5. Len(undos') \in Nat
      BY <3>4, HistoryIsSeq
    <3>6. History(redos') /\ Len(redos') = 0
      BY <2>2, NoHistory
    <3> QED BY <3>4, <3>5, <3>6, CanvasConstants
  <2> QED BY <2>1, <2>2 DEF Logged
<1>2. Requests(jobs')
  BY RequestsKept DEF CanvasIInv, Logged
<1> QED BY <1>1, <1>2 DEF CanvasIInv

-----------------------------------------------------------------------------
(* The canvas: its commands.                                                 *)

LEMMA TallyStays ==
  ASSUME CanvasIInv
  PROVE  /\ Step \in [commands : Nat, turns : Nat, named : Nat, opened : Nat]
         /\ [Step EXCEPT !.named = @ + 1] \in [commands : Nat, turns : Nat, named : Nat, opened : Nat]
         /\ [tally EXCEPT !.turns = @ + 1] \in [commands : Nat, turns : Nat, named : Nat, opened : Nat]
         /\ [tally EXCEPT !.opened = @ + 1] \in [commands : Nat, turns : Nat, named : Nat, opened : Nat]
<1>1. tally \in [commands : Nat, turns : Nat, named : Nat, opened : Nat]
  BY DEF CanvasIInv
<1>2. PICK t : t = [tally EXCEPT !.commands = @ + 1]
  OBVIOUS
<1>3. t \in [commands : Nat, turns : Nat, named : Nat, opened : Nat]
  BY <1>1, <1>2
<1>4. [t EXCEPT !.named = @ + 1] \in [commands : Nat, turns : Nat, named : Nat, opened : Nat]
  BY <1>3
<1> QED BY <1>1, <1>2, <1>3, <1>4 DEF Step

\* Push and Transact with a sound result.
LEMMA CommandKeeps ==
  ASSUME CanvasIInv, NEW CONSTANT g, NEW CONSTANT s, Sound(g), s \subseteq NodeIds(g),
         Push(g, s) \/ Transact(g, s), Command, UNCHANGED <<clip, gesture, locked>>,
         tally' \in [commands : Nat, turns : Nat, named : Nat, opened : Nat]
  PROVE  CanvasIInv'
<1>1. graph' = g /\ sel' = s /\ held' = Nil /\ Logged(undos', redos', jobs')
  <2>1. CASE Push(g, s)
    BY <2>1 DEF Push, Logged
  <2>2. CASE Transact(g, s)
    BY <2>2 DEF Transact, Logged
  <2> QED BY <2>1, <2>2
<1>2. ~locked /\ locked' = locked /\ clip' = clip /\ gesture' = gesture
  BY DEF Command
<1>3. (clip' # Nil => IsFragment(clip')) /\ (gesture' # Nil => GestureOK(gesture'))
  BY <1>2 DEF CanvasIInv
<1> QED BY <1>1, <1>2, <1>3, EditKeeps

\* What checkConnection has seen.
Accepted(g, E, w, kind, from, to) ==
  /\ Sound(w) /\ w.nodes = g.nodes /\ w.edges = g.edges \ E /\ NodeIds(w) = NodeIds(g)
  /\ from \in NodeIds(g) /\ to \in NodeIds(g)
  /\ kind = "data" => from \notin ReachedFrom(w, to)
  /\ IsOpen(g.nodes, from, SideOut(kind)) /\ IsOpen(g.nodes, to, SideIn(kind))
LEMMA MayConnectSays ==
  ASSUME NEW g, Sound(g), NEW E, NEW w, w = [g EXCEPT !.edges = @ \ E],
         NEW kind, NEW from, NEW to, MayConnect(g, kind, from, to, E, FALSE)
  PROVE  Accepted(g, E, w, kind, from, to)
<1>1. PICK F : F = g.edges \ E
  OBVIOUS
<1>2. F \subseteq EdgesIn(NodeIds(g)) /\ w = [g EXCEPT !.edges = F]
  BY <1>1 DEF Sound, IsGraph
<1>3. \A e \in F : \E x \in g.edges : x.kind = e.kind /\ x.from = e.from /\ x.to = e.to
  BY <1>1
<1>4. Sound(w) /\ NodeIds(w) = NodeIds(g)
  BY <1>2, <1>3, FewerEdges
<1>5. w.nodes = g.nodes /\ w.edges = g.edges \ E
  BY <1>1, <1>2, OtherEdges DEF Sound
<1>6. /\ from \in NodeIds(w) /\ to \in NodeIds(w)
      /\ kind = "data" => from \notin ReachedFrom(w, to)
      /\ Visible(g, from, SideOut(kind)) /\ Visible(g, to, SideIn(kind))
  BY DEF MayConnect
<1>7. IsOpen(g.nodes, from, SideOut(kind))
  BY <1>4, <1>6, SidesOf, VisibleIsOpen
<1>8. IsOpen(g.nodes, to, SideIn(kind))
  BY <1>4, <1>6, SidesOf, VisibleIsOpen
<1> QED BY <1>4, <1>5, <1>6, <1>7, <1>8 DEF Accepted

LEMMA ConnectKeeps ==
  ASSUME CanvasIInv, NEW CONSTANT kind \in Kinds, NEW CONSTANT from, NEW CONSTANT to, Connect(kind, from, to)
  PROVE  CanvasIInv'
<1>1. Sound(graph) /\ IsGraph(graph)
  BY DEF CanvasIInv, Sound
<1>2. PICK w : w = [graph EXCEPT !.edges = @ \ {}]
  OBVIOUS
<1>3. /\ Sound(w) /\ w.nodes = graph.nodes /\ w.edges = graph.edges /\ NodeIds(w) = NodeIds(graph)
      /\ from \in NodeIds(graph) /\ to \in NodeIds(graph)
      /\ kind = "data" => from \notin ReachedFrom(w, to)
      /\ IsOpen(graph.nodes, from, SideOut(kind)) /\ IsOpen(graph.nodes, to, SideIn(kind))
  <2>1. MayConnect(graph, kind, from, to, {}, FALSE)
    BY DEF Connect
  <2>2. Accepted(graph, {}, w, kind, from, to)
    BY <1>1, <1>2, <2>1, MayConnectSays
  <2> QED BY <2>2 DEF Accepted
<1>4. PICK h, E, e : e = Edge(kind, from, to) /\ E = graph.edges \cup {e} /\ h = [graph EXCEPT !.edges = E]
  OBVIOUS
<1>5. e \in EdgesIn(NodeIds(graph)) /\ e.kind = kind /\ e.from = from /\ e.to = to
  BY <1>3, <1>4 DEF Edge, EdgesIn
<1>6. E \subseteq EdgesIn(NodeIds(graph))
  BY <1>1, <1>4, <1>5 DEF IsGraph
<1>7. IsGraph(h) /\ h.nodes = graph.nodes /\ h.edges = E /\ NodeIds(h) = NodeIds(graph)
  BY <1>1, <1>4, <1>6, OtherEdges
<1>8. Sound(h)
  <2>1. \A x \in h.edges : \/ x.kind = kind /\ x.from = from /\ x.to = to
                           \/ \E y \in w.edges : y.kind = x.kind /\ y.from = x.from /\ y.to = x.to
    BY <1>3, <1>4, <1>5, <1>7
  <2>2. h.nodes = w.nodes /\ from \in NodeIds(w) /\ to \in NodeIds(w)
        /\ IsOpen(w.nodes, from, SideOut(kind)) /\ IsOpen(w.nodes, to, SideIn(kind))
    BY <1>3, <1>7
  <2> QED BY <1>3, <1>7, <2>1, <2>2, OneMoreEdge
<1>9. Push(h, sel) /\ Command /\ UNCHANGED <<clip, gesture, locked>> /\ tally' = Step
  BY <1>4 DEF Connect
<1>10. sel \subseteq NodeIds(h)
  BY <1>7 DEF CanvasIInv
<1> QED BY <1>8, <1>9, <1>10, TallyStays, CommandKeeps

LEMMA ReconnectKeeps ==
  ASSUME CanvasIInv, NEW CONSTANT e \in graph.edges, NEW CONSTANT kind \in Kinds, NEW CONSTANT from, NEW CONSTANT to,
         Reconnect(e, kind, from, to)
  PROVE  CanvasIInv'
<1>1. Sound(graph) /\ IsGraph(graph)
  BY DEF CanvasIInv, Sound
<1>2. PICK w : w = [graph EXCEPT !.edges = @ \ {e}]
  OBVIOUS
<1>3. /\ Sound(w) /\ w.nodes = graph.nodes /\ w.edges = graph.edges \ {e} /\ NodeIds(w) = NodeIds(graph)
      /\ from \in NodeIds(graph) /\ to \in NodeIds(graph)
      /\ kind = "data" => from \notin ReachedFrom(w, to)
      /\ IsOpen(graph.nodes, from, SideOut(kind)) /\ IsOpen(graph.nodes, to, SideIn(kind))
  <2>1. MayConnect(graph, kind, from, to, {e}, FALSE)
    BY DEF Reconnect
  <2>2. Accepted(graph, {e}, w, kind, from, to)
    BY <1>1, <1>2, <2>1, MayConnectSays
  <2> QED BY <2>2 DEF Accepted
<1>4. PICK h, E, f : /\ f = [e EXCEPT !.kind = kind, !.from = from, !.to = to]
                     /\ E = (graph.edges \ {e}) \cup {f} /\ h = [graph EXCEPT !.edges = E]
  OBVIOUS
<1>5. f \in EdgesIn(NodeIds(graph)) /\ f.kind = kind /\ f.from = from /\ f.to = to
  <2>1. e \in [kind : Kinds, from : NodeIds(graph), to : NodeIds(graph), routed : BOOLEAN]
    BY <1>1 DEF IsGraph, EdgesIn
  <2>2. PICK x : x = [e EXCEPT !.kind = kind]
    OBVIOUS
  <2>3. x \in [kind : Kinds, from : NodeIds(graph), to : NodeIds(graph), routed : BOOLEAN] /\ x.kind = kind
    BY <2>1, <2>2
  <2>4. PICK y : y = [x EXCEPT !.from = from]
    OBVIOUS
  <2>5. y \in [kind : Kinds, from : NodeIds(graph), to : NodeIds(graph), routed : BOOLEAN] /\ y.kind = kind /\ y.from = from
    BY <1>3, <2>3, <2>4
  <2>6. f = [y EXCEPT !.to = to]
    BY <1>4, <2>2, <2>4
  <2> QED BY <1>3, <2>5, <2>6 DEF EdgesIn
<1>6. E \subseteq EdgesIn(NodeIds(graph))
  <2>1. graph.edges \subseteq EdgesIn(NodeIds(graph))
    BY <1>1 DEF IsGraph
  <2> QED BY <1>4, <1>5, <2>1
<1>7. IsGraph(h) /\ h.nodes = graph.nodes /\ h.edges = E /\ NodeIds(h) = NodeIds(graph)
  <2>1. h = [graph EXCEPT !.edges = E]
    BY <1>4
  <2> QED BY <1>1, <1>6, <2>1, OtherEdges
<1>8. Sound(h)
  <2>1. \A x \in h.edges : \/ x.kind = kind /\ x.from = from /\ x.to = to
                           \/ \E y \in w.edges : y.kind = x.kind /\ y.from = x.from /\ y.to = x.to
    BY <1>3, <1>4, <1>5, <1>7
  <2>2. h.nodes = w.nodes /\ from \in NodeIds(w) /\ to \in NodeIds(w)
        /\ IsOpen(w.nodes, from, SideOut(kind)) /\ IsOpen(w.nodes, to, SideIn(kind))
    BY <1>3, <1>7
  <2> QED BY <1>3, <1>7, <2>1, <2>2, OneMoreEdge
<1>9. Transact(h, sel) /\ Command /\ UNCHANGED <<clip, gesture, locked>> /\ tally' = Step
  BY <1>4 DEF Reconnect
<1>10. sel \subseteq NodeIds(h)
  BY <1>7 DEF CanvasIInv
<1> QED BY <1>8, <1>9, <1>10, TallyStays, CommandKeeps

LEMMA AddKeeps ==
  ASSUME CanvasIInv, NEW CONSTANT origin, NEW CONSTANT kind \in Kinds, NEW CONSTANT out \in BOOLEAN,
         AddNode(origin, kind, out)
  PROVE  CanvasIInv'
<1>1. Sound(graph) /\ IsGraph(graph) /\ tally.named \in Nat
  BY DEF CanvasIInv, Sound
<1>2. PICK n, fresh, from, to :
        /\ n = <<tally.named + 1>>
        /\ fresh = [NewNode(0) EXCEPT !.show["control"] = IF origin # Nil /\ kind = "control" THEN "show" ELSE "auto"]
        /\ from = (IF out THEN origin ELSE n) /\ to = (IF out THEN n ELSE origin)
  OBVIOUS
<1>3. n \in Names
  BY <1>1, <1>2 DEF Names
<1>4. fresh \in Node /\ \A side \in DOMAIN AutoShow : fresh.show[side] # "hide"
  <2>1. /\ AutoShow \in [DOMAIN AutoShow -> {"auto", "show", "hide"}]
        /\ \A side \in DOMAIN AutoShow : AutoShow[side] = "auto"
    BY DEF AutoShow
  <2>2. PICK v : v = (IF origin # Nil /\ kind = "control" THEN "show" ELSE "auto")
    OBVIOUS
  <2>3. PICK shown : shown = [AutoShow EXCEPT !["control"] = v]
    OBVIOUS
  <2>4. /\ shown \in [DOMAIN AutoShow -> {"auto", "show", "hide"}]
        /\ \A side \in DOMAIN AutoShow : shown[side] # "hide"
    BY <2>1, <2>2, <2>3
  <2>5. fresh = [x |-> 0, pinned |-> FALSE, ports |-> TRUE, show |-> shown]
    BY <1>2, <2>2, <2>3 DEF NewNode
  <2> QED BY <2>4, <2>5 DEF Node
<1>5. PICK f, grown : /\ f = [m \in NodeIds(graph) \cup {n} |-> IF m = n THEN fresh ELSE graph.nodes[m]]
                      /\ grown = [graph EXCEPT !.nodes = f]
  OBVIOUS
<1>6. /\ grown = [nodes |-> grown.nodes, edges |-> grown.edges, groups |-> grown.groups]
      /\ grown.nodes = f /\ grown.edges = graph.edges /\ grown.groups = graph.groups
  BY <1>1, <1>5 DEF IsGraph
<1>7. NodeIds(grown) = NodeIds(graph) \cup {n}
  BY <1>5, <1>6 DEF NodeIds
<1>8. IsGraph(grown)
  <2>1. f \in [NodeIds(grown) -> Node]
    BY <1>1, <1>4, <1>5, <1>7 DEF IsGraph
  <2>2. IsFiniteSet(NodeIds(graph) \cup {n})
    BY <1>1, FS_AddElement DEF IsGraph
  <2>3. grown.edges \subseteq EdgesIn(NodeIds(grown))
    BY <1>1, <1>6, <1>7 DEF IsGraph, EdgesIn
  <2>4. \A m \in grown.groups : m \subseteq NodeIds(grown)
    BY <1>1, <1>6, <1>7 DEF IsGraph
  <2>5. NodeIds(grown) \subseteq Names
    BY <1>1, <1>3, <1>7 DEF IsGraph
  <2> QED BY <1>6, <1>7, <2>1, <2>2, <2>3, <2>4, <2>5 DEF IsGraph
<1>9. Within(grown, graph)
  <2>1. ASSUME NEW m \in NodeIds(grown), NEW side \in DOMAIN AutoShow, grown.nodes[m].show[side] = "hide"
        PROVE  m \in NodeIds(graph) /\ graph.nodes[m].show[side] = "hide"
    BY <1>4, <1>5, <1>6, <1>7, <2>1
  <2> QED BY <1>6, <2>1 DEF Within
<1>10. Sound(grown)
  BY <1>1, <1>8, <1>9, WithinKeeps
<1>11. PICK E, h : /\ E = grown.edges \cup {Edge(kind, from, to)}
                   /\ h = IF origin = Nil THEN grown ELSE [grown EXCEPT !.edges = E]
  OBVIOUS
<1>12. /\ Command /\ UNCHANGED <<clip, gesture, locked>> /\ tally' = [Step EXCEPT !.named = @ + 1]
       /\ Transact(h, {n})
       /\ origin # Nil => MayConnect(grown, kind, from, to, {}, FALSE)
  BY <1>2, <1>5, <1>11 DEF AddNode, NodeIds
<1>13. Sound(h) /\ n \in NodeIds(h)
  <2>1. CASE origin = Nil
    BY <1>7, <1>10, <1>11, <2>1
  <2>2. CASE origin # Nil
    <3>1. PICK w : w = [grown EXCEPT !.edges = @ \ {}]
      OBVIOUS
    <3>2. Accepted(grown, {}, w, kind, from, to)
      BY <1>10, <1>12, <2>2, <3>1, MayConnectSays
    <3>3. /\ Sound(w) /\ w.nodes = grown.nodes /\ w.edges = grown.edges /\ NodeIds(w) = NodeIds(grown)
          /\ from \in NodeIds(grown) /\ to \in NodeIds(grown)
          /\ kind = "data" => from \notin ReachedFrom(w, to)
          /\ IsOpen(grown.nodes, from, SideOut(kind)) /\ IsOpen(grown.nodes, to, SideIn(kind))
      BY <3>2 DEF Accepted
    <3>4. PICK e : e = Edge(kind, from, to) /\ E = grown.edges \cup {e} /\ h = [grown EXCEPT !.edges = E]
      BY <1>11, <2>2
    <3>5. e \in EdgesIn(NodeIds(grown)) /\ e.kind = kind /\ e.from = from /\ e.to = to
      BY <3>3, <3>4 DEF Edge, EdgesIn
    <3>6. E \subseteq EdgesIn(NodeIds(grown))
      <4>1. grown.edges \subseteq EdgesIn(NodeIds(grown))
        BY <1>8 DEF IsGraph
      <4> QED BY <3>4, <3>5, <4>1
    <3>7. IsGraph(h) /\ h.nodes = grown.nodes /\ h.edges = E /\ NodeIds(h) = NodeIds(grown)
      BY <1>8, <3>4, <3>6, OtherEdges
    <3>8. \A x \in h.edges : \/ x.kind = kind /\ x.from = from /\ x.to = to
                             \/ \E y \in w.edges : y.kind = x.kind /\ y.from = x.from /\ y.to = x.to
      BY <3>3, <3>4, <3>5, <3>7
    <3>9. h.nodes = w.nodes /\ from \in NodeIds(w) /\ to \in NodeIds(w)
          /\ IsOpen(w.nodes, from, SideOut(kind)) /\ IsOpen(w.nodes, to, SideIn(kind))
      BY <3>3, <3>7
    <3>10. Sound(h)
      BY <3>3, <3>7, <3>8, <3>9, OneMoreEdge
    <3> QED BY <1>7, <3>7, <3>10
  <2> QED BY <2>1, <2>2
<1>14. {n} \subseteq NodeIds(h)
  BY <1>13
<1> QED BY <1>12, <1>13, <1>14, TallyStays, CommandKeeps

LEMMA EdgesAndGroupsKeep ==
  ASSUME CanvasIInv
  PROVE  /\ \A e \in graph.edges : RemoveEdge(e) => CanvasIInv'
         /\ RemoveSelected => CanvasIInv'
         /\ GroupSelection => CanvasIInv'
         /\ \A m \in graph.groups : Ungroup(m) => CanvasIInv'
<1>1. Sound(graph) /\ IsGraph(graph) /\ sel \subseteq NodeIds(graph)
      /\ graph.edges \subseteq EdgesIn(NodeIds(graph))
      /\ \A m \in graph.groups : m \subseteq NodeIds(graph)
  BY DEF CanvasIInv, Sound, IsGraph
<1>2. ASSUME NEW e \in graph.edges, RemoveEdge(e) PROVE CanvasIInv'
  <2>1. PICK E, h : E = graph.edges \ {e} /\ h = [graph EXCEPT !.edges = E]
    OBVIOUS
  <2>2. E \subseteq EdgesIn(NodeIds(graph))
        /\ \A y \in E : \E x \in graph.edges : x.kind = y.kind /\ x.from = y.from /\ x.to = y.to
    BY <1>1, <2>1
  <2>3. Sound(h) /\ NodeIds(h) = NodeIds(graph)
    BY <1>1, <2>1, <2>2, FewerEdges
  <2>4. Push(h, sel) /\ Command /\ UNCHANGED <<clip, gesture, locked>> /\ tally' = Step
    BY <1>2, <2>1 DEF RemoveEdge
  <2> QED BY <1>1, <2>3, <2>4, TallyStays, CommandKeeps
<1>3. ASSUME RemoveSelected PROVE CanvasIInv'
  <2>1. PICK h : h = Without(graph, sel)
    OBVIOUS
  <2>2. Sound(h) /\ {} \subseteq NodeIds(h)
    BY <1>1, <2>1, WithoutOf
  <2>3. Push(h, {}) /\ Command /\ UNCHANGED <<clip, gesture, locked>> /\ tally' = Step
    BY <1>3, <2>1 DEF RemoveSelected
  <2> QED BY <2>2, <2>3, TallyStays, CommandKeeps
<1>4. ASSUME GroupSelection PROVE CanvasIInv'
  <2>1. PICK G, h : G = graph.groups \cup {sel} /\ h = [graph EXCEPT !.groups = G]
    OBVIOUS
  <2>2. Push(h, sel) /\ Command /\ UNCHANGED <<clip, gesture, locked>> /\ tally' = Step /\ sel # {}
    BY <1>4, <2>1 DEF GroupSelection
  <2>3. \A x \in G : x \subseteq NodeIds(graph)
    BY <1>1, <2>1, <2>2
  <2>4. Sound(h) /\ NodeIds(h) = NodeIds(graph)
    BY <1>1, <2>1, <2>3, GroupsAreFree
  <2> QED BY <1>1, <2>2, <2>4, TallyStays, CommandKeeps
<1>5. ASSUME NEW m \in graph.groups, Ungroup(m) PROVE CanvasIInv'
  <2>1. PICK G, h : G = graph.groups \ {m} /\ h = [graph EXCEPT !.groups = G]
    OBVIOUS
  <2>2. \A x \in G : x \subseteq NodeIds(graph)
    BY <1>1, <2>1
  <2>3. Sound(h) /\ NodeIds(h) = NodeIds(graph)
    BY <1>1, <2>1, <2>2, GroupsAreFree
  <2>4. Push(h, sel) /\ Command /\ UNCHANGED <<clip, gesture, locked>> /\ tally' = Step
    BY <1>5, <2>1 DEF Ungroup
  <2> QED BY <1>1, <2>3, <2>4, TallyStays, CommandKeeps
<1> QED BY <1>2, <1>3, <1>4, <1>5

\* A change of the nodes that hides no side with an edge.
NodesMay(f) ==
  /\ f \in [NodeIds(graph) -> Node]
  /\ \A n \in NodeIds(graph), side \in DOMAIN AutoShow :
       f[n].show[side] = "hide" => graph.nodes[n].show[side] = "hide" \/ ~Connected(graph, n, side)

LEMMA NodesMayChange ==
  ASSUME CanvasIInv, NEW CONSTANT f, NodesMay(f), NEW CONSTANT h, h = [graph EXCEPT !.nodes = f]
  PROVE  /\ Sound(h) /\ sel \subseteq NodeIds(h) /\ NodeIds(h) = NodeIds(graph)
         /\ h.nodes = f /\ h.edges = graph.edges /\ h.groups = graph.groups
<1>1. Sound(graph) /\ sel \subseteq NodeIds(graph)
  BY DEF CanvasIInv
<1>2. Sound(h) /\ NodeIds(h) = NodeIds(graph)
  BY <1>1, NodesChange DEF NodesMay
<1>3. h.nodes = f /\ h.edges = graph.edges /\ h.groups = graph.groups
  <2>1. graph = [nodes |-> graph.nodes, edges |-> graph.edges, groups |-> graph.groups]
    BY <1>1 DEF Sound, IsGraph
  <2> QED BY <2>1
<1> QED BY <1>1, <1>2, <1>3

\* One node changes: its position, its pin, its ports or a side.
LEMMA OneNodeMay ==
  ASSUME CanvasIInv, NEW n \in NodeIds(graph), NEW d \in Node,
         \A side \in DOMAIN AutoShow : d.show[side] = "hide" =>
            graph.nodes[n].show[side] = "hide" \/ ~Connected(graph, n, side),
         NEW f, f = [graph.nodes EXCEPT ![n] = d]
  PROVE  NodesMay(f)
<1>1. graph.nodes \in [NodeIds(graph) -> Node]
  BY DEF CanvasIInv, Sound, IsGraph
<1>2. f \in [NodeIds(graph) -> Node] /\ f[n] = d /\ \A m \in NodeIds(graph) : m # n => f[m] = graph.nodes[m]
  BY <1>1
<1> QED BY <1>2 DEF NodesMay

LEMMA NodeFields ==
  ASSUME NEW b \in Node
  PROVE  /\ [b EXCEPT !.x = 1 - @] \in Node /\ [b EXCEPT !.x = 1 - @].show = b.show
         /\ [b EXCEPT !.pinned = ~@] \in Node /\ [b EXCEPT !.pinned = ~@].show = b.show
         /\ [b EXCEPT !.ports = ~@] \in Node /\ [b EXCEPT !.ports = ~@].show = b.show
<1>1. PICK y, p, q : y = 1 - b.x /\ p = ~b.pinned /\ q = ~b.ports
  OBVIOUS
<1>2. y \in 0..1 /\ p \in BOOLEAN /\ q \in BOOLEAN
  BY <1>1 DEF Node
<1>3. [b EXCEPT !.x = y] \in Node /\ [b EXCEPT !.x = y].show = b.show
  BY <1>2 DEF Node
<1>4. [b EXCEPT !.pinned = p] \in Node /\ [b EXCEPT !.pinned = p].show = b.show
  BY <1>2 DEF Node
<1>5. [b EXCEPT !.ports = q] \in Node /\ [b EXCEPT !.ports = q].show = b.show
  BY <1>2 DEF Node
<1> QED BY <1>1, <1>3, <1>4, <1>5, Zenon

LEMMA MovesMay == ASSUME CanvasIInv, NEW S PROVE NodesMay(MovedNodes(S))
<1>1. PICK f : f = MovedNodes(S)
  OBVIOUS
<1>2. graph.nodes \in [NodeIds(graph) -> Node]
  BY DEF CanvasIInv, Sound, IsGraph
<1>3. \A n \in NodeIds(graph) : f[n] \in Node /\ f[n].show = graph.nodes[n].show
  <2> SUFFICES ASSUME NEW n \in NodeIds(graph) PROVE f[n] \in Node /\ f[n].show = graph.nodes[n].show
    OBVIOUS
  <2>1. PICK b, c : b = graph.nodes[n] /\ c = [b EXCEPT !.x = 1 - @]
    OBVIOUS
  <2>2. b \in Node
    BY <1>2, <2>1
  <2>3. c \in Node /\ c.show = b.show
    BY <2>1, <2>2, NodeFields
  <2>4. f[n] = IF n \in S THEN c ELSE b
    BY <1>1, <2>1 DEF MovedNodes
  <2> QED BY <2>1, <2>2, <2>3, <2>4
<1>4. f \in [NodeIds(graph) -> Node]
  BY <1>1, <1>3 DEF MovedNodes
<1>5. NodesMay(f)
  BY <1>3, <1>4 DEF NodesMay
<1> QED BY <1>1, <1>5

LEMMA NodeCommandKeeps ==
  ASSUME CanvasIInv, NEW CONSTANT f, NodesMay(f), NEW CONSTANT h, h = [graph EXCEPT !.nodes = f],
         Push(h, sel) \/ Transact(h, sel), Command, UNCHANGED <<clip, gesture, locked>>, tally' = Step
  PROVE  CanvasIInv'
BY NodesMayChange, TallyStays, CommandKeeps

LEMMA NodeCommandsKeep ==
  ASSUME CanvasIInv
  PROVE  /\ \A n \in NodeIds(graph), side \in Sides, show \in {"show", "hide"} : PatchPorts(n, side, show) => CanvasIInv'
         /\ \A n \in NodeIds(graph) : PatchPinned(n) \/ UpdateNode(n) => CanvasIInv'
         /\ \A S : LayoutCommand(S) => CanvasIInv'
<1>1. graph.nodes \in [NodeIds(graph) -> Node]
  BY DEF CanvasIInv, Sound, IsGraph
<1>2. ASSUME NEW CONSTANT n \in NodeIds(graph), NEW CONSTANT side \in Sides, NEW CONSTANT show \in {"show", "hide"}, PatchPorts(n, side, show)
      PROVE  CanvasIInv'
  <2>1. PICK shown, d : shown = [graph.nodes[n].show EXCEPT ![side] = show] /\ d = [graph.nodes[n] EXCEPT !.show = shown]
    OBVIOUS
  <2>2. PICK f, h : f = [graph.nodes EXCEPT ![n] = d] /\ h = [graph EXCEPT !.nodes = f]
    OBVIOUS
  <2>3. Transact(h, sel) /\ Command /\ UNCHANGED <<clip, gesture, locked>> /\ tally' = Step
        /\ (show = "hide" => ~Connected(graph, n, side))
    BY <1>2, <2>1, <2>2 DEF PatchPorts
  <2>4. graph.nodes[n] \in Node
    BY <1>1
  <2>5. shown \in [DOMAIN AutoShow -> {"auto", "show", "hide"}]
    BY <2>1, <2>4 DEF Node
  <2>6. d \in Node /\ d.show = shown
    BY <2>1, <2>4, <2>5 DEF Node
  <2>7. \A p \in DOMAIN AutoShow : shown[p] = "hide" => graph.nodes[n].show[p] = "hide" \/ ~Connected(graph, n, p)
    BY <2>1, <2>3, <2>4 DEF Node
  <2>8. NodesMay(f)
    BY <2>2, <2>6, <2>7, OneNodeMay
  <2> QED BY <2>2, <2>3, <2>8, NodeCommandKeeps
<1>3. ASSUME NEW CONSTANT n \in NodeIds(graph), PatchPinned(n) \/ UpdateNode(n) PROVE CanvasIInv'
  <2>1. PICK b : b = graph.nodes[n]
    OBVIOUS
  <2>2. PICK d : d = IF PatchPinned(n) THEN [b EXCEPT !.pinned = ~@] ELSE [b EXCEPT !.ports = ~@]
    OBVIOUS
  <2>3. PICK f, h : f = [graph.nodes EXCEPT ![n] = d] /\ h = [graph EXCEPT !.nodes = f]
    OBVIOUS
  <2>4. (Push(h, sel) \/ Transact(h, sel)) /\ Command /\ UNCHANGED <<clip, gesture, locked>> /\ tally' = Step
    <3>1. CASE PatchPinned(n)
      <4>1. h = [graph EXCEPT !.nodes[n].pinned = ~@]
        BY <2>1, <2>2, <2>3, <3>1
      <4> QED BY <3>1, <4>1 DEF PatchPinned
    <3>2. CASE ~PatchPinned(n)
      <4>1. h = [graph EXCEPT !.nodes[n].ports = ~@]
        BY <2>1, <2>2, <2>3, <3>2
      <4> QED BY <1>3, <3>2, <4>1 DEF UpdateNode
    <3> QED BY <3>1, <3>2
  <2>5. b \in Node
    BY <1>1, <2>1
  <2>6. d \in Node /\ d.show = b.show
    BY <2>2, <2>5, NodeFields
  <2>7. NodesMay(f)
    BY <2>1, <2>3, <2>6, OneNodeMay
  <2> QED BY <2>3, <2>4, <2>7, NodeCommandKeeps
<1>4. ASSUME NEW CONSTANT S, LayoutCommand(S) PROVE CanvasIInv'
  <2>1. PICK f, h : f = MovedNodes(S) /\ h = [graph EXCEPT !.nodes = f]
    OBVIOUS
  <2>2. Transact(h, sel) /\ Command /\ UNCHANGED <<clip, gesture, locked>> /\ tally' = Step
    BY <1>4, <2>1 DEF LayoutCommand
  <2>3. NodesMay(f)
    BY <2>1, MovesMay
  <2> QED BY <2>1, <2>2, <2>3, NodeCommandKeeps
<1> QED BY <1>2, <1>3, <1>4

-----------------------------------------------------------------------------
(* The canvas: selection, history and pointer layouts.                       *)

Counters == [commands : Nat, turns : Nat, named : Nat, opened : Nat]

\* Steps that leave the graph and its history alone.
LEMMA EditsStay ==
  ASSUME CanvasIInv, UNCHANGED editVars, Requests(jobs'), clip' # Nil => IsFragment(clip'),
         gesture' # Nil => GestureOK(gesture'), locked' => held = Nil /\ gesture' = Nil, tally' \in Counters
  PROVE  CanvasIInv'
<1>1. graph' = graph /\ sel' = sel /\ undos' = undos /\ redos' = redos /\ held' = held
  BY DEF editVars
<1> QED BY <1>1 DEF CanvasIInv, Counters

LEMMA SelectKeeps ==
  ASSUME CanvasIInv, NEW CONSTANT S, S \subseteq NodeIds(graph), Select(S)
  PROVE  CanvasIInv'
<1>1. /\ sel' = S /\ jobs' = Touched(jobs) /\ graph' = graph /\ undos' = undos /\ redos' = redos
      /\ held' = held /\ clip' = clip /\ gesture' = gesture /\ locked' = locked /\ tally' = Step
  BY DEF Select
<1>2. Requests(jobs') /\ tally' \in Counters
  BY <1>1, RequestsKept, TallyStays DEF CanvasIInv, Counters
<1> QED BY <1>1, <1>2 DEF CanvasIInv, Counters

LEMMA UndoRedoKeep == ASSUME CanvasIInv, UndoEdit \/ RedoEdit PROVE CanvasIInv'
<1>1. EntryOK(Entry)
  BY DEF CanvasIInv, EntryOK, Entry
<1>2. /\ jobs' = Touched(jobs) /\ sel' = {} /\ held' = held /\ clip' = clip /\ gesture' = gesture /\ locked' = locked
      /\ ~locked /\ held = Nil /\ tally' = [tally EXCEPT !.turns = @ + 1]
  BY DEF UndoEdit, RedoEdit, Turn
<1>3. Requests(jobs') /\ tally' \in Counters
  BY <1>2, RequestsKept, TallyStays DEF CanvasIInv, Counters
<1>4. History(undos) /\ History(redos) /\ Len(undos) + Len(redos) <= HistoryCap
  BY DEF CanvasIInv
<1>5. Len(undos) \in Nat /\ Len(redos) \in Nat /\ HistoryCap \in Nat
  BY <1>4, HistoryIsSeq, CanvasConstants
<1>6. Sound(graph') /\ History(undos') /\ History(redos') /\ Len(undos') + Len(redos') <= HistoryCap
  <2>1. CASE UndoEdit
    <3>1. undos # <<>> /\ undos' = Front(undos) /\ redos' = Append(redos, Entry) /\ graph' = Last(undos).graph
      BY <2>1 DEF UndoEdit
    <3>2. History(undos') /\ Len(undos') = Len(undos) - 1 /\ EntryOK(Last(undos))
      BY <1>4, <3>1, Shortened
    <3>3. History(redos') /\ Len(redos') = Len(redos) + 1
      BY <1>1, <1>4, <3>1, Appended
    <3> QED BY <1>4, <1>5, <3>1, <3>2, <3>3 DEF EntryOK
  <2>2. CASE RedoEdit
    <3>1. redos # <<>> /\ redos' = Front(redos) /\ undos' = Append(undos, Entry) /\ graph' = Last(redos).graph
      BY <2>2 DEF RedoEdit
    <3>2. History(redos') /\ Len(redos') = Len(redos) - 1 /\ EntryOK(Last(redos))
      BY <1>4, <3>1, Shortened
    <3>3. History(undos') /\ Len(undos') = Len(undos) + 1
      BY <1>1, <1>4, <3>1, Appended
    <3> QED BY <1>4, <1>5, <3>1, <3>2, <3>3 DEF EntryOK
  <2> QED BY <2>1, <2>2
<1> QED BY <1>2, <1>3, <1>6 DEF CanvasIInv, Counters

LEMMA MoveKeeps ==
  ASSUME CanvasIInv, NEW CONSTANT n \in NodeIds(graph), MoveNode(n)
  PROVE  CanvasIInv'
<1>1. PICK b, d : b = graph.nodes[n] /\ d = [b EXCEPT !.x = 1 - @]
  OBVIOUS
<1>2. PICK f, h : f = [graph.nodes EXCEPT ![n] = d] /\ h = [graph EXCEPT !.nodes = f]
  OBVIOUS
<1>3. h = [graph EXCEPT !.nodes[n].x = 1 - @]
  BY <1>1, <1>2
<1>4. /\ graph' = h /\ held' = (IF held # Nil THEN held ELSE Entry) /\ jobs' = Touched(jobs) /\ tally' = Step
      /\ sel' = sel /\ undos' = undos /\ redos' = redos /\ clip' = clip /\ gesture' = gesture /\ locked' = locked /\ ~locked
  BY <1>3 DEF MoveNode, Command
<1>5. b \in Node
  BY <1>1 DEF CanvasIInv, Sound, IsGraph
<1>6. NodesMay(f)
  <2>1. d \in Node /\ d.show = b.show
    BY <1>1, <1>5, NodeFields
  <2> QED BY <1>1, <1>2, <2>1, OneNodeMay
<1>7. Sound(h) /\ sel \subseteq NodeIds(h) /\ h.edges = graph.edges /\ h.groups = graph.groups
  BY <1>2, <1>6, NodesMayChange
<1>8. EntryOK(held') /\ held'.graph.edges = graph'.edges /\ held'.graph.groups = graph'.groups
  <2>1. CASE held = Nil
    BY <1>4, <1>7, <2>1 DEF CanvasIInv, EntryOK, Entry
  <2>2. CASE held # Nil
    BY <1>4, <1>7, <2>2 DEF CanvasIInv
  <2> QED BY <2>1, <2>2
<1>9. Requests(jobs') /\ tally' \in Counters
  BY <1>4, RequestsKept, TallyStays DEF CanvasIInv, Counters
<1> QED BY <1>4, <1>7, <1>8, <1>9 DEF CanvasIInv, Counters

LEMMA CommitKeeps == ASSUME CanvasIInv, CommitLayout PROVE CanvasIInv'
<1>1. PICK g, s : g = graph /\ s = sel
  OBVIOUS
<1>2. Sound(g) /\ s \subseteq NodeIds(g)
  BY <1>1 DEF CanvasIInv
<1>3. /\ graph' = g /\ sel' = s /\ held' = Nil /\ Logged(undos', redos', jobs')
      /\ clip' = clip /\ gesture' = gesture /\ locked' = locked /\ tally' = [tally EXCEPT !.turns = @ + 1]
  BY <1>1 DEF CommitLayout, Logged, Turn
<1>4. (clip' # Nil => IsFragment(clip')) /\ (gesture' # Nil => GestureOK(gesture')) /\ (locked' => gesture' = Nil)
  BY <1>3 DEF CanvasIInv
<1> QED BY <1>2, <1>3, <1>4, TallyStays, EditKeeps

LEMMA CancelKeeps ==
  ASSUME CanvasIInv, CancelLayout, tally' \in Counters
  PROVE  CanvasIInv'
<1>1. PICK g, s : g = (IF held # Nil THEN held.graph ELSE graph) /\ s = (IF held # Nil THEN held.sel ELSE sel)
  OBVIOUS
<1>2. Sound(g) /\ s \subseteq NodeIds(g)
  BY <1>1 DEF CanvasIInv, EntryOK
<1>3. /\ graph' = g /\ sel' = s /\ held' = Nil /\ undos' = undos /\ redos' = redos
      /\ clip' = clip /\ gesture' = Nil /\ jobs' = Overtaken(IF held # Nil THEN Touched(jobs) ELSE jobs)
  BY <1>1 DEF CancelLayout
<1>4. Requests(jobs')
  <2>1. PICK js : js = IF held # Nil THEN Touched(jobs) ELSE jobs
    OBVIOUS
  <2>2. Requests(js)
    BY <2>1, RequestsKept DEF CanvasIInv
  <2> QED BY <1>3, <2>1, <2>2, RequestsKept
<1> QED BY <1>2, <1>3, <1>4 DEF CanvasIInv, Counters

LEMMA LayoutsKeep ==
  ASSUME CanvasIInv, CancelGesture \/ Lock \/ Unlock
  PROVE  CanvasIInv'
<1>1. CASE CancelGesture \/ Lock
  <2>1. CancelLayout /\ tally' = [tally EXCEPT !.turns = @ + 1]
    BY <1>1 DEF CancelGesture, Lock, Turn
  <2> QED BY <2>1, TallyStays, CancelKeeps DEF Counters
<1>2. CASE Unlock
  <2>1. UNCHANGED editVars /\ jobs' = jobs /\ clip' = clip /\ gesture' = gesture /\ ~locked' /\ tally' = tally
    BY <1>2 DEF Unlock
  <2> QED BY <2>1, EditsStay DEF CanvasIInv, Counters
<1> QED BY <1>1, <1>2

-----------------------------------------------------------------------------
(* The canvas: the clipboard, gestures and other documents.                  *)

LEMMA BoundOf ==
  ASSUME NEW cmd, NEW picked, NEW edge, NEW frag, NEW b, b = Bound(cmd, picked, edge, frag)
  PROVE  /\ IsBound(b) /\ b.cmd = cmd /\ b.ids = picked /\ b.edge = edge /\ b.frag = frag
         /\ b.graph = graph /\ b.sel = sel
BY DEF Bound, IsBound

LEMMA BeginClipboardKeeps ==
  ASSUME CanvasIInv, NEW CONSTANT s \in Slots, NEW CONSTANT cmd, BeginClipboard(s, cmd)
  PROVE  CanvasIInv'
<1>1. PICK frag, b : /\ frag = (IF cmd \in {"copy", "cut"} THEN Fragment(graph, sel) ELSE Nil)
                     /\ b = Bound(cmd, sel, Nil, frag)
  OBVIOUS
<1>2. /\ jobs' = [Overtaken(jobs) EXCEPT ![s] = b]
      /\ gesture' = (IF gesture = Nil THEN Nil ELSE [gesture EXCEPT !.live = FALSE])
      /\ UNCHANGED editVars /\ clip' = clip /\ locked' = locked /\ tally' = Step
  BY <1>1 DEF BeginClipboard
<1>3. JobOK(b)
  <2>1. IsBound(b) /\ b.cmd = cmd /\ b.frag = frag /\ b.graph = graph /\ b.sel = sel
    BY <1>1, BoundOf
  <2>2. ASSUME cmd \in {"copy", "cut"}
        PROVE  IsFragment(frag) /\ frag.nodes = [n \in sel |-> graph.nodes[n]]
    BY <1>1, <2>2, FragmentOf DEF CanvasIInv
  <2> QED BY <2>1, <2>2 DEF JobOK
<1>4. Requests(jobs')
  <2>1. PICK js : js = Overtaken(jobs)
    OBVIOUS
  <2>2. Requests(js)
    BY <2>1, RequestsKept DEF CanvasIInv
  <2> QED BY <1>2, <1>3, <2>1, <2>2, RequestPut
<1>5. gesture' # Nil => GestureOK(gesture')
  <2> SUFFICES ASSUME gesture # Nil, NEW c, c = [gesture EXCEPT !.live = FALSE] PROVE GestureOK(c)
    BY <1>2
  <2>1. GestureOK(gesture)
    BY DEF CanvasIInv
  <2>2. IsBound(c) /\ c.cmd = gesture.cmd /\ c.frag = gesture.frag /\ c.edge = gesture.edge /\ c.graph = gesture.graph
    BY <2>1 DEF GestureOK, IsBound
  <2> QED BY <2>1, <2>2 DEF GestureOK
<1>6. (clip' # Nil => IsFragment(clip')) /\ (locked' => held = Nil /\ gesture' = Nil) /\ tally' \in Counters
  BY <1>2, TallyStays DEF CanvasIInv, Counters
<1> QED BY <1>2, <1>4, <1>5, <1>6, EditsStay

\* A request that has been answered is gone.
LEMMA RequestDropped ==
  ASSUME CanvasIInv, NEW s
  PROVE  Requests([jobs EXCEPT ![s] = Nil]) /\ Requests([Touched(jobs) EXCEPT ![s] = Nil])
<1>1. PICK js : js = Touched(jobs)
  OBVIOUS
<1>2. Requests(jobs) /\ Requests(js)
  BY <1>1, RequestsKept DEF CanvasIInv
<1> QED BY <1>1, <1>2, RequestPut

LEMMA WrittenKeeps ==
  ASSUME CanvasIInv, NEW CONSTANT s \in Slots, Written(s)
  PROVE  CanvasIInv'
<1>1. /\ jobs[s] # Nil /\ jobs[s].cmd \in {"copy", "cut"} /\ clip' = jobs[s].frag
      /\ gesture' = gesture /\ locked' = locked /\ tally' = tally
  BY DEF Written
<1>2. IsFragment(clip')
  BY <1>1 DEF CanvasIInv, Requests, JobOK
<1>3. (gesture' # Nil => GestureOK(gesture')) /\ (locked' => held = Nil /\ gesture' = Nil) /\ tally' \in Counters
  BY <1>1 DEF CanvasIInv, Counters
<1>4. CASE jobs[s].cmd = "cut" /\ CurrentBinding(jobs[s], TRUE, FALSE)
  <2>1. PICK g, none : g = Without(graph, sel) /\ none = {}
    OBVIOUS
  <2>2. Sound(g) /\ none \subseteq NodeIds(g)
    BY <2>1, WithoutOf DEF CanvasIInv
  <2>3. /\ graph' = g /\ sel' = none /\ held' = Nil /\ jobs' = [Touched(jobs) EXCEPT ![s] = Nil]
        /\ Logged(undos', redos', jobs)
    BY <1>4, <2>1 DEF Written, Logged
  <2>4. Requests(jobs')
    BY <2>3, RequestDropped
  <2> QED BY <1>2, <1>3, <2>2, <2>3, <2>4, EditKeeps DEF Counters
<1>5. CASE ~(jobs[s].cmd = "cut" /\ CurrentBinding(jobs[s], TRUE, FALSE))
  <2>1. jobs' = [jobs EXCEPT ![s] = Nil] /\ UNCHANGED editVars
    BY <1>5 DEF Written
  <2> QED BY <1>2, <1>3, <2>1, RequestDropped, EditsStay
<1> QED BY <1>4, <1>5

LEMMA ReadTextKeeps ==
  ASSUME CanvasIInv, NEW CONSTANT s \in Slots, ReadText(s)
  PROVE  CanvasIInv'
<1>1. PICK incoming, fits, g, names :
        /\ incoming = (jobs[s].cmd = "pasteIncoming")
        /\ fits = (clip # Nil /\ (incoming => clip.doc = tally.opened))
        /\ g = (IF fits THEN Pasted(graph, clip, incoming) ELSE Nil)
        /\ names = (IF g = Nil THEN {} ELSE NodeIds(g) \ NodeIds(graph))
  OBVIOUS
<1>2. clip' = clip /\ gesture' = gesture /\ locked' = locked /\ tally' = tally
  BY DEF ReadText
<1>3. /\ clip' # Nil => IsFragment(clip')
      /\ gesture' # Nil => GestureOK(gesture')
      /\ locked' => held = Nil /\ gesture' = Nil
      /\ tally' \in Counters
  BY <1>2 DEF CanvasIInv, Counters
<1>4. g # Nil => Sound(g)
  <2> SUFFICES ASSUME g # Nil PROVE Sound(g)
    OBVIOUS
  <2>1. fits /\ g = Pasted(graph, clip, incoming) /\ incoming \in BOOLEAN
    BY <1>1
  <2>2. clip # Nil
    BY <1>1, <2>1
  <2>3. IsFragment(clip) /\ Sound(graph)
    BY <2>2 DEF CanvasIInv
  <2> QED BY <2>1, <2>3, PasteKeeps
<1>5. CASE CurrentBinding(jobs[s], TRUE, FALSE) /\ (g = Nil \/ Cardinality(NodeIds(g)) <= MaxNodes)
  <2>1. PICK after, chosen : after = (IF g = Nil THEN graph ELSE g) /\ chosen = (IF g = Nil THEN sel ELSE names)
    OBVIOUS
  <2>2. /\ graph' = after /\ sel' = chosen /\ held' = Nil
        /\ jobs' = [(IF g = Nil THEN jobs ELSE Touched(jobs)) EXCEPT ![s] = Nil]
        /\ Logged(undos', redos', jobs)
    BY <1>1, <1>5, <2>1 DEF ReadText, Logged
  <2>3. Sound(after) /\ chosen \subseteq NodeIds(after)
    BY <1>1, <1>4, <2>1 DEF CanvasIInv
  <2>4. Requests(jobs')
    BY <2>2, RequestDropped
  <2> QED BY <1>3, <2>2, <2>3, <2>4, EditKeeps DEF Counters
<1>6. CASE ~(CurrentBinding(jobs[s], TRUE, FALSE) /\ (g = Nil \/ Cardinality(NodeIds(g)) <= MaxNodes))
  <2>1. jobs' = [jobs EXCEPT ![s] = Nil] /\ UNCHANGED editVars
    BY <1>1, <1>6 DEF ReadText
  <2> QED BY <1>3, <2>1, RequestDropped, EditsStay
<1> QED BY <1>5, <1>6

LEMMA ClipboardFailsKeeps ==
  ASSUME CanvasIInv, NEW CONSTANT s \in Slots, ClipboardFails(s)
  PROVE  CanvasIInv'
<1>1. /\ jobs' = [jobs EXCEPT ![s] = Nil] /\ UNCHANGED editVars
      /\ clip' = clip /\ gesture' = gesture /\ locked' = locked /\ tally' = tally
  BY DEF ClipboardFails
<1> QED BY <1>1, RequestDropped, EditsStay DEF CanvasIInv, Counters

LEMMA BeginGestureKeeps ==
  ASSUME CanvasIInv
  PROVE  /\ \A S : \A clone \in BOOLEAN : BeginDrag(S, clone) => CanvasIInv'
         /\ \A e \in graph.edges : BeginRoute(e) => CanvasIInv'
<1>1. ASSUME NEW CONSTANT b, GestureOK(b), gesture' = b, ~locked, tally' = Step, UNCHANGED <<editVars, clip, jobs, locked>>
      PROVE  CanvasIInv'
  <2>1. UNCHANGED editVars /\ clip' = clip /\ jobs' = jobs /\ locked' = locked
    BY <1>1
  <2> QED BY <1>1, <2>1, TallyStays, EditsStay DEF CanvasIInv, Counters
<1>2. ASSUME NEW CONSTANT S, NEW CONSTANT clone \in BOOLEAN, BeginDrag(S, clone) PROVE CanvasIInv'
  <2>1. PICK b : b = IF clone THEN Bound("clone", S, Nil, Fragment(graph, S)) ELSE Bound("drag", S, Nil, Nil)
    OBVIOUS
  <2>2. /\ gesture' = b /\ ~locked /\ tally' = Step /\ UNCHANGED <<editVars, clip, jobs, locked>>
        /\ clone => S \subseteq NodeIds(graph)
    BY <1>2, <2>1 DEF BeginDrag, Command, Copyable
  <2>3. GestureOK(b)
    <3>1. CASE clone
      <4>1. b = Bound("clone", S, Nil, Fragment(graph, S))
        BY <2>1, <3>1
      <4>2. IsBound(b) /\ b.cmd = "clone" /\ b.frag = Fragment(graph, S)
        BY <4>1, BoundOf
      <4>3. IsFragment(b.frag)
        BY <2>2, <3>1, <4>2, FragmentOf DEF CanvasIInv
      <4> QED BY <4>2, <4>3 DEF GestureOK
    <3>2. CASE ~clone
      <4>1. b = Bound("drag", S, Nil, Nil)
        BY <2>1, <3>2
      <4>2. IsBound(b) /\ b.cmd = "drag"
        BY <4>1, BoundOf
      <4> QED BY <4>2 DEF GestureOK
    <3> QED BY <3>1, <3>2
  <2> QED BY <1>1, <2>2, <2>3
<1>3. ASSUME NEW CONSTANT e \in graph.edges, BeginRoute(e) PROVE CanvasIInv'
  <2>1. PICK b : b = Bound("route", {}, e, Nil)
    OBVIOUS
  <2>2. gesture' = b /\ ~locked /\ tally' = Step /\ UNCHANGED <<editVars, clip, jobs, locked>>
    BY <1>3, <2>1 DEF BeginRoute, Command
  <2>3. IsBound(b) /\ b.cmd = "route" /\ b.edge = e /\ b.graph = graph
    BY <2>1, BoundOf
  <2>4. GestureOK(b)
    BY <2>3 DEF GestureOK
  <2> QED BY <1>1, <2>2, <2>4
<1> QED BY <1>2, <1>3

LEMMA CommitGestureKeeps == ASSUME CanvasIInv, CommitGesture PROVE CanvasIInv'
<1>1. PICK cloned : cloned = IF gesture.cmd = "clone" THEN Pasted(graph, gesture.frag, FALSE) ELSE Nil
  OBVIOUS
<1>2. PICK g : g = CASE gesture.cmd = "drag" -> [graph EXCEPT !.nodes = MovedNodes(gesture.ids)]
                     [] gesture.cmd = "route" ->
                          [graph EXCEPT !.edges = (@ \ {gesture.edge}) \cup {[gesture.edge EXCEPT !.routed = TRUE]}]
                     [] OTHER -> cloned
  OBVIOUS
<1>3. PICK s : s = IF gesture.cmd = "clone" THEN NodeIds(g) \ NodeIds(graph) ELSE sel
  OBVIOUS
<1>4. ~locked /\ gesture # Nil /\ gesture' = Nil /\ clip' = clip /\ locked' = locked /\ tally' = tally /\ GestureOK(gesture)
      /\ Sound(graph) /\ IsGraph(graph) /\ sel \subseteq NodeIds(graph)
  BY DEF CommitGesture, CanvasIInv, Sound
<1>5. (clip' # Nil => IsFragment(clip')) /\ tally' \in Counters
  BY <1>4 DEF CanvasIInv, Counters
<1>6. CASE CurrentBinding(gesture, FALSE, FALSE) /\ g # Nil /\ Cardinality(NodeIds(g)) <= MaxNodes
  <2>1. Transact(g, s) /\ gesture.graph = graph
    <3>1. Transact(g, s)
      BY <1>1, <1>2, <1>3, <1>6 DEF CommitGesture
    <3> QED BY <1>6, <3>1 DEF CurrentBinding
  <2>2. Sound(g) /\ s \subseteq NodeIds(g)
    <3>1. CASE gesture.cmd = "drag"
      <4>1. PICK f : f = MovedNodes(gesture.ids) /\ g = [graph EXCEPT !.nodes = f]
        BY <1>2, <3>1
      <4>2. NodesMay(f)
        BY <4>1, MovesMay
      <4>3. Sound(g) /\ sel \subseteq NodeIds(g)
        BY <4>1, <4>2, NodesMayChange
      <4> QED BY <1>3, <3>1, <4>3
    <3>2. CASE gesture.cmd = "route"
      <4>1. PICK f, E : f = [gesture.edge EXCEPT !.routed = TRUE] /\ E = (graph.edges \ {gesture.edge}) \cup {f}
        OBVIOUS
      <4>2. g = [graph EXCEPT !.edges = E]
        BY <1>2, <3>2, <4>1
      <4>3. gesture.edge \in graph.edges /\ graph.edges \subseteq EdgesIn(NodeIds(graph))
        BY <1>4, <2>1, <3>2 DEF GestureOK, IsGraph
      <4>4. /\ f \in EdgesIn(NodeIds(graph)) /\ f.kind = gesture.edge.kind
            /\ f.from = gesture.edge.from /\ f.to = gesture.edge.to
        BY <4>1, <4>3 DEF EdgesIn
      <4>5. E \subseteq EdgesIn(NodeIds(graph))
            /\ \A y \in E : \E x \in graph.edges : x.kind = y.kind /\ x.from = y.from /\ x.to = y.to
        BY <4>1, <4>3, <4>4
      <4>6. Sound(g) /\ NodeIds(g) = NodeIds(graph)
        BY <1>4, <4>2, <4>5, FewerEdges
      <4> QED BY <1>3, <1>4, <3>2, <4>6
    <3>3. CASE gesture.cmd \notin {"drag", "route"}
      <4>1. g = cloned
        BY <1>2, <3>3
      <4>2. gesture.cmd = "clone" /\ g = Pasted(graph, gesture.frag, FALSE)
        BY <1>1, <1>6, <4>1
      <4>3. IsFragment(gesture.frag)
        BY <1>4, <4>2 DEF GestureOK
      <4>4. Sound(g)
        BY <1>4, <1>6, <4>2, <4>3, PasteKeeps
      <4> QED BY <1>3, <4>2, <4>4
    <3> QED BY <3>1, <3>2, <3>3
  <2>3. graph' = g /\ sel' = s /\ held' = Nil /\ Logged(undos', redos', jobs')
    BY <2>1 DEF Transact, Logged
  <2> QED BY <1>4, <1>5, <2>2, <2>3, EditKeeps DEF Counters
<1>7. CASE ~(CurrentBinding(gesture, FALSE, FALSE) /\ g # Nil /\ Cardinality(NodeIds(g)) <= MaxNodes)
  <2>1. UNCHANGED <<editVars, jobs>>
    BY <1>1, <1>2, <1>7 DEF CommitGesture
  <2>2. UNCHANGED editVars /\ jobs' = jobs
    BY <2>1
  <2> QED BY <1>4, <1>5, <2>2, EditsStay DEF CanvasIInv
<1> QED BY <1>6, <1>7

LEMMA InstallKeeps ==
  ASSUME CanvasIInv, NEW CONSTANT g, Sound(g), Install(g)
  PROVE  CanvasIInv'
<1>1. /\ graph' = g /\ sel' = {} /\ undos' = <<>> /\ redos' = <<>> /\ held' = Nil /\ jobs' = Overtaken(jobs)
      /\ gesture' = Nil /\ clip' = clip /\ locked' = locked /\ tally' = [tally EXCEPT !.opened = @ + 1]
  BY DEF Install
<1>2. Requests(jobs') /\ tally' \in Counters /\ (clip' # Nil => IsFragment(clip'))
  BY <1>1, RequestsKept, TallyStays DEF CanvasIInv, Counters
<1>3. History(undos') /\ History(redos') /\ Len(undos') + Len(redos') <= HistoryCap
  BY <1>1, NoHistory, CanvasConstants
<1> QED BY <1>1, <1>2, <1>3 DEF CanvasIInv, Counters

\* Every step of the editor keeps what it relies on.
LEMMA CanvasInitHolds == CanvasInit => CanvasIInv
<1> SUFFICES ASSUME CanvasInit PROVE CanvasIInv
  OBVIOUS
<1>1. /\ graph \in Documents /\ sel = {} /\ undos = <<>> /\ redos = <<>> /\ held = Nil /\ clip = Nil
      /\ jobs = [s \in Slots |-> Nil] /\ gesture = Nil /\ locked = FALSE
      /\ tally = [commands |-> 0, turns |-> 0, named |-> 2, opened |-> 0]
  BY DEF CanvasInit
<1>2. Sound(graph)
  BY <1>1, DocumentsAreSound
<1>3. History(undos) /\ History(redos) /\ Len(undos) + Len(redos) <= HistoryCap
  BY <1>1, NoHistory, CanvasConstants
<1>4. Requests(jobs) /\ tally \in [commands : Nat, turns : Nat, named : Nat, opened : Nat]
  BY <1>1 DEF Requests
<1> QED BY <1>1, <1>2, <1>3, <1>4 DEF CanvasIInv

LEMMA CanvasStuttering == CanvasIInv /\ UNCHANGED canvasVars => CanvasIInv'
<1> SUFFICES ASSUME CanvasIInv, UNCHANGED canvasVars PROVE CanvasIInv'
  OBVIOUS
<1>1. /\ graph' = graph /\ sel' = sel /\ undos' = undos /\ redos' = redos /\ held' = held /\ clip' = clip
      /\ jobs' = jobs /\ gesture' = gesture /\ locked' = locked /\ tally' = tally
  BY DEF canvasVars
<1> QED BY <1>1 DEF CanvasIInv

LEMMA CanvasInductive == CanvasIInv /\ [CanvasNext]_canvasVars => CanvasIInv'
<1> SUFFICES ASSUME CanvasIInv, CanvasNext PROVE CanvasIInv'
  BY CanvasStuttering
<1>1. CASE UndoEdit \/ RedoEdit
  BY <1>1, UndoRedoKeep
<1>2. CASE AddNode(Nil, "data", TRUE)
  <2>1. "data" \in Kinds /\ TRUE \in BOOLEAN
    BY DEF Kinds
  <2> QED BY <1>2, <2>1, AddKeeps
<1>3. ASSUME NEW n \in NodeIds(graph), NEW kind \in Kinds, NEW out \in BOOLEAN, AddNode(n, kind, out) PROVE CanvasIInv'
  BY <1>3, AddKeeps
<1>4. ASSUME NEW a \in NodeIds(graph), NEW b \in NodeIds(graph), NEW kind \in Kinds,
             Connect(kind, a, b) \/ \E e \in graph.edges : Reconnect(e, kind, a, b)
      PROVE  CanvasIInv'
  BY <1>4, ConnectKeeps, ReconnectKeeps
<1>5. ASSUME NEW e \in graph.edges, RemoveEdge(e) \/ BeginRoute(e) PROVE CanvasIInv'
  BY <1>5, EdgesAndGroupsKeep, BeginGestureKeeps
<1>6. CASE RemoveSelected \/ GroupSelection \/ \E m \in graph.groups : Ungroup(m)
  BY <1>6, EdgesAndGroupsKeep
<1>7. ASSUME NEW n \in NodeIds(graph), NEW side \in Sides, NEW show \in {"show", "hide"}, PatchPorts(n, side, show)
      PROVE  CanvasIInv'
  BY <1>7, NodeCommandsKeep
<1>8. ASSUME NEW n \in NodeIds(graph), PatchPinned(n) \/ UpdateNode(n) \/ MoveNode(n) PROVE CanvasIInv'
  BY <1>8, NodeCommandsKeep, MoveKeeps
<1>9. ASSUME NEW S \in {{n} : n \in NodeIds(graph)} \cup {{}, NodeIds(graph)}, Select(S) PROVE CanvasIInv'
  <2>1. S \subseteq NodeIds(graph)
    OBVIOUS
  <2> QED BY <1>9, <2>1, SelectKeeps
<1>10. ASSUME NEW S, LayoutCommand(S) PROVE CanvasIInv'
  BY <1>10, NodeCommandsKeep
<1>11. ASSUME NEW S, NEW clone \in BOOLEAN, BeginDrag(S, clone) PROVE CanvasIInv'
  BY <1>11, BeginGestureKeeps
<1>12. CASE CommitLayout \/ CancelGesture \/ Lock \/ Unlock \/ CommitGesture
  BY <1>12, CommitKeeps, LayoutsKeep, CommitGestureKeeps
<1>13. ASSUME NEW s \in Slots,
              \/ \E cmd \in {"copy", "cut", "paste", "pasteIncoming"} : BeginClipboard(s, cmd)
              \/ Written(s) \/ ReadText(s) \/ ClipboardFails(s)
       PROVE  CanvasIInv'
  BY <1>13, BeginClipboardKeeps, WrittenKeeps, ReadTextKeeps, ClipboardFailsKeeps
<1>14. ASSUME NEW g \in Documents \cup {graph}, Install(g) PROVE CanvasIInv'
  <2>1. Sound(g)
    BY DocumentsAreSound DEF CanvasIInv
  <2> QED BY <1>14, <2>1, InstallKeeps
<1> QED BY <1>1, <1>2, <1>3, <1>4, <1>5, <1>6, <1>7, <1>8, <1>9, <1>10, <1>11, <1>12, <1>13, <1>14 DEF CanvasNext

LEMMA CanvasConclusion == CanvasIInv => CanvasKept
<1> SUFFICES ASSUME CanvasIInv PROVE CanvasTypeOK /\ Attached /\ DataAcyclic /\ HiddenWasOpened
  BY DEF CanvasKept
<1>1. Sound(graph) /\ History(undos) /\ History(redos) /\ Len(undos) + Len(redos) <= HistoryCap
  BY DEF CanvasIInv
<1>2. CanvasTypeOK
  <2>1. Len(undos) \in Nat /\ Len(redos) \in Nat /\ HistoryCap \in Nat
    BY <1>1, HistoryIsSeq, CanvasConstants
  <2> QED BY <1>1, <2>1 DEF CanvasTypeOK, CanvasIInv
<1>6. ASSUME NEW g \in AllVersions PROVE Sound(g)
  BY <1>1 DEF History, EntryOK, AllVersions
<1>3. Attached
  BY <1>6 DEF Attached, Sound, IsGraph, EdgesIn
<1>4. DataAcyclic
  <2> SUFFICES ASSUME NEW p \in DataSteps(graph), p[1] \in ReachedFrom(graph, p[2]) PROVE FALSE
    BY DEF DataAcyclic
  <2>1. PICK e \in graph.edges : e.kind = "data" /\ p = <<e.from, e.to>>
    BY DEF DataSteps
  <2> QED BY <1>1, <2>1 DEF Sound, Acyclic
<1>5. HiddenWasOpened
  BY <1>6 DEF HiddenWasOpened, Sound, HiddenFree, IsOpen
<1> QED BY <1>2, <1>3, <1>4, <1>5

\* After any commands, undone and redone, late clipboards and gestures, on any documents
\* the host accepts: no edge hangs loose, data runs in no cycle, and a port side that has
\* an edge is hidden only where one of those documents had it so (the editor's commands,
\* checkConnection, pasteClipboardFragment and its history).
THEOREM GraphKept == CanvasSpec => []CanvasKept
<1>1. CanvasInit => CanvasIInv
  BY CanvasInitHolds
<1>2. CanvasIInv /\ [CanvasNext]_canvasVars => CanvasIInv'
  BY CanvasInductive
<1>3. CanvasIInv => CanvasKept
  BY CanvasConclusion
<1> QED BY <1>1, <1>2, <1>3, PTL DEF CanvasSpec

-----------------------------------------------------------------------------
(* The canvas: its history is one line of versions.                          *)

Graphs(u) == [i \in DOMAIN u |-> u[i].graph]

LEMMA GraphsOf ==
  ASSUME NEW u, History(u), NEW T, \A i \in DOMAIN u : u[i].graph \in T
  PROVE  /\ Graphs(u) \in Seq(T) /\ Len(Graphs(u)) = Len(u)
         /\ \A i \in 1..Len(u) : Graphs(u)[i] = u[i].graph
<1>1. PICK n, f : n = Len(u) /\ f = Graphs(u)
  OBVIOUS
<1>2. n \in Nat /\ DOMAIN u = 1..n
  BY <1>1, HistoryIsSeq
<1>3. f \in [1..n -> T] /\ \A i \in 1..n : f[i] = u[i].graph
  BY <1>1, <1>2 DEF Graphs
<1>4. f \in Seq(T)
  BY <1>2, <1>3, SeqDef
<1>5. DOMAIN f = 1..Len(f) /\ Len(f) \in Nat
  BY <1>4, LenProperties
<1>6. Len(f) = n
  BY <1>2, <1>3, <1>5
<1> QED BY <1>1, <1>3, <1>4, <1>6

LEMMA GraphsOfNone == Graphs(<<>>) = <<>>
<1>1. DOMAIN <<>> = {}
  BY EmptySeq, LenProperties
<1>2. \A i \in DOMAIN <<>> : <<>>[i].graph \in {}
  BY <1>1
<1>3. Graphs(<<>>) \in Seq({}) /\ Len(Graphs(<<>>)) = 0
  BY <1>2, NoHistory, GraphsOf
<1> QED BY <1>3, EmptySeq

LEMMA GraphsAppended ==
  ASSUME NEW u, History(u), NEW e, EntryOK(e)
  PROVE  Graphs(Append(u, e)) = Append(Graphs(u), e.graph)
<1>1. PICK n, v, T : n = Len(u) /\ v = Append(u, e) /\ T = {u[i].graph : i \in DOMAIN u} \cup {e.graph}
  OBVIOUS
<1>2. n \in Nat /\ DOMAIN u = 1..n /\ u \in Seq(Range(u))
  BY <1>1, HistoryIsSeq
<1>3. History(v) /\ Len(v) = n + 1
  BY <1>1, Appended
<1>4. DOMAIN v = 1..(n + 1)
  BY <1>3, HistoryIsSeq
<1>5. (\A i \in 1..n : v[i] = u[i]) /\ v[n + 1] = e
  BY <1>1, <1>2
<1>6. \A i \in DOMAIN v : v[i].graph \in T
  <2> SUFFICES ASSUME NEW i \in 1..(n + 1) PROVE v[i].graph \in T
    BY <1>4
  <2>1. CASE i = n + 1
    BY <1>1, <1>5, <2>1
  <2>2. CASE i \in 1..n
    BY <1>1, <1>2, <1>5, <2>2
  <2> QED BY <1>2, <2>1, <2>2
<1>7. Graphs(v) \in Seq(T) /\ Len(Graphs(v)) = n + 1 /\ \A i \in 1..(n + 1) : Graphs(v)[i] = v[i].graph
  BY <1>3, <1>6, GraphsOf
<1>8. \A i \in DOMAIN u : u[i].graph \in T
  BY <1>1
<1>9. Graphs(u) \in Seq(T) /\ Len(Graphs(u)) = n /\ \A i \in 1..n : Graphs(u)[i] = u[i].graph
  BY <1>1, <1>8, GraphsOf
<1>10. PICK s, w : s = Graphs(u) /\ w = Append(s, e.graph)
  OBVIOUS
<1>11. w \in Seq(T) /\ Len(w) = n + 1 /\ (\A i \in 1..n : w[i] = s[i]) /\ w[n + 1] = e.graph
  <2>1. e.graph \in T
    BY <1>1
  <2> QED BY <1>2, <1>9, <1>10, <2>1, AppendProperties
<1>12. \A i \in 1..(n + 1) : Graphs(v)[i] = w[i]
  <2> SUFFICES ASSUME NEW i \in 1..(n + 1) PROVE Graphs(v)[i] = w[i]
    OBVIOUS
  <2>1. CASE i = n + 1
    BY <1>5, <1>7, <1>11, <2>1
  <2>2. CASE i \in 1..n
    BY <1>5, <1>7, <1>9, <1>10, <1>11, <2>2
  <2> QED BY <1>2, <2>1, <2>2
<1>13. Graphs(v) = w
  BY <1>7, <1>11, <1>12, SeqEqual
<1> QED BY <1>1, <1>10, <1>13

LEMMA GraphsShortened ==
  ASSUME NEW u, History(u), u # <<>>
  PROVE  /\ Graphs(Tail(u)) = Tail(Graphs(u)) /\ Graphs(Front(u)) = Front(Graphs(u))
         /\ Last(Graphs(u)) = Last(u).graph /\ Graphs(u) # <<>> /\ Len(Graphs(u)) = Len(u)
<1>1. PICK n, T, s : n = Len(u) /\ T = {u[i].graph : i \in DOMAIN u} /\ s = Graphs(u)
  OBVIOUS
<1>2. n \in Nat \ {0} /\ DOMAIN u = 1..n /\ u \in Seq(Range(u))
  BY <1>1, HistoryIsSeq, Shortened
<1>3. \A i \in DOMAIN u : u[i].graph \in T
  BY <1>1
<1>4. s \in Seq(T) /\ Len(s) = n /\ \A i \in 1..n : s[i] = u[i].graph
  BY <1>1, <1>3, GraphsOf
<1>5. s # <<>> /\ Last(s) = Last(u).graph
  BY <1>1, <1>2, <1>4, EmptySeq DEF Last
<1>6. ASSUME NEW v, History(v), Len(v) = n - 1, NEW w, w \in Seq(T), Len(w) = n - 1, NEW k \in 0..1,
             \A i \in 1..(n - 1) : v[i] = u[i + k] /\ w[i] = s[i + k]
      PROVE  Graphs(v) = w
  <2>1. DOMAIN v = 1..(n - 1)
    BY <1>6, HistoryIsSeq
  <2>2. \A i \in 1..(n - 1) : i + k \in 1..n
    BY <1>2
  <2>3. \A i \in DOMAIN v : v[i].graph \in T
    BY <1>2, <1>3, <1>6, <2>1, <2>2
  <2>4. Graphs(v) \in Seq(T) /\ Len(Graphs(v)) = n - 1 /\ \A i \in 1..(n - 1) : Graphs(v)[i] = v[i].graph
    BY <1>6, <2>3, GraphsOf
  <2>5. \A i \in 1..(n - 1) : Graphs(v)[i] = w[i]
    BY <1>4, <1>6, <2>2, <2>4
  <2> QED BY <1>6, <2>4, <2>5, SeqEqual
<1>7. Graphs(Tail(u)) = Tail(s)
  <2>1. PICK v, w : v = Tail(u) /\ w = Tail(s)
    OBVIOUS
  <2>2. History(v) /\ Len(v) = n - 1
    BY <1>1, <2>1, Shortened
  <2>3. \A i \in 1..(n - 1) : v[i] = u[i + 1]
    BY <1>1, <1>2, <2>1
  <2>4. w \in Seq(T) /\ Len(w) = n - 1 /\ \A i \in 1..(n - 1) : w[i] = s[i + 1]
    BY <1>2, <1>4, <2>1
  <2>5. Graphs(v) = w
    BY <1>6, <2>2, <2>3, <2>4
  <2> QED BY <2>1, <2>5
<1>8. Graphs(Front(u)) = Front(s)
  <2>1. PICK v, w : v = Front(u) /\ w = Front(s)
    OBVIOUS
  <2>2. History(v) /\ Len(v) = n - 1
    BY <1>1, <2>1, Shortened
  <2>3. \A i \in 1..(n - 1) : v[i] = u[i + 0]
    BY <1>1, <1>2, <2>1 DEF Front
  <2>4. w \in Seq(T) /\ Len(w) = n - 1 /\ \A i \in 1..(n - 1) : w[i] = s[i + 0]
    BY <1>2, <1>4, <2>1 DEF Front
  <2>5. Graphs(v) = w
    BY <1>6, <2>2, <2>3, <2>4
  <2> QED BY <2>1, <2>5
<1> QED BY <1>1, <1>4, <1>5, <1>7, <1>8

LEMMA GraphsCapped ==
  ASSUME NEW u, History(u), NEW e, EntryOK(e)
  PROVE  Graphs(Capped(Append(u, e))) = Capped(Append(Graphs(u), e.graph))
<1>1. PICK v, w : v = Append(u, e) /\ w = Append(Graphs(u), e.graph)
  OBVIOUS
<1>2. History(v) /\ Len(v) = Len(u) + 1 /\ Len(u) \in Nat
  BY <1>1, Appended, HistoryIsSeq
<1>3. v # <<>>
  BY <1>2, NoHistory
<1>4. Graphs(v) = w
  BY <1>1, GraphsAppended
<1>5. Graphs(Tail(v)) = Tail(w) /\ Len(w) = Len(v)
  BY <1>2, <1>3, <1>4, GraphsShortened
<1> QED BY <1>1, <1>4, <1>5 DEF Capped

\* Nil is told apart from an entry of the history and from what a request is bound to:
\* both have a graph.
NilIsPlain == "graph" \notin DOMAIN Nil

\* The version on screen without a pending layout.
Version == IF held # Nil THEN held.graph ELSE graph

\* An edit, or nothing, from that version.
Edited(g) ==
  /\ graph' = g /\ held' = Nil
  /\ \/ undos' = Capped(Append(undos, IF held # Nil THEN held ELSE Entry)) /\ redos' = <<>>
     \/ g = Version /\ undos' = undos /\ redos' = redos
Opened(g) == graph' = g /\ held' = Nil /\ undos' = <<>> /\ redos' = <<>>
Rests == Version' = Version /\ undos' = undos /\ redos' = redos
LineStep == (\E g : Edited(g) \/ Opened(g)) \/ UndoEdit \/ RedoEdit \/ Rests

LEMMA VersionBefore == Version = (IF held # Nil THEN held ELSE Entry).graph
BY DEF Version, Entry

LEMMA CommandIsEdit ==
  ASSUME NEW CONSTANT g, NEW CONSTANT s, Push(g, s) \/ Transact(g, s)
  PROVE  LineStep
<1>1. Edited(g)
  <2>1. CASE Push(g, s)
    BY <2>1 DEF Push, Edited
  <2>2. CASE Transact(g, s)
    BY <2>2, VersionBefore DEF Transact, Edited
  <2> QED BY <2>1, <2>2
<1> QED BY <1>1 DEF LineStep

LEMMA UneditedRests == ASSUME UNCHANGED editVars PROVE LineStep
<1>1. graph' = graph /\ undos' = undos /\ redos' = redos /\ held' = held
  BY DEF editVars
<1> QED BY <1>1 DEF LineStep, Rests, Version

LEMMA LayoutSteps ==
  ASSUME CanvasIInv, NilIsPlain
  PROVE  /\ \A n \in NodeIds(graph) : MoveNode(n) => LineStep
         /\ CommitLayout => LineStep
         /\ CancelLayout => LineStep
<1>1. ASSUME NEW CONSTANT n \in NodeIds(graph), MoveNode(n) PROVE LineStep
  <2>1. held' = (IF held # Nil THEN held ELSE Entry) /\ undos' = undos /\ redos' = redos
    BY <1>1 DEF MoveNode
  <2>2. Entry # Nil
    <3>1. "graph" \in DOMAIN Entry
      BY DEF Entry
    <3> QED BY <3>1 DEF NilIsPlain
  <2>3. held' # Nil /\ held'.graph = Version
    BY <2>1, <2>2, VersionBefore
  <2>4. Version' = Version
    BY <2>3 DEF Version
  <2> QED BY <2>1, <2>4 DEF LineStep, Rests
<1>2. ASSUME CommitLayout PROVE LineStep
  <2>1. held # Nil /\ held' = Nil /\ graph' = graph
    BY <1>2 DEF CommitLayout
  <2>2. CASE held.graph.nodes # graph.nodes
    <3>1. Edited(graph)
      BY <1>2, <2>1, <2>2 DEF CommitLayout, Edited
    <3> QED BY <3>1 DEF LineStep
  <2>3. CASE held.graph.nodes = graph.nodes
    <3>1. Sound(held.graph) /\ Sound(graph) /\ held.graph.edges = graph.edges /\ held.graph.groups = graph.groups
      BY <2>1 DEF CanvasIInv, EntryOK
    <3>2. /\ held.graph = [nodes |-> held.graph.nodes, edges |-> held.graph.edges, groups |-> held.graph.groups]
          /\ graph = [nodes |-> graph.nodes, edges |-> graph.edges, groups |-> graph.groups]
      BY <3>1, Zenon DEF Sound, IsGraph
    <3>3. held.graph = graph
      BY <2>3, <3>1, <3>2, Zenon
    <3>4. Edited(graph)
      BY <1>2, <2>1, <2>3, <3>3 DEF CommitLayout, Edited, Version
    <3> QED BY <3>4 DEF LineStep
  <2> QED BY <2>2, <2>3
<1>3. ASSUME CancelLayout PROVE LineStep
  <2>1. graph' = Version /\ held' = Nil /\ undos' = undos /\ redos' = redos
    BY <1>3 DEF CancelLayout, Version
  <2>2. Edited(Version)
    BY <2>1 DEF Edited
  <2> QED BY <2>2 DEF LineStep
<1> QED BY <1>1, <1>2, <1>3

LEMMA ClipboardSteps ==
  ASSUME NEW CONSTANT s \in Slots, Written(s) \/ ReadText(s)
  PROVE  LineStep
<1>1. CASE Written(s)
  <2>1. CASE jobs[s].cmd = "cut" /\ CurrentBinding(jobs[s], TRUE, FALSE)
    <3>1. Edited(Without(graph, sel))
      BY <1>1, <2>1 DEF Written, Edited
    <3> QED BY <3>1 DEF LineStep
  <2>2. CASE ~(jobs[s].cmd = "cut" /\ CurrentBinding(jobs[s], TRUE, FALSE))
    BY <1>1, <2>2, UneditedRests DEF Written
  <2> QED BY <2>1, <2>2
<1>2. CASE ReadText(s)
  <2>1. PICK incoming, fits, g, names :
          /\ incoming = (jobs[s].cmd = "pasteIncoming")
          /\ fits = (clip # Nil /\ (incoming => clip.doc = tally.opened))
          /\ g = (IF fits THEN Pasted(graph, clip, incoming) ELSE Nil)
          /\ names = (IF g = Nil THEN {} ELSE NodeIds(g) \ NodeIds(graph))
    OBVIOUS
  <2>2. CASE CurrentBinding(jobs[s], TRUE, FALSE) /\ (g = Nil \/ Cardinality(NodeIds(g)) <= MaxNodes)
    <3>1. PICK after : after = IF g = Nil THEN graph ELSE g
      OBVIOUS
    <3>2. PICK before : before = IF held # Nil THEN held ELSE Entry
      OBVIOUS
    <3>3. /\ graph' = after /\ held' = Nil
          /\ IF before.graph # after
             THEN undos' = Capped(Append(undos, before)) /\ redos' = <<>>
             ELSE UNCHANGED <<undos, redos>>
      BY <1>2, <2>1, <2>2, <3>1, <3>2 DEF ReadText
    <3>4. Edited(after)
      BY <3>2, <3>3, VersionBefore DEF Edited
    <3> QED BY <3>4 DEF LineStep
  <2>3. CASE ~(CurrentBinding(jobs[s], TRUE, FALSE) /\ (g = Nil \/ Cardinality(NodeIds(g)) <= MaxNodes))
    <3>1. UNCHANGED editVars
      BY <1>2, <2>1, <2>3 DEF ReadText
    <3> QED BY <3>1, UneditedRests
  <2> QED BY <2>2, <2>3
<1> QED BY <1>1, <1>2

LEMMA GestureStep == ASSUME CommitGesture PROVE LineStep
<1>1. (\E g, s : Transact(g, s)) \/ UNCHANGED <<editVars, jobs>>
  BY DEF CommitGesture
<1>2. UNCHANGED <<editVars, jobs>> => UNCHANGED editVars
  OBVIOUS
<1> QED BY <1>1, <1>2, CommandIsEdit, UneditedRests

LEMMA CommandsAreEdits ==
  ASSUME \/ \E origin, kind, out : AddNode(origin, kind, out)
         \/ \E kind, a, b : Connect(kind, a, b) \/ \E e : Reconnect(e, kind, a, b)
         \/ \E e : RemoveEdge(e)
         \/ RemoveSelected \/ GroupSelection \/ \E m : Ungroup(m)
         \/ \E n : (\E side, show : PatchPorts(n, side, show)) \/ PatchPinned(n) \/ UpdateNode(n)
         \/ \E S : LayoutCommand(S)
  PROVE  LineStep
<1>1. ASSUME NEW origin, NEW kind, NEW out, AddNode(origin, kind, out) PROVE LineStep
  <2>1. \E g, s : Transact(g, s)
    BY <1>1 DEF AddNode
  <2> QED BY <2>1, CommandIsEdit
<1>2. ASSUME NEW kind, NEW a, NEW b, Connect(kind, a, b) PROVE LineStep
  BY <1>2, CommandIsEdit DEF Connect
<1>3. ASSUME NEW kind, NEW a, NEW b, NEW e, Reconnect(e, kind, a, b) PROVE LineStep
  BY <1>3, CommandIsEdit DEF Reconnect
<1>4. ASSUME NEW e, RemoveEdge(e) PROVE LineStep
  BY <1>4, CommandIsEdit DEF RemoveEdge
<1>5. ASSUME RemoveSelected \/ GroupSelection PROVE LineStep
  BY <1>5, CommandIsEdit DEF RemoveSelected, GroupSelection
<1>6. ASSUME NEW m, Ungroup(m) PROVE LineStep
  BY <1>6, CommandIsEdit DEF Ungroup
<1>7. ASSUME NEW n, NEW side, NEW show, PatchPorts(n, side, show) PROVE LineStep
  BY <1>7, CommandIsEdit DEF PatchPorts
<1>8. ASSUME NEW n, PatchPinned(n) \/ UpdateNode(n) PROVE LineStep
  BY <1>8, CommandIsEdit DEF PatchPinned, UpdateNode
<1>9. ASSUME NEW S, LayoutCommand(S) PROVE LineStep
  BY <1>9, CommandIsEdit DEF LayoutCommand
<1> QED BY <1>1, <1>2, <1>3, <1>4, <1>5, <1>6, <1>7, <1>8, <1>9

LEMMA EveryStepIsOfLine == ASSUME CanvasIInv, NilIsPlain, [CanvasNext]_canvasVars PROVE LineStep
<1>1. CASE UNCHANGED canvasVars
  <2>1. UNCHANGED editVars
    BY <1>1 DEF canvasVars, editVars
  <2> QED BY <2>1, UneditedRests
<1>2. ASSUME NEW S, Select(S) PROVE LineStep
  BY <1>2 DEF Select, LineStep, Rests, Version
<1>3. ASSUME NEW S, NEW clone, BeginDrag(S, clone) PROVE LineStep
  <2>1. UNCHANGED editVars
    BY <1>3 DEF BeginDrag
  <2> QED BY <2>1, UneditedRests
<1>4. ASSUME NEW e, BeginRoute(e) PROVE LineStep
  <2>1. UNCHANGED editVars
    BY <1>4 DEF BeginRoute
  <2> QED BY <2>1, UneditedRests
<1>5. ASSUME NEW s, (\E cmd : BeginClipboard(s, cmd)) \/ ClipboardFails(s) PROVE LineStep
  <2>1. UNCHANGED editVars
    BY <1>5 DEF BeginClipboard, ClipboardFails
  <2> QED BY <2>1, UneditedRests
<1>6. ASSUME NEW g, Install(g) PROVE LineStep
  <2>1. Opened(g)
    BY <1>6 DEF Install, Opened
  <2> QED BY <2>1 DEF LineStep
<1>7. CASE CancelGesture \/ Lock \/ Unlock
  <2>1. CancelLayout \/ UNCHANGED editVars
    BY <1>7 DEF CancelGesture, Lock, Unlock
  <2> QED BY <2>1, LayoutSteps, UneditedRests
<1>8. CASE CanvasNext
  <2>1. CASE UndoEdit \/ RedoEdit
    BY <2>1 DEF LineStep
  <2>2. CASE AddNode(Nil, "data", TRUE) \/ \E n \in NodeIds(graph), kind \in Kinds, out \in BOOLEAN : AddNode(n, kind, out)
    BY <2>2, CommandsAreEdits
  <2>3. ASSUME NEW a, NEW b, NEW kind, Connect(kind, a, b) \/ \E e \in graph.edges : Reconnect(e, kind, a, b)
        PROVE  LineStep
    BY <2>3, CommandsAreEdits
  <2>4. ASSUME NEW e, RemoveEdge(e) \/ BeginRoute(e) PROVE LineStep
    BY <1>4, <2>4, CommandsAreEdits
  <2>5. CASE RemoveSelected \/ GroupSelection \/ \E m \in graph.groups : Ungroup(m)
    BY <2>5, CommandsAreEdits
  <2>6. ASSUME NEW n, NEW side, NEW show, PatchPorts(n, side, show) PROVE LineStep
    BY <2>6, CommandsAreEdits
  <2>7. ASSUME NEW n \in NodeIds(graph), PatchPinned(n) \/ UpdateNode(n) \/ MoveNode(n) PROVE LineStep
    BY <2>7, CommandsAreEdits, LayoutSteps
  <2>8. ASSUME NEW S, LayoutCommand(S) PROVE LineStep
    BY <2>8, CommandsAreEdits
  <2>9. CASE CommitLayout \/ CancelGesture \/ Lock \/ Unlock \/ CommitGesture
    BY <1>7, <2>9, LayoutSteps, GestureStep
  <2>10. ASSUME NEW s \in Slots,
                \/ \E cmd \in {"copy", "cut", "paste", "pasteIncoming"} : BeginClipboard(s, cmd)
                \/ Written(s) \/ ReadText(s) \/ ClipboardFails(s)
         PROVE  LineStep
    BY <1>5, <2>10, ClipboardSteps
  <2> QED BY <1>2, <1>3, <1>6, <1>8, <2>1, <2>2, <2>3, <2>4, <2>5, <2>6, <2>7, <2>8, <2>9, <2>10 DEF CanvasNext
<1> QED BY <1>1, <1>8

\* On the line of versions, every step is a change, an undo, a redo, another document or none.
LEMMA LineNext ==
  ASSUME CanvasIInv, LineStep
  PROVE  \/ Line!Change(Version') \/ Line!Undo \/ Line!Redo \/ Line!Open(Version')
         \/ Version' = Version /\ Graphs(undos)' = Graphs(undos) /\ Graphs(redos)' = Graphs(redos)
<1>0. \A x : Line!Front(x) = Front(x) /\ Line!Last(x) = Last(x)
  BY DEF Line!Front, Line!Last, Front, Last
<1>1. History(undos) /\ History(redos) /\ EntryOK(Entry)
  BY DEF CanvasIInv, EntryOK, Entry
<1>2. ASSUME NEW g, Edited(g) PROVE Line!Change(Version') \/ (Version' = Version /\ undos' = undos /\ redos' = redos)
  <2>1. Version' = g
    BY <1>2 DEF Edited, Version
  <2>2. CASE undos' = Capped(Append(undos, IF held # Nil THEN held ELSE Entry)) /\ redos' = <<>>
    <3>1. PICK before : before = IF held # Nil THEN held ELSE Entry
      OBVIOUS
    <3>2. EntryOK(before) /\ before.graph = Version
      BY <3>1, BeforeOK, VersionBefore
    <3>3. Graphs(undos)' = Capped(Append(Graphs(undos), Version))
      <4>1. Graphs(Capped(Append(undos, before))) = Capped(Append(Graphs(undos), before.graph))
        BY <1>1, <3>2, GraphsCapped
      <4>2. Graphs(undos)' = Graphs(undos')
        BY DEF Graphs
      <4> QED BY <2>2, <3>1, <3>2, <4>1, <4>2
    <3>4. Graphs(redos)' = <<>>
      <4>1. Graphs(redos)' = Graphs(redos')
        BY DEF Graphs
      <4> QED BY <2>2, <4>1, GraphsOfNone
    <3> QED BY <3>3, <3>4 DEF Line!Change, Line!Newest, Capped, Graphs, Version
  <2>3. CASE g = Version /\ undos' = undos /\ redos' = redos
    BY <2>1, <2>3
  <2> QED BY <1>2, <2>2, <2>3 DEF Edited
<1>3. ASSUME NEW g, Opened(g) PROVE Line!Open(Version')
  <2>1. Graphs(undos)' = Graphs(undos') /\ Graphs(redos)' = Graphs(redos')
    BY DEF Graphs
  <2>2. Graphs(undos)' = <<>> /\ Graphs(redos)' = <<>>
    BY <1>3, <2>1, GraphsOfNone DEF Opened
  <2> QED BY <2>2 DEF Line!Open, Graphs, Version
<1>4. ASSUME UndoEdit PROVE Line!Undo
  <2>1. /\ undos # <<>> /\ undos' = Front(undos) /\ redos' = Append(redos, Entry) /\ graph' = Last(undos).graph
        /\ held = Nil /\ held' = Nil
    BY <1>4 DEF UndoEdit
  <2>2. Version = graph /\ Version' = Last(undos).graph /\ Entry.graph = graph
    BY <2>1 DEF Version, Entry
  <2>3. Graphs(undos)' = Graphs(undos') /\ Graphs(redos)' = Graphs(redos')
    BY DEF Graphs
  <2>4. /\ Graphs(undos) # <<>> /\ Graphs(undos)' = Front(Graphs(undos)) /\ Version' = Last(Graphs(undos))
        /\ Graphs(redos)' = Append(Graphs(redos), Version)
    BY <1>1, <2>1, <2>2, <2>3, GraphsShortened, GraphsAppended
  <2> QED BY <1>0, <2>4 DEF Line!Undo, Graphs, Version
<1>5. ASSUME RedoEdit PROVE Line!Redo
  <2>1. /\ redos # <<>> /\ redos' = Front(redos) /\ undos' = Append(undos, Entry) /\ graph' = Last(redos).graph
        /\ held = Nil /\ held' = Nil
    BY <1>5 DEF RedoEdit
  <2>2. Version = graph /\ Version' = Last(redos).graph /\ Entry.graph = graph
    BY <2>1 DEF Version, Entry
  <2>3. Graphs(undos)' = Graphs(undos') /\ Graphs(redos)' = Graphs(redos')
    BY DEF Graphs
  <2>4. /\ Graphs(redos) # <<>> /\ Graphs(redos)' = Front(Graphs(redos)) /\ Version' = Last(Graphs(redos))
        /\ Graphs(undos)' = Append(Graphs(undos), Version)
    BY <1>1, <2>1, <2>2, <2>3, GraphsShortened, GraphsAppended
  <2> QED BY <1>0, <2>4 DEF Line!Redo, Graphs, Version
<1>6. undos' = undos /\ redos' = redos => Graphs(undos)' = Graphs(undos) /\ Graphs(redos)' = Graphs(redos)
  BY DEF Graphs
<1> QED BY <1>2, <1>3, <1>4, <1>5, <1>6 DEF LineStep, Rests

\* Undo and redo walk one line of versions: every edit, absorbed or cancelled pointer
\* layout, late cut and paste, and finished gesture is a change of the version on
\* screen or none, and no version on the line is ever altered (pushHistory,
\* transaction, undo, redo, commitLayout, cancelLayout).
THEOREM HistoryLinear ==
  ASSUME NilIsPlain
  PROVE  CanvasSpec => HistoryIsLinear
<1>1. CanvasInit => Line!Init
  <2> SUFFICES ASSUME CanvasInit PROVE Line!Init
    OBVIOUS
  <2>1. undos = <<>> /\ redos = <<>> /\ held = Nil /\ graph \in Documents
    BY DEF CanvasInit
  <2>2. Graphs(undos) = <<>> /\ Graphs(redos) = <<>>
    BY <2>1, GraphsOfNone
  <2> QED BY <2>1, <2>2 DEF Line!Init, Graphs
<1>2. CanvasIInv /\ [CanvasNext]_canvasVars
      => [Line!Next]_<<[i \in DOMAIN undos |-> undos[i].graph], IF held # Nil THEN held.graph ELSE graph,
                       [i \in DOMAIN redos |-> redos[i].graph]>>
  <2> SUFFICES ASSUME CanvasIInv, [CanvasNext]_canvasVars
               PROVE  [Line!Next]_<<Graphs(undos), Version, Graphs(redos)>>
    BY DEF Graphs, Version
  <2>1. \/ Line!Change(Version') \/ Line!Undo \/ Line!Redo \/ Line!Open(Version')
        \/ Version' = Version /\ Graphs(undos)' = Graphs(undos) /\ Graphs(redos)' = Graphs(redos)
    BY EveryStepIsOfLine, LineNext
  <2> QED BY <2>1 DEF Line!Next, Version
<1>3. CanvasInit => CanvasIInv
  BY CanvasInitHolds
<1>4. CanvasIInv /\ [CanvasNext]_canvasVars => CanvasIInv'
  BY CanvasInductive
<1> QED BY <1>1, <1>2, <1>3, <1>4, PTL DEF CanvasSpec, HistoryIsLinear, Line!Spec

-----------------------------------------------------------------------------
(* The canvas: a cut removes what it has copied.                             *)

\* Only the flags of the requests in flight change.
Flagged == jobs' \in {jobs, Touched(jobs), Overtaken(jobs), Overtaken(Touched(jobs))}

LEMMA FlaggedLives ==
  ASSUME CanvasIInv, NilIsPlain, Flagged, NEW s \in Slots, jobs[s] # Nil
  PROVE  jobs'[s] # Nil
<1>1. ASSUME NEW js, Requests(js), js[s] # Nil PROVE Touched(js)[s] # Nil /\ Overtaken(js)[s] # Nil
  <2>1. IsBound(js[s])
    BY <1>1 DEF Requests, JobOK
  <2>2. PICK b, c : b = [js[s] EXCEPT !.touched = TRUE] /\ c = [js[s] EXCEPT !.live = FALSE]
    OBVIOUS
  <2>3. "graph" \in DOMAIN js[s]
    BY <2>1 DEF IsBound
  <2>4. "graph" \in DOMAIN b /\ "graph" \in DOMAIN c
    BY <2>2, <2>3
  <2>5. b # Nil /\ c # Nil
    BY <2>4 DEF NilIsPlain
  <2> QED BY <1>1, <2>2, <2>5 DEF Touched, Overtaken
<1>2. Requests(jobs) /\ Requests(Touched(jobs))
  BY RequestsKept DEF CanvasIInv
<1>3. Touched(jobs)[s] # Nil /\ Overtaken(jobs)[s] # Nil
  BY <1>1, <1>2
<1>4. Overtaken(Touched(jobs))[s] # Nil
  <2>1. PICK js : js = Touched(jobs)
    OBVIOUS
  <2> QED BY <1>1, <1>2, <1>3, <2>1
<1> QED BY <1>3, <1>4 DEF Flagged

LEMMA AnswersEndRequests ==
  ASSUME CanvasNext, graph' # graph
  PROVE  Flagged \/ \E t \in Slots : Written(t) \/ ReadText(t)
<1>1. ASSUME NEW g, NEW s, Push(g, s) \/ Transact(g, s) PROVE Flagged
  BY <1>1 DEF Push, Transact, Flagged
<1>2. CASE UndoEdit \/ RedoEdit
  BY <1>2 DEF UndoEdit, RedoEdit, Flagged
<1>3. ASSUME NEW origin, NEW kind, NEW out, AddNode(origin, kind, out) PROVE Flagged
  <2>1. \E g, s : Transact(g, s)
    BY <1>3 DEF AddNode
  <2> QED BY <1>1, <2>1
<1>4. ASSUME NEW a, NEW b, NEW kind, Connect(kind, a, b) \/ \E e \in graph.edges : Reconnect(e, kind, a, b) PROVE Flagged
  <2>1. \E g, s : Push(g, s) \/ Transact(g, s)
    BY <1>4 DEF Connect, Reconnect
  <2> QED BY <1>1, <2>1
<1>5. ASSUME NEW e, RemoveEdge(e) \/ BeginRoute(e) PROVE Flagged
  <2>1. ~BeginRoute(e)
    BY DEF BeginRoute, editVars
  <2> QED BY <1>1, <1>5, <2>1 DEF RemoveEdge
<1>6. CASE RemoveSelected \/ GroupSelection \/ \E m \in graph.groups : Ungroup(m)
  <2>1. \E g, s : Push(g, s)
    BY <1>6 DEF RemoveSelected, GroupSelection, Ungroup
  <2> QED BY <1>1, <2>1
<1>7. ASSUME NEW n, NEW side, NEW show, PatchPorts(n, side, show) PROVE Flagged
  BY <1>1, <1>7 DEF PatchPorts
<1>8. ASSUME NEW n, PatchPinned(n) \/ UpdateNode(n) \/ MoveNode(n) PROVE Flagged
  <2>1. (\E g, s : Push(g, s) \/ Transact(g, s)) \/ jobs' = Touched(jobs)
    BY <1>8 DEF PatchPinned, UpdateNode, MoveNode
  <2> QED BY <1>1, <2>1 DEF Flagged
<1>9. ASSUME NEW S, Select(S) \/ LayoutCommand(S) PROVE Flagged
  <2>1. (\E g, s : Transact(g, s)) \/ jobs' = Touched(jobs)
    BY <1>9 DEF Select, LayoutCommand
  <2> QED BY <1>1, <2>1 DEF Flagged
<1>10. ASSUME NEW S, NEW clone PROVE ~BeginDrag(S, clone)
  BY DEF BeginDrag, editVars
<1>11. CASE CommitLayout \/ CancelGesture \/ Lock \/ Unlock \/ CommitGesture
  <2>1. ~Unlock
    BY DEF Unlock, editVars
  <2>2. CASE CommitLayout
    BY <2>2 DEF CommitLayout, Flagged
  <2>3. CASE CancelGesture \/ Lock
    BY <2>3 DEF CancelGesture, Lock, CancelLayout, Flagged
  <2>4. CASE CommitGesture
    <3>1. (\E g, s : Transact(g, s)) \/ jobs' = jobs
      BY <2>4 DEF CommitGesture
    <3> QED BY <1>1, <3>1 DEF Flagged
  <2> QED BY <1>11, <2>1, <2>2, <2>3, <2>4
<1>12. ASSUME NEW s \in Slots,
              \/ \E cmd \in {"copy", "cut", "paste", "pasteIncoming"} : BeginClipboard(s, cmd)
              \/ Written(s) \/ ReadText(s) \/ ClipboardFails(s)
       PROVE  Written(s) \/ ReadText(s)
  BY <1>12 DEF BeginClipboard, ClipboardFails, editVars
<1>13. ASSUME NEW g, Install(g) PROVE Flagged
  BY <1>13 DEF Install, Flagged
<1> QED BY <1>2, <1>3, <1>4, <1>5, <1>6, <1>7, <1>8, <1>9, <1>10, <1>11, <1>12, <1>13 DEF CanvasNext

\* What a cut removes when it is answered is what was selected when it was asked for.
LEMMA CutStep ==
  ASSUME CanvasIInv, NilIsPlain, [CanvasNext]_canvasVars, NEW s \in Slots,
         jobs[s] # Nil, jobs[s].cmd = "cut", jobs'[s] = Nil, graph' # graph
  PROVE  /\ clip' = jobs[s].frag
         /\ \A n \in NodeIds(graph) \ NodeIds(graph') : n \in DOMAIN clip'.nodes /\ clip'.nodes[n] = graph.nodes[n]
<1>1. CanvasNext
  BY DEF canvasVars
<1>2. PICK t \in Slots : Written(t) \/ ReadText(t)
  BY <1>1, AnswersEndRequests, FlaggedLives
<1>3. t = s
  <2> SUFFICES ASSUME t # s PROVE FALSE
    OBVIOUS
  <2>1. jobs' = [jobs EXCEPT ![t] = Nil] \/ jobs' = [Touched(jobs) EXCEPT ![t] = Nil]
    BY <1>2 DEF Written, ReadText
  <2>2. PICK js : js \in {jobs, Touched(jobs)} /\ jobs' = [js EXCEPT ![t] = Nil]
    BY <2>1
  <2>3. jobs'[s] = js[s]
    <3>1. DOMAIN js = Slots
      BY <2>2 DEF CanvasIInv, Requests, Touched
    <3> QED BY <2>2, <3>1
  <2>4. js[s] # Nil
    <3>1. IsBound(jobs[s])
      BY DEF CanvasIInv, Requests, JobOK
    <3>2. PICK b : b = [jobs[s] EXCEPT !.touched = TRUE]
      OBVIOUS
    <3>3. "graph" \in DOMAIN b
      BY <3>1, <3>2 DEF IsBound
    <3>4. Touched(jobs)[s] = b /\ b # Nil
      BY <3>2, <3>3 DEF Touched, NilIsPlain
    <3> QED BY <2>2, <3>4
  <2> QED BY <2>3, <2>4
<1>4. Written(s)
  <2>1. ~ReadText(s)
    BY DEF ReadText
  <2> QED BY <1>2, <1>3, <2>1
<1>5. CurrentBinding(jobs[s], TRUE, FALSE) /\ graph' = Without(graph, sel) /\ clip' = jobs[s].frag
  <2>1. CurrentBinding(jobs[s], TRUE, FALSE)
    BY <1>4 DEF Written, editVars
  <2> QED BY <1>4, <2>1 DEF Written
<1>6. jobs[s].graph = graph /\ jobs[s].sel = sel
  BY <1>5 DEF CurrentBinding
<1>7. clip'.nodes = [n \in sel |-> graph.nodes[n]]
  BY <1>5, <1>6 DEF CanvasIInv, Requests, JobOK
<1>8. NodeIds(graph') = NodeIds(graph) \ sel
  <2>1. Sound(graph)
    BY DEF CanvasIInv
  <2> QED BY <1>5, <2>1, WithoutOf
<1> QED BY <1>5, <1>7, <1>8

\* However late the browser answers, a cut removes only what it wrote to the
\* clipboard, as it was written (clipboard in flow-interactions.ts).
THEOREM CutsAreCopied ==
  ASSUME NilIsPlain
  PROVE  CanvasSpec => CutIsCopied
<1> DEFINE Copied == \A s \in Slots :
       (/\ jobs[s] # Nil /\ jobs[s].cmd = "cut" /\ jobs'[s] = Nil
        /\ graph' # graph)
       => /\ clip' = jobs[s].frag
          /\ \A n \in NodeIds(graph) \ NodeIds(graph') :
               n \in DOMAIN clip'.nodes /\ clip'.nodes[n] = graph.nodes[n]
<1>1. CanvasIInv /\ [CanvasNext]_canvasVars => Copied
  BY CutStep
<1>2. CanvasInit => CanvasIInv
  BY CanvasInitHolds
<1>3. CanvasIInv /\ [CanvasNext]_canvasVars => CanvasIInv'
  BY CanvasInductive
<1>4. CanvasSpec => [][Copied]_canvasVars
  <2> HIDE DEF Copied
  <2> QED BY <1>1, <1>2, <1>3, PTL DEF CanvasSpec
<1> QED BY <1>4 DEF CutIsCopied

-----------------------------------------------------------------------------
(* The client: its views together.                                           *)

\* The seat and the Run view show what belongs to the Session and the Run they are
\* bound to, whatever the requests and answers that overtake one another; the button
\* pressed again on a gate settles one gate while the document stays loaded, and a
\* decision settles a gate its user did not see only after another client, an earlier
\* load or the other button (conversation-controller.ts, client-model.ts,
\* workspace-run-use-cases.ts).
THEOREM ViewsHold == ConvSpec /\ RunViewSpec => []ViewsKept
<1>1. ConvSpec => [](ConvTypeOK /\ ShowsItsSession /\ AttemptIsShown /\ PausedIsStale)
  BY SeatKept
<1>2. RunViewSpec => [](RunViewTypeOK /\ ViewIsOfBound /\ RepeatedDecisionSettlesOnce /\ DecisionMissesOnlyForOthers)
  BY RunViewKept
<1> QED BY <1>1, <1>2, PTL DEF ViewsKept

\* No view goes back to an older picture of a Run, and a cut removes only what it has
\* copied (conversation-controller.ts, client-model.ts, flow-interactions.ts).
THEOREM PicturesForward ==
  ASSUME NilIsPlain
  PROVE  CanvasSpec /\ ConvSpec /\ RunViewSpec => PictureSteps
BY CutsAreCopied, SeatForward, RunPictureForward DEF PictureSteps
==============================================================================
