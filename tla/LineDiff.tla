------------------------------ MODULE LineDiff -------------------------------
(***************************************************************************)
(* The unified diffs of fs_edit and fs_edit_batch and the patches of       *)
(* fs_patch (fs/write.rs): diff_lines (Myers' O(ND) search, one step per   *)
(* edit distance, and its backtracking, one step per edit), group_hunks,   *)
(* the text that make_unified_diff writes and parse_unified_diff reads,    *)
(* and apply_hunks.  A line is its text and whether a carriage return ends *)
(* it; the one trailing newline both sides strip is left out.              *)
(***************************************************************************)
EXTENDS Integers, Sequences, FiniteSets, SequencesExt

CONSTANTS Lines,         \* a set of [text, cr]
          MaxLines,      \* bound: lines of a file
          DiffContext    \* DIFF_CONTEXT_LINES

VARIABLES dfOld, dfNew,  \* the two files
          dfPhase,       \* "search", "backtrack", "print", "patch", "done"
          dfReach,       \* v: the furthest old index on every diagonal
          dfTrace,       \* the v before each distance searched
          dfAt,          \* where the backtracking stands
          dfOps,         \* the edit script
          dfHunks,       \* the hunks of the diff
          dfOut          \* what fs_patch makes of the old file, empty if it refuses

dfVars == <<dfOld, dfNew, dfPhase, dfReach, dfTrace, dfAt, dfOps, dfHunks, dfOut>>

DfFiles == UNION {[1..n -> Lines] : n \in 1..MaxLines}
Most == Len(dfOld) + Len(dfNew)
Least(S) == CHOOSE x \in S : \A y \in S : x <= y
Largest(S) == CHOOSE x \in S : \A y \in S : x >= y

----------------------------------------------------------------------------
(* diff_lines. *)

\* The step to diagonal k at distance d comes from above (an insertion).
Down(v, d, k) == k = -d \/ (k # d /\ v[k - 1] < v[k + 1])

\* How far two equal runs go on from (x, y).
Snake(x, y) ==
    Largest({s \in 0..Len(dfOld) :
       s = 0 \/ (x + s <= Len(dfOld) /\ y >= 0 /\ y + s <= Len(dfNew)
                 /\ \A i \in 1..s : dfOld[x + i] = dfNew[y + i])})

Furthest(v, d, k) ==
    LET x == IF Down(v, d, k) THEN v[k + 1] ELSE v[k - 1] + 1
    IN x + Snake(x, x - k)

Round(v, d) ==
    [k \in -Most..Most |-> IF k \in -d..d /\ (k + d) % 2 = 0 THEN Furthest(v, d, k) ELSE v[k]]

Reached(v, d) ==
    \E k \in -d..d : (k + d) % 2 = 0 /\ v[k] >= Len(dfOld) /\ v[k] - k >= Len(dfNew)

DfSearch ==
    LET d == Len(dfTrace)
        v == Round(dfReach, d)
    IN /\ dfPhase = "search"
       /\ dfTrace' = Append(dfTrace, dfReach)
       /\ dfReach' = v
       /\ dfPhase' = IF Reached(v, d) THEN "backtrack" ELSE "search"
       /\ UNCHANGED <<dfOld, dfNew, dfAt, dfOps, dfHunks, dfOut>>

\* Where the script stood before its d-th edit.
Came(d) ==
    LET v == dfTrace[d + 1]
        k == dfAt.x - dfAt.y
        from == IF Down(v, d, k) THEN k + 1 ELSE k - 1
    IN IF d = 0 THEN [x |-> 0, y |-> 0] ELSE [x |-> v[from], y |-> v[from] - from]

DfBacktrack ==
    LET d == Len(dfTrace) - 1
        prev == Came(d)
        keeps == Least({dfAt.x - prev.x, dfAt.y - prev.y})
        edit == IF d = 0 THEN <<>>
                ELSE IF dfAt.x - keeps = prev.x THEN <<"insert">> ELSE <<"delete">>
    IN /\ dfPhase = "backtrack"
       /\ dfOps' = edit \o [i \in 1..keeps |-> "keep"] \o dfOps
       /\ dfAt' = prev
       /\ dfTrace' = Front(dfTrace)
       /\ dfPhase' = IF d = 0 THEN "print" ELSE "backtrack"
       /\ UNCHANGED <<dfOld, dfNew, dfReach, dfHunks, dfOut>>

----------------------------------------------------------------------------
(* group_hunks. *)

OldAt(i) == Cardinality({j \in 1..(i - 1) : dfOps[j] # "insert"})
NewAt(i) == Cardinality({j \in 1..(i - 1) : dfOps[j] # "delete"})

\* The maximal runs of edits, as positions in the script.
Positions == [i \in 1..Len(dfOps) |-> i]
Regions ==
    LET opens(i) == dfOps[i] # "keep" /\ (i = 1 \/ dfOps[i - 1] = "keep")
        last(i) == Largest({j \in i..Len(dfOps) : \A l \in i..j : dfOps[l] # "keep"})
        first == SelectSeq(Positions, opens)
    IN [n \in 1..Len(first) |->
          [from |-> OldAt(first[n]), to |-> OldAt(last(first[n]) + 1), new |-> NewAt(first[n])]]

\* The region with its context, merged into the window before it if they meet.
Widened(windows, region) ==
    LET from == Largest({0, region.from - DiffContext})
        to == Least({region.to + DiffContext, Len(dfOld)})
    IN IF windows # <<>> /\ from <= Last(windows).to
       THEN Append(Front(windows), [Last(windows) EXCEPT !.to = Largest({@, to})])
       ELSE Append(windows, [from |-> from, to |-> to, new |-> region.new - (region.from - from)])

Windows == FoldLeft(Widened, <<>>, Regions)

\* The rows of one window: an insertion at its very end belongs to it.
Row(i) == [op |-> dfOps[i],
           line |-> IF dfOps[i] = "insert" THEN dfNew[NewAt(i) + 1] ELSE dfOld[OldAt(i) + 1]]
InWindow(w, i) ==
    OldAt(i) >= w.from /\ (OldAt(i) < w.to \/ (OldAt(i) = w.to /\ dfOps[i] = "insert"))
Body(w) == LET rows == SelectSeq(Positions, LAMBDA i : InWindow(w, i))
           IN [n \in 1..Len(rows) |-> Row(rows[n])]

DfPrint ==
    /\ dfPhase = "print"
    /\ dfHunks' = [n \in 1..Len(Windows) |->
                     [start |-> Windows[n].from + 1, body |-> Body(Windows[n])]]
    /\ dfPhase' = "patch"
    /\ UNCHANGED <<dfOld, dfNew, dfReach, dfTrace, dfAt, dfOps, dfOut>>

----------------------------------------------------------------------------
(* fs_patch. *)

\* str::lines ends a line at "\n" and at "\r\n".
ReadLine(line) == [line EXCEPT !.cr = FALSE]

Side(hunk, dropped) ==
    LET rows == SelectSeq(hunk.body, LAMBDA r : r.op # dropped)
    IN [n \in 1..Len(rows) |-> ReadLine(rows[n].line)]
OldSide(hunk) == Side(hunk, "insert")
NewSide(hunk) == Side(hunk, "delete")

Conflict == [out |-> <<>>, cursor |-> -1]

\* One hunk of apply_hunks: copy up to its start, compare, take the new side.
ApplyHunk(done, hunk) ==
    LET at == hunk.start - 1
        old == OldSide(hunk)
    IN IF done = Conflict \/ at < done.cursor THEN Conflict
       ELSE IF ~\A i \in 1..Len(old) : at + i <= Len(dfOld) /\ dfOld[at + i] = old[i] THEN Conflict
       ELSE [out |-> done.out \o SubSeq(dfOld, done.cursor + 1, at) \o NewSide(hunk),
             cursor |-> at + Len(old)]

\* A diff without hunks is refused: "no hunks found in the unified diff".
DfPatch ==
    LET done == FoldLeft(ApplyHunk, [out |-> <<>>, cursor |-> 0], dfHunks)
    IN /\ dfPhase = "patch"
       /\ dfOut' = IF dfHunks = <<>> \/ done = Conflict THEN Conflict.out
                   ELSE done.out \o SubSeq(dfOld, done.cursor + 1, Len(dfOld))
       /\ dfPhase' = "done"
       /\ UNCHANGED <<dfOld, dfNew, dfReach, dfTrace, dfAt, dfOps, dfHunks>>

DfInit ==
    /\ dfOld \in DfFiles /\ dfNew \in DfFiles
    /\ dfPhase = "search"
    /\ dfReach = [k \in -Most..Most |-> 0]
    /\ dfTrace = <<>>
    /\ dfAt = [x |-> Len(dfOld), y |-> Len(dfNew)]
    /\ dfOps = <<>> /\ dfHunks = <<>> /\ dfOut = <<>>

DfNext == DfSearch \/ DfBacktrack \/ DfPrint \/ DfPatch
DfSpec == DfInit /\ [][DfNext]_dfVars

----------------------------------------------------------------------------
(* Properties. *)

\* The length of a longest common subsequence, by the textbook recurrence.
LcsLength ==
    LET L[i \in 0..Len(dfOld), j \in 0..Len(dfNew)] ==
          IF i = 0 \/ j = 0 THEN 0
          ELSE IF dfOld[i] = dfNew[j] THEN L[i - 1, j - 1] + 1
          ELSE Largest({L[i - 1, j], L[i, j - 1]})
    IN L[Len(dfOld), Len(dfNew)]

\* diff_lines finds an edit script of least length that turns the old file into
\* the new one: its deletions and insertions number n + m - 2 lcs.
ScriptShortest ==
    dfPhase = "print" =>
       /\ Cardinality({i \in 1..Len(dfOps) : dfOps[i] # "keep"}) = Most - 2 * LcsLength
       /\ \A i \in 1..Len(dfOps) : dfOps[i] = "keep" => dfOld[OldAt(i) + 1] = dfNew[NewAt(i) + 1]

\* What fs_patch makes of the old file with the printed diff: the new one, except
\* that the lines it inserts have lost their carriage returns.
Repatched ==
    [j \in 1..Len(dfNew) |->
       IF \E i \in 1..Len(dfOps) : dfOps[i] = "insert" /\ NewAt(i) + 1 = j
       THEN ReadLine(dfNew[j]) ELSE dfNew[j]]

\* A hunk shows a line of the old file that ends in a carriage return.
ShowsReturn ==
    \E n \in 1..Len(dfHunks) :
       \E row \in ToSet(dfHunks[n].body) : row.op # "insert" /\ row.line.cr

\* A printed diff is "re-applicable by fs_patch's parser", whatever the hunks and
\* their context: applied to the old file it yields the new one.  The two line
\* models differ on a text with CRLF line ends: fs_patch refuses a diff that shows
\* such a line of the old file, and drops the carriage return of one it inserts.  A
\* diff of equal files has no hunk and is refused.
PatchReproduces ==
    dfPhase = "done" /\ dfOld # dfNew => dfOut = IF ShowsReturn THEN Conflict.out ELSE Repatched
=============================================================================
