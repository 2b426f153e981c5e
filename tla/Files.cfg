SPECIFICATION FilesSpec
CONSTANTS
    Paths = {"p", "q"}
    Values = {"v0", "v1", "v2"}
    Empty = "v0"
    Absent = "absent"
    Whatever = "any"
    FsCalls = {"edit", "cas", "patch", "replace", "batch", "multi", "dry", "create", "undoEdit", "commit", "undo1", "undo2"}
    Request <- RequestDef
    FsTogether <- TogetherDef
    MaxOutside = 1
    MaxFaults = 2
    srcA = srcA
    srcB = srcB
    destD = destD
    destE = destE
    Places = {srcA, srcB, destD, destE}
    Parts = {1, 2}
    Nothing = Nothing
    Layouts <- LayoutsDef
    MvCalls = {"replace", "away", "rival", "copyOver", "copyNew", "remove", "rmdir", "tidy"}
    MvRequest <- MvRequestDef
    MvFaults = 2
    Lines <- MCLines
    MaxLines = 4
    DiffContext = 1
    MvTogether <- MvApart
    c1 = c1
    c2 = c2
    t1 = t1
    t2 = t2
    f1 = f1
    f2 = f2
    Callers = {c1, c2}
    Talks = {t1, t2}
    TalkOf <- MCTalkOf
    FFiles = {f1, f2}
    Texts = {"v0", "v1"}
    Edits <- MCEdits
    Gone = Gone
    MaxWrites = 2
    MaxToolCalls = 2
INVARIANT FilesKept
PROPERTY FileSteps
CHECK_DEADLOCK FALSE
