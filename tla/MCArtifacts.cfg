SPECIFICATION Spec
CONSTANTS
    r1 = r1
    r2 = r2
    r3 = r3
    joinSplit = joinSplit
    joinSplitNext = joinSplitNext
    v1 = v1 v2 = v2
    Torn = Torn
    Releases = {r1, r2, r3}
    Circuit <- MCCircuit Id <- MCId
    SdkRelease = r1
    Workers = {r1, r2, r3}
INVARIANTS ProgramIsPinned QuietWorkerIsPinned AnswersFitProgram
