CONSTANTS
    Calls = {c1, c2}
    Saves = {s1, s2}
    RunIds = {r1}
    UnsafeId = UnsafeId
    Text <- MCText
    Drafts <- MCDrafts
    InputSets <- MCInputSets
    Outcomes <- MCOutcomes
    RuntimeResults <- MCResults
    Registered = {"noop", "text", "flaky"}
    Scenarios <- MCScenarios
    None = None
    Absent = Absent
    Empty = Empty
    Torn = Torn
    LongLines = {"error"}
    MaxDepth = 4
    MaxFaults = 1
    MaxKills = 1
SPECIFICATION ServerSpec
SYMMETRY Symmetry

INVARIANT StepsInOrder
INVARIANT SortIsSound
INVARIANT LogTellsRun
INVARIANT QuietFileLoads
