SPECIFICATION LibSpec
CONSTANTS
    MaxLibCalls = 6
    MaxThreads = 2
INVARIANTS
    GlobalsKept
    CodeMapped
CHECK_DEADLOCK FALSE
