SPECIFICATION Spec
CONSTANTS
    Files <- AdapterFiles
    BlockNames <- MCBlockNames
    Blocks <- AdapterBlocks
    HandlersOf <- MCHandlersOf
    Entries <- AdapterEntries
    ReturnCodes <- MCReturnCodes
    EvidenceOf <- MCEvidence
INVARIANTS ToolInv ResultsAreBacked ToolsSeeWholeFiles ZeroExitIsSuccess EvidenceIsKept ExitAgrees
PROPERTIES VerdictsStand
CHECK_DEADLOCK FALSE
