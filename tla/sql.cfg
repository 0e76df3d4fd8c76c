SPECIFICATION Spec
CONSTANTS
    Fragments <- MCFragments
    Known <- MCKnown
    Values <- MCValues
INVARIANTS TokensTile StatementsTile NodesReadBack StatementsJoin BackendReadsTheSame
CHECK_DEADLOCK FALSE
