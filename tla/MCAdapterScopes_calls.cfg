\* Scopes of up to three statements on each adapter.
SPECIFICATION Spec
CONSTANTS
    MaxStatements = 3
    ScopeAdapters <- AllAdapters
INVARIANTS CommittedIsWhole NothingEscapes RolledBackIsUndone KeptIsClean
CHECK_DEADLOCK FALSE
