\* A spatial read beside a write, against the ledger too.
SPECIFICATION BudgetSpec
CONSTANTS
    r = r  w = w
    Agent <- ReaderAndWriter
    Writer <- JustW
    Spatial <- JustR
    Limit <- Tight
    MaxColumns = 2
    BatchRows = 2
    MaxBytes = 2
    MaxParts = 1
INVARIANTS Conservation ReturnsFit NothingLeaks DeliveredIsPaid
PROPERTIES ImplementsLedger
