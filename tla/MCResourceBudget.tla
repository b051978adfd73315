--------------------------- MODULE MCResourceBudget ---------------------------
(* Finite instances of ResourceBudget.                                     *)
EXTENDS ResourceBudget

CONSTANTS r, w

ReaderAndWriter == {r, w}
JustW == {w}
JustR == {r}

\* Room for two operations of one column each, and for two batches.
Tight == [k \in Kind |-> CASE k = "operations" -> 2 [] k = "columns" -> 2
                          [] k = "geometry" -> 1 [] OTHER -> 2]
=============================================================================
