----------------------------- MODULE BudgetLedger -----------------------------
(***************************************************************************)
(* What a ResourceBudget promises: a quota of each kind, lent to one       *)
(* operation at a time, given back or consumed for good, and never created *)
(* or lost.  Every operation on it is one indivisible step.                *)
(***************************************************************************)
EXTENDS Naturals

CONSTANTS
    Agent, \* the operations that share the budget
    Kind,  \* ResourceKind
    Limit  \* ResourceLimits, by kind

VARIABLES
    left,  \* what may still be lent, by kind
    lease, \* what each operation has on loan
    spent  \* what has been consumed for good

ledger == <<left, lease, spent>>

LedgerInit ==
    /\ left = Limit
    /\ lease = [a \in Agent |-> [k \in Kind |-> 0]]
    /\ spent = [k \in Kind |-> 0]

\* n of the quota is lent to an operation that has none of that kind.
Lend(a, k, n) ==
    /\ lease[a][k] = 0 /\ n > 0 /\ n <= left[k]
    /\ left' = [left EXCEPT ![k] = @ - n]
    /\ lease' = [lease EXCEPT ![a][k] = n]
    /\ UNCHANGED spent

\* A loan ends: n of it are consumed, the rest goes back.
Settle(a, k, n) ==
    /\ lease[a][k] > 0 /\ n <= lease[a][k]
    /\ left' = [left EXCEPT ![k] = @ + (lease[a][k] - n)]
    /\ lease' = [lease EXCEPT ![a][k] = 0]
    /\ spent' = [spent EXCEPT ![k] = @ + n]

LedgerNext ==
    \E a \in Agent, k \in Kind : \E n \in 0 .. Limit[k] : Lend(a, k, n) \/ Settle(a, k, n)

LedgerSpec == LedgerInit /\ [][LedgerNext]_ledger
=============================================================================
