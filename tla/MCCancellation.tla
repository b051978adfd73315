--------------------------- MODULE MCCancellation ---------------------------
(* Finite instances of Cancellation.                                       *)
EXTENDS Cancellation

CONSTANTS t1, t2, a, b, w1, c1, c2

OneToken == {t1}
TwoTokens == {t1, t2}
OneThread == {a}
TwoThreads == {a, b}
OneWaiter == {w1}
NoWaiters == {}
TwoContexts == {c1, c2}
OneContext == {c1}
=============================================================================
