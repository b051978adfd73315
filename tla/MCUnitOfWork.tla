---------------------------- MODULE MCUnitOfWork ----------------------------
(* Finite instances of UnitOfWork.                                         *)
EXTENDS UnitOfWork, TLC

CONSTANTS s1, s2, k1, a, b

TwoSessions == {s1, s2}
OneKey == {k1}
TwoValues == {a, b}
Symm == Permutations(TwoSessions) \cup Permutations(TwoValues)
=============================================================================
