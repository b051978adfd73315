---------------------------- MODULE MCEngineCache ----------------------------
(* Finite instances of EngineCache.                                        *)
EXTENDS EngineCache, TLC

CONSTANTS t1, t2, table, caps

TwoTasks == {t1, t2}
BothKeys == {table, caps}
TaskSymmetry == Permutations(TwoTasks)
=============================================================================
