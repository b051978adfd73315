-------------------------- MODULE MCEngineSession --------------------------
(* Finite instances of EngineSession.                                      *)
EXTENDS EngineSession

CONSTANTS s1, s2, c1

TwoSessions == {s1, s2}
OneCaller == {c1}
BothForms == {"borrowed", "owned"}
=============================================================================
