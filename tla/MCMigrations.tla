---------------------------- MODULE MCMigrations ----------------------------
(* Finite instances of Migrations: a revision declared before its parent.  *)
EXTENDS Migrations

Chain == 1 .. 2
ChildFirst == [r \in Chain |-> IF r = 1 THEN {2} ELSE {}]
AllProviders == {"postgres", "db2", "oracle"}
=============================================================================
