--------------------------- MODULE MCAdapterScopes ---------------------------
(* Finite instances of AdapterScopes.                                      *)
EXTENDS AdapterScopes

AllAdapters == {"mysql", "sqlserver", "oracle", "db2"}
=============================================================================
