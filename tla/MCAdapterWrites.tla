--------------------------- MODULE MCAdapterWrites ---------------------------
(* Finite instances of AdapterWrites.                                      *)
EXTENDS AdapterWrites

AllAdapters == Adapter
=============================================================================
