---------------------------- MODULE MCDurableStore ----------------------------
(* Files are interchangeable.                                              *)
EXTENDS DurableStore, TLC

Interchangeable == Permutations(File)

===============================================================================
