---------------------------- MODULE MCWalIterator ----------------------------
(* The iterator over the writer's files, for TLC: one page, one image.     *)
EXTENDS WalIterator

CONSTANTS p1, i1, NP, NI

MCPages == {p1}
MCImages == {i1}

=============================================================================
