------------------------------ MODULE MCWalLog ------------------------------
(* Model-checking instance of WalLog: one page, one image, a small         *)
(* threshold so that rotations (and delayed rotations) happen.            *)
EXTENDS WalLog

CONSTANTS p1, i1, NP, NI

MCPages == {p1}
MCImages == {i1}
=============================================================================
