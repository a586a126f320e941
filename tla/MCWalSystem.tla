----------------------------- MODULE MCWalSystem -----------------------------
(* Model-checking instance of WalSystem: two pages, two payloads, rotation *)
(* after every transaction.                                                *)
EXTENDS WalSystem

CONSTANTS pa, pb, i0, i1, i2, NP, NI

MCPages == {pa, pb}
MCImages == {i0, i1, i2}
=============================================================================
