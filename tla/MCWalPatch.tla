------------------------------ MODULE MCWalPatch ------------------------------
EXTENDS WalPatch

CONSTANTS pa, pb, i0, i1, i2, NP, NI

MCPages == {pa, pb}
MCImages == {i0, i1, i2}
=============================================================================
