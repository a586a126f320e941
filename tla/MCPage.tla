------------------------------- MODULE MCPage -------------------------------
(* Model-checking instance of Page: two pages.                             *)
EXTENDS Page

CONSTANTS pa, pb

MCPageIds == {pa, pb}
=============================================================================
