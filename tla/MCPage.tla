-------------------------------- MODULE MCPage --------------------------------
(* Diffs of a file or two, and a few notes.                                *)
EXTENDS Page, TLC

CONSTANTS a, b, nowhere, scrap

Symmetric == Permutations(Names)
=============================================================================
