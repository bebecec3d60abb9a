------------------------------- MODULE MCRunner -------------------------------
(* Two processes that may run as runners, and one or two proposals.        *)
EXTENDS Runner

CONSTANTS r1, r2
=============================================================================
