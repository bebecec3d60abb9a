------------------------------ MODULE MCSurface ------------------------------
(* One or two streams over a log of refs and notes.                        *)
EXTENDS Surface, TLC

CONSTANTS r1, r2, refs, notes

RefsThenNotes == <<refs, notes>>
=============================================================================
