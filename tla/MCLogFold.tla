------------------------------ MODULE MCLogFold ------------------------------
(* Small logs of one proposal: two commits, two comments, two checks, and  *)
(* an answer to each comment in the note of each commit.                   *)
EXTENDS Overview

CONSTANTS c1, c2, n1, n2, r1, r2, r3, r4, w1, w2

MCHome ==
    (n1 :> c1) @@ (r1 :> c1) @@ (r4 :> c1) @@ (w1 :> c1)
    @@ (n2 :> c2) @@ (r2 :> c2) @@ (r3 :> c2) @@ (w2 :> c2)
MCReplyTo  == (r1 :> n1) @@ (r2 :> n1) @@ (r3 :> n2) @@ (r4 :> n2)
MCRequired == <<"test">>
=============================================================================
