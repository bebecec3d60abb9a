----------------------------- MODULE MCProposals -----------------------------
(* Small repositories for the commands.                                    *)
(*                                                                         *)
(*      m1           d1              main starts at base, topic at a1      *)
(*      |            |               proposal p: a1, then a2, a3, a4       *)
(*    base -- a1 -- a2 -- a3 -- a4   proposal q, stacked on p: d1          *)
EXTENDS Proposals, TLC

CONSTANTS base, m1, a1, a2, a3, a4, d1, p, q, x, y

(* The commits below each commit, itself included.                         *)
Below == (base :> {base}) @@ (m1 :> {base, m1}) @@ (a1 :> {base, a1})
         @@ (a2 :> {base, a1, a2}) @@ (a3 :> {base, a1, a2, a3})
         @@ (a4 :> {base, a1, a2, a3, a4})
         @@ (d1 :> {base, a1, a2, d1})

MCHistory == {e \in Commits \X Commits : e[1] \in Below[e[2]]}

FirstOfEach == [i \in Ids |-> IF i = p THEN a1 ELSE d1]
(* q is proposed at a commit that is also a revision of p.                 *)
FirstShared == [i \in Ids |-> IF i = p THEN a1 ELSE a2]
AttemptsOfEach == [i \in Ids |-> IF i = p THEN {a2, a3, a4} \cap Commits ELSE {}]

(* p lands on main; q is aimed at the branch p is on.                      *)
OntoStack == [i \in Ids |-> IF i = p THEN "main" ELSE "topic"]
StartAll  == [b \in Branches |-> IF b = "main" THEN base ELSE a1]

OneCheck  == <<"test">>
TwoChecks == <<"test", "lint">>

OneReviser   == {x} \X Ids
ManyRevisers == Actors \X Ids

Symmetric == Permutations(Actors)
=============================================================================
