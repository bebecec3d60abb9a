------------------------------ MODULE MCReplicas ------------------------------
(* Two clones of one person, one note text, one check, two branches.       *)
EXTENDS Replicas, TLC

CONSTANTS a, b

MCText == {"", " ", "fix", " fix", "ana", "test"}
MCTrim == [s \in MCText |-> CASE s = " " -> "" [] s = " fix" -> "fix" [] OTHER -> s]
MCAlphabet == <<"abandoned", "check", "comment", "failed", "landed", "main", "newer",
                "opened", "passed", "resolve", "retargeted", "test", "topic">>
MCDigest(line) == ToString(line)
Symmetry == Permutations(Clones)
=============================================================================
