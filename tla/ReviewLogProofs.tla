---------------------------- MODULE ReviewLogProofs ----------------------------
(***************************************************************************)
(* What the fold of ReviewLog comes to, without folding: which logs read,  *)
(* and what is open, resolved, checked and worked on in those that do.     *)
(* Nothing here is about a state; the proofs about machines that write     *)
(* logs use it.                                                            *)
(*                                                                         *)
(* A fold is a recursive function over the sets of places still to come,   *)
(* so it is first taken apart into the values it goes through, one for     *)
(* each line (`Runs`), and everything else is induction along these.       *)
(***************************************************************************)
EXTENDS ReviewLog, WellFoundedInduction, TLAPS

-----------------------------------------------------------------------------
(* Induction, and the values a fold goes through.                          *)

LEMMA Least ==
    ASSUME NEW S \in SUBSET Nat, S # {}
    PROVE  Min(S) \in S /\ \A y \in S : Min(S) <= y
<1>1. PICK x \in S : \A y \in S : <<y, x>> \notin OpToRel(<, Nat)
  BY NatLessThanWellFounded, WFMin
<1>2. ASSUME NEW y \in S PROVE x <= y
  <2>1. <<y, x>> \notin {ss \in Nat \X Nat : ss[1] < ss[2]}
    BY <1>1 DEF OpToRel
  <2>2. <<y, x>> \in Nat \X Nat /\ <<y, x>>[1] = y /\ <<y, x>>[2] = x
    OBVIOUS
  <2>. QED  BY <2>1, <2>2
<1>. QED  BY <1>1, <1>2 DEF Min

LEMMA StepByStep ==
    ASSUME NEW n \in Nat, NEW S, 0 \in S, \A i \in 1..n : i - 1 \in S => i \in S
    PROVE  \A i \in 0..n : i \in S
<1>. DEFINE Left == {i \in 0..n : i \notin S}
<1>1. CASE Left = {}
  BY <1>1
<1>2. CASE Left # {}
  <2>0. Left \in SUBSET Nat
    OBVIOUS
  <2>1. PICK x \in Left : \A y \in Left : x <= y
    BY <1>2, <2>0, Least
  <2>2. x \in 1..n /\ x - 1 \in 0..n
    BY <2>1
  <2>3. x - 1 \notin Left
    BY <2>1, <2>2
  <2>. QED  BY <2>1, <2>2, <2>3
<1>. QED  BY <1>1, <1>2

(* The five things that are folded, as one.                                *)
Step(what, p, r) ==
    CASE what = "kept"     -> Keep(p, r)
      [] what = "line"     -> ApplyLine(p, r)
      [] what = "answer"   -> ApplyAnswer(p, r)
      [] what = "note"     -> Fold(p, r)
      [] what = "revision" -> AddRevision(p, r)

(* h is what folding comes to from the places in each set.                 *)
Folds(what, base, s, k, h) ==
    h = [t \in SUBSET (1..k) |->
            IF t = {} THEN base ELSE Step(what, h[t \ {Max(t)}], s[Max(t)])]

LEMMA LastPlace ==
    ASSUME NEW k \in Nat, k # 0
    PROVE  /\ \A t \in SUBSET (1..k) : k \in t => Max(t) = k
           /\ Max(1..k) = k
           /\ (1..k) \ {k} = 1..(k - 1)
<1>1. ASSUME NEW t \in SUBSET (1..k), k \in t  PROVE Max(t) = k
  <2>1. \A x \in t : (\A y \in t : x >= y) => x = k
    BY <1>1
  <2>2. k \in t /\ \A y \in t : k >= y
    BY <1>1
  <2>. QED  BY <2>1, <2>2 DEF Max
<1>2. Max(1..k) = k
  BY <1>1
<1>. QED  BY <1>1, <1>2

LEMMA AFoldExists ==
    ASSUME NEW what, NEW base, NEW s, NEW n \in Nat
    PROVE  \E h : Folds(what, base, s, n, h)
<1>. DEFINE S == {k \in 0..n : \E h : Folds(what, base, s, k, h)}
<1>1. 0 \in S
  <2>. DEFINE h == [t \in SUBSET (1..0) |-> base]
  <2>1. \A t \in SUBSET (1..0) : t = {}
    OBVIOUS
  <2>2. h = [t \in SUBSET (1..0) |->
               IF t = {} THEN base ELSE Step(what, h[t \ {Max(t)}], s[Max(t)])]
    BY <2>1
  <2>. QED  BY <2>2 DEF Folds
<1>2. ASSUME NEW k \in 1..n, k - 1 \in S  PROVE k \in S
  <2>1. PICK g : Folds(what, base, s, k - 1, g)
    BY <1>2
  <2>. DEFINE h == [t \in SUBSET (1..k) |->
                      IF k \in t THEN Step(what, g[t \ {k}], s[k]) ELSE g[t]]
  <2>2. ASSUME NEW t \in SUBSET (1..k)
        PROVE  h[t] = IF t = {} THEN base ELSE Step(what, h[t \ {Max(t)}], s[Max(t)])
    <3>1. CASE k \in t
      <4>1. Max(t) = k /\ t # {}
        BY <3>1, LastPlace
      <4>2. t \ {k} \in SUBSET (1..k) /\ k \notin t \ {k}
        OBVIOUS
      <4>3. h[t \ {k}] = g[t \ {k}]
        BY <4>2
      <4>. QED  BY <3>1, <4>1, <4>3
    <3>2. CASE k \notin t
      <4>1. t \in SUBSET (1..(k - 1))
        BY <3>2
      <4>2. h[t] = g[t]
        BY <3>2
      <4>3. g[t] = IF t = {} THEN base ELSE Step(what, g[t \ {Max(t)}], s[Max(t)])
        BY <2>1, <4>1 DEF Folds
      <4>4. t \ {Max(t)} \in SUBSET (1..k) /\ k \notin t \ {Max(t)}
        BY <3>2
      <4>5. h[t \ {Max(t)}] = g[t \ {Max(t)}]
        BY <4>4
      <4>. QED  BY <4>2, <4>3, <4>5
    <3>. QED  BY <3>1, <3>2
  <2>. HIDE DEF h
  <2>3. h = [t \in SUBSET (1..k) |-> h[t]]
    BY DEF h
  <2>4. h = [t \in SUBSET (1..k) |->
               IF t = {} THEN base ELSE Step(what, h[t \ {Max(t)}], s[Max(t)])]
    BY <2>2, <2>3
  <2>. QED  BY <2>4 DEF Folds
<1>. HIDE DEF S
<1>3. n \in S
  BY <1>1, <1>2, StepByStep, n \in 0..n
<1>. QED  BY <1>3 DEF S

(* f[i] is what the first i lines make of base.                            *)
Runs(what, base, s, f) ==
    /\ f[0] = base
    /\ \A i \in 1..Len(s) : f[i] = Step(what, f[i - 1], s[i])

LEMMA FoldsRun ==
    ASSUME NEW what, NEW base, NEW s, DOMAIN s = 1..Len(s), Len(s) \in Nat,
           NEW h, Folds(what, base, s, Len(s), h)
    PROVE  \E f : Runs(what, base, s, f) /\ h[DOMAIN s] = f[Len(s)]
<1>. DEFINE f == [i \in 0..Len(s) |-> h[1..i]]
<1>1. f[0] = base
  <2>1. 1..0 = {} /\ 0 \in 0..Len(s)
    OBVIOUS
  <2>. QED  BY <2>1 DEF Folds
<1>2. ASSUME NEW i \in 1..Len(s)  PROVE f[i] = Step(what, f[i - 1], s[i])
  <2>1. 1..i \in SUBSET (1..Len(s)) /\ 1..i # {}
    OBVIOUS
  <2>2. h[1..i] = Step(what, h[(1..i) \ {Max(1..i)}], s[Max(1..i)])
    BY <2>1 DEF Folds
  <2>3. Max(1..i) = i /\ (1..i) \ {i} = 1..(i - 1)
    BY LastPlace
  <2>4. i - 1 \in 0..Len(s) /\ i \in 0..Len(s)
    OBVIOUS
  <2>. QED  BY <2>2, <2>3, <2>4
<1>3. h[DOMAIN s] = f[Len(s)]
  OBVIOUS
<1>. HIDE DEF f
<1>. QED  BY <1>1, <1>2, <1>3 DEF Runs

LEMMA KeptRun ==
    ASSUME NEW base, NEW s, DOMAIN s = 1..Len(s), Len(s) \in Nat
    PROVE  \E f : Runs("kept", base, s, f) /\ FoldLeft(Keep, base, s) = f[Len(s)]
<1>. DEFINE Is(g) == g = [t \in SUBSET DOMAIN s |->
               IF t = {} THEN base ELSE Keep(g[t \ {Max(t)}], s[Max(t)])]
<1>1. FoldLeft(Keep, base, s) = (CHOOSE g : Is(g))[DOMAIN s]
  BY DEF FoldLeft, MapThenFoldSet
<1>2. \A g : Is(g) <=> Folds("kept", base, s, Len(s), g)
  BY DEF Folds, Step
<1>. HIDE DEF Is
<1>3. \E g : Is(g)
  BY <1>2, AFoldExists
<1>4. Is(CHOOSE g : Is(g))
  BY <1>3
<1>5. PICK h : h = (CHOOSE g : Is(g))
  OBVIOUS
<1>6. Folds("kept", base, s, Len(s), h)
  BY <1>2, <1>4, <1>5
<1>7. FoldLeft(Keep, base, s) = h[DOMAIN s]
  BY <1>1, <1>5
<1>. QED  BY <1>6, <1>7, FoldsRun

LEMMA LinesRun ==
    ASSUME NEW base, NEW s, DOMAIN s = 1..Len(s), Len(s) \in Nat
    PROVE  \E f : Runs("line", base, s, f) /\ FoldLeft(ApplyLine, base, s) = f[Len(s)]
<1>. DEFINE Is(g) == g = [t \in SUBSET DOMAIN s |->
               IF t = {} THEN base ELSE ApplyLine(g[t \ {Max(t)}], s[Max(t)])]
<1>1. FoldLeft(ApplyLine, base, s) = (CHOOSE g : Is(g))[DOMAIN s]
  BY DEF FoldLeft, MapThenFoldSet
<1>2. \A g : Is(g) <=> Folds("line", base, s, Len(s), g)
  BY DEF Folds, Step
<1>. HIDE DEF Is
<1>3. \E g : Is(g)
  BY <1>2, AFoldExists
<1>4. Is(CHOOSE g : Is(g))
  BY <1>3
<1>5. PICK h : h = (CHOOSE g : Is(g))
  OBVIOUS
<1>6. Folds("line", base, s, Len(s), h)
  BY <1>2, <1>4, <1>5
<1>7. FoldLeft(ApplyLine, base, s) = h[DOMAIN s]
  BY <1>1, <1>5
<1>. QED  BY <1>6, <1>7, FoldsRun

LEMMA AnswersRun ==
    ASSUME NEW base, NEW s, DOMAIN s = 1..Len(s), Len(s) \in Nat
    PROVE  \E f : Runs("answer", base, s, f) /\ FoldLeft(ApplyAnswer, base, s) = f[Len(s)]
<1>. DEFINE Is(g) == g = [t \in SUBSET DOMAIN s |->
               IF t = {} THEN base ELSE ApplyAnswer(g[t \ {Max(t)}], s[Max(t)])]
<1>1. FoldLeft(ApplyAnswer, base, s) = (CHOOSE g : Is(g))[DOMAIN s]
  BY DEF FoldLeft, MapThenFoldSet
<1>2. \A g : Is(g) <=> Folds("answer", base, s, Len(s), g)
  BY DEF Folds, Step
<1>. HIDE DEF Is
<1>3. \E g : Is(g)
  BY <1>2, AFoldExists
<1>4. Is(CHOOSE g : Is(g))
  BY <1>3
<1>5. PICK h : h = (CHOOSE g : Is(g))
  OBVIOUS
<1>6. Folds("answer", base, s, Len(s), h)
  BY <1>2, <1>4, <1>5
<1>7. FoldLeft(ApplyAnswer, base, s) = h[DOMAIN s]
  BY <1>1, <1>5
<1>. QED  BY <1>6, <1>7, FoldsRun

LEMMA NotesRun ==
    ASSUME NEW base, NEW s, DOMAIN s = 1..Len(s), Len(s) \in Nat
    PROVE  \E f : Runs("note", base, s, f) /\ FoldLeft(Fold, base, s) = f[Len(s)]
<1>. DEFINE Is(g) == g = [t \in SUBSET DOMAIN s |->
               IF t = {} THEN base ELSE Fold(g[t \ {Max(t)}], s[Max(t)])]
<1>1. FoldLeft(Fold, base, s) = (CHOOSE g : Is(g))[DOMAIN s]
  BY DEF FoldLeft, MapThenFoldSet
<1>2. \A g : Is(g) <=> Folds("note", base, s, Len(s), g)
  BY DEF Folds, Step
<1>. HIDE DEF Is
<1>3. \E g : Is(g)
  BY <1>2, AFoldExists
<1>4. Is(CHOOSE g : Is(g))
  BY <1>3
<1>5. PICK h : h = (CHOOSE g : Is(g))
  OBVIOUS
<1>6. Folds("note", base, s, Len(s), h)
  BY <1>2, <1>4, <1>5
<1>7. FoldLeft(Fold, base, s) = h[DOMAIN s]
  BY <1>1, <1>5
<1>. QED  BY <1>6, <1>7, FoldsRun

LEMMA RevisionsRun ==
    ASSUME NEW base, NEW s, DOMAIN s = 1..Len(s), Len(s) \in Nat
    PROVE  \E f : Runs("revision", base, s, f) /\ FoldLeft(AddRevision, base, s) = f[Len(s)]
<1>. DEFINE Is(g) == g = [t \in SUBSET DOMAIN s |->
               IF t = {} THEN base ELSE AddRevision(g[t \ {Max(t)}], s[Max(t)])]
<1>1. FoldLeft(AddRevision, base, s) = (CHOOSE g : Is(g))[DOMAIN s]
  BY DEF FoldLeft, MapThenFoldSet
<1>2. \A g : Is(g) <=> Folds("revision", base, s, Len(s), g)
  BY DEF Folds, Step
<1>. HIDE DEF Is
<1>3. \E g : Is(g)
  BY <1>2, AFoldExists
<1>4. Is(CHOOSE g : Is(g))
  BY <1>3
<1>5. PICK h : h = (CHOOSE g : Is(g))
  OBVIOUS
<1>6. Folds("revision", base, s, Len(s), h)
  BY <1>2, <1>4, <1>5
<1>7. FoldLeft(AddRevision, base, s) = h[DOMAIN s]
  BY <1>1, <1>5
<1>. QED  BY <1>6, <1>7, FoldsRun

-----------------------------------------------------------------------------
(* Reading a note keeps what parsed, in the order it has.                  *)

(* Line k of what was kept is line at[k] of the first n that were read.    *)
IsKept(kept, lines, n, at) ==
    /\ DOMAIN at = DOMAIN kept
    /\ \A k \in DOMAIN kept : /\ at[k] \in 1..n
                              /\ lines[at[k]].ok
                              /\ kept[k] = lines[at[k]].record
    /\ \A k, m \in DOMAIN kept : k < m => at[k] < at[m]
    /\ \A i \in 1..n : lines[i].ok => \E k \in DOMAIN kept : at[k] = i

KeptInOrder(kept, lines, n) == \E at \in Seq(Nat) : IsKept(kept, lines, n, at)

LEMMA KeptOneMore ==
    ASSUME NEW L, NEW lines, NEW n \in Nat, n # 0, lines[n].ok => lines[n].record \in L,
           NEW kept \in Seq(L), NEW more, more = Keep(kept, lines[n]),
           KeptInOrder(kept, lines, n - 1)
    PROVE  more \in Seq(L) /\ KeptInOrder(more, lines, n)
<1>. PICK at \in Seq(Nat) : IsKept(kept, lines, n - 1, at)
  BY DEF KeptInOrder
<1>1. CASE ~lines[n].ok
  <2>1. more = kept
    BY <1>1 DEF Keep
  <2>2. \A i \in 1..n : lines[i].ok => i \in 1..(n - 1)
    BY <1>1
  <2>3. 1..(n - 1) \subseteq 1..n
    OBVIOUS
  <2>4. IsKept(kept, lines, n, at)
    BY <2>2, <2>3 DEF IsKept
  <2>. QED  BY <2>1, <2>4 DEF KeptInOrder
<1>2. CASE lines[n].ok
  <2>1. more = Append(kept, lines[n].record)
    BY <1>2 DEF Keep
  <2>2. /\ more \in Seq(L) /\ Len(more) = Len(kept) + 1
        /\ DOMAIN more = DOMAIN kept \cup {Len(kept) + 1}
        /\ \A k \in DOMAIN kept : more[k] = kept[k]
        /\ more[Len(kept) + 1] = lines[n].record
    BY <1>2, <2>1
  <2>3. PICK to : to = Append(at, n)
    OBVIOUS
  <2>4. Len(at) = Len(kept) /\ DOMAIN kept = 1..Len(kept) /\ Len(kept) \in Nat
    BY DEF IsKept
  <2>5. /\ to \in Seq(Nat)
        /\ DOMAIN to = DOMAIN kept \cup {Len(kept) + 1}
        /\ \A k \in DOMAIN kept : to[k] = at[k]
        /\ to[Len(kept) + 1] = n
    BY <2>3, <2>4
  <2>6. \A k \in DOMAIN more : /\ to[k] \in 1..n
                               /\ lines[to[k]].ok
                               /\ more[k] = lines[to[k]].record
    <3>1. ASSUME NEW k \in DOMAIN kept
          PROVE  to[k] \in 1..n /\ lines[to[k]].ok /\ more[k] = lines[to[k]].record
      BY <2>2, <2>5 DEF IsKept
    <3>2. n \in 1..n
      OBVIOUS
    <3>. QED  BY <1>2, <2>2, <2>5, <3>1, <3>2
  <2>7. \A k, m \in DOMAIN more : k < m => to[k] < to[m]
    <3>1. \A k \in DOMAIN kept : to[k] < n /\ k < Len(kept) + 1
      BY <2>4, <2>5 DEF IsKept
    <3>2. \A k, m \in DOMAIN kept : k < m => to[k] < to[m]
      BY <2>5 DEF IsKept
    <3>. QED  BY <2>2, <2>4, <2>5, <3>1, <3>2
  <2>8. ASSUME NEW i \in 1..n, lines[i].ok  PROVE \E k \in DOMAIN more : to[k] = i
    <3>1. CASE i = n
      BY <2>2, <2>5, <3>1
    <3>2. CASE i # n
      <4>1. i \in 1..(n - 1)
        BY <3>2
      <4>2. PICK k \in DOMAIN kept : at[k] = i
        BY <2>8, <4>1 DEF IsKept
      <4>. QED  BY <2>2, <2>5, <4>2
    <3>. QED  BY <3>1, <3>2
  <2>9. IsKept(more, lines, n, to)
    BY <2>2, <2>5, <2>6, <2>7, <2>8 DEF IsKept
  <2>. QED  BY <2>2, <2>5, <2>9 DEF KeptInOrder
<1>. QED  BY <1>1, <1>2

LEMMA ANoteKeeps ==
    ASSUME NEW L, NEW lines, DOMAIN lines = 1..Len(lines), Len(lines) \in Nat,
           \A i \in DOMAIN lines : lines[i].ok => lines[i].record \in L,
           NEW kept, kept = FoldLeft(Keep, <<>>, lines)
    PROVE  kept \in Seq(L) /\ KeptInOrder(kept, lines, Len(lines))
<1>1. PICK f : Runs("kept", <<>>, lines, f) /\ kept = f[Len(lines)]
  BY KeptRun
<1>. DEFINE S == {i \in 0..Len(lines) :
                    f[i] \in Seq(L) /\ KeptInOrder(f[i], lines, i)}
<1>2. 0 \in S
  <2>1. f[0] = <<>>
    BY <1>1 DEF Runs
  <2>2. PICK none : none = <<>>
    OBVIOUS
  <2>3. DOMAIN none = {} /\ 1..0 = {}
    BY <2>2
  <2>4. IsKept(none, lines, 0, none)
    BY <2>3 DEF IsKept
  <2>5. none \in Seq(L) /\ none \in Seq(Nat) /\ f[0] = none /\ 0 \in 0..Len(lines)
    BY <2>1, <2>2
  <2>6. KeptInOrder(none, lines, 0)
    BY <2>4, <2>5 DEF KeptInOrder
  <2>. QED  BY <2>5, <2>6
<1>3. ASSUME NEW i \in 1..Len(lines), i - 1 \in S  PROVE i \in S
  <2>1. PICK before : before = f[i - 1]
    OBVIOUS
  <2>2. PICK more : more = f[i]
    OBVIOUS
  <2>3. more = Keep(before, lines[i])
    BY <1>1, <2>1, <2>2 DEF Runs, Step
  <2>4. before \in Seq(L) /\ KeptInOrder(before, lines, i - 1)
    BY <1>3, <2>1
  <2>5. i \in Nat /\ i # 0 /\ i \in 0..Len(lines) /\ (lines[i].ok => lines[i].record \in L)
    OBVIOUS
  <2>6. more \in Seq(L) /\ KeptInOrder(more, lines, i)
    BY <2>3, <2>4, <2>5, KeptOneMore
  <2>. QED  BY <2>2, <2>5, <2>6
<1>. HIDE DEF S
<1>4. Len(lines) \in S
  BY <1>2, <1>3, StepByStep, Len(lines) \in 0..Len(lines)
<1>. QED  BY <1>1, <1>4 DEF S

-----------------------------------------------------------------------------
(* What one line does to a proposal that reads.                            *)

LineKinds == {"comment", "rationale", "reply", "resolve", "check", "chunk", "work", "dispatch"}

AreLines(L) == \A r \in L : r.kind \in LineKinds

(* A proposal being folded from lines of L; revisions, target and state    *)
(* are settled before the first line.                                      *)
Builder(revs, b, L) ==
    [ok : BOOLEAN, state : {"open"}, target : {b}, revs : {revs}, comments : Seq(L),
     rationale : Seq(L), answers : Seq(L), resolved : SUBSET {r.target : r \in L},
     checks : SUBSET L, chunks : Seq(L), work : Seq(L), asks : Seq(L)]

(* What the lines of S, in whatever order they were folded, say.           *)
Says(p, S) ==
    /\ \A i, j \in DOMAIN p.comments : p.comments[i].id = p.comments[j].id => i = j
    /\ \A i \in DOMAIN p.comments : p.comments[i] \in S /\ p.comments[i].kind = "comment"
    /\ \A r \in S : r.kind = "comment" => \E i \in DOMAIN p.comments : p.comments[i].id = r.id
    /\ p.resolved = {r.target : r \in {x \in S : x.kind = "resolve"}}
    /\ p.checks \subseteq {x \in S : x.kind = "check"}

(* A line about code is about a revision, and an answer names a comment.   *)
IsAboutCode(r)     == r.kind \in {"comment", "rationale", "check"}
IsPlaced(r, revs)  == IsAboutCode(r) => r.rev \in ToSet(revs)
IsAnchored(r, S)   == IsAnswer(r) => \E x \in S : x.kind = "comment" /\ x.id = r.target

LEMMA OnceMore ==
    ASSUME NEW L, NEW lines \in Seq(L), NEW r \in L, NEW more, more = AppendOnce(lines, r)
    PROVE  /\ more \in Seq(L)
           /\ \A i \in DOMAIN more : more[i] \in ToSet(lines) \cup {r}
           /\ \A i \in DOMAIN lines : i \in DOMAIN more /\ more[i] = lines[i]
<1>1. CASE \E i \in DOMAIN lines : lines[i].id = r.id
  BY <1>1 DEF AppendOnce, ToSet
<1>2. CASE ~\E i \in DOMAIN lines : lines[i].id = r.id
  <2>1. more = Append(lines, r)
    BY <1>2 DEF AppendOnce
  <2>2. /\ Append(lines, r) \in Seq(L)
        /\ DOMAIN Append(lines, r) = DOMAIN lines \cup {Len(lines) + 1}
        /\ \A i \in DOMAIN lines : Append(lines, r)[i] = lines[i]
        /\ Append(lines, r)[Len(lines) + 1] = r
    OBVIOUS
  <2>. QED  BY <1>2, <2>1, <2>2 DEF ToSet
<1>. QED  BY <1>1, <1>2

LEMMA OnceIsOnce ==
    ASSUME NEW L, NEW lines \in Seq(L), NEW r \in L, NEW more, more = AppendOnce(lines, r),
           \A i, j \in DOMAIN lines : lines[i].id = lines[j].id => i = j
    PROVE  \A i, j \in DOMAIN more : more[i].id = more[j].id => i = j
<1>1. CASE \E i \in DOMAIN lines : lines[i].id = r.id
  BY <1>1 DEF AppendOnce
<1>2. CASE ~\E i \in DOMAIN lines : lines[i].id = r.id
  <2>1. more = Append(lines, r)
    BY <1>2 DEF AppendOnce
  <2>2. /\ DOMAIN Append(lines, r) = DOMAIN lines \cup {Len(lines) + 1}
        /\ \A i \in DOMAIN lines : Append(lines, r)[i] = lines[i]
        /\ Append(lines, r)[Len(lines) + 1] = r
    OBVIOUS
  <2>. QED  BY <1>2, <2>1, <2>2
<1>. QED  BY <1>1, <1>2

LEMMA ApplyKeeps ==
    ASSUME NEW revs, NEW b, NEW L, AreLines(L), NEW p \in Builder(revs, b, L), NEW r \in L
    PROVE  /\ Apply(p, r) \in Builder(revs, b, L)
           /\ Apply(p, r).ok <=> p.ok /\ Accepts(p, r)
<1>1. CASE ~(p.ok /\ Accepts(p, r))
  <2>1. Apply(p, r) = [p EXCEPT !.ok = FALSE]
    BY <1>1 DEF Apply
  <2>. QED  BY <1>1, <2>1 DEF Builder
<1>2. CASE p.ok /\ Accepts(p, r)
  <2>1. r.kind \in LineKinds
    BY DEF AreLines
  <2>2. CASE r.kind = "comment"
    <3>1. Apply(p, r) = [p EXCEPT !.comments = AppendOnce(@, r)]
      BY <1>2, <2>2 DEF Apply
    <3>2. AppendOnce(p.comments, r) \in Seq(L)
      BY OnceMore DEF Builder
    <3>. QED  BY <1>2, <3>1, <3>2 DEF Builder
  <2>3. CASE r.kind = "rationale"
    <3>1. Apply(p, r) = [p EXCEPT !.rationale = AppendOnce(@, r)]
      BY <1>2, <2>3 DEF Apply
    <3>2. AppendOnce(p.rationale, r) \in Seq(L)
      BY OnceMore DEF Builder
    <3>. QED  BY <1>2, <3>1, <3>2 DEF Builder
  <2>4. CASE r.kind = "reply"
    <3>1. Apply(p, r) = [p EXCEPT !.answers = AppendOnce(@, r)]
      BY <1>2, <2>4 DEF Apply
    <3>2. AppendOnce(p.answers, r) \in Seq(L)
      BY OnceMore DEF Builder
    <3>. QED  BY <1>2, <3>1, <3>2 DEF Builder
  <2>5. CASE r.kind = "resolve"
    <3>1. Apply(p, r) = [p EXCEPT !.resolved = @ \cup {r.target}]
      BY <1>2, <2>5 DEF Apply
    <3>2. p.resolved \cup {r.target} \in SUBSET {x.target : x \in L}
      BY DEF Builder
    <3>. QED  BY <1>2, <3>1, <3>2 DEF Builder
  <2>6. CASE r.kind = "check"
    <3>1. Apply(p, r) = [p EXCEPT !.checks = {v \in @ : v.name # r.name} \cup {r}]
      BY <1>2, <2>6 DEF Apply
    <3>2. {v \in p.checks : v.name # r.name} \cup {r} \in SUBSET L
      BY DEF Builder
    <3>. QED  BY <1>2, <3>1, <3>2 DEF Builder
  <2>7. CASE r.kind = "chunk"
    <3>1. Apply(p, r) = [p EXCEPT !.chunks = Append(@, r)]
      BY <1>2, <2>7 DEF Apply
    <3>2. Append(p.chunks, r) \in Seq(L)
      BY DEF Builder
    <3>. QED  BY <1>2, <3>1, <3>2 DEF Builder
  <2>8. CASE r.kind = "work"
    <3>1. Apply(p, r) = [p EXCEPT !.work = Append(@, r)]
      BY <1>2, <2>8 DEF Apply
    <3>2. Append(p.work, r) \in Seq(L)
      BY DEF Builder
    <3>. QED  BY <1>2, <3>1, <3>2 DEF Builder
  <2>9. CASE r.kind = "dispatch"
    <3>1. Apply(p, r) = [p EXCEPT !.asks = Append(@, r)]
      BY <1>2, <2>9 DEF Apply
    <3>2. Append(p.asks, r) \in Seq(L)
      BY DEF Builder
    <3>. QED  BY <1>2, <3>1, <3>2 DEF Builder
  <2>. QED  BY <2>1, <2>2, <2>3, <2>4, <2>5, <2>6, <2>7, <2>8, <2>9 DEF LineKinds
<1>. QED  BY <1>1, <1>2

(* One more line, and it says that too.                                    *)
LEMMA ApplySays ==
    ASSUME NEW revs, NEW b, NEW L, AreLines(L), NEW p \in Builder(revs, b, L), NEW r \in L,
           NEW S, Says(p, S), p.ok, Accepts(p, r)
    PROVE  Says(Apply(p, r), S \cup {r})
<1>0. r.kind \in LineKinds /\ p.comments \in Seq(L)
  BY DEF AreLines, Builder
<1>1. CASE r.kind = "comment"
  <2>1. Apply(p, r) = [p EXCEPT !.comments = AppendOnce(@, r)]
    BY <1>1 DEF Apply
  <2>. DEFINE more == AppendOnce(p.comments, r)
  <2>2. /\ Apply(p, r).comments = more
        /\ Apply(p, r).resolved = p.resolved /\ Apply(p, r).checks = p.checks
    BY <2>1 DEF Builder
  <2>3. \A i, j \in DOMAIN more : more[i].id = more[j].id => i = j
    <3>1. \A i, j \in DOMAIN p.comments : p.comments[i].id = p.comments[j].id => i = j
      BY DEF Says
    <3>. QED  BY <3>1, <1>0, OnceIsOnce
  <2>7. more = AppendOnce(p.comments, r)
    OBVIOUS
  <2>. HIDE DEF more
  <2>8. \A i \in DOMAIN more : more[i] \in ToSet(p.comments) \cup {r}
    BY <1>0, <2>7, OnceMore
  <2>9. \A i \in DOMAIN p.comments : i \in DOMAIN more /\ more[i] = p.comments[i]
    BY <1>0, <2>7, OnceMore
  <2>10. \E i \in DOMAIN more : more[i].id = r.id
    <3>1. CASE \E i \in DOMAIN p.comments : p.comments[i].id = r.id
      BY <3>1, <2>9
    <3>2. CASE ~\E i \in DOMAIN p.comments : p.comments[i].id = r.id
      <4>1. more = Append(p.comments, r)
        BY <3>2, <2>7 DEF AppendOnce
      <4>. QED  BY <1>0, <4>1
    <3>. QED  BY <3>1, <3>2
  <2>4. \A i \in DOMAIN more : more[i] \in S \cup {r} /\ more[i].kind = "comment"
    <3>1. \A x \in ToSet(p.comments) \cup {r} : x \in S \cup {r} /\ x.kind = "comment"
      BY <1>1 DEF Says, ToSet
    <3>. QED  BY <3>1, <2>8
  <2>5. \A x \in S \cup {r} : x.kind = "comment" => \E i \in DOMAIN more : more[i].id = x.id
    <3>1. ASSUME NEW x \in S, x.kind = "comment"
          PROVE  \E i \in DOMAIN more : more[i].id = x.id
      <4>1. PICK i \in DOMAIN p.comments : p.comments[i].id = x.id
        BY <3>1 DEF Says
      <4>. QED  BY <4>1, <2>9
    <3>. QED  BY <3>1, <2>10
  <2>6. {x \in S \cup {r} : x.kind = "resolve"} = {x \in S : x.kind = "resolve"}
    BY <1>1
  <2>. QED  BY <2>2, <2>3, <2>4, <2>5, <2>6 DEF Says
<1>2. CASE r.kind = "resolve"
  <2>1. Apply(p, r) = [p EXCEPT !.resolved = @ \cup {r.target}]
    BY <1>2 DEF Apply
  <2>2. /\ Apply(p, r).comments = p.comments
        /\ Apply(p, r).resolved = p.resolved \cup {r.target} /\ Apply(p, r).checks = p.checks
    BY <2>1 DEF Builder
  <2>3. {x \in S \cup {r} : x.kind = "resolve"} = {x \in S : x.kind = "resolve"} \cup {r}
    BY <1>2
  <2>. QED  BY <1>2, <2>2, <2>3 DEF Says
<1>3. CASE r.kind = "check"
  <2>1. Apply(p, r) = [p EXCEPT !.checks = {v \in @ : v.name # r.name} \cup {r}]
    BY <1>3 DEF Apply
  <2>2. /\ Apply(p, r).comments = p.comments /\ Apply(p, r).resolved = p.resolved
        /\ Apply(p, r).checks = {v \in p.checks : v.name # r.name} \cup {r}
    BY <2>1 DEF Builder
  <2>3. {x \in S \cup {r} : x.kind = "resolve"} = {x \in S : x.kind = "resolve"}
    BY <1>3
  <2>. QED  BY <1>3, <2>2, <2>3 DEF Says
<1>4. CASE r.kind \notin {"comment", "resolve", "check"}
  <2>1. /\ Apply(p, r).comments = p.comments /\ Apply(p, r).resolved = p.resolved
        /\ Apply(p, r).checks = p.checks
    <3>1. \/ Apply(p, r) = [p EXCEPT !.rationale = AppendOnce(@, r)]
          \/ Apply(p, r) = [p EXCEPT !.answers = AppendOnce(@, r)]
          \/ Apply(p, r) = [p EXCEPT !.chunks = Append(@, r)]
          \/ Apply(p, r) = [p EXCEPT !.work = Append(@, r)]
          \/ Apply(p, r) = [p EXCEPT !.asks = Append(@, r)]
      BY <1>0, <1>4 DEF Apply, LineKinds
    <3>. QED  BY <3>1 DEF Builder
  <2>2. {x \in S \cup {r} : x.kind = "resolve"} = {x \in S : x.kind = "resolve"}
    BY <1>4
  <2>. QED  BY <1>4, <2>1, <2>2 DEF Says
<1>. QED  BY <1>1, <1>2, <1>3, <1>4

(* What is accepted, said of the lines folded so far.                      *)
LEMMA WhatIsAccepted ==
    ASSUME NEW revs, NEW b, NEW L, NEW p \in Builder(revs, b, L), NEW r \in L,
           NEW S, Says(p, S)
    PROVE  /\ ~IsAnswer(r) => (Accepts(p, r) <=> IsPlaced(r, revs))
           /\ IsAnswer(r) => (Accepts(p, r) <=> IsAnchored(r, S))
<1>1. p.state = "open" /\ p.revs = revs
  BY DEF Builder
<1>2. (\E i \in DOMAIN p.comments : p.comments[i].id = r.target)
         <=> \E x \in S : x.kind = "comment" /\ x.id = r.target
  BY DEF Says
<1>. QED  BY <1>1, <1>2 DEF Accepts, IsAnswer, IsPlaced, IsAboutCode, IsAnchored

-----------------------------------------------------------------------------
(* One note: the first turn says all its lines but the answers, the second *)
(* the answers.                                                            *)

Upto(s, i) == {s[j] : j \in 1..i}

LEMMA OneFurther ==
    ASSUME NEW s, NEW i \in Nat, i # 0
    PROVE  Upto(s, i) = Upto(s, i - 1) \cup {s[i]}
<1>1. 1..i = 1..(i - 1) \cup {i}
  OBVIOUS
<1>. QED  BY <1>1 DEF Upto

LEMMA AllOfIt ==
    ASSUME NEW L, NEW s \in Seq(L)
    PROVE  Upto(s, Len(s)) = ToSet(s) /\ Upto(s, 0) = {}
BY DEF Upto, ToSet

LinesOnly(S)   == {r \in S : ~IsAnswer(r)}
AnswersOnly(S) == {r \in S : IsAnswer(r)}

LEMMA LinesTurn ==
    ASSUME NEW revs, NEW b, NEW L, AreLines(L), NEW p \in Builder(revs, b, L),
           NEW s \in Seq(L), NEW S, p.ok => Says(p, S), NEW q, q = FoldLeft(ApplyLine, p, s)
    PROVE  /\ q \in Builder(revs, b, L)
           /\ q.ok <=> p.ok /\ \A r \in LinesOnly(ToSet(s)) : IsPlaced(r, revs)
           /\ q.ok => Says(q, S \cup LinesOnly(ToSet(s)))
<1>1. PICK f : Runs("line", p, s, f) /\ FoldLeft(ApplyLine, p, s) = f[Len(s)]
  BY LinesRun
<1>. DEFINE Good == {i \in 0..Len(s) :
           /\ f[i] \in Builder(revs, b, L)
           /\ f[i].ok <=> p.ok /\ \A r \in LinesOnly(Upto(s, i)) : IsPlaced(r, revs)
           /\ f[i].ok => Says(f[i], S \cup LinesOnly(Upto(s, i)))}
<1>2. 0 \in Good
  <2>1. Upto(s, 0) = {} /\ f[0] = p
    BY <1>1, AllOfIt DEF Runs
  <2>2. S \cup LinesOnly({}) = S /\ LinesOnly({}) = {}
    BY DEF LinesOnly
  <2>3. 0 \in 0..Len(s) /\ f[0] \in Builder(revs, b, L)
    BY <2>1
  <2>4. f[0].ok <=> p.ok /\ \A r \in LinesOnly(Upto(s, 0)) : IsPlaced(r, revs)
    BY <2>1, <2>2
  <2>5. f[0].ok => Says(f[0], S \cup LinesOnly(Upto(s, 0)))
    BY <2>1, <2>2
  <2>. QED  BY <2>3, <2>4, <2>5
<1>3. ASSUME NEW i \in 1..Len(s), i - 1 \in Good  PROVE i \in Good
  <2>. DEFINE g == f[i - 1]
              T == Upto(s, i - 1)
  <2>1. /\ g \in Builder(revs, b, L)
        /\ g.ok <=> p.ok /\ \A r \in LinesOnly(T) : IsPlaced(r, revs)
        /\ g.ok => Says(g, S \cup LinesOnly(T))
    BY <1>3
  <2>2. f[i] = ApplyLine(g, s[i]) /\ s[i] \in L
    BY <1>1, <1>3 DEF Runs, Step
  <2>3. Upto(s, i) = T \cup {s[i]}
    BY OneFurther
  <2>. HIDE DEF g, T, Good
  <2>4. CASE IsAnswer(s[i])
    <3>1. f[i] = g /\ LinesOnly(T \cup {s[i]}) = LinesOnly(T)
      BY <2>2, <2>4 DEF ApplyLine, LinesOnly
    <3>2. LinesOnly(Upto(s, i)) = LinesOnly(T) /\ i \in 0..Len(s)
      BY <2>3, <3>1
    <3>3. f[i].ok <=> p.ok /\ \A r \in LinesOnly(Upto(s, i)) : IsPlaced(r, revs)
      BY <2>1, <3>1, <3>2
    <3>4. f[i].ok => Says(f[i], S \cup LinesOnly(Upto(s, i)))
      BY <2>1, <3>1, <3>2
    <3>. QED  BY <2>1, <3>1, <3>2, <3>3, <3>4 DEF Good
  <2>5. CASE ~IsAnswer(s[i])
    <3>1. f[i] = Apply(g, s[i]) /\ LinesOnly(T \cup {s[i]}) = LinesOnly(T) \cup {s[i]}
      BY <2>2, <2>5 DEF ApplyLine, LinesOnly
    <3>2. f[i] \in Builder(revs, b, L) /\ (f[i].ok <=> g.ok /\ Accepts(g, s[i]))
      BY <2>1, <2>2, <3>1, ApplyKeeps
    <3>3. g.ok => (Accepts(g, s[i]) <=> IsPlaced(s[i], revs))
      BY <2>1, <2>2, <2>5, WhatIsAccepted
    <3>4. g.ok /\ Accepts(g, s[i]) => Says(f[i], (S \cup LinesOnly(T)) \cup {s[i]})
      BY <2>1, <2>2, <3>1, ApplySays
    <3>5. (S \cup LinesOnly(T)) \cup {s[i]} = S \cup LinesOnly(Upto(s, i))
      BY <2>3, <3>1
    <3>6. f[i].ok <=> p.ok /\ \A r \in LinesOnly(Upto(s, i)) : IsPlaced(r, revs)
      BY <2>1, <2>3, <3>1, <3>2, <3>3
    <3>7. f[i].ok => Says(f[i], S \cup LinesOnly(Upto(s, i)))
      BY <3>2, <3>4, <3>5
    <3>. QED  BY <3>2, <3>6, <3>7 DEF Good
  <2>. QED  BY <2>4, <2>5
<1>. HIDE DEF Good
<1>4. Len(s) \in Good
  <2>1. Len(s) \in Nat /\ Len(s) \in 0..Len(s)
    OBVIOUS
  <2>. QED  BY <1>2, <1>3, <2>1, StepByStep
<1>5. Upto(s, Len(s)) = ToSet(s)
  BY AllOfIt
<1>. QED  BY <1>1, <1>4, <1>5 DEF Good

LEMMA AnswersTurn ==
    ASSUME NEW revs, NEW b, NEW L, AreLines(L), NEW p \in Builder(revs, b, L),
           NEW s \in Seq(L), NEW S, p.ok => Says(p, S), NEW q, q = FoldLeft(ApplyAnswer, p, s)
    PROVE  /\ q \in Builder(revs, b, L)
           /\ q.ok <=> p.ok /\ \A r \in AnswersOnly(ToSet(s)) : IsAnchored(r, S)
           /\ q.ok => Says(q, S \cup AnswersOnly(ToSet(s)))
<1>1. PICK f : Runs("answer", p, s, f) /\ FoldLeft(ApplyAnswer, p, s) = f[Len(s)]
  BY AnswersRun
<1>. DEFINE Good == {i \in 0..Len(s) :
           /\ f[i] \in Builder(revs, b, L)
           /\ f[i].ok <=> p.ok /\ \A r \in AnswersOnly(Upto(s, i)) : IsAnchored(r, S)
           /\ f[i].ok => Says(f[i], S \cup AnswersOnly(Upto(s, i)))}
<1>2. 0 \in Good
  <2>1. Upto(s, 0) = {} /\ f[0] = p
    BY <1>1, AllOfIt DEF Runs
  <2>2. S \cup AnswersOnly({}) = S /\ AnswersOnly({}) = {}
    BY DEF AnswersOnly
  <2>3. 0 \in 0..Len(s) /\ f[0] \in Builder(revs, b, L)
    BY <2>1
  <2>4. f[0].ok <=> p.ok /\ \A r \in AnswersOnly(Upto(s, 0)) : IsAnchored(r, S)
    BY <2>1, <2>2
  <2>5. f[0].ok => Says(f[0], S \cup AnswersOnly(Upto(s, 0)))
    BY <2>1, <2>2
  <2>. QED  BY <2>3, <2>4, <2>5
<1>3. ASSUME NEW i \in 1..Len(s), i - 1 \in Good  PROVE i \in Good
  <2>. DEFINE g == f[i - 1]
              T == Upto(s, i - 1)
  <2>1. /\ g \in Builder(revs, b, L)
        /\ g.ok <=> p.ok /\ \A r \in AnswersOnly(T) : IsAnchored(r, S)
        /\ g.ok => Says(g, S \cup AnswersOnly(T))
    BY <1>3
  <2>2. f[i] = ApplyAnswer(g, s[i]) /\ s[i] \in L
    BY <1>1, <1>3 DEF Runs, Step
  <2>3. Upto(s, i) = T \cup {s[i]}
    BY OneFurther
  <2>. HIDE DEF g, T, Good
  <2>4. CASE ~IsAnswer(s[i])
    <3>1. f[i] = g /\ AnswersOnly(T \cup {s[i]}) = AnswersOnly(T)
      BY <2>2, <2>4 DEF ApplyAnswer, AnswersOnly
    <3>2. AnswersOnly(Upto(s, i)) = AnswersOnly(T) /\ i \in 0..Len(s)
      BY <2>3, <3>1
    <3>3. f[i].ok <=> p.ok /\ \A r \in AnswersOnly(Upto(s, i)) : IsAnchored(r, S)
      BY <2>1, <3>1, <3>2
    <3>4. f[i].ok => Says(f[i], S \cup AnswersOnly(Upto(s, i)))
      BY <2>1, <3>1, <3>2
    <3>. QED  BY <2>1, <3>1, <3>2, <3>3, <3>4 DEF Good
  <2>5. CASE IsAnswer(s[i])
    <3>1. f[i] = Apply(g, s[i]) /\ AnswersOnly(T \cup {s[i]}) = AnswersOnly(T) \cup {s[i]}
      BY <2>2, <2>5 DEF ApplyAnswer, AnswersOnly
    <3>2. f[i] \in Builder(revs, b, L) /\ (f[i].ok <=> g.ok /\ Accepts(g, s[i]))
      BY <2>1, <2>2, <3>1, ApplyKeeps
    <3>3. g.ok => (Accepts(g, s[i]) <=> IsAnchored(s[i], S \cup AnswersOnly(T)))
      BY <2>1, <2>2, <2>5, WhatIsAccepted
    <3>4. IsAnchored(s[i], S \cup AnswersOnly(T)) <=> IsAnchored(s[i], S)
      BY DEF IsAnchored, AnswersOnly, IsAnswer
    <3>5. g.ok /\ Accepts(g, s[i]) => Says(f[i], (S \cup AnswersOnly(T)) \cup {s[i]})
      BY <2>1, <2>2, <3>1, ApplySays
    <3>6. (S \cup AnswersOnly(T)) \cup {s[i]} = S \cup AnswersOnly(Upto(s, i))
      BY <2>3, <3>1
    <3>7. f[i].ok <=> p.ok /\ \A r \in AnswersOnly(Upto(s, i)) : IsAnchored(r, S)
      BY <2>1, <2>3, <3>1, <3>2, <3>3, <3>4
    <3>8. f[i].ok => Says(f[i], S \cup AnswersOnly(Upto(s, i)))
      BY <3>2, <3>5, <3>6
    <3>. QED  BY <3>2, <3>7, <3>8 DEF Good
  <2>. QED  BY <2>4, <2>5
<1>. HIDE DEF Good
<1>4. Len(s) \in Good
  <2>1. Len(s) \in Nat /\ Len(s) \in 0..Len(s)
    OBVIOUS
  <2>. QED  BY <1>2, <1>3, <2>1, StepByStep
<1>5. Upto(s, Len(s)) = ToSet(s)
  BY AllOfIt
<1>. QED  BY <1>1, <1>4, <1>5 DEF Good

(* Every line of a note is about a revision, or answers a note of S.       *)
NoteReads(revs, s, S) ==
    \A r \in ToSet(s) : IsPlaced(r, revs) /\ IsAnchored(r, S)

LEMMA NoteSays ==
    ASSUME NEW revs, NEW b, NEW L, AreLines(L), NEW p \in Builder(revs, b, L),
           NEW s \in Seq(L), NEW S, p.ok => Says(p, S)
    PROVE  /\ Fold(p, s) \in Builder(revs, b, L)
           /\ Fold(p, s).ok <=> p.ok /\ NoteReads(revs, s, S \cup ToSet(s))
           /\ Fold(p, s).ok => Says(Fold(p, s), S \cup ToSet(s))
<1>. DEFINE T == S \cup LinesOnly(ToSet(s))
<1>0. PICK q : q = FoldLeft(ApplyLine, p, s)
  OBVIOUS
<1>1. /\ q \in Builder(revs, b, L)
      /\ q.ok <=> p.ok /\ \A r \in LinesOnly(ToSet(s)) : IsPlaced(r, revs)
      /\ q.ok => Says(q, T)
  BY <1>0, LinesTurn
<1>2. Fold(p, s) = FoldLeft(ApplyAnswer, q, s)
  BY <1>0 DEF Fold
<1>. HIDE DEF T
<1>3. /\ Fold(p, s) \in Builder(revs, b, L)
      /\ Fold(p, s).ok <=> q.ok /\ \A r \in AnswersOnly(ToSet(s)) : IsAnchored(r, T)
      /\ Fold(p, s).ok => Says(Fold(p, s), T \cup AnswersOnly(ToSet(s)))
  BY <1>1, <1>2, AnswersTurn
<1>4. T \cup AnswersOnly(ToSet(s)) = S \cup ToSet(s)
  BY DEF T, LinesOnly, AnswersOnly
<1>5. \A r : IsAnchored(r, T) <=> IsAnchored(r, S \cup ToSet(s))
  BY DEF T, IsAnchored, LinesOnly, IsAnswer
<1>6. \A r : (IsAnswer(r) => IsPlaced(r, revs)) /\ (~IsAnswer(r) => IsAnchored(r, T))
  BY DEF IsAnswer, IsPlaced, IsAboutCode, IsAnchored
<1>7. (\A r \in LinesOnly(ToSet(s)) : IsPlaced(r, revs))
         /\ (\A r \in AnswersOnly(ToSet(s)) : IsAnchored(r, T))
      <=> NoteReads(revs, s, S \cup ToSet(s))
  BY <1>5, <1>6 DEF NoteReads, LinesOnly, AnswersOnly
<1>. QED  BY <1>1, <1>3, <1>4, <1>7

-----------------------------------------------------------------------------
(* The verdicts: the last one of each name, of those before and in a note. *)

IsVerdict(r, k) == r.kind = "check" /\ r.name = k

Stands(p, s, n, v) ==
    \/ v \in p.checks /\ \A j \in 1..n : ~IsVerdict(s[j], v.name)
    \/ \E j \in 1..n : /\ v = s[j] /\ IsVerdict(v, v.name)
                       /\ \A m \in 1..n : IsVerdict(s[m], v.name) => m <= j

LEMMA ApplyChecks ==
    ASSUME NEW revs, NEW b, NEW L, AreLines(L), NEW p \in Builder(revs, b, L), NEW r \in L,
           p.ok, Accepts(p, r)
    PROVE  /\ r.kind = "check" => Apply(p, r).checks = {v \in p.checks : v.name # r.name} \cup {r}
           /\ r.kind # "check" => Apply(p, r).checks = p.checks
<1>0. r.kind \in LineKinds
  BY DEF AreLines
<1>1. CASE r.kind = "check"
  <2>1. Apply(p, r) = [p EXCEPT !.checks = {v \in @ : v.name # r.name} \cup {r}]
    BY <1>1 DEF Apply
  <2>. QED  BY <1>1, <2>1 DEF Builder
<1>2. CASE r.kind # "check"
  <2>1. \/ Apply(p, r) = [p EXCEPT !.comments = AppendOnce(@, r)]
        \/ Apply(p, r) = [p EXCEPT !.resolved = @ \cup {r.target}]
        \/ Apply(p, r) = [p EXCEPT !.rationale = AppendOnce(@, r)]
        \/ Apply(p, r) = [p EXCEPT !.answers = AppendOnce(@, r)]
        \/ Apply(p, r) = [p EXCEPT !.chunks = Append(@, r)]
        \/ Apply(p, r) = [p EXCEPT !.work = Append(@, r)]
        \/ Apply(p, r) = [p EXCEPT !.asks = Append(@, r)]
    BY <1>0, <1>2 DEF Apply, LineKinds
  <2>. QED  BY <1>2, <2>1 DEF Builder
<1>. QED  BY <1>1, <1>2

LEMMA LinesTurnChecks ==
    ASSUME NEW revs, NEW b, NEW L, AreLines(L), NEW p \in Builder(revs, b, L),
           NEW s \in Seq(L), NEW q, q = FoldLeft(ApplyLine, p, s), q.ok
    PROVE  \A v : v \in q.checks <=> Stands(p, s, Len(s), v)
<1>1. PICK f : Runs("line", p, s, f) /\ FoldLeft(ApplyLine, p, s) = f[Len(s)]
  BY LinesRun
<1>. DEFINE Good == {i \in 0..Len(s) :
           /\ f[i] \in Builder(revs, b, L)
           /\ f[i].ok => \A v : v \in f[i].checks <=> Stands(p, s, i, v)}
<1>2. 0 \in Good
  <2>1. f[0] = p /\ 1..0 = {} /\ 0 \in 0..Len(s)
    BY <1>1 DEF Runs
  <2>2. \A v : v \in p.checks <=> Stands(p, s, 0, v)
    BY <2>1 DEF Stands
  <2>. QED  BY <2>1, <2>2
<1>3. ASSUME NEW i \in 1..Len(s), i - 1 \in Good  PROVE i \in Good
  <2>. DEFINE g == f[i - 1]
  <2>1. /\ g \in Builder(revs, b, L)
        /\ g.ok => \A v : v \in g.checks <=> Stands(p, s, i - 1, v)
    BY <1>3
  <2>2. f[i] = ApplyLine(g, s[i]) /\ s[i] \in L
    BY <1>1, <1>3 DEF Runs, Step
  <2>3. i \in 0..Len(s) /\ 1..i = 1..(i - 1) \cup {i} /\ i \notin 1..(i - 1)
    OBVIOUS
  <2>. HIDE DEF g, Good
  <2>4. CASE s[i].kind # "check"
    <3>1. \A v : Stands(p, s, i, v) <=> Stands(p, s, i - 1, v)
      BY <2>3, <2>4 DEF Stands, IsVerdict
    <3>2. CASE IsAnswer(s[i])
      <4>1. f[i] = g
        BY <2>2, <3>2 DEF ApplyLine
      <4>. QED  BY <2>1, <2>3, <3>1, <4>1 DEF Good
    <3>3. CASE ~IsAnswer(s[i])
      <4>1. f[i] = Apply(g, s[i])
        BY <2>2, <3>3 DEF ApplyLine
      <4>2. f[i] \in Builder(revs, b, L) /\ (f[i].ok <=> g.ok /\ Accepts(g, s[i]))
        BY <2>1, <2>2, <4>1, ApplyKeeps
      <4>3. f[i].ok => f[i].checks = g.checks
        BY <2>1, <2>2, <2>4, <4>1, <4>2, ApplyChecks
      <4>. QED  BY <2>1, <2>3, <3>1, <4>2, <4>3 DEF Good
    <3>. QED  BY <3>2, <3>3
  <2>5. CASE s[i].kind = "check"
    <3>1. f[i] = Apply(g, s[i])
      BY <2>2, <2>5 DEF ApplyLine, IsAnswer
    <3>2. f[i] \in Builder(revs, b, L) /\ (f[i].ok <=> g.ok /\ Accepts(g, s[i]))
      BY <2>1, <2>2, <3>1, ApplyKeeps
    <3>3. f[i].ok => f[i].checks = {v \in g.checks : v.name # s[i].name} \cup {s[i]}
      BY <2>1, <2>2, <2>5, <3>1, <3>2, ApplyChecks
    <3>4. ASSUME f[i].ok, NEW v  PROVE v \in f[i].checks <=> Stands(p, s, i, v)
      <4>1. v \in f[i].checks <=> v = s[i] \/ (Stands(p, s, i - 1, v) /\ v.name # s[i].name)
        BY <2>1, <3>2, <3>3, <3>4
      <4>2. v = s[i] => Stands(p, s, i, v)
        BY <2>3, <2>5 DEF Stands, IsVerdict
      <4>3. Stands(p, s, i - 1, v) /\ v.name # s[i].name => Stands(p, s, i, v)
        BY <2>3 DEF Stands, IsVerdict
      <4>4. Stands(p, s, i, v) /\ v # s[i] => Stands(p, s, i - 1, v) /\ v.name # s[i].name
        <5>1. ASSUME v \in p.checks, \A j \in 1..i : ~IsVerdict(s[j], v.name)
              PROVE  Stands(p, s, i - 1, v) /\ v.name # s[i].name
          BY <2>3, <2>5, <5>1 DEF Stands, IsVerdict
        <5>2. ASSUME NEW j \in 1..i, v = s[j], v # s[i], IsVerdict(v, v.name),
                     \A m \in 1..i : IsVerdict(s[m], v.name) => m <= j
              PROVE  Stands(p, s, i - 1, v) /\ v.name # s[i].name
          <6>1. j \in 1..(i - 1) /\ j # i
            BY <2>3, <5>2
          <6>2. ~(i <= j)
            BY <6>1
          <6>3. ~IsVerdict(s[i], v.name)
            BY <2>3, <5>2, <6>2
          <6>4. v.name # s[i].name
            BY <2>5, <6>3 DEF IsVerdict
          <6>5. Stands(p, s, i - 1, v)
            BY <2>3, <5>2, <6>1 DEF Stands
          <6>. QED  BY <6>4, <6>5
        <5>. QED  BY <5>1, <5>2 DEF Stands
      <4>. QED  BY <4>1, <4>2, <4>3, <4>4
    <3>. QED  BY <2>3, <3>2, <3>4 DEF Good
  <2>. QED  BY <2>4, <2>5
<1>. HIDE DEF Good
<1>4. Len(s) \in Good
  <2>1. Len(s) \in Nat /\ Len(s) \in 0..Len(s)
    OBVIOUS
  <2>. QED  BY <1>2, <1>3, <2>1, StepByStep
<1>. QED  BY <1>1, <1>4 DEF Good

LEMMA AnswersTurnChecks ==
    ASSUME NEW revs, NEW b, NEW L, AreLines(L), NEW p \in Builder(revs, b, L),
           NEW s \in Seq(L), NEW q, q = FoldLeft(ApplyAnswer, p, s), q.ok
    PROVE  p.ok /\ q.checks = p.checks
<1>1. PICK f : Runs("answer", p, s, f) /\ FoldLeft(ApplyAnswer, p, s) = f[Len(s)]
  BY AnswersRun
<1>. DEFINE Good == {i \in 0..Len(s) : /\ f[i] \in Builder(revs, b, L)
                                       /\ f[i].ok => p.ok /\ f[i].checks = p.checks}
<1>2. 0 \in Good
  BY <1>1 DEF Runs
<1>3. ASSUME NEW i \in 1..Len(s), i - 1 \in Good  PROVE i \in Good
  <2>. DEFINE g == f[i - 1]
  <2>1. g \in Builder(revs, b, L) /\ (g.ok => p.ok /\ g.checks = p.checks)
    BY <1>3
  <2>2. f[i] = ApplyAnswer(g, s[i]) /\ s[i] \in L /\ i \in 0..Len(s)
    BY <1>1, <1>3 DEF Runs, Step
  <2>. HIDE DEF g, Good
  <2>3. CASE ~IsAnswer(s[i])
    <3>1. f[i] = g
      BY <2>2, <2>3 DEF ApplyAnswer
    <3>. QED  BY <2>1, <2>2, <3>1 DEF Good
  <2>4. CASE IsAnswer(s[i])
    <3>1. f[i] = Apply(g, s[i]) /\ s[i].kind # "check"
      BY <2>2, <2>4 DEF ApplyAnswer, IsAnswer
    <3>2. f[i] \in Builder(revs, b, L) /\ (f[i].ok <=> g.ok /\ Accepts(g, s[i]))
      <4>1. PICK h \in Builder(revs, b, L), r \in L : h = g /\ r = s[i]
        BY <2>1, <2>2
      <4>2. Apply(h, r) \in Builder(revs, b, L) /\ (Apply(h, r).ok <=> h.ok /\ Accepts(h, r))
        BY ApplyKeeps
      <4>. QED  BY <3>1, <4>1, <4>2
    <3>3. f[i].ok => f[i].checks = g.checks
      BY <2>1, <2>2, <3>1, <3>2, ApplyChecks
    <3>. QED  BY <2>1, <2>2, <3>2, <3>3 DEF Good
  <2>. QED  BY <2>3, <2>4
<1>. HIDE DEF Good
<1>4. Len(s) \in Good
  <2>1. Len(s) \in Nat /\ Len(s) \in 0..Len(s)
    OBVIOUS
  <2>. QED  BY <1>2, <1>3, <2>1, StepByStep
<1>. QED  BY <1>1, <1>4 DEF Good

LEMMA NoteChecks ==
    ASSUME NEW revs, NEW b, NEW L, AreLines(L), NEW p \in Builder(revs, b, L),
           NEW s \in Seq(L), NEW S, p.ok => Says(p, S), Fold(p, s).ok
    PROVE  \A v : v \in Fold(p, s).checks <=> Stands(p, s, Len(s), v)
<1>0. PICK q : q = FoldLeft(ApplyLine, p, s)
  OBVIOUS
<1>1. q \in Builder(revs, b, L)
  BY <1>0, LinesTurn
<1>2. Fold(p, s) = FoldLeft(ApplyAnswer, q, s)
  BY <1>0 DEF Fold
<1>3. q.ok /\ Fold(p, s).checks = q.checks
  BY <1>1, <1>2, AnswersTurnChecks
<1>4. \A v : v \in q.checks <=> Stands(p, s, Len(s), v)
  BY <1>0, <1>3, LinesTurnChecks
<1>. QED  BY <1>3, <1>4

-----------------------------------------------------------------------------
(* Lines of work and asks: a note adds its own to those before, in order.  *)

Listed(p, k) == IF k = "work" THEN p.work ELSE p.asks

ListKinds == {"work", "dispatch"}

(* What was added is the lines of kind k among the first n of s: the one   *)
(* m places further on is line at[m].                                      *)
AddsAt(older, newer, s, n, k, at) ==
    /\ Len(newer) = Len(older) + Len(at)
    /\ \A i \in DOMAIN older : newer[i] = older[i]
    /\ \A m \in DOMAIN at : /\ at[m] \in 1..n /\ s[at[m]].kind = k
                           /\ newer[Len(older) + m] = s[at[m]]
    /\ \A m, o \in DOMAIN at : m < o => at[m] < at[o]
    /\ \A i \in 1..n : s[i].kind = k => \E m \in DOMAIN at : at[m] = i

Adds(older, newer, s, n, k) == \E at \in Seq(Nat) : AddsAt(older, newer, s, n, k, at)

LEMMA Further == \A x, z \in Nat : \A m \in 1..z : x + m \in 1..(x + z)
OBVIOUS

LEMMA AddsOneMore ==
    ASSUME NEW L, NEW older \in Seq(L), NEW newer \in Seq(L), NEW s, NEW n \in Nat, n # 0,
           s[n] \in L, NEW k, Adds(older, newer, s, n - 1, k),
           NEW more, more = IF s[n].kind = k THEN Append(newer, s[n]) ELSE newer
    PROVE  more \in Seq(L) /\ Adds(older, more, s, n, k)
<1>. PICK at \in Seq(Nat) : AddsAt(older, newer, s, n - 1, k, at)
  BY DEF Adds
<1>0. /\ 1..n = 1..(n - 1) \cup {n} /\ \A i \in 1..(n - 1) : i < n
      /\ Len(older) \in Nat /\ Len(newer) \in Nat /\ Len(at) \in Nat
      /\ DOMAIN at = 1..Len(at)
  OBVIOUS
<1>1. CASE s[n].kind # k
  <2>1. more = newer
    BY <1>1
  <2>2. AddsAt(older, more, s, n, k, at)
    BY <1>0, <1>1, <2>1 DEF AddsAt
  <2>. QED  BY <2>1, <2>2 DEF Adds
<1>2. CASE s[n].kind = k
  <2>1. more = Append(newer, s[n]) /\ more \in Seq(L)
    BY <1>2
  <2>0. Append(at, n) \in Seq(Nat)
    OBVIOUS
  <2>2. PICK places \in Seq(Nat) : places = Append(at, n)
    BY <2>0
  <2>3. /\ Len(places) = Len(at) + 1 /\ DOMAIN places = DOMAIN at \cup {Len(at) + 1}
        /\ \A m \in DOMAIN at : places[m] = at[m] /\ m < Len(at) + 1
        /\ places[Len(at) + 1] = n
    BY <2>2
  <2>4. /\ Len(more) = Len(newer) + 1 /\ more[Len(newer) + 1] = s[n]
        /\ \A i \in DOMAIN newer : more[i] = newer[i]
        /\ DOMAIN newer = 1..Len(newer) /\ DOMAIN older = 1..Len(older)
    BY <2>1
  <2>5. Len(newer) = Len(older) + Len(at)
    BY DEF AddsAt
  <2>6. Len(more) = Len(older) + Len(places)
    BY <1>0, <2>3, <2>4, <2>5
  <2>7. \A i \in DOMAIN older : more[i] = older[i]
    <3>1. \A i \in DOMAIN older : i \in DOMAIN newer /\ newer[i] = older[i]
      BY <1>0, <2>4, <2>5 DEF AddsAt
    <3>. QED  BY <2>4, <3>1
  <2>8. ASSUME NEW m \in DOMAIN places
        PROVE  /\ places[m] \in 1..n /\ s[places[m]].kind = k
               /\ more[Len(older) + m] = s[places[m]]
    <3>1. CASE m = Len(at) + 1
      <4>1. Len(older) + m = Len(newer) + 1
        BY <1>0, <2>5, <3>1
      <4>. QED  BY <1>2, <2>3, <2>4, <3>1, <4>1
    <3>2. CASE m \in DOMAIN at
      <4>1. /\ at[m] \in 1..(n - 1) /\ s[at[m]].kind = k
            /\ newer[Len(older) + m] = s[at[m]]
        BY <3>2 DEF AddsAt
      <4>2. Len(older) + m \in DOMAIN newer
        <5>1. m \in 1..Len(at)
          BY <1>0, <3>2
        <5>2. PICK x \in Nat, y \in Nat, z \in Nat :
                 x = Len(older) /\ y = Len(newer) /\ z = Len(at)
          BY <1>0
        <5>3. y = x + z /\ m \in 1..z
          BY <2>5, <5>1, <5>2
        <5>4. x + m \in 1..(x + z)
          BY <5>3, Further
        <5>. QED  BY <2>4, <5>2, <5>3, <5>4
      <4>. QED  BY <1>0, <2>3, <2>4, <3>2, <4>1, <4>2
    <3>. QED  BY <2>3, <3>1, <3>2
  <2>9. ASSUME NEW m \in DOMAIN places, NEW o \in DOMAIN places, m < o
        PROVE  places[m] < places[o]
    <3>1. CASE o \in DOMAIN at
      <4>1. m \in DOMAIN at
        BY <1>0, <2>3, <2>9, <3>1
      <4>. QED  BY <2>3, <2>9, <3>1, <4>1 DEF AddsAt
    <3>2. CASE o = Len(at) + 1
      <4>1. m \in DOMAIN at
        BY <1>0, <2>3, <2>9, <3>2
      <4>2. at[m] \in 1..(n - 1)
        BY <4>1 DEF AddsAt
      <4>. QED  BY <1>0, <2>3, <3>2, <4>1, <4>2
    <3>. QED  BY <2>3, <3>1, <3>2
  <2>10. ASSUME NEW i \in 1..n, s[i].kind = k
         PROVE  \E m \in DOMAIN places : places[m] = i
    <3>1. CASE i = n
      BY <2>3, <3>1
    <3>2. CASE i \in 1..(n - 1)
      <4>1. PICK m \in DOMAIN at : at[m] = i
        BY <2>10, <3>2 DEF AddsAt
      <4>. QED  BY <2>3, <4>1
    <3>. QED  BY <1>0, <3>1, <3>2
  <2>11. AddsAt(older, more, s, n, k, places)
    BY <2>6, <2>7, <2>8, <2>9, <2>10 DEF AddsAt
  <2>. QED  BY <2>1, <2>11 DEF Adds
<1>. QED  BY <1>1, <1>2

LEMMA AddsNothing ==
    ASSUME NEW L, NEW older \in Seq(L), NEW s, NEW k
    PROVE  Adds(older, older, s, 0, k)
<1>0. <<>> \in Seq(Nat)
  OBVIOUS
<1>1. PICK at \in Seq(Nat) : at = <<>>
  BY <1>0
<1>2. Len(at) = 0 /\ DOMAIN at = {} /\ 1..0 = {} /\ Len(older) \in Nat
  BY <1>1
<1>3. AddsAt(older, older, s, 0, k, at)
  BY <1>2 DEF AddsAt
<1>. QED  BY <1>3 DEF Adds

OfKind(S, k) == {r \in S : r.kind = k}

LEMMA AddsFrom ==
    ASSUME NEW L, NEW S, NEW k, NEW older \in Seq(OfKind(S, k)), NEW newer \in Seq(L),
           NEW s \in Seq(L), Adds(older, newer, s, Len(s), k)
    PROVE  newer \in Seq(OfKind(S \cup ToSet(s), k))
<1>. DEFINE T == OfKind(S \cup ToSet(s), k)
<1>1. PICK at \in Seq(Nat) : AddsAt(older, newer, s, Len(s), k, at)
  BY DEF Adds
<1>2. PICK x \in Nat, y \in Nat, z \in Nat : x = Len(older) /\ y = Len(newer) /\ z = Len(at)
  OBVIOUS
<1>3. /\ y = x + z
      /\ DOMAIN older = 1..x /\ DOMAIN newer = 1..y /\ DOMAIN at = 1..z
  BY <1>1, <1>2 DEF AddsAt
<1>4. ASSUME NEW i \in 1..y  PROVE newer[i] \in T
  <2>1. CASE i \in 1..x
    <3>1. newer[i] = older[i]
      BY <1>1, <1>3, <2>1 DEF AddsAt
    <3>2. older[i] \in OfKind(S, k)
      BY <1>3, <2>1
    <3>. QED  BY <3>1, <3>2 DEF OfKind
  <2>2. CASE i \notin 1..x
    <3>1. PICK m \in 1..z : x + m = i
      <4>1. i - x \in 1..z /\ x + (i - x) = i
        BY <1>3, <2>2
      <4>. QED  BY <4>1
    <3>2. newer[i] = s[at[m]] /\ at[m] \in 1..Len(s) /\ s[at[m]].kind = k
      BY <1>1, <1>2, <1>3, <3>1 DEF AddsAt
    <3>. QED  BY <3>2 DEF ToSet, OfKind
  <2>. QED  BY <2>1, <2>2
<1>. HIDE DEF T
<1>5. newer = [i \in 1..y |-> newer[i]]
  BY <1>3
<1>6. newer \in [1..y -> T]
  BY <1>4, <1>5
<1>7. newer \in Seq(T)
  BY <1>6
<1>. QED  BY <1>7 DEF T

LEMMA ApplyLists ==
    ASSUME NEW revs, NEW b, NEW L, AreLines(L), NEW p \in Builder(revs, b, L), NEW r \in L,
           p.ok, Accepts(p, r), NEW k \in ListKinds
    PROVE  Listed(Apply(p, r), k) = IF r.kind = k THEN Append(Listed(p, k), r) ELSE Listed(p, k)
<1>0. r.kind \in LineKinds
  BY DEF AreLines
<1>1. CASE r.kind = "work"
  <2>1. Apply(p, r) = [p EXCEPT !.work = Append(@, r)]
    BY <1>1 DEF Apply
  <2>. QED  BY <1>1, <2>1 DEF Builder, Listed, ListKinds
<1>2. CASE r.kind = "dispatch"
  <2>1. Apply(p, r) = [p EXCEPT !.asks = Append(@, r)]
    BY <1>2 DEF Apply
  <2>. QED  BY <1>2, <2>1 DEF Builder, Listed, ListKinds
<1>3. CASE r.kind \notin ListKinds
  <2>1. \/ Apply(p, r) = [p EXCEPT !.comments = AppendOnce(@, r)]
        \/ Apply(p, r) = [p EXCEPT !.resolved = @ \cup {r.target}]
        \/ Apply(p, r) = [p EXCEPT !.rationale = AppendOnce(@, r)]
        \/ Apply(p, r) = [p EXCEPT !.answers = AppendOnce(@, r)]
        \/ Apply(p, r) = [p EXCEPT !.chunks = Append(@, r)]
        \/ Apply(p, r) = [p EXCEPT !.checks = {v \in @ : v.name # r.name} \cup {r}]
    BY <1>0, <1>3 DEF Apply, LineKinds, ListKinds
  <2>. QED  BY <1>3, <2>1 DEF Builder, Listed
<1>. QED  BY <1>1, <1>2, <1>3 DEF ListKinds

LEMMA LinesTurnLists ==
    ASSUME NEW revs, NEW b, NEW L, AreLines(L), NEW p \in Builder(revs, b, L),
           NEW s \in Seq(L), NEW q, q = FoldLeft(ApplyLine, p, s), q.ok, NEW k \in ListKinds
    PROVE  Adds(Listed(p, k), Listed(q, k), s, Len(s), k)
<1>1. PICK f : Runs("line", p, s, f) /\ FoldLeft(ApplyLine, p, s) = f[Len(s)]
  BY LinesRun
<1>. DEFINE Good == {i \in 0..Len(s) :
           /\ f[i] \in Builder(revs, b, L)
           /\ f[i].ok => Adds(Listed(p, k), Listed(f[i], k), s, i, k)}
<1>0. \A g \in Builder(revs, b, L) : Listed(g, k) \in Seq(L)
  BY DEF Builder, Listed
<1>2. 0 \in Good
  <2>1. f[0] = p /\ 0 \in 0..Len(s)
    BY <1>1 DEF Runs
  <2>2. Adds(Listed(p, k), Listed(p, k), s, 0, k)
    BY <1>0, AddsNothing
  <2>. QED  BY <2>1, <2>2
<1>3. ASSUME NEW i \in 1..Len(s), i - 1 \in Good  PROVE i \in Good
  <2>. DEFINE g == f[i - 1]
  <2>1. /\ g \in Builder(revs, b, L)
        /\ g.ok => Adds(Listed(p, k), Listed(g, k), s, i - 1, k)
    BY <1>3
  <2>2. f[i] = ApplyLine(g, s[i]) /\ s[i] \in L
    BY <1>1, <1>3 DEF Runs, Step
  <2>3. i \in 0..Len(s) /\ i \in Nat /\ i # 0
    OBVIOUS
  <2>. HIDE DEF g, Good
  <2>4. PICK more : more = IF s[i].kind = k THEN Append(Listed(g, k), s[i]) ELSE Listed(g, k)
    OBVIOUS
  <2>5. g.ok => Adds(Listed(p, k), more, s, i, k)
    BY <1>0, <2>1, <2>2, <2>3, <2>4, AddsOneMore
  <2>6. CASE IsAnswer(s[i])
    <3>1. f[i] = g
      BY <2>2, <2>6 DEF ApplyLine
    <3>2. more = Listed(f[i], k)
      BY <2>4, <2>6, <3>1 DEF IsAnswer, ListKinds
    <3>. QED  BY <2>1, <2>3, <2>5, <3>1, <3>2 DEF Good
  <2>7. CASE ~IsAnswer(s[i])
    <3>1. f[i] = Apply(g, s[i])
      BY <2>2, <2>7 DEF ApplyLine
    <3>2. f[i] \in Builder(revs, b, L) /\ (f[i].ok <=> g.ok /\ Accepts(g, s[i]))
      BY <2>1, <2>2, <3>1, ApplyKeeps
    <3>3. f[i].ok => more = Listed(f[i], k)
      <4>1. PICK h \in Builder(revs, b, L) : h = g
        BY <2>1
      <4>2. PICK r \in L : r = s[i]
        BY <2>2
      <4>3. h.ok /\ Accepts(h, r) =>
               Listed(Apply(h, r), k) = IF r.kind = k THEN Append(Listed(h, k), r) ELSE Listed(h, k)
        BY ApplyLists
      <4>. QED  BY <2>4, <3>1, <3>2, <4>1, <4>2, <4>3
    <3>. QED  BY <2>3, <2>5, <3>2, <3>3 DEF Good
  <2>. QED  BY <2>6, <2>7
<1>. HIDE DEF Good
<1>4. Len(s) \in Good
  <2>1. Len(s) \in Nat /\ Len(s) \in 0..Len(s)
    OBVIOUS
  <2>. QED  BY <1>2, <1>3, <2>1, StepByStep
<1>. QED  BY <1>1, <1>4 DEF Good

LEMMA AnswersTurnLists ==
    ASSUME NEW revs, NEW b, NEW L, AreLines(L), NEW p \in Builder(revs, b, L),
           NEW s \in Seq(L), NEW q, q = FoldLeft(ApplyAnswer, p, s), q.ok, NEW k \in ListKinds
    PROVE  Listed(q, k) = Listed(p, k)
<1>1. PICK f : Runs("answer", p, s, f) /\ FoldLeft(ApplyAnswer, p, s) = f[Len(s)]
  BY AnswersRun
<1>. DEFINE Good == {i \in 0..Len(s) : /\ f[i] \in Builder(revs, b, L)
                                       /\ f[i].ok => Listed(f[i], k) = Listed(p, k)}
<1>2. 0 \in Good
  BY <1>1 DEF Runs
<1>3. ASSUME NEW i \in 1..Len(s), i - 1 \in Good  PROVE i \in Good
  <2>. DEFINE g == f[i - 1]
  <2>1. g \in Builder(revs, b, L) /\ (g.ok => Listed(g, k) = Listed(p, k))
    BY <1>3
  <2>2. f[i] = ApplyAnswer(g, s[i]) /\ s[i] \in L /\ i \in 0..Len(s)
    BY <1>1, <1>3 DEF Runs, Step
  <2>. HIDE DEF g, Good
  <2>3. CASE ~IsAnswer(s[i])
    <3>1. f[i] = g
      BY <2>2, <2>3 DEF ApplyAnswer
    <3>. QED  BY <2>1, <2>2, <3>1 DEF Good
  <2>4. CASE IsAnswer(s[i])
    <3>1. f[i] = Apply(g, s[i]) /\ s[i].kind # k
      BY <2>2, <2>4 DEF ApplyAnswer, IsAnswer, ListKinds
    <3>2. f[i] \in Builder(revs, b, L) /\ (f[i].ok <=> g.ok /\ Accepts(g, s[i]))
      BY <2>1, <2>2, <3>1, ApplyKeeps
    <3>3. f[i].ok => Listed(f[i], k) = Listed(g, k)
      BY <2>1, <2>2, <3>1, <3>2, ApplyLists
    <3>. QED  BY <2>1, <2>2, <3>2, <3>3 DEF Good
  <2>. QED  BY <2>3, <2>4
<1>. HIDE DEF Good
<1>4. Len(s) \in Good
  <2>1. Len(s) \in Nat /\ Len(s) \in 0..Len(s)
    OBVIOUS
  <2>. QED  BY <1>2, <1>3, <2>1, StepByStep
<1>. QED  BY <1>1, <1>4 DEF Good

LEMMA NoteLists ==
    ASSUME NEW revs, NEW b, NEW L, AreLines(L), NEW p \in Builder(revs, b, L),
           NEW s \in Seq(L), NEW S, p.ok => Says(p, S), Fold(p, s).ok, NEW k \in ListKinds
    PROVE  Adds(Listed(p, k), Listed(Fold(p, s), k), s, Len(s), k)
<1>0. PICK q : q = FoldLeft(ApplyLine, p, s)
  OBVIOUS
<1>1. q \in Builder(revs, b, L)
  BY <1>0, LinesTurn
<1>2. Fold(p, s) = FoldLeft(ApplyAnswer, q, s)
  BY <1>0 DEF Fold
<1>3. q.ok /\ Listed(Fold(p, s), k) = Listed(q, k)
  BY <1>1, <1>2, AnswersTurnChecks, AnswersTurnLists
<1>4. Adds(Listed(p, k), Listed(q, k), s, Len(s), k)
  BY <1>0, <1>3, LinesTurnLists
<1>. QED  BY <1>3, <1>4

-----------------------------------------------------------------------------
(* All the notes of a proposal, revision after revision.                   *)

UpToNote(logs, i) == UNION {ToSet(logs[j]) : j \in 1..i}

(* Which verdicts stand: the last of each name in the newest revision's    *)
(* note, and of the other names whatever stood before.                     *)
VerdictsStand(p, logs) ==
    \E older : /\ older.checks \subseteq {x \in UpToNote(logs, Len(logs) - 1) : x.kind = "check"}
               /\ \A v : v \in p.checks <=> Stands(older, Last(logs), Len(Last(logs)), v)

(* The lines of work and the asks: those of the newest revision's note     *)
(* come after those of the older ones, in the order they are written in.   *)
Lists(p, S) == \A k \in ListKinds : Listed(p, k) \in Seq(OfKind(S, k))

WorkStands(p, logs) ==
    /\ Lists(p, UpToNote(logs, Len(logs)))
    /\ \A k \in ListKinds : \E older \in Seq(OfKind(UpToNote(logs, Len(logs) - 1), k)) :
          Adds(older, Listed(p, k), Last(logs), Len(Last(logs)), k)

LEMMA NotesSay ==
    ASSUME NEW revs, NEW b, NEW L, AreLines(L), NEW p \in Builder(revs, b, L),
           NEW logs \in Seq(Seq(L)), p.ok => Says(p, {}), p.ok => Lists(p, {}),
           NEW q, q = FoldLeft(Fold, p, logs)
    PROVE  /\ q \in Builder(revs, b, L)
           /\ q.ok <=> p.ok /\ \A i \in 1..Len(logs) :
                                  NoteReads(revs, logs[i], UpToNote(logs, i))
           /\ q.ok => Says(q, UpToNote(logs, Len(logs)))
           /\ q.ok /\ logs # <<>> => VerdictsStand(q, logs) /\ WorkStands(q, logs)
<1>1. PICK f : Runs("note", p, logs, f) /\ FoldLeft(Fold, p, logs) = f[Len(logs)]
  BY NotesRun
<1>. DEFINE Good == {i \in 0..Len(logs) :
           /\ f[i] \in Builder(revs, b, L)
           /\ f[i].ok <=> p.ok /\ \A j \in 1..i : NoteReads(revs, logs[j], UpToNote(logs, j))
           /\ f[i].ok => Says(f[i], UpToNote(logs, i)) /\ Lists(f[i], UpToNote(logs, i))}
<1>2. 0 \in Good
  <2>1. f[0] = p /\ 1..0 = {} /\ 0 \in 0..Len(logs)
    BY <1>1 DEF Runs
  <2>2. UpToNote(logs, 0) = {}
    BY <2>1 DEF UpToNote
  <2>. QED  BY <2>1, <2>2
<1>3. ASSUME NEW i \in 1..Len(logs), i - 1 \in Good  PROVE i \in Good
  <2>. DEFINE g == f[i - 1]
              S == UpToNote(logs, i - 1)
  <2>1. /\ g \in Builder(revs, b, L)
        /\ g.ok <=> p.ok /\ \A j \in 1..(i - 1) : NoteReads(revs, logs[j], UpToNote(logs, j))
        /\ g.ok => Says(g, S)
        /\ g.ok => Lists(g, S)
    BY <1>3
  <2>2. f[i] = Fold(g, logs[i]) /\ logs[i] \in Seq(L)
    BY <1>1, <1>3 DEF Runs, Step
  <2>3. i \in 0..Len(logs) /\ 1..i = 1..(i - 1) \cup {i}
    OBVIOUS
  <2>4. UpToNote(logs, i) = S \cup ToSet(logs[i])
    BY <2>3 DEF UpToNote
  <2>. HIDE DEF g, S, Good
  <2>5. f[i] \in Builder(revs, b, L)
    BY <2>1, <2>2, NoteSays
  <2>9. PICK s \in Seq(L) : s = logs[i]
    BY <2>2
  <2>6. f[i].ok <=> g.ok /\ NoteReads(revs, logs[i], UpToNote(logs, i))
    <3>1. Fold(g, s).ok <=> g.ok /\ NoteReads(revs, s, S \cup ToSet(s))
      BY <2>1, NoteSays
    <3>. QED  BY <2>2, <2>4, <2>9, <3>1
  <2>7. f[i].ok => Says(f[i], UpToNote(logs, i))
    <3>1. Fold(g, s).ok => Says(Fold(g, s), S \cup ToSet(s))
      BY <2>1, NoteSays
    <3>. QED  BY <2>2, <2>4, <2>9, <3>1
  <2>8. f[i].ok <=> p.ok /\ \A j \in 1..i : NoteReads(revs, logs[j], UpToNote(logs, j))
    BY <2>1, <2>3, <2>6
  <2>10. f[i].ok => Lists(f[i], UpToNote(logs, i))
    <3>1. SUFFICES ASSUME f[i].ok, NEW k \in ListKinds
                   PROVE  Listed(f[i], k) \in Seq(OfKind(UpToNote(logs, i), k))
      BY DEF Lists
    <3>2. Adds(Listed(g, k), Listed(Fold(g, s), k), s, Len(s), k)
      BY <2>1, <2>2, <2>9, <3>1, NoteLists
    <3>3. Listed(g, k) \in Seq(OfKind(S, k))
      BY <2>1, <2>6, <3>1 DEF Lists
    <3>4. f[i] = Fold(g, s) /\ Listed(f[i], k) \in Seq(L)
      BY <2>2, <2>5, <2>9, <3>1 DEF Builder, Listed
    <3>5. Listed(f[i], k) \in Seq(OfKind(S \cup ToSet(s), k))
      BY <3>2, <3>3, <3>4, AddsFrom
    <3>. QED  BY <2>4, <2>9, <3>5
  <2>. QED  BY <2>3, <2>5, <2>7, <2>8, <2>10 DEF Good
<1>. HIDE DEF Good
<1>4. Len(logs) \in Nat /\ Len(logs) \in 0..Len(logs)
  OBVIOUS
<1>5. \A i \in 0..Len(logs) : i \in Good
  BY <1>2, <1>3, <1>4, StepByStep
<1>6. q = f[Len(logs)] /\ Len(logs) \in Good
  BY <1>1, <1>4, <1>5
<1>7. ASSUME q.ok, logs # <<>>
      PROVE  VerdictsStand(q, logs) /\ WorkStands(q, logs)
  <2>1. Len(logs) \in 1..Len(logs) /\ Len(logs) - 1 \in 0..Len(logs)
    BY <1>7
  <2>2. f[Len(logs)] = Fold(f[Len(logs) - 1], logs[Len(logs)])
    BY <1>1, <2>1 DEF Runs, Step
  <2>3. Last(logs) = logs[Len(logs)] /\ Last(logs) \in Seq(L)
    BY <2>1 DEF Last
  <2>4. PICK older : older = f[Len(logs) - 1]
    OBVIOUS
  <2>5. /\ older \in Builder(revs, b, L)
        /\ older.ok => /\ Says(older, UpToNote(logs, Len(logs) - 1))
                       /\ Lists(older, UpToNote(logs, Len(logs) - 1))
    BY <1>5, <2>1, <2>4 DEF Good
  <2>6. q = Fold(older, Last(logs))
    BY <1>6, <2>2, <2>3, <2>4
  <2>7. older.ok
    BY <1>7, <2>3, <2>5, <2>6, NoteSays
  <2>8. \A v : v \in q.checks <=> Stands(older, Last(logs), Len(Last(logs)), v)
    BY <1>7, <2>3, <2>5, <2>6, NoteChecks
  <2>9. VerdictsStand(q, logs)
    BY <2>5, <2>7, <2>8 DEF VerdictsStand, Says
  <2>10. ASSUME NEW k \in ListKinds
         PROVE  \E from \in Seq(OfKind(UpToNote(logs, Len(logs) - 1), k)) :
                   Adds(from, Listed(q, k), Last(logs), Len(Last(logs)), k)
    <3>1. Listed(older, k) \in Seq(OfKind(UpToNote(logs, Len(logs) - 1), k))
      BY <2>5, <2>7 DEF Lists
    <3>2. PICK s \in Seq(L) : s = Last(logs)
      BY <2>3
    <3>3. Adds(Listed(older, k), Listed(Fold(older, s), k), s, Len(s), k)
      BY <1>7, <2>5, <2>6, <3>2, NoteLists
    <3>. QED  BY <2>6, <3>1, <3>2, <3>3
  <2>11. Lists(q, UpToNote(logs, Len(logs)))
    BY <1>6, <1>7 DEF Good
  <2>12. WorkStands(q, logs)
    BY <2>10, <2>11 DEF WorkStands
  <2>. QED  BY <2>9, <2>12
<1>. QED  BY <1>6, <1>7 DEF Good

-----------------------------------------------------------------------------
(* What is settled before the notes: revisions, target, state.             *)

NoneTwice(revs) == \A i, j \in DOMAIN revs : revs[i] = revs[j] => i = j

Empty(p) == /\ p.comments = <<>> /\ p.resolved = {} /\ p.checks = {}
            /\ p.work = <<>> /\ p.asks = <<>>

LEMMA RevisionsSay ==
    ASSUME NEW C, NEW revs \in Seq(C), revs # <<>>, NEW b, NEW L,
           NEW p, p = FoldLeft(AddRevision, Open(b, revs[1]), Tail(revs))
    PROVE  /\ p \in Builder(p.revs, b, L)
           /\ p.ok <=> NoneTwice(revs)
           /\ p.ok => p.revs = revs
           /\ Says(p, {})
           /\ Lists(p, {})
<1>. DEFINE rest == Tail(revs)
<1>0. /\ rest \in Seq(C) /\ Len(rest) = Len(revs) - 1 /\ Len(rest) \in Nat
      /\ DOMAIN rest = 1..Len(rest) /\ \A i \in 1..Len(rest) : rest[i] = revs[i + 1]
  OBVIOUS
<1>. HIDE DEF rest
<1>1. PICK f : Runs("revision", Open(b, revs[1]), rest, f)
               /\ FoldLeft(AddRevision, Open(b, revs[1]), rest) = f[Len(rest)]
  BY <1>0, RevisionsRun
<1>. DEFINE Fresh(n) == \A i, j \in 1..n : revs[i] = revs[j] => i = j
            Good == {i \in 0..Len(rest) :
               /\ f[i] \in Builder(f[i].revs, b, L) /\ Empty(f[i])
               /\ f[i].ok <=> Fresh(i + 1)
               /\ f[i].ok => f[i].revs = SubSeq(revs, 1, i + 1)}
<1>2. 0 \in Good
  <2>1. f[0] = Open(b, revs[1]) /\ 0 \in 0..Len(rest)
    BY <1>0, <1>1 DEF Runs
  <2>2. f[0] \in Builder(f[0].revs, b, L) /\ Empty(f[0]) /\ f[0].ok /\ f[0].revs = <<revs[1]>>
    BY <2>1 DEF Open, Builder, Empty
  <2>3. <<revs[1]>> = SubSeq(revs, 1, 0 + 1) /\ Fresh(0 + 1)
    OBVIOUS
  <2>. QED  BY <2>1, <2>2, <2>3
<1>3. ASSUME NEW i \in 1..Len(rest), i - 1 \in Good  PROVE i \in Good
  <2>. DEFINE g == f[i - 1]
              c == revs[i + 1]
  <2>1. /\ g \in Builder(g.revs, b, L) /\ Empty(g)
        /\ g.ok <=> Fresh((i - 1) + 1)
        /\ g.ok => g.revs = SubSeq(revs, 1, (i - 1) + 1)
    BY <1>3
  <2>2. f[i] = AddRevision(g, c)
    BY <1>0, <1>1, <1>3 DEF Runs, Step
  <2>3. i \in 0..Len(rest) /\ (i - 1) + 1 = i /\ i + 1 \in 1..Len(revs) /\ i \in 1..Len(revs)
    BY <1>0
  <2>4. SubSeq(revs, 1, i + 1) = Append(SubSeq(revs, 1, i), c)
    BY <2>3
  <2>5. ToSet(SubSeq(revs, 1, i)) = {revs[j] : j \in 1..i}
    BY <2>3 DEF ToSet
  <2>6. Fresh(i + 1) <=> Fresh(i) /\ c \notin {revs[j] : j \in 1..i}
    <3>1. 1..(i + 1) = 1..i \cup {i + 1} /\ i + 1 \notin 1..i
      OBVIOUS
    <3>. QED  BY <3>1
  <2>. HIDE DEF g, c, Good, Fresh
  <2>7. g.state = "open" /\ g.ok \in BOOLEAN
    BY <2>1 DEF Builder
  <2>8. CASE c \notin ToSet(g.revs)
    <3>1. f[i] = [g EXCEPT !.revs = Append(@, c)]
      BY <2>2, <2>7, <2>8 DEF AddRevision
    <3>2. f[i].revs = Append(g.revs, c) /\ f[i].ok = g.ok
      BY <2>1, <3>1 DEF Builder
    <3>3. f[i] \in Builder(f[i].revs, b, L) /\ Empty(f[i])
      BY <2>1, <3>1, <3>2 DEF Builder, Empty
    <3>4. f[i].ok <=> Fresh(i + 1)
      BY <2>1, <2>3, <2>5, <2>6, <2>8, <3>2
    <3>5. f[i].ok => f[i].revs = SubSeq(revs, 1, i + 1)
      BY <2>1, <2>3, <2>4, <3>2
    <3>. QED  BY <2>3, <3>3, <3>4, <3>5 DEF Good
  <2>9. CASE c \in ToSet(g.revs)
    <3>1. f[i] = [g EXCEPT !.ok = FALSE]
      BY <2>2, <2>7, <2>9 DEF AddRevision
    <3>2. f[i].revs = g.revs /\ ~f[i].ok
      BY <2>1, <3>1 DEF Builder
    <3>3. f[i] \in Builder(f[i].revs, b, L) /\ Empty(f[i])
      BY <2>1, <3>1, <3>2 DEF Builder, Empty
    <3>4. ~Fresh(i + 1)
      BY <2>1, <2>3, <2>5, <2>6, <2>9
    <3>. QED  BY <2>3, <3>2, <3>3, <3>4 DEF Good
  <2>. QED  BY <2>8, <2>9
<1>. HIDE DEF Good
<1>4. Len(rest) \in Good
  <2>1. Len(rest) \in 0..Len(rest)
    BY <1>0
  <2>. QED  BY <1>0, <1>2, <1>3, <2>1, StepByStep
<1>5. p = f[Len(rest)]
  BY <1>1 DEF rest
<1>6. /\ p \in Builder(p.revs, b, L) /\ Empty(p)
      /\ p.ok <=> Fresh(Len(rest) + 1)
      /\ p.ok => p.revs = SubSeq(revs, 1, Len(rest) + 1)
  BY <1>4, <1>5 DEF Good
<1>7. SubSeq(revs, 1, Len(revs)) = revs /\ Len(rest) + 1 = Len(revs) /\ DOMAIN revs = 1..Len(revs)
  BY <1>0
<1>8. Fresh(Len(revs)) <=> NoneTwice(revs)
  BY <1>7 DEF NoneTwice
<1>9. Says(p, {})
  BY <1>6 DEF Says, Empty
<1>10. Lists(p, {})
  <2>1. \A S : <<>> \in Seq(S)
    OBVIOUS
  <2>. QED  BY <1>6, <2>1 DEF Lists, Listed, Empty
<1>. HIDE DEF Fresh
<1>. QED  BY <1>6, <1>7, <1>8, <1>9, <1>10

(* The first event of a kind.                                              *)
LEMMA FirstOpening ==
    ASSUME NEW E, NEW log \in Seq(E), NEW n, n = SelectInSeq(log, IsOpening)
    PROVE  /\ n = 0 <=> ~\E i \in DOMAIN log : log[i].kind = "opened"
           /\ n # 0 => /\ n \in DOMAIN log /\ log[n].kind = "opened"
                       /\ \A i \in DOMAIN log : log[i].kind = "opened" => n <= i
<1>. DEFINE I == {i \in 1..Len(log) : log[i].kind = "opened"}
<1>1. n = IF I # {} THEN Min(I) ELSE 0
  BY DEF SelectInSeq, IsOpening
<1>2. I \in SUBSET Nat /\ DOMAIN log = 1..Len(log)
  OBVIOUS
<1>3. CASE I = {}
  BY <1>1, <1>2, <1>3
<1>4. CASE I # {}
  <2>1. Min(I) \in I /\ \A y \in I : Min(I) <= y
    BY <1>2, <1>4, Least
  <2>2. n \in I /\ \A y \in I : n <= y
    BY <1>1, <1>4, <2>1
  <2>3. n \in 1..Len(log) /\ log[n].kind = "opened" /\ n # 0
    <3>1. n \in 1..Len(log) /\ Len(log) \in Nat
      BY <2>2
    <3>2. log[n].kind = "opened"
      BY <2>2
    <3>. QED  BY <3>1, <3>2
  <2>4. ASSUME NEW i \in DOMAIN log, log[i].kind = "opened"  PROVE n <= i
    <3>1. i \in I
      BY <1>2, <2>4
    <3>. QED  BY <2>2, <3>1
  <2>. QED  BY <1>2, <2>3, <2>4
<1>. QED  BY <1>3, <1>4

LEMMA FirstEnding ==
    ASSUME NEW E, NEW log \in Seq(E), NEW n, n = SelectInSeq(log, IsEnding)
    PROVE  /\ n = 0 <=> ~\E i \in DOMAIN log : log[i].kind \in {"landed", "abandoned"}
           /\ n # 0 => /\ n \in DOMAIN log /\ log[n].kind \in {"landed", "abandoned"}
                       /\ \A i \in DOMAIN log : log[i].kind \in {"landed", "abandoned"} => n <= i
<1>. DEFINE I == {i \in 1..Len(log) : log[i].kind \in {"landed", "abandoned"}}
<1>1. n = IF I # {} THEN Min(I) ELSE 0
  BY DEF SelectInSeq, IsEnding
<1>2. I \in SUBSET Nat /\ DOMAIN log = 1..Len(log)
  OBVIOUS
<1>3. CASE I = {}
  BY <1>1, <1>2, <1>3
<1>4. CASE I # {}
  <2>1. Min(I) \in I /\ \A y \in I : Min(I) <= y
    BY <1>2, <1>4, Least
  <2>2. n \in I /\ \A y \in I : n <= y
    BY <1>1, <1>4, <2>1
  <2>3. n \in 1..Len(log) /\ log[n].kind \in {"landed", "abandoned"} /\ n # 0
    <3>1. n \in 1..Len(log) /\ Len(log) \in Nat
      BY <2>2
    <3>2. log[n].kind \in {"landed", "abandoned"}
      BY <2>2
    <3>. QED  BY <3>1, <3>2
  <2>4. ASSUME NEW i \in DOMAIN log, log[i].kind \in {"landed", "abandoned"}  PROVE n <= i
    <3>1. i \in I
      BY <1>2, <2>4
    <3>. QED  BY <2>2, <3>1
  <2>. QED  BY <1>2, <2>3, <2>4
<1>. QED  BY <1>3, <1>4

(* Among places of a log there is one latest.                              *)
IsLatest(log, places, i) ==
    /\ i \in places
    /\ \A j \in places : \/ log[j].at < log[i].at
                         \/ log[j].at = log[i].at /\ j <= i

LEMMA ThereIsALatest ==
    ASSUME NEW E, NEW log \in Seq(E), NEW places \in SUBSET DOMAIN log,
           \A i \in places : log[i].at \in Int, places # {}
    PROVE  \E i \in places : IsLatest(log, places, i)
<1>. DEFINE Leads(i, n) == /\ i \in places /\ i <= n
                           /\ \A j \in places : j <= n =>
                                  \/ log[j].at < log[i].at
                                  \/ log[j].at = log[i].at /\ j <= i
            Good == {n \in 0..Len(log) :
                       (\E i \in places : i <= n) => \E i \in places : Leads(i, n)}
<1>0. places \subseteq 1..Len(log) /\ Len(log) \in Nat
  OBVIOUS
<1>1. 0 \in Good
  BY <1>0
<1>2. ASSUME NEW n \in 1..Len(log), n - 1 \in Good  PROVE n \in Good
  <2>0. \A i : Leads(i, n) => n \in Good
    <3>1. n \in 0..Len(log)
      OBVIOUS
    <3>2. \A i : Leads(i, n) => i \in places
      OBVIOUS
    <3>. HIDE DEF Leads
    <3>. QED  BY <3>1, <3>2
  <2>1. CASE n \notin places
    <3>1. \A i \in places : i <= n <=> i <= n - 1
      BY <1>0, <2>1
    <3>. QED  BY <1>0, <1>2, <3>1
  <2>2. CASE n \in places /\ ~\E i \in places : i <= n - 1
    <3>1. \A j \in places : j <= n => j = n
      BY <1>0, <2>2
    <3>2. Leads(n, n)
      BY <1>0, <2>2, <3>1
    <3>. QED  BY <2>0, <3>2
  <2>3. CASE n \in places /\ \E i \in places : i <= n - 1
    <3>1. PICK i \in places : Leads(i, n - 1)
      BY <1>2, <2>3
    <3>2. \A j \in places : j <= n => j = n \/ j <= n - 1
      BY <1>0
    <3>3. log[i].at \in Int /\ log[n].at \in Int
      BY <2>3
    <3>4. CASE log[n].at < log[i].at
      <4>1. Leads(i, n)
        BY <1>0, <3>1, <3>2, <3>4
      <4>. QED  BY <2>0, <4>1
    <3>5. CASE ~(log[n].at < log[i].at)
      <4>1. ASSUME NEW j \in places, j <= n
            PROVE  log[j].at < log[n].at \/ (log[j].at = log[n].at /\ j <= n)
        <5>1. log[j].at \in Int
          OBVIOUS
        <5>. QED  BY <1>0, <3>1, <3>2, <3>3, <3>5, <4>1, <5>1
      <4>2. Leads(n, n)
        BY <2>3, <4>1, <1>0
      <4>. QED  BY <2>0, <4>2
    <3>. QED  BY <3>4, <3>5
  <2>. QED  BY <2>1, <2>2, <2>3
<1>. HIDE DEF Good
<1>3. Len(log) \in Good
  <2>1. Len(log) \in 0..Len(log)
    BY <1>0
  <2>. QED  BY <1>0, <1>1, <1>2, <2>1, StepByStep
<1>4. PICK i \in places : Leads(i, Len(log))
  BY <1>0, <1>3 DEF Good
<1>. QED  BY <1>0, <1>4 DEF IsLatest

LEMMA LatestIs ==
    ASSUME NEW E, NEW log \in Seq(E), NEW places \in SUBSET DOMAIN log,
           \A i \in places : log[i].at \in Int, places # {}
    PROVE  \E i \in places : IsLatest(log, places, i) /\ Latest(log, places) = log[i]
<1>. DEFINE IsIt(i) == \A j \in places : \/ log[j].at < log[i].at
                                         \/ log[j].at = log[i].at /\ j <= i
            i == CHOOSE k \in places : IsIt(k)
<1>1. \E k \in places : IsIt(k)
  BY ThereIsALatest DEF IsLatest
<1>2. i \in places /\ IsIt(i)
  BY <1>1
<1>3. Latest(log, places) = log[i]
  BY DEF Latest
<1>. QED  BY <1>2, <1>3 DEF IsLatest

LEMMA ThereIsOneLatest ==
    ASSUME NEW E, NEW log \in Seq(E), NEW places \in SUBSET DOMAIN log,
           \A i \in places : log[i].at \in Int,
           NEW i, IsLatest(log, places, i), NEW j, IsLatest(log, places, j)
    PROVE  i = j
<1>1. i \in Nat /\ j \in Nat /\ log[i].at \in Int /\ log[j].at \in Int
  BY DEF IsLatest
<1>2. /\ log[j].at < log[i].at \/ (log[j].at = log[i].at /\ j <= i)
      /\ log[i].at < log[j].at \/ (log[i].at = log[j].at /\ i <= j)
  BY DEF IsLatest
<1>. QED  BY <1>1, <1>2

(* The latest move.                                                        *)
IsLatestMove(log, i) ==
    /\ i \in Moves(log)
    /\ \A j \in Moves(log) : \/ log[j].at < log[i].at
                             \/ log[j].at = log[i].at /\ j <= i

LEMMA ThereIsALatestMove ==
    ASSUME NEW E, NEW log \in Seq(E), \A i \in Moves(log) : log[i].at \in Int,
           Moves(log) # {}
    PROVE  \E i \in Moves(log) : IsLatestMove(log, i)
<1>1. Moves(log) \in SUBSET DOMAIN log
  BY DEF Moves
<1>2. PICK i \in Moves(log) : IsLatest(log, Moves(log), i)
  BY <1>1, ThereIsALatest
<1>. QED  BY <1>2 DEF IsLatest, IsLatestMove

LEMMA TargetIsOfTheLatest ==
    ASSUME NEW E, NEW log \in Seq(E), \A i \in Moves(log) : log[i].at \in Int, NEW b
    PROVE  /\ Moves(log) = {} => Target(b, log) = b
           /\ Moves(log) # {} =>
                 \E i \in Moves(log) : IsLatestMove(log, i) /\ Target(b, log) = log[i].target
<1>1. ASSUME Moves(log) # {}
      PROVE  \E i \in Moves(log) : IsLatestMove(log, i) /\ Target(b, log) = log[i].target
  <2>. DEFINE IsIt(i) == \A j \in Moves(log) : \/ log[j].at < log[i].at
                                               \/ log[j].at = log[i].at /\ j <= i
              i == CHOOSE k \in Moves(log) : IsIt(k)
  <2>1. \E k \in Moves(log) : IsIt(k)
    BY <1>1, ThereIsALatestMove DEF IsLatestMove
  <2>2. i \in Moves(log) /\ IsIt(i)
    BY <2>1
  <2>3. Target(b, log) = log[i].target
    BY <1>1 DEF Target
  <2>. QED  BY <2>2, <2>3 DEF IsLatestMove
<1>2. Moves(log) = {} => Target(b, log) = b
  BY DEF Target
<1>. QED  BY <1>1, <1>2

(* Where a log has a line of A, and that what was added to a list is all   *)
(* it has of them.                                                         *)
PlacesOf(log, A) == {i \in DOMAIN log : log[i] \in A}

AddsAll(newer, s, k, A, L) ==
    \E older \in Seq(L) : /\ Adds(older, newer, s, Len(s), k)
                          /\ \A i \in DOMAIN older : older[i] \notin A

(* What a note adds to a list is the latest of it, when nothing before is  *)
(* of the lines A that are looked at.                                      *)
LEMMA LatestOfAdded ==
    ASSUME NEW L, NEW newer \in Seq(L), NEW s \in Seq(L), NEW k, NEW A,
           AddsAll(newer, s, k, A, L), \A r \in A : r.at \in Int
    PROVE  Latest(newer, PlacesOf(newer, A)) = Latest(s, PlacesOf(s, OfKind(A, k)))
<1>. DEFINE here  == PlacesOf(newer, A)
            there == PlacesOf(s, OfKind(A, k))
<1>0. /\ here = {i \in DOMAIN newer : newer[i] \in A}
      /\ there = {j \in DOMAIN s : s[j].kind = k /\ s[j] \in A}
  BY DEF PlacesOf, OfKind
<1>. HIDE DEF here, there
<1>1. PICK older \in Seq(L), at \in Seq(Nat) :
         /\ AddsAt(older, newer, s, Len(s), k, at)
         /\ \A i \in DOMAIN older : older[i] \notin A
  BY DEF AddsAll, Adds
<1>2. PICK x \in Nat, y \in Nat, z \in Nat : x = Len(older) /\ y = Len(newer) /\ z = Len(at)
  OBVIOUS
<1>3. /\ y = x + z /\ DOMAIN s = 1..Len(s)
      /\ DOMAIN older = 1..x /\ DOMAIN newer = 1..y /\ DOMAIN at = 1..z
  BY <1>1, <1>2 DEF AddsAt
<1>4. ASSUME NEW i \in here
      PROVE  \E m \in 1..z : i = x + m /\ at[m] \in there /\ newer[i] = s[at[m]]
  <2>1. i \in 1..y /\ newer[i] \in A
    BY <1>0, <1>3
  <2>2. i \notin 1..x
    <3>1. i \in 1..x => newer[i] = older[i]
      BY <1>1, <1>3 DEF AddsAt
    <3>. QED  BY <1>1, <1>3, <2>1, <3>1
  <2>3. i - x \in 1..z /\ x + (i - x) = i
    BY <1>3, <2>1, <2>2
  <2>4. PICK m \in 1..z : x + m = i
    BY <2>3
  <2>5. at[m] \in 1..Len(s) /\ s[at[m]].kind = k /\ newer[i] = s[at[m]]
    BY <1>1, <1>2, <1>3, <2>4 DEF AddsAt
  <2>. QED  BY <1>0, <1>3, <2>1, <2>4, <2>5
<1>5. ASSUME NEW j \in there
      PROVE  \E m \in 1..z : at[m] = j /\ x + m \in here /\ newer[x + m] = s[j]
  <2>1. j \in 1..Len(s) /\ s[j].kind = k /\ s[j] \in A
    BY <1>0, <1>3
  <2>2. PICK m \in 1..z : at[m] = j
    BY <1>1, <1>3, <2>1 DEF AddsAt
  <2>3. newer[x + m] = s[j]
    BY <1>1, <1>2, <1>3, <2>2 DEF AddsAt
  <2>4. x + m \in 1..y
    BY <1>3
  <2>. QED  BY <1>0, <1>3, <2>1, <2>2, <2>3, <2>4
<1>6. ASSUME here = {}  PROVE Latest(newer, here) = Latest(s, there)
  <2>1. there = {}
    BY <1>5, <1>6
  <2>. QED  BY <1>6, <2>1 DEF Latest
<1>7. ASSUME here # {}  PROVE Latest(newer, here) = Latest(s, there)
  <2>1. there # {}
    BY <1>4, <1>7
  <2>2. \A i \in here : newer[i].at \in Int
    BY <1>0
  <2>3. \A j \in there : s[j].at \in Int
    BY <1>0
  <2>0. here \in SUBSET DOMAIN newer /\ there \in SUBSET DOMAIN s
    BY <1>0
  <2>4. PICK i \in here : IsLatest(newer, here, i) /\ Latest(newer, here) = newer[i]
    BY <1>7, <2>0, <2>2, LatestIs
  <2>5. PICK j \in there : IsLatest(s, there, j) /\ Latest(s, there) = s[j]
    BY <2>0, <2>1, <2>3, LatestIs
  <2>6. PICK m \in 1..z : i = x + m /\ at[m] \in there /\ newer[i] = s[at[m]]
    BY <1>4
  <2>7. ASSUME NEW o \in there
        PROVE  s[o].at < s[at[m]].at \/ (s[o].at = s[at[m]].at /\ o <= at[m])
    <3>1. PICK n \in 1..z : at[n] = o /\ x + n \in here /\ newer[x + n] = s[o]
      BY <1>5
    <3>2. \/ s[o].at < s[at[m]].at
          \/ s[o].at = s[at[m]].at /\ x + n <= x + m
      BY <2>4, <2>6, <3>1 DEF IsLatest
    <3>3. x + n <= x + m => n = m \/ n < m
      OBVIOUS
    <3>4. n < m => at[n] < at[m]
      BY <1>1, <1>3 DEF AddsAt
    <3>5. at[n] \in DOMAIN s /\ at[m] \in DOMAIN s
      BY <2>0, <2>6, <3>1
    <3>6. at[n] \in Nat /\ at[m] \in Nat
      BY <1>3, <3>5
    <3>. QED  BY <3>1, <3>2, <3>3, <3>4, <3>6
  <2>8. IsLatest(s, there, at[m])
    BY <2>6, <2>7 DEF IsLatest
  <2>9. at[m] = j
    <3>1. there \in SUBSET DOMAIN s
      BY <2>0
    <3>. QED  BY <2>3, <2>5, <2>8, <3>1, ThereIsOneLatest
  <2>. QED  BY <2>4, <2>5, <2>6, <2>9
<1>8. Latest(newer, here) = Latest(s, there)
  BY <1>6, <1>7
<1>. QED  BY <1>8 DEF here, there

(* What the newest revision's note s says about an agent on revision c.    *)
WorkOn(s, c) == {j \in DOMAIN s : s[j].kind = "work" /\ s[j].rev = c}
AsksOn(s, c) == {j \in DOMAIN s : s[j].kind = "dispatch" /\ s[j].rev = c}

WorkSince(s, c) == {j \in WorkOn(s, c) : \A i \in AsksOn(s, c) : s[j].at >= s[i].at}

ActivityIn(s, c)   == Latest(s, WorkOn(s, c))
DispatchedIn(s, c) == /\ AsksOn(s, c) # {}
                      /\ Latest(s, WorkSince(s, c)).phase \in {"none", "cleared"}

(* It is all there is to say, as lines of work and asks are written to the *)
(* note of the revision they are about.                                    *)
LEMMA HeadsWork ==
    ASSUME NEW L, NEW p, NEW logs \in Seq(Seq(L)), WorkStands(p, logs), logs # <<>>,
           NEW c, c = HeadRev(p),
           \A r \in L : r.kind \in ListKinds => r.at \in Int,
           \A r \in UpToNote(logs, Len(logs) - 1) : r.kind \in ListKinds => r.rev # c,
           NEW s, s = Last(logs)
    PROVE  Activity(p) = ActivityIn(s, c) /\ Dispatched(p) = DispatchedIn(s, c)
<1>1. s \in Seq(L) /\ s = logs[Len(logs)] /\ Len(logs) \in Nat /\ Len(logs) # 0
  BY DEF Last
<1>2. \A i \in 1..Len(logs) : ToSet(logs[i]) \subseteq L
  BY DEF ToSet
<1>3. UpToNote(logs, Len(logs)) \subseteq L
  BY <1>2 DEF UpToNote
<1>4. ASSUME NEW k \in ListKinds
      PROVE  /\ Listed(p, k) \in Seq(L)
             /\ \A i \in DOMAIN Listed(p, k) : Listed(p, k)[i].kind = k
             /\ \E older \in Seq(L) : /\ Adds(older, Listed(p, k), s, Len(s), k)
                                      /\ \A i \in DOMAIN older : older[i].rev # c
  <2>1. PICK older \in Seq(OfKind(UpToNote(logs, Len(logs) - 1), k)) :
           Adds(older, Listed(p, k), s, Len(s), k)
    BY DEF WorkStands
  <2>2. \A i \in DOMAIN older : older[i] \in OfKind(UpToNote(logs, Len(logs) - 1), k)
    OBVIOUS
  <2>3. \A i \in DOMAIN older : older[i].rev # c
    BY <2>2 DEF OfKind
  <2>4. OfKind(UpToNote(logs, Len(logs) - 1), k) \subseteq L
    <3>1. 1..(Len(logs) - 1) \subseteq 1..Len(logs)
      BY <1>1
    <3>2. UpToNote(logs, Len(logs) - 1) \subseteq L
      BY <1>2, <3>1 DEF UpToNote
    <3>. QED  BY <3>2 DEF OfKind
  <2>5. older \in Seq(L)
    BY <2>2, <2>4
  <2>6. Listed(p, k) \in Seq(OfKind(UpToNote(logs, Len(logs)), k))
    BY DEF WorkStands, Lists
  <2>7. OfKind(UpToNote(logs, Len(logs)), k) \subseteq L
    BY <1>3 DEF OfKind
  <2>8. PICK list : list = Listed(p, k)
    OBVIOUS
  <2>9. \A i \in DOMAIN list : list[i] \in OfKind(UpToNote(logs, Len(logs)), k)
    BY <2>6, <2>8
  <2>10. list \in Seq(L) /\ \A i \in DOMAIN list : list[i].kind = k
    BY <2>6, <2>7, <2>8, <2>9 DEF OfKind
  <2>. QED  BY <2>1, <2>3, <2>5, <2>8, <2>10
<1>5. \A r : r.kind = "work" \/ r.kind = "dispatch" => r.kind \in ListKinds
  BY DEF ListKinds
<1>6. PICK work \in Seq(L) :
         /\ work = p.work /\ \A i \in DOMAIN work : work[i].kind = "work"
         /\ \E older \in Seq(L) : /\ Adds(older, work, s, Len(s), "work")
                                  /\ \A i \in DOMAIN older : older[i].rev # c
  BY <1>4 DEF Listed, ListKinds
<1>7. PICK asks \in Seq(L) :
         /\ asks = p.asks /\ \A i \in DOMAIN asks : asks[i].kind = "dispatch"
         /\ \E older \in Seq(L) : /\ Adds(older, asks, s, Len(s), "dispatch")
                                  /\ \A i \in DOMAIN older : older[i].rev # c
  BY <1>4 DEF Listed, ListKinds
<1>8. Activity(p) = ActivityIn(s, c)
  <2>. DEFINE A == {r \in L : r.kind = "work" /\ r.rev = c}
  <2>1. OnHead(p) = {i \in DOMAIN work : work[i] \in A}
    BY <1>6 DEF OnHead
  <2>2. WorkOn(s, c) = {j \in DOMAIN s : s[j].kind = "work" /\ s[j] \in A}
    BY <1>1 DEF WorkOn
  <2>3. AddsAll(work, s, "work", A, L)
    BY <1>6 DEF AddsAll
  <2>4. \A r \in A : r.at \in Int
    BY <1>5
  <2>. HIDE DEF A
  <2>5. OnHead(p) = PlacesOf(work, A) /\ WorkOn(s, c) = PlacesOf(s, OfKind(A, "work"))
    BY <2>1, <2>2 DEF PlacesOf, OfKind
  <2>6. Latest(work, PlacesOf(work, A)) = Latest(s, PlacesOf(s, OfKind(A, "work")))
    BY <1>1, <2>3, <2>4, LatestOfAdded
  <2>. QED  BY <1>6, <2>5, <2>6 DEF Activity, ActivityIn
<1>9. Dispatched(p) = DispatchedIn(s, c)
  <2>. DEFINE asked == {r.at : r \in {x \in ToSet(p.asks) : x.rev = HeadRev(p)}}
              A == {r \in L : /\ r.kind = "work" /\ r.rev = c
                              /\ \A t \in asked : r.at >= t}
              since == {i \in OnHead(p) : \A t \in asked : p.work[i].at >= t}
  <2>1. asked = {s[j].at : j \in AsksOn(s, c)}
    <3>1. PICK older \in Seq(L), at \in Seq(Nat) :
             /\ AddsAt(older, asks, s, Len(s), "dispatch", at)
             /\ \A i \in DOMAIN older : older[i].rev # c
      BY <1>7 DEF Adds
    <3>2. PICK x \in Nat, y \in Nat, z \in Nat : x = Len(older) /\ y = Len(asks) /\ z = Len(at)
      OBVIOUS
    <3>3. /\ y = x + z /\ DOMAIN s = 1..Len(s)
          /\ DOMAIN older = 1..x /\ DOMAIN asks = 1..y /\ DOMAIN at = 1..z
      BY <1>1, <3>1, <3>2 DEF AddsAt
    <3>4. ASSUME NEW i \in DOMAIN asks, asks[i].rev = c
          PROVE  \E j \in AsksOn(s, c) : asks[i] = s[j]
      <4>1. i \notin 1..x
        <5>1. i \in 1..x => asks[i] = older[i]
          BY <3>1, <3>3 DEF AddsAt
        <5>. QED  BY <3>1, <3>3, <3>4, <5>1
      <4>2. i - x \in 1..z /\ x + (i - x) = i
        BY <3>3, <4>1
      <4>3. PICK m \in 1..z : x + m = i
        BY <4>2
      <4>4. at[m] \in 1..Len(s) /\ s[at[m]].kind = "dispatch" /\ asks[i] = s[at[m]]
        BY <3>1, <3>2, <3>3, <4>3 DEF AddsAt
      <4>. QED  BY <3>3, <3>4, <4>4 DEF AsksOn
    <3>5. ASSUME NEW j \in AsksOn(s, c)
          PROVE  \E i \in DOMAIN asks : asks[i] = s[j]
      <4>1. j \in 1..Len(s) /\ s[j].kind = "dispatch"
        BY <3>3 DEF AsksOn
      <4>2. PICK m \in 1..z : at[m] = j
        BY <3>1, <3>3, <4>1 DEF AddsAt
      <4>3. asks[x + m] = s[j]
        BY <3>1, <3>2, <3>3, <4>2 DEF AddsAt
      <4>4. x + m \in 1..y
        BY <3>3
      <4>. QED  BY <3>3, <4>3, <4>4
    <3>6. ASSUME NEW r \in ToSet(p.asks), r.rev = c
          PROVE  \E j \in AsksOn(s, c) : r.at = s[j].at
      BY <1>7, <3>4, <3>6 DEF ToSet
    <3>7. ASSUME NEW j \in AsksOn(s, c)
          PROVE  \E r \in ToSet(p.asks) : r.rev = c /\ r.at = s[j].at
      BY <1>7, <3>5 DEF ToSet, AsksOn
    <3>8. \A v : v \in asked <=> \E r \in ToSet(p.asks) : r.rev = c /\ v = r.at
      OBVIOUS
    <3>. HIDE DEF asked
    <3>9. ASSUME NEW v \in asked  PROVE \E j \in AsksOn(s, c) : v = s[j].at
      <4>1. PICK r \in ToSet(p.asks) : r.rev = c /\ v = r.at
        BY <3>8
      <4>. QED  BY <3>6, <4>1
    <3>10. ASSUME NEW j \in AsksOn(s, c)  PROVE s[j].at \in asked
      BY <3>7, <3>8
    <3>. QED  BY <3>9, <3>10
  <2>2. since = {i \in DOMAIN work : work[i] \in A}
    BY <1>6 DEF OnHead
  <2>3. WorkSince(s, c) = {j \in DOMAIN s : s[j].kind = "work" /\ s[j] \in A}
    <3>1. \A j \in DOMAIN s : s[j] \in L
      BY <1>1
    <3>2. \A v : (\A t \in asked : v >= t) <=> (\A i \in AsksOn(s, c) : v >= s[i].at)
      BY <2>1
    <3>. HIDE DEF asked
    <3>. QED  BY <3>1, <3>2 DEF WorkSince, WorkOn
  <2>4. AddsAll(work, s, "work", A, L)
    BY <1>6 DEF AddsAll
  <2>5. \A r \in A : r.at \in Int
    BY <1>5
  <2>. HIDE DEF A
  <2>6. PICK S : S = since
    OBVIOUS
  <2>7. Latest(work, S) = Latest(s, WorkSince(s, c))
    <3>1. S = PlacesOf(work, A) /\ WorkSince(s, c) = PlacesOf(s, OfKind(A, "work"))
      BY <2>2, <2>3, <2>6 DEF PlacesOf, OfKind
    <3>2. Latest(work, PlacesOf(work, A)) = Latest(s, PlacesOf(s, OfKind(A, "work")))
      BY <1>1, <2>4, <2>5, LatestOfAdded
    <3>. QED  BY <3>1, <3>2
  <2>8. Dispatched(p) = (asked # {} /\ Latest(p.work, S).phase \in {"none", "cleared"})
    BY <2>6 DEF Dispatched
  <2>9. asked # {} <=> AsksOn(s, c) # {}
    BY <2>1
  <2>. HIDE DEF asked
  <2>. QED  BY <1>6, <2>7, <2>8, <2>9 DEF DispatchedIn
<1>. QED  BY <1>8, <1>9

(* Shuffling a log whose moments differ moves its latest line and changes  *)
(* nothing else about it.                                                  *)
IsShuffle(f, other, log) ==
    /\ \A i \in DOMAIN other : f[i] \in DOMAIN log /\ other[i] = log[f[i]]
    /\ \A j \in DOMAIN log : \E i \in DOMAIN other : f[i] = j

LEMMA LatestOfShuffled ==
    ASSUME NEW E, NEW log \in Seq(E), NEW other \in Seq(E), NEW f, IsShuffle(f, other, log),
           NEW there \in SUBSET DOMAIN log, \A j \in there : log[j].at \in Int,
           \A i, j \in there : log[i].at = log[j].at => i = j,
           NEW here, here = {i \in DOMAIN other : f[i] \in there}
    PROVE  Latest(other, here) = Latest(log, there)
<1>1. CASE there = {}
  <2>1. here = {}
    BY <1>1
  <2>. QED  BY <1>1, <2>1 DEF Latest
<1>2. CASE there # {}
  <2>1. here # {} /\ here \in SUBSET DOMAIN other
    BY <1>2 DEF IsShuffle
  <2>2. \A i \in here : other[i].at \in Int
    BY DEF IsShuffle
  <2>3. PICK i \in here : IsLatest(other, here, i) /\ Latest(other, here) = other[i]
    BY <2>1, <2>2, LatestIs
  <2>4. PICK j \in there : IsLatest(log, there, j) /\ Latest(log, there) = log[j]
    BY <1>2, LatestIs
  <2>5. f[i] \in there /\ other[i] = log[f[i]]
    BY DEF IsShuffle
  <2>6. ASSUME NEW o \in there
        PROVE  log[o].at < log[f[i]].at \/ (log[o].at = log[f[i]].at /\ o <= f[i])
    <3>1. PICK h \in DOMAIN other : f[h] = o
      BY DEF IsShuffle
    <3>2. h \in here /\ other[h] = log[o]
      BY <3>1 DEF IsShuffle
    <3>3. log[o].at < log[f[i]].at \/ log[o].at = log[f[i]].at
      BY <2>3, <2>5, <3>2 DEF IsLatest
    <3>4. o \in Nat
      OBVIOUS
    <3>. QED  BY <2>5, <3>3, <3>4
  <2>7. IsLatest(log, there, f[i])
    BY <2>5, <2>6 DEF IsLatest
  <2>8. f[i] = j
    BY <2>4, <2>7, ThereIsOneLatest
  <2>. QED  BY <2>3, <2>4, <2>5, <2>8
<1>. QED  BY <1>1, <1>2

(* An ending changes the state and nothing else.                           *)
StateOf(log) == LET n == SelectInSeq(log, IsEnding)
                IN  IF n = 0 THEN "open" ELSE log[n].kind

LEMMA EndSays ==
    ASSUME NEW revs, NEW b, NEW L, NEW p \in Builder(revs, b, L), NEW log,
           NEW q, q = End(p, log)
    PROVE  /\ q.ok = p.ok
           /\ p.ok => /\ q.state = StateOf(log) /\ q.revs = revs /\ q.target = b
                      /\ q.comments = p.comments /\ q.resolved = p.resolved
                      /\ q.checks = p.checks /\ q.work = p.work /\ q.asks = p.asks
<1>. DEFINE n == SelectInSeq(log, IsEnding)
<1>1. CASE p.ok /\ n # 0
  <2>1. q = [p EXCEPT !.state = log[n].kind]
    BY <1>1 DEF End
  <2>2. StateOf(log) = log[n].kind
    BY <1>1 DEF StateOf
  <2>. HIDE DEF n
  <2>. QED  BY <2>1, <2>2 DEF Builder
<1>2. CASE ~(p.ok /\ n # 0)
  <2>1. q = p
    BY <1>2 DEF End
  <2>2. p.ok => StateOf(log) = "open"
    BY <1>2 DEF StateOf
  <2>. QED  BY <2>1, <2>2 DEF Builder
<1>. QED  BY <1>1, <1>2

-----------------------------------------------------------------------------
(* All of it together.                                                     *)

HasOpening(log) == \E i \in DOMAIN log : IsOpening(log[i])
OpeningOf(log)  == log[SelectInSeq(log, IsOpening)]

(* What a log that reads has been folded into.                             *)
ReadsAs(p, revs, told, logs, L) ==
    /\ p.revs = revs
    /\ p.state = StateOf(told)
    /\ p.target = Target(OpeningOf(told).target, told)
    /\ p.comments \in Seq(L)
    /\ Says(p, UpToNote(logs, Len(logs)))
    /\ VerdictsStand(p, logs)
    /\ WorkStands(p, logs)

LogsRead(revs, logs) == \A i \in 1..Len(logs) : NoteReads(revs, logs[i], UpToNote(logs, i))

(* snapshot.rs rebuilds a proposal exactly from the logs that were opened, *)
(* whose revisions are distinct and whose lines name a revision and answer *)
(* a note of their own revision or of an earlier one, in whatever order a  *)
(* note has them; and the proposal is what its lines say: one comment for  *)
(* every name, all resolutions, the last verdict of a name in the newest   *)
(* note, its lines of work and asks behind those of older notes, the       *)
(* latest retarget and the first ending.                                   *)
THEOREM WhatALogSays ==
    ASSUME NEW C, NEW revs \in Seq(C), revs # <<>>,
           NEW E, NEW events, events[revs[1]] \in Seq(E),
           NEW L, AreLines(L), NEW notes, \A i \in DOMAIN revs : notes[revs[i]] \in Seq(L),
           NEW logs, logs = NotesOf(revs, notes),
           NEW p, p = Rebuild(revs, events, notes)
    PROVE  /\ p.ok \in BOOLEAN
           /\ p.ok <=> /\ HasOpening(events[revs[1]]) /\ NoneTwice(revs)
                       /\ LogsRead(revs, logs)
           /\ p.ok => ReadsAs(p, revs, events[revs[1]], logs, L)
<1>. DEFINE log == events[revs[1]]
<1>1. CASE SelectInSeq(log, IsOpening) = 0
  <2>1. p = [ok |-> FALSE]
    BY <1>1 DEF Rebuild, Unreadable
  <2>2. ~HasOpening(log)
    BY <1>1, FirstOpening DEF HasOpening, IsOpening
  <2>. QED  BY <2>1, <2>2
<1>2. CASE SelectInSeq(log, IsOpening) # 0
  <2>0. PICK b : b = Target(OpeningOf(log).target, log)
    OBVIOUS
  <2>1. HasOpening(log)
    <3>1. PICK n : n = SelectInSeq(log, IsOpening)
      OBVIOUS
    <3>2. n # 0 /\ log \in Seq(E)
      BY <1>2, <3>1
    <3>3. (n = 0) <=> ~\E i \in DOMAIN log : log[i].kind = "opened"
      BY <3>1, <3>2, FirstOpening
    <3>. QED  BY <3>2, <3>3 DEF HasOpening, IsOpening
  <2>2. PICK o : o = FoldLeft(AddRevision, Open(b, revs[1]), Tail(revs))
    OBVIOUS
  <2>3. o = Revised(revs, log)
    BY <2>0, <2>2 DEF Revised, OpeningOf
  <2>4. /\ o \in Builder(o.revs, b, L) /\ (o.ok <=> NoneTwice(revs))
        /\ o.ok => o.revs = revs
        /\ Says(o, {})
        /\ Lists(o, {})
    BY <2>2, RevisionsSay
  <2>5. PICK q : q = FoldLeft(Fold, o, logs)
    OBVIOUS
  <2>6. p = End(q, log)
    BY <1>2, <2>3, <2>5 DEF Rebuild
  <2>7. /\ logs \in Seq(Seq(L)) /\ logs # <<>> /\ Len(logs) = Len(revs)
    <3>1. DOMAIN logs = 1..Len(revs) /\ \A i \in 1..Len(revs) : logs[i] \in Seq(L)
      BY DEF NotesOf
    <3>2. logs = [i \in 1..Len(revs) |-> logs[i]]
      BY DEF NotesOf
    <3>3. logs \in [1..Len(revs) -> Seq(L)] /\ Len(revs) \in Nat /\ Len(revs) # 0
      BY <3>1, <3>2
    <3>. QED  BY <3>3
  <2>8. q \in Builder(o.revs, b, L)
    BY <2>4, <2>5, <2>7, NotesSay
  <2>9. q.ok <=> o.ok /\ LogsRead(o.revs, logs)
    <3>1. q.ok <=> o.ok /\ \A i \in 1..Len(logs) :
                            NoteReads(o.revs, logs[i], UpToNote(logs, i))
      <4>1. PICK rs : rs = o.revs
        OBVIOUS
      <4>2. /\ o \in Builder(rs, b, L) /\ (o.ok => Says(o, {})) /\ (o.ok => Lists(o, {}))
            /\ logs \in Seq(Seq(L))
        BY <2>4, <2>7, <4>1
      <4>3. q.ok <=> o.ok /\ \A i \in 1..Len(logs) :
                             NoteReads(rs, logs[i], UpToNote(logs, i))
        BY <2>5, <4>2, NotesSay
      <4>. QED  BY <4>1, <4>3
    <3>. QED  BY <3>1 DEF LogsRead
  <2>10. q.ok => Says(q, UpToNote(logs, Len(logs)))
    BY <2>4, <2>5, <2>7, NotesSay
  <2>11. q.ok => VerdictsStand(q, logs) /\ WorkStands(q, logs)
    BY <2>4, <2>5, <2>7, NotesSay
  <2>12. /\ p.ok = q.ok
         /\ q.ok => /\ p.state = StateOf(log) /\ p.revs = o.revs /\ p.target = b
                    /\ p.comments = q.comments /\ p.resolved = q.resolved
                    /\ p.checks = q.checks /\ p.work = q.work /\ p.asks = q.asks
    BY <2>6, <2>8, EndSays
  <2>. p.ok \in BOOLEAN
    BY <2>8, <2>12 DEF Builder
  <2>13. p.ok <=> NoneTwice(revs) /\ LogsRead(revs, logs)
    BY <2>4, <2>9, <2>12
  <2>14. p.ok => p.revs = revs /\ p.state = StateOf(log) /\ p.target = b
    BY <2>4, <2>9, <2>12
  <2>15. p.ok => p.comments \in Seq(L)
    BY <2>8, <2>12 DEF Builder
  <2>16. p.ok => Says(p, UpToNote(logs, Len(logs)))
    BY <2>10, <2>12 DEF Says
  <2>17. p.ok => VerdictsStand(p, logs)
    BY <2>11, <2>12 DEF VerdictsStand
  <2>18. p.ok => WorkStands(p, logs)
    BY <2>11, <2>12 DEF WorkStands, Lists, Listed
  <2>19. p.ok => ReadsAs(p, revs, log, logs, L)
    BY <2>0, <2>14, <2>15, <2>16, <2>17, <2>18 DEF ReadsAs
  <2>. QED  BY <2>1, <2>13, <2>19
<1>. QED  BY <1>1, <1>2

-----------------------------------------------------------------------------
(* One line more, at the end of the note of any revision: what it adds to  *)
(* the proposal it adds to one place, and everything after it in the log   *)
(* is folded as if it were not there.                                      *)

InsertedAt(older, newer, r, k) ==
    /\ Len(newer) = Len(older) + 1
    /\ newer[k + 1] = r
    /\ \A i \in 1..k : newer[i] = older[i]
    /\ \A i \in (k + 1)..Len(older) : newer[i + 1] = older[i]

Inserted(older, newer, r) == \E k \in 0..Len(older) : InsertedAt(older, newer, r, k)

Grown(older, newer, r, k) == newer = older \/ (r.kind = k /\ Inserted(older, newer, r))

HasAlso(p, q, r) ==
    /\ q.state = p.state /\ q.target = p.target /\ q.revs = p.revs
    /\ Grown(p.comments, q.comments, r, "comment")
    /\ Grown(p.rationale, q.rationale, r, "rationale")
    /\ Grown(p.answers, q.answers, r, "reply")
    /\ Grown(p.chunks, q.chunks, r, "chunk")
    /\ Grown(p.work, q.work, r, "work")
    /\ r.kind # "resolve" => q.resolved = p.resolved
    /\ r.kind # "check" => q.checks = p.checks
    /\ r.kind # "dispatch" => q.asks = p.asks

(* Lines that are kept once, and are not the same line.                    *)
OnceKinds == {"comment", "rationale", "reply"}
Distinct(x, r) == (x.kind = r.kind /\ r.kind \in OnceKinds) => x.id # r.id

LEMMA InsertedAtEnd ==
    ASSUME NEW L, NEW lines \in Seq(L), NEW r \in L
    PROVE  Inserted(lines, Append(lines, r), r)
<1>1. /\ Len(lines) \in 0..Len(lines) /\ Len(Append(lines, r)) = Len(lines) + 1
      /\ Append(lines, r)[Len(lines) + 1] = r
      /\ \A i \in 1..Len(lines) : Append(lines, r)[i] = lines[i]
      /\ (Len(lines) + 1)..Len(lines) = {}
  OBVIOUS
<1>2. InsertedAt(lines, Append(lines, r), r, Len(lines))
  BY <1>1 DEF InsertedAt
<1>. QED  BY <1>1, <1>2 DEF Inserted

LEMMA InsertedStays ==
    ASSUME NEW L, NEW older \in Seq(L), NEW newer \in Seq(L), NEW r \in L, NEW x \in L,
           Inserted(older, newer, r)
    PROVE  Inserted(Append(older, x), Append(newer, x), r)
<1>1. PICK k \in 0..Len(older) : InsertedAt(older, newer, r, k)
  BY DEF Inserted
<1>2. PICK n \in Nat : n = Len(older) /\ Len(newer) = n + 1 /\ k \in 0..n
  BY <1>1 DEF InsertedAt
<1>3. PICK o, m : o = Append(older, x) /\ m = Append(newer, x)
  OBVIOUS
<1>4. /\ Len(o) = n + 1 /\ Len(m) = n + 2 /\ o[n + 1] = x /\ m[n + 2] = x
      /\ \A i \in 1..n : o[i] = older[i]
      /\ \A i \in 1..(n + 1) : m[i] = newer[i]
  BY <1>2, <1>3
<1>5. m[k + 1] = r
  <2>1. k + 1 \in 1..(n + 1)
    BY <1>2
  <2>. QED  BY <1>1, <1>4, <2>1 DEF InsertedAt
<1>6. ASSUME NEW i \in 1..k  PROVE m[i] = o[i]
  <2>1. i \in 1..n /\ i \in 1..(n + 1)
    BY <1>2
  <2>. QED  BY <1>1, <1>4, <2>1 DEF InsertedAt
<1>7. ASSUME NEW i \in (k + 1)..(n + 1)  PROVE m[i + 1] = o[i]
  <2>1. CASE i = n + 1
    BY <1>4, <2>1
  <2>2. CASE i # n + 1
    <3>1. i \in (k + 1)..n /\ i \in 1..n /\ i + 1 \in 1..(n + 1)
      BY <1>2, <2>2
    <3>. QED  BY <1>1, <1>2, <1>4, <3>1 DEF InsertedAt
  <2>. QED  BY <2>1, <2>2
<1>8. InsertedAt(o, m, r, k) /\ k \in 0..Len(o)
  BY <1>2, <1>4, <1>5, <1>6, <1>7 DEF InsertedAt
<1>. QED  BY <1>3, <1>8 DEF Inserted

(* What is in a list after an insertion.                                   *)
LEMMA InsertedHas ==
    ASSUME NEW L, NEW older \in Seq(L), NEW newer \in Seq(L), NEW r \in L,
           Inserted(older, newer, r)
    PROVE  /\ \A i \in DOMAIN older : \E j \in DOMAIN newer : newer[j] = older[i]
           /\ \A j \in DOMAIN newer : newer[j] = r \/ \E i \in DOMAIN older : older[i] = newer[j]
<1>1. PICK k \in 0..Len(older) : InsertedAt(older, newer, r, k)
  BY DEF Inserted
<1>2. PICK n \in Nat : /\ n = Len(older) /\ Len(newer) = n + 1 /\ k \in 0..n
                       /\ DOMAIN older = 1..n /\ DOMAIN newer = 1..(n + 1)
  BY <1>1 DEF InsertedAt
<1>3. ASSUME NEW i \in 1..n  PROVE \E j \in 1..(n + 1) : newer[j] = older[i]
  <2>1. CASE i \in 1..k
    <3>1. i \in 1..(n + 1)
      OBVIOUS
    <3>. QED  BY <1>1, <2>1, <3>1 DEF InsertedAt
  <2>2. CASE i \notin 1..k
    <3>1. i \in (k + 1)..n /\ i + 1 \in 1..(n + 1)
      BY <1>2, <2>2
    <3>. QED  BY <1>1, <1>2, <3>1 DEF InsertedAt
  <2>. QED  BY <2>1, <2>2
<1>4. ASSUME NEW j \in 1..(n + 1)  PROVE newer[j] = r \/ \E i \in 1..n : older[i] = newer[j]
  <2>1. CASE j \in 1..k
    <3>1. j \in 1..n
      BY <1>2, <2>1
    <3>. QED  BY <1>1, <2>1, <3>1 DEF InsertedAt
  <2>2. CASE j = k + 1
    BY <1>1, <2>2 DEF InsertedAt
  <2>3. CASE j \notin 1..k /\ j # k + 1
    <3>1. j - 1 \in (k + 1)..n /\ j - 1 \in 1..n /\ (j - 1) + 1 = j
      BY <1>2, <2>3
    <3>2. newer[(j - 1) + 1] = older[j - 1]
      BY <1>1, <1>2, <3>1 DEF InsertedAt
    <3>. QED  BY <3>1, <3>2
  <2>. QED  BY <2>1, <2>2, <2>3
<1>. QED  BY <1>2, <1>3, <1>4

LEMMA GrownStays ==
    ASSUME NEW L, NEW older \in Seq(L), NEW newer \in Seq(L), NEW r \in L, NEW x \in L, NEW k,
           Grown(older, newer, r, k)
    PROVE  /\ Grown(Append(older, x), Append(newer, x), r, k)
           /\ (r.kind = k => x.id # r.id) =>
                 Grown(AppendOnce(older, x), AppendOnce(newer, x), r, k)
<1>1. CASE newer = older
  BY <1>1 DEF Grown
<1>2. CASE r.kind = k /\ Inserted(older, newer, r)
  <2>1. Inserted(Append(older, x), Append(newer, x), r)
    BY <1>2, InsertedStays
  <2>2. ASSUME x.id # r.id
        PROVE  (\E i \in DOMAIN older : older[i].id = x.id) <=>
                  \E i \in DOMAIN newer : newer[i].id = x.id
    <3>1. ASSUME NEW i \in DOMAIN older, older[i].id = x.id
          PROVE  \E j \in DOMAIN newer : newer[j].id = x.id
      BY <1>2, <3>1, InsertedHas
    <3>2. ASSUME NEW j \in DOMAIN newer, newer[j].id = x.id
          PROVE  \E i \in DOMAIN older : older[i].id = x.id
      <4>1. newer[j] # r
        BY <2>2, <3>2
      <4>2. PICK i \in DOMAIN older : older[i] = newer[j]
        BY <1>2, <4>1, InsertedHas
      <4>. QED  BY <3>2, <4>2
    <3>. QED  BY <3>1, <3>2
  <2>3. ASSUME x.id # r.id
        PROVE  Grown(AppendOnce(older, x), AppendOnce(newer, x), r, k)
    BY <1>2, <2>1, <2>2, <2>3 DEF AppendOnce, Grown
  <2>. QED  BY <1>2, <2>1, <2>3 DEF Grown
<1>. QED  BY <1>1, <1>2 DEF Grown

LEMMA GrowsByOne ==
    ASSUME NEW L, NEW lines \in Seq(L), NEW r \in L, NEW k, r.kind = k
    PROVE  Grown(lines, Append(lines, r), r, k) /\ Grown(lines, AppendOnce(lines, r), r, k)
BY InsertedAtEnd DEF Grown, AppendOnce

(* What folding line x into p changes.                                     *)
Did(p, x, q) ==
    /\ q.state = p.state /\ q.target = p.target /\ q.revs = p.revs
    /\ q.comments = IF x.kind = "comment" THEN AppendOnce(p.comments, x) ELSE p.comments
    /\ q.rationale = IF x.kind = "rationale" THEN AppendOnce(p.rationale, x) ELSE p.rationale
    /\ q.answers = IF x.kind = "reply" THEN AppendOnce(p.answers, x) ELSE p.answers
    /\ q.chunks = IF x.kind = "chunk" THEN Append(p.chunks, x) ELSE p.chunks
    /\ q.work = IF x.kind = "work" THEN Append(p.work, x) ELSE p.work
    /\ q.asks = IF x.kind = "dispatch" THEN Append(p.asks, x) ELSE p.asks
    /\ q.resolved = IF x.kind = "resolve" THEN p.resolved \cup {x.target} ELSE p.resolved
    /\ q.checks = IF x.kind = "check" THEN {v \in p.checks : v.name # x.name} \cup {x}
                                      ELSE p.checks

LEMMA ApplyDoes ==
    ASSUME NEW revs, NEW b, NEW L, AreLines(L), NEW p \in Builder(revs, b, L), NEW x \in L,
           p.ok, Accepts(p, x)
    PROVE  Did(p, x, Apply(p, x))
<1>0. SUFFICES ASSUME NEW q, q = Apply(p, x)  PROVE Did(p, x, q)
  OBVIOUS
<1>1. x.kind \in LineKinds
  BY DEF AreLines
<1>2. CASE x.kind = "comment"
  <2>1. q = [p EXCEPT !.comments = AppendOnce(@, x)]
    BY <1>0, <1>2 DEF Apply
  <2>. QED  BY <1>2, <2>1 DEF Builder, Did
<1>3. CASE x.kind = "rationale"
  <2>1. q = [p EXCEPT !.rationale = AppendOnce(@, x)]
    BY <1>0, <1>3 DEF Apply
  <2>. QED  BY <1>3, <2>1 DEF Builder, Did
<1>4. CASE x.kind = "reply"
  <2>1. q = [p EXCEPT !.answers = AppendOnce(@, x)]
    BY <1>0, <1>4 DEF Apply
  <2>. QED  BY <1>4, <2>1 DEF Builder, Did
<1>5. CASE x.kind = "resolve"
  <2>1. q = [p EXCEPT !.resolved = @ \cup {x.target}]
    BY <1>0, <1>5 DEF Apply
  <2>. QED  BY <1>5, <2>1 DEF Builder, Did
<1>6. CASE x.kind = "check"
  <2>1. q = [p EXCEPT !.checks = {v \in @ : v.name # x.name} \cup {x}]
    BY <1>0, <1>6 DEF Apply
  <2>. QED  BY <1>6, <2>1 DEF Builder, Did
<1>7. CASE x.kind = "chunk"
  <2>1. q = [p EXCEPT !.chunks = Append(@, x)]
    BY <1>0, <1>7 DEF Apply
  <2>. QED  BY <1>7, <2>1 DEF Builder, Did
<1>8. CASE x.kind = "work"
  <2>1. q = [p EXCEPT !.work = Append(@, x)]
    BY <1>0, <1>8 DEF Apply
  <2>. QED  BY <1>8, <2>1 DEF Builder, Did
<1>9. CASE x.kind = "dispatch"
  <2>1. q = [p EXCEPT !.asks = Append(@, x)]
    BY <1>0, <1>9 DEF Apply
  <2>. QED  BY <1>9, <2>1 DEF Builder, Did
<1>. QED  BY <1>1, <1>2, <1>3, <1>4, <1>5, <1>6, <1>7, <1>8, <1>9 DEF LineKinds

LEMMA ApplyAdds ==
    ASSUME NEW revs, NEW b, NEW L, AreLines(L), NEW p \in Builder(revs, b, L), NEW r \in L,
           p.ok, Accepts(p, r)
    PROVE  HasAlso(p, Apply(p, r), r)
<1>1. PICK q : q = Apply(p, r)
  OBVIOUS
<1>2. /\ p.comments \in Seq(L) /\ p.rationale \in Seq(L) /\ p.answers \in Seq(L)
      /\ p.chunks \in Seq(L) /\ p.work \in Seq(L)
  BY DEF Builder
<1>10. Did(p, r, q)
  BY <1>1, ApplyDoes
<1>3. /\ q.state = p.state /\ q.target = p.target /\ q.revs = p.revs
      /\ r.kind # "resolve" => q.resolved = p.resolved
      /\ r.kind # "check" => q.checks = p.checks
      /\ r.kind # "dispatch" => q.asks = p.asks
  BY <1>10 DEF Did
<1>4. Grown(p.comments, q.comments, r, "comment")
  <2>1. q.comments = IF r.kind = "comment" THEN AppendOnce(p.comments, r) ELSE p.comments
    BY <1>10 DEF Did
  <2>. QED  BY <1>2, <2>1, GrowsByOne DEF Grown
<1>5. Grown(p.rationale, q.rationale, r, "rationale")
  <2>1. q.rationale = IF r.kind = "rationale" THEN AppendOnce(p.rationale, r) ELSE p.rationale
    BY <1>10 DEF Did
  <2>. QED  BY <1>2, <2>1, GrowsByOne DEF Grown
<1>6. Grown(p.answers, q.answers, r, "reply")
  <2>1. q.answers = IF r.kind = "reply" THEN AppendOnce(p.answers, r) ELSE p.answers
    BY <1>10 DEF Did
  <2>. QED  BY <1>2, <2>1, GrowsByOne DEF Grown
<1>7. Grown(p.chunks, q.chunks, r, "chunk")
  <2>1. q.chunks = IF r.kind = "chunk" THEN Append(p.chunks, r) ELSE p.chunks
    BY <1>10 DEF Did
  <2>. QED  BY <1>2, <2>1, GrowsByOne DEF Grown
<1>8. Grown(p.work, q.work, r, "work")
  <2>1. q.work = IF r.kind = "work" THEN Append(p.work, r) ELSE p.work
    BY <1>10 DEF Did
  <2>. QED  BY <1>2, <2>1, GrowsByOne DEF Grown
<1>. QED  BY <1>1, <1>3, <1>4, <1>5, <1>6, <1>7, <1>8 DEF HasAlso

(* The same line folded into both.                                         *)
LEMMA ApplyStays ==
    ASSUME NEW revs, NEW b, NEW L, AreLines(L), NEW p \in Builder(revs, b, L),
           NEW q \in Builder(revs, b, L), NEW r \in L, HasAlso(p, q, r), NEW x \in L,
           Distinct(x, r), p.ok, Accepts(p, x), q.ok, Accepts(q, x)
    PROVE  HasAlso(Apply(p, x), Apply(q, x), r)
<1>1. PICK o, m : o = Apply(p, x) /\ m = Apply(q, x)
  OBVIOUS
<1>2. /\ p.comments \in Seq(L) /\ p.rationale \in Seq(L) /\ p.answers \in Seq(L)
      /\ p.chunks \in Seq(L) /\ p.work \in Seq(L)
      /\ q.comments \in Seq(L) /\ q.rationale \in Seq(L) /\ q.answers \in Seq(L)
      /\ q.chunks \in Seq(L) /\ q.work \in Seq(L)
  BY DEF Builder
<1>10. Did(p, x, o) /\ Did(q, x, m)
  BY <1>1, ApplyDoes
<1>3. /\ m.state = o.state /\ m.target = o.target /\ m.revs = o.revs
  <2>1. o.state = p.state /\ o.target = p.target /\ o.revs = p.revs
    BY <1>10 DEF Did
  <2>2. m.state = q.state /\ m.target = q.target /\ m.revs = q.revs
    BY <1>10 DEF Did
  <2>. QED  BY <2>1, <2>2 DEF HasAlso
<1>4. /\ r.kind # "resolve" => m.resolved = o.resolved
      /\ r.kind # "check" => m.checks = o.checks
      /\ r.kind # "dispatch" => m.asks = o.asks
  <2>1. /\ o.resolved = IF x.kind = "resolve" THEN p.resolved \cup {x.target} ELSE p.resolved
        /\ o.checks = IF x.kind = "check" THEN {v \in p.checks : v.name # x.name} \cup {x}
                                          ELSE p.checks
        /\ o.asks = IF x.kind = "dispatch" THEN Append(p.asks, x) ELSE p.asks
    BY <1>10 DEF Did
  <2>2. /\ m.resolved = IF x.kind = "resolve" THEN q.resolved \cup {x.target} ELSE q.resolved
        /\ m.checks = IF x.kind = "check" THEN {v \in q.checks : v.name # x.name} \cup {x}
                                          ELSE q.checks
        /\ m.asks = IF x.kind = "dispatch" THEN Append(q.asks, x) ELSE q.asks
    BY <1>10 DEF Did
  <2>. QED  BY <2>1, <2>2 DEF HasAlso
<1>5. Grown(o.comments, m.comments, r, "comment")
  <2>1. /\ o.comments = IF x.kind = "comment" THEN AppendOnce(p.comments, x) ELSE p.comments
        /\ m.comments = IF x.kind = "comment" THEN AppendOnce(q.comments, x) ELSE q.comments
    BY <1>10 DEF Did
  <2>2. Grown(p.comments, q.comments, r, "comment")
    BY DEF HasAlso
  <2>3. x.kind = "comment" => (r.kind = "comment" => x.id # r.id)
    BY DEF Distinct, OnceKinds
  <2>. QED  BY <1>2, <2>1, <2>2, <2>3, GrownStays
<1>6. Grown(o.rationale, m.rationale, r, "rationale")
  <2>1. /\ o.rationale = IF x.kind = "rationale" THEN AppendOnce(p.rationale, x)
                                                 ELSE p.rationale
        /\ m.rationale = IF x.kind = "rationale" THEN AppendOnce(q.rationale, x)
                                                 ELSE q.rationale
    BY <1>10 DEF Did
  <2>2. Grown(p.rationale, q.rationale, r, "rationale")
    BY DEF HasAlso
  <2>3. x.kind = "rationale" => (r.kind = "rationale" => x.id # r.id)
    BY DEF Distinct, OnceKinds
  <2>. QED  BY <1>2, <2>1, <2>2, <2>3, GrownStays
<1>7. Grown(o.answers, m.answers, r, "reply")
  <2>1. /\ o.answers = IF x.kind = "reply" THEN AppendOnce(p.answers, x) ELSE p.answers
        /\ m.answers = IF x.kind = "reply" THEN AppendOnce(q.answers, x) ELSE q.answers
    BY <1>10 DEF Did
  <2>2. Grown(p.answers, q.answers, r, "reply")
    BY DEF HasAlso
  <2>3. x.kind = "reply" => (r.kind = "reply" => x.id # r.id)
    BY DEF Distinct, OnceKinds
  <2>. QED  BY <1>2, <2>1, <2>2, <2>3, GrownStays
<1>8. Grown(o.chunks, m.chunks, r, "chunk")
  <2>1. /\ o.chunks = IF x.kind = "chunk" THEN Append(p.chunks, x) ELSE p.chunks
        /\ m.chunks = IF x.kind = "chunk" THEN Append(q.chunks, x) ELSE q.chunks
    BY <1>10 DEF Did
  <2>2. Grown(p.chunks, q.chunks, r, "chunk")
    BY DEF HasAlso
  <2>. QED  BY <1>2, <2>1, <2>2, GrownStays
<1>9. Grown(o.work, m.work, r, "work")
  <2>1. /\ o.work = IF x.kind = "work" THEN Append(p.work, x) ELSE p.work
        /\ m.work = IF x.kind = "work" THEN Append(q.work, x) ELSE q.work
    BY <1>10 DEF Did
  <2>2. Grown(p.work, q.work, r, "work")
    BY DEF HasAlso
  <2>. QED  BY <1>2, <2>1, <2>2, GrownStays
<1>. QED  BY <1>1, <1>3, <1>4, <1>5, <1>6, <1>7, <1>8, <1>9 DEF HasAlso

(* One turn over a note: the lines it takes, and what it makes of them.    *)
Taken(turn, x) == IF turn = "line" THEN ~IsAnswer(x) ELSE IsAnswer(x)

LEMMA TurnTakes ==
    ASSUME NEW turn \in {"line", "answer"}, NEW p, NEW x
    PROVE  Step(turn, p, x) = IF Taken(turn, x) THEN Apply(p, x) ELSE p
<1>1. CASE turn = "line"
  <2>1. Step(turn, p, x) = ApplyLine(p, x)
    BY <1>1 DEF Step
  <2>. QED  BY <1>1, <2>1 DEF Taken, ApplyLine
<1>2. CASE turn = "answer"
  <2>1. Step(turn, p, x) = ApplyAnswer(p, x)
    BY <1>2 DEF Step
  <2>. QED  BY <1>2, <2>1 DEF Taken, ApplyAnswer
<1>. QED  BY <1>1, <1>2

LEMMA TurnStays ==
    ASSUME NEW revs, NEW b, NEW L, AreLines(L), NEW p \in Builder(revs, b, L),
           NEW q \in Builder(revs, b, L), NEW r \in L, p.ok /\ q.ok => HasAlso(p, q, r),
           NEW turn \in {"line", "answer"},
           NEW s \in Seq(L), \A x \in ToSet(s) : Taken(turn, x) => Distinct(x, r),
           NEW f, Runs(turn, p, s, f), NEW g, Runs(turn, q, s, g),
           f[Len(s)].ok, g[Len(s)].ok
    PROVE  HasAlso(f[Len(s)], g[Len(s)], r)
<1>. DEFINE Good == {i \in 0..Len(s) :
           /\ f[i] \in Builder(revs, b, L) /\ g[i] \in Builder(revs, b, L)
           /\ f[i].ok /\ g[i].ok => HasAlso(f[i], g[i], r)}
<1>1. 0 \in Good
  <2>1. f[0] = p /\ g[0] = q /\ 0 \in 0..Len(s)
    BY DEF Runs
  <2>. QED  BY <2>1
<1>2. ASSUME NEW i \in 1..Len(s), i - 1 \in Good  PROVE i \in Good
  <2>1. PICK o, m : o = f[i - 1] /\ m = g[i - 1]
    OBVIOUS
  <2>2. /\ o \in Builder(revs, b, L) /\ m \in Builder(revs, b, L)
        /\ o.ok /\ m.ok => HasAlso(o, m, r)
    BY <1>2, <2>1
  <2>3. PICK x \in L : x = s[i]
    BY <1>2
  <2>4. /\ f[i] = IF Taken(turn, x) THEN Apply(o, x) ELSE o
        /\ g[i] = IF Taken(turn, x) THEN Apply(m, x) ELSE m
    BY <1>2, <2>1, <2>3, TurnTakes DEF Runs
  <2>5. i \in 0..Len(s) /\ x \in ToSet(s)
    BY <1>2, <2>3 DEF ToSet
  <2>. HIDE DEF Good
  <2>6. CASE ~Taken(turn, x)
    BY <2>2, <2>4, <2>5, <2>6 DEF Good
  <2>7. CASE Taken(turn, x)
    <3>1. /\ Apply(o, x) \in Builder(revs, b, L) /\ Apply(m, x) \in Builder(revs, b, L)
          /\ Apply(o, x).ok <=> o.ok /\ Accepts(o, x)
          /\ Apply(m, x).ok <=> m.ok /\ Accepts(m, x)
      BY <2>2, ApplyKeeps
    <3>2. Apply(o, x).ok /\ Apply(m, x).ok => HasAlso(Apply(o, x), Apply(m, x), r)
      <4>1. Distinct(x, r)
        BY <2>5, <2>7
      <4>. QED  BY <2>2, <3>1, <4>1, ApplyStays
    <3>. QED  BY <2>4, <2>5, <2>7, <3>1, <3>2 DEF Good
  <2>. QED  BY <2>6, <2>7
<1>. HIDE DEF Good
<1>3. Len(s) \in Good
  <2>1. Len(s) \in Nat /\ Len(s) \in 0..Len(s)
    OBVIOUS
  <2>. QED  BY <1>1, <1>2, <2>1, StepByStep
<1>. QED  BY <1>3 DEF Good

(* A turn over a longer note goes on from the shorter one.                 *)
LEMMA TurnGoesOn ==
    ASSUME NEW what, NEW base, NEW L, NEW s \in Seq(L), NEW r \in L,
           NEW f, Runs(what, base, s, f), NEW g, Runs(what, base, Append(s, r), g)
    PROVE  g[Len(Append(s, r))] = Step(what, f[Len(s)], r)
<1>. DEFINE Good == {i \in 0..Len(s) : g[i] = f[i]}
<1>1. PICK n \in Nat : n = Len(s)
  OBVIOUS
<1>2. PICK t : t = Append(s, r)
  OBVIOUS
<1>3. Len(t) = n + 1 /\ t[n + 1] = r /\ \A i \in 1..n : t[i] = s[i]
  BY <1>1, <1>2
<1>4. 0 \in Good
  BY <1>1 DEF Runs
<1>5. ASSUME NEW i \in 1..n, i - 1 \in Good  PROVE i \in Good
  <2>1. i \in 1..Len(t) /\ i \in 0..Len(s)
    BY <1>1, <1>3
  <2>2. g[i] = Step(what, g[i - 1], t[i]) /\ f[i] = Step(what, f[i - 1], s[i])
    BY <1>1, <1>2, <2>1 DEF Runs
  <2>. QED  BY <1>3, <1>5, <2>1, <2>2
<1>. HIDE DEF Good
<1>6. n \in Good
  <2>1. n \in 0..n
    BY <1>1
  <2>. QED  BY <1>4, <1>5, <2>1, StepByStep
<1>7. g[n + 1] = Step(what, g[n], r)
  <2>1. n + 1 \in 1..Len(t) /\ (n + 1) - 1 = n
    BY <1>3
  <2>. QED  BY <1>2, <1>3, <2>1 DEF Runs
<1>. QED  BY <1>1, <1>2, <1>3, <1>6, <1>7 DEF Good

LEMMA TurnKeeps ==
    ASSUME NEW revs, NEW b, NEW L, AreLines(L), NEW p \in Builder(revs, b, L),
           NEW turn \in {"line", "answer"}, NEW s \in Seq(L), NEW f, Runs(turn, p, s, f)
    PROVE  f[Len(s)] \in Builder(revs, b, L) /\ (f[Len(s)].ok => p.ok)
<1>. DEFINE Good == {i \in 0..Len(s) : f[i] \in Builder(revs, b, L) /\ (f[i].ok => p.ok)}
<1>1. 0 \in Good
  <2>1. f[0] = p /\ 0 \in 0..Len(s)
    BY DEF Runs
  <2>. QED  BY <2>1
<1>2. ASSUME NEW i \in 1..Len(s), i - 1 \in Good  PROVE i \in Good
  <2>1. PICK o \in Builder(revs, b, L) : o = f[i - 1] /\ (o.ok => p.ok)
    BY <1>2
  <2>2. PICK x \in L : x = s[i]
    BY <1>2
  <2>3. f[i] = IF Taken(turn, x) THEN Apply(o, x) ELSE o
    BY <1>2, <2>1, <2>2, TurnTakes DEF Runs
  <2>4. Apply(o, x) \in Builder(revs, b, L) /\ (Apply(o, x).ok <=> o.ok /\ Accepts(o, x))
    BY ApplyKeeps
  <2>. QED  BY <1>2, <2>1, <2>3, <2>4
<1>. HIDE DEF Good
<1>3. Len(s) \in Good
  <2>1. Len(s) \in Nat /\ Len(s) \in 0..Len(s)
    OBVIOUS
  <2>. QED  BY <1>1, <1>2, <2>1, StepByStep
<1>. QED  BY <1>3 DEF Good

LEMMA OneRun ==
    ASSUME NEW what, NEW base, NEW s, Len(s) \in Nat, NEW f, Runs(what, base, s, f),
           NEW g, Runs(what, base, s, g)
    PROVE  f[Len(s)] = g[Len(s)]
<1>. DEFINE Good == {i \in 0..Len(s) : f[i] = g[i]}
<1>1. 0 \in Good
  BY DEF Runs
<1>2. ASSUME NEW i \in 1..Len(s), i - 1 \in Good  PROVE i \in Good
  BY <1>2 DEF Runs
<1>. HIDE DEF Good
<1>3. Len(s) \in Good
  <2>1. Len(s) \in 0..Len(s)
    OBVIOUS
  <2>. QED  BY <1>1, <1>2, <2>1, StepByStep
<1>. QED  BY <1>3 DEF Good

(* A note in two turns, what they go through and what comes of them.       *)
TwoTurns(p, s, B, f, g) ==
    /\ Runs("line", p, s, f) /\ Runs("answer", f[Len(s)], s, g)
    /\ f[Len(s)] \in B /\ g[Len(s)] \in B
    /\ Fold(p, s) = g[Len(s)]
    /\ g[Len(s)].ok => f[Len(s)].ok
    /\ f[Len(s)].ok => p.ok

LEMMA ANoteIsTwoTurns ==
    ASSUME NEW revs, NEW b, NEW L, AreLines(L), NEW p \in Builder(revs, b, L), NEW s \in Seq(L)
    PROVE  \E f, g : TwoTurns(p, s, Builder(revs, b, L), f, g)
<1>1. PICK f : Runs("line", p, s, f) /\ FoldLeft(ApplyLine, p, s) = f[Len(s)]
  BY LinesRun
<1>2. PICK o : o = f[Len(s)]
  OBVIOUS
<1>3. PICK g : Runs("answer", o, s, g) /\ FoldLeft(ApplyAnswer, o, s) = g[Len(s)]
  BY AnswersRun
<1>4. Fold(p, s) = g[Len(s)]
  BY <1>1, <1>2, <1>3 DEF Fold
<1>5. o \in Builder(revs, b, L) /\ (o.ok => p.ok)
  BY <1>1, <1>2, TurnKeeps
<1>6. g[Len(s)] \in Builder(revs, b, L) /\ (g[Len(s)].ok => o.ok)
  BY <1>3, <1>5, TurnKeeps
<1>. QED  BY <1>1, <1>2, <1>3, <1>4, <1>5, <1>6 DEF TwoTurns

LEMMA NoteKeeps ==
    ASSUME NEW revs, NEW b, NEW L, AreLines(L), NEW p \in Builder(revs, b, L), NEW s \in Seq(L)
    PROVE  Fold(p, s) \in Builder(revs, b, L) /\ (Fold(p, s).ok => p.ok)
<1>1. PICK f, g : TwoTurns(p, s, Builder(revs, b, L), f, g)
  BY ANoteIsTwoTurns
<1>. QED  BY <1>1 DEF TwoTurns

LEMMA NoteStays ==
    ASSUME NEW revs, NEW b, NEW L, AreLines(L), NEW p \in Builder(revs, b, L),
           NEW q \in Builder(revs, b, L), NEW r \in L, p.ok /\ q.ok => HasAlso(p, q, r),
           NEW s \in Seq(L), \A x \in ToSet(s) : Distinct(x, r),
           Fold(p, s).ok, Fold(q, s).ok
    PROVE  HasAlso(Fold(p, s), Fold(q, s), r)
<1>1. PICK f, g : TwoTurns(p, s, Builder(revs, b, L), f, g)
  BY ANoteIsTwoTurns
<1>2. PICK h, k : TwoTurns(q, s, Builder(revs, b, L), h, k)
  BY ANoteIsTwoTurns
<1>3. PICK o \in Builder(revs, b, L), m \in Builder(revs, b, L) : o = f[Len(s)] /\ m = h[Len(s)]
  BY <1>1, <1>2 DEF TwoTurns
<1>4. o.ok /\ m.ok
  BY <1>1, <1>2, <1>3 DEF TwoTurns
<1>7. /\ Runs("line", p, s, f) /\ Runs("line", q, s, h)
      /\ o = f[Len(s)] /\ m = h[Len(s)] /\ p.ok /\ q.ok
  BY <1>1, <1>2, <1>3, <1>4 DEF TwoTurns
<1>5. HasAlso(o, m, r)
  BY <1>4, <1>7, TurnStays
<1>6. Runs("answer", o, s, g) /\ Runs("answer", m, s, k) /\ g[Len(s)].ok /\ k[Len(s)].ok
      /\ Fold(p, s) = g[Len(s)] /\ Fold(q, s) = k[Len(s)]
  BY <1>1, <1>2, <1>3 DEF TwoTurns
<1>. QED  BY <1>5, <1>6, TurnStays

(* The note that has the line: an answer is the last of the second turn, a *)
(* line of any other kind the last of the first.                           *)
LEMMA NoteAdds ==
    ASSUME NEW revs, NEW b, NEW L, AreLines(L), NEW p \in Builder(revs, b, L),
           NEW s \in Seq(L), NEW r \in L, Fold(p, s).ok, Fold(p, Append(s, r)).ok
    PROVE  HasAlso(Fold(p, s), Fold(p, Append(s, r)), r)
<1>. Append(s, r) \in Seq(L)
  OBVIOUS
<1>0. PICK t \in Seq(L) : t = Append(s, r)
  OBVIOUS
<1>1. PICK f, g : TwoTurns(p, s, Builder(revs, b, L), f, g)
  BY ANoteIsTwoTurns
<1>2. PICK h, k : TwoTurns(p, t, Builder(revs, b, L), h, k)
  BY ANoteIsTwoTurns
<1>3. PICK o \in Builder(revs, b, L), m \in Builder(revs, b, L) : o = f[Len(s)] /\ m = h[Len(t)]
  BY <1>1, <1>2 DEF TwoTurns
<1>14. /\ Runs("line", p, s, f) /\ Runs("line", p, Append(s, r), h)
       /\ Fold(p, s) = g[Len(s)] /\ Fold(p, t) = k[Len(t)]
  BY <1>0, <1>1, <1>2 DEF TwoTurns
<1>4. m = Step("line", o, r)
  BY <1>0, <1>3, <1>14, TurnGoesOn
<1>5. m = IF Taken("line", r) THEN Apply(o, r) ELSE o
  BY <1>4, TurnTakes
<1>6. PICK j : Runs("answer", m, s, j) /\ FoldLeft(ApplyAnswer, m, s) = j[Len(s)]
  BY AnswersRun
<1>7. Runs("answer", m, Append(s, r), k) /\ Runs("answer", o, s, g)
  BY <1>0, <1>1, <1>2, <1>3 DEF TwoTurns
<1>8. k[Len(t)] = Step("answer", j[Len(s)], r)
  BY <1>0, <1>6, <1>7, TurnGoesOn
<1>9. PICK e \in Builder(revs, b, L) : e = j[Len(s)]
  BY <1>3, <1>6, TurnKeeps
<1>10. k[Len(t)] = IF Taken("answer", r) THEN Apply(e, r) ELSE e
  BY <1>8, <1>9, TurnTakes
<1>11. g[Len(s)].ok /\ k[Len(t)].ok /\ o.ok /\ m.ok
  BY <1>0, <1>1, <1>2, <1>3 DEF TwoTurns
<1>12. CASE IsAnswer(r)
  <2>1. m = o /\ k[Len(t)] = Apply(e, r)
    BY <1>5, <1>10, <1>12 DEF Taken
  <2>2. e.ok /\ Accepts(e, r)
    BY <1>11, <2>1, ApplyKeeps
  <2>3. HasAlso(e, Apply(e, r), r)
    BY <2>2, ApplyAdds
  <2>4. FoldLeft(ApplyAnswer, m, s) = Fold(p, s)
    <3>1. FoldLeft(ApplyLine, p, s) = o
      <4>1. PICK f2 : Runs("line", p, s, f2) /\ FoldLeft(ApplyLine, p, s) = f2[Len(s)]
        BY LinesRun
      <4>. QED  BY <1>3, <1>14, <4>1, OneRun
    <3>. QED  BY <2>1, <3>1 DEF Fold
  <2>. QED  BY <1>0, <1>6, <1>9, <1>14, <2>1, <2>3, <2>4
<1>13. CASE ~IsAnswer(r)
  <2>1. m = Apply(o, r) /\ k[Len(t)] = e
    BY <1>5, <1>10, <1>13 DEF Taken
  <2>2. o.ok /\ Accepts(o, r)
    BY <1>11, <2>1, ApplyKeeps
  <2>3. HasAlso(o, m, r)
    BY <2>1, <2>2, ApplyAdds
  <2>4. \A x \in ToSet(s) : Taken("answer", x) => Distinct(x, r)
    <3>1. SUFFICES ASSUME NEW x \in ToSet(s), IsAnswer(x), x.kind = r.kind, r.kind \in OnceKinds
                   PROVE  FALSE
      BY DEF Taken, Distinct
    <3>. QED  BY <1>13, <3>1 DEF IsAnswer
  <2>5. j[Len(s)].ok
    BY <1>9, <1>11, <2>1
  <2>6. HasAlso(g[Len(s)], j[Len(s)], r)
    BY <1>6, <1>7, <1>11, <2>3, <2>4, <2>5, TurnStays
  <2>. QED  BY <1>0, <1>9, <1>14, <2>1, <2>6
<1>. QED  BY <1>12, <1>13

(* All the notes, of which the k-th has the line r more.                   *)
LEMMA NotesAdd ==
    ASSUME NEW revs, NEW b, NEW L, AreLines(L), NEW p \in Builder(revs, b, L),
           NEW logs \in Seq(Seq(L)), NEW more \in Seq(Seq(L)), Len(more) = Len(logs),
           NEW k \in 1..Len(logs), NEW r \in L, more[k] = Append(logs[k], r),
           \A i \in 1..Len(logs) : i # k => more[i] = logs[i],
           \A i \in (k + 1)..Len(logs) : \A x \in ToSet(logs[i]) : Distinct(x, r),
           FoldLeft(Fold, p, logs).ok, FoldLeft(Fold, p, more).ok
    PROVE  HasAlso(FoldLeft(Fold, p, logs), FoldLeft(Fold, p, more), r)
<1>0. PICK n \in Nat : n = Len(logs) /\ n = Len(more) /\ k \in 1..n
  OBVIOUS
<1>7. /\ DOMAIN logs = 1..Len(logs) /\ Len(logs) \in Nat
      /\ DOMAIN more = 1..Len(more) /\ Len(more) \in Nat
  OBVIOUS
<1>1. PICK f : Runs("note", p, logs, f) /\ FoldLeft(Fold, p, logs) = f[n]
  BY <1>0, <1>7, NotesRun
<1>2. PICK g : Runs("note", p, more, g) /\ FoldLeft(Fold, p, more) = g[n]
  BY <1>0, <1>7, NotesRun
<1>8. ASSUME NEW i \in 1..n
      PROVE  /\ logs[i] \in Seq(L) /\ more[i] \in Seq(L)
             /\ i # k => more[i] = logs[i]
             /\ i > k => \A x \in ToSet(logs[i]) : Distinct(x, r)
  <2>1. i \in 1..Len(logs) /\ i \in 1..Len(more)
    BY <1>0
  <2>2. i > k => i \in (k + 1)..Len(logs)
    BY <1>0
  <2>. QED  BY <2>1, <2>2
<1>. DEFINE Good == {i \in 0..n :
           /\ f[i] \in Builder(revs, b, L) /\ g[i] \in Builder(revs, b, L)
           /\ i < k => g[i] = f[i]
           /\ i >= k => (f[i].ok /\ g[i].ok => HasAlso(f[i], g[i], r))}
<1>3. 0 \in Good
  <2>1. f[0] = p /\ g[0] = p
    BY <1>1, <1>2 DEF Runs
  <2>. QED  BY <1>0, <2>1
<1>4. ASSUME NEW i \in 1..n, i - 1 \in Good  PROVE i \in Good
  <2>1. PICK o \in Builder(revs, b, L), m \in Builder(revs, b, L) : o = f[i - 1] /\ m = g[i - 1]
    BY <1>4
  <2>2. PICK s \in Seq(L), t \in Seq(L) : s = logs[i] /\ t = more[i]
    BY <1>8
  <2>3. f[i] = Fold(o, s) /\ g[i] = Fold(m, t)
    BY <1>0, <1>1, <1>2, <1>4, <2>1, <2>2 DEF Runs, Step
  <2>4. /\ f[i] \in Builder(revs, b, L) /\ (f[i].ok => o.ok)
        /\ g[i] \in Builder(revs, b, L) /\ (g[i].ok => m.ok)
    BY <2>3, NoteKeeps
  <2>5. /\ i - 1 < k => m = o
        /\ i - 1 >= k => (o.ok /\ m.ok => HasAlso(o, m, r))
    BY <1>4, <2>1
  <2>6. CASE i < k
    <3>1. t = s /\ m = o
      BY <1>0, <1>8, <2>2, <2>5, <2>6
    <3>. QED  BY <1>0, <1>4, <2>3, <2>4, <2>6, <3>1
  <2>7. CASE i = k
    <3>1. t = Append(s, r) /\ m = o
      BY <1>0, <1>4, <2>2, <2>5, <2>7
    <3>2. f[i].ok /\ g[i].ok => HasAlso(f[i], g[i], r)
      BY <2>3, <3>1, NoteAdds
    <3>. QED  BY <1>0, <1>4, <2>4, <2>7, <3>2
  <2>8. CASE i > k
    <3>1. t = s /\ i - 1 >= k
      BY <1>0, <1>8, <2>2, <2>8
    <3>2. \A x \in ToSet(s) : Distinct(x, r)
      BY <1>8, <2>2, <2>8
    <3>3. f[i].ok /\ g[i].ok => HasAlso(f[i], g[i], r)
      BY <2>3, <2>5, <3>1, <3>2, NoteStays
    <3>. QED  BY <1>0, <1>4, <2>4, <2>8, <3>3
  <2>. QED  BY <1>0, <1>4, <2>6, <2>7, <2>8
<1>. HIDE DEF Good
<1>5. n \in Good
  <2>1. n \in 0..n
    BY <1>0
  <2>. QED  BY <1>3, <1>4, <2>1, StepByStep
<1>6. f[n].ok /\ g[n].ok => HasAlso(f[n], g[n], r)
  BY <1>0, <1>5 DEF Good
<1>. QED  BY <1>1, <1>2, <1>6

LEMMA EndStays ==
    ASSUME NEW revs, NEW b, NEW L, NEW p \in Builder(revs, b, L), NEW q \in Builder(revs, b, L),
           p.ok, q.ok, NEW r, HasAlso(p, q, r), NEW log
    PROVE  HasAlso(End(p, log), End(q, log), r)
<1>1. PICK n : n = SelectInSeq(log, IsEnding)
  OBVIOUS
<1>2. CASE n = 0
  BY <1>1, <1>2 DEF End
<1>3. CASE n # 0
  <2>1. PICK k : k = log[n].kind
    OBVIOUS
  <2>2. End(p, log) = [p EXCEPT !.state = k] /\ End(q, log) = [q EXCEPT !.state = k]
    BY <1>1, <1>3, <2>1 DEF End
  <2>3. PICK o, m : o = [p EXCEPT !.state = k] /\ m = [q EXCEPT !.state = k]
    OBVIOUS
  <2>4. /\ o.state = k /\ o.target = p.target /\ o.revs = p.revs
        /\ o.comments = p.comments /\ o.rationale = p.rationale /\ o.answers = p.answers
        /\ o.chunks = p.chunks /\ o.work = p.work /\ o.resolved = p.resolved
        /\ o.checks = p.checks /\ o.asks = p.asks
    BY <2>3 DEF Builder
  <2>5. /\ m.state = k /\ m.target = q.target /\ m.revs = q.revs
        /\ m.comments = q.comments /\ m.rationale = q.rationale /\ m.answers = q.answers
        /\ m.chunks = q.chunks /\ m.work = q.work /\ m.resolved = q.resolved
        /\ m.checks = q.checks /\ m.asks = q.asks
    BY <2>3 DEF Builder
  <2>6. HasAlso(o, m, r)
    BY <2>4, <2>5 DEF HasAlso
  <2>. QED  BY <2>2, <2>3, <2>6
<1>. QED  BY <1>2, <1>3

(* What a proposal that was read is made of.                               *)
Made(p, L) ==
    /\ p.comments \in Seq(L) /\ p.rationale \in Seq(L) /\ p.answers \in Seq(L)
    /\ p.chunks \in Seq(L) /\ p.work \in Seq(L) /\ p.asks \in Seq(L)
    /\ p.checks \in SUBSET L

(* Rebuilding is folding what the revisions make into the notes.           *)
LEMMA Rebuilding ==
    ASSUME NEW C, NEW revs \in Seq(C), revs # <<>>, NEW events, NEW L, AreLines(L),
           NEW notes, \A i \in DOMAIN revs : notes[revs[i]] \in Seq(L),
           NEW o, o = Revised(revs, events[revs[1]]),
           NEW logs, logs = NotesOf(revs, notes),
           NEW p, p = Rebuild(revs, events, notes), p.ok
    PROVE  /\ \E b : o \in Builder(o.revs, b, L) /\ FoldLeft(Fold, o, logs) \in Builder(o.revs, b, L)
           /\ logs \in Seq(Seq(L)) /\ Len(logs) = Len(revs)
           /\ \A i \in 1..Len(revs) : logs[i] = notes[revs[i]]
           /\ p = End(FoldLeft(Fold, o, logs), events[revs[1]])
           /\ FoldLeft(Fold, o, logs).ok
           /\ Made(p, L)
<1>. DEFINE log == events[revs[1]]
<1>1. SelectInSeq(log, IsOpening) # 0
  <2>1. ASSUME SelectInSeq(log, IsOpening) = 0  PROVE FALSE
    <3>1. p = [ok |-> FALSE]
      BY <2>1 DEF Rebuild, Unreadable
    <3>. QED  BY <3>1
  <2>. QED  BY <2>1
<1>2. PICK b : b = Target(OpeningOf(log).target, log)
  OBVIOUS
<1>3. o = FoldLeft(AddRevision, Open(b, revs[1]), Tail(revs))
  BY <1>2 DEF Revised, OpeningOf
<1>4. o \in Builder(o.revs, b, L) /\ Says(o, {}) /\ Lists(o, {})
  BY <1>3, RevisionsSay
<1>5. PICK q : q = FoldLeft(Fold, o, logs)
  OBVIOUS
<1>6. p = End(q, log)
  BY <1>1, <1>5 DEF Rebuild
<1>7. /\ logs \in Seq(Seq(L)) /\ Len(logs) = Len(revs)
      /\ \A i \in 1..Len(revs) : logs[i] = notes[revs[i]]
  <2>1. DOMAIN logs = 1..Len(revs) /\ \A i \in 1..Len(revs) : logs[i] \in Seq(L)
    BY DEF NotesOf
  <2>2. logs = [i \in 1..Len(revs) |-> logs[i]]
    BY DEF NotesOf
  <2>3. logs \in [1..Len(revs) -> Seq(L)] /\ Len(revs) \in Nat
    BY <2>1, <2>2
  <2>. QED  BY <2>1, <2>3 DEF NotesOf
<1>8. q \in Builder(o.revs, b, L)
  BY <1>4, <1>5, <1>7, NotesSay
<1>9. q.ok
  <2>1. p = q \/ \E s : p = [q EXCEPT !.state = s]
    BY <1>6 DEF End
  <2>. QED  BY <1>8, <2>1 DEF Builder
<1>10. Made(p, L)
  <2>1. Made(q, L)
    BY <1>8 DEF Builder, Made
  <2>2. p = q \/ \E s : p = [q EXCEPT !.state = s]
    BY <1>6 DEF End
  <2>. QED  BY <1>8, <2>1, <2>2 DEF Builder, Made
<1>. QED  BY <1>4, <1>5, <1>6, <1>7, <1>8, <1>9, <1>10

(* A log that has one line more, at the end of the note of any revision,   *)
(* reads as the same proposal but for what lines of its kind are about: a  *)
(* list has that line in one place and is the same around it, and no later *)
(* line is read another way.  (proposal.rs, fold)                          *)
THEOREM OneLineMore ==
    ASSUME NEW C, NEW revs \in Seq(C), revs # <<>>, NEW events, NEW L, AreLines(L),
           NEW notes, \A i \in DOMAIN revs : notes[revs[i]] \in Seq(L),
           NEW more, NEW k \in DOMAIN revs, NEW r \in L,
           more[revs[k]] = Append(notes[revs[k]], r),
           \A i \in DOMAIN revs : i # k => more[revs[i]] = notes[revs[i]],
           \A i \in DOMAIN revs : i > k => \A x \in ToSet(notes[revs[i]]) : Distinct(x, r),
           NEW p, p = Rebuild(revs, events, notes), p.ok,
           NEW q, q = Rebuild(revs, events, more), q.ok
    PROVE  HasAlso(p, q, r)
<1>1. PICK n \in Nat : n = Len(revs) /\ DOMAIN revs = 1..n
  OBVIOUS
<1>2. PICK o, logs, further, log :
         /\ log = events[revs[1]] /\ o = Revised(revs, log)
         /\ logs = NotesOf(revs, notes) /\ further = NotesOf(revs, more)
  OBVIOUS
<1>3. \A i \in DOMAIN revs : more[revs[i]] \in Seq(L)
  <2>1. Append(notes[revs[k]], r) \in Seq(L)
    OBVIOUS
  <2>. QED  BY <2>1
<1>4. PICK b : o \in Builder(o.revs, b, L) /\ FoldLeft(Fold, o, logs) \in Builder(o.revs, b, L)
  BY <1>2, Rebuilding
<1>5. /\ logs \in Seq(Seq(L)) /\ Len(logs) = n
      /\ \A i \in 1..n : logs[i] = notes[revs[i]]
      /\ p = End(FoldLeft(Fold, o, logs), log) /\ FoldLeft(Fold, o, logs).ok
  <2>1. /\ logs \in Seq(Seq(L)) /\ Len(logs) = Len(revs)
        /\ \A i \in 1..Len(revs) : logs[i] = notes[revs[i]]
    BY <1>2, Rebuilding
  <2>2. p = End(FoldLeft(Fold, o, logs), events[revs[1]]) /\ FoldLeft(Fold, o, logs).ok
    BY <1>2, Rebuilding
  <2>. QED  BY <1>1, <1>2, <2>1, <2>2
<1>6. /\ further \in Seq(Seq(L)) /\ Len(further) = n
      /\ \A i \in 1..n : further[i] = more[revs[i]]
      /\ q = End(FoldLeft(Fold, o, further), log) /\ FoldLeft(Fold, o, further).ok
  <2>1. /\ further \in Seq(Seq(L)) /\ Len(further) = Len(revs)
        /\ \A i \in 1..Len(revs) : further[i] = more[revs[i]]
    BY <1>2, <1>3, Rebuilding
  <2>2. q = End(FoldLeft(Fold, o, further), events[revs[1]]) /\ FoldLeft(Fold, o, further).ok
    BY <1>2, <1>3, Rebuilding
  <2>. QED  BY <1>1, <1>2, <2>1, <2>2
<1>7. PICK c : FoldLeft(Fold, o, further) \in Builder(o.revs, c, L) /\ o \in Builder(o.revs, c, L)
  BY <1>2, <1>3, Rebuilding
<1>8. c = b
  BY <1>4, <1>7 DEF Builder
<1>9. HasAlso(FoldLeft(Fold, o, logs), FoldLeft(Fold, o, further), r)
  <2>1. k \in 1..Len(logs) /\ further[k] = Append(logs[k], r)
    BY <1>1, <1>5, <1>6
  <2>2. \A i \in 1..Len(logs) : i # k => further[i] = logs[i]
    BY <1>1, <1>5, <1>6
  <2>3. \A i \in (k + 1)..Len(logs) : \A x \in ToSet(logs[i]) : Distinct(x, r)
    <3>1. SUFFICES ASSUME NEW i \in (k + 1)..n  PROVE \A x \in ToSet(logs[i]) : Distinct(x, r)
      BY <1>5
    <3>2. i \in 1..n /\ i > k
      BY <1>1
    <3>. QED  BY <1>1, <1>5, <3>2
  <2>4. PICK rs : rs = o.revs
    OBVIOUS
  <2>5. o \in Builder(rs, b, L) /\ Len(further) = Len(logs)
    BY <1>4, <1>5, <1>6, <2>4
  <2>. QED  BY <1>5, <1>6, <2>1, <2>2, <2>3, <2>5, NotesAdd
<1>. QED  BY <1>4, <1>5, <1>6, <1>7, <1>8, <1>9, EndStays

-----------------------------------------------------------------------------
(* Flattening a sequence of sequences, part by part.                       *)

(* f[i] is what the first i parts come to.                                 *)
Flattens(parts, T, f) ==
    /\ f[0] = <<>>
    /\ \A i \in 0..Len(parts) : f[i] \in Seq(T)
    /\ \A i \in 1..Len(parts) : f[i] = f[i - 1] \o parts[i]

(* The function FlattenSeq chooses, for the first k parts.                 *)
Joins(parts, k, f) == f = [i \in 1..k |-> IF i = 1 THEN parts[i] ELSE f[i - 1] \o parts[i]]

LEMMA AFlatteningExists ==
    ASSUME NEW parts, NEW n \in Nat
    PROVE  \E f : Joins(parts, n, f)
<1>. DEFINE S == {k \in 0..n : \E f : Joins(parts, k, f)}
<1>1. 0 \in S
  <2>. DEFINE f == [i \in 1..0 |-> parts[i]]
  <2>1. f = [i \in 1..0 |-> IF i = 1 THEN parts[i] ELSE f[i - 1] \o parts[i]]
    OBVIOUS
  <2>. HIDE DEF f
  <2>2. Joins(parts, 0, f)
    BY <2>1 DEF Joins
  <2>. QED  BY <2>2
<1>2. ASSUME NEW k \in 1..n, k - 1 \in S  PROVE k \in S
  <2>0. PICK g : Joins(parts, k - 1, g)
    BY <1>2
  <2>1. g = [i \in 1..(k - 1) |-> IF i = 1 THEN parts[i] ELSE g[i - 1] \o parts[i]]
    BY <2>0 DEF Joins
  <2>. DEFINE f == [i \in 1..k |-> IF i = 1 THEN parts[i] ELSE g[i - 1] \o parts[i]]
  <2>2. ASSUME NEW i \in 1..k  PROVE f[i] = IF i = 1 THEN parts[i] ELSE f[i - 1] \o parts[i]
    <3>1. CASE i = 1
      BY <3>1
    <3>2. CASE i # 1
      <4>1. i - 1 \in 1..(k - 1) /\ i - 1 \in 1..k
        BY <3>2
      <4>2. g[i - 1] = IF i - 1 = 1 THEN parts[i - 1] ELSE g[(i - 1) - 1] \o parts[i - 1]
        BY <2>1, <4>1
      <4>3. f[i - 1] = g[i - 1]
        BY <4>1, <4>2
      <4>. QED  BY <3>2, <4>3
    <3>. QED  BY <3>1, <3>2
  <2>3. f = [i \in 1..k |-> f[i]]
    OBVIOUS
  <2>. HIDE DEF f
  <2>4. Joins(parts, k, f)
    BY <2>2, <2>3 DEF Joins
  <2>. QED  BY <2>4
<1>. HIDE DEF S
<1>3. n \in S
  <2>1. n \in 0..n
    OBVIOUS
  <2>. QED  BY <1>1, <1>2, <2>1, StepByStep
<1>. QED  BY <1>3 DEF S

LEMMA FlatteningRuns ==
    ASSUME NEW T, NEW parts \in Seq(Seq(T))
    PROVE  /\ FlattenSeq(parts) \in Seq(T)
           /\ \E f : Flattens(parts, T, f) /\ FlattenSeq(parts) = f[Len(parts)]
<1>0. PICK P : P = Seq(T) /\ parts \in Seq(P)
  OBVIOUS
<1>1. PICK n \in Nat : n = Len(parts)
  OBVIOUS
<1>2. PICK g : g = [i \in 1..n |-> IF i = 1 THEN parts[i] ELSE g[i - 1] \o parts[i]]
              /\ (n # 0 => FlattenSeq(parts) = g[n])
  <2>1. PICK g : g = CHOOSE j : j = [i \in 1..Len(parts) |->
                                      IF i = 1 THEN parts[i] ELSE j[i - 1] \o parts[i]]
    OBVIOUS
  <2>2. \E f : f = [i \in 1..Len(parts) |-> IF i = 1 THEN parts[i] ELSE f[i - 1] \o parts[i]]
    BY <1>1, AFlatteningExists DEF Joins
  <2>3. g = [i \in 1..Len(parts) |-> IF i = 1 THEN parts[i] ELSE g[i - 1] \o parts[i]]
    BY <2>1, <2>2
  <2>4. n # 0 => FlattenSeq(parts) = g[n]
    BY <1>1, <2>1 DEF FlattenSeq
  <2>. QED  BY <1>1, <2>3, <2>4
<1>13. PICK f : f = [i \in 0..n |-> IF i = 0 THEN <<>> ELSE g[i]]
  OBVIOUS
<1>. DEFINE Good == {i \in 0..n : f[i] \in P}
<1>3. ASSUME NEW i \in 1..n, f[i - 1] \in Seq(T)  PROVE f[i] = f[i - 1] \o parts[i]
  <2>1. parts[i] \in Seq(T) /\ f[i] = g[i] /\ i - 1 \in 0..n
    BY <1>1, <1>13
  <2>2. g[i] = IF i = 1 THEN parts[i] ELSE g[i - 1] \o parts[i]
    BY <1>2
  <2>3. CASE i = 1
    <3>1. f[i - 1] = <<>> /\ f[i] = parts[i]
      BY <1>13, <2>1, <2>2, <2>3
    <3>. QED  BY <2>1, <3>1
  <2>4. CASE i # 1
    <3>1. f[i - 1] = g[i - 1]
      BY <1>13, <2>1, <2>4
    <3>. QED  BY <2>1, <2>2, <2>4, <3>1
  <2>. QED  BY <2>3, <2>4
<1>4. f[0] = <<>> /\ f[0] \in Seq(T)
  BY <1>13
<1>10. n # 0 => f[n] = g[n]
  BY <1>13
<1>14. <<>> \in P /\ \A a, b \in P : a \o b \in P
  BY <1>0
<1>5. 0 \in Good
  BY <1>4, <1>14
<1>6. ASSUME NEW i \in 1..n, i - 1 \in Good  PROVE i \in Good
  <2>1. parts[i] \in P /\ f[i - 1] \in P
    BY <1>0, <1>1, <1>6
  <2>2. f[i] = f[i - 1] \o parts[i]
    BY <1>0, <1>3, <2>1
  <2>3. f[i - 1] \o parts[i] \in P
    BY <1>14, <2>1
  <2>4. i \in 0..n
    OBVIOUS
  <2>. QED  BY <2>2, <2>3, <2>4
<1>. HIDE DEF Good
<1>7. \A i \in 0..n : i \in Good
  BY <1>5, <1>6, StepByStep
<1>8. \A i \in 0..n : f[i] \in Seq(T)
  BY <1>0, <1>7 DEF Good
<1>9. Flattens(parts, T, f)
  <2>1. ASSUME NEW i \in 1..n  PROVE f[i] = f[i - 1] \o parts[i]
    <3>1. i - 1 \in 0..n
      OBVIOUS
    <3>. QED  BY <1>3, <1>8, <3>1
  <2>. QED  BY <1>1, <1>4, <1>8, <2>1 DEF Flattens
<1>11. FlattenSeq(parts) = f[n]
  <2>1. CASE n = 0
    <3>1. Len(parts) = 0 /\ parts = <<>>
      <4>1. parts \in Seq(P) /\ Len(parts) = 0
        BY <1>0, <1>1, <2>1
      <4>. QED  BY <4>1
    <3>2. FlattenSeq(parts) = parts
      BY <3>1 DEF FlattenSeq
    <3>. QED  BY <1>4, <2>1, <3>1, <3>2
  <2>. QED  BY <1>2, <1>10, <2>1
<1>12. n \in 0..n
  OBVIOUS
<1>. QED  BY <1>1, <1>8, <1>9, <1>11, <1>12

(* What ends alike begins alike, and the other way around.                 *)
LEMMA SplitAlike ==
    ASSUME NEW T, NEW a \in Seq(T), NEW b \in Seq(T), NEW c \in Seq(T), NEW d \in Seq(T),
           a \o b = c \o d, Len(a) = Len(c)
    PROVE  a = c /\ b = d
<1>1. PICK n \in Nat, m \in Nat : n = Len(a) /\ m = Len(b)
  OBVIOUS
<1>2. Len(c) = n /\ Len(d) = m
  <2>1. Len(a \o b) = n + m /\ Len(c \o d) = n + Len(d) /\ Len(d) \in Nat
    BY <1>1
  <2>. QED  BY <1>1, <2>1
<1>3. a = c
  <2>1. \A i \in 1..n : (a \o b)[i] = a[i] /\ (c \o d)[i] = c[i]
    BY <1>1, <1>2
  <2>2. \A i \in 1..n : a[i] = c[i]
    BY <2>1
  <2>3. a = [i \in 1..n |-> a[i]] /\ c = [i \in 1..n |-> c[i]]
    BY <1>1, <1>2
  <2>. QED  BY <2>2, <2>3
<1>4. b = d
  <2>1. ASSUME NEW i \in 1..m  PROVE b[i] = d[i]
    <3>1. (a \o b)[n + i] = b[i]
      BY <1>1
    <3>2. (c \o d)[n + i] = d[i]
      BY <1>2
    <3>. QED  BY <3>1, <3>2
  <2>. QED  BY <1>1, <1>2, <2>1
<1>. QED  BY <1>3, <1>4

(* One sequence begins with a, the other with c, and they end alike.       *)
EndAlike(T, one, other, a, c) == \E b \in Seq(T) : one = a \o b /\ other = c \o b

LEMMA OnWithBoth ==
    ASSUME NEW T, NEW a \in Seq(T), NEW c \in Seq(T), NEW y \in Seq(T), NEW one, NEW other,
           EndAlike(T, one, other, a, c)
    PROVE  EndAlike(T, one \o y, other \o y, a, c)
<1>1. PICK b \in Seq(T) : one = a \o b /\ other = c \o b
  BY DEF EndAlike
<1>2. (a \o b) \o y = a \o (b \o y)
  BY SMT
<1>3. (c \o b) \o y = c \o (b \o y)
  BY SMT
<1>4. b \o y \in Seq(T)
  OBVIOUS
<1>. QED  BY <1>1, <1>2, <1>3, <1>4 DEF EndAlike

LEMMA LengthsAdd ==
    ASSUME NEW T, NEW a \in Seq(T), NEW b \in Seq(T)
    PROVE  Len(a \o b) = Len(a) + Len(b)
OBVIOUS

(* A part more, somewhere among the others.                                *)
LEMMA APartMore ==
    ASSUME NEW T, NEW parts \in Seq(Seq(T)), NEW more \in Seq(Seq(T)), NEW x \in Seq(T),
           NEW k \in 0..Len(parts), InsertedAt(parts, more, x, k)
    PROVE  \E a \in Seq(T) : EndAlike(T, FlattenSeq(parts), FlattenSeq(more), a, a \o x)
<1>0. Len(parts) \in Nat /\ Len(more) = Len(parts) + 1
  BY DEF InsertedAt
<1>1. PICK n \in Nat : n = Len(parts) /\ Len(more) = n + 1 /\ k \in 0..n
  BY <1>0
<1>2. PICK f : Flattens(parts, T, f) /\ FlattenSeq(parts) = f[n]
  BY <1>1, FlatteningRuns
<1>3. PICK g : Flattens(more, T, g) /\ FlattenSeq(more) = g[n + 1]
  <2>1. PICK g : Flattens(more, T, g) /\ FlattenSeq(more) = g[Len(more)]
    BY FlatteningRuns
  <2>. QED  BY <1>1, <2>1
<1>4. /\ f[0] = <<>> /\ g[0] = <<>>
      /\ \A i \in 0..n : f[i] \in Seq(T)
      /\ \A i \in 0..(n + 1) : g[i] \in Seq(T)
      /\ \A i \in 1..n : f[i] = f[i - 1] \o parts[i] /\ parts[i] \in Seq(T)
      /\ \A i \in 1..(n + 1) : g[i] = g[i - 1] \o more[i]
  <2>1. \A i \in 1..n : parts[i] \in Seq(T)
    BY <1>1
  <2>. QED  BY <1>1, <1>2, <1>3, <2>1 DEF Flattens
<1>5. g[k] = f[k]
  <2>. DEFINE Good == {i \in 0..k : g[i] = f[i]}
  <2>1. 0 \in Good
    BY <1>1, <1>4
  <2>2. ASSUME NEW i \in 1..k, i - 1 \in Good  PROVE i \in Good
    <3>1. i \in 1..n /\ i \in 1..(n + 1) /\ more[i] = parts[i] /\ i \in 0..k
      BY <1>1 DEF InsertedAt
    <3>2. f[i] = f[i - 1] \o parts[i] /\ g[i] = g[i - 1] \o more[i]
      BY <1>4, <3>1
    <3>3. g[i - 1] = f[i - 1]
      BY <2>2
    <3>. QED  BY <3>1, <3>2, <3>3
  <2>. HIDE DEF Good
  <2>3. k \in Nat /\ k \in 0..k
    BY <1>1
  <2>4. k \in Good
    BY <2>1, <2>2, <2>3, StepByStep
  <2>. QED  BY <2>4 DEF Good
<1>6. g[k + 1] = f[k] \o x
  <2>1. k + 1 \in 1..(n + 1) /\ (k + 1) - 1 = k /\ more[k + 1] = x
    BY <1>1 DEF InsertedAt
  <2>2. g[k + 1] = g[(k + 1) - 1] \o more[k + 1]
    BY <1>4, <2>1
  <2>. QED  BY <1>5, <2>1, <2>2
<1>7. PICK a \in Seq(T), c \in Seq(T) : a = f[k] /\ c = a \o x
  <2>1. f[k] \in Seq(T)
    BY <1>1, <1>4
  <2>2. f[k] \o x \in Seq(T)
    BY <2>1
  <2>. QED  BY <2>1, <2>2
<1>. DEFINE Alike == {i \in 0..n : i < k \/ EndAlike(T, f[i], g[i + 1], a, c)}
<1>12. EndAlike(T, f[k], g[k + 1], a, c)
  <2>1. f[k] = a \o <<>> /\ g[k + 1] = c \o <<>> /\ <<>> \in Seq(T)
    BY <1>6, <1>7
  <2>. QED  BY <2>1 DEF EndAlike
<1>8. 0 \in Alike
  <2>1. CASE k = 0
    BY <1>12, <2>1
  <2>2. CASE k # 0
    BY <1>1, <2>2
  <2>. QED  BY <2>1, <2>2
<1>9. ASSUME NEW i \in 1..n, i - 1 \in Alike  PROVE i \in Alike
  <2>0. i \in 0..n /\ i - 1 \in 0..n /\ (i - 1) + 1 = i
    OBVIOUS
  <2>1. CASE i < k
    BY <2>0, <2>1
  <2>2. CASE i = k
    BY <1>12, <2>0, <2>2
  <2>3. CASE i > k
    <3>0. EndAlike(T, f[i - 1], g[i], a, c)
      <4>1. ~(i - 1 < k)
        BY <1>1, <2>3
      <4>2. i - 1 < k \/ EndAlike(T, f[i - 1], g[(i - 1) + 1], a, c)
        BY <1>9
      <4>. QED  BY <2>0, <4>1, <4>2
    <3>1. PICK b \in Seq(T) : f[i - 1] = a \o b /\ g[i] = c \o b
      BY <3>0 DEF EndAlike
    <3>2. i \in (k + 1)..Len(parts) /\ i + 1 \in 1..(n + 1) /\ (i + 1) - 1 = i
      BY <1>1, <2>3
    <3>3. PICK y \in Seq(T) : y = parts[i] /\ more[i + 1] = y
      <4>1. parts[i] \in Seq(T)
        BY <1>4
      <4>2. more[i + 1] = parts[i]
        BY <3>2 DEF InsertedAt
      <4>. QED  BY <4>1, <4>2
    <3>4. f[i] = (a \o b) \o y
      <4>1. f[i] = f[i - 1] \o parts[i]
        BY <1>4
      <4>. QED  BY <3>1, <3>3, <4>1
    <3>5. g[i + 1] = (c \o b) \o y
      <4>1. g[i + 1] = g[(i + 1) - 1] \o more[i + 1]
        BY <1>4, <3>2
      <4>. QED  BY <3>1, <3>2, <3>3, <4>1
    <3>6. EndAlike(T, a \o b, c \o b, a, c)
      BY DEF EndAlike
    <3>9. EndAlike(T, f[i], g[i + 1], a, c)
      BY <3>4, <3>5, <3>6, OnWithBoth
    <3>. QED  BY <2>0, <3>9
  <2>. QED  BY <1>1, <2>1, <2>2, <2>3
<1>. HIDE DEF Alike
<1>10. n \in Alike
  <2>1. n \in 0..n
    OBVIOUS
  <2>. QED  BY <1>8, <1>9, <2>1, StepByStep
<1>11. EndAlike(T, f[n], g[n + 1], a, c)
  BY <1>1, <1>10 DEF Alike
<1>. QED  BY <1>2, <1>3, <1>7, <1>11

(* Parts of the same lengths, one by one, are the same if they flatten to  *)
(* the same.                                                               *)
LEMMA SameParts ==
    ASSUME NEW T, NEW parts \in Seq(Seq(T)), NEW more \in Seq(Seq(T)),
           Len(more) = Len(parts), \A i \in 1..Len(parts) : Len(more[i]) = Len(parts[i]),
           FlattenSeq(more) = FlattenSeq(parts)
    PROVE  \A i \in 1..Len(parts) : more[i] = parts[i]
<1>1. PICK n \in Nat : n = Len(parts) /\ Len(more) = n
  OBVIOUS
<1>2. PICK f : Flattens(parts, T, f) /\ FlattenSeq(parts) = f[n]
  BY <1>1, FlatteningRuns
<1>3. PICK g : Flattens(more, T, g) /\ FlattenSeq(more) = g[n]
  <2>1. PICK g : Flattens(more, T, g) /\ FlattenSeq(more) = g[Len(more)]
    BY FlatteningRuns
  <2>. QED  BY <1>1, <2>1
<1>4. /\ f[0] = <<>> /\ g[0] = <<>>
      /\ \A i \in 0..n : f[i] \in Seq(T) /\ g[i] \in Seq(T)
      /\ \A i \in 1..n : /\ f[i] = f[i - 1] \o parts[i] /\ parts[i] \in Seq(T)
                         /\ g[i] = g[i - 1] \o more[i] /\ more[i] \in Seq(T)
  <2>1. \A i \in 1..n : parts[i] \in Seq(T) /\ more[i] \in Seq(T)
    BY <1>1
  <2>. QED  BY <1>1, <1>2, <1>3, <2>1 DEF Flattens
<1>. DEFINE Even == {i \in 0..n : Len(g[i]) = Len(f[i])}
<1>5. 0 \in Even
  BY <1>4
<1>6. ASSUME NEW i \in 1..n, i - 1 \in Even  PROVE i \in Even
  <2>1. PICK a \in Seq(T), b \in Seq(T), c \in Seq(T), d \in Seq(T) :
           a = f[i - 1] /\ b = parts[i] /\ c = g[i - 1] /\ d = more[i]
    <3>1. i - 1 \in 0..n
      OBVIOUS
    <3>. QED  BY <1>4, <3>1
  <2>2. Len(c) = Len(a) /\ Len(d) = Len(b) /\ f[i] = a \o b /\ g[i] = c \o d
    BY <1>1, <1>4, <1>6, <2>1
  <2>4. Len(a \o b) = Len(a) + Len(b)
    BY LengthsAdd
  <2>5. Len(c \o d) = Len(c) + Len(d)
    BY LengthsAdd
  <2>6. i \in 0..n
    OBVIOUS
  <2>. QED  BY <2>2, <2>4, <2>5, <2>6
<1>. HIDE DEF Even
<1>7. \A i \in 0..n : Len(g[i]) = Len(f[i])
  BY <1>5, <1>6, StepByStep DEF Even
<1>8. ASSUME NEW i \in 1..n, g[i] = f[i]  PROVE g[i - 1] = f[i - 1] /\ more[i] = parts[i]
  <2>1. PICK a \in Seq(T), b \in Seq(T), c \in Seq(T), d \in Seq(T) :
           a = f[i - 1] /\ b = parts[i] /\ c = g[i - 1] /\ d = more[i]
    <3>1. i - 1 \in 0..n
      OBVIOUS
    <3>. QED  BY <1>4, <3>1
  <2>2. f[i] = a \o b /\ g[i] = c \o d
    BY <1>4, <2>1
  <2>3. Len(a) = Len(c)
    <3>1. i - 1 \in 0..n
      OBVIOUS
    <3>. QED  BY <1>7, <2>1, <3>1
  <2>4. a \o b = c \o d
    BY <1>8, <2>2
  <2>5. a = c /\ b = d
    BY <2>3, <2>4, SplitAlike
  <2>. QED  BY <2>1, <2>5
<1>. DEFINE Back == {j \in 0..n : g[n - j] = f[n - j]}
<1>9. 0 \in Back
  BY <1>2, <1>3
<1>10. ASSUME NEW j \in 1..n, j - 1 \in Back  PROVE j \in Back
  <2>1. n - (j - 1) \in 1..n /\ (n - (j - 1)) - 1 = n - j /\ j \in 0..n
    OBVIOUS
  <2>. QED  BY <1>8, <1>10, <2>1
<1>. HIDE DEF Back
<1>11. \A j \in 0..n : j \in Back
  BY <1>9, <1>10, StepByStep
<1>12. ASSUME NEW i \in 1..n  PROVE g[i] = f[i]
  <2>1. n - i \in 0..n /\ n - (n - i) = i
    OBVIOUS
  <2>. QED  BY <1>11, <2>1 DEF Back
<1>. QED  BY <1>1, <1>8, <1>12

(* Parts no shorter, one by one, and one of them longer.                   *)
LEMMA ALongerPart ==
    ASSUME NEW T, NEW parts \in Seq(Seq(T)), NEW more \in Seq(Seq(T)),
           Len(more) = Len(parts), \A i \in 1..Len(parts) : Len(more[i]) >= Len(parts[i]),
           NEW k \in 1..Len(parts), Len(more[k]) > Len(parts[k])
    PROVE  Len(FlattenSeq(more)) > Len(FlattenSeq(parts))
<1>1. PICK n \in Nat : n = Len(parts) /\ Len(more) = n
  OBVIOUS
<1>2. PICK f : Flattens(parts, T, f) /\ FlattenSeq(parts) = f[n]
  BY <1>1, FlatteningRuns
<1>3. PICK g : Flattens(more, T, g) /\ FlattenSeq(more) = g[n]
  <2>1. PICK g : Flattens(more, T, g) /\ FlattenSeq(more) = g[Len(more)]
    BY FlatteningRuns
  <2>. QED  BY <1>1, <2>1
<1>4. /\ f[0] = <<>> /\ g[0] = <<>>
      /\ \A i \in 0..n : f[i] \in Seq(T) /\ g[i] \in Seq(T)
      /\ \A i \in 1..n : /\ f[i] = f[i - 1] \o parts[i] /\ parts[i] \in Seq(T)
                         /\ g[i] = g[i - 1] \o more[i] /\ more[i] \in Seq(T)
  <2>1. \A i \in 1..n : parts[i] \in Seq(T) /\ more[i] \in Seq(T)
    BY <1>1
  <2>. QED  BY <1>1, <1>2, <1>3, <2>1 DEF Flattens
<1>. DEFINE Longer == {i \in 0..n : /\ Len(g[i]) >= Len(f[i])
                                    /\ i >= k => Len(g[i]) > Len(f[i])}
<1>5. 0 \in Longer
  BY <1>1, <1>4
<1>6. ASSUME NEW i \in 1..n, i - 1 \in Longer  PROVE i \in Longer
  <2>1. PICK a \in Seq(T), b \in Seq(T), c \in Seq(T), d \in Seq(T) :
           a = f[i - 1] /\ b = parts[i] /\ c = g[i - 1] /\ d = more[i]
    <3>1. i - 1 \in 0..n
      OBVIOUS
    <3>. QED  BY <1>4, <3>1
  <2>2. f[i] = a \o b /\ g[i] = c \o d
    BY <1>4, <2>1
  <2>3. PICK w \in Nat, x \in Nat, y \in Nat, z \in Nat :
           w = Len(a) /\ x = Len(b) /\ y = Len(c) /\ z = Len(d)
    OBVIOUS
  <2>4. Len(f[i]) = w + x /\ Len(g[i]) = y + z
    BY <2>2, <2>3
  <2>5. y >= w /\ (i - 1 >= k => y > w)
    BY <1>6, <2>1, <2>3
  <2>6. z >= x /\ (i = k => z > x)
    BY <1>1, <2>1, <2>3
  <2>7. i \in 0..n /\ (i >= k => i = k \/ i - 1 >= k)
    BY <1>1
  <2>8. Len(g[i]) >= Len(f[i]) /\ (i >= k => Len(g[i]) > Len(f[i]))
    <3>1. y + z >= w + x
      BY <2>5, <2>6
    <3>2. i >= k => y + z > w + x
      <4>. HIDE <2>4
      <4>. QED  BY <2>5, <2>6, <2>7
    <3>. QED  BY <2>4, <3>1, <3>2
  <2>. QED  BY <2>7, <2>8
<1>. HIDE DEF Longer
<1>7. n \in Longer
  <2>1. n \in 0..n
    OBVIOUS
  <2>. QED  BY <1>5, <1>6, <2>1, StepByStep
<1>. QED  BY <1>1, <1>2, <1>3, <1>7 DEF Longer

(* The parts that the lines of a list become, and a line more.             *)
Parts(lines, F) == [i \in DOMAIN lines |-> F[lines[i]]]

AreParts(parts, lines, F, T) ==
    /\ parts \in Seq(Seq(T))
    /\ Len(parts) = Len(lines)
    /\ \A i \in 1..Len(lines) : parts[i] = F[lines[i]]

LEMMA PartsAre ==
    ASSUME NEW L, NEW T, NEW F \in [L -> Seq(T)], NEW lines \in Seq(L)
    PROVE  AreParts(Parts(lines, F), lines, F, T)
<1>0. PICK P : P = Seq(T) /\ F \in [L -> P]
  OBVIOUS
<1>1. PICK n \in Nat : n = Len(lines) /\ DOMAIN lines = 1..n /\ \A i \in 1..n : lines[i] \in L
  OBVIOUS
<1>2. Parts(lines, F) = [i \in 1..n |-> F[lines[i]]]
  BY <1>1 DEF Parts
<1>3. \A i \in 1..n : F[lines[i]] \in P
  BY <1>0, <1>1
<1>4. Parts(lines, F) \in [1..n -> P]
  BY <1>2, <1>3
<1>5. Parts(lines, F) \in Seq(P) /\ Len(Parts(lines, F)) = n
  BY <1>4
<1>6. \A i \in 1..n : Parts(lines, F)[i] = F[lines[i]]
  BY <1>2
<1>. QED  BY <1>0, <1>1, <1>5, <1>6 DEF AreParts

LEMMA ALineOfParts ==
    ASSUME NEW L, NEW T, NEW F \in [L -> Seq(T)], NEW lines \in Seq(L), NEW more \in Seq(L),
           NEW r \in L, Inserted(lines, more, r)
    PROVE  \E a \in Seq(T) : EndAlike(T, FlattenSeq(Parts(lines, F)), FlattenSeq(Parts(more, F)),
                                      a, a \o F[r])
<1>1. PICK k \in 0..Len(lines) : InsertedAt(lines, more, r, k)
  BY DEF Inserted
<1>2. PICK n \in Nat : n = Len(lines) /\ Len(more) = n + 1 /\ k \in 0..n
  BY <1>1 DEF InsertedAt
<1>3. PICK ps : ps = Parts(lines, F)
  OBVIOUS
<1>4. PICK qs : qs = Parts(more, F)
  OBVIOUS
<1>5. ps \in Seq(Seq(T)) /\ Len(ps) = n /\ \A i \in 1..n : ps[i] = F[lines[i]]
  <2>1. AreParts(Parts(lines, F), lines, F, T)
    BY PartsAre
  <2>. QED  BY <1>2, <1>3, <2>1 DEF AreParts
<1>6. qs \in Seq(Seq(T)) /\ Len(qs) = n + 1 /\ \A i \in 1..(n + 1) : qs[i] = F[more[i]]
  <2>1. AreParts(Parts(more, F), more, F, T)
    BY PartsAre
  <2>. QED  BY <1>2, <1>4, <2>1 DEF AreParts
<1>7. qs[k + 1] = F[r]
  <2>1. k + 1 \in 1..(n + 1) /\ more[k + 1] = r
    BY <1>1, <1>2 DEF InsertedAt
  <2>. QED  BY <1>6, <2>1
<1>8. ASSUME NEW i \in 1..k  PROVE qs[i] = ps[i]
  <2>1. i \in 1..n /\ i \in 1..(n + 1) /\ more[i] = lines[i]
    BY <1>1, <1>2 DEF InsertedAt
  <2>. QED  BY <1>5, <1>6, <2>1
<1>9. ASSUME NEW i \in (k + 1)..n  PROVE qs[i + 1] = ps[i]
  <2>1. i \in 1..n /\ i + 1 \in 1..(n + 1) /\ more[i + 1] = lines[i]
    BY <1>1, <1>2 DEF InsertedAt
  <2>. QED  BY <1>5, <1>6, <2>1
<1>10. Len(ps) = n /\ Len(qs) = n + 1
  BY <1>5, <1>6
<1>11. InsertedAt(ps, qs, F[r], k) /\ k \in 0..Len(ps)
  BY <1>2, <1>7, <1>8, <1>9, <1>10 DEF InsertedAt
<1>12. PICK x \in Seq(T) : x = F[r]
  OBVIOUS
<1>13. InsertedAt(ps, qs, x, k) /\ k \in 0..Len(ps)
  BY <1>11, <1>12
<1>14. \E a \in Seq(T) : EndAlike(T, FlattenSeq(ps), FlattenSeq(qs), a, a \o x)
  BY <1>5, <1>6, <1>13, APartMore
<1>. QED  BY <1>3, <1>4, <1>12, <1>14

=============================================================================
