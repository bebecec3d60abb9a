----------------------------- MODULE PatchProofs -----------------------------
(***************************************************************************)
(* What the parser of diffs keeps its types with, and that it reads every  *)
(* diff of readable names and lines as git means it, however many entries, *)
(* hunks and lines there are.                                              *)
(*                                                                         *)
(* The first invariant says that both sides are in the same entry; the     *)
(* second, which is what the parser knows before each of git's lines: the  *)
(* diff as far as it is shown, without what the header has still to say.   *)
(*                                                                         *)
(* From there, where the notes are on a page.  A thread is under one row   *)
(* because no two lines of a file have one number on a side, whatever the  *)
(* parser takes the lines of the diff for: its counters never overtake the *)
(* place git has come to, and every hunk sets them anew.  That a note is   *)
(* where it was meant needs more: names that are read as they are, and are *)
(* on one entry each.                                                      *)
(***************************************************************************)
EXTENDS Page, SequenceTheorems, FiniteSetTheorems, TLAPS

(* In an entry there is one, and in a hunk there is something to print.    *)
InTheEntry ==
    /\ Len(files) = Len(shown)
    /\ phase \notin {"entry", "done"} => shown # <<>> /\ entry \in Entries
    /\ phase = "line" => left # <<>> /\ Last(shown).hunks # <<>>

TypeInv == TypeOK /\ InTheEntry

-----------------------------------------------------------------------------
(* Sequences that change at their end. *)

LEMMA LastChanges ==
    ASSUME NEW S, NEW fs \in Seq(S), fs # <<>>, NEW g \in S
    PROVE  /\ [fs EXCEPT ![Len(fs)] = g] \in Seq(S)
           /\ Len([fs EXCEPT ![Len(fs)] = g]) = Len(fs)
           /\ [fs EXCEPT ![Len(fs)] = g] # <<>>
           /\ Last([fs EXCEPT ![Len(fs)] = g]) = g
BY DEF Last

LEMMA LastIsOne ==
    ASSUME NEW S, NEW fs \in Seq(S), fs # <<>>
    PROVE  /\ Len(fs) \in Nat \ {0}
           /\ Last(fs) \in S
           /\ fs[Len(fs)] = Last(fs)
           /\ [fs EXCEPT ![Len(fs)] = Last(fs)] = fs
BY DEF Last

LEMMA Appended ==
    ASSUME NEW S, NEW fs \in Seq(S), NEW g \in S
    PROVE  /\ Append(fs, g) \in Seq(S)
           /\ Len(Append(fs, g)) = Len(fs) + 1
           /\ Append(fs, g) # <<>>
           /\ Last(Append(fs, g)) = g
BY DEF Last

LEMMA HeadAndTail ==
    ASSUME NEW S, NEW s \in Seq(S), s # <<>>
    PROVE  Head(s) \in S /\ Tail(s) \in Seq(S) /\ (Len(s) # 1 => Tail(s) # <<>>)
<1>1. Len(s) \in Nat \ {0} /\ Head(s) = s[1]
  OBVIOUS
<1>2. Head(s) \in S
  BY <1>1
<1>3. Tail(s) \in Seq(S) /\ Len(Tail(s)) = Len(s) - 1
  BY <1>1
<1> QED
  BY <1>1, <1>2, <1>3

(* A line goes to the end of the last hunk, and nothing else moves.        *)
LEMMA Pushed ==
    ASSUME NEW fs \in Seq(FileDiffs), fs # <<>>, Last(fs).hunks # <<>>, NEW l \in Lines
    PROVE  /\ PushTo(fs, l) \in Seq(FileDiffs)
           /\ Len(PushTo(fs, l)) = Len(fs)
           /\ PushTo(fs, l) # <<>>
           /\ Last(PushTo(fs, l)).hunks # <<>>
           /\ Last(PushTo(fs, l)).path = Last(fs).path
           /\ Last(PushTo(fs, l)).change = Last(fs).change
           /\ Last(PushTo(fs, l)).binary = Last(fs).binary
<1> DEFINE f  == Last(fs)
           hs == f.hunks
           h  == Append(hs[Len(hs)], l)
           g  == [f EXCEPT !.hunks = [hs EXCEPT ![Len(hs)] = h]]
<1>1. f \in FileDiffs /\ f = fs[Len(fs)]
  BY LastIsOne
<1>2. hs \in Seq(Seq(Lines)) /\ hs # <<>>
  BY <1>1 DEF FileDiffs
<1>3. hs[Len(hs)] \in Seq(Lines)
  BY <1>2, LastIsOne
<1>4. h \in Seq(Lines)
  BY <1>3, Appended
<1>5. [hs EXCEPT ![Len(hs)] = h] \in Seq(Seq(Lines)) /\ [hs EXCEPT ![Len(hs)] = h] # <<>>
  BY <1>2, <1>4, LastChanges
<1>6. g \in FileDiffs /\ g.hunks # <<>> /\ g.path = f.path /\ g.change = f.change
      /\ g.binary = f.binary
  BY <1>1, <1>5 DEF FileDiffs
<1>7. PushTo(fs, l) = [fs EXCEPT ![Len(fs)] = g]
  BY <1>1 DEF PushTo
<1> HIDE DEF g
<1>8. g \in FileDiffs
  BY <1>6
<1>9. /\ [fs EXCEPT ![Len(fs)] = g] \in Seq(FileDiffs)
      /\ Len([fs EXCEPT ![Len(fs)] = g]) = Len(fs)
      /\ [fs EXCEPT ![Len(fs)] = g] # <<>>
      /\ Last([fs EXCEPT ![Len(fs)] = g]) = g
  BY <1>8, LastChanges
<1>10. /\ PushTo(fs, l) \in Seq(FileDiffs)
      /\ Len(PushTo(fs, l)) = Len(fs)
      /\ PushTo(fs, l) # <<>>
      /\ Last(PushTo(fs, l)) = g
  BY <1>9, <1>7
<1> QED
  BY <1>6, <1>10

LEMMA LinesAreTyped ==
    ASSUME NEW kind \in LineKinds, NEW old \in Nat, NEW new \in Nat,
           NEW place \in Nat \X Nat
    PROVE  LineAt(kind, old, new, place) \in Lines
BY DEF LineAt, On, Lines

-----------------------------------------------------------------------------
(* What the parser does to its last file. *)

ParserTypes ==
    /\ files \in Seq(FileDiffs)
    /\ oldLine \in Nat /\ newLine \in Nat /\ refused \in BOOLEAN

LEMMA LastFileChanges ==
    ASSUME ParserTypes, files # <<>>, UNCHANGED <<oldLine, newLine, refused>>,
           NEW g \in FileDiffs, files' = [files EXCEPT ![Len(files)] = g]
    PROVE  ParserTypes' /\ Len(files') = Len(files)
<1>1. files' \in Seq(FileDiffs) /\ Len(files') = Len(files)
  BY LastChanges DEF ParserTypes
<1> QED
  BY <1>1 DEF ParserTypes

LEMMA HeaderLinesKeepTypes ==
    ASSUME ParserTypes, files # <<>>,
           \/ \E change \in Changes : TakeChange(change)
           \/ \E to \in Names : TakeRenameTo(to)
           \/ \E path \in Paths : TakeOldName(path)
           \/ \E path \in Paths : TakeNewName(path)
           \/ TakeBinary
    PROVE  ParserTypes' /\ Len(files') = Len(files)
<1> DEFINE f == files[Len(files)]
<1>1. f \in FileDiffs
  BY LastIsOne DEF ParserTypes
<1>2. CASE UNCHANGED parser
  BY <1>2 DEF parser, ParserTypes
<1>3. ASSUME NEW change \in Changes, TakeChange(change)
      PROVE  ParserTypes' /\ Len(files') = Len(files)
  <2>1. [f EXCEPT !.change = change] \in FileDiffs
    BY <1>1 DEF FileDiffs
  <2>2. files' = [files EXCEPT ![Len(files)] = [f EXCEPT !.change = change]]
        /\ UNCHANGED <<oldLine, newLine, refused>>
    BY <1>3 DEF TakeChange
  <2> QED
    BY <2>1, <2>2, LastFileChanges
<1>4. ASSUME NEW path \in Paths, UNCHANGED <<oldLine, newLine, refused>>,
             files' = [files EXCEPT ![Len(files)].path = path]
      PROVE  ParserTypes' /\ Len(files') = Len(files)
  <2>1. [f EXCEPT !.path = path] \in FileDiffs
    BY <1>1 DEF FileDiffs
  <2>2. files' = [files EXCEPT ![Len(files)] = [f EXCEPT !.path = path]]
    BY <1>4
  <2> QED
    BY <1>4, <2>1, <2>2, LastFileChanges
<1>5. CASE TakeBinary
  <2>1. [f EXCEPT !.binary = TRUE] \in FileDiffs
    BY <1>1 DEF FileDiffs
  <2>2. files' = [files EXCEPT ![Len(files)] = [f EXCEPT !.binary = TRUE]]
        /\ UNCHANGED <<oldLine, newLine, refused>>
    BY <1>5 DEF TakeBinary
  <2> QED
    BY <2>1, <2>2, LastFileChanges
<1>6. ASSUME NEW to \in Names, TakeRenameTo(to)
      PROVE  ParserTypes' /\ Len(files') = Len(files)
  <2>1. Exact(to) \in Paths
    BY DEF Exact, Paths
  <2> QED
    BY <1>4, <1>6, <2>1 DEF TakeRenameTo
<1>7. ASSUME NEW path \in Paths, TakeOldName(path) \/ TakeNewName(path)
      PROVE  ParserTypes' /\ Len(files') = Len(files)
  BY <1>2, <1>4, <1>7 DEF TakeOldName, TakeNewName, parser
<1> QED
  BY <1>3, <1>5, <1>6, <1>7

LEMMA HunkOpens ==
    ASSUME NEW f \in FileDiffs
    PROVE  /\ [f EXCEPT !.hunks = Append(@, <<>>)] \in FileDiffs
           /\ [f EXCEPT !.hunks = Append(@, <<>>)].hunks # <<>>
<1>1. f.hunks \in Seq(Seq(Lines)) /\ <<>> \in Seq(Lines)
  BY DEF FileDiffs
<1>2. Append(f.hunks, <<>>) \in Seq(Seq(Lines)) /\ Append(f.hunks, <<>>) # <<>>
  BY <1>1, Appended
<1> QED
  BY <1>2 DEF FileDiffs

LEMMA HunksKeepTypes ==
    ASSUME ParserTypes, files # <<>>, NEW old, NEW new, TakeHunk(old, new),
           StartOf(old.start, old.count) \in Nat, StartOf(new.start, new.count) \in Nat
    PROVE  ParserTypes' /\ Len(files') = Len(files)
<1> DEFINE f == files[Len(files)]
           g == [f EXCEPT !.hunks = Append(@, <<>>)]
<1>1. f \in FileDiffs
  BY LastIsOne DEF ParserTypes
<1>2. g \in FileDiffs
  BY <1>1, HunkOpens
<1>3. files' = [files EXCEPT ![Len(files)] = g]
  BY DEF TakeHunk
<1>4. files' \in Seq(FileDiffs) /\ Len(files') = Len(files)
  BY <1>2, <1>3, LastChanges DEF ParserTypes
<1> QED
  BY <1>4 DEF TakeHunk, ParserTypes

LEMMA PastIsNumber ==
    ASSUME NEW kind, NEW side, NEW number \in Nat
    PROVE  Past(kind, side, number) \in Nat /\ number <= Past(kind, side, number)
BY DEF Past

LEMMA ContentKeepsTypes ==
    ASSUME ParserTypes, files # <<>>, NEW kind \in LineKinds, NEW begins,
           NEW place \in Nat \X Nat, TakeContent(kind, begins, place)
    PROVE  ParserTypes' /\ Len(files') = Len(files)
<1>1. Exact(Scrap) \in Paths
  BY DEF Exact, Paths
<1>2. CASE TakeOldName(Exact(Scrap)) \/ TakeNewName(Exact(Scrap))
  BY <1>1, <1>2, HeaderLinesKeepTypes
<1>3. CASE TakeLine(kind, place)
  <2>1. CASE Last(files).hunks = <<>>
    BY <1>3, <2>1 DEF TakeLine, ParserTypes
  <2>2. CASE Last(files).hunks # <<>>
    <3>1. LineAt(kind, oldLine, newLine, place) \in Lines
      BY LinesAreTyped DEF ParserTypes
    <3>2. files' \in Seq(FileDiffs) /\ Len(files') = Len(files)
      BY <1>3, <2>2, <3>1, Pushed DEF TakeLine, ParserTypes
    <3> QED
      BY <1>3, <2>2, <3>2, PastIsNumber DEF TakeLine, ParserTypes
  <2> QED
    BY <2>1, <2>2
<1> QED
  BY <1>2, <1>3 DEF TakeContent

-----------------------------------------------------------------------------
(* Types. *)

LEMMA PatchStarts ==
    ASSUME Init
    PROVE  TypeInv
<1>1. files \in Seq(FileDiffs) /\ shown \in Seq(FileDiffs) /\ left \in Seq(LineKinds)
  BY DEF Init
<1>2. refused \in BOOLEAN /\ ended \in BOOLEAN /\ entry \in Entries \cup {<<>>}
  BY DEF Init
<1>3. TypeOK
  BY <1>1, <1>2 DEF Init, TypeOK, Phases
<1>4. InTheEntry
  BY DEF Init, InTheEntry
<1> QED
  BY <1>3, <1>4 DEF TypeInv

(* The rest of git's state, with shown left as it is.                      *)
LEMMA TurnKeeps ==
    ASSUME TypeInv, NEW from \in Phases, NEW to \in Phases, Turn(from, to),
           from \notin {"entry", "done"} \/ to = from, to # "line",
           ParserTypes', Len(files') = Len(files)
    PROVE  TypeInv'
BY DEF TypeInv, TypeOK, InTheEntry, Turn, ParserTypes

LEMMA DiffLineKeepsTypes ==
    ASSUME TypeInv, NEW e \in Entries, DiffLine(e)
    PROVE  TypeInv'
<1> DEFINE f == [path |-> Exact(e.to), change |-> "Modified", binary |-> FALSE, hunks |-> <<>>]
           g == [path |-> Exact(e.to), change |-> e.change,
                 binary |-> e.body = "binary", hunks |-> <<>>]
<1>1. f \in FileDiffs /\ g \in FileDiffs
  BY DEF FileDiffs, Paths, Exact, Entries, Changes
<1>2. files' = Append(files, f) /\ shown' = Append(shown, g)
  BY DEF DiffLine, TakeEntry
<1>3. files' \in Seq(FileDiffs) /\ Len(files') = Len(files) + 1
  BY <1>1, <1>2, Appended DEF TypeInv, TypeOK
<1>4. shown' \in Seq(FileDiffs) /\ Len(shown') = Len(shown) + 1 /\ shown' # <<>>
  BY <1>1, <1>2, Appended DEF TypeInv, TypeOK
<1>5. phase' \in {"body", "rename from", "mode"}
  BY DEF DiffLine
<1>6. /\ oldLine' \in Nat /\ newLine' \in Nat /\ refused' \in BOOLEAN
      /\ left' \in Seq(LineKinds) /\ printed' \in Nat /\ ended' \in BOOLEAN
  BY DEF TypeInv, TypeOK, DiffLine, TakeEntry
<1>7. oldAt' = 1 /\ newAt' = 1 /\ entry' = e
  BY DEF DiffLine
<1>8. oldAt' \in Nat \ {0} /\ newAt' \in Nat \ {0} /\ entry' \in Entries
  BY <1>7
<1>9. TypeOK'
  BY <1>3, <1>4, <1>5, <1>6, <1>8 DEF TypeOK, Phases
<1>10. InTheEntry'
  BY <1>3, <1>4, <1>5, <1>8 DEF TypeInv, InTheEntry
<1> QED
  BY <1>9, <1>10 DEF TypeInv

LEMMA HeaderKeepsTypes ==
    ASSUME TypeInv,
           ModeLine \/ RenameFromLine \/ RenameToLine \/ BinaryLine \/ OldNameLine \/ NewNameLine
    PROVE  TypeInv'
<1>1. ParserTypes
  BY DEF TypeInv, TypeOK, ParserTypes
<1>2. files # <<>> /\ entry \in Entries
  <2>1. phase \in {"mode", "rename from", "rename to", "body", "new name"}
    BY DEF ModeLine, RenameFromLine, RenameToLine, BinaryLine, OldNameLine, NewNameLine, Turn
  <2>2. shown # <<>> /\ entry \in Entries /\ Len(files) = Len(shown)
    BY <2>1 DEF TypeInv, InTheEntry
  <2> QED
    BY <2>2 DEF TypeInv, TypeOK
<1>3. entry.change \in Changes /\ entry.to \in Names /\ "Renamed" \in Changes
  BY <1>2 DEF Entries, Changes
<1>4. \A n \in Names : Exact(n) \in Paths /\ Before(n) \in Paths
  BY DEF Exact, Before, Paths
<1>5. Exact(Nowhere) \in Paths /\ entry.from \in Names
  BY <1>2 DEF Exact, Paths, Entries
<1>6. ParserTypes' /\ Len(files') = Len(files)
  <2>1. CASE ModeLine \/ RenameFromLine
    BY <1>1, <1>2, <1>3, <2>1, HeaderLinesKeepTypes DEF ModeLine, RenameFromLine
  <2>2. CASE RenameToLine
    BY <1>1, <1>2, <1>3, <2>2, HeaderLinesKeepTypes DEF RenameToLine
  <2>3. CASE BinaryLine
    BY <1>1, <1>2, <2>3, HeaderLinesKeepTypes DEF BinaryLine
  <2>4. CASE OldNameLine
    <3>1. \E path \in Paths : TakeOldName(path)
      BY <1>4, <1>5, <2>4 DEF OldNameLine
    <3> QED
      BY <1>1, <1>2, <3>1, HeaderLinesKeepTypes
  <2>5. CASE NewNameLine
    <3>1. \E path \in Paths : TakeNewName(path)
      BY <1>3, <1>4, <1>5, <2>5 DEF NewNameLine
    <3> QED
      BY <1>1, <1>2, <3>1, HeaderLinesKeepTypes
  <2> QED
    BY <2>1, <2>2, <2>3, <2>4, <2>5
<1> QED
  BY <1>6, TurnKeeps
     DEF ModeLine, RenameFromLine, RenameToLine, BinaryLine, OldNameLine, NewNameLine, Phases

LEMMA HunkHeaderNumbers ==
    ASSUME NEW at \in Nat \ {0}, NEW kinds, NEW absent
    PROVE  LET range == RangeOf(at, kinds, absent)
           IN  StartOf(range.start, range.count) = at
BY DEF RangeOf, StartOf

LEMMA HunkHeaderKeepsTypes ==
    ASSUME TypeInv, NEW kinds \in Hunks, NEW gap \in 0..MaxGap, HunkHeader(kinds, gap)
    PROVE  TypeInv'
<1>1. kinds \in Seq(LineKinds) /\ kinds # <<>>
  <2>1. kinds \in BoundedSeq(LineKinds, MaxLines) /\ \E i \in DOMAIN kinds : kinds[i] # "Context"
    BY DEF Hunks
  <2>2. PICK m \in 0..MaxLines : kinds \in [1..m -> LineKinds]
    BY <2>1 DEF BoundedSeq, SeqOf
  <2> QED
    BY <2>1, <2>2, PatchAssumption
<1>2. oldAt' \in Nat \ {0} /\ newAt' \in Nat \ {0}
  <2>1. MaxGap \in Nat
    BY PatchAssumption
  <2> QED
    BY <2>1 DEF TypeInv, TypeOK, HunkHeader
<1>3. ParserTypes /\ files # <<>> /\ shown # <<>> /\ entry \in Entries
  BY DEF TypeInv, TypeOK, InTheEntry, HunkHeader, ParserTypes
<1>4. ParserTypes' /\ Len(files') = Len(files)
  BY <1>2, <1>3, HunkHeaderNumbers, HunksKeepTypes DEF HunkHeader
<1> DEFINE g == [shown[Len(shown)] EXCEPT !.hunks = Append(@, <<>>)]
<1>5. g \in FileDiffs /\ g.hunks # <<>>
  BY <1>3, LastIsOne, HunkOpens DEF TypeInv, TypeOK
<1>6. shown' = [shown EXCEPT ![Len(shown)] = g]
  BY DEF HunkHeader
<1> HIDE DEF g
<1>7. /\ shown' \in Seq(FileDiffs)
      /\ Len(shown') = Len(shown)
      /\ shown' # <<>>
      /\ Last(shown') = g
  <2>1. shown \in Seq(FileDiffs)
    BY DEF TypeInv, TypeOK
  <2>2. /\ [shown EXCEPT ![Len(shown)] = g] \in Seq(FileDiffs)
        /\ Len([shown EXCEPT ![Len(shown)] = g]) = Len(shown)
        /\ [shown EXCEPT ![Len(shown)] = g] # <<>>
        /\ Last([shown EXCEPT ![Len(shown)] = g]) = g
    BY <1>3, <1>5, <2>1, LastChanges
  <2> QED
    BY <1>6, <2>2
<1>8. printed' \in Nat
  BY <1>1 DEF TypeInv, TypeOK, HunkHeader
<1>9. TypeOK'
  BY <1>1, <1>2, <1>3, <1>4, <1>7, <1>8
     DEF TypeInv, TypeOK, HunkHeader, ParserTypes, Phases
<1> QED
  BY <1>1, <1>3, <1>4, <1>5, <1>7, <1>9 DEF TypeInv, InTheEntry, HunkHeader

(* Git's own side of a line, whatever the parser makes of it.              *)
LEMMA GitPrintsALine ==
    ASSUME TypeInv, NEW begins, ContentLine(begins)
    PROVE  /\ Head(left) \in LineKinds
           /\ <<oldAt, newAt>> \in Nat \X Nat
           /\ LineAt(Head(left), oldAt, newAt, <<oldAt, newAt>>) \in Lines
           /\ left' \in Seq(LineKinds)
           /\ phase' \in {"hunk", "line"}
           /\ phase' = "line" => left' # <<>>
           /\ oldAt' \in Nat \ {0} /\ newAt' \in Nat \ {0}
           /\ shown # <<>> /\ entry \in Entries
           /\ shown' \in Seq(FileDiffs) /\ Len(shown') = Len(shown)
           /\ shown' # <<>> /\ Last(shown').hunks # <<>>
           /\ Last(shown').path = Last(shown).path
           /\ Last(shown').change = Last(shown).change
           /\ Last(shown').binary = Last(shown).binary
<1>1. phase = "line" /\ left # <<>> /\ left \in Seq(LineKinds)
  BY DEF TypeInv, TypeOK, InTheEntry, ContentLine
<1>2. shown \in Seq(FileDiffs) /\ shown # <<>> /\ Last(shown).hunks # <<>> /\ entry \in Entries
  BY <1>1 DEF TypeInv, TypeOK, InTheEntry
<1>3. Head(left) \in LineKinds /\ Tail(left) \in Seq(LineKinds)
      /\ (Len(left) # 1 => Tail(left) # <<>>)
  BY <1>1, HeadAndTail
<1>4. oldAt \in Nat \ {0} /\ newAt \in Nat \ {0}
  BY DEF TypeInv, TypeOK
<1>5. LineAt(Head(left), oldAt, newAt, <<oldAt, newAt>>) \in Lines
  BY <1>3, <1>4, LinesAreTyped
<1>6. shown' = PushTo(shown, LineAt(Head(left), oldAt, newAt, <<oldAt, newAt>>))
  BY DEF ContentLine
<1>7. oldAt' \in Nat \ {0} /\ newAt' \in Nat \ {0}
  BY <1>4 DEF ContentLine, Past
<1>8. left' = Tail(left) /\ phase' = IF Len(left) = 1 THEN "hunk" ELSE "line"
  BY DEF ContentLine
<1>9. /\ shown' \in Seq(FileDiffs) /\ Len(shown') = Len(shown)
      /\ shown' # <<>> /\ Last(shown').hunks # <<>>
      /\ Last(shown').path = Last(shown).path
      /\ Last(shown').change = Last(shown).change
      /\ Last(shown').binary = Last(shown).binary
  BY <1>2, <1>5, <1>6, Pushed
<1> QED
  BY <1>2, <1>3, <1>4, <1>5, <1>7, <1>8, <1>9

LEMMA ContentLineKeepsTypes ==
    ASSUME TypeInv, NEW begins, ContentLine(begins)
    PROVE  TypeInv'
<1>1. ParserTypes /\ files # <<>>
  <2>1. shown # <<>> /\ Len(files) = Len(shown)
    BY GitPrintsALine DEF TypeInv, InTheEntry
  <2> QED
    BY <2>1 DEF TypeInv, TypeOK, ParserTypes
<1>2. TakeContent(Head(left), begins, <<oldAt, newAt>>)
  BY DEF ContentLine
<1>3. ParserTypes' /\ Len(files') = Len(files)
  BY <1>1, <1>2, GitPrintsALine, ContentKeepsTypes
<1>4. entry' = entry /\ printed' = printed /\ ended' = FALSE
  BY DEF ContentLine
<1>5. TypeOK'
  BY <1>3, <1>4, GitPrintsALine DEF TypeInv, TypeOK, ParserTypes, Phases
<1>6. InTheEntry'
  BY <1>3, <1>4, GitPrintsALine DEF TypeInv, InTheEntry
<1> QED
  BY <1>5, <1>6 DEF TypeInv

LEMMA TypesAreKept ==
    ASSUME TypeInv, [ReadLine]_vars
    PROVE  TypeInv'
<1>1. CASE NoNewlineLine
  BY <1>1 DEF TypeInv, TypeOK, InTheEntry, NoNewlineLine, TakeMarker, parser
<1>2. CASE EndOfDiff
  <2>1. phase' = "done" /\ UNCHANGED <<parser, shown, entry, oldAt, newAt, left, printed, ended>>
    BY <1>2 DEF EndOfDiff
  <2> QED
    BY <2>1 DEF TypeInv, TypeOK, InTheEntry, parser, Phases
<1>3. CASE UNCHANGED vars
  BY <1>3 DEF TypeInv, TypeOK, InTheEntry, vars, parser, git
<1> QED
  BY <1>1, <1>2, <1>3, DiffLineKeepsTypes, HeaderKeepsTypes, HunkHeaderKeepsTypes,
     ContentLineKeepsTypes
     DEF ReadLine

(* The parser and the diff it reads keep their types, whatever the names   *)
(* and the lines of the repository.  (patch/src/lib.rs, parse)             *)
THEOREM DiffsAreTyped == Spec => []TypeOK
<1>1. TypeInv => TypeOK
  BY DEF TypeInv
<1> QED
  BY <1>1, PatchStarts, TypesAreKept, PTL DEF Spec

-----------------------------------------------------------------------------
(* Reading. *)

(* The last file as the header has told it so far: what became of it, and  *)
(* that it is binary, are said on lines of their own.                      *)
Headers == {"mode", "rename from", "rename to", "body"}
Known   ==
    [path |-> Last(shown).path,
     change |-> IF phase \in {"mode", "rename from"} THEN "Modified" ELSE Last(shown).change,
     binary |-> FALSE,
     hunks |-> Last(shown).hunks]

GitKnowsItsEntry ==
    /\ phase \notin {"entry", "done"} =>
          /\ Last(shown).path = Exact(entry.to)
          /\ Last(shown).change = entry.change
          /\ Last(shown).binary = (entry.body = "binary")
    /\ phase \in {"rename from", "rename to"} => entry.change = "Renamed"
    /\ phase \in {"new name", "hunk", "line"} => entry.body = "text"

ParserIsUpToDate ==
    /\ ~refused
    /\ files = IF phase \in Headers THEN [shown EXCEPT ![Len(shown)] = Known] ELSE shown
    /\ phase = "line" => oldLine = oldAt /\ newLine = newAt

ReadInv == TypeInv /\ GitKnowsItsEntry /\ ParserIsUpToDate

LEMMA ChangedAgain ==
    ASSUME NEW S, NEW s \in Seq(S), s # <<>>, NEW a \in S, NEW b \in S
    PROVE  /\ [[s EXCEPT ![Len(s)] = a] EXCEPT ![Len(s)] = b] = [s EXCEPT ![Len(s)] = b]
           /\ [s EXCEPT ![Len(s)] = a][Len(s)] = a
<1>1. Len(s) \in DOMAIN s
  OBVIOUS
<1> QED
  BY <1>1

LEMMA AppendedAndChanged ==
    ASSUME NEW S, NEW s \in Seq(S), NEW a \in S, NEW b \in S
    PROVE  [Append(s, a) EXCEPT ![Len(s) + 1] = b] = Append(s, b)
<1> DEFINE new == [Append(s, a) EXCEPT ![Len(s) + 1] = b]
           n   == Len(s) + 1
<1>1. n \in Nat /\ Append(s, a) \in [1..n -> S] /\ Append(s, b) \in [1..n -> S]
  <2>1. /\ Append(s, a) \in Seq(S) /\ Len(Append(s, a)) = n
        /\ Append(s, b) \in Seq(S) /\ Len(Append(s, b)) = n
        /\ n \in Nat
    BY AppendProperties, LenProperties
  <2> QED
    BY <2>1, LenProperties
<1>2. \A i \in 1..n : Append(s, a)[i] = (IF i = n THEN a ELSE s[i])
  OBVIOUS
<1>3. \A i \in 1..n : Append(s, b)[i] = (IF i = n THEN b ELSE s[i])
  OBVIOUS
<1>4. new \in [1..n -> S]
  BY <1>1
<1>5. \A i \in 1..n : new[i] = Append(s, b)[i]
  BY <1>1, <1>2, <1>3
<1> HIDE DEF new, n
<1>6. new = Append(s, b)
  BY <1>1, <1>4, <1>5
<1> QED
  BY <1>6 DEF new, n

LEMMA KnownIsAFile ==
    ASSUME TypeInv, shown # <<>>
    PROVE  Known \in FileDiffs /\ Last(shown) \in FileDiffs
<1>1. Last(shown) \in FileDiffs
  BY LastIsOne DEF TypeInv, TypeOK
<1>2. "Modified" \in Changes
  BY DEF Changes
<1> QED
  BY <1>1, <1>2 DEF Known, FileDiffs

(* Between entries there is nothing left to say.                           *)
LEMMA UpToDateBetweenEntries ==
    ASSUME ReadInv, BetweenEntries
    PROVE  files = shown
<1>1. CASE phase \notin Headers
  BY <1>1 DEF ReadInv, ParserIsUpToDate
<1>2. CASE phase \in Headers
  <2>1. phase = "body" /\ entry.body = "nothing"
    BY <1>2 DEF BetweenEntries, Headers
  <2>2. shown # <<>> /\ shown \in Seq(FileDiffs)
    BY <2>1 DEF ReadInv, TypeInv, TypeOK, InTheEntry
  <2>3. Last(shown).binary = FALSE
    BY <2>1 DEF ReadInv, GitKnowsItsEntry
  <2>4. Known = Last(shown)
    BY <2>1, <2>2, <2>3, KnownIsAFile DEF Known, FileDiffs, ReadInv
  <2>5. files = [shown EXCEPT ![Len(shown)] = Last(shown)]
    BY <1>2, <2>4 DEF ReadInv, ParserIsUpToDate
  <2> QED
    BY <2>2, <2>5, LastIsOne
<1> QED
  BY <1>1, <1>2

LEMMA DiffLineIsRead ==
    ASSUME ReadInv, NEW e \in Entries, DiffLine(e)
    PROVE  ReadInv'
<1> DEFINE f == [path |-> Exact(e.to), change |-> "Modified", binary |-> FALSE, hunks |-> <<>>]
           g == [path |-> Exact(e.to), change |-> e.change,
                 binary |-> e.body = "binary", hunks |-> <<>>]
<1>1. TypeInv'
  BY DiffLineKeepsTypes DEF ReadInv
<1>2. f \in FileDiffs /\ g \in FileDiffs
  BY DEF FileDiffs, Paths, Exact, Entries, Changes
<1>3. files = shown /\ shown \in Seq(FileDiffs)
  BY UpToDateBetweenEntries DEF ReadInv, TypeInv, TypeOK, DiffLine
<1>4. files' = Append(shown, f) /\ shown' = Append(shown, g)
  BY <1>3 DEF DiffLine, TakeEntry
<1>5. Len(shown') = Len(shown) + 1 /\ Last(shown') = g
  BY <1>2, <1>3, <1>4, Appended
<1>6. /\ phase' \in Headers /\ entry' = e /\ ~refused'
      /\ phase' \in {"mode", "rename from"} \/ e.change = "Modified"
      /\ phase' = "rename from" => e.change = "Renamed"
      /\ phase' # "rename to"
  BY DEF DiffLine, Headers, TakeEntry
<1>7. /\ Last(shown').path = Exact(e.to) /\ Last(shown').change = e.change
      /\ Last(shown').binary = (e.body = "binary") /\ Last(shown').hunks = <<>>
  BY <1>5
<1>8. Known' = f
  BY <1>6, <1>7 DEF Known
<1> HIDE DEF f, g
<1>9. files' = [shown' EXCEPT ![Len(shown')] = Known']
  <2>1. [Append(shown, g) EXCEPT ![Len(shown) + 1] = f] = Append(shown, f)
    BY <1>2, <1>3, AppendedAndChanged
  <2> QED
    BY <1>4, <1>5, <1>8, <2>1
<1>10. GitKnowsItsEntry'
  <2>1. phase' \notin {"rename to", "new name", "hunk", "line"}
    BY <1>6 DEF Headers
  <2> QED
    BY <1>6, <1>7, <2>1 DEF GitKnowsItsEntry
<1>11. ParserIsUpToDate'
  BY <1>6, <1>9 DEF ParserIsUpToDate, Headers
<1> QED
  BY <1>1, <1>10, <1>11 DEF ReadInv

(* A header line says the next thing of the file it is in.                 *)
LEMMA HeaderSays ==
    ASSUME ReadInv, phase \in Headers
    PROVE  /\ shown # <<>> /\ Len(files) = Len(shown)
           /\ files[Len(files)] = Known /\ Last(files) = Known
           /\ Last(shown) \in FileDiffs
           /\ \A g \in FileDiffs :
                 [files EXCEPT ![Len(files)] = g] = [shown EXCEPT ![Len(shown)] = g]
           /\ [files EXCEPT ![Len(files)] = Last(shown)] = shown
<1>1. shown \in Seq(FileDiffs) /\ shown # <<>> /\ Len(files) = Len(shown)
  BY DEF ReadInv, TypeInv, TypeOK, InTheEntry, Headers
<1>2. files = [shown EXCEPT ![Len(shown)] = Known]
  BY DEF ReadInv, ParserIsUpToDate
<1>3. Known \in FileDiffs /\ Last(shown) \in FileDiffs
  BY <1>1, KnownIsAFile DEF ReadInv
<1>4. \A g \in FileDiffs :
         [files EXCEPT ![Len(files)] = g] = [shown EXCEPT ![Len(shown)] = g]
  BY <1>1, <1>2, <1>3, ChangedAgain
<1>5. files[Len(files)] = Known
  BY <1>1, <1>2, <1>3, ChangedAgain
<1>6. [files EXCEPT ![Len(files)] = Last(shown)] = shown
  BY <1>1, <1>3, <1>4, LastIsOne
<1> QED
  BY <1>1, <1>3, <1>4, <1>5, <1>6 DEF Last

(* What a header line changes of a file, and what it does not.             *)
LEMMA OneFieldChanges ==
    ASSUME NEW p, NEW c, NEW x, NEW h, NEW new
    PROVE  LET f == [path |-> p, change |-> c, binary |-> x, hunks |-> h]
           IN  /\ [f EXCEPT !.path = new] = [path |-> new, change |-> c, binary |-> x, hunks |-> h]
               /\ [f EXCEPT !.change = new] = [path |-> p, change |-> new, binary |-> x, hunks |-> h]
OBVIOUS

LEMMA SpelledAsItIs ==
    ASSUME Readable, NEW n
    PROVE  Before(n) = Exact(n)
<1>1. n \notin Spaced
  BY DEF Readable
<1>2. (n \in Spaced) = FALSE
  BY <1>1
<1> QED
  BY <1>2, Zenon DEF Before, Exact

LEMMA HeaderIsRead ==
    ASSUME Readable, ReadInv,
           ModeLine \/ RenameFromLine \/ RenameToLine \/ BinaryLine
    PROVE  ReadInv'
<1>1. TypeInv'
  BY HeaderKeepsTypes DEF ReadInv
<1>2. /\ shown' = shown /\ entry' = entry /\ ~refused'
      /\ phase \in Headers /\ phase \notin {"entry", "done"}
  <2>1. /\ shown' = shown /\ entry' = entry
        /\ phase \in {"mode", "rename from", "rename to", "body"}
    BY DEF ModeLine, RenameFromLine, RenameToLine, BinaryLine, Turn
  <2>2. refused' = refused
    BY DEF ModeLine, RenameFromLine, RenameToLine, BinaryLine, TakeChange,
           TakeRenameTo, TakeBinary
  <2>3. ~refused
    BY DEF ReadInv, ParserIsUpToDate
  <2> QED
    BY <2>1, <2>2, <2>3 DEF Headers
<1> DEFINE f == Last(shown)
<1>3. /\ f \in FileDiffs /\ Known \in FileDiffs /\ files[Len(files)] = Known
      /\ \A g \in FileDiffs :
            [files EXCEPT ![Len(files)] = g] = [shown EXCEPT ![Len(shown)] = g]
      /\ [files EXCEPT ![Len(files)] = f] = shown
  BY <1>2, HeaderSays, KnownIsAFile DEF ReadInv
<1>4. /\ f.path = Exact(entry.to) /\ f.change = entry.change
      /\ f.binary = (entry.body = "binary")
  BY <1>2 DEF ReadInv, GitKnowsItsEntry
<1> DEFINE no   == FALSE
           told == [path |-> f.path, change |-> f.change, binary |-> no, hunks |-> f.hunks]
<1>5. told \in FileDiffs
  BY <1>3 DEF FileDiffs
<1>6. phase' \in {"rename to", "body"} => Known' = told
  BY <1>2 DEF Known
<1>7. CASE ModeLine \/ RenameFromLine
  <2> DEFINE c == IF phase \in {"mode", "rename from"} THEN "Modified" ELSE f.change
  <2>1. [Known EXCEPT !.change = entry.change] = told
    <3>1. Known = [path |-> f.path, change |-> c, binary |-> no, hunks |-> f.hunks]
      BY DEF Known
    <3> HIDE DEF c, f, no
    <3> QED
      BY <1>4, <3>1, OneFieldChanges
  <2>2. files' = [files EXCEPT ![Len(files)] = [Known EXCEPT !.change = entry.change]]
    BY <1>3, <1>7
       DEF ModeLine, RenameFromLine, TakeChange, Turn, ReadInv, GitKnowsItsEntry
  <2>3. files' = [shown EXCEPT ![Len(shown)] = told]
    BY <1>3, <1>5, <2>1, <2>2
  <2>4. phase' \in {"rename to", "body"} /\ (phase' = "rename to" => entry.change = "Renamed")
    BY <1>7 DEF ModeLine, RenameFromLine, Turn, ReadInv, GitKnowsItsEntry
  <2>5. ParserIsUpToDate'
    BY <1>2, <1>6, <2>3, <2>4 DEF ParserIsUpToDate, Headers
  <2>6. GitKnowsItsEntry'
    BY <1>2, <1>4, <2>4 DEF GitKnowsItsEntry
  <2> QED
    BY <1>1, <2>5, <2>6 DEF ReadInv
<1>8. CASE RenameToLine
  <2>1. phase = "rename to" /\ phase' = "body"
    BY <1>8 DEF RenameToLine, Turn
  <2>2. [Known EXCEPT !.path = Exact(entry.to)] = told
    <3>1. Known = [path |-> f.path, change |-> f.change, binary |-> no, hunks |-> f.hunks]
      BY <2>1 DEF Known
    <3> HIDE DEF f, no
    <3> QED
      BY <1>4, <3>1, OneFieldChanges
  <2>3. files' = [files EXCEPT ![Len(files)] = [Known EXCEPT !.path = Exact(entry.to)]]
    BY <1>3, <1>8 DEF RenameToLine, TakeRenameTo
  <2>4. files' = [shown EXCEPT ![Len(shown)] = told]
    BY <1>3, <1>5, <2>2, <2>3
  <2>5. ParserIsUpToDate'
    BY <1>2, <1>6, <2>1, <2>4 DEF ParserIsUpToDate, Headers
  <2>6. GitKnowsItsEntry'
    BY <1>2, <1>4, <2>1 DEF GitKnowsItsEntry
  <2> QED
    BY <1>1, <2>5, <2>6 DEF ReadInv
<1>9. CASE BinaryLine
  <2>1. phase = "body" /\ phase' = "entry" /\ entry.body = "binary"
    BY <1>9 DEF BinaryLine, Turn
  <2>2. f.binary = TRUE
    BY <1>4, <2>1
  <2>3. [Known EXCEPT !.binary = TRUE] = f
    BY <1>3, <2>1, <2>2 DEF Known, FileDiffs
  <2>4. files' = [files EXCEPT ![Len(files)] = [Known EXCEPT !.binary = TRUE]]
    BY <1>3, <1>9 DEF BinaryLine, TakeBinary
  <2>5. files' = shown
    BY <1>3, <2>3, <2>4
  <2>6. ParserIsUpToDate'
    BY <1>2, <2>1, <2>5 DEF ParserIsUpToDate, Headers
  <2>7. GitKnowsItsEntry'
    BY <2>1 DEF GitKnowsItsEntry
  <2> QED
    BY <1>1, <2>6, <2>7 DEF ReadInv
<1> QED
  BY <1>7, <1>8, <1>9

(* The names before the hunks say what the diff line has said.             *)
LEMMA NamesAreRead ==
    ASSUME Readable, ReadInv, OldNameLine \/ NewNameLine
    PROVE  ReadInv'
<1>1. TypeInv'
  BY HeaderKeepsTypes DEF ReadInv
<1>2. /\ phase \in {"body", "new name"} /\ phase' \in {"new name", "hunk"}
      /\ shown' = shown /\ entry' = entry /\ ~refused'
      /\ entry.body = "text"
  <2>1. /\ phase \in {"body", "new name"} /\ phase' \in {"new name", "hunk"}
        /\ shown' = shown /\ entry' = entry
    BY DEF OldNameLine, NewNameLine, Turn
  <2>2. refused' = refused
    BY DEF OldNameLine, NewNameLine, TakeOldName, TakeNewName
  <2>3. ~refused
    BY DEF ReadInv, ParserIsUpToDate
  <2>4. entry.body = "text"
    BY DEF OldNameLine, NewNameLine, Turn, ReadInv, GitKnowsItsEntry
  <2> QED
    BY <2>1, <2>2, <2>3, <2>4
<1> DEFINE f == Last(shown)
<1>3. shown \in Seq(FileDiffs) /\ shown # <<>> /\ f \in FileDiffs /\ entry \in Entries
  BY <1>2, LastIsOne DEF ReadInv, TypeInv, TypeOK, InTheEntry
<1>4. f.path = Exact(entry.to) /\ f.change = entry.change /\ f.binary = FALSE
  BY <1>2 DEF ReadInv, GitKnowsItsEntry
<1>5. files = shown
  <2>1. CASE phase = "body"
    <3>1. Known = f
      BY <1>3, <1>4, <2>1 DEF Known, FileDiffs
    <3> QED
      BY <1>3, <2>1, <3>1, LastIsOne DEF ReadInv, ParserIsUpToDate, Headers
  <2>2. CASE phase = "new name"
    BY <2>2 DEF ReadInv, ParserIsUpToDate, Headers
  <2> QED
    BY <1>2, <2>1, <2>2
<1>6. [files EXCEPT ![Len(files)].path = Exact(entry.to)] = shown
  <2>1. [f EXCEPT !.path = Exact(entry.to)] = f
    BY <1>3, <1>4 DEF FileDiffs
  <2>2. shown[Len(shown)] = f /\ [shown EXCEPT ![Len(shown)] = f] = shown
    BY <1>3, LastIsOne
  <2>3. [shown EXCEPT ![Len(shown)].path = Exact(entry.to)]
            = [shown EXCEPT ![Len(shown)] = [shown[Len(shown)] EXCEPT !.path = Exact(entry.to)]]
    OBVIOUS
  <2> QED
    BY <1>5, <2>1, <2>2, <2>3
<1>7. Before(entry.from) = Exact(entry.from) /\ Before(entry.to) = Exact(entry.to)
  BY SpelledAsItIs
<1>8. entry.to \in Names /\ Exact(entry.to).name # Nowhere
      /\ (entry.change = "Deleted" => entry.from = entry.to)
  BY <1>3, PatchAssumption DEF Entries, Exact
<1>9. files' = shown
  <2>1. CASE OldNameLine
    <3>1. CASE entry.change = "Deleted"
      <4>1. TakeOldName(Exact(entry.to))
        BY <1>7, <1>8, <2>1, <3>1 DEF OldNameLine
      <4> QED
        BY <1>5, <1>6, <4>1 DEF TakeOldName
    <3>2. CASE entry.change # "Deleted"
      BY <1>4, <1>5, <2>1, <3>2 DEF OldNameLine, TakeOldName
    <3> QED
      BY <3>1, <3>2
  <2>2. CASE NewNameLine
    <3>1. CASE entry.change = "Deleted"
      BY <1>5, <2>2, <3>1 DEF NewNameLine, TakeNewName, Exact
    <3>2. CASE entry.change # "Deleted"
      BY <1>5, <1>6, <1>7, <1>8, <2>2, <3>2 DEF NewNameLine, TakeNewName
    <3> QED
      BY <3>1, <3>2
  <2> QED
    BY <2>1, <2>2
<1>10. ParserIsUpToDate'
  BY <1>2, <1>9 DEF ParserIsUpToDate, Headers
<1>11. GitKnowsItsEntry'
  BY <1>2, <1>4 DEF GitKnowsItsEntry
<1> QED
  BY <1>1, <1>10, <1>11 DEF ReadInv

LEMMA HunkHeaderIsRead ==
    ASSUME ReadInv, NEW kinds \in Hunks, NEW gap \in 0..MaxGap, HunkHeader(kinds, gap)
    PROVE  ReadInv'
<1>1. TypeInv'
  BY HunkHeaderKeepsTypes DEF ReadInv
<1>2. phase = "hunk" /\ phase' = "line" /\ entry' = entry
  BY DEF HunkHeader
<1>3. files = shown
  BY <1>2 DEF ReadInv, ParserIsUpToDate, Headers
<1>4. files' = shown'
  BY <1>3 DEF HunkHeader, TakeHunk
<1>5. oldLine' = oldAt' /\ newLine' = newAt'
  <2>1. oldAt' \in Nat \ {0} /\ newAt' \in Nat \ {0}
    BY <1>1 DEF TypeInv, TypeOK
  <2> QED
    BY <2>1, HunkHeaderNumbers DEF HunkHeader, TakeHunk
<1>6. ~refused'
  <2>1. refused' = refused
    BY DEF HunkHeader, TakeHunk
  <2> QED
    BY <2>1 DEF ReadInv, ParserIsUpToDate
<1>7. GitKnowsItsEntry'
  <2> DEFINE f == Last(shown)
             g == [f EXCEPT !.hunks = Append(@, <<>>)]
  <2>1. shown \in Seq(FileDiffs) /\ shown # <<>>
    BY <1>2 DEF ReadInv, TypeInv, TypeOK, InTheEntry
  <2>2. f \in FileDiffs /\ f = shown[Len(shown)]
    BY <2>1, LastIsOne
  <2>3. g \in FileDiffs /\ g.path = f.path /\ g.change = f.change /\ g.binary = f.binary
    BY <2>2, HunkOpens DEF FileDiffs
  <2>4. shown' = [shown EXCEPT ![Len(shown)] = g]
    BY <2>2 DEF HunkHeader
  <2> HIDE DEF g
  <2>5. Last(shown') = g
    BY <2>1, <2>3, <2>4, LastChanges
  <2> QED
    BY <1>2, <2>3, <2>5 DEF ReadInv, GitKnowsItsEntry
<1> QED
  BY <1>1, <1>2, <1>4, <1>5, <1>6, <1>7 DEF ReadInv, ParserIsUpToDate, Headers

LEMMA ContentLineIsRead ==
    ASSUME Readable, ReadInv, NEW begins \in Beginnings, ContentLine(begins)
    PROVE  ReadInv'
<1>1. TypeInv'
  BY ContentLineKeepsTypes DEF ReadInv
<1>2. /\ phase = "line" /\ phase' \in {"hunk", "line"} /\ entry' = entry
      /\ Last(shown').path = Last(shown).path
      /\ Last(shown').change = Last(shown).change
      /\ Last(shown').binary = Last(shown).binary
  BY GitPrintsALine DEF ReadInv, ContentLine
<1>3. files = shown /\ oldLine = oldAt /\ newLine = newAt /\ Last(files).hunks # <<>>
  BY <1>2 DEF ReadInv, ParserIsUpToDate, Headers, TypeInv, InTheEntry
<1>4. TakeLine(Head(left), <<oldAt, newAt>>)
  <2>1. begins = "plain"
    BY DEF Readable
  <2> QED
    BY <2>1 DEF ContentLine, TakeContent
<1>5. files' = shown' /\ oldLine' = oldAt' /\ newLine' = newAt'
  BY <1>3, <1>4 DEF TakeLine, ContentLine
<1>6. ~refused'
  <2>1. refused' = refused
    BY <1>3, <1>4 DEF TakeLine
  <2> QED
    BY <2>1 DEF ReadInv, ParserIsUpToDate
<1>7. GitKnowsItsEntry'
  BY <1>2 DEF ReadInv, GitKnowsItsEntry
<1> QED
  BY <1>1, <1>2, <1>5, <1>6, <1>7 DEF ReadInv, ParserIsUpToDate, Headers

LEMMA ReadingStarts ==
    ASSUME Init
    PROVE  ReadInv
<1>1. GitKnowsItsEntry /\ ParserIsUpToDate
  BY DEF Init, GitKnowsItsEntry, ParserIsUpToDate, Headers
<1> QED
  BY <1>1, PatchStarts DEF ReadInv

LEMMA ReadingGoesOn ==
    ASSUME Readable, ReadInv, [ReadLine]_vars
    PROVE  ReadInv'
<1>1. TypeInv'
  BY TypesAreKept DEF ReadInv
<1>2. CASE NoNewlineLine \/ UNCHANGED vars
  <2>1. UNCHANGED <<files, oldLine, newLine, refused, shown, phase, entry, oldAt, newAt>>
    BY <1>2 DEF NoNewlineLine, TakeMarker, parser, vars, git
  <2>2. GitKnowsItsEntry'
    BY <2>1 DEF ReadInv, GitKnowsItsEntry
  <2>3. ParserIsUpToDate'
    BY <2>1 DEF ReadInv, ParserIsUpToDate, Known
  <2> QED
    BY <1>1, <2>2, <2>3 DEF ReadInv
<1>3. CASE EndOfDiff
  <2>1. phase' = "done" /\ UNCHANGED <<files, refused, shown>>
    BY <1>3 DEF EndOfDiff, parser
  <2>2. files = shown
    BY <1>3, UpToDateBetweenEntries DEF EndOfDiff
  <2>3. GitKnowsItsEntry'
    BY <2>1 DEF GitKnowsItsEntry
  <2>4. ParserIsUpToDate'
    BY <2>1, <2>2 DEF ReadInv, ParserIsUpToDate, Headers
  <2> QED
    BY <1>1, <2>3, <2>4 DEF ReadInv
<1> QED
  BY <1>2, <1>3, DiffLineIsRead, HeaderIsRead, NamesAreRead, HunkHeaderIsRead,
     ContentLineIsRead
     DEF ReadLine

(* What the parser knows is enough for the page.                           *)
LEMMA ReadingIsEnough ==
    ASSUME ReadInv
    PROVE  ReadsWhatGitShows
<1>1. ~refused /\ Len(files) = Len(shown)
  BY DEF ReadInv, ParserIsUpToDate, TypeInv, InTheEntry
<1>2. BetweenEntries \/ phase = "done" => files = shown
  BY UpToDateBetweenEntries DEF ReadInv, ParserIsUpToDate, Headers
<1>3. \A i \in DOMAIN shown : files[i].hunks = shown[i].hunks
  <2>1. CASE phase \notin Headers
    BY <2>1 DEF ReadInv, ParserIsUpToDate
  <2>2. CASE phase \in Headers
    <3>1. shown \in Seq(FileDiffs) /\ shown # <<>>
      BY <2>2 DEF ReadInv, TypeInv, TypeOK, InTheEntry, Headers
    <3>2. shown[Len(shown)] = Last(shown) /\ Known.hunks = Last(shown).hunks
      BY <3>1, LastIsOne DEF Known
    <3>3. files = [shown EXCEPT ![Len(shown)] = Known]
      BY <2>2 DEF ReadInv, ParserIsUpToDate
    <3> QED
      BY <3>2, <3>3
  <2> QED
    BY <2>1, <2>2
<1> QED
  BY <1>1, <1>2, <1>3 DEF ReadsWhatGitShows

(* If git spells no name and no line so that the parser takes it for       *)
(* something else, the parser refuses nothing git prints and has every     *)
(* file, hunk and line as git means it.  (patch/src/lib.rs, parse)         *)
THEOREM DiffsAreRead == Readable => (Spec => []ReadsWhatGitShows)
<1>1. Readable /\ Init => ReadInv
  BY ReadingStarts
<1>2. Readable /\ ReadInv /\ [ReadLine]_vars => ReadInv'
  BY ReadingGoesOn
<1>3. ReadInv => ReadsWhatGitShows
  BY ReadingIsEnough
<1>4. Readable => (Spec => []ReadInv)
  <2> SUFFICES ASSUME Readable PROVE Spec => []ReadInv
    OBVIOUS
  <2>1. Init => ReadInv
    BY <1>1
  <2>2. ReadInv /\ [ReadLine]_vars => ReadInv'
    BY <1>2
  <2> QED
    BY <2>1, <2>2, PTL DEF Spec
<1> QED
  BY <1>3, <1>4, PTL

(* Notes do not touch the diff they are written on: what is true of every  *)
(* diff is true of every page.  (web/src/model.rs, Page::build)            *)
THEOREM PagesAreRead == Readable => (PageSpec => []ReadsWhatGitShows)
<1>1. PageInit => Init
  BY DEF PageInit
<1>2. [PageNext]_pageVars => [ReadLine]_vars
  <2>1. CASE UNCHANGED pageVars
    BY <2>1 DEF pageVars
  <2>2. ASSUME NEW k, ResolveNote(k) PROVE UNCHANGED vars
    BY <2>2 DEF ResolveNote
  <2>3. ASSUME NEW diff, NEW kind, NEW i, NEW side, NEW first, NEW last,
               Annotate(diff, kind, i, side, first, last)
        PROVE  UNCHANGED vars
    BY <2>3 DEF Annotate, Write
  <2>4. ASSUME NEW name, NEW side, NEW line, Inherit(name, side, line) PROVE UNCHANGED vars
    BY <2>4 DEF Inherit, Write
  <2>5. PageNext => ReadLine \/ UNCHANGED vars
    BY <2>2, <2>3, <2>4, Zenon DEF PageNext
  <2> QED
    BY <2>1, <2>5
<1>3. PageSpec => Spec
  BY <1>1, <1>2, PTL DEF PageSpec, Spec
<1> QED
  BY <1>3, DiffsAreRead, PTL

-----------------------------------------------------------------------------
(* Lines of a file. *)

(* The lines of g are those of f, but for one at <<h, j>>.                 *)
OnlyAdds(f, g, h, j, line) ==
    \A a \in DOMAIN g.hunks : \A b \in DOMAIN g.hunks[a] :
        \/ /\ a \in DOMAIN f.hunks /\ b \in DOMAIN f.hunks[a]
           /\ g.hunks[a][b] = f.hunks[a][b]
        \/ a = h /\ b = j /\ g.hunks[a][b] = line

(* Opening a hunk adds none at all.                                        *)
LEMMA OpenedHunk ==
    ASSUME NEW f \in FileDiffs, NEW g, g = [f EXCEPT !.hunks = Append(@, <<>>)]
    PROVE  /\ g \in FileDiffs /\ g.hunks # <<>> /\ Last(g.hunks) = <<>>
           /\ \A a \in DOMAIN g.hunks : \A b \in DOMAIN g.hunks[a] :
                 /\ a \in DOMAIN f.hunks /\ b \in DOMAIN f.hunks[a]
                 /\ g.hunks[a][b] = f.hunks[a][b]
           /\ \A a \in DOMAIN g.hunks :
                 g.hunks[a] = <<>> \/ (a \in DOMAIN f.hunks /\ g.hunks[a] = f.hunks[a])
<1> DEFINE hs == f.hunks
           n  == Len(hs)
<1>1. hs \in Seq(Seq(Lines)) /\ <<>> \in Seq(Lines) /\ g.hunks = Append(hs, <<>>)
  BY DEF FileDiffs
<1>2. g \in FileDiffs /\ g.hunks # <<>>
  BY HunkOpens
<1>3. /\ n \in Nat /\ DOMAIN hs = 1..n /\ DOMAIN g.hunks = 1..(n + 1)
      /\ g.hunks[n + 1] = <<>> /\ \A a \in 1..n : g.hunks[a] = hs[a]
      /\ Len(g.hunks) = n + 1
  BY <1>1
<1> HIDE DEF n
<1>4. \A a \in 1..(n + 1) : a \in 1..n \/ a = n + 1
  BY <1>3
<1>5. DOMAIN <<>> = {}
  OBVIOUS
<1>6. Last(g.hunks) = <<>>
  BY <1>3 DEF Last
<1>7. \A a \in DOMAIN g.hunks :
         g.hunks[a] = <<>> \/ (a \in DOMAIN f.hunks /\ g.hunks[a] = f.hunks[a])
  BY <1>3, <1>4
<1>8. ASSUME NEW a \in DOMAIN g.hunks, NEW b \in DOMAIN g.hunks[a]
      PROVE  a \in DOMAIN f.hunks /\ b \in DOMAIN f.hunks[a] /\ g.hunks[a][b] = f.hunks[a][b]
  BY <1>5, <1>7, <1>8
<1> QED
  BY <1>2, <1>6, <1>7, <1>8

(* Pushing a line adds it at the end of the last hunk.                     *)
LEMMA PushedLine ==
    ASSUME NEW fs \in Seq(FileDiffs), fs # <<>>, Last(fs).hunks # <<>>, NEW l \in Lines
    PROVE  LET f == Last(fs)
               g == Last(PushTo(fs, l))
           IN  /\ f \in FileDiffs /\ g \in FileDiffs /\ g.hunks # <<>>
               /\ \A i \in DOMAIN PushTo(fs, l) :
                     i \in DOMAIN fs /\ (PushTo(fs, l)[i] = fs[i] \/ PushTo(fs, l)[i] = g)
               /\ OnlyAdds(f, g, Len(f.hunks), Len(Last(f.hunks)) + 1, l)
               /\ Len(Last(g.hunks)) = Len(Last(f.hunks)) + 1
               /\ \A a \in DOMAIN g.hunks :
                     \/ a \in DOMAIN f.hunks /\ g.hunks[a] = f.hunks[a]
                     \/ g.hunks[a] = Last(g.hunks)
<1> DEFINE f  == Last(fs)
           hs == f.hunks
           n  == Len(hs)
           o  == hs[n]
           h  == Append(o, l)
           g  == [f EXCEPT !.hunks = [hs EXCEPT ![n] = h]]
<1>1. f \in FileDiffs /\ f = fs[Len(fs)]
  BY LastIsOne
<1>2. hs \in Seq(Seq(Lines)) /\ hs # <<>>
  BY <1>1 DEF FileDiffs
<1>3. o \in Seq(Lines) /\ n \in Nat \ {0} /\ Last(hs) = o /\ DOMAIN hs = 1..n
  BY <1>2, LastIsOne
<1>4. h \in Seq(Lines) /\ Len(h) = Len(o) + 1
  BY <1>3, Appended
<1>5. [hs EXCEPT ![n] = h] \in Seq(Seq(Lines)) /\ [hs EXCEPT ![n] = h] # <<>>
      /\ Last([hs EXCEPT ![n] = h]) = h
  BY <1>2, <1>4, LastChanges
<1>6. g \in FileDiffs /\ g.hunks = [hs EXCEPT ![n] = h]
  BY <1>1, <1>5 DEF FileDiffs
<1>7. PushTo(fs, l) = [fs EXCEPT ![Len(fs)] = g]
  BY <1>1 DEF PushTo
<1> HIDE DEF g
<1>8. Last(PushTo(fs, l)) = g
  <2>1. Last([fs EXCEPT ![Len(fs)] = g]) = g
    BY <1>6, LastChanges
  <2> QED
    BY <1>7, <2>1
<1>9. \A i \in DOMAIN PushTo(fs, l) :
         i \in DOMAIN fs /\ (PushTo(fs, l)[i] = fs[i] \/ PushTo(fs, l)[i] = g)
  BY <1>7
<1> HIDE DEF h
<1>10. /\ DOMAIN g.hunks = 1..n /\ g.hunks[n] = h
       /\ \A a \in 1..n : a # n => g.hunks[a] = hs[a]
  BY <1>3, <1>6
<1>11. /\ Len(o) \in Nat /\ DOMAIN o = 1..Len(o) /\ DOMAIN h = 1..(Len(o) + 1)
       /\ h[Len(o) + 1] = l
       /\ \A b \in 1..Len(o) : h[b] = o[b]
  BY <1>3 DEF h
<1>12. \A b \in 1..(Len(o) + 1) : b \in 1..Len(o) \/ b = Len(o) + 1
  BY <1>11
<1>13. ASSUME NEW a \in DOMAIN g.hunks, NEW b \in DOMAIN g.hunks[a]
       PROVE  \/ a \in DOMAIN hs /\ b \in DOMAIN hs[a] /\ g.hunks[a][b] = hs[a][b]
              \/ a = n /\ b = Len(o) + 1 /\ g.hunks[a][b] = l
  <2>1. CASE a = n
    BY <1>3, <1>10, <1>11, <1>12, <1>13, <2>1
  <2>2. CASE a # n
    BY <1>3, <1>10, <1>13, <2>2
  <2> QED
    BY <2>1, <2>2
<1>14. OnlyAdds(f, g, n, Len(o) + 1, l)
  BY <1>13 DEF OnlyAdds
<1>15. Last(g.hunks) = h /\ g.hunks # <<>>
  BY <1>5, <1>6
<1>16. \A a \in DOMAIN g.hunks :
          (a \in DOMAIN hs /\ g.hunks[a] = hs[a]) \/ g.hunks[a] = Last(g.hunks)
  BY <1>3, <1>10, <1>15
<1> QED
  BY <1>1, <1>3, <1>4, <1>6, <1>8, <1>9, <1>14, <1>15, <1>16

-----------------------------------------------------------------------------
(* Numbers. *)

(* No two lines have one number on a side.                                 *)
Apart(f) ==
    \A a, c \in DOMAIN f.hunks : \A b \in DOMAIN f.hunks[a], d \in DOMAIN f.hunks[c] :
        \/ f.hunks[a][b].old # 0 /\ f.hunks[a][b].old = f.hunks[c][d].old
        \/ f.hunks[a][b].new # 0 /\ f.hunks[a][b].new = f.hunks[c][d].new
        => a = c /\ b = d

(* What the next line of each side gets is free.                           *)
Below(f, old, new) ==
    \A a \in DOMAIN f.hunks : \A b \in DOMAIN f.hunks[a] :
        f.hunks[a][b].old < old /\ f.hunks[a][b].new < new

LEMMA ApartAndOneMore ==
    ASSUME NEW f \in FileDiffs, NEW g \in FileDiffs, NEW h, NEW j,
           NEW kind \in LineKinds, NEW place,
           NEW old \in Nat \ {0}, NEW new \in Nat \ {0},
           OnlyAdds(f, g, h, j, LineAt(kind, old, new, place)), Apart(f), Below(f, old, new)
    PROVE  Apart(g) /\ Below(g, Past(kind, "old", old), Past(kind, "new", new))
<1> DEFINE l == LineAt(kind, old, new, place)
<1>1. /\ l.old \in {0, old} /\ l.new \in {0, new}
      /\ l.old < Past(kind, "old", old) /\ l.new < Past(kind, "new", new)
      /\ old <= Past(kind, "old", old) /\ new <= Past(kind, "new", new)
      /\ Past(kind, "old", old) \in Nat /\ Past(kind, "new", new) \in Nat
  BY DEF LineAt, On, Past
<1> HIDE DEF l
<1>2. \A a \in DOMAIN f.hunks : \A b \in DOMAIN f.hunks[a] :
         /\ f.hunks[a][b].old \in Nat /\ f.hunks[a][b].new \in Nat
         /\ f.hunks[a][b].old < old /\ f.hunks[a][b].new < new
  <2>1. ASSUME NEW a \in DOMAIN f.hunks, NEW b \in DOMAIN f.hunks[a]
        PROVE  f.hunks[a][b] \in Lines
    BY <2>1 DEF FileDiffs
  <2> QED
    BY <2>1 DEF Lines, Below
<1>3. \A a \in DOMAIN g.hunks : \A b \in DOMAIN g.hunks[a] :
         \/ /\ a \in DOMAIN f.hunks /\ b \in DOMAIN f.hunks[a]
            /\ g.hunks[a][b] = f.hunks[a][b]
         \/ a = h /\ b = j /\ g.hunks[a][b] = l
  BY DEF OnlyAdds, l
<1>4. Below(g, Past(kind, "old", old), Past(kind, "new", new))
  BY <1>1, <1>2, <1>3 DEF Below
<1>5. ASSUME NEW a \in DOMAIN g.hunks, NEW c \in DOMAIN g.hunks,
             NEW b \in DOMAIN g.hunks[a], NEW d \in DOMAIN g.hunks[c],
             \/ g.hunks[a][b].old # 0 /\ g.hunks[a][b].old = g.hunks[c][d].old
             \/ g.hunks[a][b].new # 0 /\ g.hunks[a][b].new = g.hunks[c][d].new
      PROVE  a = c /\ b = d
  <2>1. CASE /\ a \in DOMAIN f.hunks /\ b \in DOMAIN f.hunks[a]
             /\ g.hunks[a][b] = f.hunks[a][b]
             /\ c \in DOMAIN f.hunks /\ d \in DOMAIN f.hunks[c]
             /\ g.hunks[c][d] = f.hunks[c][d]
    BY <1>5, <2>1 DEF Apart
  <2>2. CASE /\ a \in DOMAIN f.hunks /\ b \in DOMAIN f.hunks[a]
             /\ g.hunks[a][b] = f.hunks[a][b]
             /\ g.hunks[c][d] = l
    BY <1>1, <1>2, <1>5, <2>2
  <2>3. CASE /\ g.hunks[a][b] = l
             /\ c \in DOMAIN f.hunks /\ d \in DOMAIN f.hunks[c]
             /\ g.hunks[c][d] = f.hunks[c][d]
    BY <1>1, <1>2, <1>5, <2>3
  <2> QED
    BY <1>3, <2>1, <2>2, <2>3
<1> QED
  BY <1>4, <1>5 DEF Apart

(* Before every line of the diff, of whatever spelling: no file has a      *)
(* number twice, and in a hunk the parser's counters are past all of the   *)
(* file's lines and no further than git itself.                            *)
NumbersInv ==
    /\ \A i \in DOMAIN files : Apart(files[i])
    /\ files # <<>> /\ Last(files).hunks # <<>> =>
          /\ 1 <= oldLine /\ oldLine <= oldAt
          /\ 1 <= newLine /\ newLine <= newAt
          /\ Below(Last(files), oldLine, newLine)

(* Lines that change no hunk.                                              *)
LEMMA SameHunksSameNumbers ==
    ASSUME TypeInv, NumbersInv, UNCHANGED <<oldLine, newLine>>,
           DOMAIN files' = DOMAIN files, files' \in Seq(FileDiffs),
           \A i \in DOMAIN files : files'[i].hunks = files[i].hunks,
           oldAt' \in Nat, newAt' \in Nat, oldAt <= oldAt', newAt <= newAt'
    PROVE  NumbersInv'
<1>1. files \in Seq(FileDiffs) /\ oldLine \in Nat /\ newLine \in Nat
      /\ oldAt \in Nat /\ newAt \in Nat
  BY DEF TypeInv, TypeOK
<1>2. ASSUME NEW i \in DOMAIN files'
      PROVE  Apart(files'[i])
  <2>1. Apart(files[i]) /\ files'[i].hunks = files[i].hunks
    BY <1>2 DEF NumbersInv
  <2> QED
    BY <2>1 DEF Apart
<1>3. ASSUME files' # <<>>, Last(files').hunks # <<>>
      PROVE  /\ 1 <= oldLine' /\ oldLine' <= oldAt'
             /\ 1 <= newLine' /\ newLine' <= newAt'
             /\ Below(Last(files'), oldLine', newLine')
  <2>1. /\ files # <<>> /\ Len(files) = Len(files') /\ Len(files) \in DOMAIN files
    BY <1>1, <1>3
  <2>2. Last(files').hunks = Last(files).hunks
    BY <2>1 DEF Last
  <2>3. /\ 1 <= oldLine /\ oldLine <= oldAt /\ 1 <= newLine /\ newLine <= newAt
        /\ Below(Last(files), oldLine, newLine)
    BY <1>3, <2>1, <2>2 DEF NumbersInv
  <2>4. Below(Last(files'), oldLine, newLine)
    BY <2>2, <2>3 DEF Below
  <2> QED
    BY <1>1, <2>3, <2>4
<1>4. \A i \in DOMAIN files' : Apart(files'[i])
  BY <1>2
<1>5. NumbersInv' = (/\ \A i \in DOMAIN files' : Apart(files'[i])
                     /\ files' # <<>> /\ Last(files').hunks # <<>> =>
                           /\ 1 <= oldLine' /\ oldLine' <= oldAt'
                           /\ 1 <= newLine' /\ newLine' <= newAt'
                           /\ Below(Last(files'), oldLine', newLine'))
  BY DEF NumbersInv, Apart, Below
<1> QED
  BY <1>3, <1>4, <1>5

LEMMA HeaderLinesKeepHunks ==
    ASSUME files \in Seq(FileDiffs), files # <<>>,
           \/ \E change : TakeChange(change)
           \/ \E to : TakeRenameTo(to)
           \/ \E path : TakeOldName(path)
           \/ \E path : TakeNewName(path)
           \/ TakeBinary
    PROVE  /\ DOMAIN files' = DOMAIN files /\ UNCHANGED <<oldLine, newLine>>
           /\ \A i \in DOMAIN files : files'[i].hunks = files[i].hunks
<1> DEFINE f == files[Len(files)]
<1>1. f \in FileDiffs
  BY LastIsOne
<1>2. ASSUME NEW g, g.hunks = f.hunks, files' = [files EXCEPT ![Len(files)] = g]
      PROVE  /\ DOMAIN files' = DOMAIN files
             /\ \A i \in DOMAIN files : files'[i].hunks = files[i].hunks
  BY <1>2
<1>3. UNCHANGED <<oldLine, newLine>>
  BY DEF TakeChange, TakeRenameTo, TakeOldName, TakeNewName, TakeBinary
<1>4. \A v : /\ [f EXCEPT !.change = v].hunks = f.hunks
             /\ [f EXCEPT !.path = v].hunks = f.hunks
             /\ [f EXCEPT !.binary = v].hunks = f.hunks
  BY <1>1 DEF FileDiffs
<1>5. \/ files' = files
      \/ \E v : files' = [files EXCEPT ![Len(files)] = [f EXCEPT !.change = v]]
      \/ \E v : files' = [files EXCEPT ![Len(files)] = [f EXCEPT !.path = v]]
      \/ \E v : files' = [files EXCEPT ![Len(files)] = [f EXCEPT !.binary = v]]
  <2>1. ASSUME NEW change, TakeChange(change)
        PROVE  \E v : files' = [files EXCEPT ![Len(files)] = [f EXCEPT !.change = v]]
    BY <2>1 DEF TakeChange
  <2>2. ASSUME NEW to, TakeRenameTo(to)
        PROVE  \E v : files' = [files EXCEPT ![Len(files)] = [f EXCEPT !.path = v]]
    BY <2>2 DEF TakeRenameTo
  <2>3. ASSUME NEW path, TakeOldName(path) \/ TakeNewName(path), files' # files
        PROVE  \E v : files' = [files EXCEPT ![Len(files)] = [f EXCEPT !.path = v]]
    <3>1. files' = [files EXCEPT ![Len(files)].path = path]
      BY <2>3 DEF TakeOldName, TakeNewName
    <3> QED
      BY <3>1
  <2>4. ASSUME TakeBinary
        PROVE  \E v : files' = [files EXCEPT ![Len(files)] = [f EXCEPT !.binary = v]]
    <3>1. files' = [files EXCEPT ![Len(files)] = [f EXCEPT !.binary = TRUE]]
      BY <2>4 DEF TakeBinary
    <3> QED
      BY <3>1, Zenon
  <2> QED
    BY <2>1, <2>2, <2>3, <2>4
<1> HIDE DEF f
<1> QED
  BY <1>2, <1>3, <1>4, <1>5

LEMMA DiffLineNumbers ==
    ASSUME TypeInv, NumbersInv, NEW e \in Entries, DiffLine(e)
    PROVE  NumbersInv'
<1> DEFINE f == [path |-> Exact(e.to), change |-> "Modified", binary |-> FALSE, hunks |-> <<>>]
<1>1. files \in Seq(FileDiffs) /\ files' = Append(files, f)
  BY DEF TypeInv, TypeOK, DiffLine, TakeEntry
<1>2. f.hunks = <<>> /\ DOMAIN f.hunks = {}
  OBVIOUS
<1> HIDE DEF f
<1>3. /\ DOMAIN files' = 1..(Len(files) + 1) /\ DOMAIN files = 1..Len(files)
      /\ Len(files) \in Nat /\ Len(files') = Len(files) + 1
      /\ files'[Len(files) + 1] = f
      /\ \A i \in 1..Len(files) : files'[i] = files[i]
  BY <1>1
<1>4. Last(files').hunks = <<>>
  BY <1>2, <1>3 DEF Last
<1>5. Apart(f)
  BY <1>2 DEF Apart
<1>6. ASSUME NEW i \in DOMAIN files'
      PROVE  Apart(files'[i])
  <2>1. CASE i = Len(files) + 1
    BY <1>3, <1>5, <2>1
  <2>2. CASE i # Len(files) + 1
    BY <1>3, <1>6, <2>2 DEF NumbersInv
  <2> QED
    BY <2>1, <2>2
<1> QED
  BY <1>4, <1>6 DEF NumbersInv, Apart, Below

LEMMA HeaderNumbers ==
    ASSUME TypeInv, NumbersInv,
           ModeLine \/ RenameFromLine \/ RenameToLine \/ BinaryLine \/ OldNameLine \/ NewNameLine
    PROVE  NumbersInv'
<1>1. files # <<>> /\ files \in Seq(FileDiffs) /\ oldAt \in Nat /\ newAt \in Nat
  <2>1. phase \notin {"entry", "done"}
    BY DEF ModeLine, RenameFromLine, RenameToLine, BinaryLine, OldNameLine, NewNameLine, Turn
  <2>2. shown # <<>> /\ Len(files) = Len(shown)
    BY <2>1 DEF TypeInv, InTheEntry
  <2> QED
    BY <2>2 DEF TypeInv, TypeOK
<1>2. /\ DOMAIN files' = DOMAIN files /\ UNCHANGED <<oldLine, newLine>>
      /\ \A i \in DOMAIN files : files'[i].hunks = files[i].hunks
  <2>1. \/ \E change : TakeChange(change)
        \/ \E to : TakeRenameTo(to)
        \/ \E path : TakeOldName(path)
        \/ \E path : TakeNewName(path)
        \/ TakeBinary
    BY DEF ModeLine, RenameFromLine, RenameToLine, BinaryLine, OldNameLine, NewNameLine
  <2> QED
    BY <1>1, <2>1, HeaderLinesKeepHunks
<1>3. UNCHANGED <<oldAt, newAt>>
  BY DEF ModeLine, RenameFromLine, RenameToLine, BinaryLine, OldNameLine, NewNameLine, Turn
<1>4. files' \in Seq(FileDiffs)
  BY HeaderKeepsTypes DEF TypeInv, TypeOK
<1> QED
  BY <1>1, <1>2, <1>3, <1>4, SameHunksSameNumbers

LEMMA HunkHeaderNumbersTheHunk ==
    ASSUME TypeInv, NumbersInv, NEW kinds \in Hunks, NEW gap \in 0..MaxGap,
           HunkHeader(kinds, gap)
    PROVE  NumbersInv'
<1>1. files \in Seq(FileDiffs) /\ files # <<>>
  BY DEF TypeInv, TypeOK, InTheEntry, HunkHeader
<1>2. /\ oldAt \in Nat \ {0} /\ newAt \in Nat \ {0} /\ gap \in Nat
      /\ oldAt' = oldAt + gap /\ newAt' = newAt + gap
      /\ oldLine \in Nat /\ newLine \in Nat
  BY PatchAssumption DEF TypeInv, TypeOK, HunkHeader
<1>3. oldAt' \in Nat \ {0} /\ newAt' \in Nat \ {0}
  BY <1>2
<1>4. oldLine' = oldAt' /\ newLine' = newAt'
  BY <1>3, HunkHeaderNumbers DEF HunkHeader, TakeHunk
<1> DEFINE f == files[Len(files)]
           g == [f EXCEPT !.hunks = Append(@, <<>>)]
<1>5. f \in FileDiffs /\ f = Last(files) /\ Len(files) \in DOMAIN files
  BY <1>1, LastIsOne
<1>6. /\ g \in FileDiffs
      /\ \A a \in DOMAIN g.hunks : \A b \in DOMAIN g.hunks[a] :
            /\ a \in DOMAIN f.hunks /\ b \in DOMAIN f.hunks[a]
            /\ g.hunks[a][b] = f.hunks[a][b]
  BY <1>5, OpenedHunk
<1>7. files' = [files EXCEPT ![Len(files)] = g]
  BY DEF HunkHeader, TakeHunk
<1> HIDE DEF g
<1>8. Last(files') = g
  <2>1. Last([files EXCEPT ![Len(files)] = g]) = g
    BY <1>1, <1>6, LastChanges
  <2> QED
    BY <1>7, <2>1
<1>9. Apart(g)
  <2>1. Apart(f)
    BY <1>5 DEF NumbersInv
  <2> HIDE DEF f
  <2> QED
    BY <1>6, <2>1 DEF Apart
<1>10. \A i \in DOMAIN files' : Apart(files'[i])
  BY <1>7, <1>9 DEF NumbersInv
<1>11. Below(g, oldLine', newLine')
  <2>1. CASE f.hunks = <<>>
    <3>1. DOMAIN f.hunks = {}
      BY <2>1
    <3> HIDE DEF f
    <3> QED
      BY <1>6, <3>1 DEF Below
  <2>2. CASE f.hunks # <<>>
    <3>1. Below(f, oldLine, newLine) /\ oldLine <= oldAt /\ newLine <= newAt
      BY <1>1, <1>5, <2>2 DEF NumbersInv
    <3>2. \A a \in DOMAIN f.hunks : \A b \in DOMAIN f.hunks[a] : f.hunks[a][b] \in Lines
      BY <1>5 DEF FileDiffs
    <3> HIDE DEF f
    <3>3. \A a \in DOMAIN f.hunks : \A b \in DOMAIN f.hunks[a] :
             f.hunks[a][b].old < oldLine' /\ f.hunks[a][b].new < newLine'
      BY <1>2, <1>4, <3>1, <3>2 DEF Below, Lines
    <3> QED
      BY <1>6, <3>3 DEF Below
  <2> QED
    BY <2>1, <2>2
<1>12. Below(Last(files'), oldLine', newLine')
  BY <1>8, <1>11
<1> HIDE DEF f
<1>13. /\ 1 <= oldLine' /\ oldLine' <= oldAt'
       /\ 1 <= newLine' /\ newLine' <= newAt'
  BY <1>3, <1>4
<1> QED
  BY <1>10, <1>12, <1>13 DEF NumbersInv, Apart, Below

LEMMA ContentLineNumbers ==
    ASSUME TypeInv, NumbersInv, NEW begins, ContentLine(begins)
    PROVE  NumbersInv'
<1> DEFINE kind  == Head(left)
           place == <<oldAt, newAt>>
           l     == LineAt(kind, oldLine, newLine, place)
<1>1. files \in Seq(FileDiffs) /\ files # <<>> /\ oldLine \in Nat /\ newLine \in Nat
      /\ oldAt \in Nat /\ newAt \in Nat
  <2>1. files # <<>>
    BY GitPrintsALine DEF TypeInv, InTheEntry
  <2> QED
    BY <2>1 DEF TypeInv, TypeOK
<1>2. kind \in LineKinds /\ place \in Nat \X Nat
  BY GitPrintsALine
<1>3. oldAt' = Past(kind, "old", oldAt) /\ newAt' = Past(kind, "new", newAt)
      /\ TakeContent(kind, begins, place)
  BY DEF ContentLine
<1>4. files' \in Seq(FileDiffs)
  BY ContentLineKeepsTypes DEF TypeInv, TypeOK
<1> HIDE DEF kind, place
<1>5. oldAt' \in Nat /\ newAt' \in Nat /\ oldAt <= oldAt' /\ newAt <= newAt'
  BY <1>1, <1>3, PastIsNumber
<1>6. CASE \/ TakeOldName(Exact(Scrap)) \/ TakeNewName(Exact(Scrap))
           \/ UNCHANGED <<files, oldLine, newLine>>
  <2>1. /\ DOMAIN files' = DOMAIN files /\ UNCHANGED <<oldLine, newLine>>
        /\ \A i \in DOMAIN files : files'[i].hunks = files[i].hunks
    BY <1>1, <1>6, HeaderLinesKeepHunks
  <2> QED
    BY <1>4, <1>5, <2>1, SameHunksSameNumbers
<1>7. CASE Last(files).hunks # <<>> /\ files' = PushTo(files, l)
           /\ oldLine' = Past(kind, "old", oldLine) /\ newLine' = Past(kind, "new", newLine)
  <2> DEFINE f == Last(files)
             g == Last(PushTo(files, l))
  <2>1. l \in Lines
    BY <1>1, <1>2, LinesAreTyped
  <2> HIDE DEF l
  <2>2. /\ f \in FileDiffs /\ g \in FileDiffs
        /\ \A i \in DOMAIN files' :
              i \in DOMAIN files /\ (files'[i] = files[i] \/ files'[i] = g)
        /\ OnlyAdds(f, g, Len(f.hunks), Len(Last(f.hunks)) + 1, l)
    BY <1>1, <1>7, <2>1, PushedLine
  <2>3. /\ 1 <= oldLine /\ oldLine <= oldAt /\ 1 <= newLine /\ newLine <= newAt
        /\ Below(f, oldLine, newLine)
    BY <1>1, <1>7 DEF NumbersInv
  <2>4. Apart(f)
    BY <1>1, LastIsOne DEF NumbersInv, Last
  <2>5. Last(files') = g
    BY <1>7
  <2> HIDE DEF f, g
  <2>6. oldLine \in Nat \ {0} /\ newLine \in Nat \ {0}
    BY <1>1, <2>3
  <2>7. OnlyAdds(f, g, Len(f.hunks), Len(Last(f.hunks)) + 1, LineAt(kind, oldLine, newLine, place))
    BY <2>2 DEF l
  <2>8. Apart(g) /\ Below(g, oldLine', newLine')
    BY <1>2, <1>7, <2>2, <2>3, <2>4, <2>6, <2>7, ApartAndOneMore
  <2>9. \A i \in DOMAIN files' : Apart(files'[i])
    BY <2>2, <2>8 DEF NumbersInv
  <2>10. /\ 1 <= oldLine' /\ oldLine' <= oldAt'
         /\ 1 <= newLine' /\ newLine' <= newAt'
    BY <1>1, <1>3, <1>7, <2>3 DEF Past
  <2> QED
    BY <2>5, <2>8, <2>9, <2>10 DEF NumbersInv, Apart, Below
<1>8. CASE TakeLine(kind, place)
  BY <1>6, <1>7, <1>8 DEF TakeLine
<1> QED
  BY <1>3, <1>6, <1>8 DEF TakeContent

LEMMA NumbersStart ==
    ASSUME Init
    PROVE  NumbersInv
BY DEF Init, NumbersInv

LEMMA NumbersAreKept ==
    ASSUME TypeInv, NumbersInv, [ReadLine]_vars
    PROVE  NumbersInv'
<1>1. CASE NoNewlineLine \/ EndOfDiff \/ UNCHANGED vars
  <2>1. UNCHANGED <<files, oldLine, newLine, oldAt, newAt>>
    BY <1>1 DEF NoNewlineLine, EndOfDiff, TakeMarker, parser, vars, git
  <2> QED
    BY <2>1 DEF NumbersInv, Apart, Below
<1> QED
  BY <1>1, DiffLineNumbers, HeaderNumbers, HunkHeaderNumbersTheHunk, ContentLineNumbers
     DEF ReadLine

-----------------------------------------------------------------------------
(* Rows. *)

(* Two rows with one key are one.                                          *)
LEMMA RowsOfOneKey ==
    ASSUME NumbersInv, NEW r \in RowsOfPage, NEW s \in RowsOfPage,
           NEW k \in Keys(r), k \in Keys(s)
    PROVE  r = s
<1>1. PICK side \in Sides : k = <<r[1], side, NumberOn(LineOf(r), side)>>
                            /\ NumberOn(LineOf(r), side) # 0
  BY DEF Keys
<1>2. PICK other \in Sides : k = <<s[1], other, NumberOn(LineOf(s), other)>>
  BY DEF Keys
<1>3. r[1] = s[1] /\ side = other /\ NumberOn(LineOf(r), side) = NumberOn(LineOf(s), side)
  BY <1>1, <1>2
<1>4. /\ r \in Rows /\ s \in Rows
      /\ r[2] \in DOMAIN files[r[1]].hunks /\ r[3] \in DOMAIN files[r[1]].hunks[r[2]]
      /\ s[2] \in DOMAIN files[s[1]].hunks /\ s[3] \in DOMAIN files[s[1]].hunks[s[2]]
  BY DEF RowsOfPage
<1>5. r[1] \in DOMAIN files /\ r = <<r[1], r[2], r[3]>> /\ s = <<s[1], s[2], s[3]>>
  BY <1>4 DEF Rows
<1>6. r[2] = s[2] /\ r[3] = s[3]
  <2> DEFINE f == files[r[1]]
  <2>1. Apart(f)
    BY <1>5 DEF NumbersInv
  <2>2. /\ r[2] \in DOMAIN f.hunks /\ r[3] \in DOMAIN f.hunks[r[2]]
        /\ s[2] \in DOMAIN f.hunks /\ s[3] \in DOMAIN f.hunks[s[2]]
    BY <1>3, <1>4
  <2>3. LineOf(r) = f.hunks[r[2]][r[3]] /\ LineOf(s) = f.hunks[s[2]][s[3]]
    BY <1>3 DEF LineOf
  <2>4. \/ LineOf(r).old # 0 /\ LineOf(r).old = LineOf(s).old
        \/ LineOf(r).new # 0 /\ LineOf(r).new = LineOf(s).new
    BY <1>1, <1>3 DEF NumberOn
  <2> HIDE DEF f
  <2> QED
    BY <2>1, <2>2, <2>3, <2>4 DEF Apart
<1> QED
  BY <1>3, <1>5, <1>6

(* Notes are written when the diff is read.                                *)
LEMMA ReadingOrWriting ==
    ASSUME [PageNext]_pageVars
    PROVE  [ReadLine]_vars
<1>1. ASSUME NEW diff, NEW kind, NEW i, NEW side, NEW first, NEW last,
             Annotate(diff, kind, i, side, first, last)
      PROVE  UNCHANGED vars
  BY <1>1 DEF Annotate, Write
<1>2. ASSUME NEW name, NEW side, NEW line, Inherit(name, side, line)
      PROVE  UNCHANGED vars
  BY <1>2 DEF Inherit, Write
<1>3. ASSUME NEW k, ResolveNote(k)
      PROVE  UNCHANGED vars
  BY <1>3 DEF ResolveNote
<1>4. ASSUME UNCHANGED pageVars
      PROVE  UNCHANGED vars
  BY <1>4 DEF pageVars
<1>5. CASE PageNext
  <2>1. CASE ReadLine
    BY <2>1
  <2>2. CASE \E diff \in {shown, files}, kind \in Kinds, i \in DOMAIN shown, side \in Sides :
               \E first, last \in LinesOn(diff, i, side) :
                  Annotate(diff, kind, i, side, first, last)
    BY <1>1, <2>2
  <2> QED
    BY <1>2, <1>3, <1>5, <2>1, <2>2 DEF PageNext
<1> QED
  BY <1>4, <1>5

LEMMA OneRowAtMost ==
    ASSUME NumbersInv
    PROVE  OneRowPerThread
<1> SUFFICES ASSUME NEW k \in DOMAIN notes
             PROVE  Cardinality(RowsUnder(k)) <= 1
  BY DEF OneRowPerThread
<1>1. \A r, s \in RowsUnder(k) : r = s
  <2> SUFFICES ASSUME NEW r \in RowsUnder(k), NEW s \in RowsUnder(k)
               PROVE  r = s
    OBVIOUS
  <2>1. /\ r \in RowsOfPage /\ s \in RowsOfPage
        /\ KeyOf(notes[k]) \in Keys(r) /\ KeyOf(notes[k]) \in Keys(s)
    BY DEF RowsUnder, Under
  <2> QED
    BY <2>1, RowsOfOneKey
<1>2. CASE RowsUnder(k) = {}
  BY <1>2, FS_EmptySet
<1>3. CASE RowsUnder(k) # {}
  <2>1. PICK r : r \in RowsUnder(k)
    BY <1>3
  <2>2. RowsUnder(k) = {r}
    BY <1>1, <2>1
  <2>3. Cardinality({r}) = 1
    BY FS_Singleton
  <2> QED
    BY <2>2, <2>3
<1> QED
  BY <1>2, <1>3

(* A thread is never under two rows, however git spells the names and the  *)
(* lines of the diff and however many notes there are. (rows::build)       *)
THEOREM ThreadsAreOnOneRow == PageSpec => []OneRowPerThread
<1>1. PageInit => TypeInv /\ NumbersInv
  BY PatchStarts, NumbersStart DEF PageInit
<1>2. TypeInv /\ NumbersInv /\ [PageNext]_pageVars => (TypeInv /\ NumbersInv)'
  <2> SUFFICES ASSUME TypeInv, NumbersInv, [PageNext]_pageVars
               PROVE  (TypeInv /\ NumbersInv)'
    OBVIOUS
  <2> QED
    BY ReadingOrWriting, TypesAreKept, NumbersAreKept
<1>3. NumbersInv => OneRowPerThread
  BY OneRowAtMost
<1> QED
  BY <1>1, <1>2, <1>3, PTL DEF PageSpec

-----------------------------------------------------------------------------
(* The diff git shows. *)

(* A file as git shows it: its name is as it is, its hunks are no longer   *)
(* than a diff, and a line has the number of its place on each side it is  *)
(* on.                                                                     *)
IsPlaced(l) == l.old \in {0, l.place[1]} /\ l.new \in {0, l.place[2]}

IsShown(f) ==
    /\ f.path = Exact(f.path.name)
    /\ \A a \in DOMAIN f.hunks :
          /\ Len(f.hunks[a]) <= MaxLines
          /\ \A b \in DOMAIN f.hunks[a] : IsPlaced(f.hunks[a][b])

OneNameEach(fs) ==
    \A i, j \in DOMAIN fs : fs[i].path.name = fs[j].path.name => i = j

ShownInv ==
    /\ \A i \in DOMAIN shown : IsShown(shown[i])
    /\ OneNameEach(shown)
    /\ phase = "line" => Len(Last(Last(shown).hunks)) + Len(left) <= MaxLines

LEMMA PathsStay ==
    ASSUME NEW fs \in Seq(FileDiffs), fs # <<>>, NEW hs
    PROVE  /\ DOMAIN [fs EXCEPT ![Len(fs)].hunks = hs] = DOMAIN fs
           /\ \A i \in DOMAIN fs : [fs EXCEPT ![Len(fs)].hunks = hs][i].path = fs[i].path
<1>1. Len(fs) \in DOMAIN fs /\ fs[Len(fs)] \in FileDiffs
  OBVIOUS
<1>2. [fs[Len(fs)] EXCEPT !.hunks = hs].path = fs[Len(fs)].path
  BY <1>1 DEF FileDiffs
<1> QED
  BY <1>1, <1>2

LEMMA ShownStarts ==
    ASSUME Init
    PROVE  ShownInv
BY DEF Init, ShownInv, OneNameEach

LEMMA DiffLineShows ==
    ASSUME ~TypeChange, TypeInv, ShownInv, NEW e \in Entries, DiffLine(e)
    PROVE  ShownInv'
<1> DEFINE g == [path |-> Exact(e.to), change |-> e.change,
                 binary |-> e.body = "binary", hunks |-> <<>>]
<1>1. shown \in Seq(FileDiffs) /\ shown' = Append(shown, g)
  BY DEF TypeInv, TypeOK, DiffLine
<1>2. g.hunks = <<>> /\ DOMAIN g.hunks = {} /\ g.path = Exact(g.path.name)
      /\ g.path.name = e.to
  <2>1. Exact(e.to).name = e.to
    BY DEF Exact
  <2>2. g.path = Exact(e.to) /\ g.hunks = <<>>
    OBVIOUS
  <2> QED
    BY <2>1, <2>2
<1>3. IsShown(g)
  BY <1>2 DEF IsShown
<1>4. \A i \in DOMAIN shown : shown[i].path.name # g.path.name
  BY <1>2 DEF DiffLine, MayFollow
<1> HIDE DEF g
<1>5. /\ DOMAIN shown' = 1..(Len(shown) + 1) /\ DOMAIN shown = 1..Len(shown)
      /\ Len(shown) \in Nat
      /\ shown'[Len(shown) + 1] = g
      /\ \A i \in 1..Len(shown) : shown'[i] = shown[i]
  BY <1>1
<1>6. \A i \in DOMAIN shown' : IsShown(shown'[i])
  <2> SUFFICES ASSUME NEW i \in DOMAIN shown'
               PROVE  IsShown(shown'[i])
    OBVIOUS
  <2>1. CASE i = Len(shown) + 1
    BY <1>3, <1>5, <2>1
  <2>2. CASE i # Len(shown) + 1
    BY <1>5, <2>2 DEF ShownInv
  <2> QED
    BY <2>1, <2>2
<1>7. OneNameEach(shown')
  <2> SUFFICES ASSUME NEW i \in DOMAIN shown', NEW j \in DOMAIN shown',
                      shown'[i].path.name = shown'[j].path.name
               PROVE  i = j
    BY DEF OneNameEach
  <2>1. \A k \in DOMAIN shown' : k \in DOMAIN shown \/ k = Len(shown) + 1
    BY <1>5
  <2>2. CASE i \in DOMAIN shown /\ j \in DOMAIN shown
    BY <1>5, <2>2 DEF ShownInv, OneNameEach
  <2> QED
    BY <1>4, <1>5, <2>1, <2>2
<1>8. phase' # "line"
  BY DEF DiffLine
<1> QED
  BY <1>6, <1>7, <1>8 DEF ShownInv, OneNameEach, IsShown, IsPlaced

LEMMA HunkHeaderShows ==
    ASSUME TypeInv, ShownInv, NEW kinds \in Hunks, NEW gap \in 0..MaxGap,
           HunkHeader(kinds, gap)
    PROVE  ShownInv'
<1> DEFINE f == shown[Len(shown)]
<1>0. PICK g : g = [f EXCEPT !.hunks = Append(@, <<>>)]
  OBVIOUS
<1>1. shown \in Seq(FileDiffs) /\ shown # <<>>
  BY DEF TypeInv, TypeOK, InTheEntry, HunkHeader
<1>2. f \in FileDiffs /\ Len(shown) \in DOMAIN shown
  BY <1>1, LastIsOne
<1>3. /\ g \in FileDiffs /\ Last(g.hunks) = <<>>
      /\ \A a \in DOMAIN g.hunks :
            g.hunks[a] = <<>> \/ (a \in DOMAIN f.hunks /\ g.hunks[a] = f.hunks[a])
  <2> HIDE DEF f
  <2>1. f \in FileDiffs
    BY <1>2
  <2>2. g = [f EXCEPT !.hunks = Append(@, <<>>)]
    BY <1>0
  <2>3. g \in FileDiffs
    BY <2>1, <2>2, OpenedHunk
  <2>4. Last(g.hunks) = <<>>
    BY <2>1, <2>2, OpenedHunk
  <2>5. \A a \in DOMAIN g.hunks :
           g.hunks[a] = <<>> \/ (a \in DOMAIN f.hunks /\ g.hunks[a] = f.hunks[a])
    BY <2>1, <2>2, OpenedHunk
  <2> QED
    BY <2>3, <2>4, <2>5
<1>4. g.path = f.path
  BY <1>0, <1>2 DEF FileDiffs
<1>5. shown' = [shown EXCEPT ![Len(shown)] = g]
  BY <1>0 DEF HunkHeader
<1>6. IsShown(f)
  BY <1>2 DEF ShownInv
<1>7. Last(shown') = g
  <2>1. Last([shown EXCEPT ![Len(shown)] = g]) = g
    <3>1. g \in FileDiffs
      BY <1>3
    <3> QED
      BY <1>1, <3>1, LastChanges
  <2> QED
    BY <1>5, <2>1
<1>8. IsShown(g)
  <2>1. DOMAIN <<>> = {} /\ Len(<<>>) = 0 /\ 0 <= MaxLines
    BY PatchAssumption
  <2>2. g.path = Exact(g.path.name)
    BY <1>4, <1>6 DEF IsShown
  <2> HIDE DEF f
  <2>3. ASSUME NEW a \in DOMAIN g.hunks
        PROVE  /\ Len(g.hunks[a]) <= MaxLines
               /\ \A b \in DOMAIN g.hunks[a] : IsPlaced(g.hunks[a][b])
    <3>1. CASE g.hunks[a] = <<>>
      BY <2>1, <3>1
    <3>2. CASE a \in DOMAIN f.hunks /\ g.hunks[a] = f.hunks[a]
      BY <1>6, <3>2 DEF IsShown
    <3> QED
      BY <1>3, <2>3, <3>1, <3>2
  <2> QED
    BY <2>2, <2>3 DEF IsShown
<1>9. \A i \in DOMAIN shown' : IsShown(shown'[i])
  BY <1>5, <1>8 DEF ShownInv
<1>10. OneNameEach(shown')
  <2>1. \A i \in DOMAIN shown' : shown'[i].path = shown[i].path
    BY <1>2, <1>4, <1>5
  <2> QED
    BY <1>5, <2>1 DEF ShownInv, OneNameEach
<1>11. Len(Last(Last(shown').hunks)) + Len(left') <= MaxLines
  <2>1. kinds \in Seq(LineKinds)
    BY HunkHeaderKeepsTypes DEF TypeInv, TypeOK, HunkHeader
  <2>2. printed \in Nat /\ printed + Len(kinds) <= MaxLines /\ left' = kinds
    BY DEF TypeInv, TypeOK, HunkHeader
  <2>3. Len(Last(Last(shown').hunks)) = 0
    BY <1>3, <1>7
  <2> QED
    BY <2>1, <2>2, <2>3, PatchAssumption
<1> QED
  BY <1>9, <1>10, <1>11 DEF ShownInv, OneNameEach, IsShown, IsPlaced

LEMMA ContentLineShows ==
    ASSUME TypeInv, ShownInv, NEW begins, ContentLine(begins)
    PROVE  ShownInv'
<1> DEFINE l == LineAt(Head(left), oldAt, newAt, <<oldAt, newAt>>)
           f == Last(shown)
           g == Last(PushTo(shown, l))
<1>1. shown \in Seq(FileDiffs) /\ shown # <<>> /\ f.hunks # <<>> /\ phase = "line"
      /\ left \in Seq(LineKinds) /\ left # <<>>
  BY DEF TypeInv, TypeOK, InTheEntry, ContentLine
<1>2. shown' = PushTo(shown, l) /\ left' = Tail(left)
  BY DEF ContentLine
<1>3. IsPlaced(l)
  BY DEF IsPlaced, LineAt, On
<1>4. l \in Lines
  BY GitPrintsALine
<1> HIDE DEF l
<1>5. /\ f \in FileDiffs /\ g \in FileDiffs /\ g.hunks # <<>>
      /\ \A i \in DOMAIN shown' : i \in DOMAIN shown /\ (shown'[i] = shown[i] \/ shown'[i] = g)
      /\ OnlyAdds(f, g, Len(f.hunks), Len(Last(f.hunks)) + 1, l)
      /\ Len(Last(g.hunks)) = Len(Last(f.hunks)) + 1
      /\ \A a \in DOMAIN g.hunks :
            \/ a \in DOMAIN f.hunks /\ g.hunks[a] = f.hunks[a]
            \/ g.hunks[a] = Last(g.hunks)
  BY <1>1, <1>2, <1>4, PushedLine
<1>6. g.path = f.path
  BY <1>1, <1>4, Pushed
<1>7. IsShown(f)
  BY <1>1, LastIsOne DEF ShownInv, Last
<1>8. Last(shown') = g
  BY <1>2
<1>9. \A i \in DOMAIN shown' : shown'[i].path = shown[i].path
  BY <1>1, <1>2, PathsStay DEF PushTo
<1>10. Len(Last(f.hunks)) + Len(left) <= MaxLines
  BY <1>1 DEF ShownInv
<1>11. Len(Last(f.hunks)) \in Nat
  BY <1>1, <1>5, LastIsOne DEF FileDiffs
<1> HIDE DEF f, g
<1>12. Len(left) \in Nat \ {0} /\ Len(Tail(left)) = Len(left) - 1
  BY <1>1
<1>13. Len(Last(g.hunks)) + Len(left') <= MaxLines /\ Len(Last(g.hunks)) <= MaxLines
  BY <1>2, <1>5, <1>10, <1>11, <1>12, PatchAssumption
<1>14. IsShown(g)
  <2>1. g.path = Exact(g.path.name)
    BY <1>6, <1>7 DEF IsShown
  <2>2. ASSUME NEW a \in DOMAIN g.hunks
        PROVE  Len(g.hunks[a]) <= MaxLines
    BY <1>5, <1>7, <1>13, <2>2 DEF IsShown
  <2>3. ASSUME NEW a \in DOMAIN g.hunks, NEW b \in DOMAIN g.hunks[a]
        PROVE  IsPlaced(g.hunks[a][b])
    BY <1>3, <1>5, <1>7, <2>3 DEF OnlyAdds, IsShown
  <2> QED
    BY <2>1, <2>2, <2>3 DEF IsShown
<1>15. \A i \in DOMAIN shown' : IsShown(shown'[i])
  BY <1>5, <1>14 DEF ShownInv
<1>16. OneNameEach(shown')
  BY <1>5, <1>9 DEF ShownInv, OneNameEach
<1>17. Len(Last(Last(shown').hunks)) + Len(left') <= MaxLines
  BY <1>8, <1>13
<1> QED
  BY <1>15, <1>16, <1>17 DEF ShownInv, OneNameEach, IsShown, IsPlaced

LEMMA ShownIsKept ==
    ASSUME ~TypeChange, TypeInv, ShownInv, [ReadLine]_vars
    PROVE  ShownInv'
<1>1. CASE NoNewlineLine \/ UNCHANGED vars
  <2>1. UNCHANGED <<shown, phase, left>>
    BY <1>1 DEF NoNewlineLine, vars, git
  <2> QED
    BY <2>1 DEF ShownInv, OneNameEach, IsShown, IsPlaced
<1>2. CASE \/ ModeLine \/ RenameFromLine \/ RenameToLine \/ BinaryLine
           \/ OldNameLine \/ NewNameLine \/ EndOfDiff
  <2>1. UNCHANGED shown /\ phase' # "line"
    BY <1>2 DEF ModeLine, RenameFromLine, RenameToLine, BinaryLine, OldNameLine,
                NewNameLine, Turn, EndOfDiff
  <2> QED
    BY <2>1 DEF ShownInv, OneNameEach, IsShown, IsPlaced
<1> QED
  BY <1>1, <1>2, DiffLineShows, HunkHeaderShows, ContentLineShows DEF ReadLine

-----------------------------------------------------------------------------
(* Notes. *)

(* The lines of entry i that a note spans.                                 *)
Spanned(diff, i, n) ==
    {<<i, l.place>> : l \in {x \in LinesOn(diff, i, n.side) :
                                NumberOn(x, n.side) \in n.start..n.end}}

(* A note spans some lines.  On this revision it is under the name of an   *)
(* entry, and meant all the entry has of them; on an earlier one, none of  *)
(* these.                                                                  *)
IsWritten(diff, n) ==
    /\ n \in Notes
    /\ 1 <= n.start /\ n.start <= n.end
    /\ n.onHead => \E i \in DOMAIN diff : n.file = diff[i].path /\ n.meant = Spanned(diff, i, n)
    /\ ~n.onHead => n.meant = {} /\ n.kind = "note"

NotesInv ==
    /\ notes \in Seq(Notes)
    /\ \A k \in DOMAIN notes : IsWritten(shown, notes[k])
    /\ notes # <<>> => phase = "done"

PageInv == ReadInv /\ ShownInv /\ NumbersInv /\ NotesInv

(* A line of the diff is in an entry, a hunk of it and a place there.      *)
LEMMA LinesOfTheDiff ==
    ASSUME TypeInv, ShownInv, NEW i \in DOMAIN shown, NEW side \in Sides
    PROVE  /\ \A a \in DOMAIN shown[i].hunks : \A b \in DOMAIN shown[i].hunks[a] :
                 NumberOn(shown[i].hunks[a][b], side) # 0
                    => shown[i].hunks[a][b] \in LinesOn(shown, i, side)
           /\ \A l \in LinesOn(shown, i, side) :
                 \E a \in DOMAIN shown[i].hunks : \E b \in DOMAIN shown[i].hunks[a] :
                    l = shown[i].hunks[a][b]
           /\ \A l \in LinesOn(shown, i, side) :
                 /\ l \in Lines
                 /\ NumberOn(l, side) \in Nat \ {0}
                 /\ NumberOn(l, side) = l.place[IF side = "old" THEN 1 ELSE 2]
<1> DEFINE hs == shown[i].hunks
<1>1. hs \in Seq(Seq(Lines))
  <2>1. shown[i] \in FileDiffs
    BY DEF TypeInv, TypeOK
  <2> QED
    BY <2>1 DEF FileDiffs
<1>2. LinesOn(shown, i, side)
        = {l \in UNION {ToSet(h) : h \in ToSet(hs)} : NumberOn(l, side) # 0}
  BY DEF LinesOn
<1>3. \A a \in DOMAIN hs : \A b \in DOMAIN hs[a] : hs[a][b] \in Lines /\ IsPlaced(hs[a][b])
  BY <1>1 DEF ShownInv, IsShown
<1> HIDE DEF hs
<1>4. \A a \in DOMAIN hs : \A b \in DOMAIN hs[a] :
         NumberOn(hs[a][b], side) # 0 => hs[a][b] \in LinesOn(shown, i, side)
  BY <1>2 DEF ToSet
<1>5. \A l \in LinesOn(shown, i, side) :
         /\ NumberOn(l, side) # 0
         /\ \E a \in DOMAIN hs : \E b \in DOMAIN hs[a] : l = hs[a][b]
  BY <1>2 DEF ToSet
<1>6. ASSUME NEW l \in LinesOn(shown, i, side)
      PROVE  /\ l \in Lines
             /\ NumberOn(l, side) \in Nat \ {0}
             /\ NumberOn(l, side) = l.place[IF side = "old" THEN 1 ELSE 2]
  <2>1. l \in Lines /\ IsPlaced(l) /\ NumberOn(l, side) # 0
    BY <1>3, <1>5
  <2>2. NumberOn(l, side) \in Nat
    BY <2>1 DEF NumberOn, Lines
  <2>3. NumberOn(l, side) = l.place[IF side = "old" THEN 1 ELSE 2]
    BY <2>1 DEF NumberOn, IsPlaced
  <2> QED
    BY <2>1, <2>2, <2>3
<1> QED
  BY <1>4, <1>5, <1>6 DEF hs

(* An entry is found by its name.                                          *)
LEMMA NamesFindTheirEntry ==
    ASSUME TypeInv, ShownInv, files = shown, NEW i \in DOMAIN shown
    PROVE  IndexOf(shown[i].path) = i
<1>1. i \in Nat
  BY DEF TypeInv, TypeOK
<1>2. {j \in DOMAIN files : files[j].path = shown[i].path} = {i}
  BY DEF ShownInv, OneNameEach
<1>3. Max({i}) = i
  BY <1>1 DEF Max
<1> QED
  BY <1>2, <1>3 DEF IndexOf

(* The rows with a key on a side, and the lines of the diff there.         *)
LEMMA RowsAreLines ==
    ASSUME TypeInv, ShownInv, files = shown, NEW i \in DOMAIN shown, NEW side \in Sides
    PROVE  /\ \A r \in RowsOfPage : \A n \in Nat :
                 <<i, side, n>> \in Keys(r)
                    => /\ r[1] = i /\ LineOf(r) \in LinesOn(shown, i, side)
                       /\ NumberOn(LineOf(r), side) = n
           /\ \A l \in LinesOn(shown, i, side) : \E r \in RowsOfPage :
                 r[1] = i /\ LineOf(r) = l /\ <<i, side, NumberOn(l, side)>> \in Keys(r)
<1>1. ASSUME NEW r \in RowsOfPage, NEW n \in Nat, <<i, side, n>> \in Keys(r)
      PROVE  /\ r[1] = i /\ LineOf(r) \in LinesOn(shown, i, side)
             /\ NumberOn(LineOf(r), side) = n
  <2>1. r[1] = i /\ NumberOn(LineOf(r), side) = n /\ n # 0
    BY <1>1 DEF Keys
  <2>2. r[2] \in DOMAIN shown[i].hunks /\ r[3] \in DOMAIN shown[i].hunks[r[2]]
        /\ LineOf(r) = shown[i].hunks[r[2]][r[3]]
    BY <2>1 DEF RowsOfPage, LineOf
  <2> QED
    BY <2>1, <2>2, LinesOfTheDiff
<1>2. ASSUME NEW l \in LinesOn(shown, i, side)
      PROVE  \E r \in RowsOfPage :
                r[1] = i /\ LineOf(r) = l /\ <<i, side, NumberOn(l, side)>> \in Keys(r)
  <2>1. PICK a \in DOMAIN shown[i].hunks : \E b \in DOMAIN shown[i].hunks[a] :
                l = shown[i].hunks[a][b]
    BY LinesOfTheDiff
  <2>2. PICK b \in DOMAIN shown[i].hunks[a] : l = shown[i].hunks[a][b]
    BY <2>1
  <2>3. NumberOn(l, side) # 0
    BY LinesOfTheDiff
  <2>4. b \in 1..MaxLines
    <3>1. shown[i].hunks[a] \in Seq(Lines)
      <4>1. shown[i] \in FileDiffs
        BY DEF TypeInv, TypeOK
      <4>2. shown[i].hunks \in Seq(Seq(Lines))
        BY <4>1 DEF FileDiffs
      <4> QED
        BY <4>2
    <3>2. Len(shown[i].hunks[a]) <= MaxLines
      BY DEF ShownInv, IsShown
    <3> QED
      BY <3>1, <3>2, PatchAssumption
  <2> DEFINE r == <<i, a, b>>
  <2>5. r \in Rows
    BY <2>4 DEF Rows
  <2>6. r[1] = i /\ r[2] = a /\ r[3] = b
    OBVIOUS
  <2> HIDE DEF r
  <2>7. r \in RowsOfPage /\ LineOf(r) = l
    BY <2>2, <2>5, <2>6 DEF RowsOfPage, LineOf
  <2>8. <<i, side, NumberOn(l, side)>> \in Keys(r)
    BY <2>3, <2>6, <2>7 DEF Keys
  <2> QED
    BY <2>6, <2>7, <2>8
<1> QED
  BY <1>1, <1>2

(* Writing. *)

LEMMA OneMoreNote ==
    ASSUME NotesInv, phase = "done", UNCHANGED vars, NEW n, IsWritten(shown, n),
           notes' = Append(notes, n)
    PROVE  NotesInv'
<1>1. shown' = shown /\ phase' = "done"
  BY DEF vars, git
<1>2. n \in Notes /\ notes \in Seq(Notes)
  BY DEF NotesInv, IsWritten
<1>3. notes' \in Seq(Notes)
  BY <1>2
<1>4. ASSUME NEW k \in DOMAIN notes'
      PROVE  notes'[k] = n \/ (k \in DOMAIN notes /\ notes'[k] = notes[k])
  BY <1>2, <1>4
<1>5. ASSUME NEW k \in DOMAIN notes'
      PROVE  IsWritten(shown', notes'[k])
  BY <1>1, <1>4, <1>5 DEF NotesInv
<1> QED
  BY <1>1, <1>3, <1>5 DEF NotesInv

LEMMA AnnotationsAreWritten ==
    ASSUME PageInv, NEW diff \in {shown, files}, NEW kind \in Kinds, NEW i \in DOMAIN shown,
           NEW side \in Sides, NEW first \in LinesOn(diff, i, side),
           NEW last \in LinesOn(diff, i, side), Annotate(diff, kind, i, side, first, last)
    PROVE  NotesInv'
<1>1. phase = "done"
  BY DEF Annotate, Write
<1>2. diff = shown
  BY <1>1 DEF PageInv, ReadInv, ParserIsUpToDate, Headers
<1>3. /\ NumberOn(first, side) \in Nat \ {0} /\ NumberOn(last, side) \in Nat \ {0}
  BY <1>2, LinesOfTheDiff DEF PageInv, ReadInv
<1> DEFINE start == NumberOn(first, side)
           end   == NumberOn(last, side)
           meant == {<<i, l.place>> : l \in {x \in LinesOn(shown, i, side) :
                                                NumberOn(x, side) \in start..end}}
           n == [kind |-> kind, file |-> shown[i].path, side |-> side,
                 start |-> start, end |-> end, onHead |-> TRUE,
                 resolved |-> FALSE, meant |-> meant]
<1>4. Trimmed(shown[i].path) = shown[i].path /\ shown[i].path \in Paths
  <2>1. shown[i] \in FileDiffs
    BY DEF PageInv, ReadInv, TypeInv, TypeOK
  <2>2. shown[i].path \in Paths
    BY <2>1 DEF FileDiffs
  <2>3. shown[i].path = Exact(shown[i].path.name)
    BY DEF PageInv, ShownInv, IsShown
  <2>4. shown[i].path.tab = FALSE
    BY <2>3 DEF Exact
  <2> QED
    BY <2>2, <2>4 DEF Trimmed, Paths
<1>5. start <= end /\ UNCHANGED vars /\ notes' = Append(notes, n)
  BY <1>2, <1>4 DEF Annotate, Write
<1>6. meant \in SUBSET (Nat \X (Nat \X Nat))
  <2>1. \A l \in LinesOn(shown, i, side) : l.place \in Nat \X Nat
    BY LinesOfTheDiff DEF PageInv, ReadInv, Lines
  <2>2. i \in Nat
    BY DEF PageInv, ReadInv, TypeInv, TypeOK
  <2> QED
    BY <2>1, <2>2
<1>7. IsWritten(shown, n)
  <2>1. n.meant = Spanned(shown, i, n)
    BY DEF Spanned
  <2>2. n \in Notes
    BY <1>3, <1>4, <1>6 DEF Notes
  <2>3. n.start = start /\ n.end = end /\ n.onHead = TRUE /\ n.file = shown[i].path
    OBVIOUS
  <2> HIDE DEF n, start, end, meant
  <2>4. 1 <= n.start /\ n.start <= n.end
    BY <1>3, <1>5, <2>3 DEF start, end
  <2> QED
    BY <2>1, <2>2, <2>3, <2>4 DEF IsWritten
<1> HIDE DEF n
<1> QED
  BY <1>1, <1>5, <1>7, OneMoreNote DEF PageInv

LEMMA InheritedAreWritten ==
    ASSUME PageInv, NEW name \in Names, NEW side \in Sides, NEW line \in Numbers,
           Inherit(name, side, line)
    PROVE  NotesInv'
<1> DEFINE n == [kind |-> "note", file |-> Exact(name), side |-> side,
                 start |-> line, end |-> line, onHead |-> FALSE,
                 resolved |-> FALSE, meant |-> {}]
<1>1. Trimmed(Exact(name)) = Exact(name) /\ Exact(name) \in Paths
  <2>1. Exact(name) \in Paths /\ Exact(name).tab = FALSE
    BY DEF Exact, Paths
  <2> QED
    BY <2>1 DEF Trimmed, Paths
<1>2. line \in Nat /\ 1 <= line
  BY PatchAssumption DEF Numbers
<1>3. phase = "done" /\ UNCHANGED vars /\ notes' = Append(notes, n)
  BY <1>1 DEF Inherit, Write
<1>4. n \in Notes
  BY <1>1, <1>2 DEF Notes, Kinds
<1>5. n.onHead = FALSE /\ n.meant = {} /\ n.kind = "note" /\ n.start = line /\ n.end = line
  OBVIOUS
<1> HIDE DEF n
<1>6. IsWritten(shown, n)
  BY <1>2, <1>4, <1>5 DEF IsWritten
<1> QED
  BY <1>3, <1>6, OneMoreNote DEF PageInv

LEMMA ResolvedAreWritten ==
    ASSUME PageInv, NEW k \in DOMAIN notes, ResolveNote(k)
    PROVE  NotesInv'
<1> DEFINE n == notes[k]
<1> PICK m : m = [n EXCEPT !.resolved = TRUE]
  OBVIOUS
<1>1. shown' = shown /\ phase' = "done" /\ notes' = [notes EXCEPT ![k] = m]
  BY DEF ResolveNote, vars, git
<1>2. IsWritten(shown, n) /\ n \in Notes /\ notes \in Seq(Notes)
  BY DEF PageInv, NotesInv, IsWritten
<1>3. /\ m \in Notes /\ m.start = n.start /\ m.end = n.end /\ m.onHead = n.onHead
      /\ m.meant = n.meant /\ m.kind = n.kind /\ m.file = n.file /\ m.side = n.side
  BY <1>2 DEF Notes
<1>4. IsWritten(shown, m)
  <2>1. \A i : Spanned(shown, i, m) = Spanned(shown, i, n)
    BY <1>3 DEF Spanned
  <2> QED
    BY <1>2, <1>3, <2>1 DEF IsWritten
<1>5. notes' \in Seq(Notes)
  BY <1>1, <1>2, <1>3
<1>6. ASSUME NEW j \in DOMAIN notes'
      PROVE  IsWritten(shown', notes'[j])
  BY <1>1, <1>4, <1>6 DEF PageInv, NotesInv
<1> QED
  BY <1>1, <1>5, <1>6 DEF NotesInv

LEMMA NotesStart ==
    ASSUME PageInit
    PROVE  NotesInv
BY DEF PageInit, NotesInv

LEMMA ReadingLeavesTheNotes ==
    ASSUME PageInv, ReadLine \/ UNCHANGED vars, UNCHANGED notes
    PROVE  NotesInv'
<1>1. CASE notes = <<>>
  <2>1. notes' = <<>> /\ DOMAIN <<>> = {} /\ <<>> \in Seq(Notes)
    BY <1>1
  <2> QED
    BY <2>1 DEF NotesInv
<1>2. CASE notes # <<>>
  <2>1. phase = "done"
    BY <1>2 DEF PageInv, NotesInv
  <2>2. ~ReadLine
    BY <2>1 DEF ReadLine, DiffLine, BetweenEntries, ModeLine, RenameFromLine, RenameToLine,
                BinaryLine, OldNameLine, NewNameLine, Turn, HunkHeader, ContentLine,
                NoNewlineLine, EndOfDiff
  <2>3. UNCHANGED <<shown, phase, notes>>
    BY <2>2 DEF vars, git
  <2> QED
    BY <2>3 DEF PageInv, NotesInv, IsWritten, Spanned, LinesOn
<1> QED
  BY <1>1, <1>2

-----------------------------------------------------------------------------
(* The page. *)

LEMMA PageStarts ==
    ASSUME PageInit
    PROVE  PageInv
<1>1. Init
  BY DEF PageInit
<1> QED
  BY <1>1, ReadingStarts, ShownStarts, NumbersStart, NotesStart DEF PageInv

LEMMA PageIsKept ==
    ASSUME Readable, ~TypeChange, PageInv, [PageNext]_pageVars
    PROVE  PageInv'
<1>1. ReadInv' /\ ShownInv' /\ NumbersInv'
  <2>1. TypeInv /\ [ReadLine]_vars
    BY ReadingOrWriting DEF PageInv, ReadInv
  <2> QED
    BY <2>1, ReadingGoesOn, ShownIsKept, NumbersAreKept DEF PageInv
<1>2. NotesInv'
  <2>1. CASE ReadLine /\ UNCHANGED notes
    BY <2>1, ReadingLeavesTheNotes
  <2>2. CASE \E diff \in {shown, files}, kind \in Kinds, i \in DOMAIN shown, side \in Sides :
               \E first, last \in LinesOn(diff, i, side) :
                  Annotate(diff, kind, i, side, first, last)
    BY <2>2, AnnotationsAreWritten
  <2>3. CASE \E name \in Names, side \in Sides, line \in Numbers : Inherit(name, side, line)
    BY <2>3, InheritedAreWritten
  <2>4. CASE \E k \in DOMAIN notes : ResolveNote(k)
    BY <2>4, ResolvedAreWritten
  <2>5. CASE UNCHANGED pageVars
    BY <2>5, ReadingLeavesTheNotes DEF pageVars
  <2> QED
    BY <2>1, <2>2, <2>3, <2>4, <2>5 DEF PageNext
<1> QED
  BY <1>1, <1>2 DEF PageInv

LEMMA PageHolds ==
    ASSUME Readable, ~TypeChange
    PROVE  PageSpec => []PageInv
BY PageStarts, PageIsKept, PTL DEF PageSpec

(* A note on this revision is on the lines it was meant for.               *)
LEMMA NotesAreWhereTheyWereMeant ==
    ASSUME PageInv, phase = "done", NEW k \in DOMAIN notes, notes[k].onHead
    PROVE  \E i \in DOMAIN shown :
              /\ files = shown
              /\ notes[k].meant = Spanned(shown, i, notes[k])
              /\ IndexOf(notes[k].file) = i
<1>1. files = shown
  BY DEF PageInv, ReadInv, ParserIsUpToDate, Headers
<1>2. PICK i \in DOMAIN shown :
         notes[k].file = shown[i].path /\ notes[k].meant = Spanned(shown, i, notes[k])
  BY DEF PageInv, NotesInv, IsWritten
<1>3. IndexOf(notes[k].file) = i
  BY <1>1, <1>2, NamesFindTheirEntry DEF PageInv, ReadInv
<1> QED
  BY <1>1, <1>2, <1>3

LEMMA WrittenNotesFindTheirLine ==
    ASSUME PageInv
    PROVE  NotesFindTheirLine
<1> SUFFICES ASSUME phase = "done", NEW k \in DOMAIN notes,
                    notes[k].meant # {}, ~notes[k].resolved
             PROVE  LET n  == notes[k]
                        at == IF n.kind = "decision" THEN n.start ELSE n.end
                    IN  {<<r[1], LineOf(r).place>> : r \in RowsUnder(k)}
                            = {m \in n.meant : m[2][IF n.side = "old" THEN 1 ELSE 2] = at}
  BY DEF NotesFindTheirLine
<1> DEFINE n  == notes[k]
           at == IF n.kind = "decision" THEN n.start ELSE n.end
           of == IF n.side = "old" THEN 1 ELSE 2
<1>1. n \in Notes /\ 1 <= n.start /\ n.start <= n.end /\ n.onHead
  BY DEF PageInv, NotesInv, IsWritten, Notes
<1>2. PICK i \in DOMAIN shown :
         files = shown /\ n.meant = Spanned(shown, i, n) /\ IndexOf(n.file) = i
  BY <1>1, NotesAreWhereTheyWereMeant
<1>3. at \in n.start..n.end /\ at \in Nat /\ n.side \in Sides
  BY <1>1 DEF Notes
<1>4. \A r : r \in RowsUnder(k) <=> r \in RowsOfPage /\ <<i, n.side, at>> \in Keys(r)
  BY <1>2 DEF RowsUnder, Under, Drawn, KeyOf, Place
<1>5. TypeInv /\ ShownInv
  BY DEF PageInv, ReadInv
<1>6. /\ \A r \in RowsOfPage :
            <<i, n.side, at>> \in Keys(r)
               => /\ r[1] = i /\ LineOf(r) \in LinesOn(shown, i, n.side)
                  /\ NumberOn(LineOf(r), n.side) = at
      /\ \A l \in LinesOn(shown, i, n.side) : \E r \in RowsOfPage :
            r[1] = i /\ LineOf(r) = l /\ <<i, n.side, NumberOn(l, n.side)>> \in Keys(r)
  BY <1>2, <1>3, <1>5, RowsAreLines
<1>7. \A l \in LinesOn(shown, i, n.side) : NumberOn(l, n.side) = l.place[of]
  BY <1>3, <1>5, LinesOfTheDiff
<1> HIDE DEF n, at, of
<1>8. \A m : m \in n.meant <=>
         \E l \in LinesOn(shown, i, n.side) :
            NumberOn(l, n.side) \in n.start..n.end /\ m = <<i, l.place>>
  BY <1>2 DEF Spanned
<1>9. ASSUME NEW r \in RowsUnder(k)
      PROVE  /\ <<r[1], LineOf(r).place>> \in n.meant
             /\ <<r[1], LineOf(r).place>>[2][of] = at
  <2>1. /\ r[1] = i /\ LineOf(r) \in LinesOn(shown, i, n.side)
        /\ NumberOn(LineOf(r), n.side) = at
    BY <1>4, <1>6
  <2>2. <<r[1], LineOf(r).place>> \in n.meant
    BY <1>3, <1>8, <2>1
  <2>3. LineOf(r).place[of] = at
    BY <1>7, <2>1
  <2> QED
    BY <2>2, <2>3
<1>10. ASSUME NEW m \in n.meant, m[2][of] = at
       PROVE  \E r \in RowsUnder(k) : m = <<r[1], LineOf(r).place>>
  <2>1. PICK l \in LinesOn(shown, i, n.side) : m = <<i, l.place>>
    BY <1>8
  <2>2. NumberOn(l, n.side) = at
    BY <1>7, <1>10, <2>1
  <2>3. PICK r \in RowsOfPage :
           r[1] = i /\ LineOf(r) = l /\ <<i, n.side, at>> \in Keys(r)
    BY <1>6, <2>2
  <2> QED
    BY <1>4, <2>1, <2>3
<1>11. {<<r[1], LineOf(r).place>> : r \in RowsUnder(k)} = {m \in n.meant : m[2][of] = at}
  BY <1>9, <1>10
<1> QED
  BY <1>11 DEF n, at, of

LEMMA OpenNotesAreMarked ==
    ASSUME PageInv
    PROVE  MarksAreTheOpenNotes
<1> SUFFICES ASSUME phase = "done"
             PROVE  {<<r[1], LineOf(r).place>> : r \in {x \in RowsOfPage : Noted(x)}}
                       = UNION {n.meant : n \in {x \in ToSet(notes) :
                                           x.kind = "note" /\ x.onHead /\ ~x.resolved}}
  BY DEF MarksAreTheOpenNotes
<1> DEFINE open == {k \in DOMAIN notes : Open(notes[k])}
<1>1. TypeInv /\ ShownInv
  BY DEF PageInv, ReadInv
<1>2. ASSUME NEW k \in open
      PROVE  \E i \in DOMAIN shown :
                /\ IndexOf(notes[k].file) = i /\ files = shown /\ notes[k].side \in Sides
                /\ \A l \in notes[k].start..notes[k].end : l \in Nat
                /\ \A m : m \in notes[k].meant <=>
                      \E l \in LinesOn(shown, i, notes[k].side) :
                         /\ NumberOn(l, notes[k].side) \in notes[k].start..notes[k].end
                         /\ m = <<i, l.place>>
  <2>1. PICK i \in DOMAIN shown : /\ files = shown /\ IndexOf(notes[k].file) = i
                                  /\ notes[k].meant = Spanned(shown, i, notes[k])
    BY NotesAreWhereTheyWereMeant DEF Open
  <2>2. notes[k] \in Notes
    BY DEF PageInv, NotesInv, IsWritten
  <2>3. notes[k].side \in Sides /\ \A l \in notes[k].start..notes[k].end : l \in Nat
    BY <2>2 DEF Notes
  <2> QED
    BY <2>1, <2>3 DEF Spanned
<1>3. ASSUME NEW r \in RowsOfPage, Noted(r)
      PROVE  \E k \in open : <<r[1], LineOf(r).place>> \in notes[k].meant
  <2>1. PICK k \in DOMAIN notes :
           /\ Open(notes[k])
           /\ \E l \in notes[k].start..notes[k].end :
                 <<IndexOf(notes[k].file), notes[k].side, l>> \in Keys(r)
    BY <1>3 DEF Noted
  <2>2. PICK l \in notes[k].start..notes[k].end :
           <<IndexOf(notes[k].file), notes[k].side, l>> \in Keys(r)
    BY <2>1
  <2>3. k \in open
    BY <2>1
  <2>4. PICK i \in DOMAIN shown :
                /\ IndexOf(notes[k].file) = i /\ files = shown /\ notes[k].side \in Sides
                /\ l \in Nat
                /\ \A m : m \in notes[k].meant <=>
                      \E x \in LinesOn(shown, i, notes[k].side) :
                         /\ NumberOn(x, notes[k].side) \in notes[k].start..notes[k].end
                         /\ m = <<i, x.place>>
    BY <1>2, <2>3
  <2>5. /\ r[1] = i /\ LineOf(r) \in LinesOn(shown, i, notes[k].side)
        /\ NumberOn(LineOf(r), notes[k].side) = l
    BY <1>1, <2>2, <2>4, RowsAreLines
  <2>6. <<r[1], LineOf(r).place>> \in notes[k].meant
    BY <2>4, <2>5
  <2> QED
    BY <2>3, <2>6
<1>4. ASSUME NEW k \in open, NEW m \in notes[k].meant
      PROVE  \E r \in RowsOfPage : Noted(r) /\ m = <<r[1], LineOf(r).place>>
  <2>1. PICK i \in DOMAIN shown :
                /\ IndexOf(notes[k].file) = i /\ files = shown /\ notes[k].side \in Sides
                /\ \E l \in LinesOn(shown, i, notes[k].side) :
                         /\ NumberOn(l, notes[k].side) \in notes[k].start..notes[k].end
                         /\ m = <<i, l.place>>
    BY <1>2, <1>4
  <2>2. PICK l \in LinesOn(shown, i, notes[k].side) :
           /\ NumberOn(l, notes[k].side) \in notes[k].start..notes[k].end
           /\ m = <<i, l.place>>
    BY <2>1
  <2>3. PICK r \in RowsOfPage :
           /\ r[1] = i /\ LineOf(r) = l
           /\ <<i, notes[k].side, NumberOn(l, notes[k].side)>> \in Keys(r)
    BY <1>1, <2>1, RowsAreLines
  <2>4. Noted(r)
    BY <2>1, <2>2, <2>3 DEF Noted
  <2> QED
    BY <2>2, <2>3, <2>4
<1>5. \A n : n \in {x \in ToSet(notes) : x.kind = "note" /\ x.onHead /\ ~x.resolved}
         <=> \E k \in open : n = notes[k]
  BY DEF ToSet, Open
<1> HIDE DEF open
<1> QED
  BY <1>3, <1>4, <1>5

(* What was written on lines of a readable diff, with a name on one entry, *)
(* is drawn under its line and nowhere else, for every such diff and any   *)
(* number of notes. (Anchors::build, rows::build)                          *)
THEOREM NotesAreDrawnWhereTheyBelong ==
    ASSUME Readable, ~TypeChange
    PROVE  PageSpec => []NotesFindTheirLine
BY PageHolds, WrittenNotesFindTheirLine, PTL

(* And the rows that are marked are the lines of the notes that block the  *)
(* proposal, all of them and no others. (Anchors::build, open_comments)    *)
THEOREM BlockedLinesAreMarked ==
    ASSUME Readable, ~TypeChange
    PROVE  PageSpec => []MarksAreTheOpenNotes
BY PageHolds, OpenNotesAreMarked, PTL
=============================================================================
