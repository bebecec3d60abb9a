--------------------------------- MODULE Page ---------------------------------
(***************************************************************************)
(* Where the notes of a proposal are on its page: the rows of              *)
(* crates/web/src/model/rows.rs, built from the diff that Patch has read,  *)
(* and the lookups of model/threads.rs that put the threads, the author's  *)
(* explanations and the decisions on them.                                 *)
(*                                                                         *)
(* A page is a function of the diff and the log.  A note says a name, a    *)
(* side and a span of numbers; `meant` remembers, for the properties only, *)
(* which lines of the diff its writer had in mind, if they were of this    *)
(* diff.                                                                   *)
(***************************************************************************)
EXTENDS Patch, FiniteSetsExt

CONSTANTS MaxNotes  \* bound on the notes

ASSUME PageAssumption == MaxNotes \in Nat

VARIABLE notes  \* what was written on lines, oldest first

pageVars == <<vars, notes>>

Sides == {"old", "new"}
Kinds == {"note", "why", "decision"}

(* Anchor, with what becomes of the note: a decision and an explanation    *)
(* are on no revision and are never resolved.                              *)
Notes == [kind : Kinds, file : Paths, side : Sides, start : Nat, end : Nat,
          onHead : BOOLEAN, resolved : BOOLEAN, meant : SUBSET (Nat \X (Nat \X Nat))]

-----------------------------------------------------------------------------
(* The page. *)

(* A row is <<file, hunk, line>>.                                          *)
Rows == {<<i, h, j>> : i \in DOMAIN files,
                       h \in UNION {DOMAIN files[i].hunks : i \in DOMAIN files},
                       j \in 1..MaxLines}
RowsOfPage == {r \in Rows : r[2] \in DOMAIN files[r[1]].hunks
                            /\ r[3] \in DOMAIN files[r[1]].hunks[r[2]]}
LineOf(r)  == files[r[1]].hunks[r[2]][r[3]]

(* Page::build maps a path to a file: of two with one path, to the later.  *)
IndexOf(path) ==
    LET has == {i \in DOMAIN files : files[i].path = path}
    IN  IF has = {} THEN 0 ELSE Max(has)

NumberOn(line, side) == IF side = "old" THEN line.old ELSE line.new

KeysOfNewSide(r)    == {<<r[1], "new", LineOf(r).new>>}
KeysOnEitherSide(r) == {<<r[1], side, n>> : side \in Sides, n \in {LineOf(r).old, LineOf(r).new}}

(* A row answers to its number on each side it is on.                      *)
Keys(r) == {<<r[1], side, NumberOn(LineOf(r), side)>> : side \in Sides}
           \ {<<r[1], side, 0>> : side \in Sides}

(* A decision is at the first line of its span, the others at the last.    *)
Place(n) == IF n.kind = "decision" THEN n.start ELSE n.end
KeyOf(n) == <<IndexOf(n.file), n.side, Place(n)>>

(* A resolved thread leaves the diff.                                      *)
Drawn(n) == ~(n.kind = "note" /\ n.resolved)

(* What is drawn under a row.                                              *)
Under(r) == {k \in DOMAIN notes : Drawn(notes[k]) /\ KeyOf(notes[k]) \in Keys(r)}

(* open_comments, whose lines are marked.                                  *)
Open(n)  == n.kind = "note" /\ n.onHead /\ ~n.resolved
NotedAtTheEnd(r) ==
    \E k \in DOMAIN notes : Open(notes[k]) /\ KeyOf(notes[k]) \in Keys(r)
Noted(r) ==
    \E k \in DOMAIN notes :
        /\ Open(notes[k])
        /\ \E l \in notes[k].start..notes[k].end :
              <<IndexOf(notes[k].file), notes[k].side, l>> \in Keys(r)

RowsUnder(k) == {r \in RowsOfPage : k \in Under(r)}

-----------------------------------------------------------------------------
(* Writing. *)

(* FilePath::parse trims what it is given.                                 *)
Trimmed(path) == [path EXCEPT !.tab = FALSE]

(* Anchor::new(FilePath::parse(file), Span::new(side, start, end)), which  *)
(* refuses a span that starts at no line or ends before it starts.         *)
Write(kind, path, side, start, end, onHead, meant) ==
    /\ phase = "done" /\ ~refused
    /\ Len(notes) < MaxNotes
    /\ 1 <= start /\ start <= end
    /\ notes' = Append(notes, [kind |-> kind, file |-> Trimmed(path), side |-> side,
                               start |-> start, end |-> end, onHead |-> onHead,
                               resolved |-> FALSE, meant |-> meant])
    /\ UNCHANGED vars

(* The lines of entry i of a diff that are on that side.                   *)
LinesOn(diff, i, side) ==
    {l \in UNION {ToSet(h) : h \in ToSet(diff[i].hunks)} : NumberOn(l, side) # 0}

(* Lines of the diff are named as git shows it (from the command line, by  *)
(* an agent) or as the page does (by its form).                            *)
Annotate(diff, kind, i, side, first, last) ==
    LET start == NumberOn(first, side)
        end   == NumberOn(last, side)
    IN  Write(kind, diff[i].path, side, start, end, TRUE,
              {<<i, l.place>> : l \in {x \in LinesOn(diff, i, side) :
                                          NumberOn(x, side) \in start..end}})

(* A note that was left on an earlier revision, on whatever that one had.  *)
Inherit(name, side, line) ==
    Write("note", Exact(name), side, line, line, FALSE, {})

ResolveNote(k) ==
    /\ phase = "done"
    /\ notes[k].kind = "note" /\ ~notes[k].resolved
    /\ notes' = [notes EXCEPT ![k].resolved = TRUE]
    /\ UNCHANGED vars

Numbers == 1..(MaxHunks * MaxGap + MaxLines)

PageInit == Init /\ notes = <<>>

PageNext ==
    \/ ReadLine /\ UNCHANGED notes
    \/ /\ phase = "done"
       /\ \E diff \in {shown, files}, kind \in Kinds, i \in DOMAIN shown, side \in Sides :
            \E first, last \in LinesOn(diff, i, side) :
               Annotate(diff, kind, i, side, first, last)
    \/ \E name \in Names, side \in Sides, line \in Numbers : Inherit(name, side, line)
    \/ \E k \in DOMAIN notes : ResolveNote(k)

PageSpec == PageInit /\ [][PageNext]_pageVars

-----------------------------------------------------------------------------
(* What was written on lines of the diff is drawn under the last of them,  *)
(* a decision under the first, and nowhere else.                           *)
(* (Anchors::build and rows::build)                                        *)
NotesFindTheirLine ==
    phase = "done" =>
        \A k \in {x \in DOMAIN notes : notes[x].meant # {} /\ ~notes[x].resolved} :
            LET n  == notes[k]
                at == IF n.kind = "decision" THEN n.start ELSE n.end
            IN  {<<r[1], LineOf(r).place>> : r \in RowsUnder(k)}
                    = {m \in n.meant : m[2][IF n.side = "old" THEN 1 ELSE 2] = at}

(* A thread is under one row at most, whatever lines it names: the stream  *)
(* replaces it where it is.  (rows::build)                                 *)
OneRowPerThread ==
    phase = "done" => \A k \in DOMAIN notes : Cardinality(RowsUnder(k)) <= 1

(* The rows that are marked are the lines of the notes that block the      *)
(* proposal, all of them and no others.  (Anchors::build, open_comments)   *)
MarksAreTheOpenNotes ==
    phase = "done" =>
        {<<r[1], LineOf(r).place>> : r \in {x \in RowsOfPage : Noted(x)}}
            = UNION {n.meant : n \in {x \in ToSet(notes) :
                                        x.kind = "note" /\ x.onHead /\ ~x.resolved}}
=============================================================================
