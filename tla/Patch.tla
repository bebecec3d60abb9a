-------------------------------- MODULE Patch --------------------------------
(***************************************************************************)
(* crates/patch: what `parse` makes of the output of                       *)
(* `git diff --no-color -M`, a line at a time.  Every action is one line   *)
(* of the diff: what lets git print it there, and what one turn of the     *)
(* loop of `parse` does with it.  `shown` is the diff git means, in the    *)
(* shape the parser gives its own.                                         *)
(*                                                                         *)
(* A line is told from the others by the place it has in its two files.    *)
(* Of its text only what the parser's prefixes could mistake it for is     *)
(* kept.  Index, similarity and mode-change lines match no prefix, fall    *)
(* through and are left out; so are names git would quote, and names that  *)
(* hold " b/".                                                             *)
(***************************************************************************)
EXTENDS Integers, Sequences, SequencesExt

CONSTANTS
    Names,       \* the paths of the repository
    Spaced,      \* those with a space in them
    Nowhere,     \* /dev/null
    Scrap,       \* what is left of a line of code read as a name
    Beginnings,  \* how the text of a line may begin
    TypeChange,  \* whether a file may turn into a link: two entries, one name
    MaxFiles,    \* bound on the entries of a diff
    MaxHunks,    \* bound on the hunks of an entry
    MaxLines,    \* bound on the lines of a diff
    MaxGap       \* bound on the lines skipped before a hunk

ASSUME PatchAssumption ==
    /\ Spaced \subseteq Names
    /\ Nowhere \notin Names
    /\ Beginnings \subseteq {"plain", "dashes", "pluses"}
    /\ TypeChange \in BOOLEAN
    /\ {MaxFiles, MaxHunks, MaxLines, MaxGap} \subseteq Nat

VARIABLES
    files,     \* Patch::files, as far as they are read
    oldLine,   \* the number the next line of the old side gets
    newLine,   \* and of the new side
    refused,   \* whether `parse` has given up
    shown,     \* the diff git is printing, as far as it is printed
    phase,     \* which line git prints next
    entry,     \* the entry it is printing
    oldAt,     \* the line of the old file it has come to
    newAt,     \* and of the new file
    left,      \* what it still has to print of the hunk
    printed,   \* how many lines of code it has printed
    ended      \* whether it has just said that a file ends without a newline

parser == <<files, oldLine, newLine, refused>>
git    == <<shown, phase, entry, oldAt, newAt, left, printed, ended>>
vars   == <<parser, git>>

LineKinds == {"Context", "Added", "Removed"}
Changes   == {"Modified", "Added", "Deleted", "Renamed"}
Bodies    == {"nothing", "binary", "text"}
Phases    == {"entry", "mode", "rename from", "rename to", "body",
              "new name", "hunk", "line", "done"}

(* A path as it is spelled: git ends a name that has a space in it with a  *)
(* tab, in the two lines before the hunks and nowhere else.                *)
Paths     == [name : Names \cup {Nowhere, Scrap}, tab : BOOLEAN]
Exact(n)  == [name |-> n, tab |-> FALSE]
Before(n) == [name |-> n, tab |-> n \in Spaced]

(* The number a line has not got, on the side it is not on, is 0.          *)
Lines     == [kind : LineKinds, old : Nat, new : Nat, place : Nat \X Nat]
FileDiffs == [path : Paths, change : Changes, binary : BOOLEAN, hunks : Seq(Seq(Lines))]

Entries ==
    {e \in [from : Names, to : Names, change : Changes, body : Bodies] :
        (e.change = "Renamed") = (e.from # e.to)}

On(kind, side, number) ==
    IF kind = (IF side = "old" THEN "Added" ELSE "Removed") THEN 0 ELSE number

(* How far a line of that kind takes a side on.                            *)
Past(kind, side, number) ==
    IF kind = (IF side = "old" THEN "Added" ELSE "Removed") THEN number ELSE number + 1

LineAt(kind, old, new, place) ==
    [kind |-> kind, old |-> On(kind, "old", old), new |-> On(kind, "new", new),
     place |-> place]

PushTo(fs, line) ==
    [fs EXCEPT ![Len(fs)].hunks[Len(fs[Len(fs)].hunks)] = Append(@, line)]

-----------------------------------------------------------------------------
(* What the parser does with a line, by the prefix it matches first.       *)

TakeEntry(to) ==
    /\ files' = Append(files, [path |-> Exact(to), change |-> "Modified",
                               binary |-> FALSE, hunks |-> <<>>])
    /\ UNCHANGED <<oldLine, newLine, refused>>

(* start_of: a range of no lines starts at the line after it.              *)
StartOf(start, count) == IF count = 0 THEN start + 1 ELSE start

TakeHunk(old, new) ==
    /\ oldLine' = StartOf(old.start, old.count)
    /\ newLine' = StartOf(new.start, new.count)
    /\ files' = [files EXCEPT ![Len(files)].hunks = Append(@, <<>>)]
    /\ UNCHANGED refused

TakeChange(change) ==
    /\ files' = [files EXCEPT ![Len(files)].change = change]
    /\ UNCHANGED <<oldLine, newLine, refused>>

TakeRenameTo(to) ==
    /\ files' = [files EXCEPT ![Len(files)].path = Exact(to)]
    /\ UNCHANGED <<oldLine, newLine, refused>>

TakeOldName(path) ==
    /\ files' = IF Last(files).change = "Deleted"
                THEN [files EXCEPT ![Len(files)].path = path] ELSE files
    /\ UNCHANGED <<oldLine, newLine, refused>>

TakeNewName(path) ==
    /\ files' = IF path.name # Nowhere
                THEN [files EXCEPT ![Len(files)].path = path] ELSE files
    /\ UNCHANGED <<oldLine, newLine, refused>>

TakeBinary ==
    /\ files' = [files EXCEPT ![Len(files)].binary = TRUE]
    /\ UNCHANGED <<oldLine, newLine, refused>>

(* push_hunk_line, or the refusal of a line before any hunk.               *)
TakeLine(kind, place) ==
    IF Last(files).hunks = <<>>
    THEN refused' = TRUE /\ UNCHANGED <<files, oldLine, newLine>>
    ELSE /\ files' = PushTo(files, LineAt(kind, oldLine, newLine, place))
         /\ oldLine' = Past(kind, "old", oldLine)
         /\ newLine' = Past(kind, "new", newLine)
         /\ UNCHANGED refused

TakeMarkerAsContext ==
    /\ oldLine' = oldLine + 1 /\ newLine' = newLine + 1
    /\ UNCHANGED <<files, refused>>

(* `\ No newline at end of file` is no line, in a hunk or out of one.      *)
TakeMarker == UNCHANGED parser

(* The prefixes are tried on a line of a hunk too, marker and all.         *)
TakeContent(kind, begins, place) ==
    CASE kind = "Removed" /\ begins = "dashes" -> TakeOldName(Exact(Scrap))
      [] kind = "Added" /\ begins = "pluses"   -> TakeNewName(Exact(Scrap))
      [] OTHER                                 -> TakeLine(kind, place)

-----------------------------------------------------------------------------
(* The lines of a diff, in the order git prints them. *)

Init ==
    /\ files = <<>> /\ shown = <<>>
    /\ oldLine = 0 /\ newLine = 0
    /\ refused = FALSE
    /\ phase = "entry"
    /\ entry = <<>>
    /\ oldAt = 1 /\ newAt = 1
    /\ left = <<>>
    /\ printed = 0
    /\ ended = FALSE

(* An entry is over when its body is, or after any of its hunks.           *)
BetweenEntries ==
    \/ phase = "entry"
    \/ phase = "body" /\ entry.body = "nothing"
    \/ phase = "hunk" /\ Last(shown).hunks # <<>>

(* A name is on one entry, except that a file which becomes a link is      *)
(* deleted and added again.                                                *)
MayFollow(e) ==
    \A i \in DOMAIN shown :
        \/ shown[i].path.name # e.to
        \/ /\ TypeChange
           /\ shown[i].change = "Deleted"
           /\ e.change = "Added"

DiffLine(e) ==
    /\ ~refused /\ BetweenEntries
    /\ Len(shown) < MaxFiles
    /\ MayFollow(e)
    /\ entry' = e
    /\ phase' = CASE e.change = "Modified" -> "body"
                  [] e.change = "Renamed"  -> "rename from"
                  [] OTHER                 -> "mode"
    /\ shown' = Append(shown, [path |-> Exact(e.to), change |-> e.change,
                               binary |-> e.body = "binary", hunks |-> <<>>])
    /\ oldAt' = 1 /\ newAt' = 1
    /\ ended' = FALSE
    /\ TakeEntry(e.to)
    /\ UNCHANGED <<left, printed>>

Turn(from, to) ==
    /\ ~refused
    /\ phase = from /\ phase' = to
    /\ UNCHANGED <<shown, entry, oldAt, newAt, left, printed, ended>>

ModeLine       == Turn("mode", "body") /\ TakeChange(entry.change)
RenameFromLine == Turn("rename from", "rename to") /\ TakeChange("Renamed")
RenameToLine   == Turn("rename to", "body") /\ TakeRenameTo(entry.to)

BinaryLine == Turn("body", "entry") /\ entry.body = "binary" /\ TakeBinary

OldNameLine ==
    /\ Turn("body", "new name")
    /\ entry.body = "text"
    /\ TakeOldName(IF entry.change = "Added" THEN Exact(Nowhere) ELSE Before(entry.from))

NewNameLine ==
    /\ Turn("new name", "hunk")
    /\ TakeNewName(IF entry.change = "Deleted" THEN Exact(Nowhere) ELSE Before(entry.to))

(* A hunk changes something.                                               *)
Hunks == {kinds \in BoundedSeq(LineKinds, MaxLines) :
              \E i \in DOMAIN kinds : kinds[i] # "Context"}

(* The hunks git can print of the entry: a new file has nothing else, and  *)
(* one hunk.                                                               *)
MayPrint(kinds, gap) ==
    /\ entry.change = "Added" => ToSet(kinds) = {"Added"} /\ gap = 0
    /\ entry.change = "Deleted" => ToSet(kinds) = {"Removed"} /\ gap = 0
    /\ Last(shown).hunks # <<>> =>
          gap > 0 /\ entry.change \notin {"Added", "Deleted"}

(* The range a header gives: of no lines, it names the line before.        *)
RangeOf(at, kinds, absent) ==
    LET count == Len(SelectSeq(kinds, LAMBDA k : k # absent))
    IN  [start |-> IF count = 0 THEN at - 1 ELSE at, count |-> count]

HunkHeader(kinds, gap) ==
    /\ ~refused
    /\ phase = "hunk"
    /\ Len(Last(shown).hunks) < MaxHunks
    /\ MayPrint(kinds, gap)
    /\ printed + Len(kinds) <= MaxLines
    /\ printed' = printed + Len(kinds)
    /\ phase' = "line"
    /\ oldAt' = oldAt + gap
    /\ newAt' = newAt + gap
    /\ left' = kinds
    /\ shown' = [shown EXCEPT ![Len(shown)].hunks = Append(@, <<>>)]
    /\ ended' = FALSE
    /\ TakeHunk(RangeOf(oldAt', kinds, "Added"), RangeOf(newAt', kinds, "Removed"))
    /\ UNCHANGED entry

ContentLine(begins) ==
    LET kind  == Head(left)
        place == <<oldAt, newAt>>
    IN  /\ ~refused
        /\ phase = "line"
        /\ left' = Tail(left)
        /\ phase' = IF Len(left) = 1 THEN "hunk" ELSE "line"
        /\ shown' = PushTo(shown, LineAt(kind, oldAt, newAt, place))
        /\ oldAt' = Past(kind, "old", oldAt)
        /\ newAt' = Past(kind, "new", newAt)
        /\ ended' = FALSE
        /\ TakeContent(kind, begins, place)
        /\ UNCHANGED <<entry, printed>>

(* Said after the last line of a side.                                     *)
NoNewlineLine ==
    /\ ~refused
    /\ phase \in {"line", "hunk"} /\ ~ended
    /\ Last(shown).hunks # <<>> /\ Last(Last(shown).hunks) # <<>>
    /\ \E absent \in {"Added", "Removed"} : ToSet(left) \subseteq {absent}
    /\ ended' = TRUE
    /\ TakeMarker
    /\ UNCHANGED <<shown, phase, entry, oldAt, newAt, left, printed>>

EndOfDiff ==
    /\ ~refused /\ BetweenEntries
    /\ phase' = "done"
    /\ UNCHANGED <<parser, shown, entry, oldAt, newAt, left, printed, ended>>

ReadLine ==
    \/ \E e \in Entries : DiffLine(e)
    \/ ModeLine \/ RenameFromLine \/ RenameToLine
    \/ BinaryLine \/ OldNameLine \/ NewNameLine
    \/ \E kinds \in Hunks, gap \in 0..MaxGap : HunkHeader(kinds, gap)
    \/ \E begins \in Beginnings : ContentLine(begins)
    \/ NoNewlineLine
    \/ EndOfDiff

Spec == Init /\ [][ReadLine]_vars

-----------------------------------------------------------------------------
(* The variables keep their types.                                         *)
TypeOK ==
    /\ files \in Seq(FileDiffs) /\ shown \in Seq(FileDiffs)
    /\ oldLine \in Nat /\ newLine \in Nat /\ refused \in BOOLEAN
    /\ phase \in Phases
    /\ entry \in Entries \cup {<<>>}
    /\ oldAt \in Nat \ {0} /\ newAt \in Nat \ {0}
    /\ left \in Seq(LineKinds)
    /\ printed \in Nat
    /\ ended \in BOOLEAN

(* No name and no line that git spells so that the parser takes it for     *)
(* something else.                                                         *)
Readable == Spaced = {} /\ Beginnings = {"plain"}

(* What git prints is never refused, and when an entry is over the parser  *)
(* has it as git means it: its name, what became of it, and every line of  *)
(* every hunk with the numbers it has in the two files.  Until then it has *)
(* at least every line printed so far.  (patch/src/lib.rs, parse)          *)
ReadsWhatGitShows ==
    /\ ~refused
    /\ Len(files) = Len(shown)
    /\ \A i \in DOMAIN shown : files[i].hunks = shown[i].hunks
    /\ BetweenEntries \/ phase = "done" => files = shown
=============================================================================
