------------------------------- MODULE LogFold -------------------------------
(***************************************************************************)
(* Every log one proposal can have, and the fold over each of them.        *)
(*                                                                         *)
(* Lines reach a note in any order: two people write to the same revision, *)
(* clones are merged, a commit's note may arrive before the ref that makes *)
(* the commit a revision.  So the machine simply grows a log, a revision   *)
(* or a line at a time, and the properties speak about what                *)
(* `ReviewLog!Rebuild` makes of it.                                        *)
(***************************************************************************)
EXTENDS ReviewLog, TLC

CONSTANTS Commits,   \* the commits that can become revisions
          First,     \* the commit of revision one
          NoteIds,   \* names of comments,
          ReplyIds,  \*   of replies
          WhyIds,    \*   and of rationales; a name is derived from the content,
          Home,      \*   so Home[n] is the one commit line n was written to
          ReplyTo,   \*   and ReplyTo[n] the one comment reply n is an answer to
          Names,     \* names of checks
          LogTimes,  \* moments a line can carry
          LogKinds,  \* the kinds of line this log contains
          MaxLines   \* bound on the lines of the whole log

ASSUME LogFoldAssumption ==
    /\ First \in Commits
    /\ Home \in [NoteIds \cup ReplyIds \cup WhyIds -> Commits]
    /\ ReplyTo \in [ReplyIds -> NoteIds]
    /\ LogTimes \subseteq Nat
    /\ MaxLines \in Nat

VARIABLES revs,   \* the commits of the proposal's revision refs, in order
          endings, \* the events that ended it, in the order of the log
          notes   \* commit -> the lines of its note

logVars == <<revs, endings, notes>>

(* What a command can have appended to the note of commit c: a comment, a  *)
(* rationale, a verdict, work and asks are about c itself; an answer names *)
(* a note of whatever revision.                                            *)
LinesFor(c) ==
    {r \in {Comment(n, c) : n \in {m \in NoteIds : Home[m] = c}}
           \cup {Reply(n, ReplyTo[n]) : n \in {m \in ReplyIds : Home[m] = c}}
           \cup {Resolve(n) : n \in NoteIds}
           \cup {Verdict(k, ok, c) : k \in Names, ok \in BOOLEAN}
           \cup {Rationale(n, c) : n \in {m \in WhyIds : Home[m] = c}}
           \cup {Chunk("chunk")}
           \cup {WorkLine(ph, c, t) : ph \in Phases, t \in LogTimes}
           \cup {Ask(c, t) : t \in LogTimes} : r.kind \in LogKinds}

LinesOf == [c \in Commits |-> LinesFor(c)]

Lines == FoldSet(LAMBDA c, n : n + Len(notes[c]), Len(endings), Commits)

LogInit ==
    /\ revs = <<First>>
    /\ endings = <<>>
    /\ notes = [c \in Commits |-> <<>>]

Revise(c) ==
    /\ c \notin ToSet(revs)
    /\ revs' = Append(revs, c)
    /\ UNCHANGED <<endings, notes>>

(* A machine ends the proposal that does not know another one did.         *)
EndWith(e) ==
    /\ Lines < MaxLines
    /\ endings' = Append(endings, e)
    /\ UNCHANGED <<revs, notes>>

Annotate(c, r) ==
    /\ Lines < MaxLines
    /\ notes' = [notes EXCEPT ![c] = Append(@, r)]
    /\ UNCHANGED <<revs, endings>>

LogNext ==
    \/ \E c \in Commits :
           \/ Revise(c)
           \/ \E r \in LinesOf[c] : Annotate(c, r)
    \/ \E e \in {Landed(0), Abandoned(0)} : EndWith(e)

LogSpec == LogInit /\ [][LogNext]_logVars

-----------------------------------------------------------------------------
events == [c \in Commits |-> IF c = First THEN <<Opened("main", 0)>> \o endings ELSE <<>>]

Read(someNotes) == Rebuild(revs, events, someNotes)
Folded          == Read(notes)

(* Whether a log can be read at all, said without folding it: revisions are*)
(* distinct, a line about code is about a revision of the proposal, and an *)
(* answer names a comment on its own revision or on an earlier one.        *)
AllNamed ==
    /\ IsInjective(revs)
    /\ \A i \in DOMAIN revs : \A r \in ToSet(notes[revs[i]]) :
          /\ r.kind \in {"comment", "rationale", "check"} => r.rev \in ToSet(revs)
          /\ IsAnswer(r) => \E j \in 1..i : \E s \in ToSet(notes[revs[j]]) :
                                 s.kind = "comment" /\ s.id = r.target

(* Reading a log succeeds exactly on the readable ones: the order in which *)
(* snapshot.rs walks the notes and `fold` defers the answers refuses no    *)
(* line that names something the log contains, and accepts none that does  *)
(* not.                                                                    *)
FoldAgrees == Folded.ok <=> AllNamed

(* The ways the lines of commit c could also have arrived.                 *)
Shuffled(c) ==
    {[notes EXCEPT ![c] = [i \in DOMAIN @ |-> @[f[i]]]] :
        f \in Bijection(DOMAIN notes[c], DOMAIN notes[c])}

(* Two machines that hold the same lines agree on what is open, whatever   *)
(* order the lines arrived in: shuffling any note changes neither whether  *)
(* the log reads nor which notes stand between the proposal and the trunk. *)
ArrivalOrderIsForgotten ==
    \A here \in {Folded}, c \in Commits :
        \A there \in {Read(other) : other \in Shuffled(c)} :
            /\ there.ok = here.ok
            /\ here.ok => /\ Conversation(there) = Conversation(here)
                          /\ OpenComments(there) = OpenComments(here)

Dated(c) == {i \in DOMAIN notes[c] : notes[c][i].kind \in {"work", "dispatch"}}

(* The same for the work log, as long as no two lines share a moment:      *)
(* position in the note must not decide who is on a proposal, nor whether  *)
(* it waits for an agent.                                                  *)
WorkOrderIsForgotten ==
    \A here \in {Folded}, c \in Commits :
        (/\ here.ok
         /\ \A i, j \in Dated(c) : notes[c][i].at = notes[c][j].at => i = j)
        => \A there \in {Read(other) : other \in Shuffled(c)} :
              /\ Activity(there) = Activity(here)
              /\ Dispatched(there) = Dispatched(here)

=============================================================================
