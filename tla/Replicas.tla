------------------------------- MODULE Replicas -------------------------------
(***************************************************************************)
(* One proposal in several clones of a repository.  Its two logs are the   *)
(* notes on one commit, each in a notes ref with a history of its own, and *)
(* what moves them is git: `git notes append` for every line this program  *)
(* writes (crates/gitstore/src/notes.rs), fetching and merging for what the*)
(* others wrote, by the strategy Store::configure asks for                 *)
(* (crates/app/src/store.rs).                                              *)
(*                                                                         *)
(* A command is three steps: it reads the log and decides on a line, git   *)
(* reads the note, and git writes the whole of it back with the line at    *)
(* the end; nothing compares the ref with what either of them read.  A     *)
(* merge is one step.  Fetching and merging is what people do with git:    *)
(* the program never does.                                                 *)
(*                                                                         *)
(* Abstracted: one commit, so one revision; the moments of all the clones  *)
(* come from one clock; work lines and asks (LogFold has them in every     *)
(* order) are not written here.                                            *)
(***************************************************************************)
EXTENDS Wire, ReviewLog

CONSTANTS Clones,
          Proposal,    \* the name of the proposal
          Rev,         \* the commit of its one revision
          Body,        \* what a note says
          Author,      \* who writes, in every clone
          Check,       \* the name of a check
          Trunk,       \* where the proposal was opened to land
          Written,     \* the kinds of line these clones write
          Alphabet,    \* the texts that occur in lines, in ascending order
          MaxNow,      \* bound on the clock
          MaxAppends,  \* bound on the lines written
          MaxMerges    \* bound on the merges that are not fast-forwards

Times == 0..MaxNow

(* An annotation and its resolution, each named after what is inside it.   *)
CommentAt(t) == WithId([kind |-> "comment", id |-> Absent, rev |-> Rev,
                        anchor |-> CHOOSE a \in Anchors : TRUE, body |-> Body,
                        author |-> Author, at |-> t])

ResolutionAt(note, t) == WithId([kind |-> "resolve", id |-> Absent, target |-> note,
                                 author |-> Author, at |-> t])

Remarks   == {CommentAt(t) : t \in Times}
Settlings == {ResolutionAt(r.id, t) : r \in Remarks, t \in Times}

(* A digest is twelve characters, so it is a name (from_derived); it may   *)
(* be the digest of two lines.                                             *)
ASSUME ReplicasAssumption ==
    /\ Rev \in Shas /\ Trunk \in Branches /\ Body \in Said /\ Author \in Said /\ Check \in Said
    /\ Anchors # {} /\ Proposal \in Ids
    /\ {MaxNow, MaxAppends, MaxMerges} \subseteq Nat
    /\ \A r \in Remarks \cup Settlings : r.id \in Ids
    /\ Alphabet \in Seq(STRING) /\ {"abandoned", "landed"} \subseteq ToSet(Alphabet)
    /\ \A i, j \in DOMAIN Alphabet :
          Alphabet[i] = "abandoned" /\ Alphabet[j] = "landed" => i < j

Logs == {"records", "events"}

VARIABLES versions,  \* log -> every version any clone made: lines and ancestors
          tip,       \* clone, log -> the version its ref is at
          fetched,   \* clone, log -> the version it knows of another clone
          deciding,  \* the commands that have decided on a line: no git runs yet
          writing,   \* the appends that have read their note and not written it
          risked,    \* log -> lines an append under way did not read
          late,      \* endings appended to a note that had one already
          now,       \* the time
          appends, merges

vars == <<versions, tip, fetched, deciding, writing, risked, late, now, appends, merges>>

LinesAt(log, v) == versions[log][v].lines
History(log, v) == versions[log][v].past \cup {v}
LinesIn(c, log) == LinesAt(log, tip[c][log])

ParsedEvents(note) == [i \in DOMAIN note |-> ParseEvent(note[i])]
ParsedLines(note)  == [i \in DOMAIN note |-> ParseLine(note[i])]

(* Refusing a log for a kind of line a newer build wrote.                  *)
ReadLogsStrictly(events, records) ==
    LET e == UnknownIsFatal(ParsedEvents(events))
        r == UnknownIsFatal(ParsedLines(records))
    IN  IF e.ok /\ r.ok
        THEN Rebuild(<<Rev>>, [c \in {Rev} |-> e.records], [c \in {Rev} |-> r.records])
        ELSE Unreadable

(* A snapshot of what one version of each log says.                        *)
ReadLogs(events, records) ==
    LET e == ReadNote(ParsedEvents(events))
        r == ReadNote(ParsedLines(records))
    IN  IF e.ok /\ r.ok
        THEN Rebuild(<<Rev>>, [c \in {Rev} |-> e.records], [c \in {Rev} |-> r.records])
        ELSE Unreadable

Review(c) == ReadLogs(LinesIn(c, "events"), LinesIn(c, "records"))

-----------------------------------------------------------------------------
(* The lines the commands write, each from the constructor that makes it.  *)

NewComment          == CommentAt(now)
NewResolution(note) == ResolutionAt(note, now)

NewVerdict(passed) == [kind |-> "check", name |-> Check, passed |-> passed, rev |-> Rev,
                       author |-> Author, at |-> now]

NewEnding(kind) == [kind |-> kind, id |-> Proposal, author |-> Author, at |-> now]

NewRetarget(b) == [kind |-> "retargeted", id |-> Proposal, target |-> b,
                   author |-> Author, at |-> now]

(* A newer build signs and dates its lines, and gives them a kind this one *)
(* has never heard of.                                                     *)
NewerRecord == [Plain EXCEPT !.kind = "newer", !.author = Author, !.at = now]
NewerEvent  == [PlainEvent EXCEPT !.kind = "newer", !.id = Proposal, !.author = Author,
                                  !.at = now]

RecordsOf(p) == {NewComment} \cup {NewResolution(r.id) : r \in Conversation(p)}
                \cup {NewVerdict(ok) : ok \in BOOLEAN}

EventsOf(p) == {NewEnding("abandoned")} \cup {NewRetarget(b) : b \in Branches \ {p.target}}
               \cup {NewEnding("landed") : q \in {q \in {p} : Landable(q, {})}}

(* What a clone that reads this review can append: nothing once it ended.  *)
Writable(p) ==
    IF ~p.ok \/ p.state # "open" THEN {}
    ELSE {w \in {[log |-> "records", line |-> ToLine(r)] : r \in RecordsOf(p)}
                \cup {[log |-> "events", line |-> EventLine(e)] : e \in EventsOf(p)}
                \cup {[log |-> "records", line |-> NewerRecord], [log |-> "events", line |-> NewerEvent]} :
            w.line.kind \in Written}

-----------------------------------------------------------------------------
(* git. *)

(* Lines are compared as text, so by the first field that differs.  A name *)
(* that is a hash comes right after the kind, so lines that have one may   *)
(* be in any order.                                                        *)
Rank(text) == IF text \in ToSet(Alphabet) THEN CHOOSE i \in DOMAIN Alphabet : Alphabet[i] = text
              ELSE 0

Key(line) ==
    CASE line.kind \in Named       -> <<Rank(line.kind), 0, 0, 0>>
      [] "status" \in DOMAIN line  -> <<Rank(line.kind), Rank(line.name), Rank(line.status), line.at>>
      [] OTHER                     -> <<Rank(line.kind), Rank(line.target), 0, line.at>>

TextBefore(one, other) ==
    \E i \in 1..4 : /\ Key(one)[i] < Key(other)[i]
                    /\ \A j \in 1..(i - 1) : Key(one)[j] = Key(other)[j]

(* The strategy git has when nobody configures one for notes: ours wins.   *)
Ours(mine, theirs) == {mine}

CatSortUniq(mine, theirs) ==
    LET both == ToSet(mine) \cup ToSet(theirs)
    IN  {s \in SetToSeqs(both) : ~\E i, j \in DOMAIN s : i < j /\ TextBefore(s[j], s[i])}

(* A note that one side left alone is the other side's.                    *)
MergeNotes(base, mine, theirs) ==
    CASE theirs \in {base, mine} -> {mine}
      [] mine = base -> {theirs}
      [] OTHER -> CatSortUniq(mine, theirs)

(* Lines of a note that is about to change under an append of its clone.   *)
AtRisk(c, log, lines, others) ==
    {l \in ToSet(lines) : \E w \in others : w.clone = c /\ w.log = log /\ l \notin ToSet(w.read)}

Put(c, log, lines, past, others) ==
    /\ versions' = [versions EXCEPT ![log] = Append(@, [lines |-> lines, past |-> past])]
    /\ tip' = [tip EXCEPT ![c][log] = Len(versions[log]) + 1]
    /\ risked' = [risked EXCEPT ![log] = @ \cup AtRisk(c, log, lines, others)]

(* Of commands that are to write the same line, which one this is.         *)
Turn(c, line) ==
    Max({0} \cup {d.turn : d \in {e \in deciding \cup writing : e.clone = c /\ e.line = line}}) + 1

(* A command loads the proposal and asks it for the line it will write.    *)
Decide(c) ==
    /\ appends < MaxAppends
    /\ \E what \in Writable(Review(c)) :
          deciding' = deciding \cup {[clone |-> c, log |-> what.log, line |-> what.line,
                                      turn |-> Turn(c, what.line)]}
    /\ appends' = appends + 1
    /\ UNCHANGED <<versions, tip, fetched, writing, risked, late, now, merges>>

(* Repo::note_append, the reading half: of the note as it is by then.      *)
BeginAppend(d) ==
    /\ writing' = writing \cup {[clone |-> d.clone, log |-> d.log, line |-> d.line,
                                 turn |-> d.turn, read |-> LinesIn(d.clone, d.log)]}
    /\ deciding' = deciding \ {d}
    /\ UNCHANGED <<versions, tip, fetched, risked, late, now, appends, merges>>

(* The writing half, onto whatever the ref has become.                     *)
FinishAppend(w) ==
    /\ Put(w.clone, w.log, Append(w.read, w.line), History(w.log, tip[w.clone][w.log]),
           writing \ {w})
    /\ writing' = writing \ {w}
    /\ late' = late \cup {l \in {w.line} : IsEnding(l) /\ \E e \in ToSet(w.read) : IsEnding(e)}
    /\ UNCHANGED <<fetched, deciding, now, appends, merges>>

Fetch(c, d) ==
    /\ c # d /\ fetched[c] # tip[d]
    /\ fetched' = [fetched EXCEPT ![c] = tip[d]]
    /\ UNCHANGED <<versions, tip, deciding, writing, risked, late, now, appends, merges>>

FastForward(c, log) ==
    LET theirs == fetched[c][log]
    IN  /\ tip[c][log] \in versions[log][theirs].past
        /\ tip' = [tip EXCEPT ![c][log] = theirs]
        /\ risked' = [risked EXCEPT ![log] = @ \cup AtRisk(c, log, LinesAt(log, theirs), writing)]
        /\ UNCHANGED <<versions, fetched, deciding, writing, late, now, appends, merges>>

Merge(c, log) ==
    LET mine   == tip[c][log]
        theirs == fetched[c][log]
        base   == Max(History(log, mine) \cap History(log, theirs))
    IN  /\ merges < MaxMerges
        /\ mine \notin History(log, theirs) /\ theirs \notin History(log, mine)
        /\ \E lines \in MergeNotes(LinesAt(log, base), LinesAt(log, mine), LinesAt(log, theirs)) :
              Put(c, log, lines, History(log, mine) \cup History(log, theirs), writing)
        /\ merges' = merges + 1
        /\ UNCHANGED <<fetched, deciding, writing, late, now, appends>>

Tick == /\ now < MaxNow
        /\ now' = now + 1
        /\ UNCHANGED <<versions, tip, fetched, deciding, writing, risked, late, appends, merges>>

Opening == EventLine([kind |-> "opened", id |-> Proposal, title |-> Body, target |-> Trunk,
                      base |-> Rev, author |-> Author, at |-> 0])

Init ==
    /\ versions = [log \in Logs |-> <<[lines |-> IF log = "events" THEN <<Opening>> ELSE <<>>,
                                       past |-> {}]>>]
    /\ tip = [c \in Clones |-> [log \in Logs |-> 1]]
    /\ fetched = tip
    /\ deciding = {}
    /\ writing = {}
    /\ risked = [log \in Logs |-> {}]
    /\ late = {}
    /\ now = 0 /\ appends = 0 /\ merges = 0

Next ==
    \/ \E c \in Clones : Decide(c)
    \/ \E d \in deciding : BeginAppend(d)
    \/ \E w \in writing : FinishAppend(w)
    \/ \E c, d \in Clones : Fetch(c, d)
    \/ \E c \in Clones, log \in Logs : FastForward(c, log) \/ Merge(c, log)
    \/ Tick

Spec == Init /\ [][Next]_vars

-----------------------------------------------------------------------------
(* The note an answer among these lines was written under.                 *)
NotesUnder(answer, lines) == {l \in lines : l.kind = "comment" /\ l.id = answer.target}

Orphans(lines) == {l \in lines : l.kind = "resolve" /\ NotesUnder(l, lines) = {}}

(* A clone can read its log, whatever a newer build added to it, as long   *)
(* as every answer has its note; and nothing takes a note from under its   *)
(* answer but an append that had read the log before the note was there:   *)
(* no merge, no fetch, and no command that decided on what was gone when   *)
(* git came to write.  (snapshot.rs read, Proposal::fold, note_append)     *)
OnlyRacesStopReading ==
    \A c \in Clones : \A lines \in {ToSet(LinesIn(c, "records"))} :
        /\ Review(c).ok <=> Orphans(lines) = {}
        /\ \A answer \in Orphans(lines) : NotesUnder(answer, risked["records"]) # {}

(* Two clones that hold the same lines read the same review out of them,   *)
(* although merging orders lines as text: what is open, where it lands and *)
(* whether it ended.  Moves within one second are ordered by their place,  *)
(* and so is an ending decided on before another one was there and written *)
(* after it.  (snapshot.rs moves and end, Proposal::fold)                  *)
SameLinesSameReview ==
    \A c \in Clones : \A d \in Clones \ {c} :
        LET events == ToSet(LinesIn(c, "events"))
            moves  == {l \in events : l.kind = "retargeted"}
        IN  (/\ \A log \in Logs : ToSet(LinesIn(c, log)) = ToSet(LinesIn(d, log))
             /\ \A m, n \in moves : m.at = n.at => m = n
             /\ late \cap events = {})
            => \A here \in {Review(c)}, there \in {Review(d)} :
                  /\ here.ok = there.ok
                  /\ here.ok => /\ here.state = there.state
                                /\ here.target = there.target
                                /\ Conversation(here) = Conversation(there)
                                /\ OpenComments(here) = OpenComments(there)

(* A line that was written is in every version that descends from it, in   *)
(* whatever clone: only an append that read the note before the line was   *)
(* there, and wrote it after, undoes it.  (Repo::note_append, configure)   *)
AppendsAreNotUndone ==
    \A log \in Logs : \A v \in DOMAIN versions[log] : \A u \in versions[log][v].past :
        ToSet(LinesAt(log, u)) \subseteq ToSet(LinesAt(log, v)) \cup risked[log]

(* The same annotation written twice, in one clone or in two, is one: a    *)
(* review never shows two notes that say the same.  (identity.rs:51)       *)
OneNoteOnce ==
    \A c \in Clones : \A p \in {Review(c)} :
        p.ok => \A i, j \in DOMAIN p.comments :
            [p.comments[i] EXCEPT !.id = Absent] = [p.comments[j] EXCEPT !.id = Absent] => i = j

=============================================================================
