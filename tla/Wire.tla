--------------------------------- MODULE Wire ---------------------------------
(***************************************************************************)
(* The lines on disk: crates/review/src/wire.  A record becomes one flat   *)
(* line, every field of every kind in a fixed order and blank when the     *)
(* kind has no use for it, and a line becomes a record by running the      *)
(* constructors again.                                                     *)
(*                                                                         *)
(* A text is a member of Text; `trim` is what str::trim makes of it.  The  *)
(* moment of a line is a number, NoMoment when the line has none.          *)
(*                                                                         *)
(* Abstracted: `anchor` stands for file, side, start and end (Page has the *)
(* rules of a span), `decision` for the four fields a decision must fill   *)
(* and `rejected` for the two it may leave out, `name` for name and        *)
(* seconds, `task` for the closed set of tasks.  Ceilings on the length of *)
(* a text, and text that is not JSON, which no build writes, are left out. *)
(***************************************************************************)
EXTENDS Integers, Sequences

CONSTANTS Text,       \* what a person, an agent or a build can put in a field
          trim,       \* [Text -> Text]
          Shas,       \* full commit names
          Anchors,    \* a file, a side and a span of at least one line
          Branches,   \* names Branch::parse accepts
          Digest(_)   \* the hash derive_id takes of a line

Version  == 1
NoMoment == -1
Absent   == ""

ASSUME WireAssumption ==
    /\ Text \subseteq STRING /\ Absent \in Text
    /\ trim \in [Text -> Text]
    /\ trim[Absent] = Absent
    /\ \A s \in Text : trim[trim[s]] = trim[s]
    /\ \A set \in {Shas, Anchors, Branches} : set \subseteq STRING /\ Absent \notin set

Ids      == STRING \ {Absent}
Said     == {trim[s] : s \in Text} \ {Absent}
Maybe    == Said \cup {Absent}
Tasks    == {"apply", "rebase", "check"}
Statuses == {"passed", "failed"}
Moments  == Nat

Named     == {"comment", "rationale", "reply", "resolve"}
Kinds     == Named \cup {"check", "chunk", "work", "dispatch"}
TaskPhases == {"started", "finished", "failed", "cleared"}
EventKinds == {"opened", "landed", "abandoned", "retargeted"}

-----------------------------------------------------------------------------
(* What the constructors let through. *)

Notes       == [kind : {"comment", "rationale"}, id : Ids, rev : Shas, anchor : Anchors,
                body : Said, author : Said, at : Moments]
Replies     == [kind : {"reply"}, id : Ids, target : Ids, rev : Shas, body : Said,
                author : Said, at : Moments]
Resolutions == [kind : {"resolve"}, id : Ids, target : Ids, author : Said, at : Moments]
Verdicts    == [kind : {"check"}, name : Said, passed : BOOLEAN, rev : Shas,
                author : Said, at : Moments]
Decisions   == [kind : {"chunk"}, decision : Said, rejected : Maybe,
                anchor : Anchors \cup {Absent}]
WorkLines   == [kind : {"work"}, task : Tasks, phase : TaskPhases, body : Maybe, rev : Shas,
                author : Said, at : Moments]
Asks        == [kind : {"dispatch"}, rev : Shas, author : Said, at : Moments]

Records == Notes \cup Replies \cup Resolutions \cup Verdicts \cup Decisions
           \cup WorkLines \cup Asks

Openings    == [kind : {"opened"}, id : Ids, title : Said, target : Branches, base : Shas,
                author : Said, at : Moments]
Endings     == [kind : {"landed", "abandoned"}, id : Ids, author : Said, at : Moments]
Retargets   == [kind : {"retargeted"}, id : Ids, target : Branches, author : Said, at : Moments]

Events == Openings \cup Endings \cup Retargets

-----------------------------------------------------------------------------
(* Writing. *)

Plain ==
    [v |-> Version, kind |-> Absent, id |-> Absent, target |-> Absent, rev |-> Absent,
     anchor |-> Absent, body |-> Absent, decision |-> Absent, rejected |-> Absent,
     task |-> Absent, phase |-> Absent, name |-> Absent, status |-> Absent,
     author |-> Absent, at |-> NoMoment]

Signed(r) == [Plain EXCEPT !.kind = r.kind, !.author = r.author, !.at = r.at]

NoteLine(r)       == [Signed(r) EXCEPT !.id = r.id, !.rev = r.rev, !.anchor = r.anchor,
                                       !.body = r.body]
ReplyLine(r)      == [Signed(r) EXCEPT !.id = r.id, !.target = r.target, !.rev = r.rev,
                                       !.body = r.body]
ResolutionLine(r) == [Signed(r) EXCEPT !.id = r.id, !.target = r.target]
VerdictLine(r)    == [Signed(r) EXCEPT !.rev = r.rev, !.name = r.name,
                                       !.status = IF r.passed THEN "passed" ELSE "failed"]
DecisionLine(r)   == [Plain EXCEPT !.kind = r.kind, !.anchor = r.anchor,
                                   !.decision = r.decision, !.rejected = r.rejected]
WorkLineOf(r)     == [Signed(r) EXCEPT !.rev = r.rev, !.body = r.body, !.task = r.task,
                                       !.phase = r.phase]
AskLine(r)        == [Signed(r) EXCEPT !.rev = r.rev]

ToLine(r) ==
    CASE r.kind \in {"comment", "rationale"} -> NoteLine(r)
      [] r.kind = "reply"    -> ReplyLine(r)
      [] r.kind = "resolve"  -> ResolutionLine(r)
      [] r.kind = "check"    -> VerdictLine(r)
      [] r.kind = "chunk"    -> DecisionLine(r)
      [] r.kind = "work"     -> WorkLineOf(r)
      [] r.kind = "dispatch" -> AskLine(r)

(* A record is named after what is inside it: its line, with no name yet.  *)
WithId(r) == [r EXCEPT !.id = Digest([ToLine(r) EXCEPT !.id = Absent])]

-----------------------------------------------------------------------------
(* Reading. *)

Accept(r)   == [ok |-> TRUE, record |-> r, why |-> "read"]
Refuse(why) == [ok |-> FALSE, why |-> why]

(* The name a record was written with, whatever this build would derive.   *)
StoredId(line, r) == IF line.id = Absent THEN WithId(r) ELSE r

Readable(line) ==
    /\ line.kind # "chunk" => trim[line.author] # Absent
    /\ line.kind \in Named => line.id = Absent \/ line.id \in Ids
    /\ line.kind \in Kinds \ {"resolve", "chunk"} => line.rev \in Shas
    /\ line.kind \in {"comment", "rationale"} => line.anchor \in Anchors
    /\ line.kind \in {"comment", "rationale", "reply"} => trim[line.body] # Absent
    /\ line.kind \in {"reply", "resolve"} => line.target \in Ids
    /\ line.kind = "check" => trim[line.name] # Absent /\ line.status \in Statuses
    /\ line.kind = "chunk" => /\ trim[line.decision] # Absent
                              /\ line.anchor \in Anchors \cup {Absent}
    /\ line.kind = "work" => line.task \in Tasks /\ line.phase \in TaskPhases

NoteOf(line)     == [kind |-> line.kind, id |-> line.id, rev |-> line.rev,
                     anchor |-> line.anchor, body |-> trim[line.body],
                     author |-> trim[line.author], at |-> line.at]
ReplyOf(line)    == [kind |-> "reply", id |-> line.id, target |-> line.target,
                     rev |-> line.rev, body |-> trim[line.body],
                     author |-> trim[line.author], at |-> line.at]
ResolutionOf(line) == [kind |-> "resolve", id |-> line.id, target |-> line.target,
                       author |-> trim[line.author], at |-> line.at]
VerdictOf(line)  == [kind |-> "check", name |-> trim[line.name],
                     passed |-> line.status = "passed", rev |-> line.rev,
                     author |-> trim[line.author], at |-> line.at]
DecisionOf(line) == [kind |-> "chunk", decision |-> trim[line.decision],
                     rejected |-> trim[line.rejected], anchor |-> line.anchor]
WorkOf(line)     == [kind |-> "work", task |-> line.task, phase |-> line.phase,
                     body |-> trim[line.body], rev |-> line.rev,
                     author |-> trim[line.author], at |-> line.at]
AskOf(line)      == [kind |-> "dispatch", rev |-> line.rev,
                     author |-> trim[line.author], at |-> line.at]

RecordOf(line) ==
    CASE line.kind \in {"comment", "rationale"} -> StoredId(line, NoteOf(line))
      [] line.kind = "reply"    -> StoredId(line, ReplyOf(line))
      [] line.kind = "resolve"  -> StoredId(line, ResolutionOf(line))
      [] line.kind = "check"    -> VerdictOf(line)
      [] line.kind = "chunk"    -> DecisionOf(line)
      [] line.kind = "work"     -> WorkOf(line)
      [] line.kind = "dispatch" -> AskOf(line)

(* Record::parse_line.  The moment is read before the kind is looked at.   *)
ParseLine(line) ==
    IF line.v # Version THEN Refuse("version")
    ELSE IF line.kind # "chunk" /\ line.at \notin Moments THEN Refuse("malformed")
    ELSE IF line.kind \notin Kinds THEN Refuse("unknown kind")
    ELSE IF ~Readable(line) THEN Refuse("invalid")
    ELSE Accept(RecordOf(line))

-----------------------------------------------------------------------------
(* The log of a proposal's life is a smaller shape. *)

PlainEvent ==
    [v |-> Version, kind |-> Absent, id |-> Absent, title |-> Absent, target |-> Absent,
     base |-> Absent, author |-> Absent, at |-> NoMoment]

EventLine(e) ==
    LET common == [PlainEvent EXCEPT !.kind = e.kind, !.id = e.id, !.author = e.author,
                                     !.at = e.at]
    IN  CASE e.kind = "opened" ->
               [common EXCEPT !.title = e.title, !.target = e.target, !.base = e.base]
          [] e.kind = "retargeted" -> [common EXCEPT !.target = e.target]
          [] e.kind \in {"landed", "abandoned"} -> common

EventOf(line) ==
    LET author == trim[line.author]
    IN  CASE line.kind = "opened" ->
               [kind |-> "opened", id |-> line.id, title |-> trim[line.title],
                target |-> line.target, base |-> line.base, author |-> author, at |-> line.at]
          [] line.kind = "retargeted" ->
               [kind |-> "retargeted", id |-> line.id, target |-> line.target,
                author |-> author, at |-> line.at]
          [] line.kind \in {"landed", "abandoned"} ->
               [kind |-> line.kind, id |-> line.id, author |-> author, at |-> line.at]

(* Event::parse_line: moment, name and author come before the kind.        *)
ParseEvent(line) ==
    IF line.v # Version THEN Refuse("version")
    ELSE IF line.at \notin Moments THEN Refuse("malformed")
    ELSE IF line.id \notin Ids \/ trim[line.author] = Absent THEN Refuse("invalid")
    ELSE IF line.kind \notin EventKinds THEN Refuse("unknown kind")
    ELSE IF \/ line.kind = "opened" /\ trim[line.title] = Absent
            \/ line.kind = "opened" /\ line.base \notin Shas
            \/ line.kind \in {"opened", "retargeted"} /\ line.target \notin Branches
         THEN Refuse("invalid")
    ELSE Accept(EventOf(line))

=============================================================================
